---------------------------- MODULE RateLimiter ----------------------------
(***************************************************************************)
(* The sliding-window limiter that guards chat, login and registration     *)
(* (security/rate_limit.py).  Per key, Redis keeps a sorted set of the     *)
(* times at which calls were made, in milliseconds.  A call reads the      *)
(* clock in Python, and some time later Redis runs, as one MULTI, the      *)
(* removal of what is a window old, the insertion of the call, the count   *)
(* and the EXPIRE.  Between the two, calls with later times may have been  *)
(* counted already.  The time is the member as well as its score: calls of *)
(* one key in the same millisecond are one hit.                            *)
(*                                                                         *)
(* A caller makes one call: a client that tries again is another caller.   *)
(* API and Redis are on one clock, and Redis keeps what it was told: after *)
(* a restart of Redis the hits of the last window may be missing, and none *)
(* of this holds until a window has passed.                                *)
(***************************************************************************)
EXTENDS Integers, FiniteSets

CONSTANTS
    Keys,      \* what is limited: chat:<user>, login:<ip>, register:<ip>
    Callers,   \* the calls that are made
    KeyOf,     \* KeyOf[c]: the key call c counts against
    Limit,     \* calls of one key that a window allows
    Window,    \* the window's length
    Slack,     \* what a key lives on after the window of its last call
    MaxDelay,  \* the longest time from reading the clock to Redis' MULTI
    MaxTime    \* bound: the clock stops

ASSUME LimiterAssumption ==
    /\ KeyOf \in [Callers -> Keys]
    /\ Limit \in Nat /\ Window \in Nat \ {0} /\ Slack \in Nat
    /\ MaxDelay \in Nat /\ MaxTime \in Nat

VARIABLES
    now,    \* the clock, in milliseconds
    hits,   \* hits[k]: the sorted set of key k, as last written
    dies,   \* dies[k]: when key k expires
    call    \* call[c]: how far call c is, and the time it read

limiterVars == <<now, hits, dies, call>>

Times  == 0..MaxTime
Phases == {"outside", "stamped", "allowed", "refused", "waved"}

LimiterInit ==
    /\ now = 0
    /\ hits = [k \in Keys |-> {}]
    /\ dies = [k \in Keys |-> 0]
    /\ call = [c \in Callers |-> [at |-> "outside", stamp |-> 0]]

-----------------------------------------------------------------------------
\* The clock waits for no call but those MaxDelay old
Tick ==
    /\ now < MaxTime
    /\ \A c \in Callers : call[c].at = "stamped" => now < call[c].stamp + MaxDelay
    /\ now' = now + 1
    /\ UNCHANGED <<hits, dies, call>>

Stamp(c) ==
    /\ call[c].at = "outside"
    /\ call' = [call EXCEPT ![c] = [at |-> "stamped", stamp |-> now]]
    /\ UNCHANGED <<now, hits, dies>>

\* What Redis still has of key k: nothing once the key has expired
Alive(k) == IF now < dies[k] THEN hits[k] ELSE {}

\* (mutant: everything that is left counts)
TrimsNothing(k, cutoff) == Alive(k)

\* What ZREMRANGEBYSCORE -inf..cutoff leaves
Trimmed(k, cutoff) == {t \in Alive(k) : t > cutoff}

Counted(c) == Trimmed(KeyOf[c], call[c].stamp - Window) \cup {call[c].stamp}

Verdict(n) == IF n <= Limit THEN "allowed" ELSE "refused"

\* (mutant: the expiry is set with the first call of a window only)
RecordsOnce(c) ==
    /\ hits' = [hits EXCEPT ![KeyOf[c]] = Counted(c)]
    /\ dies' = [dies EXCEPT ![KeyOf[c]] = IF now < @ THEN @ ELSE now + Window + Slack]

\* The MULTI: refused calls stay in the set and count against later ones
Record(c) ==
    /\ hits' = [hits EXCEPT ![KeyOf[c]] = Counted(c)]
    /\ dies' = [dies EXCEPT ![KeyOf[c]] = now + Window + Slack]

Decide(c) ==
    /\ call[c].at = "stamped"
    /\ Record(c)
    /\ call' = [call EXCEPT ![c].at = Verdict(Cardinality(Counted(c)))]
    /\ UNCHANGED now

\* Redis fails, before the MULTI or when it answers: the call goes through
FailOpen(c) ==
    /\ call[c].at = "stamped"
    /\ \/ UNCHANGED <<hits, dies>>
       \/ Record(c)
    /\ call' = [call EXCEPT ![c].at = "waved"]
    /\ UNCHANGED now

LimiterNext ==
    \/ Tick
    \/ \E c \in Callers : Stamp(c) \/ Decide(c) \/ FailOpen(c)

LimiterSpec == LimiterInit /\ [][LimiterNext]_limiterVars

LetThrough(c) == call[c].at \in {"allowed", "waved"}

-----------------------------------------------------------------------------
(* Properties *)

\* The clock, the hits, their expiry and the calls have their types, and
\* nothing is from the future.
LimiterTypeOK ==
    /\ now \in Times
    /\ hits \in [Keys -> SUBSET Times]
    /\ dies \in [Keys -> Nat]
    /\ call \in [Callers -> [at : Phases, stamp : Times]]

\* The phases of calls that are recorded, or may be
Recorded == {"allowed", "refused", "waved"}

StampsOf(k, phases) ==
    {call[c].stamp : c \in {d \in Callers : KeyOf[d] = k /\ call[d].at \in phases}}

\* check_rate_limit lets at most Limit calls of a key through in any window,
\* though calls reach Redis in another order than they read the clock and a
\* later one's removal comes first: the window is short of Window by the
\* delay, and calls of one millisecond count as one.
AtMostLimit ==
    \A k \in Keys, t \in Times :
      Cardinality(StampsOf(k, {"allowed"}) \cap (t + 1)..(t + Window - MaxDelay))
        <= Limit

\* Who is refused shared the window with more calls than Limit, or with later
\* ones: chat's "Retry-After: 3600" is never too short, as a call that had no
\* other for a window is let through.
RefusalsHaveCause ==
    \A c \in Callers :
      call[c].at = "refused" =>
        Cardinality({t \in StampsOf(KeyOf[c], Recorded) : t > call[c].stamp - Window}) > Limit

=============================================================================
