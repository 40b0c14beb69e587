------------------------ MODULE LimiterChatProofs ----------------------------
(* Proofs about RateLimiter, for any keys, calls, limit, window and delay,  *)
(* and about ChatSession, for any requests and sessions, and any number of  *)
(* exchanges the LLM is given: the two parts a question passes through.     *)
EXTENDS RateLimiter, ChatSession, FiniteSetTheorems, TLAPS

-----------------------------------------------------------------------------
(***************************************************************************)
(* RateLimiter                                                             *)
(***************************************************************************)

-----------------------------------------------------------------------------
(* The inductive invariant *)

\* A key outlives all it holds by a window
HitsInv == \A k \in Keys : \A t \in hits[k] :
             t <= now /\ t + Window + Slack <= dies[k]

CallInv == \A c \in Callers :
             /\ call[c].at # "outside" => call[c].stamp <= now
             /\ call[c].at = "stamped" => now <= call[c].stamp + MaxDelay

\* What was let through is still counted, or a window old
KeptInv == \A c \in Callers : call[c].at = "allowed" =>
             call[c].stamp \in hits[KeyOf[c]] \/ call[c].stamp + Window <= now

\* Nothing is counted that nobody called for
FromInv == \A k \in Keys : hits[k] \subseteq StampsOf(k, Recorded)

LimiterInv == LimiterTypeOK /\ HitsInv /\ CallInv /\ KeptInv /\ FromInv

-----------------------------------------------------------------------------
(* Lemmas: sets of times are finite *)

LEMMA TimesFinite ==
    ASSUME NEW S \in SUBSET Times
    PROVE  IsFiniteSet(S) /\ Cardinality(S) \in Nat
<1>1. IsFiniteSet(Times)
  BY FS_Interval, LimiterAssumption DEF Times
<1> QED BY <1>1, FS_Subset, FS_CardinalityType

LEMMA FewerTimes ==
    ASSUME NEW T \in SUBSET Times, NEW S \in SUBSET T
    PROVE  Cardinality(S) <= Cardinality(T)
BY TimesFinite, FS_Subset

\* What a call counts is made of times, itself among them
LEMMA CountedTimes ==
    ASSUME LimiterTypeOK, NEW c \in Callers
    PROVE  Counted(c) \in SUBSET Times /\ call[c].stamp \in Counted(c)
BY LimiterAssumption DEF LimiterTypeOK, Counted, Trimmed, Alive

\* The stamps of a key are times
LEMMA StampsTimes ==
    ASSUME LimiterTypeOK, NEW k \in Keys, NEW P
    PROVE  StampsOf(k, P) \in SUBSET Times
BY DEF LimiterTypeOK, StampsOf

-----------------------------------------------------------------------------
(* LimiterInv is inductive *)

LEMMA LimiterInitInv == LimiterInit => LimiterInv
<1> SUFFICES ASSUME LimiterInit PROVE LimiterInv
  OBVIOUS
<1> USE LimiterAssumption DEF LimiterInit
<1>1. LimiterTypeOK
  BY DEF LimiterTypeOK, Times, Phases
<1> QED
  BY <1>1 DEF LimiterInv, HitsInv, CallInv, KeptInv, FromInv

\* The MULTI, whatever the caller is told of it
LEMMA RecordInv ==
    ASSUME LimiterInv, NEW c \in Callers, call[c].at = "stamped", Record(c), now' = now,
           NEW p \in Recorded, call' = [call EXCEPT ![c].at = p]
    PROVE  LimiterInv'
<1> DEFINE k == KeyOf[c]
           s == call[c].stamp
<1>0. k \in Keys /\ s \in Times /\ Times \subseteq Nat /\ now \in Nat
  <2>1. k \in Keys
    BY LimiterAssumption
  <2>2. s \in Times /\ now \in Times
    BY DEF LimiterInv, LimiterTypeOK
  <2> QED BY <2>1, <2>2, LimiterAssumption DEF Times
<1>1. Counted(c) \in SUBSET Times /\ s \in Counted(c)
  BY CountedTimes DEF LimiterInv
<1>2. /\ hits' = [hits EXCEPT ![k] = Counted(c)]
      /\ dies' = [dies EXCEPT ![k] = now + Window + Slack]
      /\ Counted(c) = {t \in Alive(k) : t > s - Window} \cup {s}
  BY DEF Record, Counted, Trimmed
<1>3. \A d \in Callers : /\ call'[d].stamp = call[d].stamp
                         /\ call'[d].at = IF d = c THEN p ELSE call[d].at
  BY DEF LimiterInv, LimiterTypeOK
<1>4. \A t \in Counted(c) : t <= now
  BY <1>0, <1>2 DEF LimiterInv, HitsInv, CallInv, Alive
<1>5. LimiterTypeOK'
  <2>1. call' \in [Callers -> [at : Phases, stamp : Times]]
    BY DEF LimiterInv, LimiterTypeOK, Recorded, Phases
  <2>2. dies' \in [Keys -> Nat]
    BY <1>0, <1>2, LimiterAssumption DEF LimiterInv, LimiterTypeOK
  <2>3. hits' \in [Keys -> SUBSET Times]
    BY <1>0, <1>1, <1>2 DEF LimiterInv, LimiterTypeOK
  <2> QED BY <2>1, <2>2, <2>3 DEF LimiterInv, LimiterTypeOK
<1>6. HitsInv'
  <2> SUFFICES ASSUME NEW j \in Keys, NEW t \in hits'[j]
               PROVE  t <= now /\ t + Window + Slack <= dies'[j]
    BY DEF HitsInv
  <2>1. CASE j = k
    BY <2>1, <1>0, <1>1, <1>2, <1>4, LimiterAssumption DEF LimiterInv, LimiterTypeOK
  <2>2. CASE j # k
    BY <2>2, <1>0, <1>2 DEF LimiterInv, LimiterTypeOK, HitsInv
  <2> QED BY <2>1, <2>2
<1>7. CallInv'
  BY <1>3 DEF LimiterInv, CallInv, Recorded
<1>8. KeptInv'
  <2> SUFFICES ASSUME NEW d \in Callers, call'[d].at = "allowed"
               PROVE  \/ call[d].stamp \in hits'[KeyOf[d]]
                      \/ call[d].stamp + Window <= now
    BY <1>3 DEF KeptInv
  <2>1. CASE d = c
    BY <2>1, <1>0, <1>1, <1>2 DEF LimiterInv, LimiterTypeOK
  <2>2. CASE d # c /\ KeyOf[d] # k
    BY <2>2, <1>0, <1>2, <1>3, LimiterAssumption DEF LimiterInv, LimiterTypeOK, KeptInv
  <2>3. CASE d # c /\ KeyOf[d] = k
    <3> DEFINE x == call[d].stamp
    <3>1. x \in Times /\ (x \in hits[k] \/ x + Window <= now)
      BY <2>3, <1>3 DEF LimiterInv, LimiterTypeOK, KeptInv
    <3>2. CASE x \in hits[k] /\ now < dies[k] /\ x > s - Window
      BY <3>2, <2>3, <1>0, <1>2 DEF Alive, LimiterInv, LimiterTypeOK
    <3>3. CASE x <= s - Window
      BY <3>3, <3>1, <1>0, LimiterAssumption DEF LimiterInv, CallInv
    <3>4. CASE x \in hits[k] /\ ~(now < dies[k])
      <4>1. x + Window + Slack <= dies[k] /\ dies[k] \in Nat
        BY <3>4, <1>0 DEF LimiterInv, HitsInv, LimiterTypeOK
      <4> QED BY <4>1, <3>4, <3>1, <1>0, LimiterAssumption
    <3> QED BY <3>1, <3>2, <3>3, <3>4, <1>0, LimiterAssumption
  <2> QED BY <2>1, <2>2, <2>3
<1>9. FromInv'
  <2> SUFFICES ASSUME NEW j \in Keys, NEW t \in hits'[j]
               PROVE  \E d \in Callers : /\ KeyOf[d] = j /\ call'[d].at \in Recorded
                                         /\ call'[d].stamp = t
    BY DEF FromInv, StampsOf
  <2>1. CASE t = s /\ j = k
    BY <2>1, <1>3
  <2>2. CASE t \in hits[j]
    BY <2>2, <1>3 DEF LimiterInv, FromInv, StampsOf
  <2> QED BY <2>1, <2>2, <1>0, <1>2 DEF Alive, LimiterInv, LimiterTypeOK
<1> QED BY <1>5, <1>6, <1>7, <1>8, <1>9 DEF LimiterInv

LEMMA LimiterStepInv == LimiterInv /\ [LimiterNext]_limiterVars => LimiterInv'
<1> SUFFICES ASSUME LimiterInv, [LimiterNext]_limiterVars PROVE LimiterInv'
  OBVIOUS
<1>0. Times \subseteq Nat /\ now \in Nat
  BY LimiterAssumption DEF LimiterInv, LimiterTypeOK, Times
<1>1. CASE Tick
  <2>1. LimiterTypeOK'
    BY <1>1, <1>0, LimiterAssumption DEF Tick, LimiterInv, LimiterTypeOK, Times
  <2>2. \A c \in Callers : call[c].stamp \in Nat
    BY <1>0 DEF LimiterInv, LimiterTypeOK
  <2>3. \A k \in Keys : \A t \in hits[k] : t \in Nat
    BY <1>0 DEF LimiterInv, LimiterTypeOK
  <2>4. now' = now + 1 /\ hits' = hits /\ dies' = dies /\ call' = call
    BY <1>1 DEF Tick
  <2>5. HitsInv'
    BY <1>0, <2>3, <2>4 DEF LimiterInv, HitsInv
  <2>6. KeptInv'
    BY <1>0, <2>2, <2>4, LimiterAssumption DEF LimiterInv, KeptInv
  <2>7. FromInv'
    BY <2>4 DEF LimiterInv, FromInv, StampsOf
  <2>8. CallInv'
    <3> SUFFICES ASSUME NEW c \in Callers
                 PROVE  /\ call[c].at # "outside" => call[c].stamp <= now + 1
                        /\ call[c].at = "stamped" => now + 1 <= call[c].stamp + MaxDelay
      BY <2>4 DEF CallInv
    <3>1. call[c].at = "stamped" => now < call[c].stamp + MaxDelay
      BY <1>1 DEF Tick
    <3> QED BY <3>1, <1>0, <2>2, LimiterAssumption DEF LimiterInv, CallInv
  <2> QED BY <2>1, <2>5, <2>6, <2>7, <2>8 DEF LimiterInv
<1>2. ASSUME NEW c \in Callers, Stamp(c) PROVE LimiterInv'
  <2>0. \A d \in Callers : call'[d] = IF d = c THEN [at |-> "stamped", stamp |-> now]
                                      ELSE call[d]
    BY <1>2 DEF Stamp, LimiterInv, LimiterTypeOK
  <2>1. LimiterTypeOK'
    BY <1>2 DEF Stamp, LimiterInv, LimiterTypeOK, Phases
  <2>2. HitsInv' /\ KeptInv'
    BY <1>2, <2>0 DEF Stamp, LimiterInv, HitsInv, KeptInv
  <2>3. FromInv'
    BY <1>2, <2>0 DEF Stamp, LimiterInv, FromInv, StampsOf, Recorded
  <2>4. CallInv'
    BY <1>2, <1>0, <2>0, LimiterAssumption DEF Stamp, LimiterInv, CallInv
  <2> QED BY <2>1, <2>2, <2>3, <2>4 DEF LimiterInv
<1>3. ASSUME NEW c \in Callers, Decide(c) PROVE LimiterInv'
  <2>1. Verdict(Cardinality(Counted(c))) \in Recorded
    BY DEF Verdict, Recorded
  <2> QED BY <1>3, <2>1, RecordInv DEF Decide
<1>4. ASSUME NEW c \in Callers, FailOpen(c) PROVE LimiterInv'
  <2>1. CASE Record(c)
    BY <1>4, <2>1, RecordInv DEF FailOpen, Recorded
  <2>2. CASE UNCHANGED <<hits, dies>>
    <3>0. \A d \in Callers : /\ call'[d].stamp = call[d].stamp
                             /\ call'[d].at = IF d = c THEN "waved" ELSE call[d].at
      BY <1>4 DEF FailOpen, LimiterInv, LimiterTypeOK
    <3>1. LimiterTypeOK'
      BY <1>4, <2>2 DEF FailOpen, LimiterInv, LimiterTypeOK, Phases
    <3>2. HitsInv' /\ CallInv' /\ KeptInv'
      BY <1>4, <2>2, <3>0 DEF FailOpen, LimiterInv, HitsInv, CallInv, KeptInv
    <3>3. FromInv'
      BY <1>4, <2>2, <3>0 DEF FailOpen, LimiterInv, FromInv, StampsOf, Recorded
    <3> QED BY <3>1, <3>2, <3>3 DEF LimiterInv
  <2> QED BY <1>4, <2>1, <2>2 DEF FailOpen
<1>5. CASE UNCHANGED limiterVars
  BY <1>5 DEF limiterVars, LimiterInv, LimiterTypeOK, HitsInv, CallInv, KeptInv, FromInv, StampsOf
<1> QED BY <1>1, <1>2, <1>3, <1>4, <1>5 DEF LimiterNext

-----------------------------------------------------------------------------
(* What follows from LimiterInv, and what a step does to what follows *)

InWindow(t) == (t + 1)..(t + Window - MaxDelay)

LEMMA LimitInit == LimiterInit => AtMostLimit
<1> SUFFICES ASSUME LimiterInit, NEW k \in Keys, NEW t \in Times
             PROVE  Cardinality(StampsOf(k, {"allowed"}) \cap InWindow(t)) <= Limit
  BY DEF AtMostLimit, InWindow
<1>1. StampsOf(k, {"allowed"}) = {}
  BY DEF StampsOf, LimiterInit
<1> QED BY <1>1, FS_EmptySet, LimiterAssumption

LEMMA LimitStep ==
    LimiterInv /\ LimiterInv' /\ AtMostLimit /\ [LimiterNext]_limiterVars => AtMostLimit'
<1> SUFFICES ASSUME LimiterInv, LimiterInv', AtMostLimit, [LimiterNext]_limiterVars,
                    NEW k \in Keys, NEW t \in Times
             PROVE  Cardinality(StampsOf(k, {"allowed"})' \cap InWindow(t)) <= Limit
  BY DEF AtMostLimit, InWindow
<1> DEFINE before == StampsOf(k, {"allowed"}) \cap InWindow(t)
           after  == StampsOf(k, {"allowed"})' \cap InWindow(t)
<1>0. before \in SUBSET Times /\ after \in SUBSET Times
  BY StampsTimes DEF LimiterInv, StampsOf, LimiterTypeOK
<1>1. Cardinality(before) <= Limit
  BY DEF AtMostLimit, InWindow
<1>2. after \subseteq before => Cardinality(after) <= Limit
  BY <1>0, <1>1, FewerTimes, TimesFinite, LimiterAssumption
<1>3. CASE \A c \in Callers : call'[c].at = "allowed" =>
             call[c].at = "allowed" /\ call'[c].stamp = call[c].stamp
  BY <1>2, <1>3 DEF StampsOf
<1>4. CASE Tick \/ UNCHANGED limiterVars
  BY <1>3, <1>4 DEF Tick, limiterVars
<1>5. ASSUME NEW c \in Callers, Stamp(c) \/ FailOpen(c)
      PROVE  Cardinality(after) <= Limit
  BY <1>3, <1>5 DEF Stamp, FailOpen, LimiterInv, LimiterTypeOK
<1>6. ASSUME NEW c \in Callers, Decide(c)
      PROVE  Cardinality(after) <= Limit
  <2> DEFINE s == call[c].stamp
             n == Cardinality(Counted(c))
  <2>1. \A d \in Callers : /\ call'[d].stamp = call[d].stamp
                           /\ call'[d].at = IF d = c THEN Verdict(n) ELSE call[d].at
    BY <1>6 DEF Decide, LimiterInv, LimiterTypeOK
  <2>2. CASE Verdict(n) # "allowed"
    BY <1>3, <2>1, <2>2
  <2>3. CASE KeyOf[c] # k \/ s \notin InWindow(t)
    <3>1. after \subseteq before
      BY <2>1, <2>3 DEF StampsOf
    <3> QED BY <3>1, <1>2
  <2>4. CASE Verdict(n) = "allowed" /\ KeyOf[c] = k /\ s \in InWindow(t)
    <3>1. n <= Limit
      BY <2>4 DEF Verdict
    <3>2. Counted(c) \in SUBSET Times /\ s \in Counted(c) /\ Times \subseteq Nat
      BY CountedTimes DEF LimiterInv, Times
    <3>3. now \in Nat /\ now <= s + MaxDelay /\ s \in Nat /\ t \in Nat
      BY <1>6, <3>2 DEF Decide, LimiterInv, CallInv, LimiterTypeOK
    <3>4. ASSUME NEW x \in after PROVE x \in Counted(c)
      <4>1. PICK d \in Callers : KeyOf[d] = k /\ call'[d].at = "allowed" /\ call[d].stamp = x
        BY <2>1 DEF StampsOf
      <4>2. x \in Nat /\ x + Window > s + MaxDelay
        BY <1>0, <2>4, <3>2, <3>3, LimiterAssumption DEF InWindow
      <4>3. d = c \/ x \in hits[k]
        BY <2>1, <4>1, <4>2, <3>3, LimiterAssumption DEF LimiterInv, KeptInv
      <4>4. x \in hits[k] => now < dies[k]
        BY <4>2, <3>3, LimiterAssumption DEF LimiterInv, HitsInv, LimiterTypeOK
      <4> QED
        BY <2>4, <3>2, <3>3, <4>1, <4>2, <4>3, <4>4, LimiterAssumption
        DEF Counted, Trimmed, Alive
    <3>5. Cardinality(after) <= n
      BY <3>2, <3>4, FewerTimes
    <3> QED
      BY <3>1, <3>2, <3>5, <1>0, TimesFinite, LimiterAssumption
  <2> QED BY <2>2, <2>3, <2>4
<1> QED BY <1>4, <1>5, <1>6 DEF LimiterNext

-----------------------------------------------------------------------------
(* Refusals *)

Younger(c) == {t \in StampsOf(KeyOf[c], Recorded) : t > call[c].stamp - Window}

LEMMA CauseStep ==
    LimiterInv /\ LimiterInv' /\ RefusalsHaveCause /\ [LimiterNext]_limiterVars
      => RefusalsHaveCause'
<1> SUFFICES ASSUME LimiterInv, LimiterInv', RefusalsHaveCause, [LimiterNext]_limiterVars,
                    NEW c \in Callers, call'[c].at = "refused"
             PROVE  Cardinality(Younger(c)') > Limit
  BY DEF RefusalsHaveCause, Younger
<1>0. KeyOf[c] \in Keys /\ Times \subseteq Nat
  BY LimiterAssumption DEF Times
<1>1. Younger(c) \in SUBSET Times /\ Younger(c)' \in SUBSET Times
  BY <1>0, StampsTimes DEF LimiterInv, Younger, StampsOf, LimiterTypeOK
<1>2. ASSUME NEW d \in Callers
      PROVE  /\ call[d].at \in Recorded => call'[d] = call[d]
             /\ call[d].at \notin Recorded /\ call'[d].at \in Recorded =>
                  /\ call'[d].stamp = call[d].stamp
                  /\ Decide(d) \/ FailOpen(d)
  <2>1. CASE Tick \/ UNCHANGED limiterVars
    BY <2>1 DEF Tick, limiterVars
  <2>2. ASSUME NEW e \in Callers, Stamp(e) \/ Decide(e) \/ FailOpen(e)
        PROVE  /\ call[e].at \notin Recorded
               /\ d # e => call'[d] = call[d]
               /\ Stamp(e) => call'[e].at = "stamped"
               /\ Decide(e) \/ FailOpen(e) => call'[e].stamp = call[e].stamp
    BY <2>2 DEF Stamp, Decide, FailOpen, Recorded, LimiterInv, LimiterTypeOK
  <2> QED BY <2>1, <2>2 DEF LimiterNext, Recorded
<1>3. CASE call[c].at = "refused"
  <2>1. Cardinality(Younger(c)) > Limit
    BY <1>3 DEF RefusalsHaveCause, Younger
  <2>2. Younger(c) \subseteq Younger(c)'
    BY <1>2, <1>3 DEF Younger, StampsOf, Recorded
  <2> QED BY <2>1, <2>2, <1>1, FewerTimes, TimesFinite, LimiterAssumption
<1>4. CASE call[c].at # "refused"
  <2>1. Decide(c) /\ call'[c].stamp = call[c].stamp
    BY <1>2, <1>4 DEF Recorded, FailOpen, LimiterInv, LimiterTypeOK
  <2>2. Cardinality(Counted(c)) > Limit
    <3>1. Verdict(Cardinality(Counted(c))) = "refused"
      BY <2>1 DEF Decide, LimiterInv, LimiterTypeOK
    <3>2. Cardinality(Counted(c)) \in Nat
      BY CountedTimes, TimesFinite DEF LimiterInv
    <3> QED BY <3>1, <3>2, LimiterAssumption DEF Verdict
  <2>3. Counted(c) \subseteq Younger(c)'
    <3>1. hits'[KeyOf[c]] = Counted(c)
      BY <2>1, <1>0 DEF Decide, Record, LimiterInv, LimiterTypeOK
    <3>2. Counted(c) \subseteq StampsOf(KeyOf[c], Recorded)'
      BY <3>1, <1>0 DEF LimiterInv, FromInv
    <3>3. call[c].stamp \in Nat
      BY <1>0 DEF LimiterInv, LimiterTypeOK
    <3>4. call[c].stamp > call[c].stamp - Window
      BY <3>3, LimiterAssumption
    <3> QED BY <3>2, <3>4, <2>1 DEF Younger, Counted, Trimmed
  <2> QED BY <2>2, <2>3, <1>1, FewerTimes, TimesFinite, CountedTimes, LimiterAssumption
          DEF LimiterInv
<1> QED BY <1>3, <1>4

-----------------------------------------------------------------------------
(* Theorems *)

\* The limiter's state has its types and its clock is ahead of all it holds.
THEOREM LimiterTypeCorrect == LimiterSpec => []LimiterTypeOK
<1>1. LimiterInv => LimiterTypeOK
  BY DEF LimiterInv
<1> QED BY <1>1, LimiterInitInv, LimiterStepInv, PTL DEF LimiterSpec

\* check_rate_limit: at most Limit calls of a key in any window short of
\* Window by the delay, for any limit, window, delay and number of calls.
THEOREM LimitHolds == LimiterSpec => []AtMostLimit
BY LimiterInitInv, LimiterStepInv, LimitInit, LimitStep, PTL DEF LimiterSpec

\* Nobody is refused who had the window to itself: the calls that fill it
\* were made, and what is counted is what was called.
THEOREM RefusalsCaused == LimiterSpec => []RefusalsHaveCause
<1>1. LimiterInit => RefusalsHaveCause
  BY DEF LimiterInit, RefusalsHaveCause
<1> QED BY <1>1, LimiterInitInv, LimiterStepInv, CauseStep, PTL DEF LimiterSpec

-----------------------------------------------------------------------------
(***************************************************************************)
(* ChatSession                                                             *)
(***************************************************************************)

-----------------------------------------------------------------------------
(* The inductive invariant: a list q, a stored history or a copy, of s      *)

Coherent(q) ==
    \A i \in 1..Len(q) : q[i].llm => q[i].seen = Recent(q, i - 1)

\* Of the requests answered so far, in the order A
Among(c, A)   == \E n \in 1..Len(A) : A[n] = c
InOrder(a, b, A) == \E i, j \in 1..Len(A) : i < j /\ A[i] = a /\ A[j] = b

\* q is of session s, and as far as it goes in the order of the answers
Faithful(q, s, A) ==
    /\ \A i \in 1..Len(q) : SessionOf[q[i].by] = s /\ Among(q[i].by, A)
    /\ \A i, j \in 1..Len(q) : i < j => InOrder(q[i].by, q[j].by, A)

Complete(q, s, A) ==
    \A i \in 1..Len(A) : SessionOf[A[i]] = s => \E j \in 1..Len(q) : q[j].by = A[i]

ChatInv ==
    /\ ChatTypeOK
    /\ \A s \in Sessions : Coherent(history[s]) /\ Faithful(history[s], s, answered)
    /\ \A c \in Askers : /\ Coherent(turn[c].copy)
                         /\ Faithful(turn[c].copy, SessionOf[c], answered)
    /\ \A s \in Sessions \ spoilt : Complete(history[s], s, answered)

-----------------------------------------------------------------------------
(* Lemmas: what a longer list keeps *)

LEMMA Appended ==
    ASSUME NEW S, NEW q \in Seq(S), NEW e \in S
    PROVE  /\ Append(q, e) \in Seq(S) /\ Len(Append(q, e)) = Len(q) + 1
           /\ Len(q) \in Nat
           /\ \A i \in 1..Len(q) : Append(q, e)[i] = q[i]
           /\ Append(q, e)[Len(q) + 1] = e
OBVIOUS

LEMMA RecentStays ==
    ASSUME NEW q \in Seq(Exchange), NEW e \in Exchange, NEW n \in 0..Len(q)
    PROVE  Recent(Append(q, e), n) = Recent(q, n)
BY Appended DEF Recent

LEMMA CoherentAppend ==
    ASSUME NEW q \in Seq(Exchange), Coherent(q), NEW e \in Exchange,
           e.llm => e.seen = Recent(q, Len(q))
    PROVE  Coherent(Append(q, e))
<1> SUFFICES ASSUME NEW i \in 1..Len(Append(q, e)), Append(q, e)[i].llm
             PROVE  Append(q, e)[i].seen = Recent(Append(q, e), i - 1)
  BY DEF Coherent
<1>1. i - 1 \in 0..Len(q) /\ Recent(Append(q, e), i - 1) = Recent(q, i - 1)
  BY Appended, RecentStays
<1>2. CASE i \in 1..Len(q)
  BY <1>1, <1>2, Appended DEF Coherent
<1>3. CASE i = Len(q) + 1
  <2>1. Append(q, e)[i] = e /\ i - 1 = Len(q)
    BY <1>3, Appended
  <2> QED BY <1>1, <2>1
<1> QED BY <1>2, <1>3, Appended

\* The empty list is all of these, as long as nobody was answered
LEMMA EmptyList ==
    ASSUME NEW s, NEW A
    PROVE  Coherent(<<>>) /\ Faithful(<<>>, s, A) /\ Complete(<<>>, s, <<>>)
BY DEF Coherent, Faithful, Complete

LEMMA RecentAskers ==
    ASSUME NEW q \in Seq(Exchange), NEW n \in 0..Len(q)
    PROVE  Recent(q, n) \in SUBSET Askers
<1>1. \A i \in 1..Len(q) : q[i] \in Exchange
  OBVIOUS
<1>2. \A i \in 1..n : i \in 1..Len(q)
  OBVIOUS
<1> QED BY <1>1, <1>2 DEF Recent, Exchange

LEMMA InOrderMore ==
    ASSUME NEW A \in Seq(Askers), NEW c \in Askers
    PROVE  /\ Among(c, Append(A, c))
           /\ \A a : Among(a, A) => Among(a, Append(A, c)) /\ InOrder(a, c, Append(A, c))
           /\ \A a, b : InOrder(a, b, A) => InOrder(a, b, Append(A, c))
<1> DEFINE B == Append(A, c)
<1>0. /\ Len(B) = Len(A) + 1 /\ Len(A) \in Nat /\ B[Len(A) + 1] = c
      /\ \A i \in 1..Len(A) : i \in 1..Len(B) /\ B[i] = A[i] /\ i < Len(A) + 1
  BY Appended
<1> HIDE DEF B
<1>1. Len(A) + 1 \in 1..Len(B)
  BY <1>0
<1>2. Among(c, B)
  BY <1>0, <1>1 DEF Among
<1>3. \A a : Among(a, A) => Among(a, B) /\ InOrder(a, c, B)
  BY <1>0, <1>1 DEF Among, InOrder
<1>4. \A a, b : InOrder(a, b, A) => InOrder(a, b, B)
  BY <1>0 DEF InOrder
<1> QED BY <1>2, <1>3, <1>4 DEF B

LEMMA FaithfulStays ==
    ASSUME NEW A \in Seq(Askers), NEW c \in Askers, NEW q, NEW s, Faithful(q, s, A)
    PROVE  Faithful(q, s, Append(A, c))
BY InOrderMore DEF Faithful

LEMMA FaithfulAppend ==
    ASSUME NEW A \in Seq(Askers), NEW c \in Askers, NEW q \in Seq(Exchange),
           NEW e \in Exchange, Faithful(q, SessionOf[c], A), e.by = c
    PROVE  Faithful(Append(q, e), SessionOf[c], Append(A, c))
<1> DEFINE r == Append(q, e)
           B == Append(A, c)
           s == SessionOf[c]
<1>0. /\ Len(r) = Len(q) + 1 /\ Len(q) \in Nat /\ r[Len(q) + 1] = e
      /\ \A i \in 1..Len(q) : r[i] = q[i]
  BY Appended
<1>1. Faithful(q, s, B) /\ Among(c, B)
  BY FaithfulStays, InOrderMore
<1>2. \A i \in 1..Len(q) : InOrder(q[i].by, c, B)
  BY InOrderMore DEF Faithful
<1> HIDE DEF r, B
<1>3. ASSUME NEW i \in 1..Len(r) PROVE SessionOf[r[i].by] = s /\ Among(r[i].by, B)
  <2>1. CASE i \in 1..Len(q)
    BY <2>1, <1>0, <1>1 DEF Faithful
  <2>2. CASE i = Len(q) + 1
    BY <2>2, <1>0, <1>1
  <2> QED BY <2>1, <2>2, <1>0
<1>4. ASSUME NEW i \in 1..Len(r), NEW j \in 1..Len(r), i < j
      PROVE  InOrder(r[i].by, r[j].by, B)
  <2>1. i \in 1..Len(q) /\ r[i] = q[i]
    BY <1>0, <1>4
  <2>2. CASE j \in 1..Len(q)
    BY <2>1, <2>2, <1>0, <1>1, <1>4 DEF Faithful
  <2>3. CASE j = Len(q) + 1
    BY <2>1, <2>3, <1>0, <1>2
  <2> QED BY <2>2, <2>3, <1>0
<1> QED BY <1>3, <1>4 DEF Faithful, r, B

\* An answer in a session other than s leaves s complete
LEMMA CompleteStays ==
    ASSUME NEW A \in Seq(Askers), NEW c \in Askers, NEW q, NEW s,
           Complete(q, s, A), SessionOf[c] # s
    PROVE  Complete(q, s, Append(A, c))
<1>1. /\ Len(Append(A, c)) = Len(A) + 1 /\ Len(A) \in Nat
      /\ \A i \in 1..Len(A) : Append(A, c)[i] = A[i]
      /\ Append(A, c)[Len(A) + 1] = c
  BY Appended
<1> SUFFICES ASSUME NEW i \in 1..Len(Append(A, c)), SessionOf[Append(A, c)[i]] = s
             PROVE  \E j \in 1..Len(q) : q[j].by = Append(A, c)[i]
  BY DEF Complete
<1>2. i \in 1..Len(A)
  BY <1>1
<1> QED BY <1>1, <1>2 DEF Complete

LEMMA CompleteAppend ==
    ASSUME NEW A \in Seq(Askers), NEW c \in Askers, NEW q \in Seq(Exchange),
           NEW e \in Exchange, NEW s, Complete(q, s, A), e.by = c
    PROVE  Complete(Append(q, e), s, Append(A, c))
<1> DEFINE r == Append(q, e)
           B == Append(A, c)
<1>0. /\ Len(r) = Len(q) + 1 /\ Len(q) \in Nat /\ r[Len(q) + 1] = e
      /\ \A i \in 1..Len(q) : r[i] = q[i]
  BY Appended
<1>1. /\ Len(B) = Len(A) + 1 /\ Len(A) \in Nat /\ B[Len(A) + 1] = c
      /\ \A i \in 1..Len(A) : B[i] = A[i]
  BY Appended
<1> HIDE DEF r, B
<1>2. ASSUME NEW i \in 1..Len(B), SessionOf[B[i]] = s
      PROVE  \E j \in 1..Len(r) : r[j].by = B[i]
  <2>1. CASE i = Len(A) + 1
    BY <2>1, <1>0, <1>1
  <2>2. CASE i \in 1..Len(A)
    <3>1. PICK j \in 1..Len(q) : q[j].by = A[i]
      BY <1>1, <1>2, <2>2 DEF Complete
    <3> QED BY <3>1, <2>2, <1>0, <1>1
  <2> QED BY <2>1, <2>2, <1>1
<1> QED BY <1>2 DEF Complete, r, B

-----------------------------------------------------------------------------
(* ChatInv is inductive *)

LEMMA ChatInitInv == ChatInit => ChatInv
<1> SUFFICES ASSUME ChatInit PROVE ChatInv
  OBVIOUS
<1>1. ChatTypeOK
  BY DEF ChatInit, ChatTypeOK
<1> QED BY <1>1, EmptyList, ChatAssumption DEF ChatInit, ChatInv

\* What Answer appends: an exchange of c that follows from the copy
LEMMA AnswersRight ==
    ASSUME ChatTypeOK, NEW c \in Askers, NEW e \in Answers(c)
    PROVE  /\ e \in Exchange /\ e.by = c
           /\ e.llm => e.seen = Recent(turn[c].copy, Len(turn[c].copy))
<1> DEFINE q == turn[c].copy
<1>1. q \in Seq(Exchange)
  BY DEF ChatTypeOK
<1>2. Recent(q, Len(q)) \in SUBSET Askers
  BY <1>1, RecentAskers
<1>3. CASE e = [by |-> c, llm |-> TRUE, seen |-> Recent(q, Len(q))]
  BY <1>2, <1>3 DEF Exchange
<1>4. CASE e = [by |-> c, llm |-> FALSE, seen |-> {}]
  BY <1>4 DEF Exchange
<1> QED BY <1>3, <1>4 DEF Answers

LEMMA LoadHistoryInv ==
    ASSUME ChatInv, NEW c \in Askers, Load(c)
    PROVE  ChatInv'
<1>1. PICK h \in {history[SessionOf[c]], <<>>} :
        turn' = [turn EXCEPT ![c] = [at |-> "thinking", copy |-> h]]
  BY DEF Load
<1>2. UNCHANGED <<history, answered, spoilt>>
  BY DEF Load
<1>3. SessionOf[c] \in Sessions
  BY ChatAssumption
<1>4. Coherent(h) /\ Faithful(h, SessionOf[c], answered)
  BY <1>3, EmptyList DEF ChatInv
<1>5. h \in Seq(Exchange)
  <2>1. history[SessionOf[c]] \in Seq(Exchange)
    BY <1>3 DEF ChatInv, ChatTypeOK
  <2>2. <<>> \in Seq(Exchange)
    OBVIOUS
  <2> QED BY <2>1, <2>2
<1>6. \A d \in Askers : turn'[d].copy = IF d = c THEN h ELSE turn[d].copy
  BY <1>1 DEF ChatInv, ChatTypeOK
<1>7. ChatTypeOK'
  BY <1>1, <1>2, <1>5 DEF ChatInv, ChatTypeOK
<1> QED BY <1>2, <1>4, <1>6, <1>7 DEF ChatInv

LEMMA AnswerInv ==
    ASSUME ChatInv, NEW c \in Askers, Answer(c)
    PROVE  ChatInv'
<1> DEFINE s == SessionOf[c]
           copy == turn[c].copy
<1>0. s \in Sessions /\ ChatTypeOK /\ answered \in Seq(Askers) /\ copy \in Seq(Exchange)
  BY ChatAssumption DEF ChatInv, ChatTypeOK
<1>1. /\ turn' = [turn EXCEPT ![c] = [at |-> "done", copy |-> <<>>]]
      /\ answered' = Append(answered, c)
  BY DEF Answer
<1>2. \A d \in Askers : turn'[d].copy = IF d = c THEN <<>> ELSE turn[d].copy
  BY <1>1 DEF ChatInv, ChatTypeOK
<1>3. \A d \in Askers : Coherent(turn'[d].copy)
                       /\ Faithful(turn'[d].copy, SessionOf[d], answered')
  BY <1>0, <1>1, <1>2, EmptyList, FaithfulStays DEF ChatInv
<1>4. /\ answered' \in Seq(Askers)
      /\ turn' \in [Askers -> [at : {"new", "thinking", "done"}, copy : Seq(Exchange)]]
  BY <1>0, <1>1, Appended DEF ChatTypeOK
<1>5. ASSUME NEW z \in Sessions
      PROVE  /\ Coherent(history[z]) /\ Faithful(history[z], z, answered')
             /\ z # s /\ z \notin spoilt => Complete(history[z], z, answered')
  BY <1>0, <1>1, FaithfulStays, CompleteStays DEF ChatInv
<1>6. CASE UNCHANGED history /\ spoilt' = spoilt \cup {s}
  <2>1. ChatTypeOK'
    BY <1>0, <1>4, <1>6 DEF ChatTypeOK
  <2> QED BY <2>1, <1>3, <1>5, <1>6 DEF ChatInv
<1>7. ASSUME NEW e \in Answers(c), history' = [history EXCEPT ![s] = Saved(c, e)],
             spoilt' = IF copy = history[s] THEN spoilt ELSE spoilt \cup {s}
      PROVE  ChatInv'
  <2>1. e \in Exchange /\ e.by = c /\ (e.llm => e.seen = Recent(copy, Len(copy)))
    BY <1>0, AnswersRight
  <2>2. \A z \in Sessions :
          history'[z] = IF z = s THEN Append(copy, e) ELSE history[z]
    BY <1>0, <1>7 DEF Saved, ChatTypeOK
  <2>3. ChatTypeOK'
    <3>1. Append(copy, e) \in Seq(Exchange)
      BY <1>0, <2>1, Appended
    <3> QED BY <1>0, <1>4, <1>7, <3>1 DEF ChatTypeOK, Saved
  <2>4. Coherent(Append(copy, e))
    BY <1>0, <2>1, CoherentAppend DEF ChatInv
  <2>5. Faithful(Append(copy, e), s, answered')
    BY <1>0, <1>1, <2>1, FaithfulAppend DEF ChatInv
  <2>6. s \notin spoilt' => Complete(Append(copy, e), s, answered')
    <3> SUFFICES ASSUME s \notin spoilt' PROVE Complete(Append(copy, e), s, answered')
      OBVIOUS
    <3>1. copy = history[s] /\ s \notin spoilt
      BY <1>7
    <3>2. Complete(copy, s, answered)
      BY <1>0, <3>1 DEF ChatInv
    <3> QED BY <1>0, <1>1, <2>1, <3>2, CompleteAppend
  <2>7. \A z \in Sessions : z \notin spoilt' => z \notin spoilt
    BY <1>7
  <2> QED BY <1>3, <1>5, <2>2, <2>3, <2>4, <2>5, <2>6, <2>7 DEF ChatInv
<1> QED BY <1>6, <1>7 DEF Answer

LEMMA ChatStepInv == ChatInv /\ [ChatNext]_chatVars => ChatInv'
<1> SUFFICES ASSUME ChatInv, [ChatNext]_chatVars PROVE ChatInv'
  OBVIOUS
<1>1. ASSUME NEW c \in Askers, GiveUp(c) PROVE ChatInv'
  <2>1. \A d \in Askers : turn'[d].copy = IF d = c THEN <<>> ELSE turn[d].copy
    BY <1>1 DEF GiveUp, ChatInv, ChatTypeOK
  <2>2. ChatTypeOK'
    BY <1>1 DEF GiveUp, ChatInv, ChatTypeOK
  <2> QED BY <1>1, <2>1, <2>2, EmptyList DEF GiveUp, ChatInv
<1>2. ASSUME NEW s \in Sessions, Expire(s) PROVE ChatInv'
  <2>1. \A z \in Sessions : history'[z] = IF z = s THEN <<>> ELSE history[z]
    BY <1>2 DEF Expire, ChatInv, ChatTypeOK
  <2>2. ChatTypeOK'
    BY <1>2 DEF Expire, ChatInv, ChatTypeOK
  <2> QED BY <1>2, <2>1, <2>2, EmptyList DEF Expire, ChatInv
<1>3. CASE UNCHANGED chatVars
  BY <1>3 DEF chatVars, ChatInv, ChatTypeOK
<1> QED BY <1>1, <1>2, <1>3, LoadHistoryInv, AnswerInv DEF ChatNext

-----------------------------------------------------------------------------
(* Theorems *)

\* Histories, the copies requests hold and the history variables have their
\* types.
THEOREM ChatTypeCorrect == ChatSpec => []ChatTypeOK
<1>1. ChatInv => ChatTypeOK
  BY DEF ChatInv
<1> QED BY <1>1, ChatInitInv, ChatStepInv, PTL DEF ChatSpec

\* Every answer in a history was given knowing exactly the exchanges before
\* it, however many requests of the session cross.
THEOREM HistoryCoherent == ChatSpec => []CoherentHistory
<1>1. ChatInv => CoherentHistory
  BY DEF ChatInv, Coherent, CoherentHistory
<1> QED BY <1>1, ChatInitInv, ChatStepInv, PTL DEF ChatSpec

\* A history is its session's exchanges in the order of the answers, all of
\* them unless something happened to the session.
THEOREM HistoryIsKept == ChatSpec => []HistoryKept
<1>1. ChatInv => HistoryKept
  BY DEF ChatInv, Faithful, Complete, InOrder, Before, HistoryKept
<1> QED BY <1>1, ChatInitInv, ChatStepInv, PTL DEF ChatSpec

=============================================================================
