------------------------------ MODULE Audience ------------------------------
(***************************************************************************)
(* What users tell the rules and are told of them: subscriptions and the   *)
(* notifications sent to them, feedback signals and the quality scores     *)
(* that POST /improve computes from all of them.                           *)
(*                                                                         *)
(* An errand is a request, one transaction at READ COMMITTED; between its  *)
(* reads and its commit others commit.  Subscriptions have no unique key.  *)
(* That a score is written when a later query flushes it, and its row is   *)
(* locked from then on, makes other improvements wait: they end later, or  *)
(* are lost in a deadlock, as may be any errand.                           *)
(*                                                                         *)
(* A score is the set of the signals it is the mean of.  The change that a *)
(* notification is about is RuleLifecycle's, and has been committed.       *)
(***************************************************************************)
EXTENDS Integers, FiniteSets

CONSTANTS
    Readers,      \* users
    Topics,       \* rules
    Tabs,         \* requests at the same time
    MaxErrands,   \* bound: requests made
    MaxSignals    \* bound: signals given

ASSUME AudienceAssumption == MaxErrands \in Nat /\ MaxSignals \in Nat

VARIABLES
    subs,      \* rows of subscriptions
    notices,   \* rows of notifications
    signals,   \* rows of feedback
    scores,    \* scores[r]: the signals graph_quality_score is the mean of
    errand,    \* errand[t]: the request in progress
    errands,   \* requests so far
    tangled,   \* history: <<user, rule>> whose subscriptions crossed
    muddled,   \* history: rules whose scores two improvements disturbed
    measured   \* history: what the last undisturbed improvement has read

audienceVars ==
    <<subs, notices, signals, scores, errand, errands, tangled, muddled, measured>>

Subscription == [no : 1..MaxErrands, user : Readers, rule : Topics]
Notification == [change : 1..MaxErrands, sub : Subscription, read : BOOLEAN]
Signal       == [no : 1..MaxSignals, rule : Topics]

(* no: its number.  about: a subscription's user and rule.  rows: the      *)
(* subscriptions that are to be told.  seen, loaded: the signals, and the  *)
(* scores, an improvement has read; alone: no other has ended since.       *)
NoErrand == [op |-> "idle", no |-> 0, about |-> {}, rows |-> {}, seen |-> {},
             loaded |-> [r \in {} |-> {}], alone |-> TRUE]

AudienceInit ==
    /\ subs = {} /\ notices = {} /\ signals = {}
    /\ scores = [r \in Topics |-> {}]
    /\ errand = [t \in Tabs |-> NoErrand]
    /\ errands = 0
    /\ tangled = {} /\ muddled = {} /\ measured = {}

Opens(t, q) ==
    /\ errand[t] = NoErrand /\ errands < MaxErrands
    /\ errands' = errands + 1
    /\ errand' = [errand EXCEPT ![t] = [q EXCEPT !.no = errands + 1]]
    /\ UNCHANGED <<subs, notices, signals, scores, tangled, muddled, measured>>

-----------------------------------------------------------------------------
(* Subscriptions and notifications *)

\* Mutant: nobody is looked for
NotLookedFor(u, r) == {}
Existing(u, r) == {s \in subs : s.user = u /\ s.rule = r}

\* Who is subscribed is answered with the row there is, and a user with two
\* rows with an error, as the lookup expects one: nothing changes
AskSubscribe(t, u, r) ==
    /\ Existing(u, r) = {}
    /\ Opens(t, [NoErrand EXCEPT !.op = "subscribe", !.about = {<<u, r>>}])

Subscribe(t) ==
    /\ errand[t].op = "subscribe"
    /\ subs' = subs \cup {[no |-> errand[t].no, user |-> a[1], rule |-> a[2]] :
                             a \in errand[t].about}
    /\ tangled' = tangled \cup
          (errand[t].about \cap UNION {errand[o].about : o \in Tabs \ {t}})
    /\ errand' = [errand EXCEPT ![t] = NoErrand]
    /\ UNCHANGED <<notices, signals, scores, errands, muddled, measured>>

Unsubscribe(s) ==
    /\ subs' = subs \ {s}
    /\ UNCHANGED <<notices, signals, scores, errand, errands, tangled, muddled,
                   measured>>

\* The second transaction of PUT /rules/{id}: every row but the actor's
AskNotify(t, actor, r) ==
    Opens(t, [NoErrand EXCEPT !.op = "notify",
                  !.rows = {s \in subs : s.rule = r /\ s.user # actor}])

NotifySubscribers(t) ==
    /\ errand[t].op = "notify"
    /\ notices' = notices \cup
          {[change |-> errand[t].no, sub |-> s, read |-> FALSE] : s \in errand[t].rows}
    /\ errand' = [errand EXCEPT ![t] = NoErrand]
    /\ UNCHANGED <<subs, signals, scores, errands, tangled, muddled, measured>>

MarkRead(n) ==
    /\ notices' = (notices \ {n}) \cup {[n EXCEPT !.read = TRUE]}
    /\ UNCHANGED <<subs, signals, scores, errand, errands, tangled, muddled,
                   measured>>

-----------------------------------------------------------------------------
(* Feedback and scores *)

RecordSignal(r) ==
    /\ Cardinality(signals) < MaxSignals
    /\ signals' = signals \cup {[no |-> Cardinality(signals) + 1, rule |-> r]}
    /\ UNCHANGED <<subs, notices, scores, errand, errands, tangled, muddled,
                   measured>>

About(S, r) == {f \in S : f.rule = r}

Rated(S) == {f.rule : f \in S}

AskImprove(t) == Opens(t, [NoErrand EXCEPT !.op = "improve", !.seen = signals])

\* The rules are loaded one after the other, in the order of the signals,
\* which is none
LoadRule(t, r) ==
    /\ errand[t].op = "improve"
    /\ r \in Rated(errand[t].seen) \ DOMAIN errand[t].loaded
    /\ errand' = [errand EXCEPT ![t].loaded =
                     [x \in DOMAIN @ \cup {r} |-> IF x = r THEN scores[r] ELSE @[x]]]
    /\ UNCHANGED <<subs, notices, signals, scores, errands, tangled, muddled,
                   measured>>

\* Mutant: only the signals that are not in the score yet count
NewSignals(q, r) == About(q.seen, r) \ q.loaded[r]
Score(q, r) == About(q.seen, r)

\* A score that is what was loaded is not written
ApplyImprovements(t) ==
    LET q == errand[t]
        R == Rated(q.seen)
    IN /\ q.op = "improve" /\ DOMAIN q.loaded = R
       /\ scores' = [r \in Topics |->
                        IF r \in R /\ Score(q, r) # q.loaded[r] THEN Score(q, r)
                        ELSE scores[r]]
       /\ errand' = [o \in Tabs |-> IF o = t THEN NoErrand
                                    ELSE [errand[o] EXCEPT !.alone = @ /\ errand[o].op # "improve"]]
       /\ muddled' = IF q.alone THEN muddled \ R ELSE muddled \cup R
       /\ measured' = IF q.alone THEN q.seen ELSE measured
       /\ UNCHANGED <<subs, notices, signals, errands, tangled>>

-----------------------------------------------------------------------------
\* A commit fails, a client is gone, a deadlock is broken
LoseErrand(t) ==
    /\ errand[t].op # "idle"
    /\ errand' = [errand EXCEPT ![t] = NoErrand]
    /\ UNCHANGED <<subs, notices, signals, scores, errands, tangled, muddled,
                   measured>>

AudienceNext ==
    \/ \E t \in Tabs :
          \/ \E u \in Readers, r \in Topics : AskSubscribe(t, u, r) \/ AskNotify(t, u, r)
          \/ Subscribe(t) \/ NotifySubscribers(t)
          \/ AskImprove(t) \/ ApplyImprovements(t) \/ LoseErrand(t)
          \/ \E r \in Topics : LoadRule(t, r)
    \/ \E s \in subs : Unsubscribe(s)
    \/ \E n \in notices : MarkRead(n)
    \/ \E r \in Topics : RecordSignal(r)

AudienceSpec == AudienceInit /\ [][AudienceNext]_audienceVars

-----------------------------------------------------------------------------
(* Properties *)

\* Subscriptions, notifications, signals, scores and errands have their
\* types, and a score is of signals about its rule.
AudienceTypeOK ==
    /\ subs \subseteq Subscription
    /\ notices \subseteq Notification
    /\ signals \subseteq Signal
    /\ \A r \in Topics : scores[r] \subseteq About(signals, r)
    /\ \A t \in Tabs :
          /\ errand[t].op \in {"idle", "subscribe", "notify", "improve"}
          /\ errand[t].about \subseteq Readers \X Topics
          /\ errand[t].rows \subseteq Subscription
          /\ errand[t].seen \subseteq signals
    /\ errands \in 0..MaxErrands
    /\ tangled \subseteq Readers \X Topics
    /\ muddled \subseteq Topics /\ measured \subseteq signals

\* POST /subscriptions is meant to be idempotent: a user is subscribed to a
\* rule once, and told of each of its changes once, unless two of his requests
\* to subscribe crossed.
ToldOnce ==
    /\ \A s1, s2 \in subs :
          s1.user = s2.user /\ s1.rule = s2.rule /\ s1 # s2
             => <<s1.user, s1.rule>> \in tangled
    /\ \A n1, n2 \in notices :
          n1.change = n2.change /\ n1.sub.user = n2.sub.user /\ n1 # n2
             => <<n1.sub.user, n1.sub.rule>> \in tangled

\* A rule's score is the mean of all signals there were when the last
\* undisturbed POST /improve began; of two that crossed, the later end may
\* have the older signals, until the next repairs it.
ScoresAreMeans ==
    \A r \in Topics \ muddled : scores[r] = About(measured, r)

=============================================================================
