------------------------ MODULE RuleLifecycleProofs ------------------------
(* Proofs about RuleLifecycle, for any sets of rules, titles, texts, users  *)
(* and slots, and any number of requests.                                   *)
EXTENDS RuleLifecycle, TLAPS

-----------------------------------------------------------------------------
(* The inductive invariant, over rows R and a log V *)

Log(V, r) == {v \in V : v.rule = r}

Signed(V, r, st) == \E v \in Log(V, r) : v.status = st /\ v.by \in Users

Told(V, r, st) ==
    /\ st \in {"under_review", "approved", "needs_update", "deprecated"} =>
          Signed(V, r, st)
    /\ st = "active" => Signed(V, r, "active") \/ Signed(V, r, "approved")
    /\ st = "drift"  => Log(V, r) # {}

\* A rule has no history before it exists
NoLog(R, V) == \A r \in Rules : R[r] = Absent => Log(V, r) = {}

\* Of a rule that exists: the log has its definition and tells its status
RowsInv(R, V) ==
    /\ NoLog(R, V)
    /\ \A r \in Rules : R[r] # Absent =>
          /\ Log(V, r) # {} =>
                \E v \in Log(V, r) : v.definition = R[r].definition
          /\ Told(V, r, R[r].status)

NoticesInv(N, V) ==
    \A n \in N : \E v \in Log(V, n.rule) :
        v.status = n.status /\ v.by \in Users \ {n.to}

(* What a request holds is old, but not arbitrary: the log tells the status *)
(* it has loaded, and as long as a rule has no history its definition is    *)
(* the one that was loaded.                                                 *)
LoadedInv(q, R, V) ==
    \A r \in q.rules :
        /\ R[r] # Absent
        /\ q.row[r] \in Row
        /\ Log(V, r) = {} => q.row[r].definition = R[r].definition
        /\ Told(V, r, q.row[r].status)

ArgsInv(q, V) ==
    /\ q.kind \in {"update", "notify", "decide"} => q.by \in Users
    /\ q.kind = "update" => \A r1, r2 \in q.rules : r1 = r2
    /\ q.kind \in {"notify", "decide"} => q.status \in Statuses
    /\ q.kind = "notify" =>
          \A r \in q.rules : \E v \in Log(V, r) :
              v.status = q.status /\ v.by = q.by
    /\ q.kind = "store" => q.title \in Titles /\ q.text \in Texts

RequestInv(q, R, V) == LoadedInv(q, R, V) /\ ArgsInv(q, V)

IInv ==
    /\ TypeOK
    /\ RowsInv(rows, versions)
    /\ NoticesInv(notices, versions)
    /\ \A s \in Slots : RequestInv(req[s], rows, versions)

-----------------------------------------------------------------------------
(* The log only grows, and what it tells stays told *)

Advance(R, V, R2, V2) ==
    /\ V \subseteq V2
    /\ \A r \in Rules : R[r] # Absent =>
          /\ R2[r] # Absent
          /\ Log(V2, r) = {} => R2[r].definition = R[r].definition

LEMMA LogGrows ==
    ASSUME NEW V, NEW V2, V \subseteq V2, NEW r
    PROVE  /\ Log(V, r) \subseteq Log(V2, r)
           /\ \A st : Told(V, r, st) => Told(V2, r, st)
<1>1. Log(V, r) \subseteq Log(V2, r)
  BY DEF Log
<1>2. \A st : Signed(V, r, st) => Signed(V2, r, st)
  BY <1>1 DEF Signed
<1>3. \A st : Told(V, r, st) => Told(V2, r, st)
  BY <1>1, <1>2 DEF Told
<1> QED
  BY <1>1, <1>3

\* A request that is left alone stays what the invariant says of it
LEMMA RequestAdvance ==
    ASSUME NEW q, NEW R, NEW V, NEW R2, NEW V2, q.rules \subseteq Rules,
           RequestInv(q, R, V), Advance(R, V, R2, V2)
    PROVE  RequestInv(q, R2, V2)
<1>1. \A r \in Rules : /\ Log(V, r) \subseteq Log(V2, r)
                       /\ \A st : Told(V, r, st) => Told(V2, r, st)
  BY LogGrows DEF Advance
<1>2. LoadedInv(q, R2, V2)
  <2> SUFFICES ASSUME NEW r \in q.rules
               PROVE  /\ R2[r] # Absent
                      /\ q.row[r] \in Row
                      /\ Log(V2, r) = {} => q.row[r].definition = R2[r].definition
                      /\ Told(V2, r, q.row[r].status)
    BY DEF LoadedInv
  <2>1. /\ R[r] # Absent
        /\ q.row[r] \in Row
        /\ Log(V, r) = {} => q.row[r].definition = R[r].definition
        /\ Told(V, r, q.row[r].status)
    BY DEF RequestInv, LoadedInv
  <2>2. R2[r] # Absent /\ (Log(V2, r) = {} => R2[r].definition = R[r].definition)
    BY <2>1 DEF Advance
  <2>3. Log(V2, r) = {} => Log(V, r) = {}
    BY <1>1
  <2> QED
    BY <1>1, <2>1, <2>2, <2>3
<1>3. ArgsInv(q, V2)
  BY <1>1 DEF RequestInv, ArgsInv
<1> QED
  BY <1>2, <1>3 DEF RequestInv

LEMMA NoticesAdvance ==
    ASSUME NEW N, NEW V, NEW V2, V \subseteq V2, NoticesInv(N, V)
    PROVE  NoticesInv(N, V2)
BY DEF NoticesInv, Log

LEMMA StandStill ==
    ASSUME NEW R, NEW V
    PROVE  Advance(R, V, R, V)
BY DEF Advance

-----------------------------------------------------------------------------
(* Rows and versions *)

LEMMA RowFields ==
    ASSUME NEW x \in Row
    PROVE  /\ x.title \in Titles /\ x.definition \in Texts
           /\ x.status \in Statuses /\ x.ingested \in BOOLEAN
           /\ DOMAIN x = {"title", "definition", "status", "ingested"}
           /\ x # Absent
BY NoneAssumption DEF Row, Absent

\* The UPDATE sets what differs and leaves the rest of the row as it is
LEMMA WriteFields ==
    ASSUME NEW row \in Row, NEW old \in Row, NEW new \in Row
    PROVE  /\ Write(row, old, new) \in Row
           /\ Write(row, old, new).definition =
                IF new.definition = old.definition THEN row.definition
                                                   ELSE new.definition
           /\ Write(row, old, new).status =
                IF new.status = old.status THEN row.status ELSE new.status
<1> DEFINE w == Write(row, old, new)
<1>1. DOMAIN row = {"title", "definition", "status", "ingested"}
  BY RowFields
<1>2. w = [title |-> w.title, definition |-> w.definition,
           status |-> w.status, ingested |-> w.ingested]
  BY <1>1 DEF Write
<1>3. /\ w.title = IF new.title = old.title THEN row.title ELSE new.title
      /\ w.definition = IF new.definition = old.definition
                        THEN row.definition ELSE new.definition
      /\ w.status = IF new.status = old.status THEN row.status ELSE new.status
      /\ w.ingested = IF new.ingested = old.ingested
                      THEN row.ingested ELSE new.ingested
  BY <1>1 DEF Write
<1>4. /\ w.title \in Titles /\ w.definition \in Texts
      /\ w.status \in Statuses /\ w.ingested \in BOOLEAN
  BY <1>3, RowFields
<1>5. w \in Row
  BY <1>2, <1>4 DEF Row
<1> QED
  BY <1>3, <1>5

LEMMA VersionType ==
    ASSUME NEW r \in Rules, NEW x \in Row, NEW u \in Users \cup {None}
    PROVE  /\ VersionOf(r, x, u) \in Version
           /\ VersionOf(r, x, u).rule = r
           /\ VersionOf(r, x, u).definition = x.definition
           /\ VersionOf(r, x, u).status = x.status
           /\ VersionOf(r, x, u).by = u
BY RowFields DEF VersionOf, Version

-----------------------------------------------------------------------------
(* What a step has to show *)

\* One request changes, the database moves on
LEMMA AnyStep ==
    ASSUME IInv, NEW s \in Slots, NEW q \in Request,
           rows' \in [Rules -> Row \cup {Absent}],
           versions' \subseteq Version,
           notices' \subseteq Notice,
           requests' \in Nat,
           req' = [req EXCEPT ![s] = q],
           Advance(rows, versions, rows', versions'),
           RowsInv(rows', versions'),
           NoticesInv(notices', versions'),
           RequestInv(q, rows', versions')
    PROVE  IInv'
<1>1. TypeOK'
  BY DEF IInv, TypeOK
<1>2. ASSUME NEW x \in Slots PROVE RequestInv(req'[x], rows', versions')
  <2>1. CASE x = s
    BY <2>1 DEF IInv, TypeOK
  <2>2. CASE x # s
    <3>1. req'[x] = req[x] /\ RequestInv(req[x], rows, versions)
      BY <2>2 DEF IInv, TypeOK
    <3>2. req[x].rules \subseteq Rules
      BY DEF IInv, TypeOK, Request
    <3> QED
      BY <3>1, <3>2, RequestAdvance
  <2> QED
    BY <2>1, <2>2
<1> QED
  BY <1>1, <1>2 DEF IInv

\* The database is left alone
LEMMA RequestStep ==
    ASSUME IInv, NEW s \in Slots, NEW q \in Request,
           UNCHANGED <<rows, versions, notices>>,
           requests' \in Nat,
           req' = [req EXCEPT ![s] = q],
           RequestInv(q, rows, versions)
    PROVE  IInv'
<1>1. Advance(rows, versions, rows', versions')
  BY StandStill
<1> QED
  BY <1>1, AnyStep DEF IInv, TypeOK

\* The idle request is of no consequence
LEMMA IdleRequest ==
    /\ NoRequest \in Request
    /\ \A R, V : RequestInv(NoRequest, R, V)
BY DEF NoRequest, Request, Kinds, RequestInv, LoadedInv, ArgsInv

\* Loading rules that exist gives the request what the invariant asks for
LEMMA LoadedRows ==
    ASSUME IInv, NEW R \in SUBSET Rules, R \subseteq Existing
    PROVE  /\ Loaded(R) \in [Rules -> Row \cup {Absent}]
           /\ \A r \in R : /\ rows[r] # Absent
                           /\ Loaded(R)[r] \in Row
                           /\ Loaded(R)[r] = rows[r]
                           /\ Told(versions, r, Loaded(R)[r].status)
BY DEF IInv, TypeOK, Loaded, Existing, RowsInv

\* A rule that a request holds is written together with a version of the new
\* definition, and the status it gets is told by the log
LEMMA WriteStep ==
    ASSUME IInv, NEW s \in Slots, NEW r \in req[s].rules, NEW new \in Row,
           NEW w \in Version, w.rule = r, w.definition = new.definition,
           rows' = [rows EXCEPT ![r] = Write(@, req[s].row[r], new)],
           versions' = versions \cup {w},
           Told(versions', r, new.status)
    PROVE  /\ rows' \in [Rules -> Row \cup {Absent}]
           /\ versions' \subseteq Version
           /\ Advance(rows, versions, rows', versions')
           /\ RowsInv(rows', versions')
           /\ NoticesInv(notices, versions')
<1> DEFINE old == req[s].row[r]
<1>1. /\ r \in Rules /\ rows[r] \in Row /\ old \in Row
      /\ Log(versions, r) = {} => old.definition = rows[r].definition
  BY DEF IInv, TypeOK, Request, RequestInv, LoadedInv
<1>2. /\ rows'[r] \in Row
      /\ rows'[r].definition = IF new.definition = old.definition
                               THEN rows[r].definition ELSE new.definition
      /\ rows'[r].status = IF new.status = old.status
                           THEN rows[r].status ELSE new.status
      /\ \A x \in Rules \ {r} : rows'[x] = rows[x]
  BY <1>1, WriteFields DEF IInv, TypeOK
<1>3. /\ rows' \in [Rules -> Row \cup {Absent}]
      /\ versions' \subseteq Version
  BY <1>1, <1>2 DEF IInv, TypeOK
<1>4. /\ w \in Log(versions', r)
      /\ \A x \in Rules \ {r} : Log(versions', x) = Log(versions, x)
      /\ \A x \in Rules : Log(versions, x) \subseteq Log(versions', x)
  BY DEF Log
<1>5. \A x \in Rules : \A st : Told(versions, x, st) => Told(versions', x, st)
  BY LogGrows
<1>6. Advance(rows, versions, rows', versions')
  BY <1>1, <1>2, <1>4, RowFields DEF Advance
<1>7. RowsInv(rows', versions')
  <2>0. NoLog(rows', versions')
    BY <1>2, <1>4, RowFields DEF IInv, RowsInv, NoLog
  <2> SUFFICES ASSUME NEW x \in Rules, rows'[x] # Absent
               PROVE  /\ Log(versions', x) # {} =>
                           \E v \in Log(versions', x) :
                               v.definition = rows'[x].definition
                      /\ Told(versions', x, rows'[x].status)
    BY <2>0 DEF RowsInv
  <2>1. CASE x # r
    BY <1>2, <1>4, <1>5, <2>1 DEF IInv, RowsInv
  <2>2. CASE x = r
    <3>1. rows[r] # Absent
      BY <1>1, RowFields
    <3>2. \E v \in Log(versions', r) : v.definition = rows'[r].definition
      <4>1. CASE new.definition # old.definition
        BY <1>2, <1>4, <4>1
      <4>2. CASE new.definition = old.definition /\ Log(versions, r) = {}
        BY <1>1, <1>2, <1>4, <4>2
      <4>3. CASE new.definition = old.definition /\ Log(versions, r) # {}
        <5>1. \E v \in Log(versions, r) : v.definition = rows[r].definition
          BY <1>1, <3>1, <4>3 DEF IInv, RowsInv
        <5>2. rows'[r].definition = rows[r].definition
          BY <1>2, <4>3
        <5>3. Log(versions, r) \subseteq Log(versions', r)
          BY <1>1, <1>4
        <5> QED
          BY <5>1, <5>2, <5>3
      <4> QED
        BY <4>1, <4>2, <4>3
    <3>3. Told(versions', r, rows'[r].status)
      BY <1>1, <1>2, <1>5, <3>1 DEF IInv, RowsInv
    <3> QED
      BY <2>2, <3>2, <3>3
  <2> QED
    BY <2>1, <2>2
<1>8. NoticesInv(notices, versions')
  BY NoticesAdvance DEF IInv
<1> QED
  BY <1>3, <1>6, <1>7, <1>8

\* A version that a user signs tells the status it has
LEMMA SignedStatus ==
    ASSUME NEW V, NEW w \in V, w.by \in Users
    PROVE  Told(V, w.rule, w.status)
BY DEF Told, Signed, Log

-----------------------------------------------------------------------------
(* Initially, and request by request *)

LEMMA InitIInv == Init => IInv
<1> SUFFICES ASSUME Init PROVE IInv
  OBVIOUS
<1>1. TypeOK
  BY IdleRequest DEF Init, TypeOK
<1>2. /\ RowsInv(rows, versions)
      /\ NoticesInv(notices, versions)
  BY DEF Init, RowsInv, NoLog, NoticesInv, Log
<1> QED
  BY <1>1, <1>2, IdleRequest DEF Init, IInv

LEMMA ServeStep ==
    ASSUME IInv, NEW s \in Slots, NEW q \in Request, Serve(s, q),
           UNCHANGED <<rows, versions, notices>>,
           q.rules \subseteq Existing, q.row = Loaded(q.rules),
           ArgsInv(q, versions)
    PROVE  IInv'
<1>1. q.rules \subseteq Rules
  BY DEF Existing
<1>2. LoadedInv(q, rows, versions)
  BY <1>1, LoadedRows DEF LoadedInv
<1>3. requests' \in Nat /\ req' = [req EXCEPT ![s] = q]
  BY DEF IInv, TypeOK, Serve
<1> QED
  BY <1>2, <1>3, RequestStep DEF RequestInv

LEMMA ProposeStep ==
    ASSUME IInv, NEW u \in Users, NEW t \in Titles, NEW d \in Texts,
           Propose(u, t, d)
    PROVE  IInv'
<1> DEFINE new == [title |-> t, definition |-> d, status |-> "proposed",
                   ingested |-> FALSE]
           w(r) == VersionOf(r, new, u)
<1>1. PICK r \in Rules \ Existing :
         /\ rows' = [rows EXCEPT ![r] = new]
         /\ versions' = versions \cup {w(r)}
  BY DEF Propose
<1>2. new \in Row /\ new.definition = d /\ new.status = "proposed"
  BY DEF Row, Statuses
<1>3. w(r) \in Version /\ w(r).rule = r /\ w(r).definition = d
  BY <1>2, VersionType
<1> HIDE DEF new, w
<1>4. /\ rows[r] = Absent
      /\ rows'[r] = new /\ \A x \in Rules \ {r} : rows'[x] = rows[x]
      /\ rows' \in [Rules -> Row \cup {Absent}]
      /\ versions' \subseteq Version
  BY <1>1, <1>2, <1>3 DEF IInv, TypeOK, Existing
<1>5. /\ w(r) \in Log(versions', r)
      /\ \A x \in Rules \ {r} : Log(versions', x) = Log(versions, x)
  BY <1>1, <1>3 DEF Log
<1>6. Advance(rows, versions, rows', versions')
  BY <1>1, <1>4 DEF Advance
<1>7. \A x \in Rules : \A st : Told(versions, x, st) => Told(versions', x, st)
  BY <1>1, LogGrows
<1>8. RowsInv(rows', versions')
  <2>0. NoLog(rows', versions')
    BY <1>2, <1>4, <1>5, RowFields DEF IInv, RowsInv, NoLog
  <2> SUFFICES ASSUME NEW x \in Rules, rows'[x] # Absent
               PROVE  /\ Log(versions', x) # {} =>
                           \E v \in Log(versions', x) :
                               v.definition = rows'[x].definition
                      /\ Told(versions', x, rows'[x].status)
    BY <2>0 DEF RowsInv
  <2>1. CASE x # r
    BY <1>4, <1>5, <1>7, <2>1 DEF IInv, RowsInv
  <2>2. CASE x = r
    BY <1>2, <1>3, <1>4, <1>5, <2>2 DEF Told
  <2> QED
    BY <2>1, <2>2
<1>9. NoticesInv(notices, versions')
  BY <1>1, NoticesAdvance DEF IInv
<1>10. UNCHANGED <<notices, req>> /\ requests' \in Nat
  BY DEF Propose, IInv, TypeOK
<1>11. TypeOK'
  BY <1>4, <1>10 DEF IInv, TypeOK
<1>12. \A s \in Slots : RequestInv(req'[s], rows', versions')
  BY <1>6, <1>10, RequestAdvance DEF IInv, TypeOK, Request
<1> QED
  BY <1>8, <1>9, <1>10, <1>11, <1>12 DEF IInv

LEMMA UpdateRuleStep ==
    ASSUME IInv, NEW s \in Slots, NEW u \in Users, NEW r \in Rules,
           NEW t \in Titles \cup {None}, NEW d \in Texts \cup {None},
           NEW st \in Settable \cup {None}, UpdateRule(s, u, r, t, d, st)
    PROVE  IInv'
<1> DEFINE q == [NoRequest EXCEPT !.kind = "update", !.by = u, !.rules = {r},
                                  !.row = Loaded({r}), !.title = t,
                                  !.text = d, !.status = st]
<1>1. r \in Existing /\ Serve(s, q) /\ UNCHANGED <<rows, versions, notices>>
  BY DEF UpdateRule
<1>2. Loaded({r}) \in [Rules -> Row \cup {Absent}]
  BY <1>1, LoadedRows
<1>3. q \in Request
  BY <1>2, SettableAssumption DEF NoRequest, Request, Kinds
<1>4. q.kind = "update" /\ q.by = u /\ q.rules = {r} /\ q.row = Loaded({r})
  BY DEF NoRequest
<1> HIDE DEF q
<1>5. ArgsInv(q, versions)
  BY <1>4 DEF ArgsInv
<1> QED
  BY <1>1, <1>3, <1>4, <1>5, ServeStep

LEMMA DecideStep ==
    ASSUME IInv, NEW s \in Slots, NEW u \in Users, NEW R \in SUBSET Rules,
           NEW st \in Statuses, Decide(s, u, R, st)
    PROVE  IInv'
<1> DEFINE q == [NoRequest EXCEPT !.kind = "decide", !.by = u, !.rules = R,
                                  !.row = Loaded(R), !.status = st]
<1>1. R \subseteq Existing /\ Serve(s, q) /\ UNCHANGED <<rows, versions, notices>>
  BY DEF Decide
<1>2. Loaded(R) \in [Rules -> Row \cup {Absent}]
  BY <1>1, LoadedRows
<1>3. q \in Request
  BY <1>2 DEF NoRequest, Request, Kinds
<1>4. q.kind = "decide" /\ q.by = u /\ q.rules = R /\ q.row = Loaded(R)
      /\ q.status = st
  BY DEF NoRequest
<1> HIDE DEF q
<1>5. ArgsInv(q, versions)
  BY <1>4 DEF ArgsInv
<1> QED
  BY <1>1, <1>3, <1>4, <1>5, ServeStep

LEMMA PromoteStep ==
    ASSUME IInv, NEW s \in Slots, NEW u \in Users, NEW R \in SUBSET Rules,
           PromoteWikiChanges(s, u, R)
    PROVE  IInv'
<1> DEFINE q == [NoRequest EXCEPT !.kind = "promote", !.by = u, !.rules = R,
                                  !.row = Loaded(R)]
<1>1. R \subseteq Existing /\ Serve(s, q) /\ UNCHANGED <<rows, versions, notices>>
  BY DEF PromoteWikiChanges
<1>2. Loaded(R) \in [Rules -> Row \cup {Absent}]
  BY <1>1, LoadedRows
<1>3. q \in Request
  BY <1>2 DEF NoRequest, Request, Kinds
<1>4. q.kind = "promote" /\ q.rules = R /\ q.row = Loaded(R)
  BY DEF NoRequest
<1> HIDE DEF q
<1>5. ArgsInv(q, versions)
  BY <1>4 DEF ArgsInv
<1> QED
  BY <1>1, <1>3, <1>4, <1>5, ServeStep

LEMMA StoreStep ==
    ASSUME IInv, NEW s \in Slots, NEW t \in Titles, NEW d \in Texts,
           StoreRule(s, t, d)
    PROVE  IInv'
<1> DEFINE R == {r \in Existing : rows[r].ingested /\ rows[r].title = t}
           q == [NoRequest EXCEPT !.kind = "store", !.rules = R,
                                  !.row = Loaded(R), !.title = t, !.text = d]
<1>1. Serve(s, q) /\ UNCHANGED <<rows, versions, notices>>
  BY DEF StoreRule
<1>2. R \subseteq Existing /\ R \in SUBSET Rules
  BY DEF Existing
<1> HIDE DEF R
<1>3. Loaded(R) \in [Rules -> Row \cup {Absent}]
  BY <1>2, LoadedRows
<1>4. q \in Request
  BY <1>2, <1>3 DEF NoRequest, Request, Kinds
<1>5. /\ q.kind = "store" /\ q.rules = R /\ q.row = Loaded(R)
      /\ q.title = t /\ q.text = d
  BY DEF NoRequest
<1> HIDE DEF q
<1>6. ArgsInv(q, versions)
  BY <1>5 DEF ArgsInv
<1> QED
  BY <1>1, <1>2, <1>4, <1>5, <1>6, ServeStep

-----------------------------------------------------------------------------
(* Commit by commit *)

\* What the invariant says of a request that holds rule r
LEMMA Held ==
    ASSUME IInv, NEW s \in Slots, NEW r \in req[s].rules
    PROVE  /\ req[s] \in Request /\ req[s].rules \subseteq Rules /\ r \in Rules
           /\ RequestInv(req[s], rows, versions)
           /\ req[s].row[r] \in Row
           /\ rows[r] \in Row
           /\ Told(versions, r, req[s].row[r].status)
BY DEF IInv, TypeOK, Request, RequestInv, LoadedInv

\* What is left of a request is a request
LEMMA RestOfRequest ==
    ASSUME NEW q \in Request, NEW r, NEW R, NEW V, RequestInv(q, R, V)
    PROVE  Rest(q, r) \in Request /\ RequestInv(Rest(q, r), R, V)
<1>1. CASE q.rules = {r}
  BY <1>1, IdleRequest DEF Rest
<1>2. CASE q.rules # {r}
  <2> DEFINE p == [q EXCEPT !.rules = @ \ {r}]
  <2>1. /\ p.kind = q.kind /\ p.by = q.by /\ p.row = q.row
        /\ p.title = q.title /\ p.text = q.text /\ p.status = q.status
        /\ p.rules = q.rules \ {r}
    BY DEF Request
  <2>2. p \in Request
    BY DEF Request
  <2>3. Rest(q, r) = p
    BY <1>2 DEF Rest
  <2> HIDE DEF p
  <2>4. LoadedInv(p, R, V)
    BY <2>1 DEF RequestInv, LoadedInv
  <2>5. ArgsInv(p, V)
    BY <2>1 DEF RequestInv, ArgsInv
  <2> QED
    BY <2>2, <2>3, <2>4, <2>5 DEF RequestInv
<1> QED
  BY <1>1, <1>2

LEMMA CommitUpdateStep ==
    ASSUME IInv, NEW s \in Slots, NEW r \in Rules, CommitUpdate(s, r)
    PROVE  IInv'
<1> DEFINE q   == req[s]
           old == q.row[r]
           new == [old EXCEPT !.title = Given(q.title, @),
                              !.definition = Given(q.text, @),
                              !.status = Given(q.status, @)]
           w   == VersionOf(r, new, q.by)
           p   == IF q.status = None THEN NoRequest
                  ELSE [q EXCEPT !.kind = "notify"]
<1>1. /\ q.kind = "update" /\ r \in q.rules
      /\ rows' = [rows EXCEPT ![r] = Write(@, old, new)]
      /\ versions' = versions \cup {w}
      /\ req' = [req EXCEPT ![s] = p]
      /\ notices' = notices /\ requests' = requests
  BY DEF CommitUpdate, LogAndWrite
<1>2. /\ q \in Request /\ q.by \in Users /\ old \in Row
      /\ q.rules = {r} /\ RequestInv(q, rows, versions)
      /\ Told(versions, r, old.status)
  BY <1>1, Held DEF RequestInv, ArgsInv
<1>3. new \in Row /\ new.status = Given(q.status, old.status)
  BY <1>2 DEF Given, Row, Request
<1> HIDE DEF new
<1>4. w \in Version /\ w.rule = r /\ w.definition = new.definition
      /\ w.status = new.status /\ w.by = q.by
  BY <1>2, <1>3, VersionType
<1> HIDE DEF w
<1>5. w \in versions' /\ versions \subseteq versions'
  BY <1>1
<1>6. Told(versions', r, new.status)
  BY <1>2, <1>4, <1>5, SignedStatus
<1>7. /\ rows' \in [Rules -> Row \cup {Absent}]
      /\ versions' \subseteq Version
      /\ Advance(rows, versions, rows', versions')
      /\ RowsInv(rows', versions')
      /\ NoticesInv(notices, versions')
  BY <1>1, <1>3, <1>4, <1>6, WriteStep
<1>8. p \in Request /\ RequestInv(p, rows', versions')
  <2>1. CASE q.status = None
    BY <2>1, IdleRequest
  <2>2. CASE q.status # None
    <3>1. RequestInv(q, rows', versions')
      BY <1>2, <1>7, RequestAdvance
    <3>2. /\ p.kind = "notify" /\ p.by = q.by /\ p.row = q.row
          /\ p.rules = q.rules /\ p.title = q.title /\ p.text = q.text
          /\ p.status = q.status /\ p \in Request
      BY <1>2, <2>2 DEF Request, Kinds
    <3>3. q.status \in Statuses /\ new.status = q.status
      BY <1>2, <1>3, <2>2 DEF Request, Given
    <3> HIDE DEF p
    <3>4. LoadedInv(p, rows', versions')
      BY <3>1, <3>2 DEF RequestInv, LoadedInv
    <3>5. w \in Log(versions', r) /\ w.status = q.status /\ w.by = q.by
      BY <1>4, <1>5, <3>3 DEF Log
    <3>6. ArgsInv(p, versions')
      BY <1>2, <3>2, <3>3, <3>5 DEF ArgsInv
    <3> QED
      BY <3>2, <3>4, <3>6 DEF RequestInv
  <2> QED
    BY <2>1, <2>2
<1> HIDE DEF p
<1> QED
  BY <1>1, <1>7, <1>8, AnyStep DEF IInv, TypeOK

LEMMA NotifyStep ==
    ASSUME IInv, NEW s \in Slots, NEW r \in Rules, Notify(s, r)
    PROVE  IInv'
<1> DEFINE N == {[rule |-> r, status |-> req[s].status, to |-> u] :
                    u \in Subscribers(req[s].by)}
<1>1. /\ req[s].kind = "notify" /\ r \in req[s].rules
      /\ notices' = notices \cup N
      /\ req' = [req EXCEPT ![s] = NoRequest]
      /\ UNCHANGED <<rows, versions, requests>>
  BY DEF Notify
<1>2. /\ req[s].by \in Users /\ req[s].status \in Statuses
      /\ \E v \in Log(versions, r) : v.status = req[s].status /\ v.by = req[s].by
  BY <1>1, Held DEF RequestInv, ArgsInv
<1>3. /\ N \subseteq Notice
      /\ \A n \in N : n.rule = r /\ n.status = req[s].status /\ n.to # req[s].by
  BY <1>2 DEF Subscribers, Notice
<1>4. NoticesInv(N, versions)
  BY <1>2, <1>3 DEF NoticesInv
<1>5. NoticesInv(notices', versions')
  BY <1>1, <1>4 DEF IInv, NoticesInv
<1>6. /\ notices' \subseteq Notice /\ requests' \in Nat
      /\ rows' \in [Rules -> Row \cup {Absent}] /\ versions' \subseteq Version
      /\ RowsInv(rows', versions')
      /\ Advance(rows, versions, rows', versions')
  BY <1>1, <1>3, StandStill DEF IInv, TypeOK
<1> QED
  BY <1>1, <1>5, <1>6, IdleRequest, AnyStep

LEMMA CommitDecisionStep ==
    ASSUME IInv, NEW s \in Slots, NEW r \in Rules, CommitDecision(s, r)
    PROVE  IInv'
<1> DEFINE q   == req[s]
           old == q.row[r]
           new == [old EXCEPT !.status = q.status]
           w   == VersionOf(r, new, q.by)
<1>1. /\ q.kind = "decide" /\ r \in q.rules
      /\ rows' = [rows EXCEPT ![r] = Write(@, old, new)]
      /\ versions' = versions \cup {w}
      /\ notices' = notices /\ requests' = requests
  BY DEF CommitDecision, LogAndWrite
<1>2. req' = [req EXCEPT ![s] = Rest(q, r)]
  BY DEF CommitDecision, Done, Rest
<1>3. /\ q \in Request /\ q.rules \subseteq Rules /\ q.by \in Users
      /\ old \in Row /\ q.status \in Statuses /\ RequestInv(q, rows, versions)
  BY <1>1, Held DEF RequestInv, ArgsInv
<1>4. new \in Row
  BY <1>3 DEF Row
<1> HIDE DEF new
<1>5. w \in Version /\ w.rule = r /\ w.definition = new.definition
      /\ w.status = new.status /\ w.by = q.by
  BY <1>3, <1>4, VersionType
<1> HIDE DEF w
<1>6. Told(versions', r, new.status)
  BY <1>1, <1>3, <1>5, SignedStatus
<1>7. /\ rows' \in [Rules -> Row \cup {Absent}]
      /\ versions' \subseteq Version
      /\ Advance(rows, versions, rows', versions')
      /\ RowsInv(rows', versions')
      /\ NoticesInv(notices, versions')
  BY <1>1, <1>4, <1>5, <1>6, WriteStep
<1>8. Rest(q, r) \in Request /\ RequestInv(Rest(q, r), rows', versions')
  BY <1>3, <1>7, RequestAdvance, RestOfRequest
<1> QED
  BY <1>1, <1>2, <1>7, <1>8, AnyStep DEF IInv, TypeOK

LEMMA CommitStoredStep ==
    ASSUME IInv, NEW s \in Slots, NEW r \in Rules, CommitStored(s, r)
    PROVE  IInv'
<1> DEFINE q   == req[s]
           old == q.row[r]
           new == Drifted(old, q.text)
           w   == VersionOf(r, old, None)
<1>1. /\ q.kind = "store" /\ r \in q.rules
      /\ notices' = notices /\ requests' = requests
  BY DEF CommitStored
<1>2. req' = [req EXCEPT ![s] = Rest(q, r)]
  BY DEF CommitStored, Done, Rest
<1>3. /\ q \in Request /\ q.rules \subseteq Rules
      /\ old \in Row /\ RequestInv(q, rows, versions)
  BY <1>1, Held
<1>4. CASE old.definition = q.text
  <2>1. UNCHANGED <<rows, versions, notices>> /\ requests' \in Nat
    BY <1>1, <1>4 DEF CommitStored, IInv, TypeOK
  <2>2. Rest(q, r) \in Request /\ RequestInv(Rest(q, r), rows, versions)
    BY <1>3, RestOfRequest
  <2> QED
    BY <1>2, <2>1, <2>2, RequestStep
<1>5. CASE old.definition # q.text
  <2>1. /\ rows' = [rows EXCEPT ![r] = Write(@, old, new)]
        /\ versions' = versions \cup {w}
    BY <1>5 DEF CommitStored
  <2>2. new \in Row /\ new.status = "drift" /\ new.definition = old.definition
    BY <1>3 DEF Drifted, Row, Statuses
  <2>3. w \in Version /\ w.rule = r /\ w.definition = old.definition
    BY <1>3, VersionType
  <2> HIDE DEF new, w
  <2>4. Told(versions', r, new.status)
    BY <2>1, <2>2, <2>3 DEF Told, Log
  <2>5. /\ rows' \in [Rules -> Row \cup {Absent}]
        /\ versions' \subseteq Version
        /\ Advance(rows, versions, rows', versions')
        /\ RowsInv(rows', versions')
        /\ NoticesInv(notices, versions')
    BY <1>1, <2>1, <2>2, <2>3, <2>4, WriteStep
  <2>6. Rest(q, r) \in Request /\ RequestInv(Rest(q, r), rows', versions')
    BY <1>3, <2>5, RequestAdvance, RestOfRequest
  <2> QED
    BY <1>1, <1>2, <2>5, <2>6, AnyStep DEF IInv, TypeOK
<1> QED
  BY <1>4, <1>5

LEMMA InsertStoredStep ==
    ASSUME IInv, NEW s \in Slots, InsertStored(s)
    PROVE  IInv'
<1> DEFINE new == [title |-> req[s].title, definition |-> req[s].text,
                   status |-> "proposed", ingested |-> TRUE]
<1>1. PICK r \in Rules \ Existing : rows' = [rows EXCEPT ![r] = new]
  BY DEF InsertStored
<1>2. /\ req[s].kind = "store"
      /\ req' = [req EXCEPT ![s] = NoRequest]
      /\ UNCHANGED <<versions, notices, requests>>
  BY DEF InsertStored
<1>3. new \in Row /\ new.status = "proposed"
  BY <1>2 DEF IInv, RequestInv, ArgsInv, Row, Statuses
<1> HIDE DEF new
<1>4. /\ rows[r] = Absent
      /\ rows'[r] = new /\ \A x \in Rules \ {r} : rows'[x] = rows[x]
      /\ rows' \in [Rules -> Row \cup {Absent}]
  BY <1>1, <1>3 DEF IInv, TypeOK, Existing
<1>5. Advance(rows, versions, rows', versions')
  BY <1>2, <1>4 DEF Advance
<1>6. RowsInv(rows', versions')
  BY <1>2, <1>3, <1>4, RowFields DEF IInv, RowsInv, NoLog, Told
<1>7. /\ versions' \subseteq Version /\ notices' \subseteq Notice
      /\ requests' \in Nat /\ NoticesInv(notices', versions')
  BY <1>2 DEF IInv, TypeOK
<1> QED
  BY <1>2, <1>4, <1>5, <1>6, <1>7, IdleRequest, AnyStep

LEMMA CommitPromotionStep ==
    ASSUME IInv, NEW s \in Slots, CommitPromotion(s)
    PROVE  IInv'
<1>1. /\ rows' = [r \in Rules |-> IF r \in Promotable(s)
                                  THEN [rows[r] EXCEPT !.status = "active"]
                                  ELSE rows[r]]
      /\ req' = [req EXCEPT ![s] = NoRequest]
      /\ UNCHANGED <<versions, notices, requests>>
  BY DEF CommitPromotion
<1>2. ASSUME NEW r \in Promotable(s)
      PROVE  /\ rows[r] \in Row /\ rows'[r] \in Row
             /\ rows'[r].definition = rows[r].definition
             /\ rows'[r].status = "active"
             /\ Told(versions, r, "active")
  <2>1. r \in req[s].rules /\ req[s].row[r].status = "approved"
    BY DEF Promotable
  <2>2. rows[r] \in Row /\ Told(versions, r, "approved") /\ r \in Rules
    BY <2>1, Held
  <2>3. rows'[r] = [rows[r] EXCEPT !.status = "active"]
    BY <1>1, <2>2
  <2> QED
    BY <2>2, <2>3 DEF Row, Statuses, Told
<1>3. \A r \in Rules \ Promotable(s) : rows'[r] = rows[r]
  BY <1>1
<1>4. rows' \in [Rules -> Row \cup {Absent}]
  <2>1. \A r \in Rules : rows'[r] \in Row \cup {Absent}
    BY <1>2, <1>3 DEF IInv, TypeOK
  <2> QED
    BY <1>1, <2>1
<1>5. Advance(rows, versions, rows', versions')
  BY <1>1, <1>2, <1>3, RowFields DEF Advance
<1>6. RowsInv(rows', versions')
  BY <1>1, <1>2, <1>3, RowFields DEF IInv, RowsInv, NoLog
<1>7. /\ versions' \subseteq Version /\ notices' \subseteq Notice
      /\ requests' \in Nat /\ NoticesInv(notices', versions')
  BY <1>1 DEF IInv, TypeOK
<1> QED
  BY <1>1, <1>4, <1>5, <1>6, <1>7, IdleRequest, AnyStep

LEMMA LoseRequestStep ==
    ASSUME IInv, NEW s \in Slots, LoseRequest(s)
    PROVE  IInv'
<1>1. /\ req' = [req EXCEPT ![s] = NoRequest] /\ requests' \in Nat
      /\ UNCHANGED <<rows, versions, notices>>
  BY DEF LoseRequest, IInv, TypeOK
<1> QED
  BY <1>1, IdleRequest, RequestStep

-----------------------------------------------------------------------------
(* The theorems *)

LEMMA NextIInv == IInv /\ [Next]_vars => IInv'
<1> SUFFICES ASSUME IInv, [Next]_vars PROVE IInv'
  OBVIOUS
<1>1. CASE UNCHANGED vars
  BY <1>1 DEF vars, IInv, TypeOK
<1>2. ASSUME NEW u \in Users, NEW t \in Titles, NEW d \in Texts, Propose(u, t, d)
      PROVE  IInv'
  BY <1>2, ProposeStep
<1>3. ASSUME NEW s \in Slots, NEW u \in Users, Arrive(s, u)
      PROVE  IInv'
  <2>1. ASSUME NEW r \in Rules, Edit(s, u, r) PROVE IInv'
    BY <2>1, UpdateRuleStep DEF Edit
  <2>2. ASSUME NEW r \in Rules,
               \/ ApproveRule(s, u, r) \/ RejectRule(s, u, r)
               \/ DeprecateRule(s, u, r) \/ MarkActive(s, u, r)
        PROVE  IInv'
    <3>1. PICK st \in Statuses : Decide(s, u, {r}, st)
      BY <2>2 DEF ApproveRule, RejectRule, DeprecateRule, MarkActive, Statuses
    <3>2. {r} \in SUBSET Rules
      OBVIOUS
    <3> QED
      BY <3>1, <3>2, DecideStep
  <2>3. ASSUME NEW R \in SUBSET Rules, BulkApproveRules(s, u, R) PROVE IInv'
    <3>1. Decide(s, u, R \cap Proposed, "approved")
      BY <2>3 DEF BulkApproveRules
    <3>2. R \cap Proposed \in SUBSET Rules /\ "approved" \in Statuses
      BY DEF Statuses
    <3> QED
      BY <3>1, <3>2, DecideStep
  <2>4. ASSUME NEW R \in SUBSET Rules, PromoteWikiChanges(s, u, R) PROVE IInv'
    BY <2>4, PromoteStep
  <2> QED
    BY <1>3, <2>1, <2>2, <2>3, <2>4 DEF Arrive
<1>4. ASSUME NEW s \in Slots, NEW t \in Titles, NEW d \in Texts, StoreRule(s, t, d)
      PROVE  IInv'
  BY <1>4, StoreStep
<1>5. ASSUME NEW s \in Slots, Commit(s)
      PROVE  IInv'
  BY <1>5, CommitUpdateStep, NotifyStep, CommitDecisionStep, CommitStoredStep,
     CommitPromotionStep, InsertStoredStep, LoseRequestStep DEF Commit
<1> QED
  BY <1>1, <1>2, <1>3, <1>4, <1>5 DEF Next

(* The invariant of every request, every row and every notification: it     *)
(* holds through any interleaving of loads and commits, lost ones included. *)
THEOREM Inductive == Spec => []IInv
<1>1. Init => IInv
  BY InitIInv
<1>2. IInv /\ [Next]_vars => IInv'
  BY NextIInv
<1> QED
  BY <1>1, <1>2, PTL DEF Spec

LEMMA InvariantParts ==
    IInv => TypeOK /\ LineageHasPolicy /\ StatusIsExplained /\ NoticesAreTrue
<1> SUFFICES ASSUME IInv
             PROVE  TypeOK /\ LineageHasPolicy /\ StatusIsExplained /\ NoticesAreTrue
  OBVIOUS
<1>1. \A r : History(r) = Log(versions, r)
  BY DEF History, Log
<1>2. LineageHasPolicy
  BY <1>1 DEF IInv, RowsInv, LineageHasPolicy, Existing
<1>3. \A r, st : Told(versions, r, st) => Explained(r, st)
  BY <1>1 DEF Told, Signed, Explained, Decided
<1>4. StatusIsExplained
  BY <1>3 DEF IInv, RowsInv, StatusIsExplained, Existing
<1>5. NoticesAreTrue
  BY <1>1 DEF IInv, NoticesInv, NoticesAreTrue
<1> QED
  BY <1>2, <1>4, <1>5 DEF IInv

(* Rows, log, notifications and requests are well formed.                   *)
THEOREM TypeCorrect == Spec => []TypeOK
<1>1. IInv => TypeOK
  BY InvariantParts
<1> QED
  BY <1>1, Inductive, PTL

(* However many requests write a rule with stale copies: as soon as it has  *)
(* a history, GET /rules/{id}/lineage has the definition in force.          *)
THEOREM LineageIsCurrent == Spec => []LineageHasPolicy
<1>1. IInv => LineageHasPolicy
  BY InvariantParts
<1> QED
  BY <1>1, Inductive, PTL

(* No rule is approved, active, deprecated or in drift without an entry of  *)
(* the log that says why, whoever promoted it from whatever list.           *)
THEOREM StatusesAreExplained == Spec => []StatusIsExplained
<1>1. IInv => StatusIsExplained
  BY InvariantParts
<1> QED
  BY <1>1, Inductive, PTL

(* Notifications tell only of changes that were committed, and by others.   *)
THEOREM NotificationsAreTrue == Spec => []NoticesAreTrue
<1>1. IInv => NoticesAreTrue
  BY InvariantParts
<1> QED
  BY <1>1, Inductive, PTL

-----------------------------------------------------------------------------
(* Who changes a policy *)

SignedChange(r) ==
    rows'[r].definition # rows[r].definition =>
        \E v \in versions' : /\ v.rule = r /\ v.by \in Users
                             /\ v.definition = rows'[r].definition

\* A row that is written with a signed version of the new definition, or
\* with the definition that was loaded
LEMMA WriteIsSigned ==
    ASSUME IInv, NEW s \in Slots, NEW r \in req[s].rules, NEW new \in Row,
           NEW u \in Users \cup {None},
           rows' = [rows EXCEPT ![r] = Write(@, req[s].row[r], new)],
           \/ u \in Users /\ VersionOf(r, new, u) \in versions'
           \/ new.definition = req[s].row[r].definition
    PROVE  \A x \in Rules : SignedChange(x)
<1>1. /\ r \in Rules /\ rows[r] \in Row /\ req[s].row[r] \in Row
  BY Held
<1>2. /\ rows'[r].definition = IF new.definition = req[s].row[r].definition
                               THEN rows[r].definition ELSE new.definition
      /\ \A x \in Rules \ {r} : rows'[x] = rows[x]
  BY <1>1, WriteFields DEF IInv, TypeOK
<1>3. /\ VersionOf(r, new, u).rule = r /\ VersionOf(r, new, u).by = u
      /\ VersionOf(r, new, u).definition = new.definition
  BY <1>1, VersionType
<1> QED
  BY <1>2, <1>3 DEF SignedChange

LEMMA CommitIsSigned ==
    ASSUME IInv, NEW s \in Slots, Commit(s)
    PROVE  \A x \in Existing : SignedChange(x)
<1>0. \A x \in Existing : x \in Rules /\ rows[x] \in Row
  BY DEF Existing, IInv, TypeOK
<1>1. ASSUME NEW r \in Rules, CommitUpdate(s, r)
      PROVE  \A x \in Existing : SignedChange(x)
  <2> DEFINE q   == req[s]
             old == q.row[r]
             new == [old EXCEPT !.title = Given(q.title, @),
                                !.definition = Given(q.text, @),
                                !.status = Given(q.status, @)]
  <2>1. /\ q.kind = "update" /\ r \in q.rules
        /\ rows' = [rows EXCEPT ![r] = Write(@, old, new)]
        /\ versions' = versions \cup {VersionOf(r, new, q.by)}
    BY <1>1 DEF CommitUpdate, LogAndWrite
  <2>2. q \in Request /\ q.by \in Users /\ old \in Row
    BY <2>1, Held DEF RequestInv, ArgsInv
  <2>3. new \in Row
    BY <2>2 DEF Given, Row, Request
  <2> HIDE DEF new
  <2> QED
    BY <1>0, <2>1, <2>2, <2>3, WriteIsSigned
<1>2. ASSUME NEW r \in Rules, CommitDecision(s, r)
      PROVE  \A x \in Existing : SignedChange(x)
  <2> DEFINE q   == req[s]
             old == q.row[r]
             new == [old EXCEPT !.status = q.status]
  <2>1. /\ q.kind = "decide" /\ r \in q.rules
        /\ rows' = [rows EXCEPT ![r] = Write(@, old, new)]
        /\ versions' = versions \cup {VersionOf(r, new, q.by)}
    BY <1>2 DEF CommitDecision, LogAndWrite
  <2>2. q.by \in Users /\ old \in Row /\ q.status \in Statuses
    BY <2>1, Held DEF RequestInv, ArgsInv
  <2>3. new \in Row
    BY <2>2 DEF Row
  <2> HIDE DEF new
  <2> QED
    BY <1>0, <2>1, <2>2, <2>3, WriteIsSigned
<1>3. ASSUME NEW r \in Rules, CommitStored(s, r)
      PROVE  \A x \in Existing : SignedChange(x)
  <2>1. CASE UNCHANGED rows
    BY <1>0, <2>1 DEF SignedChange
  <2>2. CASE req[s].row[r].definition # req[s].text
    <3> DEFINE old == req[s].row[r]
               new == Drifted(old, req[s].text)
    <3>1. r \in req[s].rules /\ rows' = [rows EXCEPT ![r] = Write(@, old, new)]
      BY <1>3, <2>2 DEF CommitStored
    <3>2. new \in Row /\ new.definition = old.definition
      BY <3>1, Held DEF Drifted, Row, Statuses
    <3> HIDE DEF new
    <3> QED
      BY <1>0, <3>1, <3>2, WriteIsSigned
  <2> QED
    BY <1>3, <2>1, <2>2 DEF CommitStored
<1>4. ASSUME CommitPromotion(s)
      PROVE  \A x \in Existing : SignedChange(x)
  <2>1. rows' = [r \in Rules |-> IF r \in Promotable(s)
                                THEN [rows[r] EXCEPT !.status = "active"]
                                ELSE rows[r]]
    BY <1>4 DEF CommitPromotion
  <2>2. \A x \in Existing : rows'[x].definition = rows[x].definition
    BY <1>0, <2>1 DEF Row
  <2> QED
    BY <2>2 DEF SignedChange
<1>5. ASSUME InsertStored(s)
      PROVE  \A x \in Existing : SignedChange(x)
  <2>1. \A x \in Existing : rows'[x] = rows[x]
    BY <1>5 DEF InsertStored, IInv, TypeOK, Existing
  <2> QED
    BY <2>1 DEF SignedChange
<1>6. ASSUME UNCHANGED rows
      PROVE  \A x \in Existing : SignedChange(x)
  BY <1>6 DEF SignedChange
<1> QED
  BY <1>1, <1>2, <1>3, <1>4, <1>5, <1>6 DEF Commit, Notify, LoseRequest

(* An ingest, a promotion or a decision never changes what a rule says: a   *)
(* definition changes only together with a version that a user signed.      *)
THEOREM PoliciesAreSigned == Spec => PolicyChangesAreSigned
<1>1. IInv /\ [Next]_vars => [\A r \in Existing : SignedChange(r)]_vars
  <2> SUFFICES ASSUME IInv, Next PROVE \A r \in Existing : SignedChange(r)
    OBVIOUS
  <2>1. ASSUME UNCHANGED rows PROVE \A r \in Existing : SignedChange(r)
    BY <2>1 DEF SignedChange
  <2>2. ASSUME NEW u \in Users, NEW t \in Titles, NEW d \in Texts, Propose(u, t, d)
        PROVE  \A r \in Existing : SignedChange(r)
    <3>1. \A x \in Existing : rows'[x] = rows[x]
      BY <2>2 DEF Propose, IInv, TypeOK, Existing
    <3> QED
      BY <3>1 DEF SignedChange
  <2>3. ASSUME NEW s \in Slots, NEW u \in Users, Arrive(s, u)
        PROVE  UNCHANGED rows
    BY <2>3 DEF Arrive, Edit, UpdateRule, ApproveRule, RejectRule, DeprecateRule,
       MarkActive, BulkApproveRules, PromoteWikiChanges, Decide
  <2>4. ASSUME NEW s \in Slots, NEW t \in Titles, NEW d \in Texts, StoreRule(s, t, d)
        PROVE  UNCHANGED rows
    BY <2>4 DEF StoreRule
  <2>5. ASSUME NEW s \in Slots, Commit(s)
        PROVE  \A r \in Existing : SignedChange(r)
    BY <2>5, CommitIsSigned
  <2> QED
    BY <2>1, <2>2, <2>3, <2>4, <2>5 DEF Next
<1>2. [\A r \in Existing : SignedChange(r)]_vars
        => [\A r \in Existing :
              rows'[r].definition # rows[r].definition =>
                \E v \in versions' : /\ v.rule = r /\ v.by \in Users
                                     /\ v.definition = rows'[r].definition]_vars
  BY DEF SignedChange
<1> QED
  BY <1>1, <1>2, Inductive, PTL DEF PolicyChangesAreSigned, Spec

=============================================================================
