---------------------------- MODULE RuleLifecycle ----------------------------
(***************************************************************************)
(* The life of a business rule: proposed by a user or inserted by an       *)
(* ingest, edited, reviewed, promoted, marked as drifted, and the version  *)
(* log, GET /rules/{id}/lineage, that is to tell its story.                *)
(*                                                                         *)
(* Every endpoint is one request with its own session: it SELECTs the rule *)
(* (an action that fills req[s]), and commits an UPDATE in a later step.   *)
(* No statement checks a version, so requests interleave between the two.  *)
(* SQLAlchemy writes only the columns whose value in memory has changed    *)
(* since they were loaded (Write): that is what two stale requests lose or *)
(* keep of each other.                                                     *)
(*                                                                         *)
(* Abstractions.  A definition is one of Texts.  Of a row only the columns *)
(* are kept that a request reads or a property is about: not code_behavior,*)
(* deprecated_at, scores or the work item.  The log is a set: the order of *)
(* changed_at is left out.  Every user subscribes to every rule.  Rules    *)
(* are not deleted (DELETE /admin/data).                                   *)
(***************************************************************************)
EXTENDS Naturals, FiniteSets

CONSTANTS
    Rules,         \* ids of rules
    Titles,        \* titles of rules
    Texts,         \* definitions
    Users,         \* who edit and review
    Slots,         \* requests being served at the same time
    Settable,      \* the statuses that PUT /rules/{id} is called with
    None,          \* no value: a field left out of a request's body, the
                   \* columns of a rule not inserted yet, who an ingest is
    MaxRequests    \* bound: requests that change a rule

Statuses == {"proposed", "under_review", "approved", "active", "drift",
             "needs_update", "deprecated"}

ASSUME SettableAssumption == Settable \subseteq Statuses
ASSUME NoneAssumption     == None \notin Titles \cup Texts \cup Statuses \cup Users
ASSUME BoundAssumption    == MaxRequests \in Nat

VARIABLES
    rows,       \* rows[r]: the committed row of rule r
    versions,   \* the rows of rule_versions
    notices,    \* the rows of notifications
    req,        \* req[s]: what the request in slot s holds in memory
    requests    \* requests so far

vars == <<rows, versions, notices, req, requests>>

-----------------------------------------------------------------------------
(* State *)

\* ingested: the rule is joined to the service whose code it came from
Row == [title : Titles, definition : Texts, status : Statuses,
        ingested : BOOLEAN]

Absent == [title |-> None, definition |-> None, status |-> None,
           ingested |-> FALSE]

Version == [rule : Rules, definition : Texts, status : Statuses,
            by : Users \cup {None}]

Notice == [rule : Rules, status : Statuses, to : Users]

(* kind: the handler.  rules: the rules it still has to write; row: how it *)
(* loaded them.  title, text, status: the values it was called with.       *)
Kinds == {"idle", "update", "notify", "decide", "promote", "store"}

Request == [kind : Kinds, by : Users \cup {None}, rules : SUBSET Rules,
            row : [Rules -> Row \cup {Absent}],
            title : Titles \cup {None}, text : Texts \cup {None},
            status : Statuses \cup {None}]

NoRequest == [kind |-> "idle", by |-> None, rules |-> {},
              row |-> [r \in Rules |-> Absent],
              title |-> None, text |-> None, status |-> None]

Init == /\ rows = [r \in Rules |-> Absent]
        /\ versions = {} /\ notices = {}
        /\ req = [s \in Slots |-> NoRequest]
        /\ requests = 0

-----------------------------------------------------------------------------
(* Helpers *)

Existing == {r \in Rules : rows[r] # Absent}

Proposed == {r \in Existing : rows[r].status = "proposed"}

\* The rules a session holds after it has selected R
Loaded(R) == [r \in Rules |-> IF r \in R THEN rows[r] ELSE Absent]

\* The UPDATE that turns the loaded row into new: only what differs is set
Write(row, loaded, new) ==
    [f \in DOMAIN row |-> IF new[f] = loaded[f] THEN row[f] ELSE new[f]]

VersionOf(r, row, user) ==
    [rule |-> r, definition |-> row.definition, status |-> row.status,
     by |-> user]

Given(value, default) == IF value = None THEN default ELSE value

Serve(s, request) ==
    /\ req[s] = NoRequest
    /\ requests < MaxRequests
    /\ req' = [req EXCEPT ![s] = request]
    /\ requests' = requests + 1

\* What is left of request q when it has written rule r
Rest(q, r) == IF q.rules = {r} THEN NoRequest
              ELSE [q EXCEPT !.rules = @ \ {r}]

Done(s, r) == req' = [req EXCEPT ![s] = Rest(@, r)]

-----------------------------------------------------------------------------
(* Requests arrive and load what they are about *)

\* POST /rules: the rule and its first version in one commit
Propose(u, t, d) ==
    /\ requests < MaxRequests
    /\ requests' = requests + 1
    /\ \E r \in Rules \ Existing :
         LET new == [title |-> t, definition |-> d, status |-> "proposed",
                     ingested |-> FALSE]
         IN /\ rows' = [rows EXCEPT ![r] = new]
            /\ versions' = versions \cup {VersionOf(r, new, u)}
    /\ UNCHANGED <<notices, req>>

\* PUT /rules/{id}, any of the three fields given
UpdateRule(s, u, r, t, d, st) ==
    /\ r \in Existing
    /\ Serve(s, [NoRequest EXCEPT !.kind = "update", !.by = u, !.rules = {r},
                                  !.row = Loaded({r}), !.title = t,
                                  !.text = d, !.status = st])
    /\ UNCHANGED <<rows, versions, notices>>

\* A handler that does nothing but give the rules R a status
Decide(s, u, R, st) ==
    /\ R # {} /\ R \subseteq Existing
    /\ Serve(s, [NoRequest EXCEPT !.kind = "decide", !.by = u, !.rules = R,
                                  !.row = Loaded(R), !.status = st])
    /\ UNCHANGED <<rows, versions, notices>>

\* The four decisions: none asks which status the rule has
ApproveRule(s, u, r)   == Decide(s, u, {r}, "approved")
DeprecateRule(s, u, r) == Decide(s, u, {r}, "deprecated")
MarkActive(s, u, r)    == Decide(s, u, {r}, "active")

\* Mutant: a rejected rule gets a status that the enumeration does not have
RejectRuleAsRejected(s, u, r) == Decide(s, u, {r}, "rejected")
RejectRule(s, u, r) == Decide(s, u, {r}, "proposed")

\* POST /review-queue/bulk-approve: the proposed rules among R are loaded at
\* once, and the loop's own SELECTs return those same objects
BulkApproveRules(s, u, R) == Decide(s, u, R \cap Proposed, "approved")

\* POST /wiki/promote with ids; with "all" the approved rules are selected
PromoteWikiChanges(s, u, R) ==
    /\ R # {} /\ R \subseteq Existing
    /\ Serve(s, [NoRequest EXCEPT !.kind = "promote", !.by = u, !.rules = R,
                                  !.row = Loaded(R)])
    /\ UNCHANGED <<rows, versions, notices>>

\* An ingest looks a rule up by title and service; two matches raise
StoreRule(s, t, d) ==
    LET matches == {r \in Existing : rows[r].ingested /\ rows[r].title = t}
    IN /\ \A r1, r2 \in matches : r1 = r2
       /\ Serve(s, [NoRequest EXCEPT !.kind = "store", !.rules = matches,
                                     !.row = Loaded(matches), !.title = t,
                                     !.text = d])
       /\ UNCHANGED <<rows, versions, notices>>

-----------------------------------------------------------------------------
(* Requests commit what they have decided *)

\* Mutant: the version is built before the new values are assigned
LogAndWriteLoaded(r, old, new, user) ==
    /\ rows' = [rows EXCEPT ![r] = Write(@, old, new)]
    /\ versions' = versions \cup
          {VersionOf(r, [old EXCEPT !.status = new.status], user)}

\* A rule and the version that shows it, in one commit
LogAndWrite(r, old, new, user) ==
    /\ rows' = [rows EXCEPT ![r] = Write(@, old, new)]
    /\ versions' = versions \cup {VersionOf(r, new, user)}

\* Mutant: the commit fails unseen, as in write_audit, and the router notifies
CommitUpdateUnsaved(s, r) ==
    /\ req[s].kind = "update" /\ r \in req[s].rules
    /\ req' = [req EXCEPT ![s] = IF req[s].status = None THEN NoRequest
                                 ELSE [req[s] EXCEPT !.kind = "notify"]]
    /\ UNCHANGED <<rows, versions, notices, requests>>

\* update_rule, and whether the router goes on to notify
CommitUpdate(s, r) ==
    /\ req[s].kind = "update" /\ r \in req[s].rules
    /\ LET q   == req[s]
           old == q.row[r]
           new == [old EXCEPT !.title = Given(q.title, @),
                              !.definition = Given(q.text, @),
                              !.status = Given(q.status, @)]
       IN /\ LogAndWrite(r, old, new, q.by)
          /\ req' = [req EXCEPT ![s] = IF q.status = None THEN NoRequest
                                       ELSE [q EXCEPT !.kind = "notify"]]
    /\ UNCHANGED <<notices, requests>>

Subscribers(actor) == Users \ {actor}

\* The subscribers but the actor are told, in a second transaction
Notify(s, r) ==
    /\ req[s].kind = "notify" /\ r \in req[s].rules
    /\ notices' = notices \cup
         {[rule |-> r, status |-> req[s].status, to |-> u] :
              u \in Subscribers(req[s].by)}
    /\ req' = [req EXCEPT ![s] = NoRequest]
    /\ UNCHANGED <<rows, versions, requests>>

\* approve, reject, deprecate, mark_active: write_audit commits rule, version
\* and audit entry together, once for each rule of a bulk approval
CommitDecision(s, r) ==
    /\ req[s].kind = "decide" /\ r \in req[s].rules
    /\ LET old == req[s].row[r]
       IN LogAndWrite(r, old, [old EXCEPT !.status = req[s].status],
                      req[s].by)
    /\ Done(s, r)
    /\ UNCHANGED <<notices, requests>>

\* Mutant: the promotion trusts the ids it was sent
AllSent(s) == req[s].rules

Promotable(s) == {r \in req[s].rules : req[s].row[r].status = "approved"}

\* One commit for all the rules that were approved when they were loaded
CommitPromotion(s) ==
    /\ req[s].kind = "promote"
    /\ rows' = [r \in Rules |-> IF r \in Promotable(s)
                                THEN [rows[r] EXCEPT !.status = "active"]
                                ELSE rows[r]]
    /\ req' = [req EXCEPT ![s] = NoRequest]
    /\ UNCHANGED <<versions, notices, requests>>

\* store_rule, no match: the rule is inserted, without a version
InsertStored(s) ==
    /\ req[s].kind = "store" /\ req[s].rules = {}
    /\ \E r \in Rules \ Existing :
         rows' = [rows EXCEPT ![r] =
                    [title |-> req[s].title, definition |-> req[s].text,
                     status |-> "proposed", ingested |-> TRUE]]
    /\ req' = [req EXCEPT ![s] = NoRequest]
    /\ UNCHANGED <<versions, notices, requests>>

\* Mutant: a re-ingest overwrites the policy, as before code_behavior existed
OverwrittenBy(old, text) ==
    [old EXCEPT !.status = "drift", !.definition = text]

Drifted(old, text) == [old EXCEPT !.status = "drift"]

\* store_rule, one match: if the code says something else than the policy
\* that was loaded, that policy is logged and the rule is in drift
CommitStored(s, r) ==
    /\ req[s].kind = "store" /\ r \in req[s].rules
    /\ LET old == req[s].row[r]
       IN IF old.definition # req[s].text
          THEN /\ rows' = [rows EXCEPT ![r] =
                              Write(@, old, Drifted(old, req[s].text))]
               /\ versions' = versions \cup {VersionOf(r, old, None)}
          ELSE UNCHANGED <<rows, versions>>
    /\ Done(s, r)
    /\ UNCHANGED <<notices, requests>>

\* A commit fails, the process dies, or write_audit swallows the failure: the
\* rest of a bulk approval then is a new request, loading each rule afresh
LoseRequest(s) ==
    /\ req[s] # NoRequest
    /\ req' = [req EXCEPT ![s] = NoRequest]
    /\ UNCHANGED <<rows, versions, notices, requests>>

-----------------------------------------------------------------------------
Edit(s, u, r) ==
    \E t \in Titles \cup {None}, d \in Texts \cup {None},
       st \in Settable \cup {None} : UpdateRule(s, u, r, t, d, st)

Arrive(s, u) ==
    \/ \E r \in Rules : \/ Edit(s, u, r)
                        \/ ApproveRule(s, u, r)
                        \/ RejectRule(s, u, r)
                        \/ DeprecateRule(s, u, r)
                        \/ MarkActive(s, u, r)
    \/ \E R \in SUBSET Rules : \/ BulkApproveRules(s, u, R)
                               \/ PromoteWikiChanges(s, u, R)

Commit(s) ==
    \/ \E r \in Rules : \/ CommitUpdate(s, r)
                        \/ Notify(s, r)
                        \/ CommitDecision(s, r)
                        \/ CommitStored(s, r)
    \/ CommitPromotion(s)
    \/ InsertStored(s)
    \/ LoseRequest(s)

Next ==
    \/ \E u \in Users, t \in Titles, d \in Texts : Propose(u, t, d)
    \/ \E s \in Slots, u \in Users : Arrive(s, u)
    \/ \E s \in Slots, t \in Titles, d \in Texts : StoreRule(s, t, d)
    \/ \E s \in Slots : Commit(s)

Spec == Init /\ [][Next]_vars

-----------------------------------------------------------------------------
(* Properties *)

TypeOK ==
    /\ rows \in [Rules -> Row \cup {Absent}]
    /\ versions \subseteq Version
    /\ notices \subseteq Notice
    /\ req \in [Slots -> Request]
    /\ requests \in Nat

History(r) == {v \in versions : v.rule = r}

\* Somebody gave rule r the status st, and the log says so
Decided(r, st) == \E v \in History(r) : v.status = st /\ v.by \in Users

(* As soon as a rule has any history, the definition in its row is part of *)
(* it, whatever requests were served in between with a stale copy: the     *)
(* lineage and the diff view never leave out the policy in force.          *)
LineageHasPolicy ==
    \A r \in Existing :
        History(r) # {} =>
            \E v \in History(r) : v.definition = rows[r].definition

(* Every status but a first "proposed" is explained by the log: a person   *)
(* gave it, a promotion to "active" follows an approval, and a drift left  *)
(* at least the policy that the code departed from.                        *)
Explained(r, st) ==
    /\ st \in {"under_review", "approved", "needs_update", "deprecated"} =>
          Decided(r, st)
    /\ st = "active" => Decided(r, "active") \/ Decided(r, "approved")
    /\ st = "drift"  => History(r) # {}

StatusIsExplained == \A r \in Existing : Explained(r, rows[r].status)

(* Only a person changes a policy: a rule's definition never changes       *)
(* without a version, naming a user, that has the new one.  An ingest      *)
(* records what the code does and leaves the policy alone.                 *)
PolicyChangesAreSigned ==
    [][\A r \in Existing :
          rows'[r].definition # rows[r].definition =>
              \E v \in versions' : /\ v.rule = r /\ v.by \in Users
                                   /\ v.definition = rows'[r].definition]_vars

(* A notification is never ahead of the facts: the change of status it     *)
(* tells of is in the log, and was made by someone else than its reader.   *)
NoticesAreTrue ==
    \A n \in notices :
        \E v \in History(n.rule) : v.status = n.status /\ v.by \in Users \ {n.to}

(* GET /rules/{id}/lineage is the full version history: a definition that  *)
(* is replaced stays in the log.  Of a rule that an ingest has inserted    *)
(* this fails with its first edit.                                         *)
ReplacedPoliciesAreKept ==
    [][\A r \in Existing :
          rows'[r].definition # rows[r].definition =>
              \E v \in versions' : /\ v.rule = r
                                   /\ v.definition = rows[r].definition]_vars

=============================================================================
