------------------------------- MODULE Upkeep -------------------------------
(***************************************************************************)
(* The derived tables of RuleGraph and the sessions that rewrite them:     *)
(* conflicts, glossary (terminology_inconsistencies) and wiki pages.  Each *)
(* is recomputed whole or row by row from reads that may be minutes old,   *)
(* by the closing passes of an ingest, by a single-file upload, by the     *)
(* rescan, infer, migrate and regenerate endpoints and by the people who   *)
(* edit definitions and judge synonyms.                                    *)
(*                                                                         *)
(* A session is one database transaction after another at READ COMMITTED:  *)
(* its writes are in sess[s].tx, invisible to others, until Commit merges  *)
(* them; a row in somebody's tx is locked, and who wants to write it waits.*)
(* An UPDATE sets only the columns that differ from what the session       *)
(* loaded (Changed).  A session that waits in a circle is aborted by       *)
(* Postgres, one that stays in a transaction while it waits for the LLM    *)
(* longer than idle_in_transaction_session_timeout is closed, and a worker *)
(* may crash or time out: what is not committed is gone (Lose).            *)
(*                                                                         *)
(* Abstractions.  Whether two rules share two significant terms is the     *)
(* constant Clash, the terms in a text are the constants Code and Said. A  *)
(* page's text is the set of rules it was written from; two texts of the   *)
(* LLM always differ, so the text column is always written.  Rules are     *)
(* only added here: RuleLifecycle changes them.  How an ingest stores its  *)
(* rules file by file is BatchIngest's; here it is one step.               *)
(***************************************************************************)
EXTENDS Glossary

CONSTANTS
    Rules,       \* ids of rules
    Modules,     \* services: the modules rules belong to
    Homes,       \* Homes[r]: the services rule r is joined to
    Clash,       \* the pairs of rules with two significant terms in common
    Batches,     \* sources ingested by a job; their scans use this name
    Uploads,     \* names single files are uploaded under: also services
    Brings,      \* Brings[n]: the rules found in the code of n
    Code,        \* Code[n]: the terms in the code of n, in scanning order
    Said,        \* Said[m]: the terms in the rules of module m
    Slots,       \* sessions at the same time
    MaxSessions, \* bound: sessions that are started
    MaxLosses    \* bound: sessions that are lost for no reason of their own

Unknown == "unknown"      \* the service a rule without one is compared under

\* Two rules of a set
Pairs == {p \in SUBSET Rules : \E a, b \in p : a # b /\ p = {a, b}}

ASSUME HomesAssumption == Homes \in [Rules -> SUBSET Modules]
ASSUME ClashAssumption == Clash \subseteq Pairs
ASSUME NamesAssumption ==
    /\ Uploads \subseteq Modules /\ Names = Batches \cup Modules
    /\ Brings \in [Batches \cup Uploads -> SUBSET Rules]
    /\ \A n \in Batches \cup Uploads : Code[n] \in Texts
    /\ \A m \in Modules : Said[m] \in Texts

\* What passes hold has names of its own: tables, pages of modules and rows
ASSUME ThingsAssumption ==
    /\ Modules \cap Ids = {} /\ {"conflicts", "glossary"} \cap (Modules \cup Ids) = {}
    /\ None \notin Ids
    /\ IsFiniteSet(Modules)
ASSUME BoundsAssumption == MaxSessions \in Nat /\ MaxLosses \in Nat

VARIABLES
    rules,       \* the rules that are committed
    conflicts,   \* the rows of conflicts
    terms,       \* terms[i]: row i of terminology_inconsistencies
    pages,       \* pages[m]: the row of wiki_pages with module m (unique)
    sess,        \* sess[s]: what session s is doing and has in memory
    doubt,       \* history: the tables and rows two passes disturbed
    started,     \* sessions so far
    losses       \* sessions lost so far

vars == <<rules, conflicts, terms, pages, sess, doubt, started, losses>>

-----------------------------------------------------------------------------
(* State *)

\* by: the detection that found it (rows of two detections are two rows)
Conflict == [pair : Pairs, by : 0..MaxSessions]

Page   == [text : SUBSET Rules, links : SUBSET Rules]
NoPage == [text |-> {None}, links |-> {}]

(* What can be in doubt.  A row i is in doubt when a person's and the      *)
(* model's definition of it crossed.                                       *)
Things == {"conflicts", "glossary"} \cup Modules \cup Ids

NoTx == [rules |-> {}, gone |-> {}, made |-> {},
         terms |-> [i \in Ids |-> <<>>], pages |-> [m \in Modules |-> <<>>]]

Kinds  == {"idle", "batch", "upload", "migrate", "rescan", "infer", "patch",
           "judge", "regenerate"}
Places == {"idle", "detect", "replace", "blocked", "scan", "flush", "infer",
           "define", "passes done", "wiki", "upsert", "end"}

(* kind, no: the handler and its number.  at: what it does next.  found,   *)
(* target: a detection's conflicts, and the rows its DELETE saw.  todo:    *)
(* the scans left.  mem, out: the glossary as loaded, and as it is to be.  *)
(* fresh: rows it created and has still to define; row: the one it is      *)
(* defining.  given: what the LLM is given for the pages in mods; page:    *)
(* the page as loaded.  holds, clean: what it has read in order to rewrite *)
(* it, and has had for itself since.  owes: what its rules put out of date.*)
NoSession == [kind |-> "idle", no |-> 0, at |-> "idle", tx |-> NoTx,
              found |-> {}, target |-> {}, todo |-> <<>>,
              mem |-> [i \in Ids |-> NoRow], out |-> [i \in Ids |-> NoRow],
              fresh |-> {}, row |-> None,
              mods |-> <<>>, given |-> [m \in Modules |-> {}], page |-> NoPage,
              holds |-> {}, clean |-> {}, owes |-> {}]

-----------------------------------------------------------------------------
(* Rules and their services *)

RulesOf(m, R) == {r \in R : m \in Homes[r]}

(* Where the join files a rule: under the service of its first row, in no  *)
(* given order, or under "unknown"                                         *)
HomesOr(r) == IF Homes[r] = {} THEN {Unknown} ELSE Homes[r]

Filings(R) == {f \in [R -> Modules \cup {Unknown}] :
                 \A r \in R : f[r] \in HomesOr(r)}

Found(R, filed) == {p \in Clash : /\ p \subseteq R
                                  /\ \E a, b \in p : filed[a] # filed[b]}

-----------------------------------------------------------------------------
(* How it begins *)

Quiet == /\ sess = [s \in Slots |-> NoSession]
         /\ doubt = {} /\ started = 0 /\ losses = 0

EmptyInit == /\ rules = {} /\ conflicts = {}
             /\ terms = [i \in Ids |-> NoRow]
             /\ pages = [m \in Modules |-> NoPage]

(* Or the state a first ingest of n, undisturbed, has left: what the first *)
(* of three sessions does alone need not be interleaved                    *)
LaterInit(n) ==
    /\ rules = Brings[n]
    /\ \E filed \in Filings(Brings[n]) :
          conflicts = {[pair |-> p, by |-> 0] : p \in Found(Brings[n], filed)}
    /\ \E rows \in Scans([i \in Ids |-> NoRow], Code[n], n, Ids),
          text \in Ai \cup {None} :
          terms = [i \in Ids |->
                     IF rows[i] = NoRow \/ text = None THEN rows[i]
                     ELSE [rows[i] EXCEPT !.text = text, !.label = "draft"]]
    /\ pages = [m \in Modules |->
                  IF RulesOf(m, Brings[n]) = {} THEN NoPage
                  ELSE [text |-> RulesOf(m, Brings[n]),
                        links |-> RulesOf(m, Brings[n])]]

Init == Quiet /\ (EmptyInit \/ \E n \in Batches : LaterInit(n))

-----------------------------------------------------------------------------
(* Transactions *)

\* The columns an UPDATE sets: those that differ from what was loaded
\* Mutant: the whole row is written back
WholeRow(loaded, new) == new
Changed(loaded, new) ==
    [c \in {c \in DOMAIN new : new[c] # loaded[c]} |-> new[c]]

\* A row with the columns f set
Over(f, row) == [c \in DOMAIN f \cup DOMAIN row |->
                   IF c \in DOMAIN f THEN f[c] ELSE row[c]]

Others(s) == Slots \ {s}

\* Rows somebody else has written and not committed
LockedTerms(s) ==
    {i \in Exists(terms) : \E o \in Others(s) : sess[o].tx.terms[i] # <<>>}
LockedPages(s) ==
    {m \in Modules : \E o \in Others(s) : sess[o].tx.pages[m] # <<>>}
LockedConflicts(s) == UNION {sess[o].tx.gone : o \in Others(s)}

\* What a SELECT of session s returns: the committed rows under its own
SeenTerms(s)   == [i \in Ids |-> Over(sess[s].tx.terms[i], terms[i])]
SeenPage(s, m) == Over(sess[s].tx.pages[m], pages[m])
SeenRules(s)   == rules \cup sess[s].tx.rules

HeldByOthers(s) == UNION {sess[o].holds : o \in Others(s)}

(* Session s has read the things X to rewrite them and becomes q.  Whoever *)
(* else is rewriting one of them does not have it for himself any more.    *)
Take(s, q, X) ==
    /\ sess' = [o \in Slots |->
           IF o = s THEN [q EXCEPT !.holds = @ \cup X,
                                   !.clean = @ \cup (X \ HeldByOthers(s))]
           ELSE [sess[o] EXCEPT !.clean = @ \ X]]
    /\ doubt' = doubt \cup (X \cap HeldByOthers(s))

\* The things X changed under whoever holds them; session s becomes q
Disturb(s, q, X) ==
    /\ sess' = [o \in Slots |->
           [(IF o = s THEN q ELSE sess[o]) EXCEPT !.clean = @ \ X]]
    /\ doubt' = doubt \cup X

(* COMMIT of session s, which goes on as q and keeps in memory the rows    *)
(* keep.  A table that was rewritten undisturbed is out of doubt; a scan   *)
(* only adds to the glossary and repairs nothing.                          *)
Commit(s, q, keep) ==
    LET t       == sess[s].tx
        settled == sess[s].clean \ (keep \cup {"glossary"})
        stale   == UNION {Homes[r] : r \in t.rules}
    IN /\ rules' = rules \cup t.rules
       /\ conflicts' = (conflicts \ t.gone) \cup t.made
       /\ terms' = SeenTerms(s)
       /\ pages' = [m \in Modules |-> SeenPage(s, m)]
       /\ sess' = [o \in Slots |->
              IF o = s THEN [q EXCEPT !.tx = NoTx, !.holds = @ \cap keep,
                                      !.clean = @ \cap keep,
                                      !.owes = @ \ sess[s].holds]
              ELSE [sess[o] EXCEPT !.clean = @ \ stale]]
       /\ doubt' = (doubt \ settled) \cup stale

\* The session is gone with all it did not commit: nobody else will do it
Lose(s) ==
    /\ Disturb(s, NoSession, sess[s].owes)
    /\ UNCHANGED <<rules, conflicts, terms, pages, started>>

Tables == <<rules, conflicts, terms, pages>>
Counts == <<started, losses>>

-----------------------------------------------------------------------------
(* Sessions open *)

\* A session opens as q, having read the things X to rewrite them
Open(s, q, X) ==
    /\ sess[s] = NoSession
    /\ started < MaxSessions
    /\ started' = started + 1
    /\ Take(s, [q EXCEPT !.no = started + 1], X)
    /\ UNCHANGED <<conflicts, terms, pages, losses>>

\* A job has stored the rules of its source and enters the closing passes
FinishFiles(s, n) ==
    /\ Open(s, [NoSession EXCEPT !.kind = "batch", !.at = "detect",
                    !.todo = << <<n, Code[n]>> >>,
                    !.owes = {"conflicts", "glossary"}
                                \cup UNION {Homes[r] : r \in Brings[n]}], {})
    /\ rules' = rules \cup Brings[n]

\* POST /ingest/file: rules, conflicts and glossary in one transaction
UploadFile(s, n) ==
    /\ Open(s, [NoSession EXCEPT !.kind = "upload", !.at = "detect",
                    !.todo = << <<n, Code[n]>> >>,
                    !.tx.rules = Brings[n] \ rules,
                    !.owes = {"conflicts", "glossary"}], {})
    /\ UNCHANGED rules

\* POST /ingest/migrate: a detection and nothing else
Migrate(s) ==
    /\ Open(s, [NoSession EXCEPT !.kind = "migrate", !.at = "detect"], {})
    /\ UNCHANGED rules

Served == {m \in Modules : RulesOf(m, rules) # {}}

Orders(S) == {f \in [1..Cardinality(S) -> S] :
                \A i, j \in DOMAIN f : f[i] = f[j] => i = j}

\* POST /terminology/rescan: one scan per service, in no given order
Rescan(s) ==
    /\ \E order \in Orders(Served) :
         Open(s, [NoSession EXCEPT !.kind = "rescan",
                      !.at = IF order = <<>> THEN "end" ELSE "scan",
                      !.todo = [k \in DOMAIN order |->
                                    <<order[k], Said[order[k]]>>]], {})
    /\ UNCHANGED rules

\* POST /terminology/{id}/infer: loads the row, and the transaction is
\* closed before the LLM is called
InferAgain(s, i) ==
    /\ i \in Exists(terms)
    /\ Open(s, [NoSession EXCEPT !.kind = "infer", !.at = "define",
                    !.row = i, !.mem = terms], {i})
    /\ UNCHANGED rules

\* PATCH /terminology/{id}, as the page calls it: an edited text ...
EditDefinition(s, i, text) ==
    /\ i \in Exists(terms)
    /\ Open(s, [NoSession EXCEPT !.kind = "patch", !.at = "flush",
                    !.mem = terms,
                    !.out = [terms EXCEPT ![i].text = text,
                                          ![i].label = "edited"]], {i})
    /\ UNCHANGED rules

\* ... or the acceptance of the text there is
AcceptDefinition(s, i) ==
    /\ i \in Exists(terms)
    /\ Open(s, [NoSession EXCEPT !.kind = "patch", !.at = "flush",
                    !.mem = terms,
                    !.out = [terms EXCEPT ![i].label = "accepted"]], {})
    /\ UNCHANGED rules

\* PUT /admin/synonyms/{id}/approve and /reject
JudgeSynonym(s, i, decision) ==
    /\ i \in Exists(terms)
    /\ Open(s, [NoSession EXCEPT !.kind = "judge", !.at = "flush",
                    !.mem = terms,
                    !.out = [terms EXCEPT ![i].status = decision]], {})
    /\ UNCHANGED rules

\* POST /wiki/regenerate, in the background: every rule there is, at once
Regenerate(s) ==
    /\ \E order \in Orders(Served) :
         Open(s, [NoSession EXCEPT !.kind = "regenerate",
                      !.at = IF order = <<>> THEN "end" ELSE "wiki",
                      !.mods = order,
                      !.given = [m \in Modules |-> RulesOf(m, rules)]], Served)
    /\ UNCHANGED rules

-----------------------------------------------------------------------------
(* Conflict detection *)

DetectRead(s) ==
    /\ sess[s].at = "detect"
    /\ \E filed \in Filings(SeenRules(s)) :
         Take(s, [sess[s] EXCEPT !.found = Found(SeenRules(s), filed),
                                 !.at = "replace"], {"conflicts"})
    /\ UNCHANGED <<Tables, Counts>>

AfterDetection(q) == IF q.kind = "migrate" THEN "end" ELSE "scan"

\* DELETE of the rows the statement saw, then INSERT of what was found
Replaced(q, seen) ==
    [q EXCEPT !.tx.gone = seen,
              !.tx.made = {[pair |-> p, by |-> q.no] : p \in q.found},
              !.found = {}, !.target = {}, !.at = AfterDetection(q)]

\* Mutant: what the last detection found is added to the table
ReplacedNothing(q, seen) == [Replaced(q, seen) EXCEPT !.tx.gone = {}]
Replacing(q, seen) == Replaced(q, seen)

ReplaceConflicts(s) ==
    /\ sess[s].at = "replace"
    /\ LockedConflicts(s) = {}
    /\ sess' = [sess EXCEPT ![s] = Replacing(@, conflicts)]
    /\ UNCHANGED <<Tables, Counts, doubt>>

\* The DELETE meets rows of another's DELETE: it waits, and what the other
\* inserts meanwhile is not among the rows it saw
WaitToReplace(s) ==
    /\ sess[s].at = "replace"
    /\ LockedConflicts(s) # {}
    /\ sess' = [sess EXCEPT ![s].target = conflicts, ![s].at = "blocked"]
    /\ UNCHANGED <<Tables, Counts, doubt>>

ReplaceAfterWait(s) ==
    /\ sess[s].at = "blocked"
    /\ sess[s].target \cap LockedConflicts(s) = {}
    /\ sess' = [sess EXCEPT ![s] = Replacing(@, @.target \cap conflicts)]
    /\ UNCHANGED <<Tables, Counts, doubt>>

-----------------------------------------------------------------------------
(* Terminology scan *)

\* Ids no committed row has and nobody is about to insert
FreeIds == {i \in Ids \ Exists(terms) : \A o \in Slots : sess[o].out[i] = NoRow}

\* The table is loaded and the terms of one text are entered, in memory
ScanRead(s) ==
    /\ sess[s].at = "scan"
    /\ LET scan == Head(sess[s].todo) IN
         \E out \in Scans(SeenTerms(s), scan[2], scan[1],
                          FreeIds \ Exists(SeenTerms(s))) :
            Take(s, [sess[s] EXCEPT !.mem = SeenTerms(s), !.out = out,
                                    !.todo = Tail(@), !.at = "flush"],
                 {"glossary"})
    /\ UNCHANGED <<Tables, Counts>>

Dirty(q) == {i \in Ids : q.out[i] # q.mem[i]}

\* The rows the scan has created.  Mutant: all it has touched are inferred
\* again
Touched(q) == Dirty(q)
Newborn(q) == Dirty(q) \ Exists(q.mem)

AfterScan(q) == IF q.kind = "batch" THEN "passes done"
                ELSE IF q.todo # <<>> THEN "scan" ELSE "end"

\* Where a session goes that has the rows F still to define
ToDefine(q, F) == [q EXCEPT !.fresh = F, !.row = None,
                            !.at = IF F = {} THEN AfterScan(q) ELSE "infer"]

(* The flush: UPDATEs of the rows changed, INSERTs of the new ones.  Also  *)
(* the flush of a PATCH and of a decision on a synonym.                    *)
FlushTerms(s) ==
    LET q      == sess[s]
        fresh  == IF q.kind \in {"patch", "judge"} THEN {}
                  ELSE {i \in Newborn(q) : q.out[i].text = None}
        merged == [i \in Ids |-> Over(Changed(q.mem[i], q.out[i]), q.tx.terms[i])]
    IN /\ q.at = "flush"
       /\ Dirty(q) \cap LockedTerms(s) = {}
       /\ Take(s, [ToDefine(q, fresh) EXCEPT !.tx.terms = merged,
                                             !.mem = q.out], fresh)
       /\ UNCHANGED <<Tables, Counts>>

\* The next row's definition: Claude is disabled and nothing happens, or
\* everything so far is committed and the LLM is called
InferFirst(s) ==
    LET q == sess[s] IN
    /\ q.at = "infer"
    /\ \E i \in FirstOf(q.fresh) :
         \/ /\ sess' = [sess EXCEPT ![s] = ToDefine(q, q.fresh \ {i})]
            /\ UNCHANGED <<Tables, Counts, doubt>>
         \/ /\ Commit(s, [q EXCEPT !.row = i, !.fresh = @ \ {i},
                                   !.at = "define"], q.fresh)
            /\ UNCHANGED Counts

AfterDefine(q) == IF q.kind = "infer" THEN [q EXCEPT !.at = "end"]
                  ELSE ToDefine(q, q.fresh)

\* A row defined by the LLM.  Mutant: the label of the old text stays
WithText(row, text) == [row EXCEPT !.text = text]
WithDraft(row, text) == [row EXCEPT !.text = text, !.label = "draft"]

\* The LLM's answer is put in the row as this session has it in memory
Define(s, text) ==
    LET q       == sess[s]
        defined == WithDraft(q.mem[q.row], text)
        column  == Over(Changed(q.mem[q.row], defined), q.tx.terms[q.row])
    IN /\ q.at = "define"
       /\ Changed(q.mem[q.row], defined) = <<>> \/ q.row \notin LockedTerms(s)
       /\ sess' = [sess EXCEPT
              ![s] = [AfterDefine(q) EXCEPT !.tx.terms[q.row] = column,
                                            !.mem[q.row] = defined]]
       /\ UNCHANGED <<Tables, Counts, doubt>>

\* No usable answer: the row stays without a definition, or with the one
\* it has
DefineNothing(s) ==
    LET q == sess[s] IN
    /\ q.at = "define"
    /\ sess' = [sess EXCEPT ![s] =
                   [AfterDefine(q) EXCEPT !.clean = @ \ {q.row}]]
    /\ UNCHANGED <<Tables, Counts, doubt>>

-----------------------------------------------------------------------------
(* Wiki pages *)

(* The progress note of the job commits what the passes did; then it reads *)
(* the rules of every service its files belong to                          *)
EndPasses(s) ==
    LET q    == sess[s]
        mine == q.owes \cap Modules
    IN /\ q.at = "passes done"
       /\ IF q.tx # NoTx \/ q.holds # {}
          THEN /\ Commit(s, q, {})
               /\ UNCHANGED Counts
          ELSE /\ \E order \in Orders(mine) :
                    Take(s, [q EXCEPT !.mods = order,
                                 !.given = [m \in Modules |->
                                     IF m \in mine THEN RulesOf(m, rules)
                                     ELSE {}],
                                 !.at = IF mine = {} THEN "end" ELSE "wiki"],
                         mine)
               /\ UNCHANGED <<Tables, Counts>>

\* The transaction stays open while the LLM writes; with its answer the
\* page is loaded
PageWritten(s) ==
    /\ sess[s].at = "wiki"
    /\ sess' = [sess EXCEPT ![s].page = SeenPage(s, Head(sess[s].mods)),
                            ![s].at = "upsert"]
    /\ UNCHANGED <<Tables, Counts, doubt>>

NextPage(q) == [q EXCEPT !.mods = Tail(@), !.page = NoPage,
                         !.at = IF Tail(q.mods) = <<>> THEN "end" ELSE "wiki"]

\* Disabled, failed or empty answer: the module is skipped
PageSkipped(s) ==
    /\ sess[s].at = "wiki"
    /\ Disturb(s, NextPage(sess[s]), {Head(sess[s].mods)})
    /\ UNCHANGED <<Tables, Counts>>

\* The columns of the page that are set; the text is always a new one.
\* Mutant: the links are left as they are
TextOnly(loaded, new) == Over([text |-> new.text], loaded)
PageColumns(loaded, new) == Over([text |-> new.text], Changed(loaded, new))

UpsertPage(s) ==
    LET q   == sess[s]
        m   == Head(q.mods)
        new == [text |-> q.given[m], links |-> q.given[m]]
    IN /\ q.at = "upsert"
       /\ m \notin LockedPages(s)
       /\ q.page # NoPage \/ pages[m] = NoPage
       /\ sess' = [sess EXCEPT ![s] =
              [NextPage(q) EXCEPT !.tx.pages[m] = PageColumns(q.page, new)]]
       /\ UNCHANGED <<Tables, Counts, doubt>>

\* INSERT of a page that another session has inserted since it was looked
\* for: the unique index refuses it, and the session is of no use any more
DuplicatePage(s) ==
    /\ sess[s].at = "upsert"
    /\ sess[s].page = NoPage /\ pages[Head(sess[s].mods)] # NoPage
    /\ Head(sess[s].mods) \notin LockedPages(s)
    /\ Lose(s)
    /\ UNCHANGED losses

-----------------------------------------------------------------------------
(* Sessions end *)

End(s) ==
    /\ sess[s].at = "end"
    /\ Commit(s, NoSession, {})
    /\ UNCHANGED Counts

WaitsFor(s) ==
    LET q == sess[s] IN
    {o \in Others(s) :
        \/ q.at = "blocked" /\ q.target \cap sess[o].tx.gone # {}
        \/ q.at = "flush" /\ \E i \in Dirty(q) \cap Exists(terms) :
                                 sess[o].tx.terms[i] # <<>>
        \/ q.at = "define" /\ sess[o].tx.terms[q.row] # <<>>
        \/ q.at = "upsert" /\ sess[o].tx.pages[Head(q.mods)] # <<>>}

\* Postgres breaks a circle of two that wait for each other
BreakDeadlock(s) ==
    /\ \E o \in WaitsFor(s) : s \in WaitsFor(o)
    /\ Lose(s)
    /\ UNCHANGED losses

\* The session times out in its open transaction, its worker crashes, the
\* job runs into its time limit
LoseSession(s) ==
    /\ sess[s] # NoSession
    /\ losses < MaxLosses
    /\ losses' = losses + 1
    /\ Lose(s)

Step(s) ==
    \/ DetectRead(s) \/ ReplaceConflicts(s) \/ WaitToReplace(s)
    \/ ReplaceAfterWait(s) \/ ScanRead(s) \/ FlushTerms(s) \/ InferFirst(s)
    \/ \E text \in Ai : Define(s, text)
    \/ DefineNothing(s) \/ EndPasses(s)
    \/ PageWritten(s) \/ PageSkipped(s) \/ UpsertPage(s) \/ DuplicatePage(s)
    \/ End(s) \/ BreakDeadlock(s) \/ LoseSession(s)

Request(s) ==
    \/ \E n \in Batches : FinishFiles(s, n)
    \/ \E n \in Uploads : UploadFile(s, n)
    \/ Migrate(s) \/ Rescan(s) \/ Regenerate(s)
    \/ \E i \in Ids : \/ InferAgain(s, i) \/ AcceptDefinition(s, i)
                      \/ \E text \in Hand : EditDefinition(s, i, text)
                      \/ \E d \in {"approved", "rejected"} : JudgeSynonym(s, i, d)

Next == \E s \in Slots : Step(s) \/ Request(s)

Spec == Init /\ [][Next]_vars

-----------------------------------------------------------------------------
(* Properties *)

Writes == [rules : SUBSET Rules, gone : SUBSET Conflict, made : SUBSET Conflict]

SessionOK(q) ==
    /\ q.kind \in Kinds /\ q.at \in Places /\ q.no \in 0..MaxSessions
    /\ [rules |-> q.tx.rules, gone |-> q.tx.gone, made |-> q.tx.made] \in Writes
    /\ \A i \in Ids : DOMAIN q.tx.terms[i] \subseteq DOMAIN NoRow
    /\ \A m \in Modules : DOMAIN q.tx.pages[m] \subseteq DOMAIN NoPage
    /\ q.found \subseteq Pairs /\ q.target \subseteq Conflict
    /\ q.mem \in [Ids -> Row] /\ q.out \in [Ids -> Row]
    /\ q.fresh \subseteq Ids /\ q.row \in Ids \cup {None}
    /\ q.given \in [Modules -> SUBSET Rules] /\ q.page \in Page \cup {NoPage}
    /\ q.holds \subseteq Things /\ q.owes \subseteq Things
    /\ q.clean \subseteq q.holds

(* Every variable has its type; a session has for itself only what it      *)
(* holds, and a row's columns are those of the table.                      *)
TypeOK == /\ rules \subseteq Rules
          /\ conflicts \subseteq Conflict
          /\ terms \in [Ids -> Row]
          /\ pages \in [Modules -> Page \cup {NoPage}]
          /\ \A s \in Slots : SessionOK(sess[s])
          /\ doubt \subseteq Things
          /\ started \in 0..MaxSessions /\ losses \in 0..MaxLosses

\* What rules of a session under way still put out of date
Owed == UNION {sess[s].owes : s \in Slots}

\* Two rules that are compared whatever order the join has
Apart(p) == \A a, b \in p : a # b => HomesOr(a) \cap HomesOr(b) = {}

\* Every pair of clashing rules of two services is there
Complete == \A p \in Clash : p \subseteq rules /\ Apart(p) =>
                \E c \in conflicts : c.pair = p

\* ... and no pair of other rules, and none twice
Sound == /\ \A c \in conflicts : c.pair \in Clash /\ c.pair \subseteq rules
         /\ \A c, d \in conflicts : c.pair = d.pair => c = d

(* The conflicts on record are those of the rules on record, each once:    *)
(* unless two detections overlapped, or one was lost, since when the next  *)
(* detection that has the table for itself repairs it.  (DEC-014 in        *)
(* DECISIONS.md has them "always current after ingestion".)                *)
ConflictsExact == "conflicts" \notin doubt \cup Owed => Complete /\ Sound

Ingested == {n \in Batches \cup Uploads : Brings[n] \subseteq rules}

(* A synonym group has one row, and a row no names of two groups; and what *)
(* was found in the code of an ingested source is on record under its name.*)
(* All that unless two scans overlapped or one was lost.                   *)
GlossaryExact ==
    "glossary" \notin doubt \cup Owed =>
        /\ \A i, j \in Exists(terms) :
              (\E v \in terms[i].variants, w \in terms[j].variants :
                  GroupOf[v] = GroupOf[w]) => i = j
        /\ \A i \in Exists(terms) : \A v, w \in terms[i].variants :
              GroupOf[v] = GroupOf[w]
        /\ \A n \in Ingested : \A k \in DOMAIN Code[n] :
              \E i \in Ids : /\ Code[n][k] \in terms[i].variants
                             /\ n \in terms[i].services

(* A page documents the rules its module has, and links to the same ones:  *)
(* unless the LLM refused, an upload brought rules without writing pages,  *)
(* or two sessions crossed on the module, since when the next undisturbed  *)
(* generation repairs it.                                                  *)
PagesExact ==
    \A m \in Modules \ (doubt \cup Owed) : RulesOf(m, rules) # {} =>
        pages[m] = [text |-> RulesOf(m, rules), links |-> RulesOf(m, rules)]

(* A definition labelled "edited" was written by a person, and a person's  *)
(* definition is never labelled a draft: unless a PATCH and an inference   *)
(* of the same row crossed.                                                *)
LabelsTrue ==
    \A i \in Ids \ doubt :
        /\ terms[i].label = "edited" => terms[i].text \in Hand
        /\ terms[i].text \in Hand => terms[i].label \in {"edited", "accepted"}

(* No scan replaces the definition a person has saved: that takes a        *)
(* request to infer it again, or an inference that was already under way   *)
(* when it was saved.                                                      *)
ScansRespectPeople ==
    [][\A i \in Ids : terms[i].text \in Hand /\ terms'[i].text \notin Hand =>
          \/ i \in doubt'
          \/ \E s \in Slots : sess[s].kind = "infer" /\ sess'[s] # sess[s]]_vars

(* An administrator's decision on a synonym is changed by the next decision*)
(* only, however old the copy a scan or an inference writes back.          *)
DecisionsSurvive ==
    [][\A i \in Exists(terms) : terms'[i].status # terms[i].status =>
          \E s \in Slots : sess[s].kind = "judge" /\ sess'[s] = NoSession]_vars

=============================================================================
