---------------------- MODULE ArchiveAudienceProofs --------------------------
(* Proofs about Archive, for any rows and transactions that fit the schema, *)
(* and about Audience, for any users, rules and number of requests.         *)
EXTENDS Archive, Audience, FiniteSetTheorems, TLAPS

-----------------------------------------------------------------------------
(***************************************************************************)
(* Archive                                                                 *)
(***************************************************************************)

-----------------------------------------------------------------------------
(* The inductive invariant *)

Outcomes == {"none", "refused", "cleared", "lost"}

Resets  == [no : Nat, at : 0..15, gone : SUBSET Rows, seen : SUBSET Rows,
            late : SUBSET Rows, outcome : Outcomes]
Exports == [no : Nat, at : 0..16, rows : SUBSET Rows, late : SUBSET Rows,
            zip : SUBSET Rows, done : BOOLEAN]

ArchiveTyped ==
    /\ ArchiveTypeOK
    /\ reset \in Resets
    /\ export \in Exports

\* A document's file is there before its row, and stays
FilesInv == In(db, "documents") \cup In(export.rows, "documents") \subseteq files

\* What was there when the reset began, and what has come since
SeenInv ==
    /\ reset.seen \subseteq born
    /\ \A r \in reset.seen : Needs[r] \subseteq reset.seen
    /\ reset.at > 0 => db \subseteq reset.seen \cup reset.late

\* Nothing that stays needs what goes, and the tables behind the reset have
\* only rows that came late
GoneInv ==
    reset.at > 0 =>
      /\ reset.outcome = "none"
      /\ \A r \in db \ reset.gone : Needs[r] \cap reset.gone = {}
      /\ \A i \in 1..14 : i < reset.at =>
            In(db, ResetOrder[i]) \cap reset.seen \subseteq reset.gone

\* The tables behind the export have, beside what it has read, only rows that
\* came late; so has what its rows need
ReadInv ==
    /\ export.at > 0 =>
         /\ ~export.done
         /\ \A i \in 1..15 : i < export.at =>
               In(db, ExportOrder[i]) \subseteq export.rows \cup export.late
    /\ \A r \in export.rows : Needs[r] \subseteq export.rows \cup export.late

ArchiveInv == /\ ArchiveTyped /\ FilesInv /\ SeenInv /\ GoneInv /\ ReadInv
        /\ ClearedIsClear /\ RefusalsExplained /\ SnapshotClosed

-----------------------------------------------------------------------------
(* The schema and the two orders *)

LEMMA Lengths ==
    /\ Len(ResetOrder) = 14 /\ DOMAIN ResetOrder = 1..14
    /\ Len(ExportOrder) = 15 /\ DOMAIN ExportOrder = 1..15
BY DEF ResetOrder, ExportOrder

\* Parents are exported first
LEMMA ParentsFirst ==
    ASSUME NEW i \in 1..15, NEW b, <<ExportOrder[i], b>> \in ForeignKeys
    PROVE  \E j \in 1..15 : j < i /\ ExportOrder[j] = b
<1>1. /\ ExportOrder[2] = "ingest_runs" /\ ExportOrder[3] = "services"
      /\ ExportOrder[4] = "documents" /\ ExportOrder[5] = "rules"
  BY DEF ExportOrder
<1>2. i > 5 \/ ExportOrder[i] \in {"ingest_sources", "ingest_runs", "services",
                                   "documents", "rules"}
  BY DEF ExportOrder
<1>3. i > 5
  BY <1>2 DEF ForeignKeys
<1>4. ExportOrder[i] # "ingest_file_checkpoints"
  BY DEF ExportOrder
<1>5. b \in {"rules", "services", "documents"}
  BY <1>4 DEF ForeignKeys
<1> QED BY <1>1, <1>3, <1>5

\* What needs a row that the reset deletes cascades, has been deleted, or is a
\* checkpoint
LEMMA ChildrenGoFirst ==
    ASSUME NEW k \in 1..14, NEW a, <<a, ResetOrder[k]>> \in ForeignKeys
    PROVE  \/ a \in Cascading \/ a = "ingest_file_checkpoints"
           \/ \E j \in 1..14 : j < k /\ ResetOrder[j] = a
<1>1. /\ ResetOrder[4] = "rule_versions" /\ ResetOrder[6] = "notifications"
  BY DEF ResetOrder
<1>2. a \in {"rule_versions", "notifications"} => ResetOrder[k] = "rules"
  BY DEF ForeignKeys
<1>3. ResetOrder[k] = "rules" => k = 7
  BY DEF ResetOrder
<1>4. a \in Cascading \cup {"ingest_file_checkpoints", "rule_versions", "notifications"}
  BY DEF ForeignKeys, Cascading
<1> QED BY <1>1, <1>2, <1>3, <1>4

\* The reset comes to every table but two
LEMMA AllTables ==
    ASSUME NEW a \in Tables
    PROVE  \/ a \in {"ingest_sources", "ingest_file_checkpoints"}
           \/ \E j \in 1..14 : ResetOrder[j] = a
<1>1. /\ ResetOrder[1] = "feedback" /\ ResetOrder[2] = "rule_documents"
      /\ ResetOrder[3] = "rule_services" /\ ResetOrder[4] = "rule_versions"
      /\ ResetOrder[5] = "subscriptions" /\ ResetOrder[6] = "notifications"
      /\ ResetOrder[7] = "rules" /\ ResetOrder[8] = "services"
      /\ ResetOrder[9] = "documents" /\ ResetOrder[10] = "conflicts"
      /\ ResetOrder[11] = "terminology_inconsistencies"
      /\ ResetOrder[12] = "wiki_pages" /\ ResetOrder[13] = "ingest_errors"
      /\ ResetOrder[14] = "ingest_runs"
  BY DEF ResetOrder
<1>2. a \in {"ingest_sources", "ingest_runs", "services", "documents",
    "rules", "ingest_errors", "terminology_inconsistencies", "rule_versions",
    "rule_services", "rule_documents", "conflicts", "notifications",
    "subscriptions", "feedback", "wiki_pages", "ingest_file_checkpoints"}
  BY Lengths DEF Tables, ExportOrder
<1> QED BY <1>1, <1>2

\* Nothing needs a row that goes by cascade
LEMMA CascadeEnds ==
    ASSUME NEW r \in Rows, NEW n \in Needs[r]
    PROVE  n \in Rows /\ TableOf[n] \notin Cascading
BY ArchiveAssumption, SchemaAssumption DEF ForeignKeys, Cascading

-----------------------------------------------------------------------------
(* What a step leaves of the two operations' records *)

LEMMA ResetStep ==
    ASSUME reset \in Resets, NEW a \in 0..15, NEW g \in SUBSET Rows, NEW o \in Outcomes,
           reset' = [reset EXCEPT !.at = a, !.gone = g, !.outcome = o]
    PROVE  /\ reset' \in Resets
           /\ reset'.at = a /\ reset'.gone = g /\ reset'.outcome = o
           /\ reset'.seen = reset.seen /\ reset'.late = reset.late
BY DEF Resets

LEMMA ExportStep ==
    ASSUME export \in Exports, NEW a \in 0..16, NEW R \in SUBSET Rows,
           NEW z \in SUBSET Rows, NEW b \in BOOLEAN,
           export' = [export EXCEPT !.at = a, !.rows = R, !.zip = z, !.done = b]
    PROVE  /\ export' \in Exports
           /\ export'.at = a /\ export'.rows = R /\ export'.zip = z
           /\ export'.done = b /\ export'.late = export.late
BY DEF Exports

-----------------------------------------------------------------------------
(* One lemma per action *)

LEMMA StoreInv ==
    ASSUME ArchiveInv, NEW d \in Rows, StoreFile(d)
    PROVE  ArchiveInv'
<1>1. /\ files' = files \cup {d} /\ UNCHANGED <<db, born, reset, export>>
  BY DEF StoreFile
<1> QED
  BY <1>1 DEF ArchiveInv, ArchiveTyped, ArchiveTypeOK, FilesInv, SeenInv, GoneInv, ReadInv, In,
              ClearedIsClear, Preserved, RefusalsExplained, SnapshotClosed

LEMMA InsertInv ==
    ASSUME ArchiveInv, NEW T \in Transactions, Insert(T)
    PROVE  ArchiveInv'
<1>1. /\ T \subseteq Rows /\ T \cap born = {} /\ In(T, "documents") \subseteq files
      /\ UNION {Needs[r] : r \in T} \subseteq (db \cup T) \ reset.gone
      /\ db' = db \cup T /\ born' = born \cup T /\ files' = files
      /\ reset' = [reset EXCEPT !.late = IF reset.at > 0 THEN @ \cup T ELSE @]
      /\ export' = [export EXCEPT !.late = IF export.at > 0 THEN @ \cup T ELSE @]
  BY ArchiveAssumption DEF Insert
<1>2. /\ reset'.no = reset.no /\ reset'.at = reset.at /\ reset'.gone = reset.gone
      /\ reset'.seen = reset.seen /\ reset'.outcome = reset.outcome
      /\ reset'.late = IF reset.at > 0 THEN reset.late \cup T ELSE reset.late
      /\ reset' \in Resets
  BY <1>1 DEF ArchiveInv, ArchiveTyped, Resets, Exports, Outcomes
<1>3. /\ export'.no = export.no /\ export'.at = export.at /\ export'.rows = export.rows
      /\ export'.zip = export.zip /\ export'.done = export.done
      /\ export'.late = IF export.at > 0 THEN export.late \cup T ELSE export.late
      /\ export' \in Exports
  BY <1>1 DEF ArchiveInv, ArchiveTyped, Resets, Exports, Outcomes
<1>4. ArchiveTyped'
  BY <1>1, <1>2, <1>3 DEF ArchiveInv, ArchiveTyped, ArchiveTypeOK
<1>5. FilesInv'
  BY <1>1, <1>3 DEF ArchiveInv, FilesInv, In
<1>6. SeenInv'
  BY <1>1, <1>2 DEF ArchiveInv, SeenInv
<1>7. T \cap reset.seen = {} /\ T \cap reset.gone = {}
  BY <1>1 DEF ArchiveInv, ArchiveTyped, ArchiveTypeOK, SeenInv
<1>8. GoneInv'
  <2> SUFFICES ASSUME reset.at > 0
               PROVE  /\ reset.outcome = "none"
                      /\ \A r \in db' \ reset.gone : Needs[r] \cap reset.gone = {}
                      /\ \A i \in 1..14 : i < reset.at =>
                            In(db', ResetOrder[i]) \cap reset.seen \subseteq reset.gone
    BY <1>2 DEF GoneInv
  <2>1. \A r \in T : Needs[r] \cap reset.gone = {}
    BY <1>1
  <2> QED BY <1>1, <1>7, <2>1 DEF ArchiveInv, GoneInv, In
<1>9. ReadInv'
  BY <1>1, <1>3 DEF ArchiveInv, ReadInv, In
<1>10. ClearedIsClear'
  BY <1>1, <1>2, <1>7 DEF ArchiveInv, ClearedIsClear, Preserved, In
<1>11. RefusalsExplained'
  BY <1>2 DEF ArchiveInv, RefusalsExplained, In
<1>12. SnapshotClosed'
  BY <1>3 DEF ArchiveInv, SnapshotClosed, In
<1> QED BY <1>4, <1>5, <1>6, <1>8, <1>9, <1>10, <1>11, <1>12 DEF ArchiveInv

LEMMA BeginResetInv ==
    ASSUME ArchiveInv, BeginReset
    PROVE  ArchiveInv'
<1>1. /\ reset' = [NoReset EXCEPT !.no = reset.no + 1, !.at = 1, !.seen = db]
      /\ UNCHANGED <<db, born, files, export>>
  BY DEF BeginReset
<1>2. /\ reset'.at = 1 /\ reset'.gone = {} /\ reset'.seen = db /\ reset'.outcome = "none"
      /\ reset' \in Resets
  <2>1. reset.no + 1 \in Nat /\ db \in SUBSET Rows
    BY DEF ArchiveInv, ArchiveTyped, ArchiveTypeOK, Resets
  <2>2. reset' = [no |-> reset.no + 1, at |-> 1, gone |-> {}, seen |-> db,
                  late |-> {}, outcome |-> "none"]
    BY <1>1 DEF NoReset
  <2> QED BY <2>1, <2>2 DEF Resets, Outcomes
<1>3. ArchiveTyped'
  BY <1>1, <1>2, Lengths DEF ArchiveInv, ArchiveTyped, ArchiveTypeOK, Resets, Exports
<1>4. SeenInv' /\ GoneInv'
  BY <1>1, <1>2 DEF ArchiveInv, ArchiveTyped, ArchiveTypeOK, SeenInv, GoneInv
<1>5. FilesInv' /\ ReadInv' /\ SnapshotClosed'
  BY <1>1 DEF ArchiveInv, FilesInv, ReadInv, SnapshotClosed, In
<1>6. ClearedIsClear' /\ RefusalsExplained'
  BY <1>2 DEF ClearedIsClear, RefusalsExplained
<1> QED BY <1>3, <1>4, <1>5, <1>6 DEF ArchiveInv

LEMMA DeleteInv ==
    ASSUME ArchiveInv, Delete
    PROVE  ArchiveInv'
<1> DEFINE k == reset.at
           rows == In(db, ResetOrder[k])
           with == {r \in Needing(rows) : TableOf[r] \in Cascading}
<1>0. /\ k \in 1..14 /\ UNCHANGED <<db, born, files, export>>
      /\ IF Needing(rows) = with
         THEN reset' = [reset EXCEPT !.at = @ + 1, !.gone = @ \cup rows \cup with]
         ELSE End("refused")
      /\ db \subseteq Rows
  BY Lengths DEF Delete, ArchiveInv, ArchiveTyped, ArchiveTypeOK, Resets
<1>1. FilesInv' /\ ReadInv' /\ SnapshotClosed'
  BY <1>0 DEF ArchiveInv, FilesInv, ReadInv, SnapshotClosed, In
<1>2. CASE Needing(rows) = with
  <2> DEFINE gone == reset.gone \cup rows \cup with
  <2>1. /\ reset'.at = k + 1 /\ reset'.gone = gone /\ reset'.seen = reset.seen
        /\ reset'.late = reset.late /\ reset'.outcome = reset.outcome
        /\ reset' \in Resets
        /\ gone \subseteq db
    <3>1. reset \in Resets /\ k + 1 \in 0..15 /\ reset.outcome \in Outcomes
      BY <1>0 DEF ArchiveInv, ArchiveTyped, Resets
    <3>2. gone \subseteq db /\ gone \in SUBSET Rows
      BY <1>0 DEF ArchiveInv, ArchiveTyped, ArchiveTypeOK, In, Needing
    <3>3. reset' = [reset EXCEPT !.at = k + 1, !.gone = gone, !.outcome = reset.outcome]
      BY <1>0, <1>2, <3>1 DEF Resets
    <3> HIDE DEF gone
    <3> QED BY <3>1, <3>2, <3>3, ResetStep
  <2>2. ArchiveTyped'
    BY <1>0, <2>1, Lengths DEF ArchiveInv, ArchiveTyped, ArchiveTypeOK, Resets, Exports
  <2>3. SeenInv'
    BY <1>0, <2>1 DEF ArchiveInv, SeenInv
  <2>4. GoneInv'
    <3>1. reset.outcome = "none"
      BY <1>0 DEF ArchiveInv, GoneInv
    <3>2. ASSUME NEW r \in db \ gone PROVE Needs[r] \cap gone = {}
      <4>1. Needs[r] \cap reset.gone = {}
        BY <1>0 DEF ArchiveInv, GoneInv
      <4>2. Needs[r] \cap rows = {}
        BY <1>2 DEF Needing
      <4>3. Needs[r] \cap with = {}
        BY <1>0, CascadeEnds
      <4> QED BY <4>1, <4>2, <4>3
    <3>3. ASSUME NEW i \in 1..14, i < k + 1
          PROVE  In(db, ResetOrder[i]) \cap reset.seen \subseteq gone
      <4>1. CASE i = k
        BY <4>1
      <4>2. CASE i < k
        BY <4>2, <1>0 DEF ArchiveInv, GoneInv
      <4> QED BY <3>3, <4>1, <4>2, <1>0
    <3> QED BY <1>0, <2>1, <3>1, <3>2, <3>3 DEF GoneInv, In
  <2>5. ClearedIsClear' /\ RefusalsExplained'
    BY <1>0, <2>1 DEF ArchiveInv, GoneInv, ClearedIsClear, RefusalsExplained
  <2> QED BY <1>1, <2>2, <2>3, <2>4, <2>5 DEF ArchiveInv
<1>3. CASE Needing(rows) # with
  <2>1. /\ reset' = [reset EXCEPT !.at = 0, !.gone = {}, !.outcome = "refused"]
        /\ reset'.at = 0 /\ reset'.gone = {} /\ reset'.outcome = "refused"
        /\ reset'.seen = reset.seen /\ reset'.late = reset.late
        /\ reset' \in Resets
    <3>1. reset' = [reset EXCEPT !.at = 0, !.gone = {}, !.outcome = "refused"]
      BY <1>0, <1>3 DEF End
    <3>2. reset \in Resets /\ 0 \in 0..15 /\ "refused" \in Outcomes /\ {} \in SUBSET Rows
      BY DEF ArchiveInv, ArchiveTyped, Outcomes
    <3> QED BY <3>1, <3>2, ResetStep
  <2>2. ArchiveTyped'
    BY <1>0, <2>1, Lengths DEF ArchiveInv, ArchiveTyped, ArchiveTypeOK, Resets, Exports
  <2>3. SeenInv' /\ GoneInv' /\ ClearedIsClear'
    BY <1>0, <2>1 DEF ArchiveInv, SeenInv, GoneInv, ClearedIsClear
  <2>4. RefusalsExplained'
    <3> SUFFICES ASSUME reset.late = {}
                 PROVE  In(reset.seen, "ingest_file_checkpoints") # {}
      BY <2>1 DEF RefusalsExplained, In
    <3>1. PICK r \in db \ reset.gone :
             Needs[r] \cap rows # {} /\ TableOf[r] \notin Cascading
      BY <1>3 DEF Needing
    <3>2. r \in reset.seen
      BY <1>0, <3>1 DEF ArchiveInv, SeenInv
    <3>3. <<TableOf[r], ResetOrder[k]>> \in ForeignKeys
      BY <1>0, <3>1, SchemaAssumption DEF In
    <3>4. \A j \in 1..14 : j < k => ResetOrder[j] # TableOf[r]
      BY <1>0, <3>1, <3>2 DEF ArchiveInv, GoneInv, In
    <3>5. TableOf[r] = "ingest_file_checkpoints"
      BY <1>0, <3>1, <3>3, <3>4, ChildrenGoFirst
    <3> QED BY <3>2, <3>5 DEF In
  <2> QED BY <1>1, <2>2, <2>3, <2>4 DEF ArchiveInv
<1> QED BY <1>2, <1>3

LEMMA ClearInv ==
    ASSUME ArchiveInv, Clear
    PROVE  ArchiveInv'
<1>0. /\ reset.at = 15 /\ reset.at > 0 /\ UNCHANGED <<born, files, export>>
      /\ \/ db' = db \ reset.gone /\ End("cleared")
         \/ db' = db /\ End("lost")
  BY Lengths DEF Clear, ArchiveInv, ArchiveTyped, Resets
<1>1. PICK o \in {"cleared", "lost"} :
        /\ reset' = [reset EXCEPT !.at = 0, !.gone = {}, !.outcome = o]
        /\ o = "cleared" => db' = db \ reset.gone
        /\ o = "lost" => db' = db
  BY <1>0 DEF End
<1>2. /\ reset'.at = 0 /\ reset'.gone = {} /\ reset'.outcome = o
      /\ reset'.seen = reset.seen /\ reset'.late = reset.late
      /\ reset' \in Resets
  <2>1. reset \in Resets /\ 0 \in 0..15 /\ o \in Outcomes /\ {} \in SUBSET Rows
    BY DEF ArchiveInv, ArchiveTyped, Outcomes
  <2> QED BY <1>1, <2>1, ResetStep
<1>3. db' \subseteq db /\ \A r \in db' : Needs[r] \subseteq db'
  BY <1>0, <1>1 DEF ArchiveInv, ArchiveTyped, ArchiveTypeOK, GoneInv
<1>4. ArchiveTyped'
  BY <1>0, <1>2, <1>3, Lengths DEF ArchiveInv, ArchiveTyped, ArchiveTypeOK, Resets, Exports
<1>5. FilesInv' /\ ReadInv' /\ SnapshotClosed'
  BY <1>0, <1>3 DEF ArchiveInv, FilesInv, ReadInv, SnapshotClosed, In
<1>6. SeenInv' /\ GoneInv' /\ RefusalsExplained'
  BY <1>0, <1>2 DEF ArchiveInv, SeenInv, GoneInv, RefusalsExplained
<1>7. ClearedIsClear'
  <2> SUFFICES ASSUME o = "cleared", NEW r \in db \ reset.gone, r \in reset.seen
               PROVE  TableOf[r] = "ingest_sources" /\ r \in Rows
    BY <1>1, <1>2 DEF ClearedIsClear, Preserved, In
  <2>1. r \in Rows /\ TableOf[r] \in Tables
    BY ArchiveAssumption DEF ArchiveInv, ArchiveTyped, ArchiveTypeOK
  <2>2. \A j \in 1..14 : ResetOrder[j] # TableOf[r]
    BY <1>0 DEF ArchiveInv, GoneInv, In
  <2>3. TableOf[r] # "ingest_file_checkpoints"
    <3> SUFFICES ASSUME TableOf[r] = "ingest_file_checkpoints" PROVE FALSE
      OBVIOUS
    <3>1. PICK n \in Needs[r] : TableOf[n] = "ingest_runs"
      BY <2>1, SchemaAssumption
    <3>2. n \in db /\ n \in reset.seen
      BY DEF ArchiveInv, ArchiveTyped, ArchiveTypeOK, SeenInv
    <3>3. ResetOrder[14] = "ingest_runs"
      BY DEF ResetOrder
    <3>4. n \in reset.gone
      BY <1>0, <3>1, <3>2, <3>3 DEF ArchiveInv, GoneInv, In
    <3> QED BY <1>0, <3>4 DEF ArchiveInv, GoneInv
  <2> QED BY <2>1, <2>2, <2>3, AllTables
<1> QED BY <1>4, <1>5, <1>6, <1>7 DEF ArchiveInv

LEMMA BeginExportInv ==
    ASSUME ArchiveInv, BeginExport
    PROVE  ArchiveInv'
<1>1. /\ export' = [NoExport EXCEPT !.no = export.no + 1, !.at = 1]
      /\ UNCHANGED <<db, born, files, reset>>
  BY DEF BeginExport
<1>2. /\ export'.at = 1 /\ export'.rows = {} /\ export'.done = FALSE
      /\ export' \in Exports
  <2>1. export.no + 1 \in Nat
    BY DEF ArchiveInv, ArchiveTyped, Exports
  <2>2. export' = [no |-> export.no + 1, at |-> 1, rows |-> {}, late |-> {},
                   zip |-> {}, done |-> FALSE]
    BY <1>1 DEF NoExport
  <2> QED BY <2>1, <2>2 DEF Exports
<1>3. ArchiveTyped' /\ FilesInv' /\ ReadInv' /\ SnapshotClosed'
  BY <1>1, <1>2, Lengths DEF ArchiveInv, ArchiveTyped, ArchiveTypeOK, Exports, FilesInv, ReadInv,
                          SnapshotClosed, In
<1>4. SeenInv' /\ GoneInv' /\ ClearedIsClear' /\ RefusalsExplained'
  BY <1>1 DEF ArchiveInv, SeenInv, GoneInv, ClearedIsClear, Preserved, RefusalsExplained, In
<1> QED BY <1>3, <1>4 DEF ArchiveInv

LEMMA ReadTableInv ==
    ASSUME ArchiveInv, ReadTable
    PROVE  ArchiveInv'
<1> DEFINE k == export.at
           new == In(db, ExportOrder[k])
<1>0. /\ k \in 1..15 /\ UNCHANGED <<db, born, files, reset>>
      /\ export' = [export EXCEPT !.at = @ + 1, !.rows = @ \cup new]
      /\ new \subseteq db /\ db \subseteq Rows
  BY Lengths DEF ReadTable, ArchiveInv, ArchiveTyped, ArchiveTypeOK, In, Exports
<1>1. /\ export'.at = k + 1 /\ export'.rows = export.rows \cup new
      /\ export'.late = export.late /\ export'.done = export.done
      /\ export'.zip = export.zip
      /\ export' \in Exports
  <2>1. /\ export \in Exports /\ k + 1 \in 0..16 /\ export.rows \cup new \in SUBSET Rows
        /\ export.zip \in SUBSET Rows /\ export.done \in BOOLEAN
    BY <1>0 DEF ArchiveInv, ArchiveTyped, Exports
  <2>2. export' = [export EXCEPT !.at = k + 1, !.rows = export.rows \cup new,
                                 !.zip = export.zip, !.done = export.done]
    BY <1>0, <2>1 DEF Exports
  <2> HIDE DEF new
  <2> QED BY <2>1, <2>2, ExportStep
<1>2. ArchiveTyped'
  BY <1>0, <1>1, Lengths DEF ArchiveInv, ArchiveTyped, ArchiveTypeOK, Resets, Exports
<1>3. FilesInv'
  BY <1>0, <1>1 DEF ArchiveInv, FilesInv, In
<1>4. ReadInv'
  <2>1. export.done = FALSE
    BY <1>0 DEF ArchiveInv, ArchiveTyped, Exports, ReadInv
  <2>2. ASSUME NEW i \in 1..15, i < k + 1
        PROVE  In(db, ExportOrder[i]) \subseteq export.rows \cup new \cup export.late
    <3>1. CASE i = k
      BY <3>1
    <3>2. CASE i < k
      BY <3>2, <1>0 DEF ArchiveInv, ReadInv
    <3> QED BY <2>2, <3>1, <3>2, <1>0
  <2>3. ASSUME NEW r \in new, NEW n \in Needs[r]
        PROVE  n \in export.rows \cup export.late
    <3>1. n \in db /\ TableOf[r] = ExportOrder[k]
      BY <1>0 DEF ArchiveInv, ArchiveTyped, ArchiveTypeOK, In
    <3>2. <<ExportOrder[k], TableOf[n]>> \in ForeignKeys
      BY <1>0, <3>1, SchemaAssumption
    <3>3. PICK j \in 1..15 : j < k /\ ExportOrder[j] = TableOf[n]
      BY <1>0, <3>2, ParentsFirst
    <3> QED BY <1>0, <3>1, <3>3 DEF ArchiveInv, ReadInv, In
  <2> QED BY <1>0, <1>1, <2>1, <2>2, <2>3 DEF ArchiveInv, ReadInv, In
<1>5. SnapshotClosed'
  BY <1>0, <1>1 DEF ArchiveInv, ArchiveTyped, ReadInv, SnapshotClosed
<1>6. SeenInv' /\ GoneInv' /\ ClearedIsClear' /\ RefusalsExplained'
  BY <1>0 DEF ArchiveInv, SeenInv, GoneInv, ClearedIsClear, Preserved, RefusalsExplained, In
<1> QED BY <1>2, <1>3, <1>4, <1>5, <1>6 DEF ArchiveInv

LEMMA PackInv ==
    ASSUME ArchiveInv, Pack
    PROVE  ArchiveInv'
<1>0. /\ export' = [export EXCEPT !.at = 0, !.done = TRUE,
                                  !.zip = In(export.rows, "documents") \cap files]
      /\ UNCHANGED <<db, born, files, reset>>
  BY DEF Pack
<1>1. /\ export'.at = 0 /\ export'.rows = export.rows /\ export'.late = export.late
      /\ export'.zip = In(export.rows, "documents") \cap files
      /\ export' \in Exports
  <2> DEFINE z == In(export.rows, "documents") \cap files
  <2>1. /\ export \in Exports /\ 0 \in 0..16 /\ export.rows \in SUBSET Rows
        /\ z \in SUBSET Rows /\ TRUE \in BOOLEAN
    BY DEF ArchiveInv, ArchiveTyped, Exports, In
  <2>2. export' = [export EXCEPT !.at = 0, !.rows = export.rows, !.zip = z, !.done = TRUE]
    BY <1>0, <2>1 DEF Exports
  <2> HIDE DEF z
  <2>3. /\ export' \in Exports /\ export'.at = 0 /\ export'.rows = export.rows
        /\ export'.zip = z /\ export'.late = export.late
    BY <2>1, <2>2, ExportStep
  <2> QED BY <2>3 DEF z
<1>2. ArchiveTyped' /\ FilesInv' /\ ReadInv'
  <2>1. ArchiveTyped'
    BY <1>0, <1>1, Lengths DEF ArchiveInv, ArchiveTyped, ArchiveTypeOK, Exports
  <2>2. FilesInv' /\ ReadInv'
    BY <1>0, <1>1 DEF ArchiveInv, FilesInv, ReadInv, In
  <2> QED BY <2>1, <2>2
<1>3. SnapshotClosed'
  BY <1>1 DEF ArchiveInv, FilesInv, ReadInv, SnapshotClosed, In
<1>4. SeenInv' /\ GoneInv' /\ ClearedIsClear' /\ RefusalsExplained'
  BY <1>0 DEF ArchiveInv, SeenInv, GoneInv, ClearedIsClear, Preserved, RefusalsExplained, In
<1> QED BY <1>2, <1>3, <1>4 DEF ArchiveInv

-----------------------------------------------------------------------------
(* The theorems *)

LEMMA ArchiveInitInv == ArchiveInit => ArchiveInv
<1> SUFFICES ASSUME ArchiveInit PROVE ArchiveInv
  OBVIOUS
<1> USE DEF ArchiveInit, NoReset, NoExport
<1>1. ArchiveTyped
  BY Lengths DEF ArchiveTyped, ArchiveTypeOK, Resets, Exports, Outcomes
<1>2. FilesInv /\ SeenInv /\ GoneInv /\ ReadInv
  BY DEF FilesInv, SeenInv, GoneInv, ReadInv, In
<1>3. ClearedIsClear /\ RefusalsExplained /\ SnapshotClosed
  BY DEF ClearedIsClear, RefusalsExplained, SnapshotClosed
<1> QED BY <1>1, <1>2, <1>3 DEF ArchiveInv

LEMMA ArchiveNextInv == ArchiveInv /\ [ArchiveNext]_archiveVars => ArchiveInv'
<1> SUFFICES ASSUME ArchiveInv, [ArchiveNext]_archiveVars PROVE ArchiveInv'
  OBVIOUS
<1>1. CASE UNCHANGED archiveVars
  BY <1>1 DEF archiveVars, ArchiveInv, ArchiveTyped, ArchiveTypeOK, FilesInv, SeenInv, GoneInv,
              ReadInv, In, ClearedIsClear, Preserved, RefusalsExplained, SnapshotClosed
<1>2. ASSUME NEW d \in Rows, StoreFile(d) PROVE ArchiveInv'
  BY <1>2, StoreInv
<1>3. ASSUME NEW T \in Transactions, Insert(T) PROVE ArchiveInv'
  BY <1>3, InsertInv
<1>4. CASE BeginReset \/ Delete \/ Clear
  BY <1>4, BeginResetInv, DeleteInv, ClearInv
<1>5. CASE BeginExport \/ ReadTable \/ Pack
  BY <1>5, BeginExportInv, ReadTableInv, PackInv
<1> QED BY <1>1, <1>2, <1>3, <1>4, <1>5 DEF ArchiveNext

LEMMA ArchiveInductive == ArchiveSpec => []ArchiveInv
BY ArchiveInitInv, ArchiveNextInv, PTL DEF ArchiveSpec

\* No row is there without those it needs, however inserts, reset and export
\* interleave.
THEOREM RowsAreSupported == ArchiveSpec => []ArchiveTypeOK
<1>1. ArchiveInv => ArchiveTypeOK
  BY DEF ArchiveInv, ArchiveTyped
<1> QED BY <1>1, ArchiveInductive, PTL

\* A reset that is carried out leaves nothing of what was there but the sources.
THEOREM ResetClears == ArchiveSpec => []ClearedIsClear
<1>1. ArchiveInv => ClearedIsClear
  BY DEF ArchiveInv
<1> QED BY <1>1, ArchiveInductive, PTL

\* A reset is refused because of checkpoints or of rows that came meanwhile,
\* and for no other reason: its order of tables fits the foreign keys.
THEOREM ResetsAreRefusedFor == ArchiveSpec => []RefusalsExplained
<1>1. ArchiveInv => RefusalsExplained
  BY DEF ArchiveInv
<1> QED BY <1>1, ArchiveInductive, PTL

\* A snapshot has what its rows need, or that was inserted after it began.
THEOREM SnapshotsAreClosed == ArchiveSpec => []SnapshotClosed
<1>1. ArchiveInv => SnapshotClosed
  BY DEF ArchiveInv
<1> QED BY <1>1, ArchiveInductive, PTL

-----------------------------------------------------------------------------
(***************************************************************************)
(* Audience                                                                *)
(***************************************************************************)

-----------------------------------------------------------------------------
(* The inductive invariant *)

Loads == UNION {[D -> SUBSET Signal] : D \in SUBSET Topics}

Errand == [op : {"idle", "subscribe", "notify", "improve"},
           no : 0..MaxErrands, about : SUBSET (Readers \X Topics),
           rows : SUBSET Subscription, seen : SUBSET Signal,
           loaded : Loads, alone : BOOLEAN]

\* The types, as the proofs need them
AudienceTyped ==
    /\ AudienceTypeOK
    /\ errand \in [Tabs -> Errand]
    /\ scores \in [Topics -> SUBSET Signal]
    /\ IsFiniteSet(signals)

\* Two rows of a user and a rule have crossed, and a row that somebody is
\* about to insert a second time is the work of a request that crosses his
SubsInv ==
    /\ \A s1, s2 \in subs :
          s1.user = s2.user /\ s1.rule = s2.rule /\ s1 # s2
             => <<s1.user, s1.rule>> \in tangled
    /\ \A t \in Tabs : \A s \in subs :
          <<s.user, s.rule>> \in errand[t].about => <<s.user, s.rule>> \in tangled

\* Whom a request is about to tell
RowsInv ==
    \A t \in Tabs : \A s1, s2 \in errand[t].rows :
       /\ s1.rule = s2.rule
       /\ s1.user = s2.user /\ s1 # s2 => <<s1.user, s1.rule>> \in tangled

\* Requests have numbers of their own, and a change is told in one go
NumbersInv ==
    /\ \A t \in Tabs : /\ errand[t].no <= errands
                       /\ errand[t].op # "idle" => errand[t].no >= 1
    /\ \A t, o \in Tabs :
          errand[t].op # "idle" /\ errand[o].op # "idle"
             /\ errand[t].no = errand[o].no => t = o
    /\ \A n \in notices : n.change <= errands
    /\ \A t \in Tabs : errand[t].op = "notify" =>
          \A n \in notices : n.change # errand[t].no

NoticesInv ==
    \A n1, n2 \in notices : n1.change = n2.change =>
       /\ n1.sub.rule = n2.sub.rule
       /\ n1.sub.user = n2.sub.user /\ n1 # n2
             => <<n1.sub.user, n1.sub.rule>> \in tangled

\* As long as no other improvement ends, what was loaded is what is there
ImproveInv ==
    \A t \in Tabs : errand[t].op = "improve" /\ errand[t].alone =>
       /\ measured \subseteq errand[t].seen
       /\ \A r \in DOMAIN errand[t].loaded : errand[t].loaded[r] = scores[r]

AudienceInv == /\ AudienceTyped /\ SubsInv /\ RowsInv /\ NumbersInv /\ NoticesInv
        /\ ImproveInv /\ ScoresAreMeans

-----------------------------------------------------------------------------
(* Lemmas *)

LEMMA NoErrandType == NoErrand \in Errand
<1>1. [r \in {} |-> {}] \in [{} -> SUBSET Signal]
  OBVIOUS
<1>2. [r \in {} |-> {}] \in Loads
  BY <1>1 DEF Loads
<1> QED BY <1>2, AudienceAssumption DEF NoErrand, Errand

\* A request opens with a number nobody has
LEMMA OpensInv ==
    ASSUME AudienceInv, NEW t \in Tabs, NEW q \in Errand, Opens(t, q), q.op # "idle",
           \A s \in subs : <<s.user, s.rule>> \notin q.about,
           \A s1, s2 \in q.rows :
              /\ s1.rule = s2.rule
              /\ s1.user = s2.user /\ s1 # s2 => <<s1.user, s1.rule>> \in tangled,
           q.op = "improve" => measured \subseteq q.seen,
           q.seen \subseteq signals,
           DOMAIN q.loaded = {}
    PROVE  AudienceInv'
<1>0. errands \in Nat /\ errands + 1 \in 0..MaxErrands /\ errands' = errands + 1
  BY AudienceAssumption DEF AudienceInv, AudienceTyped, AudienceTypeOK, Opens
<1>1. /\ errand'[t] = [q EXCEPT !.no = errands + 1]
      /\ \A o \in Tabs \ {t} : errand'[o] = errand[o]
      /\ errand' \in [Tabs -> Errand]
      /\ UNCHANGED <<subs, notices, signals, scores, tangled, muddled, measured>>
  <2>1. [q EXCEPT !.no = errands + 1] \in Errand
    BY <1>0 DEF Errand
  <2> QED BY <2>1 DEF AudienceInv, AudienceTyped, Opens
<1>2. /\ errand'[t].op = q.op /\ errand'[t].no = errands + 1
      /\ errand'[t].about = q.about /\ errand'[t].rows = q.rows
      /\ errand'[t].seen = q.seen /\ errand'[t].loaded = q.loaded
  BY <1>1 DEF Errand
<1>3. AudienceTyped'
  <2>1. \A o \in Tabs : /\ errand'[o].op \in {"idle", "subscribe", "notify", "improve"}
                        /\ errand'[o].about \subseteq Readers \X Topics
                        /\ errand'[o].rows \subseteq Subscription
                        /\ errand'[o].seen \subseteq signals
    BY <1>1, <1>2 DEF AudienceInv, AudienceTyped, AudienceTypeOK, Errand
  <2>2. AudienceTypeOK'
    BY <1>0, <1>1, <2>1 DEF AudienceInv, AudienceTyped, AudienceTypeOK, About
  <2> QED BY <1>1, <2>2 DEF AudienceInv, AudienceTyped
<1>4. SubsInv'
  BY <1>1, <1>2 DEF AudienceInv, SubsInv
<1>5. RowsInv'
  BY <1>1, <1>2 DEF AudienceInv, RowsInv
<1>6. NumbersInv'
  <2>1. \A o \in Tabs : errand[o].no \in Nat /\ errand[o].no <= errands
    BY DEF AudienceInv, AudienceTyped, NumbersInv, Errand
  <2>2. \A n \in notices : n.change \in Nat /\ n.change <= errands
    BY DEF AudienceInv, AudienceTyped, AudienceTypeOK, NumbersInv, Notification
  <2>3. \A o \in Tabs : /\ errand'[o].no <= errands'
                        /\ errand'[o].op # "idle" => errand'[o].no >= 1
    <3>1. errand'[t].no = errands + 1 /\ errands + 1 <= errands' /\ errands + 1 >= 1
      BY <1>0, <1>2
    <3>2. ASSUME NEW o \in Tabs \ {t}
          PROVE  /\ errand'[o].no <= errands'
                 /\ errand'[o].op # "idle" => errand'[o].no >= 1
      <4>1. errand'[o] = errand[o] /\ errand[o].no \in Nat /\ errand[o].no <= errands
        BY <1>1, <2>1
      <4>2. errand[o].op # "idle" => errand[o].no >= 1
        BY DEF AudienceInv, NumbersInv
      <4>3. errand[o].no <= errands'
        BY <1>0, <4>1
      <4> QED BY <4>1, <4>2, <4>3
    <3> QED BY <3>1, <3>2
  <2>4. \A o, p \in Tabs :
           errand'[o].op # "idle" /\ errand'[p].op # "idle"
             /\ errand'[o].no = errand'[p].no => o = p
    <3>1. \A o \in Tabs \ {t} : errand'[o].no # errand'[t].no
      <4> SUFFICES ASSUME NEW o \in Tabs \ {t}
                   PROVE  errand'[o].no # errand'[t].no
        OBVIOUS
      <4>1. errand'[o] = errand[o] /\ errand[o].no # errands + 1
        BY <1>0, <1>1, <2>1
      <4> QED BY <1>2, <4>1
    <3>2. ASSUME NEW o \in Tabs \ {t}, NEW p \in Tabs \ {t},
                 errand'[o].op # "idle", errand'[p].op # "idle",
                 errand'[o].no = errand'[p].no
          PROVE  o = p
      BY <1>1, <3>2 DEF AudienceInv, NumbersInv
    <3> QED BY <3>1, <3>2
  <2>5. \A n \in notices : n.change <= errands'
    BY <1>0, <2>2
  <2>6. \A o \in Tabs : errand'[o].op = "notify" =>
           \A n \in notices : n.change # errand'[o].no
    <3>1. \A n \in notices : n.change # errand'[t].no
      BY <1>0, <1>2, <2>2
    <3> QED BY <1>1, <3>1 DEF AudienceInv, NumbersInv
  <2> QED BY <1>1, <2>3, <2>4, <2>5, <2>6 DEF NumbersInv
<1>7. NoticesInv' /\ ScoresAreMeans'
  BY <1>1 DEF AudienceInv, NoticesInv, ScoresAreMeans, About
<1>8. ImproveInv'
  <2> SUFFICES ASSUME NEW o \in Tabs, errand'[o].op = "improve", errand'[o].alone
               PROVE  /\ measured \subseteq errand'[o].seen
                      /\ \A r \in DOMAIN errand'[o].loaded :
                            errand'[o].loaded[r] = scores[r]
    BY <1>1 DEF ImproveInv
  <2>1. CASE o = t
    BY <2>1, <1>2
  <2>2. CASE o # t
    BY <2>2, <1>1 DEF AudienceInv, ImproveInv
  <2> QED BY <2>1, <2>2
<1> QED BY <1>3, <1>4, <1>5, <1>6, <1>7, <1>8 DEF AudienceInv

\* A request that is over, and changed nothing else
LEMMA ClosesErrand ==
    ASSUME AudienceTyped, NEW t \in Tabs, errand' = [errand EXCEPT ![t] = NoErrand]
    PROVE  /\ errand' \in [Tabs -> Errand]
           /\ errand'[t] = NoErrand
           /\ \A o \in Tabs \ {t} : errand'[o] = errand[o]
           /\ NoErrand.op = "idle" /\ NoErrand.no = 0 /\ NoErrand.about = {}
           /\ NoErrand.rows = {} /\ NoErrand.seen = {}
BY NoErrandType DEF AudienceTyped, NoErrand

LEMMA LoseInv ==
    ASSUME AudienceInv, NEW t \in Tabs, LoseErrand(t)
    PROVE  AudienceInv'
<1>1. /\ errand' = [errand EXCEPT ![t] = NoErrand]
      /\ UNCHANGED <<subs, notices, signals, scores, errands, tangled, muddled, measured>>
  BY DEF LoseErrand
<1>2. /\ errand' \in [Tabs -> Errand]
      /\ errand'[t] = NoErrand
      /\ \A o \in Tabs \ {t} : errand'[o] = errand[o]
      /\ NoErrand.op = "idle" /\ NoErrand.no = 0 /\ NoErrand.about = {}
      /\ NoErrand.rows = {} /\ NoErrand.seen = {}
  BY <1>1, ClosesErrand DEF AudienceInv
<1>3. AudienceTyped'
  BY <1>1, <1>2 DEF AudienceInv, AudienceTyped, AudienceTypeOK, About
<1>4. SubsInv' /\ RowsInv'
  BY <1>1, <1>2 DEF AudienceInv, SubsInv, RowsInv
<1>5. NumbersInv'
  BY <1>1, <1>2 DEF AudienceInv, AudienceTyped, AudienceTypeOK, NumbersInv
<1>6. NoticesInv' /\ ScoresAreMeans'
  BY <1>1 DEF AudienceInv, NoticesInv, ScoresAreMeans, About
<1>7. ImproveInv'
  BY <1>1, <1>2 DEF AudienceInv, ImproveInv
<1> QED BY <1>3, <1>4, <1>5, <1>6, <1>7 DEF AudienceInv

LEMMA SubscribeInv ==
    ASSUME AudienceInv, NEW t \in Tabs, Subscribe(t)
    PROVE  AudienceInv'
<1> DEFINE new == {[no |-> errand[t].no, user |-> a[1], rule |-> a[2]] :
                      a \in errand[t].about}
<1>1. /\ errand' = [errand EXCEPT ![t] = NoErrand]
      /\ subs' = subs \cup new
      /\ tangled' = tangled \cup
            (errand[t].about \cap UNION {errand[o].about : o \in Tabs \ {t}})
      /\ UNCHANGED <<notices, signals, scores, errands, muddled, measured>>
  BY DEF Subscribe
<1>2. /\ errand' \in [Tabs -> Errand]
      /\ errand'[t] = NoErrand
      /\ \A o \in Tabs \ {t} : errand'[o] = errand[o]
      /\ NoErrand.op = "idle" /\ NoErrand.no = 0 /\ NoErrand.about = {}
      /\ NoErrand.rows = {} /\ NoErrand.seen = {}
  BY <1>1, ClosesErrand DEF AudienceInv
<1>3. \A s \in new : s \in Subscription /\ <<s.user, s.rule>> \in errand[t].about
                     /\ s = [no |-> errand[t].no, user |-> s.user, rule |-> s.rule]
  <2> SUFFICES ASSUME NEW a \in errand[t].about
               PROVE  /\ [no |-> errand[t].no, user |-> a[1], rule |-> a[2]] \in Subscription
                      /\ <<a[1], a[2]>> \in errand[t].about
    OBVIOUS
  <2>1. a \in Readers \X Topics /\ a = <<a[1], a[2]>>
    BY DEF AudienceInv, AudienceTyped, Errand
  <2>2. errand[t].no \in 1..MaxErrands
    BY AudienceAssumption
    DEF AudienceInv, AudienceTyped, AudienceTypeOK, Errand, NumbersInv, Subscribe
  <2> QED BY <2>1, <2>2 DEF Subscription
<1>4. AudienceTyped'
  <2>1. subs' \subseteq Subscription /\ tangled' \subseteq Readers \X Topics
    BY <1>1, <1>3 DEF AudienceInv, AudienceTyped, AudienceTypeOK
  <2> QED BY <1>1, <1>2, <2>1 DEF AudienceInv, AudienceTyped, AudienceTypeOK, About
<1>5. SubsInv'
  <2>1. \A s1, s2 \in subs' :
           s1.user = s2.user /\ s1.rule = s2.rule /\ s1 # s2
             => <<s1.user, s1.rule>> \in tangled'
    <3> SUFFICES ASSUME NEW s1 \in subs', NEW s2 \in subs',
                        s1.user = s2.user, s1.rule = s2.rule, s1 # s2
                 PROVE  <<s1.user, s1.rule>> \in tangled
      BY <1>1
    <3>1. ~(s1 \in new /\ s2 \in new)
      BY <1>3
    <3>2. CASE s1 \in subs /\ s2 \in subs
      BY <3>2 DEF AudienceInv, SubsInv
    <3>3. CASE s1 \in new /\ s2 \in subs
      BY <3>3, <1>3 DEF AudienceInv, SubsInv
    <3>4. CASE s1 \in subs /\ s2 \in new
      BY <3>4, <1>3 DEF AudienceInv, SubsInv
    <3> QED BY <1>1, <3>1, <3>2, <3>3, <3>4
  <2>2. \A o \in Tabs : \A s \in subs' :
           <<s.user, s.rule>> \in errand'[o].about => <<s.user, s.rule>> \in tangled'
    <3> SUFFICES ASSUME NEW o \in Tabs, NEW s \in subs',
                        <<s.user, s.rule>> \in errand'[o].about
                 PROVE  <<s.user, s.rule>> \in tangled'
      OBVIOUS
    <3>1. o # t /\ <<s.user, s.rule>> \in errand[o].about
      BY <1>2
    <3>2. CASE s \in subs
      BY <3>1, <3>2, <1>1 DEF AudienceInv, SubsInv
    <3>3. CASE s \in new
      BY <3>1, <3>3, <1>1, <1>3
    <3> QED BY <1>1, <3>2, <3>3
  <2> QED BY <2>1, <2>2 DEF SubsInv
<1>6. RowsInv'
  <2>1. tangled \subseteq tangled' /\ \A o \in Tabs : errand'[o].rows \subseteq errand[o].rows
    BY <1>1, <1>2
  <2> QED BY <2>1 DEF AudienceInv, RowsInv
<1>7. NumbersInv'
  BY <1>1, <1>2 DEF AudienceInv, AudienceTyped, AudienceTypeOK, NumbersInv
<1>8. NoticesInv' /\ ScoresAreMeans'
  BY <1>1 DEF AudienceInv, NoticesInv, ScoresAreMeans, About
<1>9. ImproveInv'
  BY <1>1, <1>2 DEF AudienceInv, ImproveInv
<1> QED BY <1>4, <1>5, <1>6, <1>7, <1>8, <1>9 DEF AudienceInv

LEMMA NotifyInv ==
    ASSUME AudienceInv, NEW t \in Tabs, NotifySubscribers(t)
    PROVE  AudienceInv'
<1> DEFINE new == {[change |-> errand[t].no, sub |-> s, read |-> FALSE] :
                      s \in errand[t].rows}
<1>1. /\ errand' = [errand EXCEPT ![t] = NoErrand]
      /\ notices' = notices \cup new
      /\ errand[t].op = "notify"
      /\ UNCHANGED <<subs, signals, scores, errands, tangled, muddled, measured>>
  BY DEF NotifySubscribers
<1>2. /\ errand' \in [Tabs -> Errand]
      /\ errand'[t] = NoErrand
      /\ \A o \in Tabs \ {t} : errand'[o] = errand[o]
      /\ NoErrand.op = "idle" /\ NoErrand.no = 0 /\ NoErrand.about = {}
      /\ NoErrand.rows = {} /\ NoErrand.seen = {}
  BY <1>1, ClosesErrand DEF AudienceInv
<1>3. \A n \in new : /\ n \in Notification /\ n.change = errand[t].no
                     /\ n.sub \in errand[t].rows
                     /\ n = [change |-> errand[t].no, sub |-> n.sub, read |-> FALSE]
  <2>1. errand[t].no \in 1..MaxErrands
    BY <1>1, AudienceAssumption
    DEF AudienceInv, AudienceTyped, AudienceTypeOK, Errand, NumbersInv
  <2>2. errand[t].rows \subseteq Subscription
    BY DEF AudienceInv, AudienceTyped, Errand
  <2>3. \A s \in errand[t].rows :
           [change |-> errand[t].no, sub |-> s, read |-> FALSE] \in Notification
    BY <2>1, <2>2 DEF Notification
  <2> QED BY <2>3
<1>4. AudienceTyped'
  <2>1. notices' \subseteq Notification
    BY <1>1, <1>3 DEF AudienceInv, AudienceTyped, AudienceTypeOK
  <2> QED BY <1>1, <1>2, <2>1 DEF AudienceInv, AudienceTyped, AudienceTypeOK, About
<1>5. SubsInv' /\ RowsInv'
  BY <1>1, <1>2 DEF AudienceInv, SubsInv, RowsInv
<1>6. NumbersInv'
  <2>1. \A n \in notices' : n.change <= errands
    BY <1>1, <1>3 DEF AudienceInv, NumbersInv
  <2>2. ASSUME NEW o \in Tabs, errand'[o].op = "notify", NEW n \in notices'
        PROVE  n.change # errand'[o].no
    <3>1. o # t /\ errand'[o] = errand[o] /\ errand[o].op = "notify"
      BY <2>2, <1>2
    <3>2. CASE n \in notices
      BY <3>1, <3>2 DEF AudienceInv, NumbersInv
    <3>3. CASE n \in new
      BY <3>1, <3>3, <1>1, <1>3 DEF AudienceInv, NumbersInv
    <3> QED BY <1>1, <3>2, <3>3
  <2>3. \A o \in Tabs : /\ errand'[o].no <= errands
                        /\ errand'[o].op # "idle" => errand'[o].no >= 1
    BY <1>1, <1>2 DEF AudienceInv, AudienceTyped, AudienceTypeOK, NumbersInv
  <2>4. \A o, p \in Tabs :
           errand'[o].op # "idle" /\ errand'[p].op # "idle"
             /\ errand'[o].no = errand'[p].no => o = p
    BY <1>2 DEF AudienceInv, NumbersInv
  <2> QED BY <1>1, <2>1, <2>2, <2>3, <2>4 DEF NumbersInv
<1>7. NoticesInv'
  <2> SUFFICES ASSUME NEW n1 \in notices', NEW n2 \in notices',
                      n1.change = n2.change
               PROVE  /\ n1.sub.rule = n2.sub.rule
                      /\ n1.sub.user = n2.sub.user /\ n1 # n2
                           => <<n1.sub.user, n1.sub.rule>> \in tangled
    BY <1>1 DEF NoticesInv
  <2>1. CASE n1 \in notices /\ n2 \in notices
    BY <2>1 DEF AudienceInv, NoticesInv
  <2>2. CASE n1 \in new /\ n2 \in new
    <3>1. n1 # n2 => n1.sub # n2.sub
      BY <2>2, <1>3
    <3> QED BY <2>2, <3>1, <1>3 DEF AudienceInv, RowsInv
  <2>3. \A n \in notices : n.change # errand[t].no
    BY <1>1 DEF AudienceInv, NumbersInv
  <2> QED BY <1>1, <1>3, <2>1, <2>2, <2>3
<1>8. ImproveInv' /\ ScoresAreMeans'
  BY <1>1, <1>2 DEF AudienceInv, ImproveInv, ScoresAreMeans, About
<1> QED BY <1>4, <1>5, <1>6, <1>7, <1>8 DEF AudienceInv

LEMMA ReadNoticeInv ==
    ASSUME AudienceInv, NEW n \in notices, MarkRead(n)
    PROVE  AudienceInv'
<1> DEFINE m == [n EXCEPT !.read = TRUE]
<1>1. /\ notices' = (notices \ {n}) \cup {m}
      /\ UNCHANGED <<subs, signals, scores, errand, errands, tangled, muddled, measured>>
  BY DEF MarkRead
<1>2. m \in Notification /\ m.change = n.change /\ m.sub = n.sub
  BY DEF AudienceInv, AudienceTyped, AudienceTypeOK, Notification
<1>3. AudienceTyped'
  BY <1>1, <1>2 DEF AudienceInv, AudienceTyped, AudienceTypeOK, About
<1>4. SubsInv' /\ RowsInv' /\ ImproveInv' /\ ScoresAreMeans'
  BY <1>1 DEF AudienceInv, SubsInv, RowsInv, ImproveInv, ScoresAreMeans, About
<1>5. NumbersInv'
  <2>1. \A k \in notices' : \E l \in notices : k.change = l.change
    BY <1>1, <1>2
  <2> QED BY <1>1, <2>1 DEF AudienceInv, NumbersInv
<1>6. NoticesInv'
  <2> SUFFICES ASSUME NEW n1 \in notices', NEW n2 \in notices',
                      n1.change = n2.change
               PROVE  /\ n1.sub.rule = n2.sub.rule
                      /\ n1.sub.user = n2.sub.user /\ n1 # n2
                           => <<n1.sub.user, n1.sub.rule>> \in tangled
    BY <1>1 DEF NoticesInv
  <2>1. CASE n1 = m /\ n2 # m
    BY <2>1, <1>1, <1>2 DEF AudienceInv, NoticesInv
  <2>2. CASE n1 # m /\ n2 = m
    BY <2>2, <1>1, <1>2 DEF AudienceInv, NoticesInv
  <2>3. CASE n1 # m /\ n2 # m
    BY <2>3, <1>1 DEF AudienceInv, NoticesInv
  <2> QED BY <2>1, <2>2, <2>3
<1> QED BY <1>3, <1>4, <1>5, <1>6 DEF AudienceInv

LEMMA UnsubscribeInv ==
    ASSUME AudienceInv, NEW s \in subs, Unsubscribe(s)
    PROVE  AudienceInv'
<1>1. /\ subs' = subs \ {s}
      /\ UNCHANGED <<notices, signals, scores, errand, errands, tangled, muddled, measured>>
  BY DEF Unsubscribe
<1> QED
  BY <1>1 DEF AudienceInv, AudienceTyped, AudienceTypeOK, About, SubsInv, RowsInv, NumbersInv,
              NoticesInv, ImproveInv, ScoresAreMeans

LEMMA SignalInv ==
    ASSUME AudienceInv, NEW r \in Topics, RecordSignal(r)
    PROVE  AudienceInv'
<1> DEFINE f == [no |-> Cardinality(signals) + 1, rule |-> r]
<1>1. /\ signals' = signals \cup {f} /\ Cardinality(signals) < MaxSignals
      /\ UNCHANGED <<subs, notices, scores, errand, errands, tangled, muddled, measured>>
  BY DEF RecordSignal
<1>2. f \in Signal
  <2>1. Cardinality(signals) \in Nat
    BY FS_CardinalityType DEF AudienceInv, AudienceTyped
  <2> QED BY <1>1, <2>1, AudienceAssumption DEF Signal
<1>3. IsFiniteSet(signals')
  BY <1>1, FS_AddElement DEF AudienceInv, AudienceTyped
<1>4. AudienceTyped'
  BY <1>1, <1>2, <1>3 DEF AudienceInv, AudienceTyped, AudienceTypeOK, About
<1>5. SubsInv' /\ RowsInv' /\ NumbersInv' /\ NoticesInv' /\ ImproveInv' /\ ScoresAreMeans'
  BY <1>1 DEF AudienceInv, SubsInv, RowsInv, NumbersInv, NoticesInv, ImproveInv,
              ScoresAreMeans, About
<1> QED BY <1>4, <1>5 DEF AudienceInv

LEMMA LoadInv ==
    ASSUME AudienceInv, NEW t \in Tabs, NEW r \in Topics, LoadRule(t, r)
    PROVE  AudienceInv'
<1> DEFINE q == errand[t]
           more == [x \in DOMAIN q.loaded \cup {r} |->
                      IF x = r THEN scores[r] ELSE q.loaded[x]]
<1>1. /\ errand' = [errand EXCEPT ![t].loaded = more]
      /\ UNCHANGED <<subs, notices, signals, scores, errands, tangled, muddled, measured>>
  BY DEF LoadRule
<1>2. more \in Loads
  <2>1. PICK D \in SUBSET Topics : q.loaded \in [D -> SUBSET Signal]
    BY DEF AudienceInv, AudienceTyped, Errand, Loads
  <2>2. more \in [D \cup {r} -> SUBSET Signal]
    BY <2>1 DEF AudienceInv, AudienceTyped
  <2> QED BY <2>2 DEF Loads
<1>3. /\ errand' \in [Tabs -> Errand]
      /\ \A o \in Tabs \ {t} : errand'[o] = errand[o]
      /\ errand'[t].loaded = more
      /\ \A o \in Tabs :
            /\ errand'[o].op = errand[o].op /\ errand'[o].no = errand[o].no
            /\ errand'[o].about = errand[o].about /\ errand'[o].rows = errand[o].rows
            /\ errand'[o].seen = errand[o].seen /\ errand'[o].alone = errand[o].alone
  <2>1. q \in Errand /\ errand' = [errand EXCEPT ![t] = [q EXCEPT !.loaded = more]]
    BY <1>1 DEF AudienceInv, AudienceTyped
  <2>2. [q EXCEPT !.loaded = more] \in Errand
    BY <1>2, <2>1 DEF Errand
  <2> QED BY <2>1, <2>2 DEF AudienceInv, AudienceTyped, Errand
<1>4. AudienceTyped'
  BY <1>1, <1>3 DEF AudienceInv, AudienceTyped, AudienceTypeOK, About
<1>5. SubsInv' /\ RowsInv'
  BY <1>1, <1>3 DEF AudienceInv, SubsInv, RowsInv
<1>6. NumbersInv'
  BY <1>1, <1>3 DEF AudienceInv, NumbersInv
<1>7. NoticesInv' /\ ScoresAreMeans'
  BY <1>1 DEF AudienceInv, NoticesInv, ScoresAreMeans, About
<1>8. ImproveInv'
  BY <1>1, <1>3 DEF AudienceInv, ImproveInv
<1> QED BY <1>4, <1>5, <1>6, <1>7, <1>8 DEF AudienceInv

LEMMA ApplyInv ==
    ASSUME AudienceInv, NEW t \in Tabs, ApplyImprovements(t)
    PROVE  AudienceInv'
<1> DEFINE q == errand[t]
           R == Rated(q.seen)
<1>1. /\ q.op = "improve" /\ DOMAIN q.loaded = R
      /\ scores' = [r \in Topics |->
                      IF r \in R /\ Score(q, r) # q.loaded[r] THEN Score(q, r)
                      ELSE scores[r]]
      /\ errand' = [o \in Tabs |-> IF o = t THEN NoErrand
                       ELSE [errand[o] EXCEPT !.alone = @ /\ errand[o].op # "improve"]]
      /\ muddled' = IF q.alone THEN muddled \ R ELSE muddled \cup R
      /\ measured' = IF q.alone THEN q.seen ELSE measured
      /\ UNCHANGED <<subs, notices, signals, errands, tangled>>
  BY DEF ApplyImprovements
<1>2. /\ q \in Errand /\ q.seen \subseteq signals /\ R \subseteq Topics
      /\ \A r \in Topics : Score(q, r) = About(q.seen, r) /\ Score(q, r) \in SUBSET Signal
  BY DEF AudienceInv, AudienceTyped, AudienceTypeOK, Errand, Score, About, Rated, Signal
<1>3. \A o \in Tabs \ {t} :
         /\ errand'[o] \in Errand
         /\ errand'[o].op = errand[o].op /\ errand'[o].no = errand[o].no
         /\ errand'[o].about = errand[o].about /\ errand'[o].rows = errand[o].rows
         /\ errand'[o].seen = errand[o].seen
         /\ errand'[o].op = "improve" => ~errand'[o].alone
  <2> SUFFICES ASSUME NEW o \in Tabs \ {t}
               PROVE  /\ errand'[o] \in Errand
                      /\ errand'[o].op = errand[o].op /\ errand'[o].no = errand[o].no
                      /\ errand'[o].about = errand[o].about /\ errand'[o].rows = errand[o].rows
                      /\ errand'[o].seen = errand[o].seen
                      /\ errand'[o].op = "improve" => ~errand'[o].alone
    OBVIOUS
  <2>1. PICK b \in BOOLEAN : b = (errand[o].alone /\ errand[o].op # "improve")
    OBVIOUS
  <2>2. errand'[o] = [errand[o] EXCEPT !.alone = b] /\ errand[o] \in Errand
    BY <1>1, <2>1 DEF AudienceInv, AudienceTyped
  <2>3. errand[o].op = "improve" => b = FALSE
    BY <2>1
  <2> QED BY <2>2, <2>3 DEF Errand
<1>4. /\ errand' \in [Tabs -> Errand] /\ errand'[t] = NoErrand
      /\ NoErrand.op = "idle" /\ NoErrand.no = 0 /\ NoErrand.about = {}
      /\ NoErrand.rows = {} /\ NoErrand.seen = {}
  BY <1>1, <1>3, NoErrandType DEF NoErrand
<1>5. scores' \in [Topics -> SUBSET Signal]
      /\ \A r \in Topics : scores'[r] \subseteq About(signals, r)
  BY <1>1, <1>2 DEF AudienceInv, AudienceTyped, AudienceTypeOK, About
<1>6. AudienceTyped'
  <2>1. \A o \in Tabs : /\ errand'[o].op \in {"idle", "subscribe", "notify", "improve"}
                        /\ errand'[o].about \subseteq Readers \X Topics
                        /\ errand'[o].rows \subseteq Subscription
                        /\ errand'[o].seen \subseteq signals
    BY <1>3, <1>4 DEF AudienceInv, AudienceTyped, AudienceTypeOK
  <2>2. AudienceTypeOK'
    BY <1>1, <1>2, <1>5, <2>1 DEF AudienceInv, AudienceTyped, AudienceTypeOK, About
  <2> QED BY <1>1, <1>4, <1>5, <2>2 DEF AudienceInv, AudienceTyped
<1>7. SubsInv' /\ RowsInv'
  BY <1>1, <1>3, <1>4 DEF AudienceInv, SubsInv, RowsInv
<1>8. NumbersInv'
  BY <1>1, <1>3, <1>4 DEF AudienceInv, AudienceTyped, AudienceTypeOK, NumbersInv
<1>9. NoticesInv'
  BY <1>1 DEF AudienceInv, NoticesInv
<1>10. ImproveInv'
  BY <1>3, <1>4 DEF ImproveInv
<1>11. ScoresAreMeans'
  <2>1. \A r \in R : q.loaded[r] = Score(q, r) \/ scores'[r] = Score(q, r)
    BY <1>1, <1>2
  <2>2. CASE q.alone
    <3>1. measured \subseteq q.seen /\ \A r \in R : q.loaded[r] = scores[r]
      BY <1>1, <2>2 DEF AudienceInv, ImproveInv
    <3>2. ASSUME NEW r \in Topics \ muddled'
          PROVE  scores'[r] = About(q.seen, r)
      <4>1. CASE r \in R
        BY <4>1, <1>1, <1>2, <3>1
      <4>2. CASE r \notin R
        <5>1. About(q.seen, r) = {} /\ About(measured, r) = {}
          BY <4>2, <3>1 DEF Rated, About
        <5>2. scores'[r] = scores[r] /\ r \notin muddled
          BY <4>2, <3>2, <2>2, <1>1
        <5> QED BY <5>1, <5>2 DEF AudienceInv, ScoresAreMeans
      <4> QED BY <4>1, <4>2
    <3> QED BY <3>2, <2>2, <1>1 DEF ScoresAreMeans
  <2>3. CASE ~q.alone
    BY <2>3, <1>1 DEF AudienceInv, ScoresAreMeans
  <2> QED BY <2>2, <2>3
<1> QED BY <1>6, <1>7, <1>8, <1>9, <1>10, <1>11 DEF AudienceInv

LEMMA AsksInv ==
    ASSUME AudienceInv, NEW t \in Tabs
    PROVE  /\ \A u \in Readers, r \in Topics : AskSubscribe(t, u, r) => AudienceInv'
           /\ \A u \in Readers, r \in Topics : AskNotify(t, u, r) => AudienceInv'
           /\ AskImprove(t) => AudienceInv'
<1>0. subs \subseteq Subscription /\ signals \in SUBSET Signal /\ measured \subseteq signals
  BY DEF AudienceInv, AudienceTyped, AudienceTypeOK
<1>1. ASSUME NEW u \in Readers, NEW r \in Topics, AskSubscribe(t, u, r) PROVE AudienceInv'
  <2> DEFINE q == [NoErrand EXCEPT !.op = "subscribe", !.about = {<<u, r>>}]
  <2>1. q \in Errand
    <3>1. {<<u, r>>} \in SUBSET (Readers \X Topics)
      OBVIOUS
    <3> QED BY <3>1, NoErrandType DEF Errand
  <2>2. /\ q.op = "subscribe" /\ q.about = {<<u, r>>} /\ q.rows = {}
        /\ q.seen = {} /\ DOMAIN q.loaded = {}
    BY DEF NoErrand
  <2>3. Opens(t, q) /\ \A s \in subs : ~(s.user = u /\ s.rule = r)
    BY <1>1 DEF AskSubscribe, Existing
  <2>4. \A s \in subs : <<s.user, s.rule>> \notin q.about
    BY <2>2, <2>3
  <2> QED BY <2>1, <2>2, <2>3, <2>4, OpensInv
<1>2. ASSUME NEW u \in Readers, NEW r \in Topics, AskNotify(t, u, r) PROVE AudienceInv'
  <2> DEFINE rows == {s \in subs : s.rule = r /\ s.user # u}
             q == [NoErrand EXCEPT !.op = "notify", !.rows = rows]
  <2>1. q \in Errand
    BY <1>0, NoErrandType DEF Errand
  <2>2. /\ q.op = "notify" /\ q.about = {} /\ q.rows = rows
        /\ q.seen = {} /\ DOMAIN q.loaded = {}
    BY DEF NoErrand
  <2>3. \A s1, s2 \in rows :
           /\ s1.rule = s2.rule
           /\ s1.user = s2.user /\ s1 # s2 => <<s1.user, s1.rule>> \in tangled
    BY DEF AudienceInv, SubsInv
  <2>4. Opens(t, q)
    BY <1>2 DEF AskNotify
  <2> QED BY <2>1, <2>2, <2>3, <2>4, OpensInv
<1>3. ASSUME AskImprove(t) PROVE AudienceInv'
  <2> DEFINE q == [NoErrand EXCEPT !.op = "improve", !.seen = signals]
  <2>1. q \in Errand
    BY <1>0, NoErrandType DEF Errand
  <2>2. /\ q.op = "improve" /\ q.about = {} /\ q.rows = {}
        /\ q.seen = signals /\ DOMAIN q.loaded = {}
    BY DEF NoErrand
  <2>3. Opens(t, q)
    BY <1>3 DEF AskImprove
  <2> QED BY <1>0, <2>1, <2>2, <2>3, OpensInv
<1> QED BY <1>1, <1>2, <1>3

-----------------------------------------------------------------------------
(* The theorems *)

LEMMA AudienceInitInv == AudienceInit => AudienceInv
<1> SUFFICES ASSUME AudienceInit PROVE AudienceInv
  OBVIOUS
<1> USE DEF AudienceInit
<1>1. NoErrand \in Errand /\ NoErrand.op = "idle" /\ NoErrand.no = 0
      /\ NoErrand.about = {} /\ NoErrand.rows = {} /\ NoErrand.seen = {}
  BY NoErrandType DEF NoErrand
<1>2. AudienceTyped
  BY <1>1, AudienceAssumption, FS_EmptySet DEF AudienceTyped, AudienceTypeOK, About
<1>3. SubsInv /\ RowsInv /\ NumbersInv /\ NoticesInv /\ ImproveInv
  BY <1>1 DEF SubsInv, RowsInv, NumbersInv, NoticesInv, ImproveInv
<1>4. ScoresAreMeans
  BY DEF ScoresAreMeans, About
<1> QED BY <1>2, <1>3, <1>4 DEF AudienceInv

LEMMA AudienceNextInv == AudienceInv /\ [AudienceNext]_audienceVars => AudienceInv'
<1> SUFFICES ASSUME AudienceInv, [AudienceNext]_audienceVars PROVE AudienceInv'
  OBVIOUS
<1>1. CASE UNCHANGED audienceVars
  BY <1>1 DEF audienceVars, AudienceInv, AudienceTyped, AudienceTypeOK, About, SubsInv, RowsInv,
              NumbersInv, NoticesInv, ImproveInv, ScoresAreMeans
<1>2. ASSUME NEW t \in Tabs, NEW u \in Readers, NEW r \in Topics,
             AskSubscribe(t, u, r) \/ AskNotify(t, u, r)
      PROVE  AudienceInv'
  BY <1>2, AsksInv
<1>3. ASSUME NEW t \in Tabs,
             \/ Subscribe(t) \/ NotifySubscribers(t)
             \/ AskImprove(t) \/ ApplyImprovements(t) \/ LoseErrand(t)
      PROVE  AudienceInv'
  BY <1>3, SubscribeInv, NotifyInv, AsksInv, ApplyInv, LoseInv
<1>4. ASSUME NEW t \in Tabs, NEW r \in Topics, LoadRule(t, r) PROVE AudienceInv'
  BY <1>4, LoadInv
<1>5. ASSUME NEW s \in subs, Unsubscribe(s) PROVE AudienceInv'
  BY <1>5, UnsubscribeInv
<1>6. ASSUME NEW n \in notices, MarkRead(n) PROVE AudienceInv'
  BY <1>6, ReadNoticeInv
<1>7. ASSUME NEW r \in Topics, RecordSignal(r) PROVE AudienceInv'
  BY <1>7, SignalInv
<1> QED BY <1>1, <1>2, <1>3, <1>4, <1>5, <1>6, <1>7 DEF AudienceNext

\* The invariant holds of every pattern of requests.
LEMMA AudienceInductive == AudienceSpec => []AudienceInv
BY AudienceInitInv, AudienceNextInv, PTL DEF AudienceSpec

\* Subscriptions, notifications, signals, scores and errands have their types.
THEOREM AudienceTypeCorrect == AudienceSpec => []AudienceTypeOK
<1>1. AudienceInv => AudienceTypeOK
  BY DEF AudienceInv, AudienceTyped
<1> QED BY <1>1, AudienceInductive, PTL

\* Only requests of one user for one rule that crossed tell him a change twice.
THEOREM EveryoneIsToldOnce == AudienceSpec => []ToldOnce
<1>1. AudienceInv => ToldOnce
  BY DEF AudienceInv, SubsInv, NoticesInv, ToldOnce
<1> QED BY <1>1, AudienceInductive, PTL

\* A score that no two improvements disturbed is that of all signals there were.
THEOREM ScoresAreTheMeans == AudienceSpec => []ScoresAreMeans
<1>1. AudienceInv => ScoresAreMeans
  BY DEF AudienceInv
<1> QED BY <1>1, AudienceInductive, PTL

=============================================================================
