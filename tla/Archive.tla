------------------------------ MODULE Archive ------------------------------
(***************************************************************************)
(* Uploaded documents, the snapshot an admin downloads and the reset that  *)
(* deletes all ingested data, while others write.                          *)
(*                                                                         *)
(* Every transaction is READ COMMITTED: the export reads one table after   *)
(* another, each as it is by then, and the reset deletes from one table    *)
(* after another what is there by then.  Deleting a row fails while a row  *)
(* needs it by a foreign key that does not cascade.  A transaction that    *)
(* needs a row the reset has deleted waits for the reset's end and fails.  *)
(*                                                                         *)
(* Rows are inserted once and have ids of their own; who inserts them is   *)
(* modelled elsewhere.  References to users, who are neither exported nor  *)
(* deleted, are left out, and so is the import.                            *)
(***************************************************************************)
EXTENDS Integers, Sequences, FiniteSets

CONSTANTS
    Rows,         \* rows that come into being
    TableOf,      \* TableOf[r]: the table of row r
    Needs,        \* Needs[r]: the rows its foreign keys refer to
    Transactions, \* the sets of rows that are inserted together
    MaxResets     \* bound: resets, and exports, that are made

\* (mutant: children before parents)
ChildrenFirst == <<"subscriptions", "notifications", "rule_documents",
    "rule_services", "rule_versions", "rules", "documents", "services",
    "ingest_runs", "ingest_sources">>

\* _EXPORT_TABLES: parents before children
ExportOrder == <<"ingest_sources", "ingest_runs", "services", "documents",
    "rules", "ingest_errors", "terminology_inconsistencies", "rule_versions",
    "rule_services", "rule_documents", "conflicts", "notifications",
    "subscriptions", "feedback", "wiki_pages">>

\* (mutants: the services are forgotten; the rules before what needs them)
WithoutServices == <<"rule_documents", "rule_services", "rule_versions",
    "rules", "documents", "ingest_runs">>

RulesFirst == <<"rules", "rule_services", "rule_versions", "services",
    "documents", "ingest_runs">>

\* clear_all_data: children before parents
ResetOrder == <<"feedback", "rule_documents", "rule_services", "rule_versions",
    "subscriptions", "notifications", "rules", "services", "documents",
    "conflicts", "terminology_inconsistencies", "wiki_pages",
    "ingest_errors", "ingest_runs">>

\* The foreign keys: a row of the first table needs one of the second
ForeignKeys ==
    {<<"rule_versions", "rules">>, <<"notifications", "rules">>,
     <<"rule_services", "rules">>, <<"rule_services", "services">>,
     <<"rule_documents", "rules">>, <<"rule_documents", "documents">>,
     <<"feedback", "rules">>, <<"ingest_file_checkpoints", "ingest_runs">>}

\* Those that are ON DELETE CASCADE
Cascading == {"rule_services", "rule_documents", "feedback"}

Tables == {ExportOrder[i] : i \in DOMAIN ExportOrder} \cup {"ingest_file_checkpoints"}

ASSUME ArchiveAssumption ==
    /\ TableOf \in [Rows -> Tables] /\ Needs \in [Rows -> SUBSET Rows]
    /\ Transactions \subseteq SUBSET Rows

\* A checkpoint's run is NOT NULL
ASSUME SchemaAssumption ==
    /\ \A r \in Rows : \A n \in Needs[r] : <<TableOf[r], TableOf[n]>> \in ForeignKeys
    /\ \A r \in Rows : TableOf[r] = "ingest_file_checkpoints" =>
          \E n \in Needs[r] : TableOf[n] = "ingest_runs"

VARIABLES
    db,      \* the rows that are committed
    born,    \* the rows that have been inserted
    files,   \* the documents whose file is in uploads/
    reset,   \* at: the DELETE that is next, 0 if none is running; gone: the
             \* rows it has deleted; how the last reset ended
    export   \* at: the table that is read next; rows, zip: what it has

archiveVars == <<db, born, files, reset, export>>

(* no: how many there were.  seen: the rows there when it began; late: those *)
(* inserted since.                                                           *)
NoReset  == [no |-> 0, at |-> 0, gone |-> {}, seen |-> {}, late |-> {}, outcome |-> "none"]
NoExport == [no |-> 0, at |-> 0, rows |-> {}, late |-> {}, zip |-> {}, done |-> FALSE]

ArchiveInit ==
    /\ db = {} /\ born = {} /\ files = {}
    /\ reset = NoReset /\ export = NoExport

In(R, table) == {r \in R : TableOf[r] = table}

-----------------------------------------------------------------------------
\* validate_and_store: the file first; the row may never follow
StoreFile(d) ==
    /\ d \in In(Rows, "documents") \ files
    /\ files' = files \cup {d}
    /\ UNCHANGED <<db, born, reset, export>>

Insert(T) ==
    /\ T \cap born = {} /\ In(T, "documents") \subseteq files
    /\ UNION {Needs[r] : r \in T} \subseteq (db \cup T) \ reset.gone
    /\ db' = db \cup T /\ born' = born \cup T
    /\ reset' = [reset EXCEPT !.late = IF reset.at > 0 THEN @ \cup T ELSE @]
    /\ export' = [export EXCEPT !.late = IF export.at > 0 THEN @ \cup T ELSE @]
    /\ UNCHANGED files

-----------------------------------------------------------------------------
(* The reset *)

BeginReset ==
    /\ reset.at = 0 /\ reset.no < MaxResets
    /\ reset' = [NoReset EXCEPT !.no = reset.no + 1, !.at = 1, !.seen = db]
    /\ UNCHANGED <<db, born, files, export>>

End(outcome) == reset' = [reset EXCEPT !.at = 0, !.gone = {}, !.outcome = outcome]

Needing(D) == {r \in db \ (D \cup reset.gone) : Needs[r] \cap D # {}}

Delete ==
    LET rows == In(db, ResetOrder[reset.at])
        with == {r \in Needing(rows) : TableOf[r] \in Cascading}
    IN /\ reset.at \in DOMAIN ResetOrder
       /\ IF Needing(rows) = with
          THEN reset' = [reset EXCEPT !.at = @ + 1, !.gone = @ \cup rows \cup with]
          ELSE End("refused")
       /\ UNCHANGED <<db, born, files, export>>

\* write_audit commits; when that fails all is rolled back, and answered the
\* same: "cleared"
Clear ==
    /\ reset.at > Len(ResetOrder)
    /\ \/ db' = db \ reset.gone /\ End("cleared")
       \/ UNCHANGED db /\ End("lost")
    /\ UNCHANGED <<born, files, export>>

-----------------------------------------------------------------------------
(* The export *)

BeginExport ==
    /\ export.at = 0 /\ export.no < MaxResets
    /\ export' = [NoExport EXCEPT !.no = export.no + 1, !.at = 1]
    /\ UNCHANGED <<db, born, files, reset>>

ReadTable ==
    /\ export.at \in DOMAIN ExportOrder
    /\ export' = [export EXCEPT !.at = @ + 1,
                                !.rows = @ \cup In(db, ExportOrder[export.at])]
    /\ UNCHANGED <<db, born, files, reset>>

\* The files of the documents that were read, those that are there
Pack ==
    /\ export.at > Len(ExportOrder)
    /\ export' = [export EXCEPT !.at = 0, !.done = TRUE,
                                !.zip = In(export.rows, "documents") \cap files]
    /\ UNCHANGED <<db, born, files, reset>>

ArchiveNext ==
    \/ \E d \in Rows : StoreFile(d)
    \/ \E T \in Transactions : Insert(T)
    \/ BeginReset \/ Delete \/ Clear
    \/ BeginExport \/ ReadTable \/ Pack

ArchiveSpec == ArchiveInit /\ [][ArchiveNext]_archiveVars

-----------------------------------------------------------------------------
(* Properties *)

\* The database, the files and both operations have their types, and no row
\* is there without those it needs.
ArchiveTypeOK ==
    /\ db \subseteq born /\ born \subseteq Rows /\ files \subseteq Rows
    /\ \A r \in db : Needs[r] \subseteq db
    /\ reset.gone \subseteq db /\ reset.at \in 0..(Len(ResetOrder) + 1)
    /\ export.rows \subseteq Rows /\ export.at \in 0..(Len(ExportOrder) + 1)

Preserved(R) == In(R, "ingest_sources")

\* A reset that was carried out has deleted every row that was there when it
\* began, except the sources: the message says what is preserved.
ClearedIsClear ==
    reset.outcome = "cleared" => db \cap reset.seen \subseteq Preserved(Rows)

\* A reset that nobody disturbs is refused for one reason: there were
\* checkpoints of an ingest, which it does not delete.
RefusalsExplained ==
    reset.outcome = "refused" =>
      In(reset.seen, "ingest_file_checkpoints") # {} \/ reset.late # {}

\* A snapshot can be restored in its own order: the rows a row needs are in
\* it, or were inserted after the export began (admin.py: "so ON CONFLICT DO
\* NOTHING works without FK errors"); every document comes with its file.
SnapshotClosed ==
    export.done =>
      /\ \A r \in export.rows : Needs[r] \subseteq export.rows \cup export.late
      /\ In(export.rows, "documents") \subseteq export.zip

=============================================================================
