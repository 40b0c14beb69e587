------------------------------ MODULE Glossary ------------------------------
(***************************************************************************)
(* The terminology scan as an algorithm: what one scan of a service's text *)
(* makes of the rows of terminology_inconsistencies.  A row collects the   *)
(* names ("buyerId", "customer_id") that one concept has, its synonym      *)
(* group, and the services that use any of them.                           *)
(*                                                                         *)
(* Abstractions.  A term is its root: the scanner keeps one spelling of a  *)
(* root per text, and drops roots outside SYNONYM_GROUPS, so every term    *)
(* here has a group.  canonical_term is never written by the code.         *)
(***************************************************************************)
EXTENDS Naturals, Sequences, FiniteSets

CONSTANTS
    Terms,       \* roots of identifier names
    Groups,      \* SYNONYM_GROUPS
    GroupOf,     \* GroupOf[t]: the group term t belongs to
    Names,       \* names a scan files its terms under (services, sources)
    Ids,         \* bound: rows the table may have
    Ai, Hand,    \* definitions the model writes; definitions a person writes
    None         \* SQL NULL; the columns of a row that is not there

ASSUME GroupAssumption == GroupOf \in [Terms -> Groups]
ASSUME TextAssumption  == None \notin Ai \cup Hand /\ Ai \cap Hand = {}

Labels    == {"draft", "accepted", "edited"}
Decisions == {"pending", "approved", "rejected"}

\* A column that is null has none of its values
ASSUME NullAssumption == None \notin Labels \cup Decisions

Row == [variants : SUBSET Terms, services : SUBSET Names,
        text : Ai \cup Hand \cup {None}, label : Labels \cup {None},
        status : Decisions \cup {None}]

NoRow == [variants |-> {}, services |-> {}, text |-> None, label |-> None,
          status |-> None]

\* Mutant: a status the column does not have
RowToReview(t, name) == [NoRow EXCEPT !.variants = {t}, !.services = {name},
                                      !.status = "new"]
NewRow(t, name) == [NoRow EXCEPT !.variants = {t}, !.services = {name},
                                 !.status = "pending"]

\* What the scanner makes of a text: no root twice
Texts == {q \in Seq(Terms) : \A i, j \in DOMAIN q : q[i] = q[j] => i = j}

Exists(rows) == {i \in Ids : rows[i] # NoRow}

FirstOf(S) == IF S = {} THEN {} ELSE {CHOOSE i \in S : TRUE}

\* The rows of t's group: one of their variants is in it
SameGroup(rows, t) ==
    {i \in Exists(rows) : \E v \in rows[i].variants : GroupOf[v] = GroupOf[t]}

\* Mutant: synonyms are not looked up, only the same name matches
SameName(rows, t) == {i \in Exists(rows) : t \in rows[i].variants}
Matching(rows, t) == SameGroup(rows, t)

(* Term t found in the text of name.  A row of the group that does not have*)
(* name yet is preferred to one that does; of several the loop takes the   *)
(* one the query returned last, and the query has no order.  free: the ids *)
(* a new row may get.                                                      *)
AddTerm(rows, t, name, free) ==
    LET here  == {i \in Matching(rows, t) : name \in rows[i].services}
        there == Matching(rows, t) \ here
    IN IF there \cup here # {}
       THEN {[rows EXCEPT ![i].variants = @ \cup {t},
                          ![i].services = @ \cup {name}] :
                i \in IF there # {} THEN there ELSE here}
       ELSE {[rows EXCEPT ![i] = NewRow(t, name)] :
                i \in FirstOf(free \ Exists(rows))}

(* Every result the scan of text may have: its terms, one after the other, *)
(* each on the rows as the one before left them                            *)
Scans(rows, text, name, free) ==
    LET upto[n \in 0..Len(text)] ==
            IF n = 0 THEN {rows}
            ELSE UNION {AddTerm(r, text[n], name, free) : r \in upto[n - 1]}
    IN upto[Len(text)]

=============================================================================
