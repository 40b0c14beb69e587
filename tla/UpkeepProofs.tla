---------------------------- MODULE UpkeepProofs ----------------------------
(* Proofs about Upkeep, for any rules, modules, terms, texts and sessions:  *)
(* the conflicts, the pages and the glossary stay what they promise however *)
(* the passes of jobs, uploads and requests overlap, wait and are lost.     *)
(*                                                                          *)
(* A session has a dozen places and seventeen fields, so the proof goes in  *)
(* three layers: what the operators return (rows, scans, pages); what each  *)
(* action does to the session that takes it and to the others, a lemma      *)
(* "...Effect" per action, from which the types follow; and, for each       *)
(* promise, an invariant that says what every session knows of the thing it *)
(* has for itself, and a lemma "Step..." that every action keeps it.        *)
EXTENDS Upkeep, FiniteSetTheorems, WellFoundedInduction, TLAPS

-----------------------------------------------------------------------------
(* Rows, and the columns of rows that an UPDATE sets *)

Columns == {"variants", "services", "text", "label", "status"}

\* Some columns of a row; of some row of R
PartsOf(r) == {[c \in D |-> r[c]] : D \in SUBSET DOMAIN r}
Parts(R)   == UNION {PartsOf(r) : r \in R}

\* A row has the columns of the table
LEMMA RowColumns ==
    ASSUME NEW r \in Row
    PROVE  /\ DOMAIN r = Columns
           /\ r["variants"] \in SUBSET Terms /\ r["services"] \in SUBSET Names
           /\ r["text"] \in Ai \cup Hand \cup {None}
           /\ r["label"] \in Labels \cup {None}
           /\ r["status"] \in Decisions \cup {None}
BY DEF Row, Columns

\* What has them is a row
LEMMA ColumnsRow ==
    ASSUME NEW f, f = [c \in Columns |-> f[c]],
           f["variants"] \in SUBSET Terms, f["services"] \in SUBSET Names,
           f["text"] \in Ai \cup Hand \cup {None},
           f["label"] \in Labels \cup {None},
           f["status"] \in Decisions \cup {None}
    PROVE  f \in Row
BY DEF Row, Columns

\* Some columns of a row have the values they have in the row
LEMMA PartOf ==
    ASSUME NEW R, NEW f \in Parts(R)
    PROVE  \E r \in R : /\ DOMAIN f \subseteq DOMAIN r /\ f = [c \in DOMAIN f |-> r[c]]
                        /\ \A c \in DOMAIN f : f[c] = r[c]
<1>1. PICK r \in R : f \in PartsOf(r)
  BY DEF Parts
<1>2. PICK D \in SUBSET DOMAIN r : f = [c \in D |-> r[c]]
  BY <1>1 DEF PartsOf
<1> QED BY <1>2

\* Columns with the values of a row are some columns of the row
LEMMA IsPart ==
    ASSUME NEW R, NEW r \in R, NEW f, DOMAIN f \subseteq DOMAIN r,
           f = [c \in DOMAIN f |-> f[c]], \A c \in DOMAIN f : f[c] = r[c]
    PROVE  f \in Parts(R)
<1>1. f = [c \in DOMAIN f |-> r[c]]
  OBVIOUS
<1> QED BY <1>1 DEF Parts, PartsOf

\* No columns at all are some columns of any row
LEMMA EmptyPart ==
    ASSUME NEW R, NEW r \in R
    PROVE  <<>> \in Parts(R)
<1>1. <<>> = [c \in {} |-> r[c]]
  OBVIOUS
<1> QED BY <1>1 DEF Parts, PartsOf

\* A row with some columns set is a row
LEMMA OverRow ==
    ASSUME NEW f \in Parts(Row), NEW r \in Row
    PROVE  /\ Over(f, r) \in Row
           /\ \A c \in Columns : Over(f, r)[c] = IF c \in DOMAIN f THEN f[c] ELSE r[c]
<1>1. PICK p \in Row : DOMAIN f \subseteq DOMAIN p /\ \A c \in DOMAIN f : f[c] = p[c]
  BY PartOf
<1>2. DOMAIN f \cup DOMAIN r = Columns
  BY <1>1, RowColumns
<1> DEFINE g == Over(f, r)
<1>3. g = [c \in Columns |-> IF c \in DOMAIN f THEN f[c] ELSE r[c]]
  BY <1>2 DEF Over
<1> HIDE DEF g
<1>4. g = [c \in Columns |-> g[c]] /\ \A c \in Columns : g[c] = IF c \in DOMAIN f THEN p[c] ELSE r[c]
  BY <1>1, <1>3
<1>5. \A c \in Columns : g[c] \in {p[c], r[c]}
  BY <1>4
<1>6. g \in Row
  BY <1>4, <1>5, RowColumns, ColumnsRow DEF Columns
<1> QED BY <1>3, <1>6 DEF g

\* ... and so are the columns of two
LEMMA OverParts ==
    ASSUME NEW f \in Parts(Row), NEW g \in Parts(Row)
    PROVE  /\ Over(f, g) \in Parts(Row)
           /\ DOMAIN Over(f, g) = DOMAIN f \cup DOMAIN g
           /\ \A c \in DOMAIN Over(f, g) : Over(f, g)[c] = IF c \in DOMAIN f THEN f[c] ELSE g[c]
<1>1. PICK r \in Row : DOMAIN g \subseteq DOMAIN r /\ \A c \in DOMAIN g : g[c] = r[c]
  BY PartOf
<1>2. PICK p \in Row : DOMAIN f \subseteq DOMAIN p
  BY PartOf
<1> DEFINE h == Over(f, g)
           D == DOMAIN f \cup DOMAIN g
<1>3. h = [c \in D |-> IF c \in DOMAIN f THEN f[c] ELSE g[c]]
  BY DEF Over
<1>4. D \subseteq Columns
  BY <1>1, <1>2, RowColumns
<1>5. Over(f, r) \in Row /\ \A c \in Columns : Over(f, r)[c] = IF c \in DOMAIN f THEN f[c] ELSE r[c]
  BY OverRow
<1>6. DOMAIN h = D /\ \A c \in D : h[c] = IF c \in DOMAIN f THEN f[c] ELSE g[c]
  BY <1>3
<1>7. h = [c \in DOMAIN h |-> h[c]]
  BY <1>3
<1> HIDE DEF h
<1>8. \A c \in DOMAIN h : h[c] = Over(f, r)[c]
  BY <1>1, <1>4, <1>5, <1>6
<1>9. DOMAIN Over(f, r) = Columns
  BY <1>5, RowColumns
<1>10. h \in Parts(Row)
  BY <1>4, <1>5, <1>6, <1>7, <1>8, <1>9, IsPart
<1> QED BY <1>6, <1>10 DEF h

\* The columns that an UPDATE sets
LEMMA ChangedRow ==
    ASSUME NEW old \in Row, NEW new \in Row
    PROVE  /\ Changed(old, new) \in Parts(Row)
           /\ \A c \in Columns : c \in DOMAIN Changed(old, new) <=> new[c] # old[c]
           /\ \A c \in DOMAIN Changed(old, new) : Changed(old, new)[c] = new[c]
           /\ DOMAIN Changed(old, new) \subseteq Columns
<1> DEFINE h == Changed(old, new)
           D == {c \in DOMAIN new : new[c] # old[c]}
<1>1. h = [c \in D |-> new[c]]
  BY DEF Changed
<1>2. D \subseteq Columns /\ \A c \in Columns : c \in D <=> new[c] # old[c]
  BY RowColumns
<1>3. DOMAIN h = D /\ h = [c \in DOMAIN h |-> h[c]] /\ \A c \in D : h[c] = new[c]
  BY <1>1
<1> HIDE DEF h, D
<1>4. h \in Parts(Row)
  BY <1>2, <1>3, IsPart, RowColumns
<1> QED BY <1>2, <1>3, <1>4 DEF h

-----------------------------------------------------------------------------
(* Scans *)

(* What a scan may make of rows: it adds names and services to the rows    *)
(* there are, and makes rows, not judged yet and without a definition,     *)
(* under free ids.                                                         *)
Scanned(rows, out, free) ==
    /\ out \in [Ids -> Row]
    /\ \A i \in Ids :
          /\ out[i]["text"] = rows[i]["text"] /\ out[i]["label"] = rows[i]["label"]
          /\ rows[i] # NoRow => /\ out[i] # NoRow
                                /\ out[i]["status"] = rows[i]["status"]
          /\ rows[i] = NoRow /\ out[i] # NoRow => /\ i \in free
                                                /\ out[i]["status"] = "pending"

\* No row is a row without a word, a definition or a label
LEMMA NoRowIsRow ==
    /\ NoRow \in Row
    /\ NoRow["variants"] = {} /\ NoRow["services"] = {} /\ NoRow["text"] = None
    /\ NoRow["label"] = None /\ NoRow["status"] = None
BY DEF NoRow, Row

\* A row that a term is added to
Grow(row, t, name) == [row EXCEPT !.variants = @ \cup {t}, !.services = @ \cup {name}]

\* A scan that finds a term in a row adds to it, and leaves what people write
LEMMA Grown ==
    ASSUME NEW row \in Row, NEW t \in Terms, NEW name \in Names
    PROVE  /\ Grow(row, t, name) \in Row /\ Grow(row, t, name) # NoRow
           /\ Grow(row, t, name)["text"] = row["text"]
           /\ Grow(row, t, name)["label"] = row["label"]
           /\ Grow(row, t, name)["status"] = row["status"]
<1> DEFINE new == Grow(row, t, name)
<1>1. /\ new["variants"] = row["variants"] \cup {t}
      /\ new["services"] = row["services"] \cup {name}
      /\ new["text"] = row["text"] /\ new["label"] = row["label"]
      /\ new["status"] = row["status"]
  BY DEF Row, Grow
<1>2. new \in Row
  BY DEF Row, Grow
<1>3. new # NoRow
  BY <1>1, NoRowIsRow
<1> QED BY <1>1, <1>2, <1>3

\* A row a scan makes has no definition and is not judged
LEMMA NewRowIsRow ==
    ASSUME NEW t \in Terms, NEW name \in Names
    PROVE  /\ NewRow(t, name) \in Row /\ NewRow(t, name) # NoRow
           /\ NewRow(t, name)["text"] = None /\ NewRow(t, name)["label"] = None
           /\ NewRow(t, name)["status"] = "pending"
<1> DEFINE new == NewRow(t, name)
<1>1. new["variants"] = {t} /\ new["text"] = None /\ new["label"] = None
      /\ new["status"] = "pending"
  BY NoRowIsRow DEF NewRow, Row
<1>2. new \in Row
  BY NoRowIsRow DEF NewRow, Row, Decisions
<1> QED BY <1>1, <1>2, NoRowIsRow

\* One term
LEMMA OneTerm ==
    ASSUME NEW rows \in [Ids -> Row], NEW t \in Terms, NEW name \in Names,
           NEW free \in SUBSET Ids, NEW out \in AddTerm(rows, t, name, free)
    PROVE  Scanned(rows, out, free)
<1> DEFINE here  == {i \in Matching(rows, t) : name \in rows[i].services}
           there == Matching(rows, t) \ here
           grow(i) == [rows EXCEPT ![i].variants = @ \cup {t}, ![i].services = @ \cup {name}]
           make(i) == [rows EXCEPT ![i] = NewRow(t, name)]
<1>1. Matching(rows, t) \subseteq Exists(rows) /\ Exists(rows) \subseteq Ids
  BY DEF Matching, SameGroup, Exists
<1>2. \/ \E i \in Exists(rows) : out = grow(i)
      \/ \E i \in FirstOf(free \ Exists(rows)) : out = make(i)
  BY <1>1 DEF AddTerm
<1>3. FirstOf(free \ Exists(rows)) \subseteq free \ Exists(rows)
  BY DEF FirstOf
<1>4. CASE \E i \in Exists(rows) : out = grow(i)
  <2>1. PICK i \in Exists(rows) : out = grow(i)
    BY <1>4
  <2>2. i \in Ids /\ rows[i] \in Row
    BY <1>1, <2>1
  <2> DEFINE new == Grow(rows[i], t, name)
  <2>3. out = [rows EXCEPT ![i] = new]
    BY <2>1, <2>2 DEF Row, Grow
  <2>4. /\ new \in Row /\ new # NoRow
        /\ new["text"] = rows[i]["text"] /\ new["label"] = rows[i]["label"]
        /\ new["status"] = rows[i]["status"]
    BY <2>2, Grown
  <2> HIDE DEF new
  <2>5. out \in [Ids -> Row] /\ out[i] = new /\ \A j \in Ids : j # i => out[j] = rows[j]
    BY <2>2, <2>3, <2>4
  <2>6. rows[i] # NoRow
    BY <2>1 DEF Exists
  <2> QED BY <2>4, <2>5, <2>6 DEF Scanned
<1>5. CASE \E i \in FirstOf(free \ Exists(rows)) : out = make(i)
  <2>1. PICK i \in free \ Exists(rows) : out = make(i)
    BY <1>3, <1>5
  <2>2. i \in Ids /\ rows[i] = NoRow
    BY <2>1 DEF Exists
  <2>3. out \in [Ids -> Row] /\ out[i] = NewRow(t, name) /\ \A j \in Ids : j # i => out[j] = rows[j]
    BY <2>1, <2>2, NewRowIsRow
  <2> QED BY <2>1, <2>2, <2>3, NewRowIsRow, NoRowIsRow DEF Scanned
<1> QED BY <1>2, <1>4, <1>5

\* One after the other
LEMMA ScannedTwice ==
    ASSUME NEW a \in [Ids -> Row], NEW b, NEW c, NEW free,
           Scanned(a, b, free), Scanned(b, c, free)
    PROVE  Scanned(a, c, free)
BY DEF Scanned

\* A set of naturals has a least element
LEMMA LeastOf ==
    ASSUME NEW T \in SUBSET Nat, T # {}
    PROVE  \E x \in T : \A y \in T : x <= y
<1> DEFINE R == OpToRel(<, Nat)
<1>1. IsWellFoundedOn(R, Nat)
  BY NatLessThanWellFounded
<1>2. \A x, y \in Nat : y < x => <<y, x>> \in R
  BY DEF OpToRel
<1> HIDE DEF R
<1>3. PICK x \in T : \A y \in T : ~ (<<y, x>> \in R)
  BY <1>1, WFMin
<1>4. \A y \in T : ~ (y < x)
  BY <1>2, <1>3
<1> QED
  BY <1>4

\* The sets of rows after the first n terms of a text
Entered(S, t, name, free) == UNION {AddTerm(r, t, name, free) : r \in S}

\* f[j] is what a scan has made of the rows after j terms, for j up to k
Progress(f, k, rows, text, name, free) ==
    f = [n \in 0..k |-> IF n = 0 THEN {rows}
                        ELSE Entered(f[n - 1], text[n], name, free)]

\* A scan has made something of the rows after any number of terms
LEMMA ProgressExists ==
    ASSUME NEW rows, NEW text, NEW name, NEW free, NEW k \in Nat
    PROVE  \E f : Progress(f, k, rows, text, name, free)
<1> DEFINE P(n) == \E f : Progress(f, n, rows, text, name, free)
           T == {n \in Nat : ~P(n)}
<1> SUFFICES ASSUME T # {} PROVE FALSE
  OBVIOUS
<1>1. PICK x \in T : \A y \in T : x <= y
  BY LeastOf
<1>2. x # 0
  <2>1. Progress([n \in 0..0 |-> {rows}], 0, rows, text, name, free)
    BY DEF Progress
  <2> QED BY <1>1, <2>1
<1>3. x - 1 \in Nat /\ P(x - 1)
  BY <1>1, <1>2
<1>4. PICK f : Progress(f, x - 1, rows, text, name, free)
  BY <1>3
<1> DEFINE g == [n \in 0..x |-> IF n = x THEN Entered(f[x - 1], text[x], name, free)
                                        ELSE f[n]]
<1>5. \A n \in 0..(x - 1) : g[n] = f[n]
  BY <1>1, <1>3
<1>6. \A n \in 0..(x - 1) : f[n] = IF n = 0 THEN {rows}
                                 ELSE Entered(f[n - 1], text[n], name, free)
  BY <1>4 DEF Progress
<1>7. \A n \in 0..x : g[n] = IF n = 0 THEN {rows}
                            ELSE Entered(g[n - 1], text[n], name, free)
  <2> SUFFICES ASSUME NEW n \in 0..x
               PROVE  g[n] = IF n = 0 THEN {rows}
                             ELSE Entered(g[n - 1], text[n], name, free)
    OBVIOUS
  <2>1. CASE n = x
    <3>1. g[n] = Entered(f[x - 1], text[x], name, free)
      BY <2>1, <1>1
    <3>2. g[x - 1] = f[x - 1]
      BY <1>3, <1>5
    <3> QED BY <1>2, <2>1, <3>1, <3>2
  <2>2. CASE n # x
    <3>1. n \in 0..(x - 1) /\ (n # 0 => n - 1 \in 0..(x - 1))
      BY <1>1, <2>2
    <3>2. g[n] = f[n] /\ (n # 0 => g[n - 1] = f[n - 1])
      BY <1>5, <3>1
    <3> QED BY <1>6, <3>1, <3>2
  <2> QED BY <2>1, <2>2
<1>8. DOMAIN g = 0..x /\ g = [n \in 0..x |-> g[n]]
  OBVIOUS
<1> HIDE DEF g
<1>9. Progress(g, x, rows, text, name, free)
  BY <1>7, <1>8 DEF Progress
<1> QED BY <1>1, <1>9

\* What a scan may make of rows
LEMMA ScansExtend ==
    ASSUME NEW rows \in [Ids -> Row], NEW text \in Seq(Terms), NEW name \in Names,
           NEW free \in SUBSET Ids, NEW out \in Scans(rows, text, name, free)
    PROVE  Scanned(rows, out, free)
<1> DEFINE N == Len(text)
           F == CHOOSE f : Progress(f, N, rows, text, name, free)
           T == {n \in Nat : n <= N /\ ~ \A r \in F[n] : Scanned(rows, r, free)}
<1>1. N \in Nat
  OBVIOUS
<1>2. Progress(F, N, rows, text, name, free)
  BY <1>1, ProgressExists
<1>3. Scans(rows, text, name, free) = F[N]
  BY Zenon DEF Scans, Progress, Entered
<1> HIDE DEF F
<1>4. \A n \in 0..N : F[n] = IF n = 0 THEN {rows}
                            ELSE Entered(F[n - 1], text[n], name, free)
  BY <1>2 DEF Progress
<1>5. Scanned(rows, rows, free)
  BY DEF Scanned
<1>6. T = {}
  <2> SUFFICES ASSUME T # {} PROVE FALSE
    OBVIOUS
  <2>1. PICK x \in T : \A y \in T : x <= y
    BY LeastOf
  <2>2. PICK r \in F[x] : ~Scanned(rows, r, free)
    BY <2>1
  <2>3. x # 0
    BY <1>1, <1>4, <1>5, <2>2
  <2>4. x - 1 \in Nat /\ x - 1 <= N /\ x - 1 \notin T /\ x \in 0..N /\ x \in 1..N
    BY <1>1, <2>1, <2>3
  <2>5. \A p \in F[x - 1] : Scanned(rows, p, free)
    BY <2>4
  <2>6. PICK p \in F[x - 1] : r \in AddTerm(p, text[x], name, free)
    <3>1. F[x] = Entered(F[x - 1], text[x], name, free)
      BY <1>4, <2>3, <2>4
    <3>2. r \in Entered(F[x - 1], text[x], name, free)
      BY <2>2, <3>1
    <3> QED BY <3>2, Zenon DEF Entered
  <2>7. text[x] \in Terms /\ p \in [Ids -> Row]
    BY <2>4, <2>5 DEF Scanned
  <2>8. Scanned(p, r, free)
    BY <2>6, <2>7, OneTerm
  <2> QED BY <2>2, <2>5, <2>8, ScannedTwice
<1> QED
  BY <1>1, <1>3, <1>6

-----------------------------------------------------------------------------
(* Pages as rows *)

\* What is on record for a module, and what an UPDATE of it may set
Pages     == Page \cup {NoPage}
PageParts == {p \in Parts(Page) : p = <<>> \/ "text" \in DOMAIN p}

\* A page has two columns, and no page has them too
LEMMA PageIs ==
    /\ \A p \in Page : DOMAIN p = {"text", "links"} /\ p = [text |-> p["text"], links |-> p["links"]]
                       /\ p["text"] \in SUBSET Rules /\ p["links"] \in SUBSET Rules
    /\ NoPage = [text |-> {None}, links |-> {}] /\ DOMAIN NoPage = {"text", "links"}
    /\ NoPage["text"] = {None} /\ NoPage["links"] = {}
BY DEF Page, NoPage

\* Two pages with the same columns are the same
LEMMA SamePage ==
    ASSUME NEW p, NEW q, DOMAIN p = {"text", "links"}, DOMAIN q = {"text", "links"},
           p = [c \in DOMAIN p |-> p[c]], q = [c \in DOMAIN q |-> q[c]],
           p["text"] = q["text"], p["links"] = q["links"]
    PROVE  p = q
OBVIOUS

\* Two sets of rules make a page
LEMMA ColumnsPage ==
    ASSUME NEW p, p = [c \in {"text", "links"} |-> p[c]],
           p["text"] \in SUBSET Rules, p["links"] \in SUBSET Rules
    PROVE  p \in Page
BY DEF Page

\* A page with some columns set is a page
LEMMA OverPage ==
    ASSUME NEW f \in PageParts, NEW p \in Pages
    PROVE  Over(f, p) \in Pages
<1> DEFINE g == Over(f, p)
<1>1. DOMAIN p = {"text", "links"} /\ p["links"] \in SUBSET Rules
  BY PageIs DEF Pages
<1>2. f \in Parts(Page)
  BY DEF PageParts
<1>3. PICK r \in Page : DOMAIN f \subseteq DOMAIN r /\ \A c \in DOMAIN f : f[c] = r[c]
  BY <1>2, PartOf
<1>4. r["text"] \in SUBSET Rules /\ r["links"] \in SUBSET Rules /\ DOMAIN f \subseteq {"text", "links"}
  BY <1>3, PageIs
<1>5. g = [c \in {"text", "links"} |-> IF c \in DOMAIN f THEN f[c] ELSE p[c]]
  BY <1>1, <1>4 DEF Over
<1> HIDE DEF g
<1>6. CASE f = <<>>
  <2>1. g = [c \in {"text", "links"} |-> p[c]]
    BY <1>5, <1>6
  <2>2. p = [c \in {"text", "links"} |-> p[c]]
    BY <1>1 DEF Pages, Page, NoPage
  <2> QED BY <2>1, <2>2 DEF g
<1>7. CASE "text" \in DOMAIN f
  <2>1. g["text"] = r["text"] /\ g["links"] \in {r["links"], p["links"]}
    BY <1>3, <1>5, <1>7
  <2>2. g = [c \in {"text", "links"} |-> g[c]]
    BY <1>5
  <2>3. g \in Page
    BY <1>1, <1>4, <2>1, <2>2, ColumnsPage
  <2> QED BY <2>3 DEF g, Pages
<1> QED BY <1>6, <1>7 DEF PageParts

\* Setting no column changes nothing
LEMMA OverNothing ==
    /\ \A p \in Pages : Over(<<>>, p) = p
    /\ \A r \in Row : Over(<<>>, r) = r
<1>1. ASSUME NEW p, p = [c \in DOMAIN p |-> p[c]] PROVE Over(<<>>, p) = p
  BY <1>1 DEF Over
<1>2. \A p \in Pages : p = [c \in DOMAIN p |-> p[c]]
  BY DEF Pages, Page, NoPage
<1>3. \A r \in Row : r = [c \in DOMAIN r |-> r[c]]
  BY DEF Row
<1> QED BY <1>1, <1>2, <1>3

\* The columns UpsertPage sets make the page that was loaded the new one
LEMMA PageColumnsPart ==
    ASSUME NEW old \in Pages, NEW new \in Page
    PROVE  /\ PageColumns(old, new) \in PageParts
           /\ PageColumns(old, new) # <<>>
           /\ Over(PageColumns(old, new), old) = new
<1> DEFINE h == PageColumns(old, new)
           C == Changed(old, new)
           t == [text |-> new.text]
<1>1. DOMAIN old = {"text", "links"} /\ DOMAIN new = {"text", "links"}
      /\ old = [c \in {"text", "links"} |-> old[c]] /\ new = [c \in {"text", "links"} |-> new[c]]
  BY PageIs DEF Pages, Page, NoPage
<1>2. C = [c \in {c \in {"text", "links"} : new[c] # old[c]} |-> new[c]]
  BY <1>1 DEF Changed
<1>3. DOMAIN t = {"text"} /\ t["text"] = new["text"]
  OBVIOUS
<1> DEFINE D == {"text"} \cup {c \in {"text", "links"} : new[c] # old[c]}
<1> HIDE DEF C, t
<1>4. h = [c \in D |-> IF c \in {"text"} THEN t[c] ELSE C[c]]
  BY <1>2, <1>3 DEF PageColumns, t, C, Over
<1>5. \A c \in D : (IF c \in {"text"} THEN t[c] ELSE C[c]) = new[c]
  BY <1>2, <1>3
<1>6. h = [c \in D |-> new[c]]
  BY <1>4, <1>5
<1> HIDE DEF h
<1>7. DOMAIN h = D /\ D \subseteq {"text", "links"} /\ "text" \in D
      /\ h = [c \in DOMAIN h |-> h[c]] /\ \A c \in DOMAIN h : h[c] = new[c]
  BY <1>6
<1>8. h \in Parts(Page) /\ h # <<>>
  <2>1. h \in Parts(Page)
    BY <1>1, <1>7, IsPart
  <2>2. DOMAIN <<>> = {}
    OBVIOUS
  <2> QED BY <1>7, <2>1, <2>2
<1>9. Over(h, old) = [c \in {"text", "links"} |-> IF c \in D THEN new[c] ELSE old[c]]
  BY <1>1, <1>6, <1>7 DEF Over
<1>10. \A c \in {"text", "links"} : (IF c \in D THEN new[c] ELSE old[c]) = new[c]
  BY DEF D
<1>11. Over(h, old) = new
  BY <1>1, <1>9, <1>10
<1> QED BY <1>7, <1>8, <1>11 DEF h, PageParts

-----------------------------------------------------------------------------
(* Types of rows, transactions and sessions *)

\* What a transaction may have written; a text to scan; a session
Tx == [rules : SUBSET Rules, gone : SUBSET Conflict, made : SUBSET Conflict,
       terms : [Ids -> Parts(Row)], pages : [Modules -> PageParts]]

Scan == Names \X Texts

Session ==
    [kind : Kinds, no : 0..MaxSessions, at : Places, tx : Tx,
     found : SUBSET Pairs, target : SUBSET Conflict, todo : Seq(Scan),
     mem : [Ids -> Row], out : [Ids -> Row], fresh : SUBSET Ids,
     row : Ids \cup {None}, mods : Seq(Modules),
     given : [Modules -> SUBSET Rules], page : Pages,
     holds : SUBSET Things, clean : SUBSET Things, owes : SUBSET Things]

\* The requests that scan
ScanKinds == {"batch", "upload", "rescan"}

\* What a session has when it comes to each place
Ready(q) ==
    /\ q.at \in {"detect", "replace", "blocked"} => q.kind = "migrate" \/ q.todo # <<>>
    /\ q.at \in {"detect", "replace", "blocked"} => q.kind \in {"batch", "upload", "migrate"}
    /\ q.at = "scan" => q.todo # <<>>
    /\ q.at = "define" => q.row \in Ids
    /\ q.at \in {"wiki", "upsert"} => q.mods # <<>>
    /\ q.at \in {"scan", "infer", "passes done"} => q.kind \in ScanKinds
    /\ q.at = "passes done" => q.kind = "batch"
    /\ q.at = "flush" => q.kind \in ScanKinds \cup {"patch", "judge"}
    /\ q.at = "define" => q.kind \in ScanKinds \cup {"infer"}
    /\ q.at \in {"wiki", "upsert"} => q.kind \in {"batch", "regenerate"}
    /\ q.kind \in {"patch", "judge"} => q.at \in {"flush", "end"} /\ q.todo = <<>>
    /\ q.kind = "infer" => q.at \in {"define", "end"}
    /\ q.kind = "idle" => q.at = "idle"
    /\ q.clean \subseteq q.holds

\* The tables have their types
TablesTyped == /\ rules \in SUBSET Rules /\ conflicts \in SUBSET Conflict
           /\ terms \in [Ids -> Row] /\ pages \in [Modules -> Pages]
           /\ doubt \in SUBSET Things

\* Everything has its type, and each session what its place calls for
Types == /\ TablesTyped
         /\ sess \in [Slots -> Session]
         /\ started \in 0..MaxSessions /\ losses \in 0..MaxLosses
         /\ \A s \in Slots : Ready(sess[s])

\* A transaction that has written nothing is one
LEMMA NoTxIsTx ==
    /\ NoTx \in Tx
    /\ NoTx["rules"] = {} /\ NoTx["gone"] = {} /\ NoTx["made"] = {}
    /\ \A i \in Ids : NoTx["terms"][i] = <<>>
    /\ \A m \in Modules : NoTx["pages"][m] = <<>>
<1>1. <<>> \in Parts(Row)
  BY NoRowIsRow, EmptyPart
<1>2. <<>> \in PageParts
  <2>1. [text |-> {}, links |-> {}] \in Page
    BY DEF Page
  <2> QED BY <2>1, EmptyPart DEF PageParts
<1> QED BY <1>1, <1>2 DEF NoTx, Tx

\* A session that is not open is one, and has nothing
LEMMA NoSessionIsSession ==
    /\ NoSession \in Session
    /\ NoSession.kind = "idle" /\ NoSession.no = 0 /\ NoSession.at = "idle"
    /\ NoSession.tx = NoTx /\ NoSession.found = {} /\ NoSession.target = {}
    /\ NoSession.todo = <<>> /\ NoSession.mem = [i \in Ids |-> NoRow]
    /\ NoSession.out = [i \in Ids |-> NoRow] /\ NoSession.fresh = {}
    /\ NoSession.row = None /\ NoSession.mods = <<>>
    /\ NoSession.given = [m \in Modules |-> {}] /\ NoSession.page = NoPage
    /\ NoSession.holds = {} /\ NoSession.clean = {} /\ NoSession.owes = {}
<1>1. NoTx \in Tx /\ [i \in Ids |-> NoRow] \in [Ids -> Row]
      /\ [m \in Modules |-> {}] \in [Modules -> SUBSET Rules] /\ NoPage \in Pages
      /\ 0 \in 0..MaxSessions
  BY NoTxIsTx, NoRowIsRow, BoundsAssumption DEF Pages
<1>2. "idle" \in Kinds /\ "idle" \in Places /\ <<>> \in Seq(Scan) /\ <<>> \in Seq(Modules)
  BY DEF Kinds, Places
<1>3. NoSession \in Session
  BY <1>1, <1>2 DEF NoSession, Session
<1> QED BY <1>3 DEF NoSession

\* What a commit leaves as it is in the session's memory
Goes(p, q) ==
    /\ p.kind = q.kind /\ p.no = q.no /\ p.at = q.at
    /\ p.found = q.found /\ p.target = q.target /\ p.todo = q.todo
    /\ p.mem = q.mem /\ p.out = q.out /\ p.fresh = q.fresh /\ p.row = q.row
    /\ p.mods = q.mods /\ p.given = q.given /\ p.page = q.page

\* Sessions that differ in what they hold at most
Same(p, q) == Goes(p, q) /\ p.tx = q.tx /\ p.owes = q.owes

\* A session that holds H, and has C for itself
Holding(q, H, C) == [q EXCEPT !.holds = H, !.clean = C]

\* To change what a session holds changes nothing else of it
LEMMA NowHolds ==
    ASSUME NEW q \in Session, NEW H \in SUBSET Things, NEW C \in SUBSET Things
    PROVE  /\ Holding(q, H, C) \in Session /\ Same(Holding(q, H, C), q)
           /\ Holding(q, H, C).holds = H /\ Holding(q, H, C).clean = C
<1>1. Holding(q, H, C) \in Session
  BY DEF Session, Holding
<1>2. Same(Holding(q, H, C), q)
  BY DEF Session, Same, Goes, Holding
<1>3. Holding(q, H, C).holds = H /\ Holding(q, H, C).clean = C
  BY DEF Session, Holding
<1> QED BY <1>1, <1>2, <1>3

\* A session that has C for itself
Having(q, C) == [q EXCEPT !.clean = C]

\* To change what a session has for itself changes nothing else of it
LEMMA NowClean ==
    ASSUME NEW q \in Session, NEW C \in SUBSET Things
    PROVE  /\ Having(q, C) \in Session /\ Same(Having(q, C), q)
           /\ Having(q, C).holds = q.holds /\ Having(q, C).clean = C
<1>1. Having(q, C) \in Session
  BY DEF Session, Having
<1>2. Same(Having(q, C), q)
  BY DEF Session, Same, Goes, Having
<1>3. Having(q, C).holds = q.holds /\ Having(q, C).clean = C
  BY DEF Session, Having
<1> QED BY <1>1, <1>2, <1>3

\* What a session has and others do not have undisturbed any more
Disturbed(s, X) ==
    \A o \in Others(s) : /\ Same(sess'[o], sess[o])
                         /\ sess'[o].holds = sess[o].holds
                         /\ sess'[o].clean = sess[o].clean \ X

\* What a session holds and owes are things
LEMMA Holdings ==
    ASSUME Types, NEW s \in Slots
    PROVE  /\ sess[s] \in Session
           /\ sess[s].holds \subseteq Things /\ sess[s].clean \subseteq Things
           /\ sess[s].owes \subseteq Things /\ sess[s].tx \in Tx
           /\ HeldByOthers(s) \subseteq Things
<1>1. \A o \in Slots : sess[o] \in Session
  BY DEF Types
<1>2. \A q \in Session : q.holds \subseteq Things /\ q.clean \subseteq Things
                         /\ q.owes \subseteq Things /\ q.tx \in Tx
  BY DEF Session
<1>3. HeldByOthers(s) \subseteq Things
  BY <1>1, <1>2 DEF HeldByOthers, Others
<1> QED BY <1>1, <1>2, <1>3

\* What Take does: the others that hold X lose it, and X is in doubt if any does
LEMMA TakeEffect ==
    ASSUME Types, NEW s \in Slots, NEW q \in Session, NEW X \in SUBSET Things,
           Take(s, q, X)
    PROVE  /\ sess' \in [Slots -> Session] /\ Disturbed(s, X)
           /\ Same(sess'[s], q) /\ sess'[s].holds = q.holds \cup X
           /\ sess'[s].clean = q.clean \cup (X \ HeldByOthers(s))
           /\ doubt' = doubt \cup (X \cap HeldByOthers(s)) /\ doubt' \in SUBSET Things
<1> DEFINE H == q.holds \cup X
           C == q.clean \cup (X \ HeldByOthers(s))
           p == Holding(q, H, C)
           g(o) == Having(sess[o], sess[o].clean \ X)
<1>1. H \in SUBSET Things /\ C \in SUBSET Things
  BY DEF Session
<1>2. p \in Session /\ Same(p, q) /\ p.holds = H /\ p.clean = C
  BY <1>1, NowHolds
<1>3. \A o \in Slots : /\ g(o) \in Session /\ Same(g(o), sess[o])
                       /\ g(o).holds = sess[o].holds /\ g(o).clean = sess[o].clean \ X
  <2> SUFFICES ASSUME NEW o \in Slots
               PROVE  /\ g(o) \in Session /\ Same(g(o), sess[o])
                      /\ g(o).holds = sess[o].holds /\ g(o).clean = sess[o].clean \ X
    OBVIOUS
  <2>1. sess[o] \in Session /\ sess[o].clean \ X \in SUBSET Things
    BY Holdings
  <2> QED BY <2>1, NowClean
<1>4. /\ sess' = [o \in Slots |-> IF o = s THEN p ELSE g(o)]
      /\ doubt' = doubt \cup (X \cap HeldByOthers(s))
  BY Zenon DEF Take, Holding, Having
<1> HIDE DEF p, g
<1>5. sess' \in [Slots -> Session] /\ sess'[s] = p
      /\ \A o \in Others(s) : sess'[o] = g(o)
  BY <1>2, <1>3, <1>4 DEF Others
<1>6. Disturbed(s, X)
  BY <1>3, <1>5 DEF Disturbed, Others
<1>7. doubt' \in SUBSET Things
  BY <1>4, Holdings DEF Types, TablesTyped
<1> QED BY <1>2, <1>4, <1>5, <1>6, <1>7

\* What Disturb does: nobody has X for himself from then on
LEMMA DisturbEffect ==
    ASSUME Types, NEW s \in Slots, NEW q \in Session, NEW X \in SUBSET Things,
           Disturb(s, q, X)
    PROVE  /\ sess' \in [Slots -> Session] /\ Disturbed(s, X)
           /\ Same(sess'[s], q) /\ sess'[s].holds = q.holds
           /\ sess'[s].clean = q.clean \ X
           /\ doubt' = doubt \cup X /\ doubt' \in SUBSET Things
<1> DEFINE g(p) == Having(p, p.clean \ X)
<1>1. \A p \in Session : /\ g(p) \in Session /\ Same(g(p), p)
                         /\ g(p).holds = p.holds /\ g(p).clean = p.clean \ X
  <2> SUFFICES ASSUME NEW p \in Session
               PROVE  /\ g(p) \in Session /\ Same(g(p), p)
                      /\ g(p).holds = p.holds /\ g(p).clean = p.clean \ X
    OBVIOUS
  <2>1. p.clean \ X \in SUBSET Things
    BY DEF Session
  <2> QED BY <2>1, NowClean
<1>2. \A o \in Slots : sess[o] \in Session
  BY Holdings
<1>3. /\ sess' = [o \in Slots |-> g(IF o = s THEN q ELSE sess[o])]
      /\ doubt' = doubt \cup X
  BY Zenon DEF Disturb, Having
<1> HIDE DEF g
<1>4. sess' = [o \in Slots |-> IF o = s THEN g(q) ELSE g(sess[o])]
  BY <1>3
<1>5. sess' \in [Slots -> Session] /\ sess'[s] = g(q)
      /\ \A o \in Others(s) : sess'[o] = g(sess[o])
  BY <1>1, <1>2, <1>4 DEF Others
<1>6. Disturbed(s, X)
  BY <1>1, <1>2, <1>5 DEF Disturbed, Others
<1>7. doubt' \in SUBSET Things
  BY <1>3 DEF Types, TablesTyped
<1> QED BY <1>1, <1>3, <1>5, <1>6, <1>7

\* A transaction has the columns of its tables
LEMMA TxIs ==
    ASSUME NEW t \in Tx
    PROVE  /\ t.rules \in SUBSET Rules /\ t.gone \in SUBSET Conflict
           /\ t.made \in SUBSET Conflict /\ t.terms \in [Ids -> Parts(Row)]
           /\ t.pages \in [Modules -> PageParts]
BY DEF Tx

\* The tables as a session sees them
LEMMA Sees ==
    ASSUME Types, NEW s \in Slots
    PROVE  /\ SeenTerms(s) \in [Ids -> Row]
           /\ \A m \in Modules : SeenPage(s, m) \in Pages
           /\ SeenRules(s) \subseteq Rules
<1>1. sess[s].tx \in Tx
  BY Holdings
<1>2. /\ sess[s].tx.rules \in SUBSET Rules /\ sess[s].tx.terms \in [Ids -> Parts(Row)]
      /\ sess[s].tx.pages \in [Modules -> PageParts]
  BY <1>1, TxIs
<1>3. \A i \in Ids : Over(sess[s].tx.terms[i], terms[i]) \in Row
  BY <1>2, OverRow DEF Types, TablesTyped
<1>4. \A m \in Modules : SeenPage(s, m) \in Pages
  BY <1>2, OverPage DEF Types, TablesTyped, SeenPage
<1> QED BY <1>2, <1>3, <1>4 DEF SeenTerms, SeenRules, Types, TablesTyped

\* What is left of a session that commits and keeps what is in keep
Committed(q, keep, H) ==
    [q EXCEPT !.tx = NoTx, !.holds = @ \cap keep, !.clean = @ \cap keep,
              !.owes = @ \ H]

\* What is left of a session that commits
LEMMA NowCommitted ==
    ASSUME NEW q \in Session, NEW keep, NEW H
    PROVE  /\ Committed(q, keep, H) \in Session /\ Goes(Committed(q, keep, H), q)
           /\ Committed(q, keep, H).tx = NoTx
           /\ Committed(q, keep, H).owes = q.owes \ H
           /\ Committed(q, keep, H).holds = q.holds \cap keep
           /\ Committed(q, keep, H).clean = q.clean \cap keep
<1> DEFINE p == Committed(q, keep, H)
<1>1. /\ q.holds \cap keep \in SUBSET Things /\ q.clean \cap keep \in SUBSET Things
      /\ q.owes \ H \in SUBSET Things /\ NoTx \in Tx
  BY NoTxIsTx DEF Session
<1>2. p \in Session
  BY <1>1 DEF Session, Committed
<1>3. Goes(p, q)
  BY DEF Session, Goes, Committed
<1>4. p.tx = NoTx /\ p.owes = q.owes \ H
      /\ p.holds = q.holds \cap keep /\ p.clean = q.clean \cap keep
  BY DEF Session, Committed
<1> QED BY <1>2, <1>3, <1>4

\* The modules whose pages a commit of s puts out of date
Stale(s) == UNION {Homes[r] : r \in sess[s].tx.rules}

\* What Commit does: the tables become what the session sees
LEMMA CommitEffect ==
    ASSUME Types, NEW s \in Slots, NEW q \in Session, NEW keep, Commit(s, q, keep)
    PROVE  /\ sess' \in [Slots -> Session] /\ Disturbed(s, Stale(s))
           /\ Goes(sess'[s], q) /\ sess'[s].tx = NoTx
           /\ sess'[s].owes = q.owes \ sess[s].holds
           /\ sess'[s].holds = q.holds \cap keep
           /\ sess'[s].clean = q.clean \cap keep
           /\ doubt' = (doubt \ (sess[s].clean \ (keep \cup {"glossary"}))) \cup Stale(s)
           /\ rules' = rules \cup sess[s].tx.rules
           /\ conflicts' = (conflicts \ sess[s].tx.gone) \cup sess[s].tx.made
           /\ terms' = SeenTerms(s)
           /\ pages' = [m \in Modules |-> SeenPage(s, m)]
           /\ Stale(s) \in SUBSET Modules
           /\ TablesTyped'
<1> DEFINE p == Committed(q, keep, sess[s].holds)
           g(o) == Having(sess[o], sess[o].clean \ Stale(s))
<1>1. p \in Session /\ Goes(p, q) /\ p.tx = NoTx /\ p.owes = q.owes \ sess[s].holds
      /\ p.holds = q.holds \cap keep /\ p.clean = q.clean \cap keep
  BY NowCommitted
<1>2. \A o \in Slots : /\ g(o) \in Session /\ Same(g(o), sess[o])
                       /\ g(o).holds = sess[o].holds /\ g(o).clean = sess[o].clean \ Stale(s)
  <2> SUFFICES ASSUME NEW o \in Slots
               PROVE  /\ g(o) \in Session /\ Same(g(o), sess[o])
                      /\ g(o).holds = sess[o].holds /\ g(o).clean = sess[o].clean \ Stale(s)
    OBVIOUS
  <2>1. sess[o] \in Session /\ sess[o].clean \ Stale(s) \in SUBSET Things
    BY Holdings
  <2> QED BY <2>1, NowClean
<1>3. /\ rules' = rules \cup sess[s].tx.rules
      /\ conflicts' = (conflicts \ sess[s].tx.gone) \cup sess[s].tx.made
      /\ terms' = SeenTerms(s)
      /\ pages' = [m \in Modules |-> SeenPage(s, m)]
      /\ sess' = [o \in Slots |-> IF o = s THEN p ELSE g(o)]
      /\ doubt' = (doubt \ (sess[s].clean \ (keep \cup {"glossary"}))) \cup Stale(s)
  BY Zenon DEF Commit, Committed, Having, Stale
<1> HIDE DEF p, g
<1>4. sess' \in [Slots -> Session] /\ sess'[s] = p /\ \A o \in Others(s) : sess'[o] = g(o)
  BY <1>1, <1>2, <1>3 DEF Others
<1>5. Disturbed(s, Stale(s))
  BY <1>2, <1>4 DEF Disturbed, Others
<1>6. sess[s].tx \in Tx
  BY Holdings
<1>7. /\ sess[s].tx.rules \in SUBSET Rules /\ sess[s].tx.gone \in SUBSET Conflict
      /\ sess[s].tx.made \in SUBSET Conflict
  BY <1>6, TxIs
<1>8. Stale(s) \in SUBSET Modules
  BY <1>7, HomesAssumption DEF Stale
<1>9. Stale(s) \in SUBSET Things
  BY <1>8 DEF Things
<1>10. TablesTyped'
  BY <1>3, <1>7, <1>9, Sees DEF Types, TablesTyped
<1> QED BY <1>1, <1>3, <1>4, <1>5, <1>8, <1>10

-----------------------------------------------------------------------------
(* What the actions do: detections and scans *)

\* Two sessions with the same of the conflicts, the rows, the pages; that hold the same
SameConflicts(p, q) ==
    /\ p.no = q.no /\ p.found = q.found /\ p.target = q.target /\ p.owes = q.owes
    /\ p.tx.rules = q.tx.rules /\ p.tx.gone = q.tx.gone /\ p.tx.made = q.tx.made

SameRows(p, q) ==
    p.tx.terms = q.tx.terms /\ p.mem = q.mem /\ p.out = q.out

SamePages(p, q) ==
    /\ p.tx.pages = q.tx.pages /\ p.mods = q.mods
    /\ p.given = q.given /\ p.page = q.page

SameHolds(p, q) == p.holds = q.holds /\ p.clean = q.clean

\* What happens to the holdings of the others leaves their places as they are
LEMMA ReadyOthers ==
    ASSUME Types, NEW s \in Slots, NEW X, Disturbed(s, X)
    PROVE  \A o \in Others(s) : Ready(sess'[o])
<1>1. ASSUME NEW p, NEW q, Ready(p), Same(q, p), q.holds = p.holds, q.clean = p.clean \ X
      PROVE  Ready(q)
  BY <1>1 DEF Ready, Same, Goes
<1>2. \A o \in Slots : Ready(sess[o])
  BY DEF Types
<1> SUFFICES ASSUME NEW o \in Others(s) PROVE Ready(sess'[o])
  OBVIOUS
<1>3. /\ Ready(sess[o]) /\ Same(sess'[o], sess[o])
      /\ sess'[o].holds = sess[o].holds /\ sess'[o].clean = sess[o].clean \ X
  BY <1>2 DEF Disturbed, Others
<1> QED BY <1>1, <1>3

\* A step of s keeps the types if it leaves s and the tables well-typed
LEMMA TypesStep ==
    ASSUME Types, NEW s \in Slots, NEW X, Disturbed(s, X),
           sess' \in [Slots -> Session], Ready(sess'[s]), TablesTyped',
           started' \in 0..MaxSessions, losses' \in 0..MaxLosses
    PROVE  Types'
BY ReadyOthers DEF Types, Others

\* The session goes on as q, and nobody is disturbed
LEMMA GoOn ==
    ASSUME Types, NEW s \in Slots, NEW q \in Session, sess' = [sess EXCEPT ![s] = q]
    PROVE  sess' \in [Slots -> Session] /\ sess'[s] = q /\ Disturbed(s, {})
<1>1. sess \in [Slots -> Session]
  BY DEF Types
<1>2. sess' \in [Slots -> Session] /\ sess'[s] = q /\ \A o \in Others(s) : sess'[o] = sess[o]
  BY <1>1 DEF Others
<1> QED BY <1>2 DEF Disturbed, Same, Goes

\* Tables and counters that do not change keep their types
LEMMA Unchanged ==
    ASSUME Types, UNCHANGED <<Tables, Counts>>
    PROVE  /\ doubt' \in SUBSET Things => TablesTyped'
           /\ started' \in 0..MaxSessions /\ losses' \in 0..MaxLosses
           /\ rules' = rules /\ conflicts' = conflicts /\ terms' = terms /\ pages' = pages
BY DEF Types, TablesTyped, Tables, Counts

\* A detection finds pairs of rules
LEMMA FoundPairs == \A R, filed : Found(R, filed) \in SUBSET Pairs
BY ClashAssumption DEF Found

\* A detection reads the rules and works the conflicts out
LEMMA DetectReadEffect ==
    ASSUME Types, NEW s \in Slots, DetectRead(s)
    PROVE  /\ Types' /\ Disturbed(s, {"conflicts"})
           /\ sess[s].at = "detect" /\ sess'[s].at = "replace" /\ sess'[s].kind = sess[s].kind
           /\ \E filed \in Filings(SeenRules(s)) :
                 sess'[s].found = Found(SeenRules(s), filed)
           /\ sess'[s].no = sess[s].no /\ sess'[s].tx = sess[s].tx
           /\ sess'[s].owes = sess[s].owes /\ sess'[s].todo = sess[s].todo
           /\ SameRows(sess'[s], sess[s]) /\ SamePages(sess'[s], sess[s])
           /\ sess'[s].fresh = sess[s].fresh /\ sess'[s].row = sess[s].row
           /\ sess'[s].holds = sess[s].holds \cup {"conflicts"}
           /\ sess'[s].clean = sess[s].clean \cup ({"conflicts"} \ HeldByOthers(s))
           /\ doubt' = doubt \cup ({"conflicts"} \cap HeldByOthers(s))
           /\ UNCHANGED <<rules, conflicts, terms, pages, started, losses>>
<1>1. PICK filed \in Filings(SeenRules(s)) :
          Take(s, [sess[s] EXCEPT !.found = Found(SeenRules(s), filed), !.at = "replace"],
               {"conflicts"})
  BY DEF DetectRead
<1> DEFINE q == sess[s]
           F == Found(SeenRules(s), filed)
           q1 == [q EXCEPT !.found = F, !.at = "replace"]
<1>2. q \in Session /\ Ready(q)
  BY Holdings DEF Types
<1>3. F \in SUBSET Pairs /\ "replace" \in Places /\ {"conflicts"} \in SUBSET Things
  BY FoundPairs DEF Places, Things
<1> HIDE DEF q, F
<1>4. q1 \in Session
  BY <1>2, <1>3 DEF Session
<1>5. /\ q1.at = "replace" /\ q1.kind = q.kind /\ q1.found = F /\ q1.no = q.no
      /\ q1.tx = q.tx /\ q1.owes = q.owes /\ q1.todo = q.todo
      /\ q1.mem = q.mem /\ q1.out = q.out /\ q1.fresh = q.fresh /\ q1.row = q.row
      /\ q1.mods = q.mods /\ q1.given = q.given /\ q1.page = q.page
      /\ q1.holds = q.holds /\ q1.clean = q.clean
  BY <1>2 DEF Session
<1>6. Take(s, q1, {"conflicts"})
  BY <1>1 DEF q, F
<1> HIDE DEF q1
<1>7. /\ sess' \in [Slots -> Session] /\ Disturbed(s, {"conflicts"})
      /\ Same(sess'[s], q1) /\ sess'[s].holds = q1.holds \cup {"conflicts"}
      /\ sess'[s].clean = q1.clean \cup ({"conflicts"} \ HeldByOthers(s))
      /\ doubt' = doubt \cup ({"conflicts"} \cap HeldByOthers(s)) /\ doubt' \in SUBSET Things
  BY <1>3, <1>4, <1>6, TakeEffect
<1>8. UNCHANGED <<Tables, Counts>> /\ q.at = "detect"
  BY DEF DetectRead, q
<1>9. Ready(sess'[s])
  BY <1>2, <1>5, <1>7, <1>8 DEF Ready, Same, Goes
<1>10. Types'
  BY <1>7, <1>8, <1>9, Unchanged, TypesStep
<1> QED
  BY <1>5, <1>7, <1>8, <1>10, Unchanged DEF Same, Goes, q, F, SameRows, SamePages, Tables, Counts

\* The rows a detection inserts
MadeBy(q) == {[pair |-> p, by |-> q.no] : p \in q.found}

\* A transaction that has deleted and inserted conflicts
GoneMade(t, gone, made) == [t EXCEPT !.gone = gone, !.made = made]

\* To write conflicts changes nothing else of a transaction
LEMMA NowGone ==
    ASSUME NEW t \in Tx, NEW gone \in SUBSET Conflict, NEW made \in SUBSET Conflict
    PROVE  /\ GoneMade(t, gone, made) \in Tx
           /\ GoneMade(t, gone, made).gone = gone /\ GoneMade(t, gone, made).made = made
           /\ GoneMade(t, gone, made).rules = t.rules
           /\ GoneMade(t, gone, made).terms = t.terms
           /\ GoneMade(t, gone, made).pages = t.pages
BY DEF Tx, GoneMade

\* What a session is once it has replaced the conflicts
LEMMA NowReplaced ==
    ASSUME NEW q \in Session, NEW seen \in SUBSET Conflict, Ready(q),
           q.at \in {"replace", "blocked"}
    PROVE  /\ Replacing(q, seen) \in Session /\ Ready(Replacing(q, seen))
           /\ Replacing(q, seen).kind = q.kind /\ Replacing(q, seen).at \in {"end", "scan"}
           /\ Replacing(q, seen).at = "end" => q.kind = "migrate"
           /\ Replacing(q, seen).no = q.no /\ Replacing(q, seen).owes = q.owes
           /\ Replacing(q, seen).found = {} /\ Replacing(q, seen).todo = q.todo
           /\ Replacing(q, seen).tx.rules = q.tx.rules
           /\ Replacing(q, seen).tx.gone = seen
           /\ Replacing(q, seen).tx.made = MadeBy(q)
           /\ SameRows(Replacing(q, seen), q) /\ SamePages(Replacing(q, seen), q)
           /\ Replacing(q, seen).fresh = q.fresh /\ Replacing(q, seen).row = q.row
           /\ SameHolds(Replacing(q, seen), q)
<1> DEFINE t == GoneMade(q.tx, seen, MadeBy(q))
           a == AfterDetection(q)
           p == [q EXCEPT !.tx = t, !.found = {}, !.target = {}, !.at = a]
<1>1. MadeBy(q) \in SUBSET Conflict
  BY DEF MadeBy, Conflict, Session
<1>2. q.tx \in Tx
  BY DEF Session
<1>3. /\ t \in Tx /\ t.gone = seen /\ t.made = MadeBy(q) /\ t.rules = q.tx.rules
      /\ t.terms = q.tx.terms /\ t.pages = q.tx.pages
  BY <1>1, <1>2, NowGone
<1>4. Replacing(q, seen) = p
  BY <1>2 DEF Replacing, Replaced, MadeBy, GoneMade, Session, Tx
<1>5. a \in Places /\ a \in {"end", "scan"} /\ (q.kind # "migrate" => a = "scan")
      /\ (q.kind = "migrate" => a = "end")
  BY DEF AfterDetection, Places
<1> HIDE DEF t, a
<1>6. p \in Session
  BY <1>3, <1>5 DEF Session
<1>7. /\ p.kind = q.kind /\ p.at = a /\ p.no = q.no /\ p.owes = q.owes /\ p.found = {}
      /\ p.todo = q.todo /\ p.tx = t /\ p.mem = q.mem /\ p.out = q.out
      /\ p.fresh = q.fresh /\ p.row = q.row /\ p.mods = q.mods /\ p.given = q.given
      /\ p.page = q.page /\ p.holds = q.holds /\ p.clean = q.clean
  BY DEF Session
<1> HIDE DEF p
<1>8. Ready(p)
  BY <1>5, <1>7 DEF Ready, ScanKinds
<1> QED BY <1>3, <1>4, <1>5, <1>6, <1>7, <1>8 DEF SameRows, SamePages, SameHolds

\* A step that leaves tables, counters and doubt as they are
LEMMA GoOnTypes ==
    ASSUME Types, NEW s \in Slots, NEW q \in Session, Ready(q),
           sess' = [sess EXCEPT ![s] = q], UNCHANGED <<Tables, Counts, doubt>>
    PROVE  /\ Types' /\ Disturbed(s, {}) /\ sess'[s] = q
           /\ UNCHANGED <<rules, conflicts, terms, pages, started, losses, doubt>>
<1>1. sess' \in [Slots -> Session] /\ sess'[s] = q /\ Disturbed(s, {})
  BY GoOn
<1>2. UNCHANGED <<rules, conflicts, terms, pages, started, losses, doubt>>
  BY DEF Tables, Counts
<1>3. TablesTyped' /\ started' \in 0..MaxSessions /\ losses' \in 0..MaxLosses
  BY <1>2 DEF Types, TablesTyped
<1> QED BY <1>1, <1>2, <1>3, TypesStep

\* The conflicts are replaced, at once or after a wait for the lock
LEMMA ReplaceEffect ==
    ASSUME Types, NEW s \in Slots, ReplaceConflicts(s) \/ ReplaceAfterWait(s)
    PROVE  /\ Types' /\ Disturbed(s, {})
           /\ sess[s].at \in {"replace", "blocked"} /\ sess'[s].at \in {"end", "scan"}
           /\ sess'[s].at = "end" => sess[s].kind = "migrate"
           /\ sess'[s].kind = sess[s].kind
           /\ sess'[s].no = sess[s].no /\ sess'[s].owes = sess[s].owes
           /\ sess'[s].found = {} /\ sess'[s].todo = sess[s].todo
           /\ sess'[s].tx.rules = sess[s].tx.rules
           /\ sess[s].at = "replace" => sess'[s].tx.gone = conflicts
           /\ sess'[s].tx.made = MadeBy(sess[s])
           /\ SameRows(sess'[s], sess[s]) /\ SamePages(sess'[s], sess[s])
           /\ sess'[s].fresh = sess[s].fresh /\ sess'[s].row = sess[s].row
           /\ SameHolds(sess'[s], sess[s])
           /\ UNCHANGED <<rules, conflicts, terms, pages, started, losses, doubt>>
<1>1. sess[s] \in Session /\ Ready(sess[s]) /\ sess \in [Slots -> Session]
  BY Holdings DEF Types
<1>2. sess[s].at \in {"replace", "blocked"} /\ UNCHANGED <<Tables, Counts, doubt>>
  BY DEF ReplaceConflicts, ReplaceAfterWait
<1>3. PICK seen \in SUBSET Conflict :
         /\ sess' = [sess EXCEPT ![s] = Replacing(sess[s], seen)]
         /\ sess[s].at = "replace" => seen = conflicts
  <2>1. CASE ReplaceConflicts(s)
    <3>1. sess' = [sess EXCEPT ![s] = Replacing(sess[s], conflicts)]
      BY <2>1, <1>1 DEF ReplaceConflicts
    <3> QED BY <3>1 DEF Types, TablesTyped
  <2>2. CASE ReplaceAfterWait(s)
    <3>1. sess' = [sess EXCEPT ![s] = Replacing(sess[s], sess[s].target \cap conflicts)]
      BY <2>2, <1>1 DEF ReplaceAfterWait
    <3> QED BY <2>2, <3>1 DEF Types, TablesTyped, ReplaceAfterWait
  <2> QED BY <2>1, <2>2
<1> DEFINE p == Replacing(sess[s], seen)
<1>4. /\ p \in Session /\ Ready(p)
      /\ p.kind = sess[s].kind /\ p.at \in {"end", "scan"}
      /\ p.at = "end" => sess[s].kind = "migrate"
      /\ p.no = sess[s].no /\ p.owes = sess[s].owes
      /\ p.found = {} /\ p.todo = sess[s].todo
      /\ p.tx.rules = sess[s].tx.rules /\ p.tx.gone = seen
      /\ p.tx.made = MadeBy(sess[s])
      /\ SameRows(p, sess[s]) /\ SamePages(p, sess[s])
      /\ p.fresh = sess[s].fresh /\ p.row = sess[s].row /\ SameHolds(p, sess[s])
  BY <1>1, <1>2, NowReplaced
<1> HIDE DEF p
<1>5. sess' = [sess EXCEPT ![s] = p]
  BY <1>3 DEF p
<1>6. /\ Types' /\ Disturbed(s, {}) /\ sess'[s] = p
      /\ UNCHANGED <<rules, conflicts, terms, pages, started, losses, doubt>>
  BY <1>2, <1>4, <1>5, GoOnTypes
<1> QED BY <1>2, <1>3, <1>4, <1>6

\* A replacement waits for the lock on rows another has deleted
LEMMA WaitEffect ==
    ASSUME Types, NEW s \in Slots, WaitToReplace(s)
    PROVE  /\ Types' /\ Disturbed(s, {})
           /\ sess[s].at = "replace" /\ sess'[s].at = "blocked"
           /\ LockedConflicts(s) # {}
           /\ sess'[s].kind = sess[s].kind /\ sess'[s].no = sess[s].no
           /\ sess'[s].owes = sess[s].owes /\ sess'[s].found = sess[s].found
           /\ sess'[s].todo = sess[s].todo /\ sess'[s].tx = sess[s].tx
           /\ SameRows(sess'[s], sess[s]) /\ SamePages(sess'[s], sess[s])
           /\ sess'[s].fresh = sess[s].fresh /\ sess'[s].row = sess[s].row
           /\ SameHolds(sess'[s], sess[s])
           /\ UNCHANGED <<rules, conflicts, terms, pages, started, losses, doubt>>
<1> DEFINE q == sess[s]
           p == [q EXCEPT !.target = conflicts, !.at = "blocked"]
<1>1. q \in Session /\ Ready(q) /\ sess \in [Slots -> Session] /\ conflicts \in SUBSET Conflict
  BY Holdings DEF Types, TablesTyped
<1>2. q.at = "replace" /\ UNCHANGED <<Tables, Counts, doubt>> /\ LockedConflicts(s) # {}
  BY DEF WaitToReplace
<1>3. sess' = [sess EXCEPT ![s] = p]
  BY <1>1 DEF WaitToReplace, Session
<1> HIDE DEF q
<1>4. p \in Session
  BY <1>1 DEF Session, Places
<1>5. /\ p.kind = q.kind /\ p.at = "blocked" /\ p.no = q.no /\ p.owes = q.owes
      /\ p.found = q.found
      /\ p.todo = q.todo /\ p.tx = q.tx /\ p.mem = q.mem /\ p.out = q.out
      /\ p.fresh = q.fresh /\ p.row = q.row /\ p.mods = q.mods /\ p.given = q.given
      /\ p.page = q.page /\ p.holds = q.holds /\ p.clean = q.clean
  BY <1>1 DEF Session
<1> HIDE DEF p
<1>6. Ready(p)
  BY <1>1, <1>2, <1>5 DEF Ready, ScanKinds
<1>7. /\ Types' /\ Disturbed(s, {}) /\ sess'[s] = p
      /\ UNCHANGED <<rules, conflicts, terms, pages, started, losses, doubt>>
  BY <1>2, <1>3, <1>4, <1>6, GoOnTypes
<1> QED BY <1>2, <1>5, <1>7 DEF q, SameRows, SamePages, SameHolds

\* A scan loads the glossary and works on its copy
LEMMA ScanReadEffect ==
    ASSUME Types, NEW s \in Slots, ScanRead(s)
    PROVE  /\ Types' /\ Disturbed(s, {"glossary"})
           /\ sess[s].at = "scan" /\ sess'[s].at = "flush"
           /\ sess[s].kind \in ScanKinds /\ sess'[s].kind = sess[s].kind
           /\ sess'[s].mem = SeenTerms(s)
           /\ Head(sess[s].todo) \in Scan /\ sess'[s].todo = Tail(sess[s].todo)
           /\ sess'[s].out \in Scans(SeenTerms(s), Head(sess[s].todo)[2], Head(sess[s].todo)[1],
                                    FreeIds \ Exists(SeenTerms(s)))
           /\ Scanned(SeenTerms(s), sess'[s].out, FreeIds \ Exists(SeenTerms(s)))
           /\ SameConflicts(sess'[s], sess[s]) /\ sess'[s].tx = sess[s].tx
           /\ SamePages(sess'[s], sess[s])
           /\ sess'[s].fresh = sess[s].fresh /\ sess'[s].row = sess[s].row
           /\ sess'[s].holds = sess[s].holds \cup {"glossary"}
           /\ sess'[s].clean = sess[s].clean \cup ({"glossary"} \ HeldByOthers(s))
           /\ doubt' = doubt \cup ({"glossary"} \cap HeldByOthers(s))
           /\ UNCHANGED <<rules, conflicts, terms, pages, started, losses>>
<1> DEFINE free == FreeIds \ Exists(SeenTerms(s))
           q == sess[s]
           M == SeenTerms(s)
<1>1. PICK out \in Scans(SeenTerms(s), Head(q.todo)[2], Head(q.todo)[1], free) :
          Take(s, [q EXCEPT !.mem = SeenTerms(s), !.out = out, !.todo = Tail(@), !.at = "flush"],
               {"glossary"})
  BY DEF ScanRead
<1>2. q \in Session /\ Ready(q) /\ q.at = "scan" /\ UNCHANGED <<Tables, Counts>>
  BY Holdings DEF Types, ScanRead
<1>3. q.todo \in Seq(Scan) /\ q.todo # <<>> /\ q.kind \in ScanKinds
  BY <1>2 DEF Session, Ready
<1>4. Head(q.todo) \in Scan /\ Tail(q.todo) \in Seq(Scan)
  BY <1>3
<1>5. Head(q.todo)[1] \in Names /\ Head(q.todo)[2] \in Seq(Terms)
  BY <1>4 DEF Scan, Texts
<1>6. free \in SUBSET Ids /\ M \in [Ids -> Row]
  BY Sees DEF FreeIds
<1>7. Scanned(M, out, free)
  BY <1>1, <1>5, <1>6, ScansExtend
<1>8. out \in [Ids -> Row] /\ {"glossary"} \in SUBSET Things
  BY <1>7 DEF Scanned, Things
<1> DEFINE p == [q EXCEPT !.mem = M, !.out = out, !.todo = Tail(q.todo), !.at = "flush"]
<1> HIDE DEF q, M, free
<1>9. p \in Session
  BY <1>2, <1>4, <1>6, <1>8 DEF Session, Places
<1>10. /\ p.kind = q.kind /\ p.at = "flush" /\ p.no = q.no /\ p.owes = q.owes
       /\ p.found = q.found /\ p.target = q.target
       /\ p.todo = Tail(q.todo) /\ p.tx = q.tx /\ p.mem = M /\ p.out = out
       /\ p.fresh = q.fresh /\ p.row = q.row /\ p.mods = q.mods /\ p.given = q.given
       /\ p.page = q.page /\ p.holds = q.holds /\ p.clean = q.clean
  BY <1>2 DEF Session
<1>11. Take(s, p, {"glossary"})
  BY <1>1, <1>2 DEF q, M, Session
<1> HIDE DEF p
<1>12. /\ sess' \in [Slots -> Session] /\ Disturbed(s, {"glossary"})
       /\ Same(sess'[s], p) /\ sess'[s].holds = p.holds \cup {"glossary"}
       /\ sess'[s].clean = p.clean \cup ({"glossary"} \ HeldByOthers(s))
       /\ doubt' = doubt \cup ({"glossary"} \cap HeldByOthers(s)) /\ doubt' \in SUBSET Things
  BY <1>8, <1>9, <1>11, TakeEffect
<1>13. Ready(sess'[s])
  BY <1>2, <1>3, <1>10, <1>12 DEF Ready, Same, Goes, ScanKinds
<1>14. Types'
  BY <1>2, <1>12, <1>13, Unchanged, TypesStep
<1> QED
  BY <1>1, <1>2, <1>3, <1>4, <1>7, <1>10, <1>12, <1>14, Unchanged
     DEF Same, Goes, q, M, free, SameConflicts, SamePages, Tables, Counts

\* A transaction that has set columns of terms
TermsSet(t, x) == [t EXCEPT !.terms = x]

\* To write terms changes nothing else of a transaction
LEMMA NowTerms ==
    ASSUME NEW t \in Tx, NEW x \in [Ids -> Parts(Row)]
    PROVE  /\ TermsSet(t, x) \in Tx /\ TermsSet(t, x).terms = x
           /\ TermsSet(t, x).gone = t.gone /\ TermsSet(t, x).made = t.made
           /\ TermsSet(t, x).rules = t.rules /\ TermsSet(t, x).pages = t.pages
BY DEF Tx, TermsSet

\* A session goes on to define the rows F
LEMMA NowToDefine ==
    ASSUME NEW q \in Session, NEW F \in SUBSET Ids
    PROVE  /\ ToDefine(q, F) \in Session /\ ToDefine(q, F).fresh = F
           /\ ToDefine(q, F).row = None
           /\ F # {} => ToDefine(q, F).at = "infer"
           /\ F = {} => /\ ToDefine(q, F).at \in {"passes done", "scan", "end"}
                        /\ ToDefine(q, F).at = "passes done" => q.kind = "batch"
                        /\ ToDefine(q, F).at = "end" => q.kind # "batch"
                        /\ ToDefine(q, F).at = "scan" => q.todo # <<>>
                        /\ q.kind \in {"patch", "judge"} /\ q.todo = <<>> => ToDefine(q, F).at = "end"
           /\ ToDefine(q, F).kind = q.kind /\ SameConflicts(ToDefine(q, F), q)
           /\ ToDefine(q, F).tx = q.tx /\ ToDefine(q, F).todo = q.todo
           /\ SameRows(ToDefine(q, F), q) /\ SamePages(ToDefine(q, F), q)
           /\ SameHolds(ToDefine(q, F), q)
<1> DEFINE a == IF F = {} THEN AfterScan(q) ELSE "infer"
           p == [q EXCEPT !.fresh = F, !.row = None, !.at = a]
<1>1. /\ a \in Places /\ (F # {} => a = "infer")
      /\ F = {} => /\ a \in {"passes done", "scan", "end"}
                   /\ a = "passes done" => q.kind = "batch"
                   /\ a = "end" => q.kind # "batch"
                   /\ a = "scan" => q.todo # <<>>
                   /\ q.kind \in {"patch", "judge"} /\ q.todo = <<>> => a = "end"
  BY DEF AfterScan, Places
<1>2. ToDefine(q, F) = p
  BY DEF ToDefine
<1> HIDE DEF a
<1>3. p \in Session
  BY <1>1 DEF Session
<1>4. /\ p.kind = q.kind /\ p.at = a /\ p.no = q.no /\ p.owes = q.owes
      /\ p.found = q.found /\ p.target = q.target
      /\ p.todo = q.todo /\ p.tx = q.tx /\ p.mem = q.mem /\ p.out = q.out
      /\ p.fresh = F /\ p.row = None /\ p.mods = q.mods /\ p.given = q.given
      /\ p.page = q.page /\ p.holds = q.holds /\ p.clean = q.clean
  BY DEF Session
<1> HIDE DEF p
<1> QED BY <1>1, <1>2, <1>3, <1>4 DEF SameConflicts, SameRows, SamePages, SameHolds

\* The rows a flush of q leaves to be defined
Undefined(q) == IF q.kind \in {"patch", "judge"} THEN {}
                ELSE {i \in Newborn(q) : q.out[i].text = None}

\* The columns a session has set once it has flushed its rows
Merged(q) == [i \in Ids |-> Over(Changed(q.mem[i], q.out[i]), q.tx.terms[i])]

\* The rows that differ from what was loaded are written
LEMMA FlushEffect ==
    ASSUME Types, NEW s \in Slots, FlushTerms(s)
    PROVE  /\ Types' /\ Disturbed(s, Undefined(sess[s]))
           /\ sess[s].at = "flush" /\ sess'[s].kind = sess[s].kind
           /\ sess'[s].at \in {"infer", "passes done", "scan", "end"}
           /\ sess'[s].at = "end" => sess[s].kind # "batch"
           /\ Dirty(sess[s]) \cap LockedTerms(s) = {}
           /\ sess'[s].fresh = Undefined(sess[s]) /\ sess'[s].row = None
           /\ sess'[s].todo = sess[s].todo
           /\ sess'[s].tx.terms = Merged(sess[s])
           /\ sess'[s].mem = sess[s].out /\ sess'[s].out = sess[s].out
           /\ SameConflicts(sess'[s], sess[s]) /\ SamePages(sess'[s], sess[s])
           /\ sess'[s].holds = sess[s].holds \cup Undefined(sess[s])
           /\ sess'[s].clean = sess[s].clean \cup (Undefined(sess[s]) \ HeldByOthers(s))
           /\ doubt' = doubt \cup (Undefined(sess[s]) \cap HeldByOthers(s))
           /\ UNCHANGED <<rules, conflicts, terms, pages, started, losses>>
<1> DEFINE q == sess[s]
           F == Undefined(q)
           t == TermsSet(q.tx, Merged(q))
           r == ToDefine(q, F)
           p == [r EXCEPT !.tx = t, !.mem = q.out]
<1>1. q \in Session /\ Ready(q) /\ q.at = "flush" /\ UNCHANGED <<Tables, Counts>>
      /\ Dirty(q) \cap LockedTerms(s) = {}
  BY Holdings DEF Types, FlushTerms
<1>2. /\ q.mem \in [Ids -> Row] /\ q.out \in [Ids -> Row] /\ q.tx \in Tx
      /\ q.kind \in ScanKinds \cup {"patch", "judge"}
      /\ (q.kind \in {"patch", "judge"} => q.todo = <<>>) /\ q.clean \subseteq q.holds
  BY <1>1 DEF Session, Ready
<1>3. F \in SUBSET Ids /\ F \in SUBSET Things /\ (q.kind \in {"patch", "judge"} => F = {})
  BY DEF Undefined, Newborn, Dirty, Things
<1>4. Merged(q) \in [Ids -> Parts(Row)]
  <2> SUFFICES ASSUME NEW i \in Ids
               PROVE  Over(Changed(q.mem[i], q.out[i]), q.tx.terms[i]) \in Parts(Row)
    BY DEF Merged
  <2>1. Changed(q.mem[i], q.out[i]) \in Parts(Row)
    BY <1>2, ChangedRow
  <2>2. q.tx.terms[i] \in Parts(Row)
    BY <1>2, TxIs
  <2> QED BY <2>1, <2>2, OverParts
<1>5. /\ t \in Tx /\ t.terms = Merged(q) /\ t.gone = q.tx.gone /\ t.made = q.tx.made
      /\ t.rules = q.tx.rules /\ t.pages = q.tx.pages
  BY <1>2, <1>4, NowTerms
<1>6. /\ r \in Session /\ r.fresh = F /\ r.row = None
      /\ F # {} => r.at = "infer"
      /\ F = {} => /\ r.at \in {"passes done", "scan", "end"}
                   /\ r.at = "passes done" => q.kind = "batch"
                   /\ r.at = "end" => q.kind # "batch"
                   /\ r.at = "scan" => q.todo # <<>>
                   /\ q.kind \in {"patch", "judge"} /\ q.todo = <<>> => r.at = "end"
      /\ r.kind = q.kind /\ SameConflicts(r, q) /\ r.tx = q.tx /\ r.todo = q.todo
      /\ SameRows(r, q) /\ SamePages(r, q) /\ SameHolds(r, q)
  BY <1>1, <1>3, NowToDefine
<1>7. Take(s, [r EXCEPT !.tx.terms = Merged(q), !.mem = q.out], F)
  BY Zenon DEF FlushTerms, Merged, Undefined
<1> HIDE DEF q, F, r
<1>8. [r EXCEPT !.tx.terms = Merged(q), !.mem = q.out] = p
  BY <1>6 DEF Session, TermsSet
<1> HIDE DEF t
<1>9. p \in Session
  BY <1>2, <1>5, <1>6 DEF Session
<1>10. /\ p.kind = r.kind /\ p.at = r.at /\ p.no = r.no /\ p.owes = r.owes
       /\ p.found = r.found /\ p.target = r.target
       /\ p.todo = r.todo /\ p.tx = t /\ p.mem = q.out /\ p.out = r.out
       /\ p.fresh = r.fresh /\ p.row = r.row /\ p.mods = r.mods /\ p.given = r.given
       /\ p.page = r.page /\ p.holds = r.holds /\ p.clean = r.clean
  BY <1>6 DEF Session
<1> HIDE DEF p
<1>11. Take(s, p, F)
  BY <1>7, <1>8
<1>12. /\ sess' \in [Slots -> Session] /\ Disturbed(s, F)
       /\ Same(sess'[s], p) /\ sess'[s].holds = p.holds \cup F
       /\ sess'[s].clean = p.clean \cup (F \ HeldByOthers(s))
       /\ doubt' = doubt \cup (F \cap HeldByOthers(s)) /\ doubt' \in SUBSET Things
  BY <1>3, <1>9, <1>11, TakeEffect
<1>13. Ready(sess'[s])
  BY <1>2, <1>3, <1>6, <1>10, <1>12 DEF Ready, Same, Goes, ScanKinds, SameHolds
<1>14. Types'
  BY <1>1, <1>12, <1>13, Unchanged, TypesStep
<1>15. /\ sess'[s].kind = q.kind /\ sess'[s].at \in {"infer", "passes done", "scan", "end"}
       /\ sess'[s].at = "end" => q.kind # "batch"
       /\ sess'[s].fresh = F /\ sess'[s].row = None /\ sess'[s].todo = q.todo
       /\ sess'[s].tx.terms = Merged(q) /\ sess'[s].mem = q.out /\ sess'[s].out = q.out
       /\ sess'[s].holds = q.holds \cup F
       /\ sess'[s].clean = q.clean \cup (F \ HeldByOthers(s))
  BY <1>5, <1>6, <1>10, <1>12 DEF Same, Goes, SameHolds, SameRows
<1>16. SameConflicts(sess'[s], q) /\ SamePages(sess'[s], q)
  BY <1>5, <1>6, <1>10, <1>12 DEF Same, Goes, SameConflicts, SamePages
<1> QED
  BY <1>1, <1>12, <1>14, <1>15, <1>16, Unchanged DEF q, F, Tables, Counts

\* What a commit of s does to the others and to the tables
Commits(s, keep) ==
    /\ Disturbed(s, Stale(s))
    /\ sess'[s].tx = NoTx
    /\ sess'[s].holds \subseteq sess[s].holds \cap keep
    /\ sess'[s].clean \subseteq sess[s].clean \cap keep
    /\ doubt' = (doubt \ (sess[s].clean \ (keep \cup {"glossary"}))) \cup Stale(s)
    /\ rules' = rules \cup sess[s].tx.rules
    /\ conflicts' = (conflicts \ sess[s].tx.gone) \cup sess[s].tx.made
    /\ terms' = SeenTerms(s)
    /\ pages' = [m \in Modules |-> SeenPage(s, m)]
    /\ Stale(s) \in SUBSET Modules
    /\ UNCHANGED <<started, losses>>

\* A session has nothing to define in the row that comes next, ...
LEMMA InferSkipEffect ==
    ASSUME Types, NEW s \in Slots, NEW i \in FirstOf(sess[s].fresh), sess[s].at = "infer",
           sess' = [sess EXCEPT ![s] = ToDefine(sess[s], sess[s].fresh \ {i})],
           UNCHANGED <<Tables, Counts, doubt>>
    PROVE  /\ Types' /\ Disturbed(s, {}) /\ sess'[s].kind = sess[s].kind
           /\ sess'[s].at \in {"infer", "passes done", "scan", "end"}
           /\ sess'[s].at = "end" => sess[s].kind # "batch"
           /\ sess'[s].fresh \subseteq sess[s].fresh /\ sess'[s].row = None
           /\ sess'[s].todo = sess[s].todo
           /\ SameConflicts(sess'[s], sess[s]) /\ SameRows(sess'[s], sess[s])
           /\ SamePages(sess'[s], sess[s]) /\ SameHolds(sess'[s], sess[s])
           /\ UNCHANGED <<rules, conflicts, terms, pages, started, losses, doubt>>
<1> DEFINE q == sess[s]
           F == q.fresh \ {i}
           p == ToDefine(q, F)
<1>1. q \in Session /\ Ready(q) /\ F \in SUBSET Ids /\ q.at = "infer" /\ F \subseteq q.fresh
  BY Holdings DEF Types, Session
<1> HIDE DEF q, F
<1>2. /\ p \in Session /\ p.fresh = F /\ p.row = None
      /\ F # {} => p.at = "infer"
      /\ F = {} => /\ p.at \in {"passes done", "scan", "end"}
                   /\ p.at = "passes done" => q.kind = "batch"
                   /\ p.at = "end" => q.kind # "batch"
                   /\ p.at = "scan" => q.todo # <<>>
      /\ p.kind = q.kind /\ SameConflicts(p, q) /\ p.tx = q.tx /\ p.todo = q.todo
      /\ SameRows(p, q) /\ SamePages(p, q) /\ SameHolds(p, q)
  BY <1>1, NowToDefine
<1> HIDE DEF p
<1>3. Ready(p)
  BY <1>1, <1>2 DEF Ready, ScanKinds, SameHolds
<1>4. sess' = [sess EXCEPT ![s] = p]
  BY DEF p, q, F
<1>5. /\ Types' /\ Disturbed(s, {}) /\ sess'[s] = p
      /\ UNCHANGED <<rules, conflicts, terms, pages, started, losses, doubt>>
  BY <1>2, <1>3, <1>4, GoOnTypes
<1> QED BY <1>1, <1>2, <1>5 DEF q

\* ... or commits and has it defined
LEMMA InferCommitEffect ==
    ASSUME Types, NEW s \in Slots, NEW i \in FirstOf(sess[s].fresh), sess[s].at = "infer",
           Commit(s, [sess[s] EXCEPT !.row = i, !.fresh = @ \ {i}, !.at = "define"],
                  sess[s].fresh), UNCHANGED Counts
    PROVE  /\ Types' /\ Commits(s, sess[s].fresh)
           /\ sess[s].kind \in ScanKinds
           /\ sess'[s].holds = sess[s].holds \cap sess[s].fresh
           /\ sess'[s].clean = sess[s].clean \cap sess[s].fresh
           /\ sess'[s].kind = sess[s].kind /\ sess'[s].no = sess[s].no
           /\ sess'[s].at = "define"
           /\ sess'[s].row = i /\ i \in sess[s].fresh
           /\ sess'[s].fresh = sess[s].fresh \ {i}
           /\ sess'[s].found = sess[s].found
           /\ sess'[s].owes = sess[s].owes \ sess[s].holds
           /\ sess'[s].mem = sess[s].mem /\ sess'[s].out = sess[s].out
           /\ sess'[s].mods = sess[s].mods /\ sess'[s].given = sess[s].given
           /\ sess'[s].page = sess[s].page
<1> DEFINE q == sess[s]
           F == q.fresh
           p == [q EXCEPT !.row = i, !.fresh = F \ {i}, !.at = "define"]
<1>1. q \in Session /\ Ready(q) /\ F \in SUBSET Ids /\ q.at = "infer"
  BY Holdings DEF Types, Session
<1>2. i \in F
  BY DEF FirstOf
<1>3. Commit(s, p, F)
  BY <1>1 DEF Session
<1> HIDE DEF q, F
<1>4. p \in Session
  BY <1>1, <1>2 DEF Session, Places
<1>5. /\ p.kind = q.kind /\ p.at = "define" /\ p.no = q.no /\ p.owes = q.owes
      /\ p.found = q.found /\ p.target = q.target
      /\ p.todo = q.todo /\ p.tx = q.tx /\ p.mem = q.mem /\ p.out = q.out
      /\ p.fresh = F \ {i} /\ p.row = i /\ p.mods = q.mods /\ p.given = q.given
      /\ p.page = q.page /\ p.holds = q.holds /\ p.clean = q.clean
  BY <1>1 DEF Session
<1> HIDE DEF p
<1>6. /\ sess' \in [Slots -> Session] /\ Disturbed(s, Stale(s))
      /\ Goes(sess'[s], p) /\ sess'[s].tx = NoTx
      /\ sess'[s].owes = p.owes \ sess[s].holds
      /\ sess'[s].holds = p.holds \cap F
      /\ sess'[s].clean = p.clean \cap F
      /\ doubt' = (doubt \ (sess[s].clean \ (F \cup {"glossary"}))) \cup Stale(s)
      /\ rules' = rules \cup sess[s].tx.rules
      /\ conflicts' = (conflicts \ sess[s].tx.gone) \cup sess[s].tx.made
      /\ terms' = SeenTerms(s)
      /\ pages' = [m \in Modules |-> SeenPage(s, m)]
      /\ Stale(s) \in SUBSET Modules
      /\ TablesTyped'
  BY <1>3, <1>4, CommitEffect
<1>7. Ready(sess'[s])
  BY <1>1, <1>2, <1>5, <1>6 DEF Ready, Goes, ScanKinds
<1>8. UNCHANGED <<started, losses>> /\ started' \in 0..MaxSessions /\ losses' \in 0..MaxLosses
  BY DEF Types, Counts
<1>9. Types'
  BY <1>6, <1>7, <1>8, TypesStep
<1>10. Commits(s, F)
  BY <1>5, <1>6, <1>8 DEF Commits, q
<1>11. q.kind \in ScanKinds
  BY <1>1 DEF Ready
<1> QED BY <1>2, <1>5, <1>6, <1>9, <1>10, <1>11 DEF q, F, Goes

\* After a row has been defined, or not
LEMMA NowAfterDefine ==
    ASSUME NEW q \in Session, Ready(q), q.at = "define"
    PROVE  /\ AfterDefine(q) \in Session
           /\ AfterDefine(q).at \in {"infer", "passes done", "scan", "end"}
           /\ AfterDefine(q).at = "infer" => q.fresh # {} /\ q.kind \in ScanKinds
           /\ AfterDefine(q).at = "passes done" => q.kind = "batch"
           /\ AfterDefine(q).at = "end" => q.kind # "batch"
           /\ AfterDefine(q).at = "scan" => q.todo # <<>> /\ q.kind \in ScanKinds
           /\ q.kind = "infer" => AfterDefine(q).at = "end"
           /\ AfterDefine(q).kind = q.kind /\ SameConflicts(AfterDefine(q), q)
           /\ AfterDefine(q).fresh = q.fresh
           /\ AfterDefine(q).tx = q.tx /\ AfterDefine(q).todo = q.todo
           /\ SameRows(AfterDefine(q), q) /\ SamePages(AfterDefine(q), q)
           /\ SameHolds(AfterDefine(q), q)
<1>1. q.kind \in ScanKinds \cup {"infer"} /\ q.fresh \in SUBSET Ids
  BY DEF Ready, Session
<1>2. CASE q.kind = "infer"
  <2> DEFINE p == [q EXCEPT !.at = "end"]
  <2>1. AfterDefine(q) = p
    BY <1>2 DEF AfterDefine
  <2>2. p \in Session
    BY DEF Session, Places
  <2>3. /\ p.kind = q.kind /\ p.at = "end" /\ p.no = q.no /\ p.owes = q.owes
        /\ p.found = q.found /\ p.target = q.target
        /\ p.todo = q.todo /\ p.tx = q.tx /\ p.mem = q.mem /\ p.out = q.out
        /\ p.fresh = q.fresh /\ p.mods = q.mods /\ p.given = q.given
        /\ p.page = q.page /\ p.holds = q.holds /\ p.clean = q.clean
    BY DEF Session
  <2> HIDE DEF p
  <2> QED BY <1>2, <2>1, <2>2, <2>3 DEF SameConflicts, SameRows, SamePages, SameHolds
<1>3. CASE q.kind # "infer"
  <2> DEFINE p == ToDefine(q, q.fresh)
  <2>1. AfterDefine(q) = p
    BY <1>3 DEF AfterDefine
  <2>2. /\ p \in Session /\ p.fresh = q.fresh /\ p.row = None
        /\ q.fresh # {} => p.at = "infer"
        /\ q.fresh = {} => /\ p.at \in {"passes done", "scan", "end"}
                           /\ p.at = "passes done" => q.kind = "batch"
                           /\ p.at = "end" => q.kind # "batch"
                           /\ p.at = "scan" => q.todo # <<>>
        /\ p.kind = q.kind /\ SameConflicts(p, q) /\ p.tx = q.tx /\ p.todo = q.todo
        /\ SameRows(p, q) /\ SamePages(p, q) /\ SameHolds(p, q)
    BY <1>1, NowToDefine
  <2> HIDE DEF p
  <2> QED BY <1>1, <1>3, <2>1, <2>2
<1> QED BY <1>2, <1>3

\* The row a session is at, with a draft
Drafted(q, text) == WithDraft(q.mem[q.row], text)

\* A drafted row has the draft, and its status as before
LEMMA DraftIsRow ==
    ASSUME NEW row \in Row, NEW text \in Ai
    PROVE  /\ WithDraft(row, text) \in Row /\ WithDraft(row, text) # NoRow
           /\ WithDraft(row, text)["text"] = text /\ WithDraft(row, text)["label"] = "draft"
           /\ WithDraft(row, text)["status"] = row["status"]
<1>1. WithDraft(row, text) \in Row
  BY DEF WithDraft, Row, Labels
<1>2. /\ WithDraft(row, text)["text"] = text /\ WithDraft(row, text)["label"] = "draft"
      /\ WithDraft(row, text)["status"] = row["status"]
  BY DEF WithDraft, Row
<1>3. text # None
  BY TextAssumption
<1> QED BY <1>1, <1>2, <1>3, NoRowIsRow

\* An answer of the LLM becomes the draft of the row the session is at
LEMMA DefineEffect ==
    ASSUME Types, NEW s \in Slots, NEW text \in Ai, Define(s, text)
    PROVE  /\ Types' /\ Disturbed(s, {}) /\ sess[s].at = "define"
           /\ sess'[s].kind = sess[s].kind /\ sess[s].kind \in ScanKinds \cup {"infer"}
           /\ sess'[s].at \in {"infer", "passes done", "scan", "end"}
           /\ sess'[s].at = "end" => sess[s].kind # "batch"
           /\ sess[s].row \in Ids
           /\ sess'[s].fresh = sess[s].fresh
           /\ sess'[s].tx.terms =
                [sess[s].tx.terms EXCEPT ![sess[s].row] =
                   Over(Changed(sess[s].mem[sess[s].row], Drafted(sess[s], text)),
                        sess[s].tx.terms[sess[s].row])]
           /\ sess'[s].mem = [sess[s].mem EXCEPT ![sess[s].row] = Drafted(sess[s], text)]
           /\ sess'[s].out = sess[s].out
           /\ SameConflicts(sess'[s], sess[s])
           /\ SamePages(sess'[s], sess[s]) /\ SameHolds(sess'[s], sess[s])
           /\ UNCHANGED <<rules, conflicts, terms, pages, started, losses, doubt>>
<1> DEFINE q == sess[s]
           d == Drafted(q, text)
           col == Over(Changed(q.mem[q.row], d), q.tx.terms[q.row])
           r == AfterDefine(q)
           t == TermsSet(q.tx, [q.tx.terms EXCEPT ![q.row] = col])
           M == [q.mem EXCEPT ![q.row] = d]
           p == [r EXCEPT !.tx = t, !.mem = M]
<1>1. q \in Session /\ Ready(q) /\ q.at = "define" /\ UNCHANGED <<Tables, Counts, doubt>>
  BY Holdings DEF Types, Define
<1>2. /\ q.row \in Ids /\ q.kind \in ScanKinds \cup {"infer"} /\ q.clean \subseteq q.holds
      /\ q.mem \in [Ids -> Row] /\ q.tx \in Tx
  BY <1>1 DEF Ready, Session
<1>3. q.tx.terms \in [Ids -> Parts(Row)]
  BY <1>2, TxIs
<1>4. d \in Row
  BY <1>2, DraftIsRow DEF Drafted
<1>5. col \in Parts(Row)
  <2>1. Changed(q.mem[q.row], d) \in Parts(Row)
    BY <1>2, <1>4, ChangedRow
  <2>2. q.tx.terms[q.row] \in Parts(Row)
    BY <1>2, <1>3
  <2> QED BY <2>1, <2>2, OverParts
<1>6. [q.tx.terms EXCEPT ![q.row] = col] \in [Ids -> Parts(Row)]
  BY <1>3, <1>5
<1>7. /\ t \in Tx /\ t.terms = [q.tx.terms EXCEPT ![q.row] = col]
      /\ t.gone = q.tx.gone /\ t.made = q.tx.made
      /\ t.rules = q.tx.rules /\ t.pages = q.tx.pages
  BY <1>2, <1>6, NowTerms
<1>8. M \in [Ids -> Row]
  BY <1>2, <1>4
<1>9. /\ r \in Session /\ r.at \in {"infer", "passes done", "scan", "end"}
      /\ r.at = "infer" => q.fresh # {} /\ q.kind \in ScanKinds
      /\ r.at = "passes done" => q.kind = "batch"
      /\ r.at = "end" => q.kind # "batch"
      /\ r.at = "scan" => q.todo # <<>> /\ q.kind \in ScanKinds
      /\ q.kind = "infer" => r.at = "end"
      /\ r.kind = q.kind /\ SameConflicts(r, q) /\ r.fresh = q.fresh
      /\ r.tx = q.tx /\ r.todo = q.todo
      /\ SameRows(r, q) /\ SamePages(r, q) /\ SameHolds(r, q)
  BY <1>1, NowAfterDefine
<1>10. sess' = [sess EXCEPT ![s] = [r EXCEPT !.tx.terms[q.row] = col, !.mem[q.row] = d]]
  BY Zenon DEF Define, Drafted
<1> HIDE DEF q, r, col, d
<1>11. [r EXCEPT !.tx.terms[q.row] = col, !.mem[q.row] = d] = p
  BY <1>9 DEF Session, TermsSet, SameRows
<1> HIDE DEF t, M
<1>12. p \in Session
  BY <1>7, <1>8, <1>9 DEF Session
<1>13. /\ p.kind = r.kind /\ p.at = r.at /\ p.no = r.no /\ p.owes = r.owes
       /\ p.found = r.found /\ p.target = r.target
       /\ p.todo = r.todo /\ p.tx = t /\ p.mem = M /\ p.out = r.out
       /\ p.fresh = r.fresh /\ p.row = r.row /\ p.mods = r.mods /\ p.given = r.given
       /\ p.page = r.page /\ p.holds = r.holds /\ p.clean = r.clean
  BY <1>9 DEF Session
<1> HIDE DEF p
<1>14. Ready(p)
  BY <1>2, <1>9, <1>13 DEF Ready, ScanKinds, SameHolds
<1>15. sess' = [sess EXCEPT ![s] = p]
  BY <1>10, <1>11
<1>16. /\ Types' /\ Disturbed(s, {}) /\ sess'[s] = p
       /\ UNCHANGED <<rules, conflicts, terms, pages, started, losses, doubt>>
  BY <1>1, <1>12, <1>14, <1>15, GoOnTypes
<1>17. SameConflicts(p, q) /\ SamePages(p, q) /\ SameHolds(p, q)
  BY <1>7, <1>9, <1>13 DEF SameConflicts, SamePages, SameHolds
<1>18. p.out = q.out /\ p.mem = M /\ p.tx.terms = [q.tx.terms EXCEPT ![q.row] = col]
  BY <1>7, <1>9, <1>13 DEF SameRows
<1> QED
  BY <1>1, <1>2, <1>9, <1>13, <1>16, <1>17, <1>18 DEF q, col, d, M

\* Without an answer the row stays as it is
LEMMA DefineNothingEffect ==
    ASSUME Types, NEW s \in Slots, DefineNothing(s)
    PROVE  /\ Types' /\ Disturbed(s, {}) /\ sess[s].at = "define"
           /\ sess'[s].kind = sess[s].kind
           /\ sess'[s].at \in {"infer", "passes done", "scan", "end"}
           /\ sess'[s].at = "end" => sess[s].kind # "batch"
           /\ sess[s].row \in Ids
           /\ sess'[s].fresh = sess[s].fresh
           /\ SameConflicts(sess'[s], sess[s]) /\ SameRows(sess'[s], sess[s])
           /\ SamePages(sess'[s], sess[s])
           /\ sess'[s].holds = sess[s].holds
           /\ sess'[s].clean = sess[s].clean \ {sess[s].row}
           /\ UNCHANGED <<rules, conflicts, terms, pages, started, losses, doubt>>
<1> DEFINE q == sess[s]
           r == AfterDefine(q)
           p == Having(r, r.clean \ {q.row})
<1>1. q \in Session /\ Ready(q) /\ q.at = "define" /\ UNCHANGED <<Tables, Counts, doubt>>
  BY Holdings DEF Types, DefineNothing
<1>2. q.row \in Ids /\ q.kind \in ScanKinds \cup {"infer"} /\ q.clean \subseteq q.holds
  BY <1>1 DEF Ready
<1>3. /\ r \in Session /\ r.at \in {"infer", "passes done", "scan", "end"}
      /\ r.at = "infer" => q.fresh # {} /\ q.kind \in ScanKinds
      /\ r.at = "passes done" => q.kind = "batch"
      /\ r.at = "end" => q.kind # "batch"
      /\ r.at = "scan" => q.todo # <<>> /\ q.kind \in ScanKinds
      /\ q.kind = "infer" => r.at = "end"
      /\ r.kind = q.kind /\ SameConflicts(r, q) /\ r.fresh = q.fresh
      /\ r.tx = q.tx /\ r.todo = q.todo
      /\ SameRows(r, q) /\ SamePages(r, q) /\ SameHolds(r, q)
  BY <1>1, NowAfterDefine
<1>4. sess' = [sess EXCEPT ![s] = [r EXCEPT !.clean = @ \ {q.row}]]
  BY Zenon DEF DefineNothing
<1> HIDE DEF q, r
<1>5. r.clean \ {q.row} \in SUBSET Things
  BY <1>3 DEF Session
<1>6. p \in Session /\ Same(p, r) /\ p.holds = r.holds /\ p.clean = r.clean \ {q.row}
  BY <1>3, <1>5, NowClean
<1>7. sess' = [sess EXCEPT ![s] = p]
  BY <1>4, <1>3 DEF Having, Session
<1> HIDE DEF p
<1>8. Ready(p)
  BY <1>2, <1>3, <1>6 DEF Ready, ScanKinds, SameHolds, Same, Goes
<1>9. /\ Types' /\ Disturbed(s, {}) /\ sess'[s] = p
      /\ UNCHANGED <<rules, conflicts, terms, pages, started, losses, doubt>>
  BY <1>1, <1>6, <1>7, <1>8, GoOnTypes
<1>10. /\ SameConflicts(p, q) /\ SameRows(p, q) /\ SamePages(p, q)
       /\ p.holds = q.holds /\ p.clean = q.clean \ {q.row}
       /\ p.kind = q.kind /\ p.at = r.at /\ p.fresh = q.fresh
  BY <1>3, <1>6 DEF SameConflicts, SameRows, SamePages, SameHolds, Same, Goes
<1> QED BY <1>1, <1>2, <1>3, <1>9, <1>10 DEF q

-----------------------------------------------------------------------------
(* Orders of modules *)

\* The modules whose pages a session has still to write
ToDo(mods) == {mods[k] : k \in DOMAIN mods}

\* No module comes twice
NoneTwice(mods) == \A i, j \in DOMAIN mods : mods[i] = mods[j] => i = j

\* An order of a set of modules names each of them once
LEMMA OrderOf ==
    ASSUME NEW S \in SUBSET Modules, NEW order \in Orders(S)
    PROVE  /\ order \in Seq(Modules) /\ ToDo(order) = S /\ NoneTwice(order)
           /\ order = <<>> <=> S = {}
<1>1. IsFiniteSet(S)
  BY ThingsAssumption, FS_Subset
<1> DEFINE n == Cardinality(S)
<1>2. n \in Nat
  BY <1>1, FS_CardinalityType
<1>3. order \in [1..n -> S] /\ NoneTwice(order) /\ DOMAIN order = 1..n
  BY DEF Orders, NoneTwice
<1>4. order \in Seq(Modules)
  BY <1>2, <1>3
<1>5. order \in Injection(1..n, S)
  BY <1>3 DEF Injection, IsInjective, NoneTwice
<1>6. Cardinality(1..n) = n
  BY <1>2, FS_Interval
<1>7. order \in Surjection(1..n, S)
  BY <1>1, <1>5, <1>6, FS_Injection
<1>8. ToDo(order) = S
  BY <1>3, <1>7 DEF Surjection, ToDo
<1>9. order = <<>> <=> S = {}
  <2>1. DOMAIN <<>> = {}
    OBVIOUS
  <2>2. order = <<>> => S = {}
    BY <1>8, <2>1 DEF ToDo
  <2>3. S = {} => order = <<>>
    <3>1. S = {} => n = 0
      BY <1>1, FS_EmptySet
    <3> QED BY <1>3, <3>1
  <2> QED BY <2>2, <2>3
<1> QED BY <1>3, <1>4, <1>8, <1>9

\* What remains of an order once its first module is done
LEMMA TailOf ==
    ASSUME NEW mods \in Seq(Modules), mods # <<>>
    PROVE  /\ Head(mods) \in Modules /\ Tail(mods) \in Seq(Modules)
           /\ ToDo(mods) = {Head(mods)} \cup ToDo(Tail(mods))
           /\ NoneTwice(mods) => NoneTwice(Tail(mods)) /\ Head(mods) \notin ToDo(Tail(mods))
<1>1. Len(mods) \in Nat /\ Len(mods) # 0 /\ DOMAIN mods = 1..Len(mods) /\ Head(mods) = mods[1]
  OBVIOUS
<1>2. /\ Tail(mods) \in Seq(Modules) /\ Len(Tail(mods)) = Len(mods) - 1
      /\ DOMAIN Tail(mods) = 1..(Len(mods) - 1)
      /\ \A k \in 1..(Len(mods) - 1) : Tail(mods)[k] = mods[k + 1]
  BY <1>1
<1>3. ToDo(mods) = {Head(mods)} \cup ToDo(Tail(mods))
  <2>1. \A k \in 1..Len(mods) : mods[k] \in {Head(mods)} \cup ToDo(Tail(mods))
    <3> SUFFICES ASSUME NEW k \in 1..Len(mods), k # 1 PROVE mods[k] \in ToDo(Tail(mods))
      BY <1>1
    <3>1. k - 1 \in 1..(Len(mods) - 1) /\ (k - 1) + 1 = k
      BY <1>1
    <3> QED BY <1>2, <3>1 DEF ToDo
  <2>2. Head(mods) \in ToDo(mods)
    BY <1>1 DEF ToDo
  <2>3. \A k \in 1..(Len(mods) - 1) : k + 1 \in DOMAIN mods
    BY <1>1
  <2>4. ToDo(Tail(mods)) \subseteq ToDo(mods)
    BY <1>2, <2>3 DEF ToDo
  <2>5. ToDo(mods) \subseteq {Head(mods)} \cup ToDo(Tail(mods))
    BY <1>1, <2>1 DEF ToDo
  <2> QED BY <2>2, <2>4, <2>5
<1>4. ASSUME NoneTwice(mods) PROVE NoneTwice(Tail(mods)) /\ Head(mods) \notin ToDo(Tail(mods))
  <2>1. \A k \in 1..(Len(mods) - 1) : k + 1 \in 1..Len(mods) /\ k + 1 # 1
    BY <1>1
  <2>2. NoneTwice(Tail(mods))
    BY <1>1, <1>2, <1>4, <2>1 DEF NoneTwice
  <2>3. Head(mods) \notin ToDo(Tail(mods))
    BY <1>1, <1>2, <1>4, <2>1 DEF NoneTwice, ToDo
  <2> QED BY <2>2, <2>3
<1>5. Head(mods) \in Modules
  BY <1>1
<1> QED BY <1>2, <1>3, <1>4, <1>5

-----------------------------------------------------------------------------
(* What the actions do: pages *)

\* The passes of a job are committed
LEMMA EndCommitEffect ==
    ASSUME Types, NEW s \in Slots, sess[s].at = "passes done",
           Commit(s, sess[s], {}), UNCHANGED Counts
    PROVE  /\ Types' /\ Commits(s, {})
           /\ sess'[s].holds = {} /\ sess'[s].clean = {}
           /\ sess'[s].kind = sess[s].kind /\ sess'[s].no = sess[s].no
           /\ sess'[s].at = "passes done"
           /\ sess'[s].fresh = sess[s].fresh /\ sess'[s].row = sess[s].row
           /\ sess'[s].found = sess[s].found
           /\ sess'[s].owes = sess[s].owes \ sess[s].holds
           /\ sess'[s].mem = sess[s].mem /\ sess'[s].out = sess[s].out
           /\ sess'[s].mods = sess[s].mods /\ sess'[s].given = sess[s].given
           /\ sess'[s].page = sess[s].page
<1>1. sess[s] \in Session /\ Ready(sess[s])
  BY Holdings DEF Types
<1>2. /\ sess' \in [Slots -> Session] /\ Disturbed(s, Stale(s))
      /\ Goes(sess'[s], sess[s]) /\ sess'[s].tx = NoTx
      /\ sess'[s].owes = sess[s].owes \ sess[s].holds
      /\ sess'[s].holds = sess[s].holds \cap {}
      /\ sess'[s].clean = sess[s].clean \cap {}
      /\ doubt' = (doubt \ (sess[s].clean \ ({} \cup {"glossary"}))) \cup Stale(s)
      /\ rules' = rules \cup sess[s].tx.rules
      /\ conflicts' = (conflicts \ sess[s].tx.gone) \cup sess[s].tx.made
      /\ terms' = SeenTerms(s)
      /\ pages' = [m \in Modules |-> SeenPage(s, m)]
      /\ Stale(s) \in SUBSET Modules
      /\ TablesTyped'
  BY <1>1, CommitEffect
<1>3. Ready(sess'[s])
  BY <1>1, <1>2 DEF Ready, Goes, ScanKinds
<1>4. UNCHANGED <<started, losses>> /\ started' \in 0..MaxSessions /\ losses' \in 0..MaxLosses
  BY DEF Types, Counts
<1>5. Types'
  BY <1>2, <1>3, <1>4, TypesStep
<1>6. Commits(s, {})
  BY <1>2, <1>4 DEF Commits
<1> QED BY <1>2, <1>5, <1>6 DEF Goes

\* The pages a batch has to write: what its rules are still owed
Mine(q) == q.owes \cap Modules

\* The wiki of a job reads the rules of the modules it serves
LEMMA ReadRulesEffect ==
    ASSUME Types, NEW s \in Slots, sess[s].at = "passes done",
           NEW order \in Orders(Mine(sess[s])),
           Take(s, [sess[s] EXCEPT !.mods = order,
                       !.given = [m \in Modules |-> IF m \in Mine(sess[s]) THEN RulesOf(m, rules)
                                                    ELSE {}],
                       !.at = IF Mine(sess[s]) = {} THEN "end" ELSE "wiki"],
                Mine(sess[s])),
           UNCHANGED <<Tables, Counts>>
    PROVE  /\ Types' /\ Disturbed(s, Mine(sess[s]))
           /\ sess[s].kind = "batch" /\ sess'[s].kind = "batch"
           /\ sess'[s].at = IF Mine(sess[s]) = {} THEN "end" ELSE "wiki"
           /\ sess'[s].mods = order
           /\ sess'[s].given = [m \in Modules |-> IF m \in Mine(sess[s]) THEN RulesOf(m, rules)
                                                  ELSE {}]
           /\ sess'[s].tx = sess[s].tx /\ sess'[s].page = sess[s].page
           /\ SameConflicts(sess'[s], sess[s]) /\ SameRows(sess'[s], sess[s])
           /\ sess'[s].fresh = sess[s].fresh /\ sess'[s].row = sess[s].row
           /\ sess'[s].holds = sess[s].holds \cup Mine(sess[s])
           /\ sess'[s].clean = sess[s].clean \cup (Mine(sess[s]) \ HeldByOthers(s))
           /\ doubt' = doubt \cup (Mine(sess[s]) \cap HeldByOthers(s))
           /\ UNCHANGED <<rules, conflicts, terms, pages, started, losses>>
<1> DEFINE q == sess[s]
           X == Mine(q)
           g == [m \in Modules |-> IF m \in X THEN RulesOf(m, rules) ELSE {}]
           a == IF X = {} THEN "end" ELSE "wiki"
           p == [q EXCEPT !.mods = order, !.given = g, !.at = a]
<1>1. q \in Session /\ Ready(q) /\ q.at = "passes done"
  BY Holdings DEF Types
<1>2. X \in SUBSET Modules /\ X \in SUBSET Things
  BY DEF Mine, Things
<1>3. order \in Seq(Modules) /\ (order = <<>> <=> X = {})
  BY <1>2, OrderOf
<1>4. g \in [Modules -> SUBSET Rules] /\ a \in Places
  BY DEF RulesOf, Types, TablesTyped, Places
<1>5. Take(s, p, X)
  OBVIOUS
<1> HIDE DEF q, X, g
<1>6. p \in Session
  BY <1>1, <1>3, <1>4 DEF Session
<1>7. /\ p.kind = q.kind /\ p.at = a /\ p.no = q.no /\ p.owes = q.owes
      /\ p.found = q.found /\ p.target = q.target
      /\ p.todo = q.todo /\ p.tx = q.tx /\ p.mem = q.mem /\ p.out = q.out
      /\ p.fresh = q.fresh /\ p.row = q.row /\ p.mods = order /\ p.given = g
      /\ p.page = q.page /\ p.holds = q.holds /\ p.clean = q.clean
  BY <1>1 DEF Session
<1> HIDE DEF p
<1>8. /\ sess' \in [Slots -> Session] /\ Disturbed(s, X)
      /\ Same(sess'[s], p) /\ sess'[s].holds = p.holds \cup X
      /\ sess'[s].clean = p.clean \cup (X \ HeldByOthers(s))
      /\ doubt' = doubt \cup (X \cap HeldByOthers(s)) /\ doubt' \in SUBSET Things
  BY <1>2, <1>5, <1>6, TakeEffect
<1>9. q.kind = "batch"
  BY <1>1 DEF Ready
<1>10. Ready(sess'[s])
  BY <1>1, <1>3, <1>7, <1>8, <1>9 DEF Ready, Same, Goes, ScanKinds
<1>11. Types'
  BY <1>8, <1>10, Unchanged, TypesStep
<1>12. /\ sess'[s].at = a /\ sess'[s].mods = order /\ sess'[s].given = g /\ sess'[s].kind = q.kind
       /\ sess'[s].tx = q.tx /\ sess'[s].page = q.page
       /\ sess'[s].fresh = q.fresh /\ sess'[s].row = q.row
       /\ sess'[s].holds = q.holds \cup X
       /\ sess'[s].clean = q.clean \cup (X \ HeldByOthers(s))
       /\ SameConflicts(sess'[s], q) /\ SameRows(sess'[s], q)
  BY <1>7, <1>8 DEF Same, Goes, SameConflicts, SameRows
<1>13. UNCHANGED <<rules, conflicts, terms, pages, started, losses>>
  BY DEF Tables, Counts
<1> HIDE DEF a
<1> QED
  BY <1>8, <1>9, <1>11, <1>12, <1>13 DEF q, X, g, a

\* The LLM has written the page of the first module to do
LEMMA PageWrittenEffect ==
    ASSUME Types, NEW s \in Slots, PageWritten(s)
    PROVE  /\ Types' /\ Disturbed(s, {})
           /\ sess[s].at = "wiki" /\ sess'[s].at = "upsert" /\ sess'[s].kind = sess[s].kind
           /\ sess'[s].page = SeenPage(s, Head(sess[s].mods))
           /\ sess'[s].tx = sess[s].tx /\ sess'[s].mods = sess[s].mods
           /\ sess'[s].given = sess[s].given
           /\ SameConflicts(sess'[s], sess[s]) /\ SameRows(sess'[s], sess[s])
           /\ sess'[s].fresh = sess[s].fresh /\ sess'[s].row = sess[s].row
           /\ SameHolds(sess'[s], sess[s])
           /\ UNCHANGED <<rules, conflicts, terms, pages, started, losses, doubt>>
<1> DEFINE q == sess[s]
           G == SeenPage(s, Head(q.mods))
           p == [q EXCEPT !.page = G, !.at = "upsert"]
<1>1. q \in Session /\ Ready(q) /\ sess \in [Slots -> Session]
  BY Holdings DEF Types
<1>2. q.at = "wiki" /\ UNCHANGED <<Tables, Counts, doubt>>
  BY DEF PageWritten
<1>3. sess' = [sess EXCEPT ![s] = p]
  BY <1>1 DEF PageWritten, Session
<1>4. q.mods \in Seq(Modules) /\ q.mods # <<>>
  BY <1>1, <1>2 DEF Ready, Session
<1>5. Head(q.mods) \in Modules
  BY <1>4, TailOf
<1>6. G \in Pages
  BY <1>5, Sees
<1> HIDE DEF q, G
<1>7. p \in Session
  BY <1>1, <1>6 DEF Session, Places
<1>8. /\ p.kind = q.kind /\ p.at = "upsert" /\ p.no = q.no /\ p.owes = q.owes
      /\ p.found = q.found /\ p.target = q.target
      /\ p.todo = q.todo /\ p.tx = q.tx /\ p.mem = q.mem /\ p.out = q.out
      /\ p.fresh = q.fresh /\ p.row = q.row /\ p.mods = q.mods /\ p.given = q.given
      /\ p.page = G /\ p.holds = q.holds /\ p.clean = q.clean
  BY <1>1 DEF Session
<1> HIDE DEF p
<1>9. Ready(p)
  BY <1>1, <1>2, <1>4, <1>8 DEF Ready, ScanKinds
<1>10. /\ Types' /\ Disturbed(s, {}) /\ sess'[s] = p
       /\ UNCHANGED <<rules, conflicts, terms, pages, started, losses, doubt>>
  BY <1>2, <1>3, <1>7, <1>9, GoOnTypes
<1> QED BY <1>2, <1>8, <1>10 DEF q, G, SameConflicts, SameRows, SameHolds

\* What a session is once a module is done
LEMMA NowNextPage ==
    ASSUME NEW q \in Session, Ready(q), q.at \in {"wiki", "upsert"}
    PROVE  /\ NextPage(q) \in Session /\ Ready(NextPage(q))
           /\ NextPage(q).at \in {"wiki", "end"}
           /\ NextPage(q).mods = Tail(q.mods) /\ NextPage(q).page = NoPage
           /\ NextPage(q).at = "end" => Tail(q.mods) = <<>>
           /\ NextPage(q).kind = q.kind /\ NextPage(q).given = q.given
           /\ NextPage(q).tx = q.tx /\ SameConflicts(NextPage(q), q)
           /\ SameRows(NextPage(q), q) /\ SameHolds(NextPage(q), q)
           /\ NextPage(q).fresh = q.fresh /\ NextPage(q).row = q.row
<1> DEFINE a == IF Tail(q.mods) = <<>> THEN "end" ELSE "wiki"
           p == [q EXCEPT !.mods = Tail(q.mods), !.page = NoPage, !.at = a]
<1>1. NextPage(q) = p
  BY DEF NextPage, Session
<1>2. q.mods \in Seq(Modules) /\ q.mods # <<>> /\ q.kind \in {"batch", "regenerate"}
  BY DEF Ready, Session
<1>3. Tail(q.mods) \in Seq(Modules)
  BY <1>2
<1>4. a \in Places /\ NoPage \in Pages
  BY DEF Places, Pages
<1>5. p \in Session
  BY <1>3, <1>4 DEF Session
<1>6. /\ p.kind = q.kind /\ p.at = a /\ p.no = q.no /\ p.owes = q.owes
      /\ p.found = q.found /\ p.target = q.target
      /\ p.todo = q.todo /\ p.tx = q.tx /\ p.mem = q.mem /\ p.out = q.out
      /\ p.fresh = q.fresh /\ p.row = q.row /\ p.mods = Tail(q.mods)
      /\ p.given = q.given
      /\ p.page = NoPage /\ p.holds = q.holds /\ p.clean = q.clean
  BY DEF Session
<1> HIDE DEF p
<1>7. Ready(p)
  BY <1>2, <1>6 DEF Ready, ScanKinds
<1> QED BY <1>1, <1>5, <1>6, <1>7 DEF SameConflicts, SameRows, SameHolds

\* The first module to do gets no page
LEMMA PageSkippedEffect ==
    ASSUME Types, NEW s \in Slots, PageSkipped(s)
    PROVE  /\ Types' /\ Disturbed(s, {Head(sess[s].mods)})
           /\ sess[s].at = "wiki" /\ sess'[s].kind = sess[s].kind
           /\ sess'[s].at \in {"wiki", "end"}
           /\ sess[s].mods \in Seq(Modules) /\ sess[s].mods # <<>>
           /\ sess'[s].mods = Tail(sess[s].mods) /\ sess'[s].page = NoPage
           /\ sess'[s].at = "end" => sess'[s].mods = <<>>
           /\ sess'[s].given = sess[s].given /\ sess'[s].tx = sess[s].tx
           /\ SameConflicts(sess'[s], sess[s]) /\ SameRows(sess'[s], sess[s])
           /\ sess'[s].fresh = sess[s].fresh /\ sess'[s].row = sess[s].row
           /\ sess'[s].holds = sess[s].holds
           /\ sess'[s].clean = sess[s].clean \ {Head(sess[s].mods)}
           /\ doubt' = doubt \cup {Head(sess[s].mods)}
           /\ UNCHANGED <<rules, conflicts, terms, pages, started, losses>>
<1> DEFINE q == sess[s]
           p == NextPage(q)
           X == {Head(q.mods)}
<1>1. q \in Session /\ Ready(q) /\ q.at = "wiki" /\ UNCHANGED <<Tables, Counts>>
      /\ Disturb(s, p, X)
  BY Holdings DEF Types, PageSkipped
<1>2. q.mods \in Seq(Modules) /\ q.mods # <<>>
  BY <1>1 DEF Ready, Session
<1>3. X \in SUBSET Things
  BY <1>2, TailOf DEF Things
<1>4. /\ p \in Session /\ Ready(p) /\ p.at \in {"wiki", "end"}
      /\ p.mods = Tail(q.mods) /\ p.page = NoPage
      /\ p.at = "end" => Tail(q.mods) = <<>>
      /\ p.kind = q.kind /\ p.given = q.given /\ p.tx = q.tx /\ SameConflicts(p, q)
      /\ SameRows(p, q) /\ SameHolds(p, q) /\ p.fresh = q.fresh /\ p.row = q.row
  BY <1>1, NowNextPage
<1> HIDE DEF p, q, X
<1>5. /\ sess' \in [Slots -> Session] /\ Disturbed(s, X)
      /\ Same(sess'[s], p) /\ sess'[s].holds = p.holds
      /\ sess'[s].clean = p.clean \ X
      /\ doubt' = doubt \cup X /\ doubt' \in SUBSET Things
  BY <1>1, <1>3, <1>4, DisturbEffect
<1>6. Ready(sess'[s])
  BY <1>4, <1>5 DEF Ready, Same, Goes
<1>7. Types'
  BY <1>1, <1>5, <1>6, Unchanged, TypesStep
<1>8. SameConflicts(sess'[s], q) /\ SameRows(sess'[s], q)
  BY <1>4, <1>5 DEF Same, Goes, SameConflicts, SameRows
<1>9. UNCHANGED <<rules, conflicts, terms, pages, started, losses>>
  BY <1>1 DEF Tables, Counts
<1> QED BY <1>1, <1>2, <1>4, <1>5, <1>7, <1>8, <1>9 DEF q, X, Same, Goes, SameHolds

\* A transaction that has set columns of pages
PagesSet(t, x) == [t EXCEPT !.pages = x]

\* To write pages changes nothing else of a transaction
LEMMA NowPages ==
    ASSUME NEW t \in Tx, NEW x \in [Modules -> PageParts]
    PROVE  /\ PagesSet(t, x) \in Tx /\ PagesSet(t, x).pages = x
           /\ PagesSet(t, x).gone = t.gone /\ PagesSet(t, x).made = t.made
           /\ PagesSet(t, x).rules = t.rules /\ PagesSet(t, x).terms = t.terms
BY DEF Tx, PagesSet

\* The page that q writes
Fresh(q) == [text |-> q.given[Head(q.mods)], links |-> q.given[Head(q.mods)]]

\* The page is inserted or updated, and the next module is due
LEMMA UpsertEffect ==
    ASSUME Types, NEW s \in Slots, UpsertPage(s)
    PROVE  /\ Types' /\ Disturbed(s, {})
           /\ sess[s].at = "upsert" /\ sess'[s].kind = sess[s].kind
           /\ sess'[s].at \in {"wiki", "end"}
           /\ sess[s].mods \in Seq(Modules) /\ sess[s].mods # <<>>
           /\ sess'[s].mods = Tail(sess[s].mods) /\ sess'[s].page = NoPage
           /\ sess'[s].at = "end" => sess'[s].mods = <<>>
           /\ Fresh(sess[s]) \in Page
           /\ sess'[s].tx.pages = [sess[s].tx.pages EXCEPT ![Head(sess[s].mods)] =
                                      PageColumns(sess[s].page, Fresh(sess[s]))]
           /\ sess'[s].given = sess[s].given
           /\ SameConflicts(sess'[s], sess[s]) /\ SameRows(sess'[s], sess[s])
           /\ sess'[s].fresh = sess[s].fresh /\ sess'[s].row = sess[s].row
           /\ SameHolds(sess'[s], sess[s])
           /\ UNCHANGED <<rules, conflicts, terms, pages, started, losses, doubt>>
<1> DEFINE q == sess[s]
           m == Head(q.mods)
           col == PageColumns(q.page, Fresh(q))
           r == NextPage(q)
           x == [q.tx.pages EXCEPT ![m] = col]
           t == PagesSet(q.tx, x)
           p == [r EXCEPT !.tx = t]
<1>1. q \in Session /\ Ready(q) /\ q.at = "upsert" /\ UNCHANGED <<Tables, Counts, doubt>>
  BY Holdings DEF Types, UpsertPage
<1>2. /\ q.mods \in Seq(Modules) /\ q.mods # <<>> /\ q.tx \in Tx /\ q.page \in Pages
      /\ q.given \in [Modules -> SUBSET Rules]
  BY <1>1 DEF Ready, Session
<1>3. m \in Modules
  BY <1>2, TailOf
<1>4. Fresh(q) \in Page
  BY <1>2, <1>3 DEF Fresh, Page
<1>5. col \in PageParts
  BY <1>2, <1>4, PageColumnsPart
<1>6. q.tx.pages \in [Modules -> PageParts]
  BY <1>2, TxIs
<1>7. x \in [Modules -> PageParts]
  BY <1>3, <1>5, <1>6
<1>8. /\ t \in Tx /\ t.pages = x /\ t.gone = q.tx.gone /\ t.made = q.tx.made
      /\ t.rules = q.tx.rules /\ t.terms = q.tx.terms
  BY <1>2, <1>7, NowPages
<1>9. /\ r \in Session /\ Ready(r) /\ r.at \in {"wiki", "end"}
      /\ r.mods = Tail(q.mods) /\ r.page = NoPage
      /\ r.at = "end" => Tail(q.mods) = <<>>
      /\ r.kind = q.kind /\ r.given = q.given /\ r.tx = q.tx /\ SameConflicts(r, q)
      /\ SameRows(r, q) /\ SameHolds(r, q) /\ r.fresh = q.fresh /\ r.row = q.row
  BY <1>1, NowNextPage
<1>10. sess' = [sess EXCEPT ![s] = [r EXCEPT !.tx.pages[m] = col]]
  BY Zenon DEF UpsertPage, Fresh
<1> HIDE DEF q, r, m, col
<1>11. [r EXCEPT !.tx.pages[m] = col] = p
  BY <1>9 DEF Session, PagesSet
<1> HIDE DEF t
<1>12. p \in Session
  BY <1>8, <1>9 DEF Session
<1>13. /\ p.kind = r.kind /\ p.at = r.at /\ p.no = r.no /\ p.owes = r.owes
       /\ p.found = r.found /\ p.target = r.target
       /\ p.todo = r.todo /\ p.tx = t /\ p.mem = r.mem /\ p.out = r.out
       /\ p.fresh = r.fresh /\ p.row = r.row /\ p.mods = r.mods /\ p.given = r.given
       /\ p.page = r.page /\ p.holds = r.holds /\ p.clean = r.clean
  BY <1>9 DEF Session
<1> HIDE DEF p
<1>14. Ready(p)
  BY <1>9, <1>13 DEF Ready
<1>15. sess' = [sess EXCEPT ![s] = p]
  BY <1>10, <1>11
<1>16. /\ Types' /\ Disturbed(s, {}) /\ sess'[s] = p
       /\ UNCHANGED <<rules, conflicts, terms, pages, started, losses, doubt>>
  BY <1>1, <1>12, <1>14, <1>15, GoOnTypes
<1>17. SameConflicts(p, q) /\ SameRows(p, q) /\ SameHolds(p, q)
  BY <1>8, <1>9, <1>13 DEF SameConflicts, SameRows, SameHolds
<1> QED
  BY <1>1, <1>2, <1>4, <1>8, <1>9, <1>13, <1>16, <1>17 DEF q, m, col, x

-----------------------------------------------------------------------------
(* What the actions do: sessions end and begin *)

\* A session that is not open is at a place of its own
LEMMA ReadyNoSession == ASSUME NEW p, Goes(p, NoSession), p.clean = {} PROVE Ready(p)
BY NoSessionIsSession DEF Goes, Ready

\* A session that is lost leaves what it owed in doubt
LEMMA LoseEffect ==
    ASSUME Types, NEW s \in Slots,
           DuplicatePage(s) \/ BreakDeadlock(s) \/ LoseSession(s)
    PROVE  /\ Types' /\ Disturbed(s, sess[s].owes)
           /\ Same(sess'[s], NoSession) /\ SameHolds(sess'[s], NoSession)
           /\ sess[s].owes \in SUBSET Things
           /\ doubt' = doubt \cup sess[s].owes
           /\ UNCHANGED <<rules, conflicts, terms, pages, started>>
<1> DEFINE X == sess[s].owes
<1>1. Disturb(s, NoSession, X) /\ UNCHANGED <<rules, conflicts, terms, pages, started>>
  BY DEF DuplicatePage, BreakDeadlock, LoseSession, Lose
<1>2. X \in SUBSET Things /\ NoSession \in Session
  BY Holdings, NoSessionIsSession
<1> HIDE DEF X
<1>3. /\ sess' \in [Slots -> Session] /\ Disturbed(s, X)
      /\ Same(sess'[s], NoSession) /\ sess'[s].holds = NoSession.holds
      /\ sess'[s].clean = NoSession.clean \ X
      /\ doubt' = doubt \cup X /\ doubt' \in SUBSET Things
  BY <1>1, <1>2, DisturbEffect
<1>4. sess'[s].clean = {} /\ NoSession.clean = {}
  BY <1>3, NoSessionIsSession
<1>5. Ready(sess'[s])
  BY <1>3, <1>4, ReadyNoSession DEF Same
<1>6. losses' \in 0..MaxLosses /\ started' \in 0..MaxSessions
  BY <1>1, BoundsAssumption DEF Types, DuplicatePage, BreakDeadlock, LoseSession
<1>7. TablesTyped'
  BY <1>1, <1>3 DEF Types, TablesTyped
<1>8. Types'
  BY <1>3, <1>5, <1>6, <1>7, TypesStep
<1> QED BY <1>1, <1>2, <1>3, <1>4, <1>8 DEF X, SameHolds

\* A session is its fields
LEMMA SessionIs ==
    ASSUME NEW p \in Session
    PROVE  p = [kind |-> p.kind, no |-> p.no, at |-> p.at, tx |-> p.tx,
                found |-> p.found, target |-> p.target, todo |-> p.todo,
                mem |-> p.mem, out |-> p.out, fresh |-> p.fresh, row |-> p.row,
                mods |-> p.mods, given |-> p.given, page |-> p.page,
                holds |-> p.holds, clean |-> p.clean, owes |-> p.owes]
BY DEF Session

\* A session commits and closes
LEMMA EndEffect ==
    ASSUME Types, NEW s \in Slots, End(s)
    PROVE  /\ Types' /\ Commits(s, {}) /\ sess[s].at = "end"
           /\ Same(sess'[s], NoSession) /\ SameHolds(sess'[s], NoSession)
           /\ sess'[s] = NoSession
<1>1. Commit(s, NoSession, {}) /\ UNCHANGED Counts /\ sess[s].at = "end"
  BY DEF End
<1>2. /\ sess' \in [Slots -> Session] /\ Disturbed(s, Stale(s))
      /\ Goes(sess'[s], NoSession) /\ sess'[s].tx = NoTx
      /\ sess'[s].owes = NoSession.owes \ sess[s].holds
      /\ sess'[s].holds = NoSession.holds \cap {}
      /\ sess'[s].clean = NoSession.clean \cap {}
      /\ doubt' = (doubt \ (sess[s].clean \ ({} \cup {"glossary"}))) \cup Stale(s)
      /\ rules' = rules \cup sess[s].tx.rules
      /\ conflicts' = (conflicts \ sess[s].tx.gone) \cup sess[s].tx.made
      /\ terms' = SeenTerms(s)
      /\ pages' = [m \in Modules |-> SeenPage(s, m)]
      /\ Stale(s) \in SUBSET Modules
      /\ TablesTyped'
  BY <1>1, NoSessionIsSession, CommitEffect
<1>3. Same(sess'[s], NoSession) /\ SameHolds(sess'[s], NoSession) /\ sess'[s].clean = {}
      /\ sess'[s].holds = {}
  BY <1>2, NoSessionIsSession DEF Same, SameHolds
<1>4. Ready(sess'[s])
  BY <1>3, ReadyNoSession DEF Same
<1>5. UNCHANGED <<started, losses>> /\ started' \in 0..MaxSessions /\ losses' \in 0..MaxLosses
  BY <1>1 DEF Types, Counts
<1>6. Types'
  BY <1>2, <1>4, <1>5, TypesStep
<1>7. Commits(s, {})
  BY <1>2, <1>3, <1>5 DEF Commits
<1>8. sess'[s] = NoSession
  <2>1. sess'[s] \in Session
    BY <1>2
  <2>2. NoSession \in Session
    BY NoSessionIsSession
  <2> DEFINE p == sess'[s]
             q == NoSession
  <2>3. /\ p.kind = q.kind /\ p.at = q.at /\ p.no = q.no /\ p.owes = q.owes
        /\ p.found = q.found /\ p.target = q.target
        /\ p.todo = q.todo /\ p.tx = q.tx /\ p.mem = q.mem /\ p.out = q.out
        /\ p.fresh = q.fresh /\ p.row = q.row /\ p.mods = q.mods
        /\ p.given = q.given
        /\ p.page = q.page /\ p.holds = q.holds /\ p.clean = q.clean
    BY <1>3 DEF Same, Goes, SameHolds
  <2> HIDE DEF p, q
  <2>4. p = q
    <3>1. p \in Session /\ q \in Session
      BY <2>1, <2>2 DEF p, q
    <3>2. p = [kind |-> p.kind, no |-> p.no, at |-> p.at, tx |-> p.tx,
                found |-> p.found, target |-> p.target, todo |-> p.todo,
                mem |-> p.mem, out |-> p.out, fresh |-> p.fresh, row |-> p.row,
                mods |-> p.mods, given |-> p.given, page |-> p.page,
                holds |-> p.holds, clean |-> p.clean, owes |-> p.owes]
      BY <3>1, SessionIs
    <3>3. q = [kind |-> q.kind, no |-> q.no, at |-> q.at, tx |-> q.tx,
                found |-> q.found, target |-> q.target, todo |-> q.todo,
                mem |-> q.mem, out |-> q.out, fresh |-> q.fresh, row |-> q.row,
                mods |-> q.mods, given |-> q.given, page |-> q.page,
                holds |-> q.holds, clean |-> q.clean, owes |-> q.owes]
      BY <3>1, SessionIs
    <3> QED BY <2>3, <3>2, <3>3
  <2> QED BY <2>4 DEF p, q
<1> QED BY <1>1, <1>3, <1>6, <1>7, <1>8

\* A session with the number n
Numbering(q, n) == [q EXCEPT !.no = n]

\* What every session has when it opens, having read the things X
Began(s, X) ==
    /\ Types' /\ Disturbed(s, X) /\ X \in SUBSET Things
    /\ sess[s] = NoSession
    /\ sess'[s].found = {} /\ sess'[s].page = NoPage /\ sess'[s].fresh = {}
    /\ sess'[s].tx.gone = {} /\ sess'[s].tx.made = {}
    /\ sess'[s].tx.terms = NoTx.terms /\ sess'[s].tx.pages = NoTx.pages
    /\ sess'[s].holds = X /\ sess'[s].clean = X \ HeldByOthers(s)
    /\ doubt' = doubt \cup (X \cap HeldByOthers(s))
    /\ UNCHANGED <<conflicts, terms, pages, losses>>

\* What Open does with a session q that holds nothing yet
LEMMA OpenEffect ==
    ASSUME Types, NEW s \in Slots, NEW q \in Session, NEW X \in SUBSET Things,
           Ready(q), q.holds = {}, q.clean = {}, q.found = {}, q.page = NoPage,
           q.fresh = {}, q.tx.gone = {}, q.tx.made = {},
           q.tx.terms = NoTx.terms, q.tx.pages = NoTx.pages,
           Open(s, q, X), rules' \in SUBSET Rules
    PROVE  /\ Began(s, X)
           /\ sess'[s].kind = q.kind /\ sess'[s].at = q.at /\ sess'[s].owes = q.owes
           /\ sess'[s].tx = q.tx /\ sess'[s].todo = q.todo
           /\ sess'[s].mem = q.mem /\ sess'[s].out = q.out /\ sess'[s].row = q.row
           /\ sess'[s].mods = q.mods /\ sess'[s].given = q.given
<1> DEFINE p == Numbering(q, started + 1)
<1>1. started + 1 \in 0..MaxSessions
  BY BoundsAssumption DEF Open, Types
<1>2. p \in Session
  BY <1>1 DEF Session, Numbering
<1>3. /\ p.kind = q.kind /\ p.at = q.at /\ p.owes = q.owes
      /\ p.found = q.found /\ p.target = q.target
      /\ p.todo = q.todo /\ p.tx = q.tx /\ p.mem = q.mem /\ p.out = q.out
      /\ p.fresh = q.fresh /\ p.row = q.row /\ p.mods = q.mods /\ p.given = q.given
      /\ p.page = q.page /\ p.holds = q.holds /\ p.clean = q.clean
  BY DEF Session, Numbering
<1>4. Take(s, p, X) /\ sess[s] = NoSession /\ started' = started + 1
      /\ UNCHANGED <<conflicts, terms, pages, losses>>
  BY Zenon DEF Open, Numbering
<1> HIDE DEF p
<1>5. /\ sess' \in [Slots -> Session] /\ Disturbed(s, X)
      /\ Same(sess'[s], p) /\ sess'[s].holds = p.holds \cup X
      /\ sess'[s].clean = p.clean \cup (X \ HeldByOthers(s))
      /\ doubt' = doubt \cup (X \cap HeldByOthers(s)) /\ doubt' \in SUBSET Things
  BY <1>2, <1>4, TakeEffect
<1>6. Ready(sess'[s])
  BY <1>3, <1>5 DEF Ready, Same, Goes
<1>7. TablesTyped' /\ started' \in 0..MaxSessions /\ losses' \in 0..MaxLosses
  BY <1>1, <1>4, <1>5 DEF Types, TablesTyped
<1>8. Types'
  BY <1>5, <1>6, <1>7, TypesStep
<1>9. sess'[s].holds = X /\ sess'[s].clean = X \ HeldByOthers(s)
  BY <1>3, <1>5
<1> QED BY <1>3, <1>4, <1>5, <1>8, <1>9 DEF Began, Same, Goes

\* What is the same in all new sessions
LEMMA NewSession ==
    /\ NoSession \in Session /\ NoTx \in Tx
    /\ NoSession.holds = {} /\ NoSession.clean = {} /\ NoSession.found = {}
    /\ NoSession.page = NoPage /\ NoSession.fresh = {} /\ NoSession.tx = NoTx
    /\ NoTx.gone = {} /\ NoTx.made = {}
    /\ NoSession.todo = <<>>
BY NoSessionIsSession, NoTxIsTx

\* A transaction that has inserted rules
RulesSet(t, R) == [t EXCEPT !.rules = R]

\* To write rules changes nothing else of a transaction
LEMMA NowRules ==
    ASSUME NEW t \in Tx, NEW R \in SUBSET Rules
    PROVE  /\ RulesSet(t, R) \in Tx /\ RulesSet(t, R).rules = R
           /\ RulesSet(t, R).gone = t.gone /\ RulesSet(t, R).made = t.made
           /\ RulesSet(t, R).terms = t.terms /\ RulesSet(t, R).pages = t.pages
BY DEF Tx, RulesSet

\* The files of a batch or an upload are one text to scan
LEMMA ScanOf ==
    ASSUME NEW n \in Batches \cup Uploads
    PROVE  << <<n, Code[n]>> >> \in Seq(Scan) /\ << <<n, Code[n]>> >> # <<>>
           /\ Brings[n] \in SUBSET Rules /\ UNION {Homes[r] : r \in Brings[n]} \in SUBSET Modules
<1>1. <<n, Code[n]>> \in Scan
  BY NamesAssumption DEF Scan
<1>2. Brings[n] \in SUBSET Rules
  BY NamesAssumption
<1>3. UNION {Homes[r] : r \in Brings[n]} \in SUBSET Modules
  BY <1>2, HomesAssumption
<1> QED BY <1>1, <1>2, <1>3

\* A job opens, with the rules of its batch committed
LEMMA FinishFilesEffect ==
    ASSUME Types, NEW s \in Slots, NEW n \in Batches, FinishFiles(s, n)
    PROVE  /\ Began(s, {}) /\ sess'[s].kind = "batch" /\ sess'[s].at = "detect"
           /\ sess'[s].tx = NoTx
           /\ sess'[s].todo = << <<n, Code[n]>> >>
           /\ sess'[s].owes = {"conflicts", "glossary"} \cup UNION {Homes[r] : r \in Brings[n]}
           /\ sess'[s].mem = NoSession.mem /\ sess'[s].out = NoSession.out
           /\ sess'[s].mods = <<>> /\ sess'[s].given = NoSession.given
           /\ rules' = rules \cup Brings[n] /\ Brings[n] \subseteq Rules
<1> DEFINE T == << <<n, Code[n]>> >>
           O == {"conflicts", "glossary"} \cup UNION {Homes[r] : r \in Brings[n]}
           q == [NoSession EXCEPT !.kind = "batch", !.at = "detect", !.todo = T, !.owes = O]
<1>1. T \in Seq(Scan) /\ T # <<>> /\ Brings[n] \in SUBSET Rules /\ O \in SUBSET Things
  BY ScanOf DEF Things
<1>2. Open(s, q, {}) /\ rules' = rules \cup Brings[n]
  BY DEF FinishFiles
<1>3. rules' \in SUBSET Rules
  BY <1>1, <1>2 DEF Types, TablesTyped
<1> HIDE DEF T, O
<1>4. q \in Session
  BY <1>1, NewSession DEF Session, Kinds, Places
<1>5. /\ q.kind = "batch" /\ q.at = "detect" /\ q.owes = O /\ q.todo = T
      /\ q.holds = {} /\ q.clean = {} /\ q.found = {} /\ q.page = NoPage /\ q.fresh = {}
      /\ q.tx = NoTx /\ q.mem = NoSession.mem /\ q.out = NoSession.out
      /\ q.mods = NoSession.mods /\ q.given = NoSession.given
  BY NewSession DEF Session
<1> HIDE DEF q
<1>6. Ready(q)
  BY <1>1, <1>5 DEF Ready
<1>7. /\ Began(s, {})
      /\ sess'[s].kind = q.kind /\ sess'[s].at = q.at /\ sess'[s].owes = q.owes
      /\ sess'[s].tx = q.tx /\ sess'[s].todo = q.todo
      /\ sess'[s].mem = q.mem /\ sess'[s].out = q.out
      /\ sess'[s].mods = q.mods /\ sess'[s].given = q.given
  BY <1>2, <1>3, <1>4, <1>5, <1>6, NewSession, OpenEffect
<1> QED BY <1>1, <1>2, <1>5, <1>7, NoSessionIsSession DEF O, T

\* An upload opens, with its rules not committed yet
LEMMA UploadFileEffect ==
    ASSUME Types, NEW s \in Slots, NEW n \in Uploads, UploadFile(s, n)
    PROVE  /\ Began(s, {}) /\ sess'[s].kind = "upload" /\ sess'[s].at = "detect"
           /\ sess'[s].tx.rules = Brings[n] \ rules
           /\ sess'[s].todo = << <<n, Code[n]>> >>
           /\ sess'[s].owes = {"conflicts", "glossary"}
           /\ sess'[s].mem = NoSession.mem /\ sess'[s].out = NoSession.out
           /\ sess'[s].mods = <<>> /\ sess'[s].given = NoSession.given
           /\ rules' = rules
<1> DEFINE T == << <<n, Code[n]>> >>
           O == {"conflicts", "glossary"}
           t == RulesSet(NoTx, Brings[n] \ rules)
           q == [NoSession EXCEPT !.kind = "upload", !.at = "detect", !.todo = T, !.tx = t,
                                  !.owes = O]
<1>1. T \in Seq(Scan) /\ T # <<>> /\ Brings[n] \in SUBSET Rules /\ O \in SUBSET Things
  BY ScanOf DEF Things
<1>2. rules' = rules /\ rules' \in SUBSET Rules
  BY DEF UploadFile, Types, TablesTyped
<1>3. Open(s, [NoSession EXCEPT !.kind = "upload", !.at = "detect", !.todo = T,
                  !.tx.rules = Brings[n] \ rules, !.owes = O], {})
  BY DEF UploadFile
<1>4. [NoSession EXCEPT !.kind = "upload", !.at = "detect", !.todo = T,
                  !.tx.rules = Brings[n] \ rules, !.owes = O] = q
  BY NewSession DEF Session, RulesSet
<1>5. /\ t \in Tx /\ t.rules = Brings[n] \ rules /\ t.gone = {} /\ t.made = {}
      /\ t.terms = NoTx.terms /\ t.pages = NoTx.pages
  BY <1>1, NowRules, NewSession
<1> HIDE DEF T, O, t
<1>6. q \in Session
  BY <1>1, <1>5, NewSession DEF Session, Kinds, Places
<1>7. /\ q.kind = "upload" /\ q.at = "detect" /\ q.owes = O /\ q.todo = T
      /\ q.holds = {} /\ q.clean = {} /\ q.found = {} /\ q.page = NoPage /\ q.fresh = {}
      /\ q.tx = t /\ q.mem = NoSession.mem /\ q.out = NoSession.out
      /\ q.mods = NoSession.mods /\ q.given = NoSession.given
  BY NewSession DEF Session
<1>8. Open(s, q, {})
  BY <1>3, <1>4
<1> HIDE DEF q
<1>9. Ready(q)
  BY <1>1, <1>7 DEF Ready
<1>10. /\ Began(s, {})
       /\ sess'[s].kind = q.kind /\ sess'[s].at = q.at /\ sess'[s].owes = q.owes
       /\ sess'[s].tx = q.tx /\ sess'[s].todo = q.todo
       /\ sess'[s].mem = q.mem /\ sess'[s].out = q.out
       /\ sess'[s].mods = q.mods /\ sess'[s].given = q.given
  BY <1>2, <1>5, <1>6, <1>7, <1>8, <1>9, OpenEffect
<1> QED BY <1>2, <1>5, <1>7, <1>10, NoSessionIsSession DEF O, T

\* A migration of the conflicts opens
LEMMA MigrateEffect ==
    ASSUME Types, NEW s \in Slots, Migrate(s)
    PROVE  /\ Began(s, {}) /\ sess'[s].kind = "migrate" /\ sess'[s].at = "detect"
           /\ sess'[s].tx = NoTx /\ sess'[s].owes = {}
           /\ sess'[s].mem = NoSession.mem /\ sess'[s].out = NoSession.out
           /\ sess'[s].mods = <<>> /\ sess'[s].given = NoSession.given
           /\ rules' = rules
<1> DEFINE q == [NoSession EXCEPT !.kind = "migrate", !.at = "detect"]
<1>1. Open(s, q, {}) /\ rules' = rules /\ rules' \in SUBSET Rules
  BY DEF Migrate, Types, TablesTyped
<1>2. q \in Session
  BY NewSession DEF Session, Kinds, Places
<1>3. /\ q.kind = "migrate" /\ q.at = "detect" /\ q.owes = NoSession.owes /\ q.todo = <<>>
      /\ q.holds = {} /\ q.clean = {} /\ q.found = {} /\ q.page = NoPage /\ q.fresh = {}
      /\ q.tx = NoTx /\ q.mem = NoSession.mem /\ q.out = NoSession.out
      /\ q.mods = NoSession.mods /\ q.given = NoSession.given
  BY NewSession DEF Session
<1> HIDE DEF q
<1>4. Ready(q)
  BY <1>3 DEF Ready
<1>5. /\ Began(s, {})
      /\ sess'[s].kind = q.kind /\ sess'[s].at = q.at /\ sess'[s].owes = q.owes
      /\ sess'[s].tx = q.tx
      /\ sess'[s].mem = q.mem /\ sess'[s].out = q.out
      /\ sess'[s].mods = q.mods /\ sess'[s].given = q.given
  BY <1>1, <1>2, <1>3, <1>4, NewSession, OpenEffect
<1> QED BY <1>1, <1>3, <1>5, NoSessionIsSession

\* A rescan of the glossary opens
LEMMA RescanEffect ==
    ASSUME Types, NEW s \in Slots, Rescan(s)
    PROVE  /\ Began(s, {}) /\ sess'[s].kind = "rescan" /\ sess'[s].at \in {"scan", "end"}
           /\ sess'[s].tx = NoTx /\ sess'[s].owes = {}
           /\ sess'[s].mem = NoSession.mem /\ sess'[s].out = NoSession.out
           /\ sess'[s].mods = <<>> /\ sess'[s].given = NoSession.given
           /\ rules' = rules
<1>1. rules' = rules /\ rules' \in SUBSET Rules
  BY DEF Rescan, Types, TablesTyped
<1>2. PICK order \in Orders(Served) :
         Open(s, [NoSession EXCEPT !.kind = "rescan",
                     !.at = IF order = <<>> THEN "end" ELSE "scan",
                     !.todo = [k \in DOMAIN order |-> <<order[k], Said[order[k]]>>]], {})
  BY DEF Rescan
<1> DEFINE T == [k \in DOMAIN order |-> <<order[k], Said[order[k]]>>]
           a == IF order = <<>> THEN "end" ELSE "scan"
           q == [NoSession EXCEPT !.kind = "rescan", !.at = a, !.todo = T]
<1>3. order \in Seq(Modules)
  BY OrderOf DEF Served
<1>4. T \in Seq(Scan) /\ (T = <<>> => order = <<>>)
  <2>1. Len(order) \in Nat /\ DOMAIN order = 1..Len(order)
    BY <1>3
  <2>2. \A m \in Modules : <<m, Said[m]>> \in Scan
    BY NamesAssumption DEF Scan
  <2>3. \A k \in 1..Len(order) : <<order[k], Said[order[k]]>> \in Scan
    BY <1>3, <2>2
  <2>4. T \in [1..Len(order) -> Scan] /\ DOMAIN T = 1..Len(order)
    BY <2>1, <2>3
  <2>5. T \in Seq(Scan)
    BY <2>1, <2>4
  <2>6. T = <<>> => order = <<>>
    <3>1. DOMAIN <<>> = {}
      OBVIOUS
    <3> QED BY <1>3, <2>1, <2>4, <3>1
  <2> QED BY <2>5, <2>6
<1>5. Open(s, q, {})
  BY <1>2
<1>6. a \in {"scan", "end"} /\ (a = "scan" => T # <<>>)
  BY <1>4
<1> HIDE DEF T, a
<1>7. q \in Session
  BY <1>4, <1>6, NewSession DEF Session, Kinds, Places
<1>8. /\ q.kind = "rescan" /\ q.at = a /\ q.owes = NoSession.owes /\ q.todo = T
      /\ q.holds = {} /\ q.clean = {} /\ q.found = {} /\ q.page = NoPage /\ q.fresh = {}
      /\ q.tx = NoTx /\ q.mem = NoSession.mem /\ q.out = NoSession.out
      /\ q.mods = NoSession.mods /\ q.given = NoSession.given
  BY NewSession DEF Session
<1> HIDE DEF q
<1>9. Ready(q)
  BY <1>6, <1>8 DEF Ready, ScanKinds
<1>10. /\ Began(s, {})
       /\ sess'[s].kind = q.kind /\ sess'[s].at = q.at /\ sess'[s].owes = q.owes
       /\ sess'[s].tx = q.tx
       /\ sess'[s].mem = q.mem /\ sess'[s].out = q.out
       /\ sess'[s].mods = q.mods /\ sess'[s].given = q.given
  BY <1>1, <1>5, <1>7, <1>8, <1>9, NewSession, OpenEffect
<1> QED BY <1>1, <1>6, <1>8, <1>10, NoSessionIsSession

\* A regeneration of the wiki opens
LEMMA RegenerateEffect ==
    ASSUME Types, NEW s \in Slots, Regenerate(s)
    PROVE  /\ Began(s, Served) /\ sess'[s].kind = "regenerate"
           /\ sess'[s].at = IF Served = {} THEN "end" ELSE "wiki"
           /\ sess'[s].tx = NoTx /\ sess'[s].owes = {}
           /\ sess'[s].mem = NoSession.mem /\ sess'[s].out = NoSession.out
           /\ \E order \in Orders(Served) : sess'[s].mods = order
           /\ sess'[s].given = [m \in Modules |-> RulesOf(m, rules)]
           /\ rules' = rules
<1>1. rules' = rules /\ rules' \in SUBSET Rules
  BY DEF Regenerate, Types, TablesTyped
<1>2. PICK order \in Orders(Served) :
         Open(s, [NoSession EXCEPT !.kind = "regenerate",
                      !.at = IF order = <<>> THEN "end" ELSE "wiki",
                      !.mods = order,
                      !.given = [m \in Modules |-> RulesOf(m, rules)]], Served)
  BY DEF Regenerate
<1> DEFINE a == IF order = <<>> THEN "end" ELSE "wiki"
           g == [m \in Modules |-> RulesOf(m, rules)]
           q == [NoSession EXCEPT !.kind = "regenerate", !.at = a, !.mods = order, !.given = g]
<1>3. order \in Seq(Modules) /\ (order = <<>> <=> Served = {}) /\ Served \in SUBSET Things
  BY OrderOf DEF Served, Things
<1>4. g \in [Modules -> SUBSET Rules]
  BY <1>1 DEF RulesOf
<1>5. Open(s, q, Served)
  BY <1>2
<1>6. a = (IF Served = {} THEN "end" ELSE "wiki") /\ (a = "wiki" => order # <<>>)
      /\ a \in {"end", "wiki"}
  BY <1>3
<1> HIDE DEF g, a
<1>7. q \in Session
  BY <1>3, <1>4, <1>6, NewSession DEF Session, Kinds, Places
<1>8. /\ q.kind = "regenerate" /\ q.at = a /\ q.owes = NoSession.owes /\ q.todo = <<>>
      /\ q.holds = {} /\ q.clean = {} /\ q.found = {} /\ q.page = NoPage /\ q.fresh = {}
      /\ q.tx = NoTx /\ q.mem = NoSession.mem /\ q.out = NoSession.out
      /\ q.mods = order /\ q.given = g
  BY NewSession DEF Session
<1> HIDE DEF q
<1>9. Ready(q)
  BY <1>6, <1>8 DEF Ready
<1>10. /\ Began(s, Served)
       /\ sess'[s].kind = q.kind /\ sess'[s].at = q.at /\ sess'[s].owes = q.owes
       /\ sess'[s].tx = q.tx
       /\ sess'[s].mem = q.mem /\ sess'[s].out = q.out
       /\ sess'[s].mods = q.mods /\ sess'[s].given = q.given
  BY <1>1, <1>3, <1>5, <1>7, <1>8, <1>9, NewSession, OpenEffect
<1> QED BY <1>1, <1>6, <1>8, <1>10, NoSessionIsSession DEF g

\* The session of a request about the row i, with the table loaded, which is
\* to be out
RowSession(kind, i, out) ==
    [NoSession EXCEPT !.kind = kind,
                      !.at = IF kind = "infer" THEN "define" ELSE "flush",
                      !.row = IF kind = "infer" THEN i ELSE None,
                      !.mem = terms, !.out = out]

\* What a request for one row of the glossary opens
LEMMA RowRequest ==
    ASSUME Types, NEW s \in Slots, NEW i \in Ids, NEW X \in SUBSET Things,
           NEW kind \in {"infer", "patch", "judge"}, NEW out \in [Ids -> Row],
           NEW q, q = RowSession(kind, i, out), Open(s, q, X), rules' = rules
    PROVE  /\ Began(s, X) /\ sess'[s].kind = kind
           /\ sess'[s].at = IF kind = "infer" THEN "define" ELSE "flush"
           /\ sess'[s].tx = NoTx /\ sess'[s].owes = {}
           /\ sess'[s].mem = terms /\ sess'[s].out = out
           /\ kind = "infer" => sess'[s].row = i
           /\ sess'[s].mods = <<>> /\ sess'[s].given = NoSession.given
           /\ rules' = rules
<1> DEFINE a == IF kind = "infer" THEN "define" ELSE "flush"
           r == IF kind = "infer" THEN i ELSE None
<1>1. rules' \in SUBSET Rules /\ terms \in [Ids -> Row]
  BY DEF Types, TablesTyped
<1>2. q = [NoSession EXCEPT !.kind = kind, !.at = a, !.row = r, !.mem = terms, !.out = out]
  BY DEF RowSession
<1>3. /\ a \in {"define", "flush"} /\ r \in Ids \cup {None}
      /\ kind = "infer" <=> a = "define"
      /\ kind = "infer" => r = i
  OBVIOUS
<1> HIDE DEF a, r
<1>4. q \in Session
  BY <1>1, <1>2, <1>3, NewSession DEF Session, Kinds, Places
<1>5. /\ q.kind = kind /\ q.at = a /\ q.owes = NoSession.owes /\ q.todo = <<>>
      /\ q.holds = {} /\ q.clean = {} /\ q.found = {} /\ q.page = NoPage /\ q.fresh = {}
      /\ q.tx = NoTx /\ q.mem = terms /\ q.out = out /\ q.row = r
      /\ q.mods = NoSession.mods /\ q.given = NoSession.given
  BY <1>2, NewSession DEF Session
<1>6. Ready(q)
  BY <1>3, <1>5 DEF Ready, ScanKinds
<1>7. /\ Began(s, X)
      /\ sess'[s].kind = q.kind /\ sess'[s].at = q.at /\ sess'[s].owes = q.owes
      /\ sess'[s].tx = q.tx
      /\ sess'[s].mem = q.mem /\ sess'[s].out = q.out /\ sess'[s].row = q.row
      /\ sess'[s].mods = q.mods /\ sess'[s].given = q.given
  BY <1>1, <1>4, <1>5, <1>6, NewSession, OpenEffect
<1> QED BY <1>3, <1>5, <1>7, NoSessionIsSession DEF a

\* The sessions of the requests for one row
LEMMA RowSessions ==
    ASSUME NEW i \in Ids, NEW out
    PROVE  /\ [NoSession EXCEPT !.kind = "infer", !.at = "define", !.row = i, !.mem = terms]
                = RowSession("infer", i, NoSession.out)
           /\ \A kind \in {"patch", "judge"} :
                [NoSession EXCEPT !.kind = kind, !.at = "flush", !.mem = terms, !.out = out]
                   = RowSession(kind, i, out)
<1>1. NoSession \in Session /\ NoSession.row = None
  BY NoSessionIsSession
<1>2. [NoSession EXCEPT !.kind = "infer", !.at = "define", !.row = i, !.mem = terms]
                = RowSession("infer", i, NoSession.out)
  BY <1>1 DEF Session, RowSession
<1>3. ASSUME NEW kind \in {"patch", "judge"}
      PROVE  [NoSession EXCEPT !.kind = kind, !.at = "flush", !.mem = terms, !.out = out]
                   = RowSession(kind, i, out)
  BY <1>1 DEF Session, RowSession
<1> QED BY <1>2, <1>3

\* An inference of a row opens
LEMMA InferAgainEffect ==
    ASSUME Types, NEW s \in Slots, NEW i \in Ids, InferAgain(s, i)
    PROVE  /\ Began(s, {i}) /\ sess'[s].kind = "infer" /\ sess'[s].at = "define"
           /\ sess'[s].tx = NoTx /\ sess'[s].owes = {}
           /\ sess'[s].mem = terms /\ sess'[s].out = NoSession.out
           /\ sess'[s].row = i /\ i \in Exists(terms)
           /\ sess'[s].mods = <<>> /\ sess'[s].given = NoSession.given
           /\ rules' = rules
<1> DEFINE q == [NoSession EXCEPT !.kind = "infer", !.at = "define", !.row = i, !.mem = terms]
           o == NoSession.out
<1>1. Open(s, q, {i}) /\ rules' = rules /\ i \in Exists(terms)
  BY DEF InferAgain
<1>2. o \in [Ids -> Row] /\ {i} \in SUBSET Things
  BY NewSession DEF Session, Things
<1>3. q = RowSession("infer", i, o)
  BY RowSessions
<1> HIDE DEF q, o
<1>4. /\ Began(s, {i}) /\ sess'[s].kind = "infer" /\ sess'[s].at = "define"
      /\ sess'[s].tx = NoTx /\ sess'[s].owes = {}
      /\ sess'[s].mem = terms /\ sess'[s].out = o
      /\ sess'[s].row = i
      /\ sess'[s].mods = <<>> /\ sess'[s].given = NoSession.given
  BY <1>1, <1>2, <1>3, RowRequest
<1> QED
  BY <1>1, <1>4 DEF o

\* What a PATCH or a decision makes of the row i
Edited(i, text) == [terms EXCEPT ![i].text = text, ![i].label = "edited"]
Accepted(i)     == [terms EXCEPT ![i].label = "accepted"]
Judged(i, d)    == [terms EXCEPT ![i].status = d]

\* What a PATCH and a decision make of the rows
LEMMA RequestedRows ==
    ASSUME Types, NEW i \in Ids
    PROVE  /\ \A text \in Hand :
                /\ Edited(i, text) \in [Ids -> Row]
                /\ \A j \in Ids \ {i} : Edited(i, text)[j] = terms[j]
                /\ Edited(i, text)[i]["text"] = text /\ Edited(i, text)[i]["label"] = "edited"
                /\ Edited(i, text)[i]["status"] = terms[i]["status"]
           /\ /\ Accepted(i) \in [Ids -> Row]
              /\ \A j \in Ids \ {i} : Accepted(i)[j] = terms[j]
              /\ Accepted(i)[i]["text"] = terms[i]["text"]
              /\ Accepted(i)[i]["label"] = "accepted"
              /\ Accepted(i)[i]["status"] = terms[i]["status"]
           /\ \A d \in {"approved", "rejected"} :
                /\ Judged(i, d) \in [Ids -> Row]
                /\ \A j \in Ids \ {i} : Judged(i, d)[j] = terms[j]
                /\ Judged(i, d)[i]["text"] = terms[i]["text"]
                /\ Judged(i, d)[i]["label"] = terms[i]["label"]
                /\ Judged(i, d)[i]["status"] = d
<1>1. terms \in [Ids -> Row] /\ terms[i] \in Row
  BY DEF Types, TablesTyped
<1>2. ASSUME NEW text \in Hand
      PROVE  /\ Edited(i, text) \in [Ids -> Row]
             /\ \A j \in Ids \ {i} : Edited(i, text)[j] = terms[j]
             /\ Edited(i, text)[i]["text"] = text /\ Edited(i, text)[i]["label"] = "edited"
             /\ Edited(i, text)[i]["status"] = terms[i]["status"]
  <2> DEFINE r == [[terms[i] EXCEPT !.text = text] EXCEPT !.label = "edited"]
  <2>1. r \in Row /\ r["text"] = text /\ r["label"] = "edited" /\ r["status"] = terms[i]["status"]
    BY <1>1 DEF Row, Labels
  <2>2. Edited(i, text) = [terms EXCEPT ![i] = r]
    BY <1>1 DEF Edited
  <2> HIDE DEF r
  <2> QED BY <1>1, <2>1, <2>2
<1>3. /\ Accepted(i) \in [Ids -> Row]
      /\ \A j \in Ids \ {i} : Accepted(i)[j] = terms[j]
      /\ Accepted(i)[i]["text"] = terms[i]["text"]
      /\ Accepted(i)[i]["label"] = "accepted"
      /\ Accepted(i)[i]["status"] = terms[i]["status"]
  <2> DEFINE r == [terms[i] EXCEPT !.label = "accepted"]
  <2>1. /\ r \in Row /\ r["text"] = terms[i]["text"] /\ r["label"] = "accepted"
        /\ r["status"] = terms[i]["status"]
    BY <1>1 DEF Row, Labels
  <2>2. Accepted(i) = [terms EXCEPT ![i] = r]
    BY <1>1 DEF Accepted
  <2> HIDE DEF r
  <2> QED BY <1>1, <2>1, <2>2
<1>4. ASSUME NEW d \in {"approved", "rejected"}
      PROVE  /\ Judged(i, d) \in [Ids -> Row]
             /\ \A j \in Ids \ {i} : Judged(i, d)[j] = terms[j]
             /\ Judged(i, d)[i]["text"] = terms[i]["text"]
             /\ Judged(i, d)[i]["label"] = terms[i]["label"]
             /\ Judged(i, d)[i]["status"] = d
  <2> DEFINE r == [terms[i] EXCEPT !.status = d]
  <2>1. /\ r \in Row /\ r["text"] = terms[i]["text"] /\ r["label"] = terms[i]["label"]
        /\ r["status"] = d
    BY <1>1 DEF Row, Decisions
  <2>2. Judged(i, d) = [terms EXCEPT ![i] = r]
    BY <1>1 DEF Judged
  <2> HIDE DEF r
  <2> QED BY <1>1, <2>1, <2>2
<1> QED BY <1>2, <1>3, <1>4

\* A PATCH with a definition opens
LEMMA EditEffect ==
    ASSUME Types, NEW s \in Slots, NEW i \in Ids, NEW text \in Hand, EditDefinition(s, i, text)
    PROVE  /\ Began(s, {i}) /\ sess'[s].kind = "patch" /\ sess'[s].at = "flush"
           /\ sess'[s].tx = NoTx /\ sess'[s].owes = {}
           /\ sess'[s].mem = terms /\ sess'[s].out = Edited(i, text)
           /\ sess'[s].mods = <<>> /\ sess'[s].given = NoSession.given
           /\ rules' = rules /\ i \in Exists(terms)
<1> DEFINE p == [NoSession EXCEPT !.kind = "patch", !.at = "flush", !.mem = terms,
                                  !.out = Edited(i, text)]
<1>1. Open(s, p, {i}) /\ rules' = rules /\ i \in Exists(terms)
  BY Zenon DEF EditDefinition, Edited
<1>2. Edited(i, text) \in [Ids -> Row]
  BY RequestedRows
<1>3. p = RowSession("patch", i, Edited(i, text))
  BY RowSessions
<1> HIDE DEF p
<1>4. {i} \in SUBSET Things
  BY DEF Things
<1> QED BY <1>1, <1>2, <1>3, <1>4, RowRequest

\* A PATCH that accepts the definition opens
LEMMA AcceptEffect ==
    ASSUME Types, NEW s \in Slots, NEW i \in Ids, AcceptDefinition(s, i)
    PROVE  /\ Began(s, {}) /\ sess'[s].kind = "patch" /\ sess'[s].at = "flush"
           /\ sess'[s].tx = NoTx /\ sess'[s].owes = {}
           /\ sess'[s].mem = terms /\ sess'[s].out = Accepted(i)
           /\ sess'[s].mods = <<>> /\ sess'[s].given = NoSession.given
           /\ rules' = rules /\ i \in Exists(terms)
<1> DEFINE p == [NoSession EXCEPT !.kind = "patch", !.at = "flush", !.mem = terms,
                                  !.out = Accepted(i)]
<1>1. Open(s, p, {}) /\ rules' = rules /\ i \in Exists(terms)
  BY Zenon DEF AcceptDefinition, Accepted
<1>2. Accepted(i) \in [Ids -> Row]
  BY RequestedRows
<1>3. p = RowSession("patch", i, Accepted(i))
  BY RowSessions
<1> HIDE DEF p
<1>4. {} \in SUBSET Things
  BY DEF Things
<1> QED BY <1>1, <1>2, <1>3, <1>4, RowRequest

\* A decision on a synonym opens
LEMMA JudgeEffect ==
    ASSUME Types, NEW s \in Slots, NEW i \in Ids, NEW d \in {"approved", "rejected"},
           JudgeSynonym(s, i, d)
    PROVE  /\ Began(s, {}) /\ sess'[s].kind = "judge" /\ sess'[s].at = "flush"
           /\ sess'[s].tx = NoTx /\ sess'[s].owes = {}
           /\ sess'[s].mem = terms /\ sess'[s].out = Judged(i, d)
           /\ sess'[s].mods = <<>> /\ sess'[s].given = NoSession.given
           /\ rules' = rules /\ i \in Exists(terms)
<1> DEFINE p == [NoSession EXCEPT !.kind = "judge", !.at = "flush", !.mem = terms,
                                  !.out = Judged(i, d)]
<1>1. Open(s, p, {}) /\ rules' = rules /\ i \in Exists(terms)
  BY Zenon DEF JudgeSynonym, Judged
<1>2. Judged(i, d) \in [Ids -> Row]
  BY RequestedRows
<1>3. p = RowSession("judge", i, Judged(i, d))
  BY RowSessions
<1> HIDE DEF p
<1>4. {} \in SUBSET Things
  BY DEF Things
<1> QED BY <1>1, <1>2, <1>3, <1>4, RowRequest

-----------------------------------------------------------------------------
(* Types hold to begin with, and every step keeps them *)

\* A quiet system has its types
LEMMA QuietTypes ==
    ASSUME Quiet
    PROVE  /\ sess \in [Slots -> Session] /\ \A s \in Slots : Ready(sess[s])
           /\ doubt \in SUBSET Things
           /\ started \in 0..MaxSessions /\ losses \in 0..MaxLosses
<1>1. NoSession \in Session /\ NoSession.clean = {}
  BY NoSessionIsSession
<1>2. Ready(NoSession)
  BY <1>1, ReadyNoSession DEF Goes
<1> HIDE DEF NoSession
<1> QED BY <1>1, <1>2, BoundsAssumption DEF Quiet

\* A first ingest leaves rows and pages
LEMMA LaterTables ==
    ASSUME NEW n \in Batches, LaterInit(n)
    PROVE  /\ rules \in SUBSET Rules /\ conflicts \in SUBSET Conflict
           /\ terms \in [Ids -> Row] /\ pages \in [Modules -> Pages]
           /\ \A i \in Ids : /\ terms[i]["text"] \in Ai \cup {None}
                             /\ terms[i]["label"] \in {"draft", None}
                             /\ terms[i] # NoRow => terms[i]["status"] # None
<1>1. Brings[n] \in SUBSET Rules /\ Code[n] \in Seq(Terms) /\ n \in Names
  BY NamesAssumption DEF Texts
<1>2. conflicts \in SUBSET Conflict
  <2>1. PICK filed \in Filings(Brings[n]) :
            conflicts = {[pair |-> p, by |-> 0] : p \in Found(Brings[n], filed)}
    BY DEF LaterInit
  <2>2. \A p \in Pairs : [pair |-> p, by |-> 0] \in Conflict
    BY BoundsAssumption DEF Conflict
  <2> QED BY <2>1, <2>2, FoundPairs
<1>3. /\ terms \in [Ids -> Row]
      /\ \A i \in Ids : /\ terms[i]["text"] \in Ai \cup {None}
                        /\ terms[i]["label"] \in {"draft", None}
                        /\ terms[i] # NoRow => terms[i]["status"] # None
  <2> DEFINE empty == [i \in Ids |-> NoRow]
             new(row, text) == IF row = NoRow \/ text = None THEN row
                               ELSE [row EXCEPT !.text = text, !.label = "draft"]
  <2>1. PICK rows \in Scans(empty, Code[n], n, Ids), text \in Ai \cup {None} :
            terms = [i \in Ids |-> new(rows[i], text)]
    BY DEF LaterInit
  <2>2. empty \in [Ids -> Row] /\ \A i \in Ids : empty[i] = NoRow
    BY NoRowIsRow
  <2> HIDE DEF empty
  <2>3. Scanned(empty, rows, Ids)
    BY <1>1, <2>1, <2>2, ScansExtend
  <2>4. /\ rows \in [Ids -> Row]
        /\ \A i \in Ids : rows[i]["text"] = None /\ rows[i]["label"] = None
        /\ \A i \in Ids : rows[i] # NoRow => rows[i]["status"] # None
    BY <2>2, <2>3, NoRowIsRow, NullAssumption DEF Scanned, Decisions
  <2>5. ASSUME NEW row \in Row, row["text"] = None, row["label"] = None,
               row # NoRow => row["status"] # None
        PROVE  /\ new(row, text) \in Row
               /\ new(row, text)["text"] \in Ai \cup {None}
               /\ new(row, text)["label"] \in {"draft", None}
               /\ new(row, text) # NoRow => new(row, text)["status"] # None
    <3>1. CASE row = NoRow \/ text = None
      BY <2>5, <3>1
    <3>2. CASE ~(row = NoRow \/ text = None)
      <4>1. text \in Ai /\ new(row, text) = [row EXCEPT !.text = text, !.label = "draft"]
        BY <2>1, <3>2
      <4>2. /\ new(row, text) \in Row /\ new(row, text)["text"] = text
            /\ new(row, text)["label"] = "draft" /\ new(row, text)["status"] = row["status"]
        BY <4>1 DEF Row, Labels
      <4> QED BY <2>5, <3>2, <4>1, <4>2
    <3> QED BY <3>1, <3>2
  <2> HIDE DEF new
  <2> QED BY <2>1, <2>4, <2>5
<1>4. pages \in [Modules -> Pages]
  <2>1. \A m \in Modules : [text |-> RulesOf(m, Brings[n]), links |-> RulesOf(m, Brings[n])] \in Pages
    BY <1>1 DEF RulesOf, Pages, Page
  <2> QED BY <2>1 DEF LaterInit, Pages
<1> QED BY <1>1, <1>2, <1>3, <1>4 DEF LaterInit

\* The types hold to begin with
LEMMA InitTypes == Init => Types
<1> SUFFICES ASSUME Init PROVE Types
  OBVIOUS
<1>1. Quiet /\ (EmptyInit \/ \E n \in Batches : LaterInit(n))
  BY DEF Init
<1>2. CASE EmptyInit
  <2>1. NoPage \in Pages
    BY DEF Pages
  <2> QED BY <1>1, <1>2, <2>1, QuietTypes, NoRowIsRow DEF Types, TablesTyped, EmptyInit
<1>3. CASE \E n \in Batches : LaterInit(n)
  BY <1>1, <1>3, QuietTypes, LaterTables DEF Types, TablesTyped
<1> QED BY <1>1, <1>2, <1>3

\* To infer the first row, after a commit of the rows or without one
LEMMA InferCases ==
    ASSUME NEW s \in Slots, InferFirst(s)
    PROVE  /\ sess[s].at = "infer"
           /\ \E i \in FirstOf(sess[s].fresh) :
                \/ /\ sess' = [sess EXCEPT ![s] = ToDefine(sess[s], sess[s].fresh \ {i})]
                   /\ UNCHANGED <<Tables, Counts, doubt>>
                \/ /\ Commit(s, [sess[s] EXCEPT !.row = i, !.fresh = @ \ {i}, !.at = "define"],
                             sess[s].fresh)
                   /\ UNCHANGED Counts
BY Zenon DEF InferFirst

\* A job commits its passes or, once it has, reads the rules for the wiki
LEMMA EndCases ==
    ASSUME NEW s \in Slots, EndPasses(s)
    PROVE  /\ sess[s].at = "passes done"
           /\ \/ Commit(s, sess[s], {}) /\ UNCHANGED Counts
              \/ /\ sess[s].tx = NoTx /\ sess[s].holds = {}
                 /\ \E order \in Orders(Mine(sess[s])) :
                       Take(s, [sess[s] EXCEPT !.mods = order,
                                   !.given = [m \in Modules |->
                                                IF m \in Mine(sess[s]) THEN RulesOf(m, rules)
                                                ELSE {}],
                                   !.at = IF Mine(sess[s]) = {} THEN "end" ELSE "wiki"],
                            Mine(sess[s]))
                 /\ UNCHANGED <<Tables, Counts>>
<1>1. CASE sess[s].tx # NoTx \/ sess[s].holds # {}
  BY <1>1, Zenon DEF EndPasses
<1>2. CASE ~(sess[s].tx # NoTx \/ sess[s].holds # {})
  BY <1>2, Zenon DEF EndPasses, Mine
<1> QED BY <1>1, <1>2

\* Every step keeps the types
LEMMA StepTypes == Types /\ [Next]_vars => Types'
<1> SUFFICES ASSUME Types, [Next]_vars PROVE Types'
  OBVIOUS
<1>1. CASE UNCHANGED vars
  BY <1>1 DEF vars, Types, TablesTyped
<1>2. ASSUME NEW s \in Slots, Step(s) PROVE Types'
  <2>1. CASE DetectRead(s)
    BY <2>1, DetectReadEffect
  <2>2. CASE ReplaceConflicts(s) \/ ReplaceAfterWait(s)
    BY <2>2, ReplaceEffect
  <2>3. CASE WaitToReplace(s)
    BY <2>3, WaitEffect
  <2>4. CASE ScanRead(s)
    BY <2>4, ScanReadEffect
  <2>5. CASE FlushTerms(s)
    BY <2>5, FlushEffect
  <2>6. CASE InferFirst(s)
    BY <2>6, InferCases, InferSkipEffect, InferCommitEffect
  <2>7. CASE \E text \in Ai : Define(s, text)
    BY <2>7, DefineEffect
  <2>8. CASE DefineNothing(s)
    BY <2>8, DefineNothingEffect
  <2>9. CASE EndPasses(s)
    BY <2>9, EndCases, EndCommitEffect, ReadRulesEffect
  <2>10. CASE PageWritten(s)
    BY <2>10, PageWrittenEffect
  <2>11. CASE PageSkipped(s)
    BY <2>11, PageSkippedEffect
  <2>12. CASE UpsertPage(s)
    BY <2>12, UpsertEffect
  <2>13. CASE DuplicatePage(s) \/ BreakDeadlock(s) \/ LoseSession(s)
    BY <2>13, LoseEffect
  <2>14. CASE End(s)
    BY <2>14, EndEffect
  <2> QED
    BY <1>2, <2>1, <2>2, <2>3, <2>4, <2>5, <2>6, <2>7, <2>8, <2>9, <2>10, <2>11, <2>12,
       <2>13, <2>14 DEF Step
<1>3. ASSUME NEW s \in Slots, Request(s) PROVE Types'
  <2>1. CASE \E n \in Batches : FinishFiles(s, n)
    BY <2>1, FinishFilesEffect DEF Began
  <2>2. CASE \E n \in Uploads : UploadFile(s, n)
    BY <2>2, UploadFileEffect DEF Began
  <2>3. CASE Migrate(s)
    BY <2>3, MigrateEffect DEF Began
  <2>4. CASE Rescan(s)
    BY <2>4, RescanEffect DEF Began
  <2>5. CASE Regenerate(s)
    BY <2>5, RegenerateEffect DEF Began
  <2>6. CASE \E i \in Ids : InferAgain(s, i)
    BY <2>6, InferAgainEffect DEF Began
  <2>7. CASE \E i \in Ids : AcceptDefinition(s, i)
    BY <2>7, AcceptEffect DEF Began
  <2>8. CASE \E i \in Ids, text \in Hand : EditDefinition(s, i, text)
    BY <2>8, EditEffect DEF Began
  <2>9. CASE \E i \in Ids, d \in {"approved", "rejected"} : JudgeSynonym(s, i, d)
    BY <2>9, JudgeEffect DEF Began
  <2> QED
    BY <1>3, <2>1, <2>2, <2>3, <2>4, <2>5, <2>6, <2>7, <2>8, <2>9 DEF Request
<1> QED BY <1>1, <1>2, <1>3 DEF Next

\* The types hold, and each session is where its place lets it be
LEMMA AlwaysTypes == Spec => []Types
<1>1. Init => Types
  BY InitTypes
<1>2. Types /\ [Next]_vars => Types'
  BY StepTypes
<1> QED BY <1>1, <1>2, PTL DEF Spec

\* The types say at least what TypeOK says
LEMMA TypesOK == Types => TypeOK
<1> SUFFICES ASSUME Types PROVE TypeOK
  OBVIOUS
<1>1. ASSUME NEW q \in Session, Ready(q) PROVE SessionOK(q)
  <2>1. q.tx \in Tx
    BY DEF Session
  <2>2. /\ q.tx.rules \in SUBSET Rules /\ q.tx.gone \in SUBSET Conflict
        /\ q.tx.made \in SUBSET Conflict /\ q.tx.terms \in [Ids -> Parts(Row)]
        /\ q.tx.pages \in [Modules -> PageParts]
    BY <2>1, TxIs
  <2>3. \A i \in Ids : DOMAIN q.tx.terms[i] \subseteq DOMAIN NoRow
    <3>1. DOMAIN NoRow = Columns
      BY NoRowIsRow, RowColumns
    <3>2. \A f \in Parts(Row) : DOMAIN f \subseteq Columns
      BY PartOf, RowColumns
    <3> QED BY <2>2, <3>1, <3>2
  <2>4. \A m \in Modules : DOMAIN q.tx.pages[m] \subseteq DOMAIN NoPage
    <3>1. \A f \in Parts(Page) : DOMAIN f \subseteq DOMAIN NoPage
      BY PartOf, PageIs
    <3> QED BY <2>2, <3>1 DEF PageParts
  <2>5. [rules |-> q.tx.rules, gone |-> q.tx.gone, made |-> q.tx.made] \in Writes
    BY <2>2 DEF Writes
  <2> QED BY <1>1, <2>3, <2>4, <2>5 DEF Session, SessionOK, Ready, Pages
<1> QED BY <1>1 DEF Types, TablesTyped, TypeOK, Pages

(* Every variable has its type, and a session has for itself only what it  *)
(* holds, whoever takes which step of whichever pass when.                 *)
THEOREM UpkeepTypeCorrect == Spec => []TypeOK
<1>1. Types => TypeOK
  BY TypesOK
<1> QED BY <1>1, AlwaysTypes, PTL

-----------------------------------------------------------------------------
(* Who has what for himself *)

\* What sessions work on as a whole: the two tables, and the pages of a module
Shared == {"conflicts", "glossary"} \cup Modules

(* What a session has for itself no other holds; and a table or a page     *)
(* that a session holds and does not have for itself is in doubt.          *)
HoldInv ==
    /\ \A s \in Slots : \A o \in Others(s) : sess[s].clean \cap sess[o].holds = {}
    /\ \A s \in Slots : (sess[s].holds \ sess[s].clean) \cap Shared \subseteq doubt

\* A session takes X
LEMMA TakeHolds ==
    ASSUME Types, HoldInv, NEW s \in Slots, NEW X \in SUBSET Things, Disturbed(s, X),
           sess'[s].holds = sess[s].holds \cup X,
           sess'[s].clean = sess[s].clean \cup (X \ HeldByOthers(s)),
           doubt' = doubt \cup (X \cap HeldByOthers(s))
    PROVE  HoldInv'
<1>1. \A o \in Others(s) : /\ sess'[o].holds = sess[o].holds /\ o \in Slots
                           /\ sess'[o].clean = sess[o].clean \ X
                           /\ sess[o].holds \subseteq HeldByOthers(s)
  BY DEF Disturbed, HeldByOthers, Others
<1>2. ASSUME NEW a \in Slots, NEW b \in Others(a)
      PROVE  sess'[a].clean \cap sess'[b].holds = {}
  <2>1. sess[a].clean \cap sess[b].holds = {}
    BY DEF HoldInv
  <2>2. CASE a = s
    BY <1>1, <1>2, <2>1, <2>2
  <2>3. CASE b = s
    <3>1. a \in Others(s)
      BY <1>2, <2>3 DEF Others
    <3> QED BY <1>1, <2>1, <2>3, <3>1
  <2>4. CASE a # s /\ b # s
    <3>1. a \in Others(s) /\ b \in Others(s)
      BY <2>4 DEF Others
    <3> QED BY <1>1, <2>1, <3>1
  <2> QED BY <2>2, <2>3, <2>4
<1>3. ASSUME NEW a \in Slots
      PROVE  (sess'[a].holds \ sess'[a].clean) \cap Shared \subseteq doubt'
  <2>1. (sess[a].holds \ sess[a].clean) \cap Shared \subseteq doubt
    BY DEF HoldInv
  <2>2. CASE a = s
    BY <2>1, <2>2
  <2>3. CASE a # s
    <3>1. a \in Others(s)
      BY <2>3 DEF Others
    <3> QED BY <1>1, <2>1, <3>1
  <2> QED BY <2>2, <2>3
<1> QED BY <1>2, <1>3 DEF HoldInv, Others

\* A session holds no more than before; X is disturbed
LEMMA DropHolds ==
    ASSUME Types, HoldInv, NEW s \in Slots, NEW X \in SUBSET Things, Disturbed(s, X),
           sess'[s].holds \subseteq sess[s].holds,
           sess'[s].clean \subseteq sess[s].clean,
           (sess'[s].holds \ sess'[s].clean) \cap Shared \subseteq
               (sess[s].holds \ sess[s].clean) \cup X,
           doubt' = doubt \cup X
    PROVE  HoldInv'
<1>1. \A o \in Others(s) : /\ sess'[o].holds = sess[o].holds /\ o \in Slots
                           /\ sess'[o].clean = sess[o].clean \ X
  BY DEF Disturbed, Others
<1>2. ASSUME NEW a \in Slots, NEW b \in Others(a)
      PROVE  sess'[a].clean \cap sess'[b].holds = {}
  <2>1. sess[a].clean \cap sess[b].holds = {} /\ b \in Slots
    BY DEF HoldInv, Others
  <2>2. sess'[a].clean \subseteq sess[a].clean
    BY <1>1 DEF Others
  <2>3. sess'[b].holds \subseteq sess[b].holds
    BY <1>1, <2>1 DEF Others
  <2> QED BY <2>1, <2>2, <2>3
<1>3. ASSUME NEW a \in Slots
      PROVE  (sess'[a].holds \ sess'[a].clean) \cap Shared \subseteq doubt'
  <2>1. (sess[a].holds \ sess[a].clean) \cap Shared \subseteq doubt
    BY DEF HoldInv
  <2>2. CASE a = s
    BY <2>1, <2>2
  <2>3. CASE a # s
    <3>1. a \in Others(s)
      BY <2>3 DEF Others
    <3> QED BY <1>1, <2>1, <3>1
  <2> QED BY <2>2, <2>3
<1> QED BY <1>2, <1>3 DEF HoldInv, Others

\* A session goes on with what it has
LEMMA SameHoldings ==
    ASSUME Types, HoldInv, NEW s \in Slots, Disturbed(s, {}),
           SameHolds(sess'[s], sess[s]), doubt' = doubt
    PROVE  HoldInv'
<1>1. {} \in SUBSET Things /\ doubt' = doubt \cup {}
  OBVIOUS
<1> QED BY <1>1, DropHolds DEF SameHolds

\* A session commits; it keeps rows at most
LEMMA CommitHolds ==
    ASSUME Types, HoldInv, NEW s \in Slots, NEW keep \in SUBSET Ids, Commits(s, keep)
    PROVE  HoldInv'
<1>1. \A o \in Others(s) : /\ sess'[o].holds = sess[o].holds /\ o \in Slots
                           /\ sess'[o].clean = sess[o].clean \ Stale(s)
  BY DEF Commits, Disturbed, Others
<1>2. /\ sess'[s].holds \subseteq sess[s].holds \cap keep
      /\ sess'[s].clean \subseteq sess[s].clean
  BY DEF Commits
<1>3. ASSUME NEW a \in Slots, NEW b \in Others(a)
      PROVE  sess'[a].clean \cap sess'[b].holds = {}
  <2>1. sess[a].clean \cap sess[b].holds = {} /\ b \in Slots
    BY DEF HoldInv, Others
  <2>2. sess'[a].clean \subseteq sess[a].clean
    BY <1>1, <1>2 DEF Others
  <2>3. sess'[b].holds \subseteq sess[b].holds
    BY <1>1, <1>2, <2>1 DEF Others
  <2> QED BY <2>1, <2>2, <2>3
<1>4. ASSUME NEW a \in Slots
      PROVE  (sess'[a].holds \ sess'[a].clean) \cap Shared \subseteq doubt'
  <2>1. (sess[a].holds \ sess[a].clean) \cap Shared \subseteq doubt
    BY DEF HoldInv
  <2>2. CASE a = s
    BY <1>2, <2>2, ThingsAssumption DEF Shared
  <2>3. CASE a # s
    <3>1. a \in Others(s) /\ s \in Others(a)
      BY <2>3 DEF Others
    <3>2. sess[s].clean \cap sess[a].holds = {}
      BY <3>1 DEF HoldInv
    <3>3. doubt' = (doubt \ (sess[s].clean \ (keep \cup {"glossary"}))) \cup Stale(s)
      BY DEF Commits
    <3> QED BY <1>1, <2>1, <3>1, <3>2, <3>3
  <2> QED BY <2>2, <2>3
<1> QED BY <1>3, <1>4 DEF HoldInv, Others

\* A session opens
LEMMA BeganHolds ==
    ASSUME Types, HoldInv, NEW s \in Slots, NEW X, Began(s, X)
    PROVE  HoldInv'
<1>1. sess[s].holds = {} /\ sess[s].clean = {}
  BY NoSessionIsSession DEF Began
<1> QED BY <1>1, TakeHolds DEF Began

\* The rows without a definition, and the modules a job serves, are things
LEMMA FreshRows ==
    ASSUME Types, NEW s \in Slots
    PROVE  /\ Undefined(sess[s]) \in SUBSET Ids /\ Undefined(sess[s]) \in SUBSET Things
           /\ sess[s].fresh \in SUBSET Ids
           /\ Mine(sess[s]) \in SUBSET Modules /\ Mine(sess[s]) \in SUBSET Things
<1>1. sess[s] \in Session
  BY Holdings
<1> QED BY <1>1 DEF Undefined, Newborn, Dirty, Things, Session, Mine

\* No step gives anybody for himself what another has for himself
LEMMA StepHolds == Types /\ HoldInv /\ [Next]_vars => HoldInv'
<1> SUFFICES ASSUME Types, HoldInv, [Next]_vars PROVE HoldInv'
  OBVIOUS
<1>1. CASE UNCHANGED vars
  BY <1>1 DEF vars, HoldInv, Others
<1>2. ASSUME NEW s \in Slots, Step(s) PROVE HoldInv'
  <2>0. {"conflicts"} \in SUBSET Things /\ {"glossary"} \in SUBSET Things
    BY DEF Things
  <2>1. CASE DetectRead(s)
    BY <2>0, <2>1, DetectReadEffect, TakeHolds
  <2>2. CASE ReplaceConflicts(s) \/ ReplaceAfterWait(s)
    BY <2>2, ReplaceEffect, SameHoldings
  <2>3. CASE WaitToReplace(s)
    BY <2>3, WaitEffect, SameHoldings
  <2>4. CASE ScanRead(s)
    BY <2>0, <2>4, ScanReadEffect, TakeHolds
  <2>5. CASE FlushTerms(s)
    BY <2>5, FlushEffect, TakeHolds, FreshRows
  <2>6. CASE InferFirst(s)
    <3>1. PICK i \in FirstOf(sess[s].fresh) :
            \/ /\ sess' = [sess EXCEPT ![s] = ToDefine(sess[s], sess[s].fresh \ {i})]
               /\ UNCHANGED <<Tables, Counts, doubt>>
            \/ /\ Commit(s, [sess[s] EXCEPT !.row = i, !.fresh = @ \ {i}, !.at = "define"],
                         sess[s].fresh)
               /\ UNCHANGED Counts
      BY <2>6, InferCases
    <3>2. sess[s].at = "infer"
      BY <2>6, InferCases
    <3>3. \/ Disturbed(s, {}) /\ SameHolds(sess'[s], sess[s]) /\ doubt' = doubt
          \/ Commits(s, sess[s].fresh)
      BY <3>1, <3>2, InferSkipEffect, InferCommitEffect
    <3> QED BY <3>3, SameHoldings, CommitHolds, FreshRows
  <2>7. CASE \E text \in Ai : Define(s, text)
    BY <2>7, DefineEffect, SameHoldings
  <2>8. CASE DefineNothing(s)
    <3>1. /\ Disturbed(s, {}) /\ sess'[s].holds = sess[s].holds
          /\ sess'[s].clean = sess[s].clean \ {sess[s].row} /\ sess[s].row \in Ids
          /\ doubt' = doubt
      BY <2>8, DefineNothingEffect
    <3>2. sess[s].row \notin Shared
      BY <3>1, ThingsAssumption DEF Shared
    <3> QED BY <3>1, <3>2, DropHolds
  <2>9. CASE EndPasses(s)
    <3>1. \/ Commits(s, {})
          \/ /\ Disturbed(s, Mine(sess[s]))
             /\ sess'[s].holds = sess[s].holds \cup Mine(sess[s])
             /\ sess'[s].clean = sess[s].clean \cup (Mine(sess[s]) \ HeldByOthers(s))
             /\ doubt' = doubt \cup (Mine(sess[s]) \cap HeldByOthers(s))
      BY <2>9, EndCases, EndCommitEffect, ReadRulesEffect
    <3> QED BY <3>1, CommitHolds, TakeHolds, FreshRows
  <2>10. CASE PageWritten(s)
    BY <2>10, PageWrittenEffect, SameHoldings
  <2>11. CASE PageSkipped(s)
    <3>1. {Head(sess[s].mods)} \in SUBSET Things
      <4>1. sess[s].mods \in Seq(Modules) /\ sess[s].mods # <<>>
        BY <2>11, PageSkippedEffect
      <4> QED BY <4>1, TailOf DEF Things
    <3> QED BY <2>11, <3>1, PageSkippedEffect, DropHolds
  <2>12. CASE UpsertPage(s)
    BY <2>12, UpsertEffect, SameHoldings
  <2>13. CASE DuplicatePage(s) \/ BreakDeadlock(s) \/ LoseSession(s)
    BY <2>13, LoseEffect, NoSessionIsSession, DropHolds DEF SameHolds
  <2>14. CASE End(s)
    BY <2>14, EndEffect, CommitHolds
  <2> QED
    BY <1>2, <2>1, <2>2, <2>3, <2>4, <2>5, <2>6, <2>7, <2>8, <2>9, <2>10, <2>11, <2>12,
       <2>13, <2>14 DEF Step
<1>3. ASSUME NEW s \in Slots, Request(s) PROVE HoldInv'
  <2>1. \E X : Began(s, X)
    <3>1. CASE \/ \E n \in Batches : FinishFiles(s, n)
               \/ \E n \in Uploads : UploadFile(s, n)
               \/ Migrate(s) \/ Rescan(s) \/ Regenerate(s)
      BY <3>1, FinishFilesEffect, UploadFileEffect, MigrateEffect, RescanEffect,
         RegenerateEffect
    <3>2. CASE \E i \in Ids : \/ InferAgain(s, i) \/ AcceptDefinition(s, i)
                              \/ \E text \in Hand : EditDefinition(s, i, text)
                              \/ \E d \in {"approved", "rejected"} : JudgeSynonym(s, i, d)
      BY <3>2, InferAgainEffect, AcceptEffect, EditEffect, JudgeEffect
    <3> QED BY <1>3, <3>1, <3>2 DEF Request
  <2> QED BY <2>1, BeganHolds
<1> QED BY <1>1, <1>2, <1>3 DEF Next

\* Nobody holds anything to begin with
LEMMA InitHolds == Init => HoldInv
<1>1. NoSession.holds = {} /\ NoSession.clean = {}
  BY NoSessionIsSession
<1> QED BY <1>1 DEF Init, Quiet, HoldInv, Others

-----------------------------------------------------------------------------
(* Conflicts are exact *)

\* The places of a detection
Detecting == {"detect", "replace", "blocked"}

\* What a session has to do with the table of conflicts
ConflictDuty(q) ==
    /\ q.at # "detect" /\ "conflicts" \in q.owes => "conflicts" \in q.holds
    /\ q.tx.rules # {} => "conflicts" \in q.owes
    /\ q.tx.gone # {} \/ q.tx.made # {} \/ q.at \in {"replace", "blocked"}
          => "conflicts" \in q.holds
    /\ q.at = "detect" => "conflicts" \notin q.holds
    /\ q.at = "blocked" => "conflicts" \notin q.clean

\* What it has found, and inserted, are conflicts of the rules in R, each once
FoundRight(q, R) ==
    /\ \A p \in q.found : p \in Clash /\ p \subseteq R
    /\ \A e \in q.tx.made : e.pair \in Clash /\ e.pair \subseteq R
    /\ \A e, f \in q.tx.made : e.pair = f.pair => e = f

\* P has every pair of R that clashes and may conflict
AllOf(P, R) == \A p \in Clash : p \subseteq R /\ Apart(p) => p \in P

\* The pairs of conflicts
PairsIn(C) == {e.pair : e \in C}

\* Another owes the table a detection
ConflictsOwedBut(s) == \E o \in Others(s) : "conflicts" \in sess[o].owes

(* A session that has the table for itself has found, or is about to leave *)
(* in it, every conflict: unless the rules of another are not compared yet *)
FoundAll(s) ==
    "conflicts" \in sess[s].clean =>
        /\ sess[s].at = "replace" /\ ~ConflictsOwedBut(s) =>
               AllOf(sess[s].found, SeenRules(s))
        /\ sess[s].at # "replace" => sess[s].tx.gone = conflicts
        /\ sess[s].at # "replace" /\ ~ConflictsOwedBut(s) =>
               AllOf(PairsIn(sess[s].tx.made), SeenRules(s))

\* The conflicts on record are exact, and what each session makes of them will be
ConflictInv ==
    /\ \A s \in Slots : /\ ConflictDuty(sess[s])
                        /\ FoundRight(sess[s], SeenRules(s))
                        /\ FoundAll(s)
    /\ ConflictsExact

\* Two rules of two services are found, however the join files them
LEMMA FoundApart ==
    ASSUME NEW R, NEW filed \in Filings(R)
    PROVE  AllOf(Found(R, filed), R)
<1> SUFFICES ASSUME NEW p \in Clash, p \subseteq R, Apart(p)
             PROVE  p \in Found(R, filed)
  BY DEF AllOf
<1>1. p \in Pairs
  BY ClashAssumption
<1>2. PICK a \in p, b \in p : a # b /\ p = {a, b}
  BY <1>1 DEF Pairs
<1>3. filed[a] \in HomesOr(a) /\ filed[b] \in HomesOr(b)
  BY <1>2 DEF Filings
<1>4. HomesOr(a) \cap HomesOr(b) = {}
  BY <1>2 DEF Apart
<1> QED BY <1>2, <1>3, <1>4 DEF Found

\* A session that has nothing to do with conflicts in this step
ConflictsAside(p, q) ==
    /\ p.found = q.found /\ p.owes = q.owes
    /\ p.tx.rules = q.tx.rules /\ p.tx.gone = q.tx.gone /\ p.tx.made = q.tx.made
    /\ "conflicts" \in p.holds <=> "conflicts" \in q.holds
    /\ "conflicts" \in p.clean <=> "conflicts" \in q.clean
    /\ p.at \in Detecting \/ q.at \in Detecting => p.at = q.at

\* A step that leaves the conflicts alone leaves the others as they are to them
LEMMA AsideOthers ==
    ASSUME NEW s \in Slots, NEW X, Disturbed(s, X), "conflicts" \notin X
    PROVE  \A o \in Others(s) : ConflictsAside(sess'[o], sess[o])
BY DEF Disturbed, ConflictsAside, Same, Goes

\* A step that leaves the conflicts alone keeps their invariant
LEMMA ConflictsAsideStep ==
    ASSUME Types, ConflictInv, NEW s \in Slots, NEW X, Disturbed(s, X), "conflicts" \notin X,
           ConflictsAside(sess'[s], sess[s]), rules' = rules, conflicts' = conflicts,
           "conflicts" \in doubt' <=> "conflicts" \in doubt
    PROVE  ConflictInv'
<1>1. \A o \in Slots : ConflictsAside(sess'[o], sess[o])
  BY AsideOthers DEF Others
<1>2. \A o \in Slots : SeenRules(o)' = SeenRules(o)
  BY <1>1 DEF SeenRules, ConflictsAside
<1>3. \A o \in Slots : ConflictsOwedBut(o)' <=> ConflictsOwedBut(o)
  BY <1>1 DEF ConflictsOwedBut, ConflictsAside, Others
<1>4. ASSUME NEW o \in Slots PROVE ConflictDuty(sess'[o])
  <2>1. ConflictDuty(sess[o]) /\ ConflictsAside(sess'[o], sess[o])
    BY <1>1 DEF ConflictInv
  <2> QED BY <2>1 DEF ConflictDuty, ConflictsAside, Detecting
<1>5. ASSUME NEW o \in Slots PROVE FoundRight(sess'[o], SeenRules(o)')
  <2>1. FoundRight(sess[o], SeenRules(o)) /\ ConflictsAside(sess'[o], sess[o])
    BY <1>1 DEF ConflictInv
  <2> QED BY <1>2, <2>1 DEF FoundRight, ConflictsAside
<1>6. ASSUME NEW o \in Slots PROVE FoundAll(o)'
  <2>1. FoundAll(o) /\ ConflictsAside(sess'[o], sess[o])
    BY <1>1 DEF ConflictInv
  <2> QED BY <1>2, <1>3, <2>1 DEF FoundAll, ConflictsAside, Detecting
<1>7. ConflictsExact'
  <2>1. "conflicts" \in Owed' <=> "conflicts" \in Owed
    BY <1>1 DEF Owed, ConflictsAside
  <2>2. ConflictsExact
    BY DEF ConflictInv
  <2> QED BY <2>1, <2>2 DEF ConflictsExact, Complete, Sound
<1> QED BY <1>4, <1>5, <1>6, <1>7 DEF ConflictInv

\* A session opens that has a detection to do, maybe with rules of its own
LEMMA OpensDetecting ==
    ASSUME Types, ConflictInv, NEW s \in Slots, Began(s, {}), sess'[s].at = "detect",
           rules \subseteq rules',
           rules' # rules \/ sess'[s].tx.rules # {} => "conflicts" \in sess'[s].owes
    PROVE  ConflictInv'
<1>1. /\ Disturbed(s, {}) /\ sess[s] = NoSession /\ conflicts' = conflicts /\ doubt' = doubt
      /\ sess'[s].found = {} /\ sess'[s].tx.gone = {} /\ sess'[s].tx.made = {}
      /\ sess'[s].holds = {} /\ sess'[s].clean = {}
  BY DEF Began
<1>2. NoSession.owes = {}
  BY NoSessionIsSession
<1>3. \A o \in Others(s) : /\ ConflictsAside(sess'[o], sess[o]) /\ o \in Slots
                           /\ s \in Others(o)
  BY <1>1, AsideOthers DEF Others
<1>4. \A o \in Others(s) : SeenRules(o) \subseteq SeenRules(o)'
  BY <1>3 DEF SeenRules, ConflictsAside
<1>5. \A o \in Slots : ConflictsOwedBut(o) => ConflictsOwedBut(o)'
  BY <1>1, <1>2, <1>3 DEF ConflictsOwedBut, ConflictsAside, Others
<1>6. ConflictDuty(sess'[s]) /\ FoundRight(sess'[s], SeenRules(s)') /\ FoundAll(s)'
  BY <1>1 DEF ConflictDuty, FoundRight, FoundAll
<1>7. ASSUME NEW o \in Others(s)
      PROVE  ConflictDuty(sess'[o]) /\ FoundRight(sess'[o], SeenRules(o)') /\ FoundAll(o)'
  <2>1. ConflictDuty(sess[o]) /\ FoundRight(sess[o], SeenRules(o)) /\ FoundAll(o)
    BY <1>3 DEF ConflictInv
  <2>2. ConflictsAside(sess'[o], sess[o])
    BY <1>3
  <2>3. ConflictDuty(sess'[o])
    BY <2>1, <2>2 DEF ConflictDuty, ConflictsAside, Detecting
  <2>4. FoundRight(sess'[o], SeenRules(o)')
    BY <1>4, <2>1, <2>2 DEF FoundRight, ConflictsAside
  <2>5. rules' # rules => ConflictsOwedBut(o)'
    BY <1>3 DEF ConflictsOwedBut
  <2>6. rules' = rules => SeenRules(o)' = SeenRules(o)
    BY <2>2 DEF SeenRules, ConflictsAside
  <2>7. ~ConflictsOwedBut(o)' => ~ConflictsOwedBut(o) /\ SeenRules(o)' = SeenRules(o)
    BY <1>3, <1>5, <2>5, <2>6
  <2>8. FoundAll(o)'
    BY <1>1, <2>1, <2>2, <2>7 DEF FoundAll, ConflictsAside, Detecting
  <2> QED BY <2>3, <2>4, <2>8
<1>8. ConflictsExact'
  <2>1. "conflicts" \notin Owed' => "conflicts" \notin Owed /\ "conflicts" \notin sess'[s].owes
    BY <1>1, <1>2, <1>3 DEF Owed, ConflictsAside, Others
  <2>2. "conflicts" \notin sess'[s].owes => rules' = rules
    OBVIOUS
  <2>3. ConflictsExact
    BY DEF ConflictInv
  <2> QED BY <1>1, <2>1, <2>2, <2>3 DEF ConflictsExact, Complete, Sound
<1> QED BY <1>6, <1>7, <1>8 DEF ConflictInv, Others

\* The rules are compared
LEMMA DetectConflicts ==
    ASSUME Types, ConflictInv, NEW s \in Slots, DetectRead(s)
    PROVE  ConflictInv'
<1>1. /\ Disturbed(s, {"conflicts"})
      /\ sess[s].at = "detect" /\ sess'[s].at = "replace"
      /\ sess'[s].tx = sess[s].tx /\ sess'[s].owes = sess[s].owes
      /\ sess'[s].holds = sess[s].holds \cup {"conflicts"}
      /\ doubt \subseteq doubt'
      /\ rules' = rules /\ conflicts' = conflicts
  BY DetectReadEffect
<1>2. PICK filed \in Filings(SeenRules(s)) : sess'[s].found = Found(SeenRules(s), filed)
  BY DetectReadEffect
<1>3. \A o \in Slots : /\ SeenRules(o)' = SeenRules(o)
                       /\ sess'[o].owes = sess[o].owes
  BY <1>1 DEF SeenRules, Disturbed, Same, Goes, Others
<1>4. \A o \in Slots : ConflictsOwedBut(o)' <=> ConflictsOwedBut(o)
  BY <1>3 DEF ConflictsOwedBut, Others
<1>5. ConflictDuty(sess'[s]) /\ FoundRight(sess'[s], SeenRules(s)') /\ FoundAll(s)'
  <2>1. ConflictDuty(sess[s])
    BY DEF ConflictInv
  <2>2. sess'[s].tx.made = {} /\ ConflictDuty(sess'[s])
    BY <1>1, <2>1 DEF ConflictDuty
  <2>3. AllOf(sess'[s].found, SeenRules(s)')
    BY <1>2, <1>3, FoundApart
  <2>4. FoundRight(sess'[s], SeenRules(s)')
    BY <1>2, <1>3, <2>2 DEF FoundRight, Found
  <2> QED BY <1>1, <2>2, <2>3, <2>4 DEF FoundAll
<1>6. ASSUME NEW o \in Others(s)
      PROVE  ConflictDuty(sess'[o]) /\ FoundRight(sess'[o], SeenRules(o)') /\ FoundAll(o)'
  <2>1. o \in Slots /\ ConflictDuty(sess[o]) /\ FoundRight(sess[o], SeenRules(o))
    BY DEF ConflictInv, Others
  <2>2. /\ Same(sess'[o], sess[o]) /\ sess'[o].holds = sess[o].holds
        /\ "conflicts" \notin sess'[o].clean
    BY <1>1 DEF Disturbed
  <2> QED BY <1>3, <2>1, <2>2 DEF ConflictDuty, FoundRight, FoundAll, Same, Goes
<1>7. ConflictsExact'
  <2>1. Owed' = Owed
    BY <1>3 DEF Owed
  <2>2. ConflictsExact
    BY DEF ConflictInv
  <2> QED BY <1>1, <2>1, <2>2 DEF ConflictsExact, Complete, Sound
<1> QED BY <1>5, <1>6, <1>7 DEF ConflictInv, Others

\* The rows are replaced, in the session's transaction
LEMMA ReplaceConflictsKeeps ==
    ASSUME Types, ConflictInv, NEW s \in Slots, ReplaceConflicts(s) \/ ReplaceAfterWait(s)
    PROVE  ConflictInv'
<1>1. /\ Disturbed(s, {})
      /\ sess[s].at \in {"replace", "blocked"} /\ sess'[s].at \in {"end", "scan"}
      /\ sess'[s].owes = sess[s].owes /\ sess'[s].found = {}
      /\ sess'[s].tx.rules = sess[s].tx.rules
      /\ sess[s].at = "replace" => sess'[s].tx.gone = conflicts
      /\ sess'[s].tx.made = MadeBy(sess[s])
      /\ SameHolds(sess'[s], sess[s])
      /\ rules' = rules /\ conflicts' = conflicts /\ doubt' = doubt
  BY ReplaceEffect
<1>2. \A o \in Slots : /\ SeenRules(o)' = SeenRules(o)
                       /\ sess'[o].owes = sess[o].owes
  BY <1>1 DEF SeenRules, Disturbed, Same, Goes, Others
<1>3. \A o \in Slots : ConflictsOwedBut(o)' <=> ConflictsOwedBut(o)
  BY <1>2 DEF ConflictsOwedBut, Others
<1>4. ConflictDuty(sess'[s]) /\ FoundRight(sess'[s], SeenRules(s)') /\ FoundAll(s)'
  <2>1. ConflictDuty(sess[s]) /\ FoundRight(sess[s], SeenRules(s)) /\ FoundAll(s)
    BY DEF ConflictInv
  <2>2. ConflictDuty(sess'[s])
    BY <1>1, <2>1 DEF ConflictDuty, SameHolds
  <2>3. /\ PairsIn(MadeBy(sess[s])) = sess[s].found
        /\ \A e \in MadeBy(sess[s]) : e.pair \in sess[s].found
        /\ \A e, f \in MadeBy(sess[s]) : e.pair = f.pair => e = f
    <3> DEFINE n == sess[s].no
               F == sess[s].found
               M == {[pair |-> p, by |-> n] : p \in F}
    <3>1. \A e \in M : \E p \in F : e = [pair |-> p, by |-> n] /\ e.pair = p
      OBVIOUS
    <3>2. \A p \in F : \E e \in M : e.pair = p
      <4>1. \A p \in F : [pair |-> p, by |-> n] \in M /\ [pair |-> p, by |-> n].pair = p
        OBVIOUS
      <4> QED BY <4>1
    <3> HIDE DEF M
    <3>3. PairsIn(M) = F
      BY <3>1, <3>2 DEF PairsIn
    <3>4. \A e, f \in M : e.pair = f.pair => e = f
      BY <3>1
    <3>5. MadeBy(sess[s]) = M
      BY DEF MadeBy, M
    <3> QED BY <3>1, <3>3, <3>4, <3>5
  <2>4. FoundRight(sess'[s], SeenRules(s)')
    BY <1>1, <1>2, <2>1, <2>3 DEF FoundRight
  <2>5. "conflicts" \in sess'[s].clean => "conflicts" \in sess[s].clean /\ sess[s].at = "replace"
    BY <1>1, <2>1 DEF ConflictDuty, SameHolds
  <2>6. FoundAll(s)'
    BY <1>1, <1>2, <1>3, <2>1, <2>3, <2>5 DEF FoundAll
  <2> QED BY <2>2, <2>4, <2>6
<1>5. ASSUME NEW o \in Others(s)
      PROVE  ConflictDuty(sess'[o]) /\ FoundRight(sess'[o], SeenRules(o)') /\ FoundAll(o)'
  <2>1. /\ o \in Slots /\ ConflictDuty(sess[o]) /\ FoundRight(sess[o], SeenRules(o))
        /\ FoundAll(o)
    BY DEF ConflictInv, Others
  <2>2. /\ Same(sess'[o], sess[o]) /\ sess'[o].holds = sess[o].holds
        /\ sess'[o].clean = sess[o].clean
    BY <1>1 DEF Disturbed
  <2> QED
    BY <1>1, <1>2, <1>3, <2>1, <2>2 DEF ConflictDuty, FoundRight, FoundAll, Same, Goes
<1>6. ConflictsExact'
  <2>1. Owed' = Owed
    BY <1>2 DEF Owed
  <2>2. ConflictsExact
    BY DEF ConflictInv
  <2> QED BY <1>1, <2>1, <2>2 DEF ConflictsExact, Complete, Sound
<1> QED BY <1>4, <1>5, <1>6 DEF ConflictInv, Others

\* The session waits for another that replaces the rows
LEMMA WaitConflicts ==
    ASSUME Types, HoldInv, ConflictInv, NEW s \in Slots, WaitToReplace(s)
    PROVE  ConflictInv'
<1>1. /\ Disturbed(s, {}) /\ sess[s].at = "replace" /\ sess'[s].at = "blocked"
      /\ LockedConflicts(s) # {}
      /\ sess'[s].owes = sess[s].owes /\ sess'[s].found = sess[s].found
      /\ sess'[s].tx = sess[s].tx /\ SameHolds(sess'[s], sess[s])
      /\ rules' = rules /\ conflicts' = conflicts /\ doubt' = doubt
  BY WaitEffect
<1>2. \A o \in Slots : /\ SeenRules(o)' = SeenRules(o)
                       /\ sess'[o].owes = sess[o].owes
  BY <1>1 DEF SeenRules, Disturbed, Same, Goes, Others
<1>3. \A o \in Slots : ConflictsOwedBut(o)' <=> ConflictsOwedBut(o)
  BY <1>2 DEF ConflictsOwedBut, Others
<1>4. "conflicts" \notin sess[s].clean
  <2>1. PICK o \in Others(s) : sess[o].tx.gone # {}
    BY <1>1 DEF LockedConflicts
  <2>2. "conflicts" \in sess[o].holds
    BY <2>1 DEF ConflictInv, ConflictDuty, Others
  <2> QED BY <2>1, <2>2 DEF HoldInv
<1>5. ConflictDuty(sess'[s]) /\ FoundRight(sess'[s], SeenRules(s)') /\ FoundAll(s)'
  <2>1. ConflictDuty(sess[s]) /\ FoundRight(sess[s], SeenRules(s))
    BY DEF ConflictInv
  <2> QED BY <1>1, <1>2, <1>4, <2>1 DEF ConflictDuty, FoundRight, FoundAll, SameHolds
<1>6. ASSUME NEW o \in Others(s)
      PROVE  ConflictDuty(sess'[o]) /\ FoundRight(sess'[o], SeenRules(o)') /\ FoundAll(o)'
  <2>1. /\ o \in Slots /\ ConflictDuty(sess[o]) /\ FoundRight(sess[o], SeenRules(o))
        /\ FoundAll(o)
    BY DEF ConflictInv, Others
  <2>2. /\ Same(sess'[o], sess[o]) /\ sess'[o].holds = sess[o].holds
        /\ sess'[o].clean = sess[o].clean
    BY <1>1 DEF Disturbed
  <2> QED
    BY <1>1, <1>2, <1>3, <2>1, <2>2 DEF ConflictDuty, FoundRight, FoundAll, Same, Goes
<1>7. ConflictsExact'
  <2>1. Owed' = Owed
    BY <1>2 DEF Owed
  <2>2. ConflictsExact
    BY DEF ConflictInv
  <2> QED BY <1>1, <2>1, <2>2 DEF ConflictsExact, Complete, Sound
<1> QED BY <1>5, <1>6, <1>7 DEF ConflictInv, Others

\* A session is lost with what it owes
LEMMA LoseConflicts ==
    ASSUME Types, ConflictInv, NEW s \in Slots,
           DuplicatePage(s) \/ BreakDeadlock(s) \/ LoseSession(s)
    PROVE  ConflictInv'
<1>1. /\ Disturbed(s, sess[s].owes)
      /\ Same(sess'[s], NoSession) /\ SameHolds(sess'[s], NoSession)
      /\ doubt' = doubt \cup sess[s].owes
      /\ rules' = rules /\ conflicts' = conflicts
  BY LoseEffect
<1>2. /\ sess'[s].at = "idle" /\ sess'[s].owes = {} /\ sess'[s].holds = {}
      /\ sess'[s].clean = {} /\ sess'[s].found = {}
      /\ sess'[s].tx.rules = {} /\ sess'[s].tx.gone = {} /\ sess'[s].tx.made = {}
  BY <1>1, NoSessionIsSession, NoTxIsTx DEF Same, Goes, SameHolds
<1>3. \A o \in Others(s) : /\ Same(sess'[o], sess[o]) /\ sess'[o].holds = sess[o].holds
                           /\ sess'[o].clean = sess[o].clean \ sess[s].owes
                           /\ SeenRules(o)' = SeenRules(o)
  BY <1>1 DEF SeenRules, Disturbed, Same
<1>4. ConflictDuty(sess'[s]) /\ FoundRight(sess'[s], SeenRules(s)') /\ FoundAll(s)'
  BY <1>2 DEF ConflictDuty, FoundRight, FoundAll
<1>5. ASSUME NEW o \in Others(s)
      PROVE  ConflictDuty(sess'[o]) /\ FoundRight(sess'[o], SeenRules(o)') /\ FoundAll(o)'
  <2>1. /\ o \in Slots /\ ConflictDuty(sess[o]) /\ FoundRight(sess[o], SeenRules(o))
        /\ FoundAll(o)
    BY DEF ConflictInv, Others
  <2>2. ConflictDuty(sess'[o]) /\ FoundRight(sess'[o], SeenRules(o)')
    BY <1>3, <2>1 DEF ConflictDuty, FoundRight, Same, Goes
  <2>3. CASE "conflicts" \in sess[s].owes
    BY <1>3, <2>2, <2>3 DEF FoundAll
  <2>4. CASE "conflicts" \notin sess[s].owes
    <3>1. ConflictsOwedBut(o) => ConflictsOwedBut(o)'
      BY <1>3, <2>4 DEF ConflictsOwedBut, Others, Same
    <3> QED BY <1>1, <1>3, <2>1, <2>2, <3>1 DEF FoundAll, Same, Goes
  <2> QED BY <2>3, <2>4
<1>6. ConflictsExact'
  <2>1. "conflicts" \notin doubt' \cup Owed' => "conflicts" \notin doubt \cup Owed
    BY <1>1, <1>2, <1>3 DEF Owed, Others, Same
  <2>2. ConflictsExact
    BY DEF ConflictInv
  <2> QED BY <1>1, <2>1, <2>2 DEF ConflictsExact, Complete, Sound
<1> QED BY <1>4, <1>5, <1>6 DEF ConflictInv, Others

\* A session commits, and has the conflicts rewritten or did not touch them
LEMMA CommitConflicts ==
    ASSUME Types, HoldInv, ConflictInv, NEW s \in Slots, NEW keep \in SUBSET Ids,
           Commits(s, keep), sess[s].at \notin Detecting, sess'[s].at \notin Detecting,
           sess'[s].found \subseteq sess[s].found,
           sess'[s].owes \subseteq sess[s].owes \ sess[s].holds
    PROVE  ConflictInv'
<1> DEFINE q == sess[s]
<1>1. ConflictDuty(q) /\ FoundRight(q, SeenRules(s)) /\ FoundAll(s)
  BY DEF ConflictInv
<1>2. /\ Disturbed(s, Stale(s)) /\ sess'[s].tx = NoTx
      /\ sess'[s].holds \subseteq keep /\ sess'[s].clean \subseteq keep
      /\ doubt' = (doubt \ (q.clean \ (keep \cup {"glossary"}))) \cup Stale(s)
      /\ rules' = SeenRules(s) /\ conflicts' = (conflicts \ q.tx.gone) \cup q.tx.made
      /\ Stale(s) \subseteq Modules
  BY DEF Commits, SeenRules
<1>3. "conflicts" \notin keep /\ "conflicts" \notin Stale(s)
  BY <1>2, ThingsAssumption
<1>4. /\ "conflicts" \notin sess'[s].holds /\ "conflicts" \notin sess'[s].clean
      /\ "conflicts" \notin sess'[s].owes
      /\ sess'[s].tx.rules = {} /\ sess'[s].tx.gone = {} /\ sess'[s].tx.made = {}
  BY <1>1, <1>2, <1>3, NoTxIsTx DEF ConflictDuty, Detecting
<1>5. \A o \in Others(s) : /\ ConflictsAside(sess'[o], sess[o]) /\ o \in Slots
                           /\ s \in Others(o)
  BY <1>2, <1>3, AsideOthers DEF Others
<1>6. ConflictDuty(sess'[s]) /\ FoundRight(sess'[s], SeenRules(s)') /\ FoundAll(s)'
  BY <1>1, <1>2, <1>4 DEF ConflictDuty, FoundRight, FoundAll, SeenRules, Detecting
<1>7. "conflicts" \notin q.holds =>
         /\ conflicts' = conflicts /\ rules' = rules /\ "conflicts" \notin q.owes
  <2>1. "conflicts" \notin q.holds => q.tx.gone = {} /\ q.tx.made = {} /\ q.tx.rules = {}
                                      /\ "conflicts" \notin q.owes
    BY <1>1 DEF ConflictDuty, Detecting
  <2> QED BY <1>2, <2>1 DEF SeenRules
<1>8. ASSUME NEW o \in Others(s)
      PROVE  ConflictDuty(sess'[o]) /\ FoundRight(sess'[o], SeenRules(o)') /\ FoundAll(o)'
  <2>1. /\ ConflictDuty(sess[o]) /\ FoundRight(sess[o], SeenRules(o)) /\ FoundAll(o)
        /\ ConflictsAside(sess'[o], sess[o]) /\ o \in Slots /\ s \in Others(o)
    BY <1>5 DEF ConflictInv
  <2>2. SeenRules(o) \subseteq SeenRules(o)'
    BY <1>2, <2>1 DEF SeenRules, ConflictsAside
  <2>3. ConflictDuty(sess'[o]) /\ FoundRight(sess'[o], SeenRules(o)')
    BY <2>1, <2>2 DEF ConflictDuty, FoundRight, ConflictsAside, Detecting
  <2>4. CASE "conflicts" \notin sess[o].clean
    BY <2>1, <2>3, <2>4 DEF FoundAll, ConflictsAside
  <2>5. CASE "conflicts" \in sess[o].clean
    <3>1. "conflicts" \notin q.holds
      BY <2>1, <2>5 DEF HoldInv
    <3>2. conflicts' = conflicts /\ SeenRules(o)' = SeenRules(o) /\ "conflicts" \notin q.owes
      BY <1>7, <2>1, <3>1 DEF SeenRules, ConflictsAside
    <3>3. ConflictsOwedBut(o) => ConflictsOwedBut(o)'
      BY <1>5, <3>2 DEF ConflictsOwedBut, Others, ConflictsAside
    <3> QED BY <2>1, <2>3, <3>2, <3>3 DEF FoundAll, ConflictsAside, Detecting
  <2> QED BY <2>4, <2>5
<1>9. ConflictsExact'
  <2> SUFFICES ASSUME "conflicts" \notin doubt' \cup Owed'
               PROVE  (Complete /\ Sound)'
    BY DEF ConflictsExact
  <2>1. \A o \in Others(s) : "conflicts" \notin sess[o].owes
    BY <1>5 DEF Owed, ConflictsAside
  <2>2. CASE "conflicts" \notin q.holds
    <3>1. "conflicts" \notin q.clean
      BY <2>2 DEF Types, Ready
    <3>2. "conflicts" \notin doubt \cup Owed
      BY <1>2, <1>7, <2>1, <2>2, <3>1 DEF Owed, Others
    <3>3. Complete /\ Sound
      BY <3>2 DEF ConflictInv, ConflictsExact
    <3> QED BY <1>7, <2>2, <3>3 DEF Complete, Sound
  <2>3. CASE "conflicts" \in q.clean
    <3>1. ~ConflictsOwedBut(s)
      BY <2>1 DEF ConflictsOwedBut
    <3>2. q.tx.gone = conflicts /\ AllOf(PairsIn(q.tx.made), rules')
      BY <1>1, <1>2, <2>3, <3>1 DEF FoundAll, Detecting
    <3>3. conflicts' = q.tx.made
      BY <1>2, <3>2
    <3>4. Sound'
      BY <1>1, <1>2, <3>3 DEF Sound, FoundRight
    <3>5. Complete'
      BY <3>2, <3>3 DEF Complete, AllOf, PairsIn
    <3> QED BY <3>4, <3>5
  <2>4. CASE "conflicts" \in q.holds \ q.clean
    <3>1. "conflicts" \in doubt
      BY <2>4 DEF HoldInv, Shared
    <3> QED BY <1>2, <2>4, <3>1
  <2> QED BY <2>2, <2>3, <2>4
<1> QED BY <1>6, <1>8, <1>9 DEF ConflictInv, Others

\* Requests that have nothing to do with conflicts
LEMMA OpensAside ==
    ASSUME Types, ConflictInv, NEW s \in Slots, NEW X, Began(s, X), "conflicts" \notin X,
           sess'[s].at \notin Detecting, sess'[s].owes = {}, sess'[s].tx = NoTx,
           rules' = rules
    PROVE  ConflictInv'
<1>1. /\ Disturbed(s, X) /\ sess[s] = NoSession /\ conflicts' = conflicts
      /\ sess'[s].found = {} /\ sess'[s].tx.gone = {} /\ sess'[s].tx.made = {}
      /\ sess'[s].holds = X /\ sess'[s].clean \subseteq X
      /\ "conflicts" \in doubt' <=> "conflicts" \in doubt
  BY DEF Began
<1>2. /\ NoSession.owes = {} /\ NoSession.found = {} /\ NoSession.tx = NoTx
      /\ NoSession.holds = {} /\ NoSession.clean = {} /\ NoSession.at \notin Detecting
      /\ NoTx.rules = {} /\ NoTx.gone = {} /\ NoTx.made = {}
  BY NoSessionIsSession, NoTxIsTx DEF Detecting
<1>3. ConflictsAside(sess'[s], sess[s])
  BY <1>1, <1>2 DEF ConflictsAside
<1> QED BY <1>1, <1>3, ConflictsAsideStep

\* A session away from a detection that writes no conflicts leaves them alone
LEMMA SameConflictsAside ==
    ASSUME NEW p, NEW q, SameConflicts(p, q), p.at \notin Detecting, q.at \notin Detecting,
           "conflicts" \in p.holds <=> "conflicts" \in q.holds,
           "conflicts" \in p.clean <=> "conflicts" \in q.clean
    PROVE  ConflictsAside(p, q)
BY DEF SameConflicts, ConflictsAside

\* The steps that go on with the same holdings, as far as conflicts go
LEMMA GoesOnAside ==
    ASSUME Types, ConflictInv, NEW s \in Slots, NEW X, Disturbed(s, X), "conflicts" \notin X,
           SameConflicts(sess'[s], sess[s]), sess[s].at \notin Detecting,
           sess'[s].at \notin Detecting,
           "conflicts" \in sess'[s].holds <=> "conflicts" \in sess[s].holds,
           "conflicts" \in sess'[s].clean <=> "conflicts" \in sess[s].clean,
           "conflicts" \in doubt' <=> "conflicts" \in doubt,
           rules' = rules, conflicts' = conflicts
    PROVE  ConflictInv'
<1>1. ConflictsAside(sess'[s], sess[s])
  BY SameConflictsAside
<1> QED BY <1>1, ConflictsAsideStep

\* Every step keeps what the sessions know of the conflicts
LEMMA StepConflicts == Types /\ HoldInv /\ ConflictInv /\ [Next]_vars => ConflictInv'
<1> SUFFICES ASSUME Types, HoldInv, ConflictInv, [Next]_vars PROVE ConflictInv'
  OBVIOUS
<1>0. "conflicts" \notin Ids /\ "conflicts" \notin Modules
  BY ThingsAssumption
<1>1. CASE UNCHANGED vars
  <2>1. /\ rules' = rules /\ conflicts' = conflicts /\ sess' = sess /\ doubt' = doubt
    BY <1>1 DEF vars
  <2> QED
    BY <2>1 DEF ConflictInv, FoundAll, SeenRules, ConflictsOwedBut, ConflictsExact, Complete,
                Sound, Owed, Others
<1>2. ASSUME NEW s \in Slots, Step(s) PROVE ConflictInv'
  <2>1. CASE DetectRead(s)
    BY <2>1, DetectConflicts
  <2>2. CASE ReplaceConflicts(s) \/ ReplaceAfterWait(s)
    BY <2>2, ReplaceConflictsKeeps
  <2>3. CASE WaitToReplace(s)
    BY <2>3, WaitConflicts
  <2>4. CASE ScanRead(s)
    BY <2>4, ScanReadEffect, GoesOnAside DEF Detecting
  <2>5. CASE FlushTerms(s)
    <3>1. "conflicts" \notin Undefined(sess[s])
      BY <1>0, FreshRows
    <3> QED BY <2>5, <3>1, FlushEffect, GoesOnAside DEF Detecting
  <2>6. CASE InferFirst(s)
    <3>1. PICK i \in FirstOf(sess[s].fresh) :
            \/ /\ sess' = [sess EXCEPT ![s] = ToDefine(sess[s], sess[s].fresh \ {i})]
               /\ UNCHANGED <<Tables, Counts, doubt>>
            \/ /\ Commit(s, [sess[s] EXCEPT !.row = i, !.fresh = @ \ {i}, !.at = "define"],
                         sess[s].fresh)
               /\ UNCHANGED Counts
      BY <2>6, InferCases
    <3>2. sess[s].at = "infer"
      BY <2>6, InferCases
    <3>3. CASE /\ sess' = [sess EXCEPT ![s] = ToDefine(sess[s], sess[s].fresh \ {i})]
               /\ UNCHANGED <<Tables, Counts, doubt>>
      BY <3>2, <3>3, InferSkipEffect, GoesOnAside DEF Detecting, SameHolds
    <3>4. CASE /\ Commit(s, [sess[s] EXCEPT !.row = i, !.fresh = @ \ {i}, !.at = "define"],
                         sess[s].fresh)
               /\ UNCHANGED Counts
      <4>1. /\ Commits(s, sess[s].fresh) /\ sess'[s].at = "define"
            /\ sess'[s].found = sess[s].found
            /\ sess'[s].owes = sess[s].owes \ sess[s].holds
        BY <3>2, <3>4, InferCommitEffect
      <4> QED BY <3>2, <4>1, FreshRows, CommitConflicts DEF Detecting
    <3> QED BY <3>1, <3>3, <3>4
  <2>7. CASE \E text \in Ai : Define(s, text)
    BY <2>7, DefineEffect, GoesOnAside DEF Detecting, SameHolds
  <2>8. CASE DefineNothing(s)
    BY <1>0, <2>8, DefineNothingEffect, GoesOnAside DEF Detecting
  <2>9. CASE EndPasses(s)
    <3>0. sess[s].at = "passes done"
      BY <2>9, EndCases
    <3>1. CASE Commit(s, sess[s], {}) /\ UNCHANGED Counts
      <4>1. /\ Commits(s, {}) /\ sess'[s].at = "passes done"
            /\ sess'[s].found = sess[s].found
            /\ sess'[s].owes = sess[s].owes \ sess[s].holds
        BY <3>0, <3>1, EndCommitEffect
      <4> QED BY <3>0, <4>1, CommitConflicts DEF Detecting
    <3>2. CASE ~(Commit(s, sess[s], {}) /\ UNCHANGED Counts)
      <4>1. /\ Disturbed(s, Mine(sess[s]))
            /\ sess'[s].at = IF Mine(sess[s]) = {} THEN "end" ELSE "wiki"
            /\ SameConflicts(sess'[s], sess[s])
            /\ sess'[s].holds = sess[s].holds \cup Mine(sess[s])
            /\ sess'[s].clean = sess[s].clean \cup (Mine(sess[s]) \ HeldByOthers(s))
            /\ doubt' = doubt \cup (Mine(sess[s]) \cap HeldByOthers(s))
            /\ rules' = rules /\ conflicts' = conflicts
        BY <2>9, <3>0, <3>2, EndCases, ReadRulesEffect
      <4>2. "conflicts" \notin Mine(sess[s])
        BY <1>0, FreshRows
      <4> QED BY <3>0, <4>1, <4>2, GoesOnAside DEF Detecting
    <3> QED BY <3>1, <3>2
  <2>10. CASE PageWritten(s)
    BY <2>10, PageWrittenEffect, GoesOnAside DEF Detecting, SameHolds
  <2>11. CASE PageSkipped(s)
    <3>1. sess[s].mods \in Seq(Modules) /\ sess[s].mods # <<>>
      BY <2>11, PageSkippedEffect
    <3>2. Head(sess[s].mods) # "conflicts"
      BY <1>0, <3>1, TailOf
    <3> QED BY <2>11, <3>2, PageSkippedEffect, GoesOnAside DEF Detecting
  <2>12. CASE UpsertPage(s)
    BY <2>12, UpsertEffect, GoesOnAside DEF Detecting, SameHolds
  <2>13. CASE DuplicatePage(s) \/ BreakDeadlock(s) \/ LoseSession(s)
    BY <2>13, LoseConflicts
  <2>14. CASE End(s)
    <3>1. /\ Commits(s, {}) /\ sess[s].at = "end" /\ sess'[s] = NoSession
      BY <2>14, EndEffect
    <3>2. NoSession.at = "idle" /\ NoSession.found = {} /\ NoSession.owes = {}
      BY NoSessionIsSession
    <3> QED BY <3>1, <3>2, CommitConflicts DEF Detecting
  <2> QED
    BY <1>2, <2>1, <2>2, <2>3, <2>4, <2>5, <2>6, <2>7, <2>8, <2>9, <2>10, <2>11, <2>12,
       <2>13, <2>14 DEF Step
<1>3. ASSUME NEW s \in Slots, Request(s) PROVE ConflictInv'
  <2>0. NoTx.rules = {}
    BY NoTxIsTx
  <2>1. CASE \E n \in Batches : FinishFiles(s, n)
    BY <2>0, <2>1, FinishFilesEffect, OpensDetecting
  <2>2. CASE \E n \in Uploads : UploadFile(s, n)
    BY <2>2, UploadFileEffect, OpensDetecting
  <2>3. CASE Migrate(s)
    BY <2>0, <2>3, MigrateEffect, OpensDetecting
  <2>4. CASE Rescan(s)
    BY <2>4, RescanEffect, OpensAside DEF Detecting
  <2>5. CASE Regenerate(s)
    <3>1. "conflicts" \notin Served
      BY <1>0 DEF Served
    <3> QED BY <2>5, <3>1, RegenerateEffect, OpensAside DEF Detecting
  <2>6. CASE \E i \in Ids : InferAgain(s, i)
    BY <1>0, <2>6, InferAgainEffect, OpensAside DEF Detecting
  <2>7. CASE \E i \in Ids : AcceptDefinition(s, i)
    BY <2>7, AcceptEffect, OpensAside DEF Detecting
  <2>8. CASE \E i \in Ids, text \in Hand : EditDefinition(s, i, text)
    BY <1>0, <2>8, EditEffect, OpensAside DEF Detecting
  <2>9. CASE \E i \in Ids, d \in {"approved", "rejected"} : JudgeSynonym(s, i, d)
    BY <2>9, JudgeEffect, OpensAside DEF Detecting
  <2> QED
    BY <1>3, <2>1, <2>2, <2>3, <2>4, <2>5, <2>6, <2>7, <2>8, <2>9 DEF Request
<1> QED BY <1>1, <1>2, <1>3 DEF Next

\* The conflicts are exact to begin with
LEMMA InitConflicts == Init => ConflictInv
<1> SUFFICES ASSUME Init PROVE ConflictInv
  OBVIOUS
<1>1. \A s \in Slots : sess[s] = NoSession
  BY DEF Init, Quiet
<1>2. /\ NoSession.owes = {} /\ NoSession.found = {} /\ NoSession.at = "idle"
      /\ NoSession.holds = {} /\ NoSession.clean = {} /\ NoSession.tx = NoTx
      /\ NoTx.rules = {} /\ NoTx.gone = {} /\ NoTx.made = {}
  BY NoSessionIsSession, NoTxIsTx
<1>3. \A s \in Slots : /\ ConflictDuty(sess[s]) /\ FoundRight(sess[s], SeenRules(s))
                       /\ FoundAll(s)
  BY <1>1, <1>2 DEF ConflictDuty, FoundRight, FoundAll
<1>4. CASE EmptyInit
  <2>1. \A p \in Clash : p # {}
    BY ClashAssumption DEF Pairs
  <2> QED BY <1>3, <1>4, <2>1 DEF EmptyInit, ConflictInv, ConflictsExact, Complete, Sound
<1>5. ASSUME NEW n \in Batches, LaterInit(n) PROVE Complete /\ Sound
  <2>1. PICK filed \in Filings(Brings[n]) :
            conflicts = {[pair |-> p, by |-> 0] : p \in Found(Brings[n], filed)}
    BY <1>5 DEF LaterInit
  <2>2. rules = Brings[n]
    BY <1>5 DEF LaterInit
  <2>3. \A e \in conflicts : \E p \in Found(rules, filed) : e = [pair |-> p, by |-> 0]
                                                          /\ e.pair = p
    BY <2>1, <2>2
  <2>4. \A p \in Found(rules, filed) : [pair |-> p, by |-> 0] \in conflicts
                                     /\ [pair |-> p, by |-> 0].pair = p
    BY <2>1, <2>2
  <2>5. AllOf(Found(rules, filed), rules)
    BY <2>1, <2>2, FoundApart
  <2>6. Complete
    BY <2>4, <2>5 DEF Complete, AllOf
  <2>7. Sound
    BY <2>3 DEF Sound, Found
  <2> QED BY <2>6, <2>7
<1> QED BY <1>3, <1>4, <1>5 DEF Init, ConflictInv, ConflictsExact

\* Nobody has for himself what another has, ever
LEMMA AlwaysHolds == Spec => [](Types /\ HoldInv)
<1>1. Init => Types /\ HoldInv
  BY InitTypes, InitHolds
<1>2. Types /\ HoldInv /\ [Next]_vars => Types' /\ HoldInv'
  BY StepTypes, StepHolds
<1> QED BY <1>1, <1>2, PTL DEF Spec

(* The conflicts on record are those of the rules on record, each once,    *)
(* however many detections there are, whatever they wait for and whoever   *)
(* is lost: unless two overlapped or one was lost, since when none had the *)
(* table for itself.                                                       *)
THEOREM ConflictsStayExact == Spec => []ConflictsExact
<1>1. Init => ConflictInv
  BY InitConflicts
<1>2. Types /\ HoldInv /\ ConflictInv /\ [Next]_vars => ConflictInv'
  BY StepConflicts
<1>3. ConflictInv => ConflictsExact
  BY DEF ConflictInv
<1> QED BY <1>1, <1>2, <1>3, AlwaysHolds, PTL DEF Spec

-----------------------------------------------------------------------------
(* Pages are exact *)

\* The places of a page
Writing == {"wiki", "upsert"}

\* The page of the rules R
PageFor(R) == [text |-> R, links |-> R]

\* What a session has to do with pages
PageDuty(q) ==
    /\ ToDo(q.mods) \subseteq q.holds /\ NoneTwice(q.mods)
    /\ q.at \notin Writing => q.mods = <<>>
    /\ \A m \in Modules : q.tx.pages[m] # <<>> => m \in q.holds
    /\ q.owes \cap Modules # {} => q.kind = "batch"
    /\ q.at \in Writing \cup {"end"} => q.owes \cap Modules \subseteq q.holds
    /\ q.tx.rules # {} => q.kind = "upload"
    /\ q.holds \cap Modules # {} => /\ q.at \in Writing \cup {"end"}
                                    /\ q.kind \in {"batch", "regenerate"}

\* Another owes the module its page
PageOwedBut(s, m) == \E o \in Others(s) : m \in sess[o].owes

(* A session that has the module m for itself knows the rules of m, unless *)
(* another still owes it some; and has not touched the page until it is    *)
(* its turn, and then has made it the page of the rules it knows           *)
PageRight(s) ==
    \A m \in Modules \cap sess[s].clean :
        /\ ~PageOwedBut(s, m) => sess[s].given[m] = RulesOf(m, rules)
        /\ m \in ToDo(sess[s].mods) => sess[s].tx.pages[m] = <<>>
        /\ sess[s].at = "upsert" /\ m = Head(sess[s].mods) => sess[s].page = pages[m]
        /\ m \notin ToDo(sess[s].mods) /\ sess[s].given[m] # {} =>
               SeenPage(s, m) = PageFor(sess[s].given[m])

\* The pages are exact, and what each session makes of them will be
PageInv ==
    /\ \A s \in Slots : PageDuty(sess[s]) /\ PageRight(s)
    /\ PagesExact

\* Nothing is to do of an empty order
LEMMA NoneToDo == ToDo(<<>>) = {} /\ NoneTwice(<<>>)
BY DEF ToDo, NoneTwice

\* The pages on record, and those a session has written, are pages
LEMMA PagesAre ==
    ASSUME Types, NEW s \in Slots, NEW m \in Modules
    PROVE  /\ pages[m] \in Pages /\ sess[s].tx.pages[m] \in PageParts
           /\ sess[s].given[m] \in SUBSET Rules /\ sess[s].page \in Pages
           /\ sess[s].mods \in Seq(Modules)
           /\ sess[s].tx.pages[m] = <<>> => SeenPage(s, m) = pages[m]
<1>1. pages[m] \in Pages /\ sess[s] \in Session /\ sess[s].tx \in Tx
  BY Holdings DEF Types, TablesTyped
<1>2. sess[s].tx.pages[m] \in PageParts
  BY <1>1, TxIs
<1>3. /\ sess[s].given[m] \in SUBSET Rules /\ sess[s].page \in Pages
      /\ sess[s].mods \in Seq(Modules)
  BY <1>1 DEF Session
<1> QED BY <1>1, <1>2, <1>3, OverNothing DEF SeenPage

\* The others, when the step leaves their pages and the rules of them alone
LEMMA PagesOfOthers ==
    ASSUME Types, PageInv, NEW s \in Slots, NEW X, Disturbed(s, X), NEW o \in Others(s),
           \A m \in Modules \cap sess'[o].clean :
              /\ pages'[m] = pages[m]
              /\ RulesOf(m, rules') = RulesOf(m, rules) \/ m \in sess'[s].owes
              /\ m \in sess[s].owes => m \in sess'[s].owes
    PROVE  PageDuty(sess'[o]) /\ PageRight(o)'
<1>1. /\ Same(sess'[o], sess[o]) /\ sess'[o].holds = sess[o].holds
      /\ sess'[o].clean = sess[o].clean \ X
  BY DEF Disturbed
<1>2. PageDuty(sess[o]) /\ PageRight(o) /\ o \in Slots /\ s \in Others(o)
  BY DEF PageInv, Others
<1>3. PageDuty(sess'[o])
  BY <1>1, <1>2 DEF PageDuty, Same, Goes
<1>4. ASSUME NEW m \in Modules, m \in sess'[o].clean
      PROVE  /\ ~PageOwedBut(o, m)' => sess'[o].given[m] = RulesOf(m, rules')
             /\ m \in ToDo(sess'[o].mods) => sess'[o].tx.pages[m] = <<>>
             /\ sess'[o].at = "upsert" /\ m = Head(sess'[o].mods) => sess'[o].page = pages'[m]
             /\ m \notin ToDo(sess'[o].mods) /\ sess'[o].given[m] # {} =>
                    SeenPage(o, m)' = PageFor(sess'[o].given[m])
  <2>1. /\ ~PageOwedBut(o, m) => sess[o].given[m] = RulesOf(m, rules)
        /\ m \in ToDo(sess[o].mods) => sess[o].tx.pages[m] = <<>>
        /\ sess[o].at = "upsert" /\ m = Head(sess[o].mods) => sess[o].page = pages[m]
        /\ m \notin ToDo(sess[o].mods) /\ sess[o].given[m] # {} =>
               SeenPage(o, m) = PageFor(sess[o].given[m])
    BY <1>1, <1>2, <1>4 DEF PageRight
  <2>2. pages'[m] = pages[m] /\ SeenPage(o, m)' = SeenPage(o, m)
    BY <1>1, <1>4 DEF SeenPage, Same
  <2>3. PageOwedBut(o, m) => PageOwedBut(o, m)'
    <3>1. \A a \in Others(o) : a = s \/ a \in Others(s)
      BY DEF Others
    <3>2. \A a \in Others(s) : sess'[a].owes = sess[a].owes
      BY DEF Disturbed, Same
    <3> QED BY <1>4, <3>1, <3>2 DEF PageOwedBut
  <2>4. m \in sess'[s].owes => PageOwedBut(o, m)'
    BY <1>2 DEF PageOwedBut
  <2>5. ~PageOwedBut(o, m)' => sess'[o].given[m] = RulesOf(m, rules')
    BY <1>1, <1>4, <2>1, <2>3, <2>4 DEF Same, Goes
  <2> QED BY <1>1, <2>1, <2>2, <2>5 DEF Same, Goes
<1>5. PageRight(o)'
  BY <1>4 DEF PageRight
<1> QED BY <1>3, <1>5

\* Nothing is written, and what was in doubt or owed still is
LEMMA PagesStay ==
    ASSUME Types, PageInv, NEW s \in Slots, NEW X, Disturbed(s, X),
           pages' = pages, rules' = rules,
           doubt \cap Modules \subseteq doubt',
           sess[s].owes \cap Modules \subseteq sess'[s].owes \cup doubt'
    PROVE  PagesExact'
<1>1. \A o \in Others(s) : sess'[o].owes = sess[o].owes
  BY DEF Disturbed, Same
<1>2. \A m \in Modules : m \in doubt \cup Owed => m \in doubt' \cup Owed'
  BY <1>1 DEF Owed, Others
<1>3. PagesExact
  BY DEF PageInv
<1> QED BY <1>2, <1>3 DEF PagesExact

\* A session goes on and has nothing to do with pages in this step
LEMMA PagesAsideStep ==
    ASSUME Types, PageInv, NEW s \in Slots, NEW X \in SUBSET Things, Disturbed(s, X),
           pages' = pages, rules' = rules, doubt \subseteq doubt',
           SamePages(sess'[s], sess[s]), SameConflicts(sess'[s], sess[s]) \/
               (sess'[s].owes = sess[s].owes /\ sess'[s].tx.rules = sess[s].tx.rules),
           sess'[s].kind = sess[s].kind,
           sess[s].at \notin Writing \cup {"end"}, sess'[s].at \notin Writing,
           sess'[s].at = "end" => sess[s].kind # "batch",
           sess'[s].holds \cap Modules = sess[s].holds \cap Modules,
           sess'[s].clean \subseteq sess'[s].holds
    PROVE  PageInv'
<1>1. PageDuty(sess[s])
  BY DEF PageInv
<1>2. /\ sess'[s].mods = sess[s].mods /\ sess'[s].tx.pages = sess[s].tx.pages
      /\ sess'[s].owes = sess[s].owes /\ sess'[s].tx.rules = sess[s].tx.rules
  BY DEF SamePages, SameConflicts
<1>3. sess[s].holds \cap Modules = {}
  BY <1>1 DEF PageDuty
<1>4. PageDuty(sess'[s])
  <2>1. sess[s].mods = <<>>
    BY <1>1 DEF PageDuty
  <2>2. \A m \in Modules : sess[s].tx.pages[m] = <<>>
    BY <1>1, <1>3 DEF PageDuty
  <2>3. sess'[s].at = "end" => sess'[s].owes \cap Modules = {}
    BY <1>1, <1>2 DEF PageDuty
  <2> QED BY <1>1, <1>2, <1>3, <2>1, <2>2, <2>3, NoneToDo DEF PageDuty
<1>5. PageRight(s)'
  BY <1>3 DEF PageRight
<1>6. \A o \in Others(s) : PageDuty(sess'[o]) /\ PageRight(o)'
  BY <1>2, PagesOfOthers
<1>7. PagesExact'
  BY <1>2, PagesStay
<1> QED BY <1>4, <1>5, <1>6, <1>7 DEF PageInv, Others

\* A session that is not open has no pages to write
LEMMA BlankPages ==
    /\ NoSession.owes = {} /\ NoSession.holds = {} /\ NoSession.clean = {}
    /\ NoSession.mods = <<>> /\ NoSession.kind = "idle" /\ NoSession.at = "idle"
    /\ NoSession.tx = NoTx /\ NoTx.rules = {}
    /\ \A m \in Modules : NoTx.pages[m] = <<>>
BY NoSessionIsSession, NoTxIsTx

\* A session opens that writes no pages
LEMMA OpensNoPages ==
    ASSUME Types, PageInv, NEW s \in Slots, NEW X, Began(s, X), X \cap Modules = {},
           sess'[s].mods = <<>>, sess'[s].at \notin Writing,
           sess'[s].owes \cap Modules # {} =>
               sess'[s].kind = "batch" /\ sess'[s].at # "end",
           sess'[s].tx.rules # {} => sess'[s].kind = "upload",
           \A m \in Modules : RulesOf(m, rules') = RulesOf(m, rules) \/ m \in sess'[s].owes
    PROVE  PageInv'
<1>1. /\ Disturbed(s, X) /\ sess[s] = NoSession /\ pages' = pages
      /\ sess'[s].tx.pages = NoTx.pages /\ sess'[s].holds = X
      /\ sess'[s].clean \subseteq X /\ doubt \subseteq doubt'
  BY DEF Began
<1>2. PageDuty(sess'[s])
  BY <1>1, BlankPages, NoneToDo DEF PageDuty
<1>3. PageRight(s)'
  BY <1>1 DEF PageRight
<1>4. \A o \in Others(s) : PageDuty(sess'[o]) /\ PageRight(o)'
  BY <1>1, BlankPages, PagesOfOthers
<1>5. PagesExact'
  <2>1. \A o \in Others(s) : sess'[o].owes = sess[o].owes
    BY <1>1 DEF Disturbed, Same
  <2>2. \A m \in Modules : m \in doubt \cup Owed => m \in doubt' \cup Owed'
    BY <1>1, <2>1, BlankPages DEF Owed, Others
  <2>3. \A m \in Modules : m \notin Owed' => RulesOf(m, rules') = RulesOf(m, rules)
    BY DEF Owed
  <2>4. PagesExact
    BY DEF PageInv
  <2> QED BY <1>1, <2>2, <2>3, <2>4 DEF PagesExact
<1> QED BY <1>2, <1>3, <1>4, <1>5 DEF PageInv, Others

\* A session reads the rules of the modules X, whose pages it is to write
LEMMA StartsPages ==
    ASSUME Types, PageInv, NEW s \in Slots, NEW X \in SUBSET Modules, NEW Y, Disturbed(s, Y),
           NEW order \in Orders(X), sess'[s].mods = order,
           \A m \in X : sess'[s].given[m] = RulesOf(m, rules),
           \A m \in Modules : sess'[s].tx.pages[m] = <<>>,
           sess'[s].holds = X, sess'[s].clean \subseteq X,
           sess'[s].at = IF X = {} THEN "end" ELSE "wiki",
           sess'[s].kind \in {"batch", "regenerate"},
           sess'[s].owes \cap Modules \subseteq X,
           sess'[s].owes \cap Modules # {} => sess'[s].kind = "batch",
           sess[s].owes \cap Modules \subseteq sess'[s].owes,
           sess'[s].tx.rules = {}, doubt \subseteq doubt', pages' = pages, rules' = rules
    PROVE  PageInv'
<1>1. ToDo(order) = X /\ NoneTwice(order) /\ (order = <<>> <=> X = {})
  BY OrderOf
<1>2. PageDuty(sess'[s])
  BY <1>1 DEF PageDuty, Writing
<1>3. PageRight(s)'
  BY <1>1 DEF PageRight
<1>4. \A o \in Others(s) : PageDuty(sess'[o]) /\ PageRight(o)'
  BY PagesOfOthers
<1>5. PagesExact'
  BY PagesStay
<1> QED BY <1>2, <1>3, <1>4, <1>5 DEF PageInv, Others

\* A page the LLM writes keeps the invariant of the pages
LEMMA PageWrittenKeeps ==
    ASSUME Types, PageInv, NEW s \in Slots, PageWritten(s)
    PROVE  PageInv'
<1>1. /\ Disturbed(s, {}) /\ sess[s].at = "wiki" /\ sess'[s].at = "upsert"
      /\ sess'[s].kind = sess[s].kind
      /\ sess'[s].page = SeenPage(s, Head(sess[s].mods))
      /\ sess'[s].tx = sess[s].tx /\ sess'[s].mods = sess[s].mods
      /\ sess'[s].given = sess[s].given /\ sess'[s].owes = sess[s].owes
      /\ sess'[s].holds = sess[s].holds /\ sess'[s].clean = sess[s].clean
      /\ rules' = rules /\ pages' = pages /\ doubt' = doubt
  BY PageWrittenEffect DEF SameConflicts, SameHolds
<1>2. PageDuty(sess[s]) /\ PageRight(s) /\ sess[s].mods \in Seq(Modules) /\ sess[s].mods # <<>>
  <2>1. Ready(sess[s]) /\ sess[s] \in Session
    BY Holdings DEF Types
  <2> QED BY <1>1, <2>1 DEF PageInv, Ready, Session
<1>3. PageDuty(sess'[s])
  BY <1>1, <1>2 DEF PageDuty, Writing
<1>4. \A m \in Modules : PageOwedBut(s, m)' <=> PageOwedBut(s, m)
  BY <1>1 DEF PageOwedBut, Disturbed, Same
<1>5. PageRight(s)'
  <2>1. Head(sess[s].mods) \in ToDo(sess[s].mods)
    BY <1>2, TailOf
  <2>2. ASSUME NEW m \in Modules, m \in sess[s].clean, m = Head(sess[s].mods)
        PROVE  SeenPage(s, Head(sess[s].mods)) = pages[m]
    BY <1>2, <2>1, <2>2, PagesAre DEF PageRight
  <2>3. \A m \in Modules : SeenPage(s, m)' = SeenPage(s, m)
    BY <1>1 DEF SeenPage
  <2> QED BY <1>1, <1>2, <1>4, <2>2, <2>3 DEF PageRight
<1>6. \A o \in Others(s) : PageDuty(sess'[o]) /\ PageRight(o)'
  BY <1>1, PagesOfOthers
<1>7. PagesExact'
  BY <1>1, PagesStay
<1> QED BY <1>3, <1>5, <1>6, <1>7 DEF PageInv, Others

\* A module that gets no page keeps the invariant of the pages
LEMMA PageSkippedKeeps ==
    ASSUME Types, PageInv, NEW s \in Slots, PageSkipped(s)
    PROVE  PageInv'
<1> DEFINE q == sess[s]
           p == sess'[s]
           h == Head(q.mods)
<1>1. /\ Disturbed(s, {h}) /\ q.at = "wiki" /\ p.at \in {"wiki", "end"}
      /\ p.kind = q.kind /\ q.mods \in Seq(Modules) /\ q.mods # <<>>
      /\ p.mods = Tail(q.mods) /\ (p.at = "end" => p.mods = <<>>)
      /\ p.tx = q.tx /\ p.given = q.given /\ p.owes = q.owes
      /\ p.holds = q.holds /\ p.clean = q.clean \ {h}
      /\ rules' = rules /\ pages' = pages /\ doubt' = doubt \cup {h}
  BY PageSkippedEffect DEF SameConflicts
<1>2. PageDuty(q) /\ PageRight(s)
  BY DEF PageInv
<1>3. /\ h \in Modules /\ ToDo(q.mods) = {h} \cup ToDo(Tail(q.mods))
      /\ NoneTwice(q.mods) => NoneTwice(Tail(q.mods)) /\ h \notin ToDo(Tail(q.mods))
  BY <1>1, TailOf
<1>4. PageDuty(p)
  BY <1>1, <1>2, <1>3 DEF PageDuty, Writing
<1>5. \A m \in Modules : PageOwedBut(s, m)' <=> PageOwedBut(s, m)
  BY <1>1 DEF PageOwedBut, Disturbed, Same
<1>6. PageRight(s)'
  <2>1. \A m \in Modules : SeenPage(s, m)' = SeenPage(s, m)
    BY <1>1 DEF SeenPage
  <2> QED BY <1>1, <1>2, <1>3, <1>5, <2>1 DEF PageRight
<1>7. \A o \in Others(s) : PageDuty(sess'[o]) /\ PageRight(o)'
  BY <1>1, PagesOfOthers
<1>8. PagesExact'
  BY <1>1, PagesStay
<1> QED BY <1>4, <1>6, <1>7, <1>8 DEF PageInv, Others

\* A page that is stored keeps the invariant of the pages
LEMMA UpsertKeeps ==
    ASSUME Types, PageInv, NEW s \in Slots, UpsertPage(s)
    PROVE  PageInv'
<1> DEFINE q == sess[s]
           p == sess'[s]
           h == Head(q.mods)
<1>1. /\ Disturbed(s, {}) /\ q.at = "upsert" /\ p.at \in {"wiki", "end"}
      /\ p.kind = q.kind /\ q.mods \in Seq(Modules) /\ q.mods # <<>>
      /\ p.mods = Tail(q.mods) /\ (p.at = "end" => p.mods = <<>>)
      /\ Fresh(q) \in Page
      /\ p.tx.pages = [q.tx.pages EXCEPT ![h] = PageColumns(q.page, Fresh(q))]
      /\ p.tx.rules = q.tx.rules /\ p.given = q.given /\ p.owes = q.owes
      /\ p.holds = q.holds /\ p.clean = q.clean
      /\ rules' = rules /\ pages' = pages /\ doubt' = doubt
  BY UpsertEffect DEF SameConflicts, SameHolds
<1>2. PageDuty(q) /\ PageRight(s)
  BY DEF PageInv
<1>3. /\ h \in Modules /\ ToDo(q.mods) = {h} \cup ToDo(Tail(q.mods))
      /\ NoneTwice(q.mods) => NoneTwice(Tail(q.mods)) /\ h \notin ToDo(Tail(q.mods))
  BY <1>1, TailOf
<1>4. q.tx.pages \in [Modules -> PageParts] /\ q.page \in Pages
  <2>1. q \in Session /\ q.tx \in Tx
    BY Holdings
  <2> QED BY <2>1, TxIs DEF Session, Pages
<1>5. /\ p.tx.pages[h] = PageColumns(q.page, Fresh(q))
      /\ \A m \in Modules \ {h} : p.tx.pages[m] = q.tx.pages[m]
  BY <1>1, <1>3, <1>4
<1>6. PageDuty(p)
  BY <1>1, <1>2, <1>3, <1>5 DEF PageDuty, Writing
<1>7. \A m \in Modules : PageOwedBut(s, m)' <=> PageOwedBut(s, m)
  BY <1>1 DEF PageOwedBut, Disturbed, Same
<1>8. PageRight(s)'
  <2> SUFFICES ASSUME NEW m \in Modules, m \in p.clean
               PROVE  /\ ~PageOwedBut(s, m)' => p.given[m] = RulesOf(m, rules')
                      /\ m \in ToDo(p.mods) => p.tx.pages[m] = <<>>
                      /\ p.at = "upsert" /\ m = Head(p.mods) => p.page = pages'[m]
                      /\ m \notin ToDo(p.mods) /\ p.given[m] # {} =>
                             SeenPage(s, m)' = PageFor(p.given[m])
    BY DEF PageRight
  <2>1. /\ ~PageOwedBut(s, m) => q.given[m] = RulesOf(m, rules)
        /\ m \in ToDo(q.mods) => q.tx.pages[m] = <<>>
        /\ q.at = "upsert" /\ m = Head(q.mods) => q.page = pages[m]
        /\ m \notin ToDo(q.mods) /\ q.given[m] # {} =>
               SeenPage(s, m) = PageFor(q.given[m])
    BY <1>1, <1>2 DEF PageRight
  <2>2. CASE m # h
    <3>1. SeenPage(s, m)' = SeenPage(s, m)
      BY <1>1, <1>5, <2>2 DEF SeenPage
    <3> QED BY <1>1, <1>3, <1>5, <1>7, <2>1, <2>2, <3>1
  <2>3. CASE m = h
    <3>1. q.page = pages[m] /\ m \notin ToDo(p.mods)
      BY <1>1, <1>2, <1>3, <2>1, <2>3 DEF PageDuty
    <3>2. Over(PageColumns(q.page, Fresh(q)), q.page) = Fresh(q)
      BY <1>1, <1>4, PageColumnsPart
    <3>3. SeenPage(s, m)' = Over(PageColumns(q.page, Fresh(q)), q.page)
      BY <1>1, <1>5, <2>3, <3>1 DEF SeenPage
    <3>4. Fresh(q) = PageFor(q.given[m])
      BY <2>3 DEF Fresh, PageFor
    <3> QED BY <1>1, <1>7, <2>1, <3>1, <3>2, <3>3, <3>4
  <2> QED BY <2>2, <2>3
<1>9. \A o \in Others(s) : PageDuty(sess'[o]) /\ PageRight(o)'
  BY <1>1, PagesOfOthers
<1>10. PagesExact'
  BY <1>1, PagesStay
<1> QED BY <1>6, <1>8, <1>9, <1>10 DEF PageInv, Others

\* What a commit of s leaves of a module's rules and page
LEMMA CommitPage ==
    ASSUME Types, NEW s \in Slots, NEW keep, Commits(s, keep), NEW m \in Modules
    PROVE  /\ m \notin Stale(s) => RulesOf(m, rules') = RulesOf(m, rules)
           /\ sess[s].tx.rules = {} => RulesOf(m, rules') = RulesOf(m, rules)
           /\ pages'[m] = SeenPage(s, m)
           /\ sess[s].tx.pages[m] = <<>> => pages'[m] = pages[m]
<1>1. /\ rules' = rules \cup sess[s].tx.rules
      /\ pages' = [a \in Modules |-> SeenPage(s, a)]
  BY DEF Commits
<1>2. m \notin Stale(s) => \A r \in sess[s].tx.rules : m \notin Homes[r]
  BY DEF Stale
<1> QED BY <1>1, <1>2, PagesAre DEF RulesOf

\* A session commits: what it owes it has done, or goes on owing
LEMMA CommitPages ==
    ASSUME Types, HoldInv, PageInv, NEW s \in Slots, NEW keep \in SUBSET Ids,
           Commits(s, keep), sess'[s].mods = <<>>, sess'[s].at \notin Writing \cup {"end"},
           sess[s].at \notin Writing,
           sess'[s].owes \subseteq sess[s].owes,
           sess[s].owes \cap Modules \subseteq sess'[s].owes \cup sess[s].holds,
           sess'[s].owes # {} => sess'[s].kind = sess[s].kind
    PROVE  PageInv'
<1> DEFINE q == sess[s]
<1>1. PageDuty(q) /\ PageRight(s) /\ q.clean \subseteq q.holds
  BY DEF PageInv, Types, Ready
<1>2. /\ Disturbed(s, Stale(s)) /\ sess'[s].tx = NoTx
      /\ sess'[s].holds \subseteq keep /\ sess'[s].clean \subseteq keep
      /\ doubt' = (doubt \ (q.clean \ (keep \cup {"glossary"}))) \cup Stale(s)
      /\ Stale(s) \subseteq Modules
  BY DEF Commits
<1>3. keep \cap Modules = {} /\ "glossary" \notin Modules
  BY ThingsAssumption
<1>4. PageDuty(sess'[s])
  BY <1>1, <1>2, <1>3, NoneToDo, BlankPages DEF PageDuty
<1>5. PageRight(s)'
  BY <1>2, <1>3 DEF PageRight
<1>6. ASSUME NEW o \in Others(s) PROVE PageDuty(sess'[o]) /\ PageRight(o)'
  <2>1. ASSUME NEW m \in Modules, m \in sess'[o].clean
        PROVE  /\ pages'[m] = pages[m]
               /\ RulesOf(m, rules') = RulesOf(m, rules)
               /\ m \in q.owes => m \in sess'[s].owes
    <3>1. m \in sess[o].clean /\ m \notin Stale(s) /\ o \in Slots /\ s \in Others(o)
      BY <1>2, <2>1 DEF Disturbed, Others
    <3>2. m \notin q.holds
      BY <3>1 DEF HoldInv
    <3>3. q.tx.pages[m] = <<>>
      BY <1>1, <3>2 DEF PageDuty
    <3> QED BY <3>1, <3>2, <3>3, CommitPage
  <2> QED BY <1>2, <2>1, PagesOfOthers
<1>7. PagesExact'
  <2> SUFFICES ASSUME NEW m \in Modules, m \notin doubt' \cup Owed', RulesOf(m, rules') # {}
               PROVE  pages'[m] = PageFor(RulesOf(m, rules'))
    BY DEF PagesExact, PageFor
  <2>1. m \notin Stale(s) /\ RulesOf(m, rules') = RulesOf(m, rules)
    BY <1>2, CommitPage
  <2>2. ~PageOwedBut(s, m)
    BY <1>2 DEF PageOwedBut, Owed, Disturbed, Same, Others
  <2>3. CASE m \in q.clean
    <3>1. q.at = "end" /\ q.mods = <<>>
      BY <1>1, <2>3 DEF PageDuty
    <3>2. q.given[m] = RulesOf(m, rules) /\ SeenPage(s, m) = PageFor(q.given[m])
      BY <1>1, <2>1, <2>2, <2>3, <3>1, NoneToDo DEF PageRight
    <3> QED BY <2>1, <3>2, CommitPage
  <2>4. CASE m \in q.holds \ q.clean
    <3>1. m \in doubt
      BY <2>4 DEF HoldInv, Shared
    <3> QED BY <1>2, <2>4, <3>1
  <2>5. CASE m \notin q.holds
    <3>1. m \notin q.owes
      BY <2>5 DEF Owed
    <3>2. m \notin doubt \cup Owed
      BY <1>1, <1>2, <2>2, <2>5, <3>1 DEF Owed, PageOwedBut, Others
    <3>3. pages[m] = PageFor(RulesOf(m, rules))
      BY <2>1, <3>2 DEF PageInv, PagesExact, PageFor
    <3>4. q.tx.pages[m] = <<>>
      BY <1>1, <2>5 DEF PageDuty
    <3> QED BY <2>1, <3>3, <3>4, CommitPage
  <2> QED BY <2>3, <2>4, <2>5
<1> QED BY <1>4, <1>5, <1>6, <1>7 DEF PageInv, Others

\* A session that is lost keeps the invariant of the pages
LEMMA LosePages ==
    ASSUME Types, PageInv, NEW s \in Slots,
           DuplicatePage(s) \/ BreakDeadlock(s) \/ LoseSession(s)
    PROVE  PageInv'
<1>1. /\ Disturbed(s, sess[s].owes)
      /\ Same(sess'[s], NoSession) /\ SameHolds(sess'[s], NoSession)
      /\ doubt' = doubt \cup sess[s].owes
      /\ rules' = rules /\ pages' = pages
  BY LoseEffect
<1>2. PageDuty(sess'[s]) /\ PageRight(s)'
  BY <1>1, BlankPages, NoneToDo DEF PageDuty, PageRight, Same, Goes, SameHolds, Writing
<1>3. \A o \in Others(s) : PageDuty(sess'[o]) /\ PageRight(o)'
  <2> SUFFICES ASSUME NEW o \in Others(s) PROVE PageDuty(sess'[o]) /\ PageRight(o)'
    OBVIOUS
  <2>1. sess'[o].clean = sess[o].clean \ sess[s].owes
    BY <1>1 DEF Disturbed
  <2> QED BY <1>1, <2>1, PagesOfOthers
<1>4. PagesExact'
  BY <1>1, PagesStay
<1> QED BY <1>2, <1>3, <1>4 DEF PageInv, Others

\* Every step keeps what the sessions know of the pages
LEMMA StepPages == Types /\ HoldInv /\ PageInv /\ [Next]_vars => PageInv'
<1> SUFFICES ASSUME Types, HoldInv, PageInv, [Next]_vars PROVE PageInv'
  OBVIOUS
<1>0. /\ {"conflicts"} \in SUBSET Things /\ {"glossary"} \in SUBSET Things
      /\ {} \in SUBSET Things
      /\ "conflicts" \notin Modules /\ "glossary" \notin Modules /\ Ids \cap Modules = {}
  BY ThingsAssumption DEF Things
<1>1. CASE UNCHANGED vars
  <2>1. rules' = rules /\ pages' = pages /\ sess' = sess /\ doubt' = doubt
    BY <1>1 DEF vars
  <2> QED
    BY <2>1 DEF PageInv, PageRight, SeenPage, PageOwedBut, PagesExact, Owed, Others
<1>2. ASSUME NEW s \in Slots, Step(s) PROVE PageInv'
  <2>0. PageDuty(sess[s]) /\ sess[s].clean \subseteq sess[s].holds
    BY DEF PageInv, Types, Ready
  <2>1. CASE DetectRead(s)
    <3>1. PageInv'
      BY <1>0, <2>0, <2>1, DetectReadEffect, PagesAsideStep DEF Writing
    <3> QED BY <3>1
  <2>2. CASE ReplaceConflicts(s) \/ ReplaceAfterWait(s)
    BY <1>0, <2>0, <2>2, ReplaceEffect, PagesAsideStep DEF Writing, SameHolds
  <2>3. CASE WaitToReplace(s)
    <3>1. /\ Disturbed(s, {}) /\ SamePages(sess'[s], sess[s])
          /\ sess[s].at = "replace" /\ sess'[s].at = "blocked"
          /\ sess'[s].kind = sess[s].kind /\ sess'[s].owes = sess[s].owes
          /\ sess'[s].tx.rules = sess[s].tx.rules
          /\ sess'[s].holds = sess[s].holds /\ sess'[s].clean = sess[s].clean
          /\ pages' = pages /\ rules' = rules /\ doubt' = doubt
      BY <2>3, WaitEffect DEF SameHolds
    <3> QED BY <1>0, <2>0, <3>1, PagesAsideStep DEF Writing
  <2>4. CASE ScanRead(s)
    <3>1. /\ Disturbed(s, {"glossary"}) /\ SamePages(sess'[s], sess[s])
          /\ sess[s].at = "scan" /\ sess'[s].at = "flush"
          /\ sess'[s].kind = sess[s].kind /\ sess'[s].owes = sess[s].owes
          /\ sess'[s].tx.rules = sess[s].tx.rules
          /\ sess'[s].holds = sess[s].holds \cup {"glossary"}
          /\ sess'[s].clean \subseteq sess[s].clean \cup {"glossary"}
          /\ pages' = pages /\ rules' = rules /\ doubt \subseteq doubt'
      BY <2>4, ScanReadEffect DEF SameConflicts
    <3>2. /\ sess'[s].holds \cap Modules = sess[s].holds \cap Modules
          /\ sess'[s].clean \subseteq sess'[s].holds
      BY <1>0, <2>0, <3>1
    <3>3. sess[s].at \notin Writing \cup {"end"} /\ sess'[s].at \notin Writing \cup {"end"}
      BY <3>1 DEF Writing
    <3> QED BY <1>0, <3>1, <3>2, <3>3, PagesAsideStep
  <2>5. CASE FlushTerms(s)
    <3> DEFINE U == Undefined(sess[s])
    <3>1. /\ Disturbed(s, U) /\ SamePages(sess'[s], sess[s])
          /\ sess[s].at = "flush" /\ sess'[s].at \in {"infer", "passes done", "scan", "end"}
          /\ sess'[s].at = "end" => sess[s].kind # "batch"
          /\ sess'[s].kind = sess[s].kind /\ sess'[s].owes = sess[s].owes
          /\ sess'[s].tx.rules = sess[s].tx.rules
          /\ sess'[s].holds = sess[s].holds \cup U
          /\ sess'[s].clean \subseteq sess[s].clean \cup U
          /\ pages' = pages /\ rules' = rules /\ doubt \subseteq doubt'
      BY <2>5, FlushEffect DEF SameConflicts
    <3>2. U \in SUBSET Ids /\ U \in SUBSET Things
      BY FreshRows
    <3> HIDE DEF U
    <3>3. /\ sess'[s].holds \cap Modules = sess[s].holds \cap Modules
          /\ sess'[s].clean \subseteq sess'[s].holds
      BY <1>0, <2>0, <3>1, <3>2
    <3>4. sess[s].at \notin Writing \cup {"end"} /\ sess'[s].at \notin Writing
      BY <3>1 DEF Writing
    <3> QED BY <3>1, <3>2, <3>3, <3>4, PagesAsideStep
  <2>6. CASE InferFirst(s)
    <3>1. PICK i \in FirstOf(sess[s].fresh) :
            \/ /\ sess' = [sess EXCEPT ![s] = ToDefine(sess[s], sess[s].fresh \ {i})]
               /\ UNCHANGED <<Tables, Counts, doubt>>
            \/ /\ Commit(s, [sess[s] EXCEPT !.row = i, !.fresh = @ \ {i}, !.at = "define"],
                         sess[s].fresh)
               /\ UNCHANGED Counts
      BY <2>6, InferCases
    <3>2. sess[s].at = "infer"
      BY <2>6, InferCases
    <3>3. CASE /\ sess' = [sess EXCEPT ![s] = ToDefine(sess[s], sess[s].fresh \ {i})]
               /\ UNCHANGED <<Tables, Counts, doubt>>
      BY <1>0, <2>0, <3>2, <3>3, InferSkipEffect, PagesAsideStep DEF Writing, SameHolds
    <3>4. CASE /\ Commit(s, [sess[s] EXCEPT !.row = i, !.fresh = @ \ {i}, !.at = "define"],
                         sess[s].fresh)
               /\ UNCHANGED Counts
      <4>1. /\ Commits(s, sess[s].fresh) /\ sess'[s].at = "define"
            /\ sess'[s].mods = sess[s].mods /\ sess'[s].kind = sess[s].kind
            /\ sess'[s].owes = sess[s].owes \ sess[s].holds
        BY <3>2, <3>4, InferCommitEffect
      <4>2. sess[s].mods = <<>>
        BY <2>0, <3>2 DEF PageDuty, Writing
      <4> QED BY <3>2, <4>1, <4>2, FreshRows, CommitPages DEF Writing
    <3> QED BY <3>1, <3>3, <3>4
  <2>7. CASE \E text \in Ai : Define(s, text)
    BY <1>0, <2>0, <2>7, DefineEffect, PagesAsideStep DEF Writing, SameHolds
  <2>8. CASE DefineNothing(s)
    BY <1>0, <2>0, <2>8, DefineNothingEffect, PagesAsideStep DEF Writing
  <2>9. CASE EndPasses(s)
    <3>0. sess[s].at = "passes done"
      BY <2>9, EndCases
    <3>1. CASE Commit(s, sess[s], {}) /\ UNCHANGED Counts
      <4>1. /\ Commits(s, {}) /\ sess'[s].at = "passes done"
            /\ sess'[s].mods = sess[s].mods /\ sess'[s].kind = sess[s].kind
            /\ sess'[s].owes = sess[s].owes \ sess[s].holds
        BY <3>0, <3>1, EndCommitEffect
      <4>2. sess[s].mods = <<>>
        BY <2>0, <3>0 DEF PageDuty, Writing
      <4> QED BY <3>0, <4>1, <4>2, CommitPages DEF Writing
    <3>2. CASE ~(Commit(s, sess[s], {}) /\ UNCHANGED Counts)
      <4> DEFINE X == Mine(sess[s])
      <4>1. sess[s].tx = NoTx /\ sess[s].holds = {}
        BY <2>9, <3>2, EndCases
      <4>2. PICK order \in Orders(X) :
               /\ Disturbed(s, X)
               /\ sess[s].kind = "batch" /\ sess'[s].kind = "batch"
               /\ sess'[s].at = IF X = {} THEN "end" ELSE "wiki"
               /\ sess'[s].mods = order
               /\ sess'[s].given = [m \in Modules |-> IF m \in X THEN RulesOf(m, rules)
                                                      ELSE {}]
               /\ sess'[s].tx = sess[s].tx
               /\ sess'[s].owes = sess[s].owes
               /\ sess'[s].holds = sess[s].holds \cup X
               /\ sess'[s].clean = sess[s].clean \cup (X \ HeldByOthers(s))
               /\ doubt' = doubt \cup (X \cap HeldByOthers(s))
               /\ rules' = rules /\ pages' = pages
        BY <2>9, <3>0, <3>2, EndCases, ReadRulesEffect DEF SameConflicts
      <4>3. sess[s].owes \cap Modules = X /\ X \in SUBSET Modules
        BY DEF Mine
      <4> HIDE DEF X
      <4>4. /\ \A m \in X : sess'[s].given[m] = RulesOf(m, rules)
            /\ \A m \in Modules : sess'[s].tx.pages[m] = <<>>
            /\ sess'[s].holds = X /\ sess'[s].clean \subseteq X /\ sess'[s].tx.rules = {}
            /\ sess'[s].owes \cap Modules \subseteq X
            /\ sess[s].owes \cap Modules \subseteq sess'[s].owes
            /\ doubt \subseteq doubt'
        BY <2>0, <4>1, <4>2, <4>3, BlankPages
      <4> QED BY <4>2, <4>3, <4>4, StartsPages
    <3> QED BY <3>1, <3>2
  <2>10. CASE PageWritten(s)
    BY <2>10, PageWrittenKeeps
  <2>11. CASE PageSkipped(s)
    BY <2>11, PageSkippedKeeps
  <2>12. CASE UpsertPage(s)
    BY <2>12, UpsertKeeps
  <2>13. CASE DuplicatePage(s) \/ BreakDeadlock(s) \/ LoseSession(s)
    BY <2>13, LosePages
  <2>14. CASE End(s)
    <3>1. /\ Commits(s, {}) /\ sess[s].at = "end" /\ sess'[s] = NoSession
      BY <2>14, EndEffect
    <3>2. sess[s].owes \cap Modules \subseteq sess[s].holds
      BY <2>0, <3>1 DEF PageDuty
    <3> QED BY <3>1, <3>2, BlankPages, CommitPages DEF Writing
  <2> QED
    BY <1>2, <2>1, <2>2, <2>3, <2>4, <2>5, <2>6, <2>7, <2>8, <2>9, <2>10, <2>11, <2>12,
       <2>13, <2>14 DEF Step
<1>3. ASSUME NEW s \in Slots, Request(s) PROVE PageInv'
  <2>1. CASE \E n \in Batches : FinishFiles(s, n)
    <3>1. PICK n \in Batches : FinishFiles(s, n)
      BY <2>1
    <3>2. /\ Began(s, {}) /\ sess'[s].kind = "batch" /\ sess'[s].at = "detect"
          /\ sess'[s].tx = NoTx /\ sess'[s].mods = <<>>
          /\ UNION {Homes[r] : r \in Brings[n]} \subseteq sess'[s].owes
          /\ rules' = rules \cup Brings[n]
      BY <3>1, FinishFilesEffect
    <3>3. \A m \in Modules : RulesOf(m, rules') = RulesOf(m, rules) \/ m \in sess'[s].owes
      BY <3>2 DEF RulesOf
    <3> QED BY <3>2, <3>3, BlankPages, OpensNoPages DEF Writing
  <2>2. CASE \E n \in Uploads : UploadFile(s, n)
    BY <1>0, <2>2, UploadFileEffect, OpensNoPages DEF Writing
  <2>3. CASE Migrate(s)
    BY <2>3, MigrateEffect, BlankPages, OpensNoPages DEF Writing
  <2>4. CASE Rescan(s)
    BY <2>4, RescanEffect, BlankPages, OpensNoPages DEF Writing
  <2>5. CASE Regenerate(s)
    <3>1. /\ Began(s, Served) /\ sess'[s].kind = "regenerate"
          /\ sess'[s].at = IF Served = {} THEN "end" ELSE "wiki"
          /\ sess'[s].tx = NoTx /\ sess'[s].owes = {}
          /\ \E order \in Orders(Served) : sess'[s].mods = order
          /\ sess'[s].given = [m \in Modules |-> RulesOf(m, rules)]
          /\ rules' = rules
      BY <2>5, RegenerateEffect
    <3>2. Served \in SUBSET Modules
      BY DEF Served
    <3>3. PICK order \in Orders(Served) : sess'[s].mods = order
      BY <3>1
    <3>4. /\ Disturbed(s, Served) /\ sess[s] = NoSession /\ pages' = pages
          /\ sess'[s].holds = Served /\ sess'[s].clean \subseteq Served
          /\ doubt \subseteq doubt'
      BY <3>1 DEF Began
    <3>5. /\ \A m \in Served : sess'[s].given[m] = RulesOf(m, rules)
          /\ \A m \in Modules : sess'[s].tx.pages[m] = <<>>
          /\ sess'[s].tx.rules = {} /\ sess[s].owes = {}
      BY <3>1, <3>2, <3>4, BlankPages
    <3> HIDE DEF Served
    <3> QED BY <3>1, <3>2, <3>3, <3>4, <3>5, StartsPages
  <2>6. CASE \E i \in Ids : InferAgain(s, i)
    <3>1. PICK i \in Ids : InferAgain(s, i)
      BY <2>6
    <3>2. /\ Began(s, {i}) /\ sess'[s].at = "define" /\ sess'[s].tx = NoTx
          /\ sess'[s].owes = {} /\ sess'[s].mods = <<>> /\ rules' = rules
      BY <3>1, InferAgainEffect
    <3>3. {i} \cap Modules = {}
      BY <1>0
    <3> QED BY <3>2, <3>3, BlankPages, OpensNoPages DEF Writing
  <2>7. CASE \E i \in Ids : AcceptDefinition(s, i)
    BY <2>7, AcceptEffect, BlankPages, OpensNoPages DEF Writing
  <2>8. CASE \E i \in Ids, text \in Hand : EditDefinition(s, i, text)
    <3>1. PICK i \in Ids : \E text \in Hand : EditDefinition(s, i, text)
      BY <2>8
    <3>2. /\ Began(s, {i}) /\ sess'[s].at = "flush" /\ sess'[s].tx = NoTx
          /\ sess'[s].owes = {} /\ sess'[s].mods = <<>> /\ rules' = rules
      BY <3>1, EditEffect
    <3>3. {i} \cap Modules = {}
      BY <1>0
    <3> QED BY <3>2, <3>3, BlankPages, OpensNoPages DEF Writing
  <2>9. CASE \E i \in Ids, d \in {"approved", "rejected"} : JudgeSynonym(s, i, d)
    BY <2>9, JudgeEffect, BlankPages, OpensNoPages DEF Writing
  <2> QED
    BY <1>3, <2>1, <2>2, <2>3, <2>4, <2>5, <2>6, <2>7, <2>8, <2>9 DEF Request
<1> QED BY <1>1, <1>2, <1>3 DEF Next

\* The pages are exact to begin with
LEMMA InitPages == Init => PageInv
<1> SUFFICES ASSUME Init PROVE PageInv
  OBVIOUS
<1>1. \A s \in Slots : sess[s] = NoSession
  BY DEF Init, Quiet
<1>2. \A s \in Slots : PageDuty(sess[s]) /\ PageRight(s)
  BY <1>1, BlankPages, NoneToDo DEF PageDuty, PageRight, Writing
<1>3. CASE EmptyInit
  BY <1>2, <1>3 DEF EmptyInit, PageInv, PagesExact, RulesOf
<1>4. CASE \E n \in Batches : LaterInit(n)
  BY <1>2, <1>4 DEF LaterInit, PageInv, PagesExact
<1> QED BY <1>3, <1>4 DEF Init

(* Every page documents the rules its module has: whatever is generated at *)
(* the same time and whoever is refused or lost, unless the module is in   *)
(* doubt or a job still owes it its pages.                                 *)
THEOREM PagesStayExact == Spec => []PagesExact
<1>1. Init => PageInv
  BY InitPages
<1>2. Types /\ HoldInv /\ PageInv /\ [Next]_vars => PageInv'
  BY StepPages
<1>3. PageInv => PagesExact
  BY DEF PageInv
<1> QED BY <1>1, <1>2, <1>3, AlwaysHolds, PTL DEF Spec

-----------------------------------------------------------------------------
(* Rows keep their status *)

\* The rows a session knows are there: the committed ones and its own.  A row
\* has a status as soon as it is there.
Known(q, T) == T \cup {i \in Ids : "status" \in DOMAIN q.tx.terms[i]}

\* A row that is there is judged, or to be
HasStatus(row) == row # NoRow => row["status"] # None

(* A session that is no decision writes a status only in a row it makes,   *)
(* and knows the rows it works on                                          *)
RowRight(q, T) ==
    /\ \A i \in Ids :
          /\ HasStatus(q.out[i])
          /\ "status" \in DOMAIN q.tx.terms[i] =>
                /\ q.tx.terms[i]["status"] # None
                /\ q.kind # "judge" => i \notin T
          /\ q.tx.terms[i] # <<>> => i \in Known(q, T)
          /\ q.mem[i] # NoRow => i \in Known(q, T)
          /\ i \in Known(q, T) \ T => q.out[i] # NoRow
          /\ q.at = "flush" /\ q.kind # "judge"
                /\ q.out[i]["status"] # q.mem[i]["status"] => i \notin T
          /\ q.at = "flush" /\ q.mem[i] # NoRow => q.out[i] # NoRow
    /\ q.fresh \subseteq Known(q, T)
    /\ q.at = "define" => q.row \in Known(q, T)

\* A row that is not there yet, one session at most is about to make
OneMaker == \A i \in Ids \ Exists(terms) : \A s \in Slots : \A o \in Others(s) :
                sess[s].out[i] # NoRow => sess[o].out[i] = NoRow

\* Every row is judged or to be, and every session is right about the rows
RowInv ==
    /\ \A i \in Ids : HasStatus(terms[i])
    /\ \A s \in Slots : RowRight(sess[s], Exists(terms))
    /\ OneMaker

\* A session that goes on with the rows it has is right about them
LEMMA KeepsRight ==
    ASSUME NEW T, NEW q, NEW p, RowRight(q, T), SameRows(p, q), p.kind = q.kind,
           p.fresh \subseteq q.fresh, p.at # "flush",
           p.at = "define" => q.at = "define" /\ p.row = q.row
    PROVE  RowRight(p, T)
BY DEF RowRight, SameRows, Known

\* Sessions with the same rows are right about the same
LEMMA SameRight ==
    ASSUME NEW T, NEW q, NEW p, RowRight(q, T), Same(p, q)
    PROVE  RowRight(p, T)
BY DEF RowRight, Same, Goes, Known

\* The table is as it was, and the session that takes the step is right
LEMMA RowsStay ==
    ASSUME Types, RowInv, NEW s \in Slots, NEW X, Disturbed(s, X), terms' = terms,
           RowRight(sess'[s], Exists(terms)),
           \A i \in Ids \ Exists(terms) : \A o \in Others(s) :
               sess'[s].out[i] # NoRow => sess[s].out[i] # NoRow \/ sess[o].out[i] = NoRow
    PROVE  RowInv'
<1>1. Exists(terms') = Exists(terms)
  OBVIOUS
<1>2. \A o \in Others(s) : Same(sess'[o], sess[o]) /\ sess'[o].out = sess[o].out
  BY DEF Disturbed, Same, Goes
<1>3. ASSUME NEW a \in Slots PROVE RowRight(sess'[a], Exists(terms'))
  <2>1. CASE a = s
    BY <1>1, <2>1
  <2>2. CASE a # s
    <3>1. a \in Others(s) /\ RowRight(sess[a], Exists(terms))
      BY <2>2 DEF Others, RowInv
    <3> QED BY <1>1, <1>2, <3>1, SameRight
  <2> QED BY <2>1, <2>2
<1>4. OneMaker'
  <2> SUFFICES ASSUME NEW i \in Ids \ Exists(terms), NEW a \in Slots, NEW b \in Others(a),
                      sess'[a].out[i] # NoRow
               PROVE  sess'[b].out[i] = NoRow
    BY <1>1 DEF OneMaker, Others
  <2>1. a # b /\ b \in Slots /\ a \in Others(b)
    BY DEF Others
  <2>2. /\ sess[a].out[i] # NoRow => sess[b].out[i] = NoRow
        /\ sess[b].out[i] # NoRow => sess[a].out[i] = NoRow
    BY <2>1 DEF RowInv, OneMaker
  <2>3. CASE a = s
    BY <1>2, <2>2, <2>3
  <2>4. CASE b = s
    <3>1. a \in Others(s) /\ sess'[a].out = sess[a].out
      BY <1>2, <2>1, <2>4
    <3> QED BY <2>2, <2>4, <3>1
  <2>5. CASE a # s /\ b # s
    <3>1. a \in Others(s) /\ b \in Others(s)
      BY <2>1, <2>5 DEF Others
    <3> QED BY <1>2, <2>2, <3>1
  <2> QED BY <2>3, <2>4, <2>5
<1>5. \A i \in Ids : HasStatus(terms'[i])
  BY DEF RowInv
<1> QED BY <1>3, <1>4, <1>5 DEF RowInv

\* A session goes on and has nothing to do with rows in this step
LEMMA RowsAside ==
    ASSUME Types, RowInv, NEW s \in Slots, NEW X, Disturbed(s, X), terms' = terms,
           SameRows(sess'[s], sess[s]), sess'[s].kind = sess[s].kind,
           sess'[s].fresh \subseteq sess[s].fresh,
           sess'[s].at \notin {"flush", "define"}
    PROVE  RowInv'
<1>1. RowRight(sess'[s], Exists(terms))
  BY KeepsRight DEF RowInv
<1>2. sess'[s].out = sess[s].out
  BY DEF SameRows
<1> QED BY <1>1, <1>2, RowsStay

\* A session that is not open has no rows
LEMMA BlankRows ==
    /\ \A i \in Ids : /\ NoSession.mem[i] = NoRow /\ NoSession.out[i] = NoRow
                      /\ NoTx.terms[i] = <<>>
    /\ NoSession.fresh = {} /\ NoSession.at = "idle" /\ NoSession.tx = NoTx
BY NoSessionIsSession, NoTxIsTx

\* A session that has no row in memory
LEMMA BlankRight ==
    ASSUME NEW q, NEW T, q.mem = NoSession.mem, q.out = NoSession.out,
           q.tx.terms = NoTx.terms, q.fresh = {}, q.at # "define"
    PROVE  RowRight(q, T)
<1>1. \A i \in Ids : q.mem[i] = NoRow /\ q.out[i] = NoRow /\ q.tx.terms[i] = <<>>
  BY BlankRows
<1>2. \A i \in Ids : "status" \notin DOMAIN q.tx.terms[i]
  BY <1>1
<1> QED BY <1>1, <1>2 DEF RowRight, HasStatus, Known

\* A session that has no rows is right about them
LEMMA BlankKeeps ==
    ASSUME Types, RowInv, NEW s \in Slots, NEW X, Disturbed(s, X), terms' = terms,
           sess'[s].mem = NoSession.mem, sess'[s].out = NoSession.out,
           sess'[s].tx.terms = NoTx.terms, sess'[s].fresh = {}, sess'[s].at # "define"
    PROVE  RowInv'
<1>1. RowRight(sess'[s], Exists(terms))
  BY BlankRight
<1>2. \A i \in Ids : sess'[s].out[i] = NoRow
  BY BlankRows
<1> QED BY <1>1, <1>2, RowsStay

\* A session opens that has loaded the table
LEMMA OpensRow ==
    ASSUME Types, RowInv, NEW s \in Slots, NEW X, Began(s, X),
           sess'[s].tx = NoTx, sess'[s].mem = terms,
           \A i \in Ids : /\ HasStatus(sess'[s].out[i])
                          /\ sess'[s].out[i] # NoRow => i \in Exists(terms)
                          /\ sess'[s].at = "flush" /\ terms[i] # NoRow =>
                                sess'[s].out[i] # NoRow
                          /\ sess'[s].at = "flush" /\ sess'[s].kind # "judge" =>
                                sess'[s].out[i]["status"] = terms[i]["status"],
           sess'[s].at = "define" => sess'[s].row \in Exists(terms)
    PROVE  RowInv'
<1>1. Disturbed(s, X) /\ terms' = terms /\ sess'[s].fresh = {}
  BY DEF Began
<1>2. \A i \in Ids : "status" \notin DOMAIN NoTx.terms[i] /\ NoTx.terms[i] = <<>>
  BY BlankRows
<1>3. Known(sess'[s], Exists(terms)) = Exists(terms)
  BY <1>2 DEF Known
<1>4. \A i \in Ids : terms[i] # NoRow => i \in Exists(terms)
  BY DEF Exists
<1>5. RowRight(sess'[s], Exists(terms))
  BY <1>1, <1>2, <1>3, <1>4 DEF RowRight
<1> QED BY <1>1, <1>5, RowsStay

\* A row as a session sees it, with what it has written
LEMMA SeenRow ==
    ASSUME Types, RowInv, NEW s \in Slots, NEW i \in Ids
    PROVE  /\ SeenTerms(s)[i] \in Row /\ terms[i] \in Row
           /\ sess[s].tx.terms[i] \in Parts(Row)
           /\ HasStatus(SeenTerms(s)[i])
           /\ SeenTerms(s)[i] # NoRow <=> i \in Known(sess[s], Exists(terms))
           /\ \A c \in Columns :
                SeenTerms(s)[i][c] = IF c \in DOMAIN sess[s].tx.terms[i]
                                     THEN sess[s].tx.terms[i][c] ELSE terms[i][c]
<1> DEFINE f == sess[s].tx.terms[i]
           r == terms[i]
           v == SeenTerms(s)[i]
<1>1. r \in Row /\ f \in Parts(Row)
  <2>1. sess[s].tx \in Tx
    BY Holdings
  <2> QED BY <2>1, TxIs DEF Types, TablesTyped
<1>2. v = Over(f, r)
  BY DEF SeenTerms
<1>3. v \in Row /\ \A c \in Columns : v[c] = IF c \in DOMAIN f THEN f[c] ELSE r[c]
  BY <1>1, <1>2, OverRow
<1>4. RowRight(sess[s], Exists(terms)) /\ HasStatus(r)
  BY DEF RowInv
<1>5. /\ "status" \in DOMAIN f => f["status"] # None
      /\ f # <<>> => i \in Known(sess[s], Exists(terms))
  BY <1>4 DEF RowRight
<1>6. i \in Exists(terms) <=> r # NoRow
  BY DEF Exists
<1> HIDE DEF v, f, r
<1>7. v["status"] = IF "status" \in DOMAIN f THEN f["status"] ELSE r["status"]
  BY <1>3 DEF Columns
<1>8. i \in Known(sess[s], Exists(terms)) <=> i \in Exists(terms) \/ "status" \in DOMAIN f
  BY DEF Known, f
<1>9. i \in Known(sess[s], Exists(terms)) => v["status"] # None
  BY <1>4, <1>5, <1>6, <1>7, <1>8 DEF HasStatus
<1>10. i \notin Known(sess[s], Exists(terms)) => v = NoRow
  <2> SUFFICES ASSUME i \notin Known(sess[s], Exists(terms)) PROVE v = NoRow
    OBVIOUS
  <2>1. f = <<>> /\ r = NoRow
    BY <1>5, <1>6, <1>8
  <2>2. Over(<<>>, NoRow) = [c \in DOMAIN NoRow |-> NoRow[c]]
    BY DEF Over
  <2>3. [c \in DOMAIN NoRow |-> NoRow[c]] = NoRow
    BY DEF NoRow
  <2> QED BY <1>2, <2>1, <2>2, <2>3 DEF v, f, r
<1>11. v = NoRow => v["status"] = None
  BY NoRowIsRow
<1> QED BY <1>1, <1>3, <1>9, <1>10, <1>11 DEF HasStatus, v, f, r

\* A scan that reads the glossary is right about its rows
LEMMA ScanKeepsRows ==
    ASSUME Types, RowInv, NEW s \in Slots, ScanRead(s)
    PROVE  RowInv'
<1> DEFINE q == sess[s]
           p == sess'[s]
           T == Exists(terms)
           v == SeenTerms(s)
           free == FreeIds \ Exists(v)
<1>1. /\ Disturbed(s, {"glossary"}) /\ p.at = "flush" /\ p.kind = q.kind
      /\ p.mem = v /\ Scanned(v, p.out, free) /\ p.tx = q.tx
      /\ p.fresh = q.fresh /\ terms' = terms
  BY ScanReadEffect
<1>2. RowRight(q, T) /\ OneMaker
  BY DEF RowInv
<1>3. Known(p, T) = Known(q, T)
  BY <1>1 DEF Known
<1>4. \A i \in Ids : /\ HasStatus(v[i]) /\ (v[i] # NoRow <=> i \in Known(q, T))
  BY SeenRow
<1>5. \A i \in free : i \notin T /\ \A o \in Slots : sess[o].out[i] = NoRow
  BY DEF FreeIds
<1> HIDE DEF free, v, T, q, p
<1>6. \A i \in Ids :
         /\ HasStatus(p.out[i])
         /\ v[i] # NoRow => p.out[i] # NoRow
         /\ p.out[i]["status"] # v[i]["status"] => i \in free
         /\ p.out[i] # NoRow => i \in free \/ i \in Known(q, T)
  BY <1>1, <1>4, NullAssumption DEF Scanned, HasStatus, Decisions
<1>7. RowRight(p, T)
  <2>1. p.fresh \subseteq Known(p, T) /\ p.at # "define"
    BY <1>1, <1>2, <1>3 DEF RowRight
  <2>2. ASSUME NEW i \in Ids
        PROVE /\ HasStatus(p.out[i])
              /\ "status" \in DOMAIN p.tx.terms[i] =>
                    /\ p.tx.terms[i]["status"] # None
                    /\ p.kind # "judge" => i \notin T
              /\ p.tx.terms[i] # <<>> => i \in Known(p, T)
              /\ p.mem[i] # NoRow => i \in Known(p, T)
              /\ i \in Known(p, T) \ T => p.out[i] # NoRow
              /\ p.at = "flush" /\ p.kind # "judge"
                    /\ p.out[i]["status"] # p.mem[i]["status"] => i \notin T
              /\ p.at = "flush" /\ p.mem[i] # NoRow => p.out[i] # NoRow
    BY <1>1, <1>2, <1>3, <1>4, <1>5, <1>6 DEF RowRight
  <2> QED BY <2>1, <2>2 DEF RowRight
<1>8. ASSUME NEW i \in Ids \ T, NEW o \in Others(s), p.out[i] # NoRow
      PROVE  q.out[i] # NoRow \/ sess[o].out[i] = NoRow
  <2>1. i \in free \/ i \in Known(q, T)
    BY <1>6, <1>8
  <2>2. i \in Known(q, T) => q.out[i] # NoRow
    BY <1>2, <1>8 DEF RowRight
  <2> QED BY <1>5, <2>1, <2>2 DEF Others
<1> QED BY <1>1, <1>7, <1>8, RowsStay DEF p, q, T

\* A session that writes its rows stays right about them
LEMMA FlushKeepsRows ==
    ASSUME Types, RowInv, NEW s \in Slots, FlushTerms(s)
    PROVE  RowInv'
<1> DEFINE q == sess[s]
           p == sess'[s]
           T == Exists(terms)
           ch(i) == Changed(q.mem[i], q.out[i])
<1>1. /\ Disturbed(s, Undefined(q)) /\ q.at = "flush" /\ p.kind = q.kind
      /\ p.at \in {"infer", "passes done", "scan", "end"}
      /\ p.fresh = Undefined(q) /\ p.tx.terms = Merged(q)
      /\ p.mem = q.out /\ p.out = q.out /\ terms' = terms
  BY FlushEffect
<1>2. RowRight(q, T)
  BY DEF RowInv
<1>3. q \in Session /\ q.tx \in Tx
  BY Holdings
<1>4. q.mem \in [Ids -> Row] /\ q.out \in [Ids -> Row] /\ q.tx.terms \in [Ids -> Parts(Row)]
  BY <1>3, TxIs DEF Session
<1> HIDE DEF q, p, T
<1>5. ASSUME NEW i \in Ids
      PROVE  /\ \A c \in Columns : c \in DOMAIN ch(i) <=> q.out[i][c] # q.mem[i][c]
             /\ \A c \in DOMAIN ch(i) : ch(i)[c] = q.out[i][c]
             /\ DOMAIN p.tx.terms[i] = DOMAIN ch(i) \cup DOMAIN q.tx.terms[i]
             /\ \A c \in DOMAIN p.tx.terms[i] :
                   p.tx.terms[i][c] = IF c \in DOMAIN ch(i) THEN ch(i)[c] ELSE q.tx.terms[i][c]
  <2>1. p.tx.terms[i] = Over(ch(i), q.tx.terms[i])
    BY <1>1 DEF Merged
  <2>2. q.mem[i] \in Row /\ q.out[i] \in Row /\ q.tx.terms[i] \in Parts(Row)
    BY <1>4
  <2>3. /\ ch(i) \in Parts(Row)
        /\ \A c \in Columns : c \in DOMAIN ch(i) <=> q.out[i][c] # q.mem[i][c]
        /\ \A c \in DOMAIN ch(i) : ch(i)[c] = q.out[i][c]
    BY <2>2, ChangedRow
  <2> DEFINE f == ch(i)
             g == q.tx.terms[i]
  <2>4. /\ DOMAIN Over(f, g) = DOMAIN f \cup DOMAIN g
        /\ \A c \in DOMAIN Over(f, g) :
              Over(f, g)[c] = IF c \in DOMAIN f THEN f[c] ELSE g[c]
    <3>1. f \in Parts(Row) /\ g \in Parts(Row)
      BY <2>2, <2>3
    <3> HIDE DEF f, g
    <3> QED BY <3>1, OverParts
  <2> QED BY <2>1, <2>3, <2>4
<1>6. ASSUME NEW i \in Ids
      PROVE  /\ q.out[i] # NoRow => i \in Known(p, T)
             /\ i \in Known(p, T) \ T => q.out[i] # NoRow
             /\ "status" \in DOMAIN p.tx.terms[i] =>
                   /\ p.tx.terms[i]["status"] # None
                   /\ p.kind # "judge" => i \notin T
  <2>1. /\ HasStatus(q.out[i])
        /\ "status" \in DOMAIN q.tx.terms[i] =>
              q.tx.terms[i]["status"] # None /\ (q.kind # "judge" => i \notin T)
        /\ q.mem[i] # NoRow => i \in Known(q, T)
        /\ i \in Known(q, T) \ T => q.out[i] # NoRow
        /\ q.kind # "judge" /\ q.out[i]["status"] # q.mem[i]["status"] => i \notin T
        /\ q.mem[i] # NoRow => q.out[i] # NoRow
    BY <1>1, <1>2 DEF RowRight
  <2>2. /\ i \in Known(q, T) <=> i \in T \/ "status" \in DOMAIN q.tx.terms[i]
        /\ i \in Known(p, T) <=> i \in T \/ "status" \in DOMAIN p.tx.terms[i]
    BY DEF Known
  <2>3. "status" \in Columns
    BY DEF Columns
  <2>4. "status" \in DOMAIN ch(i) <=> q.out[i]["status"] # q.mem[i]["status"]
    BY <1>5, <2>3
  <2>5. q.mem[i] = NoRow => q.mem[i]["status"] = None
    BY NoRowIsRow
  <2>6. "status" \in DOMAIN p.tx.terms[i] <=>
           "status" \in DOMAIN ch(i) \/ "status" \in DOMAIN q.tx.terms[i]
    BY <1>5
  <2>7. q.out[i] = NoRow => q.out[i]["status"] = None
    BY NoRowIsRow
  <2>8. "status" \in DOMAIN ch(i) => q.out[i] # NoRow
    BY <2>1, <2>4, <2>5, <2>7
  <2>9. "status" \in DOMAIN p.tx.terms[i] =>
           p.tx.terms[i]["status"] = IF "status" \in DOMAIN ch(i) THEN q.out[i]["status"]
                                     ELSE q.tx.terms[i]["status"]
    BY <1>5
  <2> HIDE DEF ch
  <2>10. q.out[i] # NoRow => i \in Known(p, T)
    BY <2>1, <2>2, <2>4, <2>5, <2>6 DEF HasStatus
  <2> QED BY <1>1, <2>1, <2>2, <2>4, <2>6, <2>8, <2>9, <2>10 DEF HasStatus
<1>7. ASSUME NEW i \in Ids, p.tx.terms[i] # <<>>
      PROVE  i \in Known(p, T)
  <2>1. /\ q.tx.terms[i] # <<>> => i \in Known(q, T)
        /\ q.mem[i] # NoRow => q.out[i] # NoRow
    BY <1>1, <1>2 DEF RowRight
  <2>2. CASE q.out[i] # NoRow
    BY <1>6, <2>2
  <2>3. CASE q.out[i] = NoRow
    <3>1. q.mem[i] = q.out[i]
      BY <2>1, <2>3
    <3>2. DOMAIN ch(i) = {}
      <4>1. ch(i) = [c \in {c \in DOMAIN q.out[i] : q.out[i][c] # q.mem[i][c]} |-> q.out[i][c]]
        BY DEF Changed
      <4> QED BY <3>1, <4>1
    <3>3. q.tx.terms[i] # <<>>
      <4> SUFFICES ASSUME q.tx.terms[i] = <<>> PROVE FALSE
        OBVIOUS
      <4>1. Over(ch(i), <<>>) = <<>>
        <5> DEFINE f == ch(i)
                   h == Over(f, <<>>)
        <5>1. DOMAIN f = {}
          BY <3>2
        <5> HIDE DEF f
        <5>2. DOMAIN h = {} /\ h = [c \in DOMAIN h |-> h[c]]
          BY <5>1 DEF Over
        <5> HIDE DEF h
        <5>3. h = <<>>
          BY <5>2
        <5> QED BY <5>3 DEF h, f
      <4>2. p.tx.terms[i] = Over(ch(i), q.tx.terms[i])
        BY <1>1 DEF Merged
      <4> QED BY <1>7, <4>1, <4>2
    <3>4. i \in Known(q, T)
      BY <2>1, <3>3
    <3>5. DOMAIN q.tx.terms[i] \subseteq DOMAIN p.tx.terms[i]
      BY <1>5
    <3> QED BY <3>4, <3>5 DEF Known
  <2> QED BY <2>2, <2>3
<1>8. RowRight(p, T)
  <2>1. p.fresh \subseteq Known(p, T)
    <3>1. \A i \in Undefined(q) : i \in Ids /\ q.out[i] # NoRow
      <4> SUFFICES ASSUME NEW i \in Undefined(q) PROVE i \in Ids /\ q.out[i] # NoRow
        OBVIOUS
      <4>1. i \in Ids /\ q.out[i] # q.mem[i] /\ i \notin Exists(q.mem)
        BY DEF Undefined, Newborn, Dirty
      <4> QED BY <4>1 DEF Exists
    <3> QED BY <1>1, <1>6, <3>1
  <2>2. p.at \notin {"define", "flush"}
    BY <1>1
  <2>3. \A i \in Ids : HasStatus(p.out[i])
    BY <1>1, <1>2 DEF RowRight
  <2> QED BY <1>1, <1>6, <1>7, <2>1, <2>2, <2>3 DEF RowRight
<1> QED BY <1>1, <1>8, RowsStay DEF p, q, T

\* A session that drafts a definition stays right about its rows
LEMMA DefineKeepsRows ==
    ASSUME Types, RowInv, NEW s \in Slots, NEW text \in Ai, Define(s, text)
    PROVE  RowInv'
<1> DEFINE q == sess[s]
           p == sess'[s]
           T == Exists(terms)
           d == Drafted(q, text)
           ch == Changed(q.mem[q.row], d)
<1>1. /\ Disturbed(s, {}) /\ q.at = "define" /\ p.kind = q.kind /\ q.row \in Ids
      /\ p.at \in {"infer", "passes done", "scan", "end"}
      /\ p.fresh = q.fresh /\ p.out = q.out /\ terms' = terms
      /\ p.tx.terms = [q.tx.terms EXCEPT ![q.row] = Over(ch, q.tx.terms[q.row])]
      /\ p.mem = [q.mem EXCEPT ![q.row] = d]
  BY DefineEffect
<1>2. RowRight(q, T)
  BY DEF RowInv
<1>3. q \in Session /\ q.tx \in Tx
  BY Holdings
<1>4. q.mem \in [Ids -> Row] /\ q.tx.terms \in [Ids -> Parts(Row)]
  BY <1>3, TxIs DEF Session
<1>5. d \in Row /\ d["status"] = q.mem[q.row]["status"]
  BY <1>1, <1>4, DraftIsRow DEF Drafted
<1>6. "status" \notin DOMAIN ch /\ ch \in Parts(Row)
  <2>1. "status" \in Columns
    BY DEF Columns
  <2>2. ASSUME NEW r \in Row, NEW e \in Row, e["status"] = r["status"]
        PROVE  "status" \notin DOMAIN Changed(r, e) /\ Changed(r, e) \in Parts(Row)
    BY <2>1, <2>2, ChangedRow
  <2>3. q.mem[q.row] \in Row
    BY <1>1, <1>4
  <2> QED BY <1>5, <2>2, <2>3
<1> HIDE DEF q, p, T, d, ch
<1>7. \A i \in Ids \ {q.row} : p.tx.terms[i] = q.tx.terms[i] /\ p.mem[i] = q.mem[i]
  BY <1>1, <1>4
<1>8. /\ "status" \in DOMAIN p.tx.terms[q.row] <=> "status" \in DOMAIN q.tx.terms[q.row]
      /\ "status" \in DOMAIN q.tx.terms[q.row] =>
            p.tx.terms[q.row]["status"] = q.tx.terms[q.row]["status"]
  <2>1. p.tx.terms[q.row] = Over(ch, q.tx.terms[q.row])
    BY <1>1, <1>4
  <2>2. q.tx.terms[q.row] \in Parts(Row)
    BY <1>1, <1>4
  <2>3. ASSUME NEW f \in Parts(Row), NEW g \in Parts(Row), "status" \notin DOMAIN f
        PROVE  /\ "status" \in DOMAIN Over(f, g) <=> "status" \in DOMAIN g
               /\ "status" \in DOMAIN g => Over(f, g)["status"] = g["status"]
    <3>1. DOMAIN Over(f, g) = DOMAIN f \cup DOMAIN g
      BY OverParts
    <3>2. \A c \in DOMAIN Over(f, g) : Over(f, g)[c] = IF c \in DOMAIN f THEN f[c] ELSE g[c]
      BY OverParts
    <3> QED BY <2>3, <3>1, <3>2
  <2> QED BY <1>6, <2>1, <2>2, <2>3
<1>9. Known(p, T) = Known(q, T)
  BY <1>1, <1>7, <1>8 DEF Known
<1>10. q.row \in Known(q, T) /\ q.fresh \subseteq Known(q, T)
  BY <1>1, <1>2 DEF RowRight
<1>11. RowRight(p, T)
  <2>1. ASSUME NEW i \in Ids
        PROVE /\ HasStatus(p.out[i])
              /\ "status" \in DOMAIN p.tx.terms[i] =>
                    /\ p.tx.terms[i]["status"] # None
                    /\ p.kind # "judge" => i \notin T
              /\ p.tx.terms[i] # <<>> => i \in Known(p, T)
              /\ p.mem[i] # NoRow => i \in Known(p, T)
              /\ i \in Known(p, T) \ T => p.out[i] # NoRow
    <3>1. CASE i = q.row
      BY <1>1, <1>2, <1>8, <1>9, <1>10, <3>1 DEF RowRight
    <3>2. CASE i # q.row
      BY <1>1, <1>2, <1>7, <1>9, <3>2 DEF RowRight
    <3> QED BY <3>1, <3>2
  <2> QED BY <1>1, <1>9, <1>10, <2>1 DEF RowRight
<1> QED BY <1>1, <1>11, RowsStay DEF p, q, T

\* The rows of a session are committed: those it knows are there now
LEMMA CommitRows ==
    ASSUME Types, RowInv, NEW s \in Slots, NEW keep, Commits(s, keep),
           \/ /\ sess'[s].mem = sess[s].mem /\ sess'[s].out = sess[s].out
              /\ sess'[s].kind = sess[s].kind /\ sess'[s].fresh \subseteq sess[s].fresh
              /\ sess'[s].at # "flush"
              /\ sess'[s].at = "define" => sess'[s].row \in sess[s].fresh
           \/ sess'[s] = NoSession
    PROVE  RowInv'
<1> DEFINE q == sess[s]
           p == sess'[s]
           T == Exists(terms)
           U == Known(q, T)
<1>1. /\ \A o \in Others(s) : Same(sess'[o], sess[o])
      /\ p.tx = NoTx /\ terms' = SeenTerms(s)
  BY DEF Commits, Disturbed
<1>2. RowRight(q, T) /\ OneMaker /\ \A o \in Slots : RowRight(sess[o], T)
  BY DEF RowInv
<1>3. Exists(terms') = U /\ \A i \in Ids : HasStatus(terms'[i])
  <2>1. \A i \in Ids : /\ HasStatus(terms'[i])
                       /\ terms'[i] # NoRow <=> i \in U
    BY <1>1, SeenRow
  <2>2. U \subseteq Ids
    BY DEF Known, Exists
  <2> HIDE DEF U
  <2> QED BY <2>1, <2>2 DEF Exists
<1>4. T \subseteq U /\ U \subseteq Ids /\ T \subseteq Ids
  BY DEF Known, Exists
<1>5. \A i \in U \ T : q.out[i] # NoRow
  BY <1>2 DEF RowRight, Known
<1> HIDE DEF U, T
<1>6. RowRight(p, U)
  <2>1. CASE p = NoSession
    BY <2>1, BlankRight, BlankRows
  <2>2. CASE p # NoSession
    <3>1. /\ p.mem = q.mem /\ p.out = q.out /\ p.kind = q.kind /\ p.fresh \subseteq q.fresh
          /\ p.at # "flush"
          /\ p.at = "define" => p.row \in q.fresh
      BY <2>2
    <3>2. \A i \in Ids : p.tx.terms[i] = <<>> /\ "status" \notin DOMAIN p.tx.terms[i]
      BY <1>1, BlankRows
    <3>3. Known(p, U) = U
      BY <3>2 DEF Known
    <3>4. \A i \in Ids : HasStatus(q.out[i]) /\ (q.mem[i] # NoRow => i \in U)
      BY <1>2 DEF RowRight, U
    <3>5. q.fresh \subseteq U
      BY <1>2 DEF RowRight, U
    <3> HIDE DEF q, p
    <3> QED BY <3>1, <3>2, <3>3, <3>4, <3>5 DEF RowRight
  <2> QED BY <2>1, <2>2
<1>7. ASSUME NEW o \in Others(s) PROVE RowRight(sess'[o], U)
  <2> DEFINE b == sess[o]
  <2>1. RowRight(b, T) /\ Same(sess'[o], b) /\ o \in Slots /\ s \in Others(o)
    BY <1>1, <1>2 DEF Others
  <2>2. \A i \in U \ T : b.out[i] = NoRow
    BY <1>4, <1>5 DEF RowInv, OneMaker, T
  <2> HIDE DEF b
  <2>3. \A i \in Ids : i \in Known(b, T) => i \in Known(b, U)
    BY <1>4 DEF Known
  <2>4. \A i \in Ids \ U : i \in Known(b, U) => i \in Known(b, T) \ T
    BY <1>4 DEF Known
  <2>5. \A i \in Ids : "status" \in DOMAIN b.tx.terms[i] => i \in Known(b, T)
    BY DEF Known
  <2>6. ASSUME NEW i \in Ids
        PROVE /\ HasStatus(b.out[i])
              /\ "status" \in DOMAIN b.tx.terms[i] =>
                    /\ b.tx.terms[i]["status"] # None
                    /\ b.kind # "judge" => i \notin U
              /\ b.tx.terms[i] # <<>> => i \in Known(b, U)
              /\ b.mem[i] # NoRow => i \in Known(b, U)
              /\ i \in Known(b, U) \ U => b.out[i] # NoRow
              /\ b.at = "flush" /\ b.kind # "judge"
                    /\ b.out[i]["status"] # b.mem[i]["status"] => i \notin U
              /\ b.at = "flush" /\ b.mem[i] # NoRow => b.out[i] # NoRow
    <3>1. /\ HasStatus(b.out[i])
          /\ "status" \in DOMAIN b.tx.terms[i] =>
                /\ b.tx.terms[i]["status"] # None
                /\ b.kind # "judge" => i \notin T
          /\ b.tx.terms[i] # <<>> => i \in Known(b, T)
          /\ b.mem[i] # NoRow => i \in Known(b, T)
          /\ i \in Known(b, T) \ T => b.out[i] # NoRow
          /\ b.at = "flush" /\ b.kind # "judge"
                /\ b.out[i]["status"] # b.mem[i]["status"] => i \notin T
          /\ b.at = "flush" /\ b.mem[i] # NoRow => b.out[i] # NoRow
      BY <2>1 DEF RowRight
    <3>2. i \notin T /\ "status" \in DOMAIN b.tx.terms[i] => i \notin U
      BY <2>2, <2>5, <3>1
    <3>3. b.at = "flush" /\ b.kind # "judge" /\ b.out[i]["status"] # b.mem[i]["status"] =>
             b.out[i] # NoRow
      <4>1. NoRow["status"] = None
        BY NoRowIsRow
      <4> QED BY <3>1, <4>1
    <3>4. b.at = "flush" /\ b.kind # "judge" /\ b.out[i]["status"] # b.mem[i]["status"] =>
             i \notin U
      BY <2>2, <3>1, <3>3
    <3> QED BY <2>3, <2>4, <3>1, <3>2, <3>4
  <2>7. b.fresh \subseteq Known(b, U) /\ (b.at = "define" => b.row \in Known(b, U))
    BY <1>4, <2>1 DEF RowRight, Known
  <2>8. RowRight(b, U)
    BY <2>6, <2>7 DEF RowRight
  <2> QED BY <2>1, <2>8, SameRight
<1>8. OneMaker'
  <2>1. \A a \in Slots : \A i \in Ids : sess'[a].out[i] # NoRow => sess[a].out[i] # NoRow
    <3> SUFFICES ASSUME NEW a \in Slots, NEW i \in Ids
                 PROVE  sess'[a].out[i] # NoRow => sess[a].out[i] # NoRow
      OBVIOUS
    <3>1. CASE a = s
      BY <3>1, BlankRows
    <3>2. CASE a # s
      <4>1. Same(sess'[a], sess[a])
        BY <1>1, <3>2 DEF Others
      <4> QED BY <4>1 DEF Same, Goes
    <3> QED BY <3>1, <3>2
  <2>2. \A i \in Ids \ U : i \in Ids \ T
    BY <1>4
  <2>3. \A a \in Slots : \A b \in Others(a) : b \in Slots
    BY DEF Others
  <2> SUFFICES ASSUME NEW i \in Ids \ U, NEW a \in Slots, NEW b \in Others(a),
                      sess'[a].out[i] # NoRow
               PROVE  sess'[b].out[i] = NoRow
    BY <1>3 DEF OneMaker, Others
  <2>4. sess[a].out[i] # NoRow
    BY <2>1
  <2>5. sess[b].out[i] = NoRow
    BY <1>2, <2>2, <2>4 DEF OneMaker, T
  <2> QED BY <2>1, <2>3, <2>5
<1> QED BY <1>3, <1>6, <1>7, <1>8 DEF RowInv, Others

\* What an edit or a decision writes makes no rows and no statuses
LEMMA RequestRight ==
    ASSUME Types, RowInv, NEW i \in Ids, i \in Exists(terms), NEW out \in [Ids -> Row],
           \A j \in Ids \ {i} : out[j] = terms[j], out[i]["status"] # None
    PROVE  \A j \in Ids : /\ HasStatus(out[j])
                          /\ out[j] # NoRow <=> j \in Exists(terms)
<1>1. \A j \in Ids : HasStatus(terms[j]) /\ (terms[j] # NoRow <=> j \in Exists(terms))
  BY DEF RowInv, Exists
<1>2. NoRow["status"] = None
  BY NoRowIsRow
<1> SUFFICES ASSUME NEW j \in Ids PROVE HasStatus(out[j]) /\ (out[j] # NoRow <=> j \in Exists(terms))
  OBVIOUS
<1>3. CASE j = i
  BY <1>2, <1>3 DEF HasStatus
<1>4. CASE j # i
  BY <1>1, <1>4
<1> QED BY <1>3, <1>4

\* An edit or an acceptance opens
LEMMA RequestKeeps ==
    ASSUME Types, RowInv, NEW s \in Slots, NEW X, Began(s, X), NEW i \in Ids,
           i \in Exists(terms), NEW out \in [Ids -> Row],
           \A j \in Ids \ {i} : out[j] = terms[j], out[i]["status"] = terms[i]["status"],
           sess'[s].tx = NoTx, sess'[s].at = "flush", sess'[s].mem = terms, sess'[s].out = out
    PROVE  RowInv'
<1>1. out[i]["status"] # None
  BY DEF RowInv, HasStatus, Exists
<1>2. \A j \in Ids : HasStatus(out[j]) /\ (out[j] # NoRow <=> j \in Exists(terms))
  BY <1>1, RequestRight
<1>3. \A j \in Ids : terms[j] # NoRow => j \in Exists(terms)
  BY DEF Exists
<1> QED BY <1>2, <1>3, OpensRow

\* Every step leaves every session right about its rows
LEMMA StepRows == Types /\ RowInv /\ [Next]_vars => RowInv'
<1> SUFFICES ASSUME Types, RowInv, [Next]_vars PROVE RowInv'
  OBVIOUS
<1>1. CASE UNCHANGED vars
  <2>1. terms' = terms /\ sess' = sess
    BY <1>1 DEF vars
  <2> QED BY <2>1 DEF RowInv, OneMaker, Others
<1>2. ASSUME NEW s \in Slots, Step(s) PROVE RowInv'
  <2>1. CASE DetectRead(s)
    BY <2>1, DetectReadEffect, RowsAside
  <2>2. CASE ReplaceConflicts(s) \/ ReplaceAfterWait(s)
    BY <2>2, ReplaceEffect, RowsAside
  <2>3. CASE WaitToReplace(s)
    BY <2>3, WaitEffect, RowsAside
  <2>4. CASE ScanRead(s)
    BY <2>4, ScanKeepsRows
  <2>5. CASE FlushTerms(s)
    BY <2>5, FlushKeepsRows
  <2>6. CASE InferFirst(s)
    <3>1. PICK i \in FirstOf(sess[s].fresh) :
            \/ /\ sess' = [sess EXCEPT ![s] = ToDefine(sess[s], sess[s].fresh \ {i})]
               /\ UNCHANGED <<Tables, Counts, doubt>>
            \/ /\ Commit(s, [sess[s] EXCEPT !.row = i, !.fresh = @ \ {i}, !.at = "define"],
                         sess[s].fresh)
               /\ UNCHANGED Counts
      BY <2>6, InferCases
    <3>2. sess[s].at = "infer"
      BY <2>6, InferCases
    <3>3. CASE /\ sess' = [sess EXCEPT ![s] = ToDefine(sess[s], sess[s].fresh \ {i})]
               /\ UNCHANGED <<Tables, Counts, doubt>>
      BY <3>2, <3>3, InferSkipEffect, RowsAside
    <3>4. CASE /\ Commit(s, [sess[s] EXCEPT !.row = i, !.fresh = @ \ {i}, !.at = "define"],
                         sess[s].fresh)
               /\ UNCHANGED Counts
      <4>1. /\ Commits(s, sess[s].fresh)
            /\ sess'[s].mem = sess[s].mem /\ sess'[s].out = sess[s].out
            /\ sess'[s].kind = sess[s].kind /\ sess'[s].fresh \subseteq sess[s].fresh
            /\ sess'[s].at = "define" /\ sess'[s].row \in sess[s].fresh
        BY <3>2, <3>4, InferCommitEffect
      <4> QED BY <4>1, CommitRows
    <3> QED BY <3>1, <3>3, <3>4
  <2>7. CASE \E text \in Ai : Define(s, text)
    BY <2>7, DefineKeepsRows
  <2>8. CASE DefineNothing(s)
    BY <2>8, DefineNothingEffect, RowsAside
  <2>9. CASE EndPasses(s)
    <3>0. sess[s].at = "passes done"
      BY <2>9, EndCases
    <3>1. CASE Commit(s, sess[s], {}) /\ UNCHANGED Counts
      BY <3>0, <3>1, EndCommitEffect, CommitRows
    <3>2. CASE ~(Commit(s, sess[s], {}) /\ UNCHANGED Counts)
      <4>1. /\ Disturbed(s, Mine(sess[s])) /\ terms' = terms
            /\ sess'[s].kind = sess[s].kind /\ sess'[s].at \in {"end", "wiki"}
            /\ SameRows(sess'[s], sess[s]) /\ sess'[s].fresh = sess[s].fresh
        BY <2>9, <3>0, <3>2, EndCases, ReadRulesEffect
      <4> QED BY <4>1, RowsAside
    <3> QED BY <3>1, <3>2
  <2>10. CASE PageWritten(s)
    BY <2>10, PageWrittenEffect, RowsAside
  <2>11. CASE PageSkipped(s)
    BY <2>11, PageSkippedEffect, RowsAside
  <2>12. CASE UpsertPage(s)
    BY <2>12, UpsertEffect, RowsAside
  <2>13. CASE DuplicatePage(s) \/ BreakDeadlock(s) \/ LoseSession(s)
    <3>1. /\ Disturbed(s, sess[s].owes) /\ Same(sess'[s], NoSession) /\ terms' = terms
      BY <2>13, LoseEffect
    <3> QED BY <3>1, BlankRows, BlankKeeps DEF Same, Goes
  <2>14. CASE End(s)
    BY <2>14, EndEffect, CommitRows
  <2> QED
    BY <1>2, <2>1, <2>2, <2>3, <2>4, <2>5, <2>6, <2>7, <2>8, <2>9, <2>10, <2>11, <2>12,
       <2>13, <2>14 DEF Step
<1>3. ASSUME NEW s \in Slots, Request(s) PROVE RowInv'
  <2>1. CASE \/ \E n \in Batches : FinishFiles(s, n)
             \/ \E n \in Uploads : UploadFile(s, n)
             \/ Migrate(s) \/ Rescan(s) \/ Regenerate(s)
    <3>1. /\ \E X : Began(s, X)
          /\ sess'[s].mem = NoSession.mem /\ sess'[s].out = NoSession.out
          /\ sess'[s].at # "define"
      BY <2>1, FinishFilesEffect, UploadFileEffect, MigrateEffect, RescanEffect,
         RegenerateEffect
    <3> QED BY <3>1, BlankKeeps DEF Began
  <2>2. CASE \E i \in Ids : InferAgain(s, i)
    <3>1. PICK i \in Ids : InferAgain(s, i)
      BY <2>2
    <3>2. /\ Began(s, {i}) /\ sess'[s].at = "define" /\ sess'[s].tx = NoTx
          /\ sess'[s].mem = terms /\ sess'[s].out = NoSession.out
          /\ sess'[s].row = i /\ i \in Exists(terms)
      BY <3>1, InferAgainEffect
    <3> QED BY <3>2, BlankRows, OpensRow DEF HasStatus
  <2>3. CASE \E i \in Ids : AcceptDefinition(s, i)
    <3>1. PICK i \in Ids : AcceptDefinition(s, i)
      BY <2>3
    <3>2. /\ Began(s, {}) /\ sess'[s].at = "flush" /\ sess'[s].tx = NoTx
          /\ sess'[s].mem = terms /\ sess'[s].out = Accepted(i) /\ i \in Exists(terms)
      BY <3>1, AcceptEffect
    <3>3. /\ Accepted(i) \in [Ids -> Row] /\ \A j \in Ids \ {i} : Accepted(i)[j] = terms[j]
          /\ Accepted(i)[i]["status"] = terms[i]["status"]
      BY RequestedRows
    <3> QED BY <3>2, <3>3, RequestKeeps
  <2>4. CASE \E i \in Ids, text \in Hand : EditDefinition(s, i, text)
    <3>1. PICK i \in Ids : \E text \in Hand : EditDefinition(s, i, text)
      BY <2>4
    <3>2. PICK text \in Hand : EditDefinition(s, i, text)
      BY <3>1
    <3>3. /\ Began(s, {i}) /\ sess'[s].at = "flush" /\ sess'[s].tx = NoTx
          /\ sess'[s].mem = terms /\ sess'[s].out = Edited(i, text) /\ i \in Exists(terms)
      BY <3>2, EditEffect
    <3>4. /\ Edited(i, text) \in [Ids -> Row] /\ \A j \in Ids \ {i} : Edited(i, text)[j] = terms[j]
          /\ Edited(i, text)[i]["status"] = terms[i]["status"]
      BY RequestedRows
    <3> QED BY <3>3, <3>4, RequestKeeps
  <2>5. CASE \E i \in Ids, d \in {"approved", "rejected"} : JudgeSynonym(s, i, d)
    <3>1. PICK i \in Ids : \E d \in {"approved", "rejected"} : JudgeSynonym(s, i, d)
      BY <2>5
    <3>2. PICK d \in {"approved", "rejected"} : JudgeSynonym(s, i, d)
      BY <3>1
    <3>3. /\ Began(s, {}) /\ sess'[s].at = "flush" /\ sess'[s].tx = NoTx
          /\ sess'[s].kind = "judge"
          /\ sess'[s].mem = terms /\ sess'[s].out = Judged(i, d) /\ i \in Exists(terms)
      BY <3>2, JudgeEffect
    <3>4. /\ Judged(i, d) \in [Ids -> Row] /\ \A j \in Ids \ {i} : Judged(i, d)[j] = terms[j]
          /\ Judged(i, d)[i]["status"] # None
      BY RequestedRows, NullAssumption DEF Decisions
    <3>5. \A j \in Ids : /\ HasStatus(sess'[s].out[j])
                         /\ sess'[s].out[j] # NoRow <=> j \in Exists(terms)
      BY <3>3, <3>4, RequestRight
    <3> QED BY <3>3, <3>5, OpensRow DEF Exists
  <2> QED
    BY <1>3, <2>1, <2>2, <2>3, <2>4, <2>5 DEF Request
<1> QED BY <1>1, <1>2, <1>3 DEF Next

\* Every session is right about its rows to begin with
LEMMA InitRows == Init => RowInv
<1> SUFFICES ASSUME Init PROVE RowInv
  OBVIOUS
<1>1. \A s \in Slots : sess[s] = NoSession
  BY DEF Init, Quiet
<1>2. \A i \in Ids : HasStatus(terms[i])
  <2>1. CASE EmptyInit
    BY <2>1 DEF EmptyInit, HasStatus
  <2>2. CASE \E n \in Batches : LaterInit(n)
    BY <2>2, LaterTables DEF HasStatus
  <2> QED BY <2>1, <2>2 DEF Init
<1>3. RowRight(NoSession, Exists(terms))
  BY BlankRows, BlankRight
<1>4. OneMaker
  BY <1>1, BlankRows DEF OneMaker
<1> QED BY <1>1, <1>2, <1>3, <1>4 DEF RowInv

\* Only a commit changes the table: of a session that goes on, or of one
\* that is through
LEMMA TermsChange ==
    ASSUME Types, [Next]_vars
    PROVE  \/ terms' = terms
           \/ \E s \in Slots : \E keep \in SUBSET Ids :
                 /\ Commits(s, keep) /\ sess[s].at \notin {"flush", "define"}
                 /\ sess'[s] = NoSession \/ sess[s].kind \in ScanKinds
<1>1. CASE UNCHANGED vars
  BY <1>1 DEF vars
<1>2. ASSUME NEW s \in Slots, Step(s)
      PROVE  \/ terms' = terms
             \/ \E keep \in SUBSET Ids :
                   /\ Commits(s, keep) /\ sess[s].at \notin {"flush", "define"}
                   /\ sess'[s] = NoSession \/ sess[s].kind \in ScanKinds
  <2>1. CASE InferFirst(s)
    <3>1. terms' = terms \/ (Commits(s, sess[s].fresh) /\ sess[s].kind \in ScanKinds)
      <4>1. PICK i \in FirstOf(sess[s].fresh) :
              \/ /\ sess' = [sess EXCEPT ![s] = ToDefine(sess[s], sess[s].fresh \ {i})]
                 /\ UNCHANGED <<Tables, Counts, doubt>>
              \/ /\ Commit(s, [sess[s] EXCEPT !.row = i, !.fresh = @ \ {i}, !.at = "define"],
                           sess[s].fresh)
                 /\ UNCHANGED Counts
        BY <2>1, InferCases
      <4>2. sess[s].at = "infer"
        BY <2>1, InferCases
      <4>3. CASE UNCHANGED <<Tables, Counts, doubt>>
        <5>1. terms' = terms
          BY <4>3 DEF Tables
        <5> QED BY <5>1
      <4>4. CASE /\ Commit(s, [sess[s] EXCEPT !.row = i, !.fresh = @ \ {i}, !.at = "define"],
                           sess[s].fresh)
                 /\ UNCHANGED Counts
        BY <4>2, <4>4, InferCommitEffect
      <4> QED BY <4>1, <4>3, <4>4
    <3>2. sess[s].at = "infer"
      BY <2>1, InferCases
    <3> QED BY <3>1, <3>2, FreshRows
  <2>2. CASE EndPasses(s)
    <3>1. terms' = terms \/ Commits(s, {})
      BY <2>2, EndCases, EndCommitEffect, ReadRulesEffect
    <3>2. sess[s].at = "passes done" /\ Ready(sess[s])
      BY <2>2, EndCases DEF Types
    <3> QED BY <3>1, <3>2 DEF Ready
  <2>3. CASE End(s)
    <3>1. Commits(s, {}) /\ sess'[s] = NoSession /\ sess[s].at = "end"
      BY <2>3, EndEffect
    <3> QED BY <3>1
  <2>4. CASE ~(InferFirst(s) \/ EndPasses(s) \/ End(s))
    <3>1. CASE DuplicatePage(s) \/ BreakDeadlock(s) \/ LoseSession(s)
      BY <3>1, LoseEffect
    <3>2. CASE ~(DuplicatePage(s) \/ BreakDeadlock(s) \/ LoseSession(s))
      <4>1. UNCHANGED <<Tables, Counts>>
        BY <1>2, <2>4, <3>2 DEF Step, DetectRead, ReplaceConflicts, WaitToReplace,
           ReplaceAfterWait, ScanRead, FlushTerms, Define, DefineNothing, PageWritten,
           PageSkipped, UpsertPage
      <4> QED BY <4>1 DEF Tables
    <3> QED BY <3>1, <3>2
  <2> QED BY <2>1, <2>2, <2>3, <2>4
<1>3. ASSUME NEW s \in Slots, Request(s) PROVE terms' = terms
  BY <1>3 DEF Request, FinishFiles, UploadFile, Migrate, Rescan, Regenerate, InferAgain,
     AcceptDefinition, EditDefinition, JudgeSynonym, Open
<1> QED BY <1>1, <1>2, <1>3 DEF Next

(* An administrator's decision on a synonym is changed by the next         *)
(* decision only: scans, inferences and edits that loaded the row before   *)
(* it was taken write the other columns.                                   *)
THEOREM DecisionsLast == Spec => DecisionsSurvive
<1>1. Init => RowInv
  BY InitRows
<1>2. Types /\ RowInv /\ [Next]_vars => RowInv'
  BY StepRows
<1>3. Types /\ RowInv /\ [Next]_vars =>
         \A i \in Exists(terms) : terms'[i].status # terms[i].status =>
            \E s \in Slots : sess[s].kind = "judge" /\ sess'[s] = NoSession
  <2> SUFFICES ASSUME Types, RowInv, [Next]_vars, NEW i \in Exists(terms),
                      terms'[i].status # terms[i].status
               PROVE  \E s \in Slots : sess[s].kind = "judge" /\ sess'[s] = NoSession
    OBVIOUS
  <2>1. PICK s \in Slots :
           \E keep \in SUBSET Ids :
              /\ Commits(s, keep)
              /\ sess'[s] = NoSession \/ sess[s].kind \in ScanKinds
    BY TermsChange
  <2>2. terms' = SeenTerms(s) /\ i \in Ids
    BY <2>1 DEF Commits, Exists
  <2>3. SeenTerms(s)[i]["status"] = IF "status" \in DOMAIN sess[s].tx.terms[i]
                                    THEN sess[s].tx.terms[i]["status"]
                                    ELSE terms[i]["status"]
    BY <2>2, SeenRow DEF Columns
  <2>4. "status" \in DOMAIN sess[s].tx.terms[i]
    BY <2>2, <2>3
  <2>5. sess[s].kind = "judge"
    BY <2>2, <2>4 DEF RowInv, RowRight
  <2> QED BY <2>1, <2>5 DEF ScanKinds
<1> QED BY <1>1, <1>2, <1>3, AlwaysTypes, PTL DEF Spec, DecisionsSurvive

-----------------------------------------------------------------------------
(* Labels are true *)

\* Columns that leave a definition as it is, or say that somebody accepts it
Plain(f) == /\ "text" \notin DOMAIN f
            /\ "label" \in DOMAIN f => f["label"] = "accepted"

\* The label of a row is true of its definition
LabelOk(r) == /\ r["label"] = "edited" => r["text"] \in Hand
              /\ r["text"] \in Hand => r["label"] \in {"edited", "accepted"}

\* A column of row r with the columns f set
Shown(f, r, c) == IF c \in DOMAIN f THEN f[c] ELSE r[c]

\* A session that has a row loaded and has still to put a new definition in it
Undecided(q) == \/ q.at = "flush" /\ q.kind = "patch"
                \/ q.at = "define" /\ q.kind = "infer"

(* Of a row it has for itself a session knows the definition, be it accepted *)
(* meanwhile; a scan has it for itself only if no person has defined it, and *)
(* a PATCH leaves a person's definition.                                     *)
Own(q, i, r) ==
    /\ Shown(q.tx.terms[i], r, "text") = q.mem[i]["text"]
    /\ Shown(q.tx.terms[i], r, "label") \in {q.mem[i]["label"], "accepted"}
    /\ q.kind \in ScanKinds => r["text"] \notin Hand /\ q.mem[i]["text"] \notin Hand
    /\ q.kind = "patch" /\ q.at = "flush" =>
          q.out[i]["text"] \in Hand /\ q.out[i]["label"] = "edited"
    /\ q.kind = "patch" /\ q.at # "flush" => q.mem[i]["text"] \in Hand
    /\ ~Undecided(q) => LabelOk(q.mem[i])

\* A row it holds and does not have for itself is in doubt, or it has given
\* up defining it
GivenUp(q, i, D) ==
    \/ i \in D
    \/ /\ Plain(q.tx.terms[i]) /\ i \notin q.fresh /\ q.kind # "patch"
       /\ ~(q.at = "define" /\ q.row = i)

\* A row it does not hold it does not define
Untaken(q, i) ==
    /\ Plain(q.tx.terms[i])
    /\ q.at = "flush" /\ q.kind = "patch" =>
          /\ q.out[i]["text"] = q.mem[i]["text"]
          /\ q.out[i]["label"] \in {q.mem[i]["label"], "accepted"}

\* The place of a session tells which rows it may hold
Working(q, T) ==
    /\ q.at \in {"infer", "define"} => q.fresh \subseteq q.holds
    /\ q.at = "define" => /\ q.row \in q.holds /\ q.row \notin q.fresh
                          /\ \A i \in Ids : Plain(q.tx.terms[i])
    /\ q.at = "define" /\ q.kind = "infer" => q.holds \cap Ids \subseteq {q.row}
    /\ \A i \in Ids :
          /\ i \in q.holds => q.kind \in ScanKinds \cup {"infer", "patch"} /\ i \in Known(q, T)
          /\ q.at = "flush" /\ q.kind \in {"patch", "judge"} => q.tx.terms[i] = <<>>
          /\ q.at = "flush" /\ q.kind # "patch" => /\ q.out[i]["text"] = q.mem[i]["text"]
                                                   /\ q.out[i]["label"] = q.mem[i]["label"]
          /\ q.at = "flush" /\ "status" \in DOMAIN q.tx.terms[i] => q.mem[i] # NoRow

RowLabel(q, i, r, D) ==
    /\ i \in q.clean => Own(q, i, r)
    /\ i \in q.holds \ q.clean => GivenUp(q, i, D)
    /\ i \notin q.holds => Untaken(q, i)

LabelRight(q, R, D) ==
    /\ Working(q, Exists(R))
    /\ \A i \in Ids : RowLabel(q, i, R[i], D)

\* The labels are true, and each session knows the definitions it holds
LabelInv ==
    /\ \A i \in Ids \ doubt : LabelOk(terms[i])
    /\ \A s \in Slots : LabelRight(sess[s], terms, doubt)

\* A session that is as it was, while tables and doubts change
LEMMA LabelsPass ==
    ASSUME NEW q, NEW p, NEW R, NEW S, NEW D, NEW E, LabelRight(q, R, D), Same(p, q),
           p.holds = q.holds, p.clean \subseteq q.clean, q.clean \subseteq q.holds,
           \A i \in Ids : i \in q.clean \ p.clean => i \in E,
           \A i \in Ids : i \in q.holds \ q.clean /\ i \in D => i \in E,
           \A i \in Ids : i \in p.clean => /\ S[i]["text"] = R[i]["text"]
                                           /\ S[i]["label"] \in {R[i]["label"], "accepted"},
           Exists(R) \subseteq Exists(S)
    PROVE  LabelRight(p, S, E)
<1>1. /\ p.tx = q.tx /\ p.kind = q.kind /\ p.at = q.at /\ p.mem = q.mem /\ p.out = q.out
      /\ p.fresh = q.fresh /\ p.row = q.row
  BY DEF Same, Goes
<1>2. Undecided(p) <=> Undecided(q)
  BY <1>1 DEF Undecided
<1>3. Working(p, Exists(S))
  <2>1. Working(q, Exists(R))
    BY DEF LabelRight
  <2>2. Known(q, Exists(R)) \subseteq Known(p, Exists(S))
    BY <1>1 DEF Known
  <2> QED BY <1>1, <2>1, <2>2 DEF Working
<1>4. ASSUME NEW i \in Ids PROVE RowLabel(p, i, S[i], E)
  <2>1. RowLabel(q, i, R[i], D)
    BY DEF LabelRight
  <2>2. CASE i \in p.clean
    <3>1. Own(q, i, R[i])
      BY <2>1, <2>2 DEF RowLabel
    <3>2. S[i]["text"] = R[i]["text"] /\ S[i]["label"] \in {R[i]["label"], "accepted"}
      BY <2>2
    <3>3. Shown(p.tx.terms[i], S[i], "text") = Shown(q.tx.terms[i], R[i], "text")
      BY <1>1, <3>2 DEF Shown
    <3>4. Shown(p.tx.terms[i], S[i], "label") \in
              {Shown(q.tx.terms[i], R[i], "label"), "accepted"}
      BY <1>1, <3>2 DEF Shown
    <3>5. Own(p, i, S[i])
      BY <1>1, <1>2, <3>1, <3>2, <3>3, <3>4 DEF Own
    <3> QED BY <2>2, <3>5 DEF RowLabel
  <2>3. CASE i \notin p.clean
    <3>1. i \in q.clean => i \in E
      BY <2>3
    <3>2. i \in p.holds => GivenUp(p, i, E)
      BY <1>1, <2>1, <3>1 DEF RowLabel, GivenUp
    <3>3. i \notin p.holds => Untaken(p, i)
      BY <1>1, <2>1 DEF RowLabel, Untaken
    <3> QED BY <2>3, <3>2, <3>3 DEF RowLabel
  <2> QED BY <2>2, <2>3
<1> QED BY <1>3, <1>4 DEF LabelRight

\* The table is as it was, and the session that takes the step is right
LEMMA LabelsStay ==
    ASSUME Types, LabelInv, NEW s \in Slots, NEW X, Disturbed(s, X), terms' = terms,
           doubt \subseteq doubt', X \cap HeldByOthers(s) \cap Ids \subseteq doubt',
           LabelRight(sess'[s], terms, doubt')
    PROVE  LabelInv'
<1>1. ASSUME NEW o \in Others(s) PROVE LabelRight(sess'[o], terms, doubt')
  <2>1. /\ Same(sess'[o], sess[o]) /\ sess'[o].holds = sess[o].holds
        /\ sess'[o].clean = sess[o].clean \ X
    BY DEF Disturbed
  <2>2. /\ LabelRight(sess[o], terms, doubt) /\ sess[o].clean \subseteq sess[o].holds
        /\ sess[o].holds \subseteq HeldByOthers(s)
    BY DEF LabelInv, Others, Types, Ready, HeldByOthers
  <2>3. \A i \in Ids : i \in sess[o].clean \ sess'[o].clean => i \in doubt'
    BY <2>1, <2>2
  <2>4. \A i \in Ids : i \in sess[o].holds \ sess[o].clean /\ i \in doubt => i \in doubt'
    OBVIOUS
  <2> QED BY <2>1, <2>2, <2>3, <2>4, LabelsPass
<1>2. \A a \in Slots : LabelRight(sess'[a], terms', doubt')
  BY <1>1 DEF Others
<1>3. \A i \in Ids \ doubt' : LabelOk(terms'[i])
  BY DEF LabelInv
<1> QED BY <1>2, <1>3 DEF LabelInv

\* A session that goes on with the rows it has knows their definitions
LEMMA KeepsLabels ==
    ASSUME NEW q, NEW p, NEW R, NEW D, NEW E, LabelRight(q, R, D), SameRows(p, q),
           p.kind = q.kind, p.fresh \subseteq q.fresh,
           q.at \notin {"flush", "define"}, p.at \notin {"flush", "define"},
           p.at = "infer" => q.at = "infer",
           q.holds \subseteq p.holds, p.holds \cap Ids \subseteq q.holds,
           p.clean \cap Ids = q.clean \cap Ids, D \subseteq E
    PROVE  LabelRight(p, R, E)
<1>1. p.tx.terms = q.tx.terms /\ p.mem = q.mem /\ p.out = q.out
  BY DEF SameRows
<1>2. ~Undecided(p) /\ ~Undecided(q)
  BY DEF Undecided
<1>3. Working(p, Exists(R))
  <2>1. Working(q, Exists(R))
    BY DEF LabelRight
  <2>2. Known(q, Exists(R)) = Known(p, Exists(R))
    BY <1>1 DEF Known
  <2> QED BY <1>1, <2>1, <2>2 DEF Working
<1>4. ASSUME NEW i \in Ids PROVE RowLabel(p, i, R[i], E)
  <2>1. RowLabel(q, i, R[i], D)
    BY DEF LabelRight
  <2>2. (i \in p.clean <=> i \in q.clean) /\ (i \in p.holds <=> i \in q.holds)
    OBVIOUS
  <2>3. Own(q, i, R[i]) => Own(p, i, R[i])
    BY <1>1, <1>2 DEF Own
  <2>4. GivenUp(q, i, D) => GivenUp(p, i, E)
    BY <1>1 DEF GivenUp
  <2>5. Untaken(q, i) => Untaken(p, i)
    BY <1>1 DEF Untaken
  <2> QED BY <2>1, <2>2, <2>3, <2>4, <2>5 DEF RowLabel
<1> QED BY <1>3, <1>4 DEF LabelRight

\* A session goes on and has nothing to do with rows in this step
LEMMA LabelsAside ==
    ASSUME Types, LabelInv, NEW s \in Slots, NEW X, Disturbed(s, X), terms' = terms,
           X \cap Ids = {}, doubt \subseteq doubt', SameRows(sess'[s], sess[s]),
           sess'[s].kind = sess[s].kind, sess'[s].fresh \subseteq sess[s].fresh,
           sess[s].at \notin {"flush", "define"}, sess'[s].at \notin {"flush", "define"},
           sess'[s].at = "infer" => sess[s].at = "infer",
           sess[s].holds \subseteq sess'[s].holds,
           sess'[s].holds \cap Ids \subseteq sess[s].holds,
           sess'[s].clean \cap Ids = sess[s].clean \cap Ids
    PROVE  LabelInv'
<1>1. LabelRight(sess[s], terms, doubt)
  BY DEF LabelInv
<1>2. LabelRight(sess'[s], terms, doubt')
  BY <1>1, KeepsLabels
<1>3. X \cap HeldByOthers(s) \cap Ids \subseteq doubt'
  OBVIOUS
<1> QED BY <1>2, <1>3, LabelsStay

\* A session that holds no row
LEMMA BlankLabels ==
    ASSUME NEW q, NEW R, NEW D, q.tx.terms = NoTx.terms,
           q.at \notin {"flush", "infer", "define"}, q.holds \cap Ids = {}, q.clean \subseteq q.holds
    PROVE  LabelRight(q, R, D)
<1>1. \A i \in Ids : q.tx.terms[i] = <<>> /\ i \notin q.holds /\ i \notin q.clean
  BY BlankRows
<1>2. \A i \in Ids : Plain(q.tx.terms[i])
  BY <1>1 DEF Plain
<1> QED BY <1>1, <1>2 DEF LabelRight, Working, RowLabel, Untaken

\* A session with no rows for itself knows the definitions of all it has
LEMMA BlankKeepsLabels ==
    ASSUME Types, LabelInv, NEW s \in Slots, NEW X, Disturbed(s, X), terms' = terms,
           doubt \subseteq doubt', X \cap HeldByOthers(s) \subseteq doubt',
           sess'[s].tx.terms = NoTx.terms,
           sess'[s].at \notin {"flush", "infer", "define"},
           sess'[s].holds \cap Ids = {}, sess'[s].clean \subseteq sess'[s].holds
    PROVE  LabelInv'
BY BlankLabels, LabelsStay

\* A row as a session commits it
LEMMA CommittedRow ==
    ASSUME Types, RowInv, LabelInv, NEW s \in Slots, NEW keep, Commits(s, keep),
           sess[s].at \notin {"flush", "define"}, NEW i \in Ids
    PROVE  /\ terms'[i]["text"] = Shown(sess[s].tx.terms[i], terms[i], "text")
           /\ terms'[i]["label"] = Shown(sess[s].tx.terms[i], terms[i], "label")
           /\ i \in sess[s].clean =>
                 /\ terms'[i]["text"] = sess[s].mem[i]["text"]
                 /\ terms'[i]["label"] \in {sess[s].mem[i]["label"], "accepted"}
                 /\ LabelOk(terms'[i])
           /\ i \notin sess[s].clean /\ i \notin doubt => LabelOk(terms'[i])
           /\ i \notin sess[s].holds => /\ terms'[i]["text"] = terms[i]["text"]
                                        /\ terms'[i]["label"] \in {terms[i]["label"], "accepted"}
<1> DEFINE q == sess[s]
           f == q.tx.terms[i]
           r == terms[i]
           v == terms'[i]
<1>1. /\ v["text"] = Shown(f, r, "text") /\ v["label"] = Shown(f, r, "label")
  <2>1. terms' = SeenTerms(s)
    BY DEF Commits
  <2>2. \A c \in Columns : SeenTerms(s)[i][c] = IF c \in DOMAIN f THEN f[c] ELSE r[c]
    BY SeenRow
  <2> QED BY <2>1, <2>2 DEF Columns, Shown
<1>2. RowLabel(q, i, r, doubt)
  BY DEF LabelInv, LabelRight
<1>3. ~Undecided(q)
  BY DEF Undecided
<1>4. i \notin doubt => LabelOk(r)
  BY DEF LabelInv
<1>5. q.clean \subseteq q.holds
  BY DEF Types, Ready
<1> HIDE DEF q, f, r, v
<1>6. ASSUME i \in q.clean
      PROVE  v["text"] = q.mem[i]["text"] /\ v["label"] \in {q.mem[i]["label"], "accepted"}
             /\ LabelOk(v)
  <2>1. Own(q, i, r)
    BY <1>2, <1>6 DEF RowLabel
  <2>2. v["text"] = q.mem[i]["text"] /\ v["label"] \in {q.mem[i]["label"], "accepted"}
    BY <1>1, <2>1 DEF Own, f
  <2>3. LabelOk(q.mem[i])
    BY <1>3, <2>1 DEF Own
  <2> QED BY <2>2, <2>3 DEF LabelOk
<1>7. Plain(f) => v["text"] = r["text"] /\ v["label"] \in {r["label"], "accepted"}
  BY <1>1 DEF Plain, Shown
<1>8. i \notin q.holds => Plain(f)
  BY <1>2 DEF RowLabel, Untaken, f
<1>9. i \notin q.clean /\ i \notin doubt => Plain(f)
  BY <1>2, <1>8 DEF RowLabel, GivenUp, f
<1>10. i \notin q.clean /\ i \notin doubt => LabelOk(v)
  BY <1>4, <1>7, <1>9 DEF LabelOk
<1> QED BY <1>1, <1>6, <1>7, <1>8, <1>10 DEF q, f, r, v

\* The rows of a session are committed; the session that commits is right
LEMMA CommitLabels ==
    ASSUME Types, RowInv, HoldInv, LabelInv, NEW s \in Slots, NEW keep \in SUBSET Ids,
           Commits(s, keep), sess[s].at \notin {"flush", "define"},
           LabelRight(sess'[s], terms', doubt')
    PROVE  LabelInv'
<1>1. doubt' = (doubt \ (sess[s].clean \ (keep \cup {"glossary"}))) \cup Stale(s)
      /\ Stale(s) \in SUBSET Modules
  BY DEF Commits
<1>2. \A i \in Ids : i \notin sess[s].clean /\ i \in doubt => i \in doubt'
  BY <1>1
<1>3. \A i \in Ids \ doubt' : LabelOk(terms'[i])
  BY <1>2, CommittedRow
<1>4. Exists(terms) \subseteq Exists(terms')
  <2> SUFFICES ASSUME NEW i \in Exists(terms) PROVE i \in Exists(terms')
    OBVIOUS
  <2>1. i \in Ids /\ i \in Known(sess[s], Exists(terms)) /\ terms' = SeenTerms(s)
    BY DEF Exists, Known, Commits
  <2>2. SeenTerms(s)[i] # NoRow
    BY <2>1, SeenRow
  <2> QED BY <2>1, <2>2 DEF Exists
<1>5. ASSUME NEW o \in Others(s) PROVE LabelRight(sess'[o], terms', doubt')
  <2>1. /\ Same(sess'[o], sess[o]) /\ sess'[o].holds = sess[o].holds
        /\ sess'[o].clean = sess[o].clean \ Stale(s)
    BY DEF Commits, Disturbed
  <2>2. o \in Slots /\ s \in Others(o)
    BY DEF Others
  <2>3. /\ LabelRight(sess[o], terms, doubt) /\ sess[o].clean \subseteq sess[o].holds
        /\ sess[o].clean \cap sess[s].holds = {}
        /\ sess[s].clean \cap sess[o].holds = {}
    BY <2>2 DEF LabelInv, Types, Ready, HoldInv
  <2>4. \A i \in Ids : i \in sess[o].clean => i \in sess'[o].clean
    BY <1>1, <2>1, ThingsAssumption
  <2>5. \A i \in Ids : i \in sess[o].holds \ sess[o].clean /\ i \in doubt => i \in doubt'
    BY <1>2, <2>3
  <2>6. \A i \in Ids : i \in sess'[o].clean =>
            /\ terms'[i]["text"] = terms[i]["text"]
            /\ terms'[i]["label"] \in {terms[i]["label"], "accepted"}
    BY <2>1, <2>3, CommittedRow
  <2>7. sess'[o].clean \subseteq sess[o].clean
    BY <2>1
  <2>8. \A i \in Ids : i \in sess[o].clean \ sess'[o].clean => i \in doubt'
    BY <2>4
  <2> QED BY <1>4, <2>1, <2>3, <2>5, <2>6, <2>7, <2>8, LabelsPass
<1>6. \A a \in Slots : LabelRight(sess'[a], terms', doubt')
  BY <1>5 DEF Others
<1> QED BY <1>3, <1>6 DEF LabelInv

\* The commit before a row is defined
LEMMA InferCommitLabels ==
    ASSUME Types, RowInv, HoldInv, LabelInv, NEW s \in Slots, NEW i \in sess[s].fresh,
           sess[s].at = "infer", Commits(s, sess[s].fresh), sess[s].kind \in ScanKinds,
           sess'[s].kind = sess[s].kind, sess'[s].at = "define", sess'[s].row = i,
           sess'[s].fresh = sess[s].fresh \ {i}, sess'[s].mem = sess[s].mem,
           sess'[s].holds = sess[s].holds \cap sess[s].fresh,
           sess'[s].clean = sess[s].clean \cap sess[s].fresh
    PROVE  LabelInv'
<1> DEFINE q == sess[s]
           p == sess'[s]
           T == Exists(terms')
<1>1. p.tx = NoTx /\ q.fresh \in SUBSET Ids
      /\ doubt' = (doubt \ (q.clean \ (q.fresh \cup {"glossary"}))) \cup Stale(s)
  BY FreshRows DEF Commits
<1>2. \A j \in Ids : p.tx.terms[j] = <<>> /\ Plain(p.tx.terms[j])
  BY <1>1, BlankRows DEF Plain
<1>3. LabelRight(q, terms, doubt) /\ q.clean \subseteq q.holds
  BY DEF LabelInv, Types, Ready
<1>4. q.fresh \subseteq q.holds
  BY <1>3 DEF LabelRight, Working
<1>5. \A j \in Ids : j \in Known(q, Exists(terms)) => j \in T
  <2>1. terms' = SeenTerms(s)
    BY DEF Commits
  <2> QED BY <2>1, SeenRow DEF Exists
<1>6. Working(p, T)
  <2>1. \A j \in Ids : j \in q.holds => j \in Known(q, Exists(terms))
    BY <1>3 DEF LabelRight, Working
  <2>2. \A j \in Ids : j \in p.holds => j \in Known(p, T)
    BY <1>5, <2>1 DEF Known
  <2> HIDE DEF q, p, T
  <2> QED BY <1>1, <1>2, <1>4, <2>2 DEF Working, ScanKinds, q, p
<1>7. ASSUME NEW j \in Ids PROVE RowLabel(p, j, terms'[j], doubt')
  <2>1. CASE j \in p.clean
    <3>1. /\ terms'[j]["text"] = q.mem[j]["text"]
          /\ terms'[j]["label"] \in {q.mem[j]["label"], "accepted"}
      BY <2>1, CommittedRow
    <3>2. Own(q, j, terms[j])
      BY <1>3, <2>1 DEF LabelRight, RowLabel
    <3>3. Shown(p.tx.terms[j], terms'[j], "text") = terms'[j]["text"]
          /\ Shown(p.tx.terms[j], terms'[j], "label") = terms'[j]["label"]
      BY <1>2 DEF Shown
    <3>4. ~Undecided(p) /\ ~Undecided(q) /\ q.kind # "patch"
      BY DEF Undecided, ScanKinds
    <3>5. Own(p, j, terms'[j])
      BY <3>1, <3>2, <3>3, <3>4 DEF Own
    <3> QED BY <1>3, <2>1, <3>5 DEF RowLabel
  <2>2. CASE j \in p.holds \ p.clean
    <3>1. j \in q.fresh /\ j \in q.holds \ q.clean
      BY <2>2
    <3>2. GivenUp(q, j, doubt)
      BY <1>3, <3>1 DEF LabelRight, RowLabel
    <3>3. j \in doubt
      BY <3>1, <3>2 DEF GivenUp
    <3>4. j \in doubt'
      BY <1>1, <3>1, <3>3
    <3> QED BY <2>2, <3>4 DEF RowLabel, GivenUp
  <2>3. CASE j \notin p.holds /\ j \notin p.clean
    BY <1>2, <2>3 DEF RowLabel, Untaken
  <2> QED BY <2>1, <2>2, <2>3
<1>8. LabelRight(p, terms', doubt')
  BY <1>6, <1>7 DEF LabelRight
<1> QED BY <1>1, <1>8, CommitLabels

\* The columns a session has written once it has flushed a row
LEMMA MergedRow ==
    ASSUME NEW q \in Session, NEW i \in Ids, NEW c \in Columns, NEW r
    PROVE  /\ c \in DOMAIN Merged(q)[i] <=>
                 q.out[i][c] # q.mem[i][c] \/ c \in DOMAIN q.tx.terms[i]
           /\ c \in DOMAIN Merged(q)[i] =>
                 Merged(q)[i][c] = IF q.out[i][c] # q.mem[i][c] THEN q.out[i][c]
                                   ELSE q.tx.terms[i][c]
           /\ Shown(Merged(q)[i], r, c) = IF q.out[i][c] # q.mem[i][c] THEN q.out[i][c]
                                          ELSE Shown(q.tx.terms[i], r, c)
<1> DEFINE f == Changed(q.mem[i], q.out[i])
           g == q.tx.terms[i]
           old == q.mem[i]
           new == q.out[i]
<1>1. Merged(q)[i] = Over(f, g)
  BY DEF Merged
<1>2. g \in Parts(Row) /\ old \in Row /\ new \in Row
  <2>1. q.tx \in Tx
    BY DEF Session
  <2> QED BY <2>1, TxIs DEF Session
<1>3. /\ f \in Parts(Row)
      /\ \A d \in Columns : d \in DOMAIN f <=> new[d] # old[d]
      /\ \A d \in DOMAIN f : f[d] = new[d]
  BY <1>2, ChangedRow
<1> HIDE DEF f, g, old, new
<1>4. /\ DOMAIN Over(f, g) = DOMAIN f \cup DOMAIN g
      /\ \A d \in DOMAIN Over(f, g) :
            Over(f, g)[d] = IF d \in DOMAIN f THEN f[d] ELSE g[d]
  BY <1>2, <1>3, OverParts
<1>5. /\ c \in DOMAIN Over(f, g) <=> new[c] # old[c] \/ c \in DOMAIN g
      /\ c \in DOMAIN Over(f, g) => Over(f, g)[c] = IF new[c] # old[c] THEN new[c] ELSE g[c]
  BY <1>3, <1>4
<1>6. Shown(Over(f, g), r, c) = IF new[c] # old[c] THEN new[c] ELSE Shown(g, r, c)
  BY <1>5 DEF Shown
<1> QED BY <1>1, <1>5, <1>6 DEF g, old, new

\* A session that writes its rows knows their definitions
LEMMA FlushLabels ==
    ASSUME Types, RowInv, LabelInv, NEW s \in Slots, FlushTerms(s)
    PROVE  LabelInv'
<1> DEFINE q == sess[s]
           p == sess'[s]
           T == Exists(terms)
           X == Undefined(q)
           H == HeldByOthers(s)
<1>1. /\ Disturbed(s, X) /\ q.at = "flush" /\ p.kind = q.kind
      /\ p.at \in {"infer", "passes done", "scan", "end"}
      /\ p.fresh = X /\ p.tx.terms = Merged(q) /\ p.mem = q.out /\ p.out = q.out
      /\ p.holds = q.holds \cup X /\ p.clean = q.clean \cup (X \ H)
      /\ doubt' = doubt \cup (X \cap H) /\ terms' = terms
  BY FlushEffect
<1>2. /\ q \in Session /\ q.clean \subseteq q.holds
      /\ q.kind \in ScanKinds \cup {"patch", "judge"}
  BY <1>1, Holdings DEF Types, Ready
<1>3. /\ Working(q, T) /\ \A i \in Ids : RowLabel(q, i, terms[i], doubt)
  BY DEF LabelInv, LabelRight
<1>4. RowRight(q, T) /\ RowRight(p, T)
  <2>1. RowInv'
    BY FlushKeepsRows
  <2> QED BY <1>1, <2>1 DEF RowInv
<1>5. /\ X \in SUBSET Ids
      /\ \A i \in X : /\ q.kind \in ScanKinds /\ q.out[i]["text"] = None
                      /\ q.mem[i] = NoRow /\ q.out[i] # NoRow
  <2>1. X \in SUBSET Ids
    BY FreshRows
  <2> QED BY <1>2, <2>1 DEF Undefined, Newborn, Dirty, Exists
<1>6. ASSUME NEW i \in Ids
      PROVE  /\ "status" \in DOMAIN q.tx.terms[i] => "status" \in DOMAIN p.tx.terms[i]
             /\ "text" \in DOMAIN p.tx.terms[i] <=>
                   q.out[i]["text"] # q.mem[i]["text"] \/ "text" \in DOMAIN q.tx.terms[i]
             /\ "label" \in DOMAIN p.tx.terms[i] <=>
                   q.out[i]["label"] # q.mem[i]["label"] \/ "label" \in DOMAIN q.tx.terms[i]
             /\ "label" \in DOMAIN p.tx.terms[i] =>
                  p.tx.terms[i]["label"] = IF q.out[i]["label"] # q.mem[i]["label"]
                                           THEN q.out[i]["label"] ELSE q.tx.terms[i]["label"]
             /\ Shown(p.tx.terms[i], terms[i], "text") =
                   IF q.out[i]["text"] # q.mem[i]["text"] THEN q.out[i]["text"]
                   ELSE Shown(q.tx.terms[i], terms[i], "text")
             /\ Shown(p.tx.terms[i], terms[i], "label") =
                   IF q.out[i]["label"] # q.mem[i]["label"] THEN q.out[i]["label"]
                   ELSE Shown(q.tx.terms[i], terms[i], "label")
  <2>1. "status" \in Columns /\ "text" \in Columns /\ "label" \in Columns
    BY DEF Columns
  <2>2. p.tx.terms[i] = Merged(q)[i]
    BY <1>1
  <2> HIDE DEF p, q
  <2> QED BY <1>2, <2>1, <2>2, MergedRow
<1>7. \A i \in X : /\ i \notin q.holds /\ terms[i] = NoRow
  <2> SUFFICES ASSUME NEW i \in X PROVE i \notin q.holds /\ terms[i] = NoRow
    OBVIOUS
  <2>1. i \in Ids /\ q.mem[i] = NoRow /\ q.out[i] # NoRow /\ q.kind \in ScanKinds
    BY <1>5
  <2>2. q.out[i]["status"] # None /\ q.mem[i]["status"] = None
    BY <1>4, <2>1, NoRowIsRow DEF RowRight, HasStatus
  <2>3. i \notin T
    BY <1>1, <1>4, <2>1, <2>2 DEF RowRight, ScanKinds
  <2>4. i \in q.holds => i \in Known(q, T)
    BY <1>3, <2>1 DEF Working
  <2>5. "status" \notin DOMAIN q.tx.terms[i]
    BY <1>1, <1>3, <2>1 DEF Working
  <2> QED BY <2>1, <2>3, <2>4, <2>5 DEF Known, Exists
<1>8. q.kind # "patch" => \A i \in Ids : /\ q.out[i]["text"] = q.mem[i]["text"]
                                         /\ q.out[i]["label"] = q.mem[i]["label"]
  BY <1>1, <1>3 DEF Working
<1> HIDE DEF q, p, T, X, H
<1>9. Working(p, T)
  <2>1. ASSUME NEW i \in Ids, i \in p.holds
        PROVE  p.kind \in ScanKinds \cup {"infer", "patch"} /\ i \in Known(p, T)
    <3>1. CASE i \in q.holds
      BY <1>1, <1>3, <1>6, <3>1 DEF Working, Known
    <3>2. CASE i \in X
      BY <1>1, <1>4, <1>5, <3>2 DEF RowRight
    <3> QED BY <1>1, <2>1, <3>1, <3>2
  <2> QED BY <1>1, <2>1 DEF Working
<1>10. ASSUME NEW i \in Ids PROVE RowLabel(p, i, terms[i], doubt')
  <2>1. /\ RowLabel(q, i, terms[i], doubt) /\ ~Undecided(p)
    BY <1>1, <1>3 DEF Undecided
  <2>2. CASE i \in X
    <3>1. i \notin q.holds /\ i \notin q.clean /\ terms[i] = NoRow /\ q.kind \in ScanKinds
      BY <1>2, <1>5, <1>7, <2>2
    <3>2. Untaken(q, i)
      BY <2>1, <3>1 DEF RowLabel
    <3>3. /\ NoRow["text"] = None /\ NoRow["label"] = None /\ None \notin Hand
          /\ None # "edited"
      BY NoRowIsRow, TextAssumption, NullAssumption DEF Labels
    <3>4. /\ q.out[i]["text"] = None /\ q.mem[i]["text"] = None
          /\ q.out[i]["label"] = None /\ q.mem[i]["label"] = None
      BY <1>5, <1>8, <2>2, <3>1, <3>3 DEF ScanKinds
    <3>5. /\ Shown(p.tx.terms[i], terms[i], "text") = None
          /\ Shown(p.tx.terms[i], terms[i], "label") \in {None, "accepted"}
      BY <1>6, <3>1, <3>2, <3>3, <3>4 DEF Untaken, Plain, Shown
    <3>6. Own(p, i, terms[i])
      BY <1>1, <2>1, <3>1, <3>3, <3>4, <3>5 DEF Own, LabelOk, ScanKinds
    <3>7. i \notin p.clean => i \in doubt'
      BY <1>1, <2>2
    <3> QED BY <1>1, <2>2, <3>6, <3>7 DEF RowLabel, GivenUp
  <2>3. CASE i \notin X /\ q.kind # "patch"
    <3>1. (i \in p.holds <=> i \in q.holds) /\ (i \in p.clean <=> i \in q.clean)
      BY <1>1, <2>3
    <3>2. /\ q.out[i]["text"] = q.mem[i]["text"] /\ q.out[i]["label"] = q.mem[i]["label"]
      BY <1>8, <2>3
    <3>3. /\ Plain(q.tx.terms[i]) => Plain(p.tx.terms[i])
          /\ Shown(p.tx.terms[i], terms[i], "text") = Shown(q.tx.terms[i], terms[i], "text")
          /\ Shown(p.tx.terms[i], terms[i], "label") = Shown(q.tx.terms[i], terms[i], "label")
      BY <1>6, <3>2 DEF Plain
    <3>4. ~Undecided(q)
      BY <1>1, <2>3 DEF Undecided
    <3>5. Own(q, i, terms[i]) => Own(p, i, terms[i])
      BY <1>1, <2>1, <2>3, <3>2, <3>3, <3>4 DEF Own, LabelOk
    <3>6. GivenUp(q, i, doubt) => GivenUp(p, i, doubt')
      BY <1>1, <2>3, <3>3 DEF GivenUp
    <3>7. Untaken(q, i) => Untaken(p, i)
      BY <1>1, <3>3 DEF Untaken
    <3> QED BY <2>1, <3>1, <3>5, <3>6, <3>7 DEF RowLabel
  <2>4. CASE q.kind = "patch"
    <3>1. X = {} /\ q.tx.terms[i] = <<>>
      BY <1>1, <1>3, <1>5, <2>4 DEF Working, ScanKinds
    <3>2. (i \in p.holds <=> i \in q.holds) /\ (i \in p.clean <=> i \in q.clean)
      BY <1>1, <3>1
    <3>3. DOMAIN q.tx.terms[i] = {}
      BY <3>1
    <3>4. Own(q, i, terms[i]) => Own(p, i, terms[i])
      BY <1>1, <1>6, <2>1, <2>4 DEF Own, LabelOk, ScanKinds
    <3>5. GivenUp(q, i, doubt) => GivenUp(p, i, doubt')
      BY <1>1, <2>4 DEF GivenUp
    <3>6. Untaken(q, i) => Untaken(p, i)
      BY <1>1, <1>6, <2>4, <3>3 DEF Untaken, Plain
    <3> QED BY <2>1, <3>2, <3>4, <3>5, <3>6 DEF RowLabel
  <2> QED BY <2>2, <2>3, <2>4
<1>11. LabelRight(p, terms, doubt')
  BY <1>9, <1>10 DEF LabelRight, T
<1>12. doubt \subseteq doubt' /\ X \cap H \cap Ids \subseteq doubt'
  BY <1>1
<1> QED BY <1>1, <1>11, <1>12, LabelsStay DEF p, H

\* A scan that reads the glossary knows the definitions of its rows
LEMMA ScanReadLabels ==
    ASSUME Types, RowInv, LabelInv, NEW s \in Slots, ScanRead(s)
    PROVE  LabelInv'
<1> DEFINE q == sess[s]
           p == sess'[s]
           T == Exists(terms)
           v == SeenTerms(s)
<1>1. /\ Disturbed(s, {"glossary"}) /\ q.at = "scan" /\ p.at = "flush"
      /\ q.kind \in ScanKinds /\ p.kind = q.kind /\ p.mem = v /\ p.tx = q.tx
      /\ Scanned(v, p.out, FreeIds \ Exists(v)) /\ p.fresh = q.fresh
      /\ p.holds = q.holds \cup {"glossary"}
      /\ p.clean = q.clean \cup ({"glossary"} \ HeldByOthers(s))
      /\ doubt' = doubt \cup ({"glossary"} \cap HeldByOthers(s)) /\ terms' = terms
  BY ScanReadEffect
<1>2. /\ Working(q, T) /\ \A i \in Ids : RowLabel(q, i, terms[i], doubt)
  BY DEF LabelInv, LabelRight
<1>3. ASSUME NEW i \in Ids
      PROVE  /\ v[i]["text"] = Shown(q.tx.terms[i], terms[i], "text")
             /\ v[i]["label"] = Shown(q.tx.terms[i], terms[i], "label")
             /\ v[i] # NoRow <=> i \in Known(q, T)
  BY SeenRow DEF Shown, Columns
<1>4. \A i \in Ids : /\ p.out[i]["text"] = v[i]["text"]
                     /\ p.out[i]["label"] = v[i]["label"]
  BY <1>1 DEF Scanned
<1>5. "glossary" \notin Ids
  BY ThingsAssumption
<1> HIDE DEF q, p, T, v
<1>6. Working(p, T)
  <2>1. Known(p, T) = Known(q, T)
    BY <1>1 DEF Known
  <2>2. \A i \in Ids : "status" \in DOMAIN p.tx.terms[i] => p.mem[i] # NoRow
    BY <1>1, <1>3 DEF Known
  <2>3. \A i \in Ids : i \in p.holds => i \in q.holds
    BY <1>1, <1>5
  <2> QED BY <1>1, <1>2, <1>4, <2>1, <2>2, <2>3 DEF Working, ScanKinds
<1>7. ASSUME NEW i \in Ids PROVE RowLabel(p, i, terms[i], doubt')
  <2>1. /\ RowLabel(q, i, terms[i], doubt) /\ ~Undecided(p) /\ ~Undecided(q)
    BY <1>1, <1>2 DEF Undecided, ScanKinds
  <2>2. (i \in p.holds <=> i \in q.holds) /\ (i \in p.clean <=> i \in q.clean)
    BY <1>1, <1>5
  <2>3. Own(q, i, terms[i]) => Own(p, i, terms[i])
    BY <1>1, <1>3, <2>1 DEF Own, LabelOk, ScanKinds
  <2>4. GivenUp(q, i, doubt) => GivenUp(p, i, doubt')
    BY <1>1 DEF GivenUp
  <2>5. Untaken(q, i) => Untaken(p, i)
    BY <1>1 DEF Untaken, ScanKinds
  <2> QED BY <2>1, <2>2, <2>3, <2>4, <2>5 DEF RowLabel
<1>8. LabelRight(p, terms, doubt')
  BY <1>6, <1>7 DEF LabelRight, T
<1>9. doubt \subseteq doubt' /\ {"glossary"} \cap HeldByOthers(s) \cap Ids \subseteq doubt'
  BY <1>1
<1> QED BY <1>1, <1>8, <1>9, LabelsStay DEF p

\* A session that drafts a definition knows what it wrote
LEMMA DefineLabels ==
    ASSUME Types, RowInv, LabelInv, NEW s \in Slots, NEW text \in Ai, Define(s, text)
    PROVE  LabelInv'
<1> DEFINE q == sess[s]
           p == sess'[s]
           T == Exists(terms)
           d == Drafted(q, text)
           k == q.row
           f == Changed(q.mem[k], d)
           g == q.tx.terms[k]
<1>1. /\ Disturbed(s, {}) /\ q.at = "define" /\ p.kind = q.kind /\ k \in Ids
      /\ q.kind \in ScanKinds \cup {"infer"}
      /\ p.at \in {"infer", "passes done", "scan", "end"}
      /\ p.fresh = q.fresh /\ p.out = q.out /\ terms' = terms /\ doubt' = doubt
      /\ p.tx.terms = [q.tx.terms EXCEPT ![k] = Over(f, g)]
      /\ p.mem = [q.mem EXCEPT ![k] = d] /\ p.holds = q.holds /\ p.clean = q.clean
  BY DefineEffect DEF SameHolds
<1>2. /\ Working(q, T) /\ \A i \in Ids : RowLabel(q, i, terms[i], doubt)
  BY DEF LabelInv, LabelRight
<1>3. q \in Session /\ q.tx \in Tx /\ q.clean \subseteq q.holds
  BY Holdings DEF Types, Ready
<1>4. q.mem \in [Ids -> Row] /\ q.tx.terms \in [Ids -> Parts(Row)]
  BY <1>3, TxIs DEF Session
<1>5. d \in Row /\ d["text"] = text /\ d["label"] = "draft"
  <2>1. q.mem[k] \in Row
    BY <1>1, <1>4
  <2>2. d = WithDraft(q.mem[k], text)
    BY DEF Drafted
  <2> HIDE DEF q, k, d
  <2> QED BY <2>1, <2>2, DraftIsRow
<1>6. RowInv'
  BY DefineKeepsRows
<1>7. /\ \A i \in Ids \ {k} : p.tx.terms[i] = q.tx.terms[i] /\ p.mem[i] = q.mem[i]
      /\ p.tx.terms[k] = Over(f, g) /\ p.mem[k] = d
  BY <1>1, <1>4
<1>8. /\ f \in Parts(Row) /\ g \in Parts(Row)
      /\ \A c \in Columns : c \in DOMAIN f <=> d[c] # q.mem[k][c]
      /\ \A c \in DOMAIN f : f[c] = d[c]
  <2>1. q.mem[k] \in Row /\ g \in Parts(Row)
    BY <1>1, <1>4
  <2> HIDE DEF d
  <2> QED BY <1>5, <2>1, ChangedRow
<1> HIDE DEF q, p, T, d, f, g, k
<1>9. ASSUME NEW c \in {"text", "label"}, NEW r
      PROVE  Shown(Over(f, g), r, c) = IF d[c] # q.mem[k][c] THEN d[c] ELSE Shown(g, r, c)
  <2>1. /\ DOMAIN Over(f, g) = DOMAIN f \cup DOMAIN g
        /\ \A b \in DOMAIN Over(f, g) :
              Over(f, g)[b] = IF b \in DOMAIN f THEN f[b] ELSE g[b]
    BY <1>8, OverParts
  <2>2. c \in Columns
    BY DEF Columns
  <2> QED BY <1>8, <2>1, <2>2 DEF Shown
<1>10. Known(q, T) \subseteq Known(p, T)
  <2>1. DOMAIN Over(f, g) = DOMAIN f \cup DOMAIN g
    BY <1>8, OverParts
  <2>2. DOMAIN g \subseteq DOMAIN p.tx.terms[k]
    BY <1>7, <2>1
  <2> QED BY <1>7, <2>2 DEF Known, g
<1>11. Working(p, T)
  BY <1>1, <1>2, <1>10 DEF Working
<1>12. ASSUME NEW i \in Ids PROVE RowLabel(p, i, terms[i], doubt')
  <2>1. /\ RowLabel(q, i, terms[i], doubt) /\ ~Undecided(p)
    BY <1>1, <1>2 DEF Undecided
  <2>2. CASE i # k
    <3>1. p.tx.terms[i] = q.tx.terms[i] /\ p.mem[i] = q.mem[i]
      BY <1>7, <2>2
    <3>2. i \in q.clean => ~Undecided(q)
      BY <1>1, <1>2, <1>3, <2>2 DEF Undecided, Working, k
    <3>3. i \in q.clean /\ Own(q, i, terms[i]) => Own(p, i, terms[i])
      BY <1>1, <2>1, <3>1, <3>2 DEF Own, ScanKinds
    <3>4. GivenUp(q, i, doubt) => GivenUp(p, i, doubt')
      BY <1>1, <3>1 DEF GivenUp
    <3>5. Untaken(q, i) => Untaken(p, i)
      BY <1>1, <3>1 DEF Untaken
    <3> QED BY <1>1, <2>1, <3>3, <3>4, <3>5 DEF RowLabel
  <2>3. CASE i = k
    <3>1. i \in q.holds
      BY <1>1, <1>2, <2>3 DEF Working, k
    <3>2. i \in q.clean => Own(p, i, terms[i])
      <4> SUFFICES ASSUME i \in q.clean PROVE Own(p, i, terms[i])
        OBVIOUS
      <4>1. Own(q, i, terms[i])
        BY <2>1 DEF RowLabel
      <4>2. text \notin Hand
        BY TextAssumption
      <4>3. /\ Shown(g, terms[i], "text") = q.mem[k]["text"]
            /\ Shown(g, terms[i], "label") \in {q.mem[k]["label"], "accepted"}
        BY <2>3, <4>1 DEF Own, g
      <4>4. /\ Shown(p.tx.terms[i], terms[i], "text") = d["text"]
            /\ Shown(p.tx.terms[i], terms[i], "label") \in {d["label"], "accepted"}
        BY <1>7, <1>9, <2>3, <4>3
      <4>5. q.kind \in ScanKinds => terms[i]["text"] \notin Hand
        BY <4>1 DEF Own
      <4> QED BY <1>1, <1>5, <1>7, <2>3, <4>2, <4>4, <4>5 DEF Own, LabelOk, ScanKinds
    <3>3. i \notin q.clean => i \in doubt
      BY <1>1, <2>1, <2>3, <3>1 DEF RowLabel, GivenUp, k
    <3> QED BY <1>1, <3>1, <3>2, <3>3 DEF RowLabel, GivenUp
  <2> QED BY <2>2, <2>3
<1>13. LabelRight(p, terms, doubt')
  BY <1>11, <1>12 DEF LabelRight, T
<1>14. doubt \subseteq doubt' /\ {} \cap HeldByOthers(s) \cap Ids \subseteq doubt'
  BY <1>1
<1> QED BY <1>1, <1>13, <1>14, LabelsStay DEF p

\* A session that got no draft knows its rows as before
LEMMA DefineNothingLabels ==
    ASSUME Types, LabelInv, NEW s \in Slots, DefineNothing(s)
    PROVE  LabelInv'
<1> DEFINE q == sess[s]
           p == sess'[s]
           T == Exists(terms)
<1>1. /\ Disturbed(s, {}) /\ q.at = "define" /\ p.kind = q.kind
      /\ p.at \in {"infer", "passes done", "scan", "end"} /\ q.row \in Ids
      /\ p.fresh = q.fresh /\ p.tx.terms = q.tx.terms /\ p.mem = q.mem /\ p.out = q.out
      /\ p.holds = q.holds /\ p.clean = q.clean \ {q.row}
      /\ terms' = terms /\ doubt' = doubt
  BY DefineNothingEffect DEF SameRows
<1>2. /\ Working(q, T) /\ \A i \in Ids : RowLabel(q, i, terms[i], doubt)
  BY DEF LabelInv, LabelRight
<1>3. q.clean \subseteq q.holds /\ q.kind \in ScanKinds \cup {"infer"}
  BY <1>1 DEF Types, Ready
<1> HIDE DEF q, p, T
<1>4. Working(p, T)
  BY <1>1, <1>2 DEF Working, Known
<1>5. ASSUME NEW i \in Ids PROVE RowLabel(p, i, terms[i], doubt')
  <2>1. /\ RowLabel(q, i, terms[i], doubt) /\ ~Undecided(p)
    BY <1>1, <1>2 DEF Undecided
  <2>2. CASE i \in p.clean
    <3>1. i \in q.clean /\ i # q.row
      BY <1>1, <2>2
    <3>2. ~Undecided(q)
      BY <1>1, <1>2, <1>3, <3>1 DEF Undecided, Working
    <3>3. Own(p, i, terms[i])
      BY <1>1, <2>1, <3>1, <3>2 DEF RowLabel, Own, ScanKinds
    <3> QED BY <2>2, <3>1, <3>3, <1>1, <1>3 DEF RowLabel
  <2>3. CASE i \notin p.clean
    <3>1. i = q.row => GivenUp(p, i, doubt')
      BY <1>1, <1>2, <1>3 DEF Working, GivenUp, ScanKinds
    <3>2. i # q.row => (GivenUp(q, i, doubt) => GivenUp(p, i, doubt'))
      BY <1>1 DEF GivenUp
    <3>3. Untaken(q, i) => Untaken(p, i)
      BY <1>1 DEF Untaken
    <3> QED BY <1>1, <2>1, <2>3, <3>1, <3>2, <3>3 DEF RowLabel
  <2> QED BY <2>2, <2>3
<1>6. LabelRight(p, terms, doubt')
  BY <1>4, <1>5 DEF LabelRight, T
<1>7. doubt \subseteq doubt' /\ {} \cap HeldByOthers(s) \cap Ids \subseteq doubt'
  BY <1>1
<1> QED BY <1>1, <1>6, <1>7, LabelsStay DEF p

\* A session opens that has loaded the table, and holds a row or none
LEMMA OpensLabels ==
    ASSUME Types, LabelInv, NEW s \in Slots, NEW X, Began(s, X), X \subseteq Exists(terms),
           sess'[s].tx = NoTx, sess'[s].mem = terms,
           \/ /\ sess'[s].kind = "infer" /\ sess'[s].at = "define"
              /\ X = {sess'[s].row}
           \/ /\ sess'[s].kind = "patch" /\ sess'[s].at = "flush"
              /\ \A i \in X : /\ sess'[s].out[i]["text"] \in Hand
                              /\ sess'[s].out[i]["label"] = "edited"
              /\ \A i \in Ids \ X :
                    /\ sess'[s].out[i]["text"] = terms[i]["text"]
                    /\ sess'[s].out[i]["label"] \in {terms[i]["label"], "accepted"}
           \/ /\ sess'[s].kind = "judge" /\ sess'[s].at = "flush" /\ X = {}
              /\ \A i \in Ids : /\ sess'[s].out[i]["text"] = terms[i]["text"]
                                /\ sess'[s].out[i]["label"] = terms[i]["label"]
    PROVE  LabelInv'
<1> DEFINE p == sess'[s]
           H == HeldByOthers(s)
<1>1. /\ Disturbed(s, X) /\ terms' = terms /\ p.fresh = {} /\ p.holds = X /\ p.clean = X \ H
      /\ doubt' = doubt \cup (X \cap H) /\ p.tx = NoTx /\ p.mem = terms
  BY DEF Began
<1>2. \A i \in Ids : p.tx.terms[i] = <<>> /\ Plain(p.tx.terms[i])
  BY <1>1, BlankRows DEF Plain
<1>3. X \subseteq Ids
  BY DEF Exists
<1>4. Working(p, Exists(terms))
  <2>1. \A i \in Ids : "status" \notin DOMAIN p.tx.terms[i]
    BY <1>2
  <2> HIDE DEF p
  <2> QED BY <1>1, <1>2, <2>1 DEF Working, Known, ScanKinds, p
<1>5. ASSUME NEW i \in Ids PROVE RowLabel(p, i, terms[i], doubt')
  <2>1. CASE i \in p.clean
    <3>1. i \in X
      BY <1>1, <2>1
    <3>2. /\ Shown(p.tx.terms[i], terms[i], "text") = terms[i]["text"]
          /\ Shown(p.tx.terms[i], terms[i], "label") = terms[i]["label"]
      BY <1>2 DEF Shown
    <3>3. Own(p, i, terms[i])
      BY <1>1, <3>1, <3>2 DEF Own, Undecided, ScanKinds
    <3> QED BY <1>1, <2>1, <3>3 DEF RowLabel
  <2>2. CASE i \in p.holds \ p.clean
    BY <1>1, <2>2 DEF RowLabel, GivenUp
  <2>3. CASE i \notin p.holds
    <3>1. i \notin X /\ i \notin p.clean
      BY <1>1, <2>3
    <3>2. Untaken(p, i)
      BY <1>1, <1>2, <3>1 DEF Untaken
    <3> QED BY <2>3, <3>1, <3>2 DEF RowLabel
  <2> QED BY <2>1, <2>2, <2>3
<1>6. LabelRight(p, terms, doubt')
  BY <1>4, <1>5 DEF LabelRight
<1>7. doubt \subseteq doubt' /\ X \cap H \cap Ids \subseteq doubt'
  BY <1>1
<1> QED BY <1>1, <1>6, <1>7, LabelsStay

\* A session opens
LEMMA RequestLabels ==
    ASSUME Types, LabelInv, NEW s \in Slots, Request(s)
    PROVE  LabelInv'
<1>0. Modules \cap Ids = {}
  BY ThingsAssumption
<1>1. CASE \/ \E n \in Batches : FinishFiles(s, n)
           \/ \E n \in Uploads : UploadFile(s, n)
           \/ Migrate(s) \/ Rescan(s) \/ Regenerate(s)
  <2>1. PICK X : Began(s, X) /\ X \cap Ids = {} /\ sess'[s].at \notin {"flush", "infer", "define"}
    <3>1. Served \cap Ids = {}
      BY <1>0 DEF Served
    <3> QED BY <1>1, <3>1, FinishFilesEffect, UploadFileEffect, MigrateEffect, RescanEffect,
               RegenerateEffect
  <2>2. /\ Disturbed(s, X) /\ terms' = terms /\ sess'[s].tx.terms = NoTx.terms
        /\ sess'[s].holds \cap Ids = {} /\ sess'[s].clean \subseteq sess'[s].holds
        /\ doubt \subseteq doubt' /\ X \cap HeldByOthers(s) \subseteq doubt'
    BY <2>1 DEF Began
  <2> QED BY <2>1, <2>2, BlankKeepsLabels
<1>2. CASE \E i \in Ids : InferAgain(s, i)
  <2>1. PICK i \in Ids : InferAgain(s, i)
    BY <1>2
  <2>2. /\ Began(s, {i}) /\ sess'[s].kind = "infer" /\ sess'[s].at = "define"
        /\ sess'[s].tx = NoTx /\ sess'[s].mem = terms
        /\ sess'[s].row = i /\ i \in Exists(terms)
    BY <2>1, InferAgainEffect
  <2> QED BY <2>2, OpensLabels
<1>3. CASE \E i \in Ids : AcceptDefinition(s, i)
  <2>1. PICK i \in Ids : AcceptDefinition(s, i)
    BY <1>3
  <2>2. /\ Began(s, {}) /\ sess'[s].kind = "patch" /\ sess'[s].at = "flush"
        /\ sess'[s].tx = NoTx /\ sess'[s].mem = terms /\ sess'[s].out = Accepted(i)
    BY <2>1, AcceptEffect
  <2>3. \A j \in Ids : /\ Accepted(i)[j]["text"] = terms[j]["text"]
                       /\ Accepted(i)[j]["label"] \in {terms[j]["label"], "accepted"}
    <3> SUFFICES ASSUME NEW j \in Ids
                 PROVE  /\ Accepted(i)[j]["text"] = terms[j]["text"]
                        /\ Accepted(i)[j]["label"] \in {terms[j]["label"], "accepted"}
      OBVIOUS
    <3>1. CASE j = i
      BY <3>1, RequestedRows
    <3>2. CASE j # i
      <4>1. Accepted(i)[j] = terms[j]
        BY <3>2, RequestedRows
      <4> QED BY <4>1
    <3> QED BY <3>1, <3>2
  <2> QED BY <2>2, <2>3, OpensLabels
<1>4. CASE \E i \in Ids, text \in Hand : EditDefinition(s, i, text)
  <2>1. PICK i \in Ids : \E text \in Hand : EditDefinition(s, i, text)
    BY <1>4
  <2>2. PICK text \in Hand : EditDefinition(s, i, text)
    BY <2>1
  <2>3. /\ Began(s, {i}) /\ sess'[s].at = "flush" /\ sess'[s].tx = NoTx
        /\ sess'[s].kind = "patch"
        /\ sess'[s].mem = terms /\ sess'[s].out = Edited(i, text) /\ i \in Exists(terms)
    BY <2>2, EditEffect
  <2>4. /\ Edited(i, text)[i]["text"] \in Hand /\ Edited(i, text)[i]["label"] = "edited"
        /\ \A j \in Ids \ {i} : Edited(i, text)[j] = terms[j]
    BY RequestedRows
  <2>5. \A j \in Ids \ {i} : /\ Edited(i, text)[j]["text"] = terms[j]["text"]
                             /\ Edited(i, text)[j]["label"] = terms[j]["label"]
    BY <2>4
  <2> QED BY <2>3, <2>4, <2>5, OpensLabels
<1>5. CASE \E i \in Ids, d \in {"approved", "rejected"} : JudgeSynonym(s, i, d)
  <2>1. PICK i \in Ids : \E d \in {"approved", "rejected"} : JudgeSynonym(s, i, d)
    BY <1>5
  <2>2. PICK d \in {"approved", "rejected"} : JudgeSynonym(s, i, d)
    BY <2>1
  <2>3. /\ Began(s, {}) /\ sess'[s].at = "flush" /\ sess'[s].tx = NoTx
        /\ sess'[s].kind = "judge"
        /\ sess'[s].mem = terms /\ sess'[s].out = Judged(i, d)
    BY <2>2, JudgeEffect
  <2>4. \A j \in Ids : /\ Judged(i, d)[j]["text"] = terms[j]["text"]
                       /\ Judged(i, d)[j]["label"] = terms[j]["label"]
    <3> SUFFICES ASSUME NEW j \in Ids
                 PROVE  /\ Judged(i, d)[j]["text"] = terms[j]["text"]
                        /\ Judged(i, d)[j]["label"] = terms[j]["label"]
      OBVIOUS
    <3>1. CASE j = i
      BY <3>1, RequestedRows
    <3>2. CASE j # i
      <4>1. Judged(i, d)[j] = terms[j]
        BY <3>2, RequestedRows
      <4> QED BY <4>1
    <3> QED BY <3>1, <3>2
  <2> QED BY <2>3, <2>4, OpensLabels
<1> QED BY <1>1, <1>2, <1>3, <1>4, <1>5 DEF Request

\* Every step keeps what the sessions know of the definitions
LEMMA StepLabels == Types /\ RowInv /\ HoldInv /\ LabelInv /\ [Next]_vars => LabelInv'
<1> SUFFICES ASSUME Types, RowInv, HoldInv, LabelInv, [Next]_vars PROVE LabelInv'
  OBVIOUS
<1>0. Modules \cap Ids = {} /\ "conflicts" \notin Ids
  BY ThingsAssumption
<1>1. CASE UNCHANGED vars
  <2>1. terms' = terms /\ sess' = sess /\ doubt' = doubt
    BY <1>1 DEF vars
  <2> QED BY <2>1 DEF LabelInv
<1>2. ASSUME NEW s \in Slots, Step(s) PROVE LabelInv'
  <2>1. CASE DetectRead(s)
    <3>1. {"conflicts"} \cap Ids = {}
      BY <1>0
    <3> QED BY <2>1, <3>1, DetectReadEffect, LabelsAside
  <2>2. CASE ReplaceConflicts(s) \/ ReplaceAfterWait(s)
    BY <2>2, ReplaceEffect, LabelsAside DEF SameHolds
  <2>3. CASE WaitToReplace(s)
    BY <2>3, WaitEffect, LabelsAside DEF SameHolds
  <2>4. CASE ScanRead(s)
    BY <2>4, ScanReadLabels
  <2>5. CASE FlushTerms(s)
    BY <2>5, FlushLabels
  <2>6. CASE InferFirst(s)
    <3>1. PICK i \in FirstOf(sess[s].fresh) :
            \/ /\ sess' = [sess EXCEPT ![s] = ToDefine(sess[s], sess[s].fresh \ {i})]
               /\ UNCHANGED <<Tables, Counts, doubt>>
            \/ /\ Commit(s, [sess[s] EXCEPT !.row = i, !.fresh = @ \ {i}, !.at = "define"],
                         sess[s].fresh)
               /\ UNCHANGED Counts
      BY <2>6, InferCases
    <3>2. sess[s].at = "infer"
      BY <2>6, InferCases
    <3>3. CASE /\ sess' = [sess EXCEPT ![s] = ToDefine(sess[s], sess[s].fresh \ {i})]
               /\ UNCHANGED <<Tables, Counts, doubt>>
      BY <3>2, <3>3, InferSkipEffect, LabelsAside DEF SameHolds
    <3>4. CASE /\ Commit(s, [sess[s] EXCEPT !.row = i, !.fresh = @ \ {i}, !.at = "define"],
                         sess[s].fresh)
               /\ UNCHANGED Counts
      <4>1. /\ Commits(s, sess[s].fresh) /\ sess[s].kind \in ScanKinds
            /\ i \in sess[s].fresh /\ sess'[s].mem = sess[s].mem
            /\ sess'[s].kind = sess[s].kind /\ sess'[s].fresh = sess[s].fresh \ {i}
            /\ sess'[s].at = "define" /\ sess'[s].row = i
            /\ sess'[s].holds = sess[s].holds \cap sess[s].fresh
            /\ sess'[s].clean = sess[s].clean \cap sess[s].fresh
        BY <3>2, <3>4, InferCommitEffect
      <4> QED BY <3>2, <4>1, InferCommitLabels
    <3> QED BY <3>1, <3>3, <3>4
  <2>7. CASE \E text \in Ai : Define(s, text)
    BY <2>7, DefineLabels
  <2>8. CASE DefineNothing(s)
    BY <2>8, DefineNothingLabels
  <2>9. CASE EndPasses(s)
    <3>0. sess[s].at = "passes done"
      BY <2>9, EndCases
    <3>1. CASE Commit(s, sess[s], {}) /\ UNCHANGED Counts
      <4>1. /\ Commits(s, {}) /\ sess'[s].holds = {} /\ sess'[s].clean = {}
            /\ sess'[s].at = "passes done" /\ sess'[s].tx = NoTx
        BY <3>0, <3>1, EndCommitEffect DEF Commits
      <4>2. LabelRight(sess'[s], terms', doubt')
        BY <4>1, BlankLabels
      <4>3. {} \in SUBSET Ids
        OBVIOUS
      <4> QED BY <3>0, <4>1, <4>2, <4>3, CommitLabels
    <3>2. CASE ~(Commit(s, sess[s], {}) /\ UNCHANGED Counts)
      <4>1. /\ Disturbed(s, Mine(sess[s])) /\ terms' = terms /\ doubt \subseteq doubt'
            /\ sess'[s].kind = sess[s].kind /\ sess'[s].at \in {"end", "wiki"}
            /\ SameRows(sess'[s], sess[s]) /\ sess'[s].fresh = sess[s].fresh
            /\ sess'[s].holds = sess[s].holds \cup Mine(sess[s])
            /\ sess'[s].clean = sess[s].clean \cup (Mine(sess[s]) \ HeldByOthers(s))
        BY <2>9, <3>0, <3>2, EndCases, ReadRulesEffect
      <4>2. Mine(sess[s]) \cap Ids = {}
        BY <1>0, FreshRows
      <4>3. /\ sess'[s].holds \cap Ids \subseteq sess[s].holds
            /\ sess'[s].clean \cap Ids = sess[s].clean \cap Ids
            /\ sess[s].holds \subseteq sess'[s].holds
        BY <4>1, <4>2
      <4> QED BY <3>0, <4>1, <4>2, <4>3, LabelsAside
    <3> QED BY <3>1, <3>2
  <2>10. CASE PageWritten(s)
    BY <2>10, PageWrittenEffect, LabelsAside DEF SameHolds
  <2>11. CASE PageSkipped(s)
    <3> DEFINE m == Head(sess[s].mods)
    <3>1. m \in Modules
      <4>1. sess[s].mods \in Seq(Modules) /\ sess[s].mods # <<>>
        BY <2>11, PageSkippedEffect
      <4> QED BY <4>1, TailOf
    <3>2. m \notin Ids
      BY <1>0, <3>1
    <3>3. /\ Disturbed(s, {m}) /\ sess[s].at = "wiki" /\ sess'[s].kind = sess[s].kind
          /\ sess'[s].at \in {"wiki", "end"} /\ SameRows(sess'[s], sess[s])
          /\ sess'[s].fresh = sess[s].fresh /\ sess'[s].holds = sess[s].holds
          /\ sess'[s].clean = sess[s].clean \ {m} /\ doubt \subseteq doubt' /\ terms' = terms
      BY <2>11, PageSkippedEffect
    <3> HIDE DEF m
    <3>4. {m} \cap Ids = {} /\ sess'[s].clean \cap Ids = sess[s].clean \cap Ids
          /\ sess'[s].holds \cap Ids \subseteq sess[s].holds
          /\ sess[s].holds \subseteq sess'[s].holds
      BY <3>2, <3>3
    <3> QED BY <3>3, <3>4, LabelsAside
  <2>12. CASE UpsertPage(s)
    BY <2>12, UpsertEffect, LabelsAside DEF SameHolds
  <2>13. CASE DuplicatePage(s) \/ BreakDeadlock(s) \/ LoseSession(s)
    <3>1. /\ Disturbed(s, sess[s].owes) /\ Same(sess'[s], NoSession) /\ terms' = terms
          /\ SameHolds(sess'[s], NoSession) /\ doubt' = doubt \cup sess[s].owes
      BY <2>13, LoseEffect
    <3>2. /\ sess'[s].tx.terms = NoTx.terms /\ sess'[s].at = "idle"
          /\ sess'[s].holds = {} /\ sess'[s].clean = {}
      BY <3>1, NoSessionIsSession DEF Same, Goes, SameHolds
    <3>3. doubt \subseteq doubt' /\ sess[s].owes \cap HeldByOthers(s) \subseteq doubt'
      BY <3>1
    <3> QED BY <3>1, <3>2, <3>3, BlankKeepsLabels
  <2>14. CASE End(s)
    <3>1. Commits(s, {}) /\ sess[s].at = "end" /\ sess'[s] = NoSession
      BY <2>14, EndEffect
    <3>2. LabelRight(sess'[s], terms', doubt')
      BY <3>1, NoSessionIsSession, BlankLabels
    <3>3. {} \in SUBSET Ids
      OBVIOUS
    <3> QED BY <3>1, <3>2, <3>3, CommitLabels
  <2> QED
    BY <1>2, <2>1, <2>2, <2>3, <2>4, <2>5, <2>6, <2>7, <2>8, <2>9, <2>10, <2>11, <2>12,
       <2>13, <2>14 DEF Step
<1>3. ASSUME NEW s \in Slots, Request(s) PROVE LabelInv'
  BY <1>3, RequestLabels
<1> QED BY <1>1, <1>2, <1>3 DEF Next

\* The labels are true to begin with
LEMMA InitLabels == Init => LabelInv
<1> SUFFICES ASSUME Init PROVE LabelInv
  OBVIOUS
<1>1. \A s \in Slots : sess[s] = NoSession
  BY DEF Init, Quiet
<1>2. LabelRight(NoSession, terms, doubt)
  BY NoSessionIsSession, BlankLabels
<1>3. \A i \in Ids : LabelOk(terms[i])
  <2>1. /\ NoRow["text"] = None /\ NoRow["label"] = None /\ None \notin Hand
        /\ None # "edited" /\ Ai \cap Hand = {}
    BY NoRowIsRow, TextAssumption, NullAssumption DEF Labels
  <2>2. CASE EmptyInit
    BY <2>1, <2>2 DEF EmptyInit, LabelOk
  <2>3. CASE \E n \in Batches : LaterInit(n)
    <3>1. \A i \in Ids : terms[i]["text"] \in Ai \cup {None} /\ terms[i]["label"] \in {"draft", None}
      BY <2>3, LaterTables
    <3> QED BY <2>1, <3>1 DEF LabelOk
  <2> QED BY <2>2, <2>3 DEF Init
<1> QED BY <1>1, <1>2, <1>3 DEF LabelInv

\* The labels are true, and the sessions know the definitions they hold
LEMMA AlwaysLabels == Spec => [](Types /\ RowInv /\ HoldInv /\ LabelInv)
<1>1. Init => RowInv /\ LabelInv
  BY InitRows, InitLabels
<1>2. Types /\ RowInv /\ [Next]_vars => RowInv'
  BY StepRows
<1>3. Types /\ RowInv /\ HoldInv /\ LabelInv /\ [Next]_vars => LabelInv'
  BY StepLabels
<1> QED BY <1>1, <1>2, <1>3, AlwaysHolds, PTL DEF Spec

(* A definition labelled "edited" was written by a person, and a person's  *)
(* definition is never labelled a draft, unless a PATCH and an inference   *)
(* of the row crossed.                                                     *)
THEOREM LabelsStayTrue == Spec => []LabelsTrue
<1>1. LabelInv => LabelsTrue
  BY DEF LabelInv, LabelOk, LabelsTrue
<1> QED BY <1>1, AlwaysLabels, PTL

(* No scan replaces what a person has written: the session that does is an *)
(* inference somebody asked for, or one that crossed the person's PATCH.   *)
THEOREM ScansLeavePeople == Spec => ScansRespectPeople
<1>1. Types /\ RowInv /\ LabelInv /\ [Next]_vars =>
         \A i \in Ids : terms[i].text \in Hand /\ terms'[i].text \notin Hand =>
            \/ i \in doubt'
            \/ \E s \in Slots : sess[s].kind = "infer" /\ sess'[s] # sess[s]
  <2> SUFFICES ASSUME Types, RowInv, LabelInv, [Next]_vars, NEW i \in Ids,
                      terms[i]["text"] \in Hand, terms'[i]["text"] \notin Hand,
                      i \notin doubt'
               PROVE  \E s \in Slots : sess[s].kind = "infer" /\ sess'[s] # sess[s]
    OBVIOUS
  <2>1. PICK s \in Slots :
           \E keep \in SUBSET Ids :
              /\ Commits(s, keep) /\ sess[s].at \notin {"flush", "define"}
              /\ sess'[s] = NoSession \/ sess[s].kind \in ScanKinds
    BY TermsChange
  <2> DEFINE q == sess[s]
  <2>2. /\ i \in q.clean => terms'[i]["text"] = q.mem[i]["text"]
        /\ i \notin q.holds => terms'[i]["text"] = terms[i]["text"]
        /\ terms'[i]["text"] = Shown(q.tx.terms[i], terms[i], "text")
    BY <2>1, CommittedRow
  <2>3. i \notin q.clean => i \notin doubt
    BY <2>1 DEF Commits
  <2>4. /\ RowLabel(q, i, terms[i], doubt) /\ q.clean \subseteq q.holds
        /\ Working(q, Exists(terms))
    BY DEF LabelInv, LabelRight, Types, Ready
  <2>5. i \in q.holds
    BY <2>2
  <2>6. i \in q.clean
    <3> SUFFICES ASSUME i \notin q.clean PROVE FALSE
      OBVIOUS
    <3>1. Plain(q.tx.terms[i])
      BY <2>3, <2>4, <2>5 DEF RowLabel, GivenUp
    <3> QED BY <2>2, <3>1 DEF Plain, Shown
  <2>7. Own(q, i, terms[i])
    BY <2>4, <2>6 DEF RowLabel
  <2>8. q.kind \notin ScanKinds /\ q.kind # "patch"
    BY <2>1, <2>2, <2>6, <2>7 DEF Own
  <2>9. q.kind = "infer"
    BY <2>4, <2>5, <2>8 DEF Working
  <2>10. sess'[s] = NoSession /\ NoSession.kind = "idle"
    BY <2>1, <2>8, NoSessionIsSession
  <2> QED BY <2>9, <2>10
<1> QED BY <1>1, AlwaysLabels, PTL DEF Spec, ScansRespectPeople

-----------------------------------------------------------------------------
(* The glossary has a row for each group *)

\* The columns that only scans write
Words == {"variants", "services"}

\* Rows with the same words; rows of which the second have more
SameWords(R, S) == \A i \in Ids : \A c \in Words : R[i][c] = S[i][c]
MoreWords(R, S) == \A i \in Ids : \A c \in Words : R[i][c] \subseteq S[i][c]

\* Two names of a group are in one row, two of different groups are not
Unique(R) == \A i, j \in Ids : \A v \in R[i]["variants"], w \in R[j]["variants"] :
                GroupOf[v] = GroupOf[w] <=> i = j

\* Term t is on record under name
Listed(R, t, name) == \E i \in Ids : t \in R[i]["variants"] /\ name \in R[i]["services"]

\* So are all terms in the code of n
Covers(R, n) == \A k \in DOMAIN Code[n] : Listed(R, Code[n][k], n)

\* What is true of rows is true of rows with the same words
LEMMA WordsSame ==
    ASSUME NEW R, NEW S, SameWords(R, S)
    PROVE  /\ Unique(R) => Unique(S)
           /\ MoreWords(R, S) /\ SameWords(S, R)
           /\ \A n : Covers(R, n) => Covers(S, n)
<1>1. \A i \in Ids : R[i]["variants"] = S[i]["variants"] /\ R[i]["services"] = S[i]["services"]
  BY DEF SameWords, Words
<1>2. MoreWords(R, S) /\ SameWords(S, R)
  BY DEF SameWords, MoreWords
<1>3. Unique(R) => Unique(S)
  BY <1>1 DEF Unique
<1>4. \A n : Covers(R, n) => Covers(S, n)
  BY <1>1 DEF Covers, Listed
<1> QED BY <1>2, <1>3, <1>4

\* More words cover what fewer do
LEMMA WordsMore ==
    ASSUME NEW R, NEW S, MoreWords(R, S)
    PROVE  \A n : Covers(R, n) => Covers(S, n)
<1>1. \A i \in Ids : /\ R[i]["variants"] \subseteq S[i]["variants"]
                     /\ R[i]["services"] \subseteq S[i]["services"]
  BY DEF MoreWords, Words
<1>2. \A t, name : Listed(R, t, name) => Listed(S, t, name)
  BY <1>1 DEF Listed
<1> QED BY <1>2 DEF Covers

\* The words of a grown row and of a new one
LEMMA GrownWords ==
    ASSUME NEW row \in Row, NEW t \in Terms, NEW name \in Names
    PROVE  /\ Grow(row, t, name)["variants"] = row["variants"] \cup {t}
           /\ Grow(row, t, name)["services"] = row["services"] \cup {name}
           /\ NewRow(t, name)["variants"] = {t} /\ NewRow(t, name)["services"] = {name}
<1>1. /\ Grow(row, t, name)["variants"] = row["variants"] \cup {t}
      /\ Grow(row, t, name)["services"] = row["services"] \cup {name}
  BY DEF Row, Grow
<1>2. NewRow(t, name)["variants"] = {t} /\ NewRow(t, name)["services"] = {name}
  BY NoRowIsRow DEF NewRow, Row
<1> QED BY <1>1, <1>2

\* One term more: in a row of its group if there is one
LEMMA OneWord ==
    ASSUME NEW rows \in [Ids -> Row], NEW t \in Terms, NEW name \in Names,
           NEW free \in SUBSET Ids, NEW out \in AddTerm(rows, t, name, free)
    PROVE  MoreWords(rows, out) /\ Listed(out, t, name) /\ (Unique(rows) => Unique(out))
<1> DEFINE here  == {i \in Matching(rows, t) : name \in rows[i].services}
           there == Matching(rows, t) \ here
           grow(i) == [rows EXCEPT ![i].variants = @ \cup {t}, ![i].services = @ \cup {name}]
           make(i) == [rows EXCEPT ![i] = NewRow(t, name)]
<1>1. Matching(rows, t) \subseteq Exists(rows) /\ Exists(rows) \subseteq Ids
  BY DEF Matching, SameGroup, Exists
<1>2. \/ \E i \in Matching(rows, t) : out = grow(i)
      \/ Matching(rows, t) = {} /\ \E i \in FirstOf(free \ Exists(rows)) : out = make(i)
  BY <1>1 DEF AddTerm
<1>3. FirstOf(free \ Exists(rows)) \subseteq free \ Exists(rows)
  BY DEF FirstOf
<1>4. CASE \E i \in Matching(rows, t) : out = grow(i)
  <2>1. PICK i \in Matching(rows, t) : out = grow(i)
    BY <1>4
  <2>2. i \in Ids /\ rows[i] \in Row
    BY <1>1, <2>1
  <2> DEFINE new == Grow(rows[i], t, name)
  <2>3. out = [rows EXCEPT ![i] = new]
    BY <2>1, <2>2 DEF Row, Grow
  <2>4. /\ new["variants"] = rows[i]["variants"] \cup {t}
        /\ new["services"] = rows[i]["services"] \cup {name}
    BY <2>2, GrownWords
  <2> HIDE DEF new
  <2>5. out[i] = new /\ \A j \in Ids : j # i => out[j] = rows[j]
    BY <2>2, <2>3
  <2>6. MoreWords(rows, out)
    BY <2>4, <2>5 DEF MoreWords, Words
  <2>7. Listed(out, t, name)
    BY <2>2, <2>4, <2>5 DEF Listed
  <2>8. PICK u \in rows[i]["variants"] : GroupOf[u] = GroupOf[t]
    BY <2>1 DEF Matching, SameGroup
  <2>9. ASSUME Unique(rows) PROVE Unique(out)
    <3>1. \A j \in Ids : \A v \in out[j]["variants"] :
             \E w \in rows[j]["variants"] : GroupOf[w] = GroupOf[v]
      BY <2>4, <2>5, <2>8
    <3> QED BY <2>9, <3>1 DEF Unique
  <2> QED BY <2>6, <2>7, <2>9
<1>5. CASE Matching(rows, t) = {} /\ \E i \in FirstOf(free \ Exists(rows)) : out = make(i)
  <2>1. PICK i \in free \ Exists(rows) : out = make(i)
    BY <1>3, <1>5
  <2>2. i \in Ids /\ rows[i] = NoRow
    BY <2>1 DEF Exists
  <2>3. /\ out[i]["variants"] = {t} /\ out[i]["services"] = {name}
        /\ \A j \in Ids : j # i => out[j] = rows[j]
    <3>1. out[i] = NewRow(t, name) /\ \A j \in Ids : j # i => out[j] = rows[j]
      BY <2>1, <2>2
    <3> QED BY <3>1, GrownWords, NoRowIsRow
  <2>4. MoreWords(rows, out)
    <3>1. rows[i]["variants"] = {} /\ rows[i]["services"] = {}
      BY <2>2, NoRowIsRow
    <3> QED BY <2>3, <3>1 DEF MoreWords, Words
  <2>5. Listed(out, t, name)
    BY <2>2, <2>3 DEF Listed
  <2>6. \A j \in Ids : \A v \in rows[j]["variants"] : GroupOf[v] # GroupOf[t]
    <3> SUFFICES ASSUME NEW j \in Ids, NEW v \in rows[j]["variants"], GroupOf[v] = GroupOf[t]
                 PROVE  FALSE
      OBVIOUS
    <3>1. j \in Exists(rows)
      BY NoRowIsRow DEF Exists
    <3> QED BY <1>5, <3>1 DEF Matching, SameGroup
  <2>7. ASSUME Unique(rows) PROVE Unique(out)
    <3> SUFFICES ASSUME NEW a \in Ids, NEW b \in Ids,
                        NEW v \in out[a]["variants"], NEW w \in out[b]["variants"]
                 PROVE  GroupOf[v] = GroupOf[w] <=> a = b
      BY DEF Unique
    <3>1. CASE a = i /\ b = i
      BY <2>3, <3>1
    <3>2. CASE a = i /\ b # i
      BY <2>3, <2>6, <3>2
    <3>3. CASE a # i /\ b = i
      BY <2>3, <2>6, <3>3
    <3>4. CASE a # i /\ b # i
      BY <2>3, <2>7, <3>4 DEF Unique
    <3> QED BY <3>1, <3>2, <3>3, <3>4
  <2> QED BY <2>4, <2>5, <2>7
<1> QED BY <1>2, <1>4, <1>5

\* What the first n terms of a text have made of rows
Written(rows, out, text, n, name) ==
    /\ MoreWords(rows, out)
    /\ Unique(rows) => Unique(out)
    /\ \A k \in 1..n : Listed(out, text[k], name)

\* More words list what fewer do
LEMMA WrittenOn ==
    ASSUME NEW rows, NEW p, NEW r, NEW text, NEW x \in Nat, x # 0, NEW name,
           Written(rows, p, text, x - 1, name), MoreWords(p, r),
           Listed(r, text[x], name), Unique(p) => Unique(r)
    PROVE  Written(rows, r, text, x, name)
<1>1. \A i \in Ids : /\ p[i]["variants"] \subseteq r[i]["variants"]
                     /\ p[i]["services"] \subseteq r[i]["services"]
  BY DEF MoreWords, Words
<1>2. \A t : Listed(p, t, name) => Listed(r, t, name)
  BY <1>1 DEF Listed
<1>3. \A k \in 1..x : k \in 1..(x - 1) \/ k = x
  OBVIOUS
<1>4. \A k \in 1..x : Listed(r, text[k], name)
  BY <1>2, <1>3 DEF Written
<1>5. MoreWords(rows, r)
  BY DEF Written, MoreWords
<1> QED BY <1>4, <1>5 DEF Written

\* A scan leaves one row for each group, and every term of its text under name
LEMMA ScansWrite ==
    ASSUME NEW rows \in [Ids -> Row], NEW text \in Seq(Terms), NEW name \in Names,
           NEW free \in SUBSET Ids, NEW out \in Scans(rows, text, name, free)
    PROVE  Written(rows, out, text, Len(text), name)
<1> DEFINE N == Len(text)
           F == CHOOSE f : Progress(f, N, rows, text, name, free)
           Good(n, r) == Scanned(rows, r, free) /\ Written(rows, r, text, n, name)
           T == {n \in Nat : n <= N /\ ~ \A r \in F[n] : Good(n, r)}
<1>1. N \in Nat
  OBVIOUS
<1>2. Progress(F, N, rows, text, name, free)
  BY <1>1, ProgressExists
<1>3. Scans(rows, text, name, free) = F[N]
  BY Zenon DEF Scans, Progress, Entered
<1> HIDE DEF F
<1>4. \A n \in 0..N : F[n] = IF n = 0 THEN {rows}
                            ELSE Entered(F[n - 1], text[n], name, free)
  BY <1>2 DEF Progress
<1>5. Good(0, rows)
  <2>1. \A k \in 1..0 : FALSE
    OBVIOUS
  <2>2. MoreWords(rows, rows)
    BY DEF MoreWords
  <2> QED BY <2>1, <2>2 DEF Scanned, Written
<1> HIDE DEF Good
<1>6. T = {}
  <2> SUFFICES ASSUME T # {} PROVE FALSE
    OBVIOUS
  <2>1. PICK x \in T : \A y \in T : x <= y
    BY LeastOf
  <2>2. PICK r \in F[x] : ~Good(x, r)
    BY <2>1
  <2>3. x # 0
    BY <1>1, <1>4, <1>5, <2>2
  <2>4. x - 1 \in Nat /\ x - 1 <= N /\ x - 1 \notin T /\ x \in 0..N /\ x \in 1..N
    BY <1>1, <2>1, <2>3
  <2>5. \A p \in F[x - 1] : Good(x - 1, p)
    BY <2>4
  <2>6. PICK p \in F[x - 1] : r \in AddTerm(p, text[x], name, free)
    <3>1. F[x] = Entered(F[x - 1], text[x], name, free)
      BY <1>4, <2>3, <2>4
    <3>2. r \in Entered(F[x - 1], text[x], name, free)
      BY <2>2, <3>1
    <3> QED BY <3>2, Zenon DEF Entered
  <2>7. Scanned(rows, p, free) /\ Written(rows, p, text, x - 1, name)
    BY <2>5 DEF Good
  <2>8. text[x] \in Terms /\ p \in [Ids -> Row]
    BY <2>4, <2>7 DEF Scanned
  <2>9. Scanned(rows, r, free)
    BY <2>6, <2>7, <2>8, OneTerm, ScannedTwice
  <2>10. MoreWords(p, r) /\ Listed(r, text[x], name) /\ (Unique(p) => Unique(r))
    BY <2>6, <2>8, OneWord
  <2>11. Written(rows, r, text, x, name)
    BY <2>3, <2>4, <2>7, <2>10, WrittenOn
  <2> QED BY <2>2, <2>9, <2>11 DEF Good
<1> QED
  BY <1>1, <1>3, <1>6 DEF Good

\* The sources, and the rules only one of them has
Sources == Batches \cup Uploads
OwnRules(n) == {r \in Brings[n] : \A k \in Sources \ {n} : r \notin Brings[k]}

\* The words a session sees where R is committed
View(q, R) == [i \in Ids |-> [c \in Words |-> Shown(q.tx.terms[i], R[i], c)]]

\* Where an ingest has its scan before it
Unscanned == {"detect", "replace", "blocked", "scan"}

(* A session that owes the glossary the terms of n: it has the scan before *)
(* it, or its result in memory, or in its transaction.                     *)
Covering(q, R, n) ==
    /\ "glossary" \in q.owes
    /\ q.at \in Unscanned => q.todo = << <<n, Code[n]>> >>
    /\ q.at \in {"flush", "infer"} => q.todo = <<>>
    /\ q.at \notin Unscanned => "glossary" \in q.holds
    /\ q.at = "flush" => Covers(q.out, n)
    /\ q.at \notin Unscanned \cup {"flush"} => Covers(View(q, R), n)

\* Only who has read the glossary writes words; and a scan only adds some
WordDuty(q) ==
    /\ "glossary" \notin q.holds => \A i \in Ids : DOMAIN q.tx.terms[i] \cap Words = {}
    /\ q.at = "flush" => MoreWords(q.mem, q.out)
    /\ q.at = "flush" /\ "glossary" \notin q.holds => SameWords(q.mem, q.out)
    /\ q.at = "define" => "glossary" \notin q.holds
    /\ "glossary" \in q.owes => q.kind \in {"batch", "upload"}

\* A session sees one row for each group, and makes one row for each
WordSight(q, R) ==
    /\ MoreWords(R, View(q, R)) /\ Unique(View(q, R))
    /\ q.at = "flush" /\ "glossary" \in q.holds =>
          SameWords(View(q, R), q.mem) /\ Unique(q.out)

(* When the glossary is not in doubt, every session would leave one row    *)
(* for each group, and the terms of every source that has rules on record, *)
(* or about to be, are listed or a session owes them.                      *)
WordInv ==
    /\ \A s \in Slots : WordDuty(sess[s])
    /\ "glossary" \notin doubt =>
          /\ Unique(terms)
          /\ \A s \in Slots : WordSight(sess[s], terms)
          /\ \A n \in Sources :
                OwnRules(n) \cap rules # {} =>
                   Covers(terms, n) \/ \E s \in Slots : Covering(sess[s], terms, n)
          /\ \A n \in Sources : \A s \in Slots :
                OwnRules(n) \cap sess[s].tx.rules # {} => Covering(sess[s], terms, n)

\* A session sees the table with its words
LEMMA SeenView ==
    ASSUME Types, NEW s \in Slots
    PROVE  SameWords(SeenTerms(s), View(sess[s], terms))
<1>1. sess[s].tx \in Tx
  BY Holdings
<1>2. sess[s].tx.terms \in [Ids -> Parts(Row)] /\ terms \in [Ids -> Row]
  BY <1>1, TxIs DEF Types, TablesTyped
<1> SUFFICES ASSUME NEW i \in Ids, NEW c \in Words
             PROVE  SeenTerms(s)[i][c] = View(sess[s], terms)[i][c]
  BY DEF SameWords
<1> DEFINE f == sess[s].tx.terms[i]
           r == terms[i]
<1>3. f \in Parts(Row) /\ r \in Row
  BY <1>2
<1>4. SeenTerms(s)[i] = Over(f, r) /\ View(sess[s], terms)[i][c] = Shown(f, r, c)
  BY DEF SeenTerms, View
<1>5. c \in Columns
  BY DEF Words, Columns
<1> HIDE DEF f, r
<1>6. Over(f, r)[c] = IF c \in DOMAIN f THEN f[c] ELSE r[c]
  BY <1>3, <1>5, OverRow
<1> QED BY <1>4, <1>6 DEF Shown

\* Who has written no words sees those that are committed
LEMMA ViewNothing ==
    ASSUME NEW q, NEW R, \A i \in Ids : DOMAIN q.tx.terms[i] \cap Words = {}
    PROVE  SameWords(R, View(q, R))
BY DEF SameWords, View, Shown

\* A session sees the same words where the same are committed
LEMMA ViewSame ==
    ASSUME NEW q, NEW R, NEW S, SameWords(R, S)
    PROVE  SameWords(View(q, R), View(q, S))
<1> SUFFICES ASSUME NEW i \in Ids, NEW c \in Words
             PROVE  View(q, R)[i][c] = View(q, S)[i][c]
  BY DEF SameWords
<1>1. R[i][c] = S[i][c]
  BY DEF SameWords
<1> QED BY <1>1 DEF View, Shown

\* Words that are the same as the same are the same
LEMMA WordsTwice ==
    ASSUME NEW R, NEW S, NEW T, SameWords(R, S), SameWords(S, T)
    PROVE  SameWords(R, T)
BY DEF SameWords

\* Sight and cover where the same words are committed
LEMMA SightSame ==
    ASSUME NEW q, NEW R, NEW S, SameWords(R, S)
    PROVE  /\ WordSight(q, R) => WordSight(q, S)
           /\ \A n : Covering(q, R, n) => Covering(q, S, n)
<1>1. SameWords(View(q, R), View(q, S)) /\ SameWords(View(q, S), View(q, R))
  BY ViewSame, WordsSame
<1>2. ASSUME WordSight(q, R) PROVE WordSight(q, S)
  <2>1. Unique(View(q, S))
    BY <1>1, <1>2, WordsSame DEF WordSight
  <2>2. MoreWords(S, View(q, S))
    BY <1>1, <1>2 DEF WordSight, MoreWords, SameWords
  <2>3. SameWords(View(q, R), q.mem) => SameWords(View(q, S), q.mem)
    BY <1>1, WordsTwice
  <2> QED BY <1>2, <2>1, <2>2, <2>3 DEF WordSight
<1>3. \A n : Covers(View(q, R), n) => Covers(View(q, S), n)
  BY <1>1, WordsSame
<1> QED BY <1>2, <1>3 DEF Covering

\* Sessions that hold the same and have the same rows
LEMMA WordsOthers ==
    ASSUME NEW p, NEW q, Same(p, q), p.holds = q.holds
    PROVE  /\ WordDuty(q) => WordDuty(p)
           /\ \A R : WordSight(q, R) => WordSight(p, R)
           /\ \A R, n : Covering(q, R, n) => Covering(p, R, n)
<1>1. \A R : View(p, R) = View(q, R)
  BY DEF View, Same
<1>2. WordDuty(q) => WordDuty(p)
  BY DEF WordDuty, Same, Goes
<1>3. \A R : WordSight(q, R) => WordSight(p, R)
  BY <1>1 DEF WordSight, Same, Goes
<1>4. \A R, n : Covering(q, R, n) => Covering(p, R, n)
  BY <1>1 DEF Covering, Same, Goes
<1> QED BY <1>2, <1>3, <1>4

\* The table is as it was, and the session that takes the step does its part
LEMMA WordsStay ==
    ASSUME WordInv, NEW s \in Slots, NEW X, Disturbed(s, X), terms' = terms,
           doubt \subseteq doubt', WordDuty(sess'[s]),
           "glossary" \notin doubt' =>
              /\ WordSight(sess'[s], terms)
              /\ \A n \in Sources :
                    /\ Covering(sess[s], terms, n) => Covering(sess'[s], terms, n)
                    /\ OwnRules(n) \cap sess'[s].tx.rules # {} => Covering(sess'[s], terms, n)
                    /\ OwnRules(n) \cap rules' # {} =>
                          OwnRules(n) \cap rules # {} \/ Covering(sess'[s], terms, n)
    PROVE  WordInv'
<1>1. ASSUME NEW o \in Slots, o # s
      PROVE  /\ sess'[o].tx.rules = sess[o].tx.rules
             /\ WordDuty(sess[o]) => WordDuty(sess'[o])
             /\ WordSight(sess[o], terms) => WordSight(sess'[o], terms)
             /\ \A n : Covering(sess[o], terms, n) => Covering(sess'[o], terms, n)
  <2>1. Same(sess'[o], sess[o]) /\ sess'[o].holds = sess[o].holds
    BY <1>1 DEF Disturbed, Others
  <2> QED BY <2>1, WordsOthers DEF Same
<1>2. \A o \in Slots : WordDuty(sess'[o])
  BY <1>1 DEF WordInv
<1>3. ASSUME "glossary" \notin doubt'
      PROVE  /\ Unique(terms')
             /\ \A o \in Slots : WordSight(sess'[o], terms')
             /\ \A n \in Sources :
                   OwnRules(n) \cap rules' # {} =>
                      Covers(terms', n) \/ \E o \in Slots : Covering(sess'[o], terms', n)
             /\ \A n \in Sources : \A o \in Slots :
                   OwnRules(n) \cap sess'[o].tx.rules # {} => Covering(sess'[o], terms', n)
  <2>1. "glossary" \notin doubt
    BY <1>3
  <2>2. /\ Unique(terms) /\ \A o \in Slots : WordSight(sess[o], terms)
        /\ \A n \in Sources :
              OwnRules(n) \cap rules # {} =>
                 Covers(terms, n) \/ \E o \in Slots : Covering(sess[o], terms, n)
        /\ \A n \in Sources : \A o \in Slots :
              OwnRules(n) \cap sess[o].tx.rules # {} => Covering(sess[o], terms, n)
    BY <2>1 DEF WordInv
  <2>3. \A o \in Slots : WordSight(sess'[o], terms')
    BY <1>1, <1>3, <2>2
  <2>4. \A n \in Sources : \A o \in Slots :
           Covering(sess[o], terms, n) => Covering(sess'[o], terms', n)
    BY <1>1, <1>3
  <2>5. ASSUME NEW n \in Sources, OwnRules(n) \cap rules' # {}
        PROVE  Covers(terms', n) \/ \E o \in Slots : Covering(sess'[o], terms', n)
    <3>1. CASE OwnRules(n) \cap rules # {}
      BY <2>2, <2>4, <3>1
    <3>2. CASE OwnRules(n) \cap rules = {}
      BY <1>3, <2>5, <3>2
    <3> QED BY <3>1, <3>2
  <2>6. ASSUME NEW n \in Sources, NEW o \in Slots, OwnRules(n) \cap sess'[o].tx.rules # {}
        PROVE  Covering(sess'[o], terms', n)
    <3>1. CASE o = s
      BY <1>3, <2>6, <3>1
    <3>2. CASE o # s
      BY <1>1, <2>2, <2>4, <2>6, <3>2
    <3> QED BY <3>1, <3>2
  <2> QED BY <2>2, <2>3, <2>5, <2>6
<1> QED BY <1>2, <1>3 DEF WordInv

\* A session that goes on with its rows covers what it did
LEMMA CoverPass ==
    ASSUME NEW q, NEW p, NEW R, SameRows(p, q), p.owes = q.owes,
           "glossary" \in q.holds => "glossary" \in p.holds,
           \/ q.at \in Unscanned /\ p.at \in Unscanned /\ p.todo = q.todo
           \/ /\ q.at \notin Unscanned \cup {"flush"} /\ p.at \notin Unscanned \cup {"flush"}
              /\ p.at = "infer" => q.at = "infer" /\ p.todo = q.todo
    PROVE  \A n : Covering(q, R, n) => Covering(p, R, n)
<1>1. View(p, R) = View(q, R)
  BY DEF View, SameRows
<1>2. "flush" \notin Unscanned /\ "infer" \notin Unscanned
  BY DEF Unscanned
<1> QED BY <1>1, <1>2 DEF Covering

\* It goes on with its rows, and has no words to write
LEMMA WordsAside ==
    ASSUME WordInv, NEW s \in Slots, NEW X, Disturbed(s, X), terms' = terms,
           rules' = rules, doubt \subseteq doubt', SameRows(sess'[s], sess[s]),
           sess'[s].tx.rules = sess[s].tx.rules, sess'[s].owes = sess[s].owes,
           sess'[s].kind = sess[s].kind,
           "glossary" \in sess'[s].holds <=> "glossary" \in sess[s].holds,
           sess'[s].at \notin {"flush", "define"},
           \A n \in Sources : Covering(sess[s], terms, n) => Covering(sess'[s], terms, n)
    PROVE  WordInv'
<1>1. View(sess'[s], terms) = View(sess[s], terms)
  BY DEF View, SameRows
<1>2. WordDuty(sess'[s])
  <2>1. WordDuty(sess[s])
    BY DEF WordInv
  <2> QED BY <2>1 DEF WordDuty, SameRows
<1>3. ASSUME "glossary" \notin doubt'
      PROVE  /\ WordSight(sess'[s], terms)
             /\ \A n \in Sources :
                   /\ Covering(sess[s], terms, n) => Covering(sess'[s], terms, n)
                   /\ OwnRules(n) \cap sess'[s].tx.rules # {} => Covering(sess'[s], terms, n)
                   /\ OwnRules(n) \cap rules' # {} =>
                         OwnRules(n) \cap rules # {} \/ Covering(sess'[s], terms, n)
  <2>1. "glossary" \notin doubt
    BY <1>3
  <2>2. /\ WordSight(sess[s], terms)
        /\ \A n \in Sources :
              OwnRules(n) \cap sess[s].tx.rules # {} => Covering(sess[s], terms, n)
    BY <2>1 DEF WordInv
  <2>3. WordSight(sess'[s], terms)
    BY <1>1, <2>2 DEF WordSight
  <2> QED BY <2>2, <2>3
<1> QED BY <1>2, <1>3, WordsStay

\* Who holds the glossary while it is not in doubt is alone
LEMMA AloneThere ==
    ASSUME HoldInv, NEW s \in Slots, "glossary" \notin doubt, "glossary" \in sess[s].holds
    PROVE  \A o \in Others(s) : "glossary" \notin sess[o].holds
<1>1. "glossary" \in Shared
  BY DEF Shared
<1>2. "glossary" \in sess[s].clean
  BY <1>1 DEF HoldInv
<1> QED BY <1>2 DEF HoldInv

\* What a session has written is committed: its words, and no others
LEMMA CommitWords ==
    ASSUME Types, HoldInv, WordInv, NEW s \in Slots, NEW keep, Commits(s, keep),
           "glossary" \notin keep, sess[s].at \notin Unscanned \cup {"flush"},
           sess'[s].at # "flush",
           "glossary" \in sess'[s].owes =>
              "glossary" \in sess[s].owes /\ sess'[s].kind = sess[s].kind
    PROVE  WordInv'
<1> DEFINE q == sess[s]
           p == sess'[s]
           V == View(q, terms)
<1>1. /\ \A o \in Others(s) : Same(sess'[o], sess[o]) /\ sess'[o].holds = sess[o].holds
      /\ p.tx = NoTx /\ terms' = SeenTerms(s) /\ rules' = rules \cup q.tx.rules
      /\ "glossary" \notin p.holds
      /\ "glossary" \in doubt => "glossary" \in doubt'
  BY DEF Commits, Disturbed
<1>2. SameWords(V, terms')
  BY <1>1, SeenView, WordsSame
<1>3. \A i \in Ids : DOMAIN p.tx.terms[i] \cap Words = {}
  BY <1>1, BlankRows
<1>4. WordDuty(p)
  <2>1. WordDuty(q)
    BY DEF WordInv
  <2> QED BY <1>1, <1>3, <2>1 DEF WordDuty
<1>5. \A o \in Others(s) : WordDuty(sess'[o])
  <2>1. \A o \in Others(s) : WordDuty(sess[o])
    BY DEF WordInv, Others
  <2> QED BY <1>1, <2>1, WordsOthers
<1>6. ASSUME "glossary" \notin doubt'
      PROVE  /\ Unique(terms')
             /\ \A o \in Slots : WordSight(sess'[o], terms')
             /\ \A n \in Sources :
                   OwnRules(n) \cap rules' # {} =>
                      Covers(terms', n) \/ \E o \in Slots : Covering(sess'[o], terms', n)
             /\ \A n \in Sources : \A o \in Slots :
                   OwnRules(n) \cap sess'[o].tx.rules # {} => Covering(sess'[o], terms', n)
  <2>1. "glossary" \notin doubt
    BY <1>1, <1>6
  <2>2. /\ Unique(terms) /\ \A o \in Slots : WordSight(sess[o], terms)
        /\ \A n \in Sources :
              OwnRules(n) \cap rules # {} =>
                 Covers(terms, n) \/ \E o \in Slots : Covering(sess[o], terms, n)
        /\ \A n \in Sources : \A o \in Slots :
              OwnRules(n) \cap sess[o].tx.rules # {} => Covering(sess[o], terms, n)
    BY <2>1 DEF WordInv
  <2>3. Unique(V) /\ MoreWords(terms, V)
    BY <2>2 DEF WordSight
  <2>4. Unique(terms') /\ \A n : Covers(V, n) => Covers(terms', n)
    BY <1>2, <2>3, WordsSame
  <2>5. \A n : Covers(terms, n) => Covers(terms', n)
    BY <2>3, <2>4, WordsMore
  <2>6. \A n : Covering(q, terms, n) => Covers(terms', n)
    BY <2>4 DEF Covering
  <2>7. WordSight(p, terms')
    <3>1. SameWords(terms', View(p, terms'))
      BY <1>3, ViewNothing
    <3> QED BY <2>4, <3>1, WordsSame DEF WordSight
  <2>8. ASSUME NEW o \in Others(s)
        PROVE  /\ WordSight(sess'[o], terms')
               /\ \A n : Covering(sess[o], terms, n) => Covering(sess'[o], terms', n)
    <3>1. o \in Slots /\ WordSight(sess[o], terms) /\ WordDuty(sess[o])
      BY <2>2 DEF Others, WordInv
    <3>2. WordSight(sess[o], terms')
          /\ \A n : Covering(sess[o], terms, n) => Covering(sess[o], terms', n)
      <4>1. CASE "glossary" \in q.holds
        <5>1. "glossary" \notin sess[o].holds
          BY <2>1, <4>1, AloneThere
        <5>2. \A i \in Ids : DOMAIN sess[o].tx.terms[i] \cap Words = {}
          BY <3>1, <5>1 DEF WordDuty
        <5>3. SameWords(terms', View(sess[o], terms'))
          BY <5>2, ViewNothing
        <5>4. WordSight(sess[o], terms')
          BY <2>4, <5>1, <5>3, WordsSame DEF WordSight
        <5>5. \A n : Covering(sess[o], terms, n) => Covering(sess[o], terms', n)
          BY <5>1 DEF Covering
        <5> QED BY <5>4, <5>5
      <4>2. CASE "glossary" \notin q.holds
        <5>1. \A i \in Ids : DOMAIN q.tx.terms[i] \cap Words = {}
          BY <4>2 DEF WordInv, WordDuty
        <5>2. SameWords(terms, V)
          BY <5>1, ViewNothing
        <5>3. SameWords(terms, terms')
          BY <1>2, <5>2, WordsTwice
        <5> QED BY <3>1, <5>3, SightSame
      <4> QED BY <4>1, <4>2
    <3>3. Same(sess'[o], sess[o]) /\ sess'[o].holds = sess[o].holds
      BY <1>1
    <3> QED BY <3>2, <3>3, WordsOthers
  <2>9. \A o \in Slots : WordSight(sess'[o], terms')
    BY <2>7, <2>8 DEF Others
  <2>10. ASSUME NEW n \in Sources, OwnRules(n) \cap rules' # {}
         PROVE  Covers(terms', n) \/ \E o \in Slots : Covering(sess'[o], terms', n)
    <3>1. CASE OwnRules(n) \cap q.tx.rules # {}
      BY <2>2, <2>6, <3>1
    <3>2. CASE OwnRules(n) \cap q.tx.rules = {}
      <4>1. OwnRules(n) \cap rules # {}
        BY <1>1, <2>10, <3>2
      <4>2. CASE Covers(terms, n)
        BY <2>5, <4>2
      <4>3. CASE \E o \in Slots : Covering(sess[o], terms, n)
        <5>1. PICK o \in Slots : Covering(sess[o], terms, n)
          BY <4>3
        <5>2. CASE o = s
          BY <2>6, <5>1, <5>2
        <5>3. CASE o # s
          BY <2>8, <5>1, <5>3 DEF Others
        <5> QED BY <5>2, <5>3
      <4> QED BY <2>2, <4>1, <4>2, <4>3
    <3> QED BY <3>1, <3>2
  <2>11. ASSUME NEW n \in Sources, NEW o \in Slots, OwnRules(n) \cap sess'[o].tx.rules # {}
         PROVE  Covering(sess'[o], terms', n)
    <3>1. o # s
      <4>1. NoTx.rules = {}
        BY NoTxIsTx
      <4> QED BY <1>1, <2>11, <4>1
    <3>2. o \in Others(s)
      BY <3>1 DEF Others
    <3>3. sess'[o].tx = sess[o].tx
      BY <1>1, <3>2 DEF Same
    <3> QED BY <2>2, <2>8, <2>11, <3>2, <3>3
  <2> QED BY <2>4, <2>9, <2>10, <2>11
<1> QED BY <1>4, <1>5, <1>6 DEF WordInv, Others

\* A scan is read: it would leave one row for each group, and lists its terms
LEMMA ScanReadWords ==
    ASSUME Types, WordInv, NEW s \in Slots, ScanRead(s)
    PROVE  WordInv'
<1> DEFINE q == sess[s]
           p == sess'[s]
           scan == Head(q.todo)
           V == View(q, terms)
<1>1. /\ Disturbed(s, {"glossary"}) /\ q.at = "scan" /\ p.at = "flush"
      /\ q.kind \in ScanKinds /\ p.kind = q.kind /\ p.mem = SeenTerms(s)
      /\ scan \in Scan /\ p.todo = Tail(q.todo)
      /\ p.out \in Scans(SeenTerms(s), scan[2], scan[1], FreeIds \ Exists(SeenTerms(s)))
      /\ p.owes = q.owes /\ p.tx = q.tx
      /\ p.holds = q.holds \cup {"glossary"}
      /\ doubt \subseteq doubt' /\ rules' = rules /\ terms' = terms
  BY ScanReadEffect DEF SameConflicts
<1>2. scan[1] \in Names /\ scan[2] \in Seq(Terms)
  BY <1>1 DEF Scan, Texts
<1>3. SeenTerms(s) \in [Ids -> Row] /\ SameWords(SeenTerms(s), V) /\ SameWords(V, SeenTerms(s))
  BY Sees, SeenView, WordsSame
<1>4. FreeIds \ Exists(SeenTerms(s)) \in SUBSET Ids
  BY DEF FreeIds
<1>5. Written(p.mem, p.out, scan[2], Len(scan[2]), scan[1])
  BY <1>1, <1>2, <1>3, <1>4, ScansWrite
<1>6. View(p, terms) = V
  BY <1>1 DEF View
<1> HIDE DEF V, p, q
<1>7. WordDuty(p)
  <2>1. WordDuty(q)
    BY DEF WordInv, q
  <2>2. MoreWords(p.mem, p.out) /\ "glossary" \in p.holds
    BY <1>1, <1>5 DEF Written
  <2> QED BY <1>1, <2>1, <2>2 DEF WordDuty
<1>8. ASSUME "glossary" \notin doubt' PROVE WordSight(p, terms)
  <2>1. WordSight(q, terms)
    BY <1>1, <1>8 DEF WordInv, q
  <2>2. Unique(V) /\ MoreWords(terms, V)
    BY <2>1 DEF WordSight, V
  <2>3. SameWords(V, p.mem) /\ Unique(p.mem)
    BY <1>1, <1>3, <2>2, WordsSame
  <2>4. Unique(p.out)
    BY <1>5, <2>3 DEF Written
  <2> QED BY <1>6, <2>2, <2>3, <2>4 DEF WordSight
<1>9. ASSUME NEW n \in Sources, Covering(q, terms, n) PROVE Covering(p, terms, n)
  <2>1. q.todo = << <<n, Code[n]>> >> /\ "glossary" \in q.owes
    BY <1>1, <1>9 DEF Covering, Unscanned
  <2>2. scan = <<n, Code[n]>> /\ p.todo = <<>>
    BY <1>1, <2>1
  <2>3. \A k \in 1..Len(Code[n]) : Listed(p.out, Code[n][k], n)
    BY <1>5, <2>2 DEF Written
  <2>4. Code[n] \in Seq(Terms)
    BY <1>2, <2>2
  <2>5. Covers(p.out, n)
    BY <2>3, <2>4 DEF Covers
  <2> QED BY <1>1, <2>1, <2>2, <2>5 DEF Covering, Unscanned
<1>10. ASSUME "glossary" \notin doubt', NEW n \in Sources, OwnRules(n) \cap p.tx.rules # {}
       PROVE  Covering(p, terms, n)
  <2>1. Covering(q, terms, n)
    BY <1>1, <1>10 DEF WordInv, q
  <2> QED BY <1>9, <2>1
<1> QED BY <1>1, <1>7, <1>8, <1>9, <1>10, WordsStay DEF p, q

\* The ids of rows are not the name of the table
LEMMA NotARow == "glossary" \notin Ids /\ "glossary" \notin Modules
BY ThingsAssumption

\* A session writes its rows: what it sees are the words it has in memory
LEMMA FlushWords ==
    ASSUME Types, WordInv, NEW s \in Slots, FlushTerms(s)
    PROVE  WordInv'
<1> DEFINE q == sess[s]
           p == sess'[s]
           F == Undefined(q)
<1>1. /\ Types' /\ Disturbed(s, F) /\ q.at = "flush" /\ p.kind = q.kind
      /\ p.at \in {"infer", "passes done", "scan", "end"} /\ p.todo = q.todo
      /\ p.tx.terms = Merged(q) /\ p.tx.rules = q.tx.rules /\ p.owes = q.owes
      /\ p.holds = q.holds \cup F
      /\ doubt \subseteq doubt' /\ rules' = rules /\ terms' = terms
  BY FlushEffect DEF SameConflicts
<1>2. "glossary" \in p.holds <=> "glossary" \in q.holds
  <2>1. F \subseteq Ids
    BY DEF Undefined, Newborn, Dirty
  <2> QED BY <1>1, <2>1, NotARow
<1>3. q \in Session /\ WordDuty(q)
  BY Holdings DEF WordInv
<1>4. p.todo # <<>> \/ p.at # "scan"
  BY <1>1 DEF Types, Ready
<1> HIDE DEF p, q, F
<1>5. \A i \in Ids : \A c \in Words : c \in Columns
  BY DEF Words, Columns
<1>6. ASSUME NEW i \in Ids, NEW c \in Words
      PROVE  /\ c \in DOMAIN p.tx.terms[i] <=>
                   q.out[i][c] # q.mem[i][c] \/ c \in DOMAIN q.tx.terms[i]
             /\ View(p, terms)[i][c] = IF q.out[i][c] # q.mem[i][c] THEN q.out[i][c]
                                       ELSE View(q, terms)[i][c]
  <2>1. c \in Columns
    BY <1>5
  <2>2. /\ c \in DOMAIN Merged(q)[i] <=>
              q.out[i][c] # q.mem[i][c] \/ c \in DOMAIN q.tx.terms[i]
        /\ Shown(Merged(q)[i], terms[i], c) = IF q.out[i][c] # q.mem[i][c] THEN q.out[i][c]
                                              ELSE Shown(q.tx.terms[i], terms[i], c)
    BY <1>3, <2>1, MergedRow
  <2>3. /\ View(p, terms)[i][c] = Shown(p.tx.terms[i], terms[i], c)
        /\ View(q, terms)[i][c] = Shown(q.tx.terms[i], terms[i], c)
    BY DEF View
  <2> QED BY <1>1, <2>2, <2>3
<1>7. WordDuty(p)
  <2>1. ASSUME "glossary" \notin p.holds, NEW i \in Ids, NEW c \in Words
        PROVE  c \notin DOMAIN p.tx.terms[i]
    <3>1. q.mem[i][c] = q.out[i][c] /\ c \notin DOMAIN q.tx.terms[i]
      BY <1>1, <1>2, <1>3, <2>1 DEF WordDuty, SameWords
    <3> QED BY <1>6, <3>1
  <2> QED BY <1>1, <1>3, <2>1 DEF WordDuty
<1>8. ASSUME "glossary" \notin doubt'
      PROVE  /\ WordSight(p, terms)
             /\ "glossary" \in q.holds => SameWords(q.out, View(p, terms))
  <2>1. WordSight(q, terms)
    BY <1>1, <1>8 DEF WordInv, q
  <2>2. CASE "glossary" \notin q.holds
    <3>1. \A i \in Ids : \A c \in Words : q.mem[i][c] = q.out[i][c]
      BY <1>1, <1>3, <2>2 DEF WordDuty, SameWords
    <3>2. SameWords(View(q, terms), View(p, terms))
      BY <1>6, <3>1 DEF SameWords
    <3>3. Unique(View(p, terms))
      BY <2>1, <3>2, WordsSame DEF WordSight
    <3>4. MoreWords(terms, View(p, terms))
      BY <2>1, <3>2 DEF WordSight, MoreWords, SameWords
    <3> QED BY <1>1, <2>2, <3>3, <3>4 DEF WordSight
  <2>3. CASE "glossary" \in q.holds
    <3>1. SameWords(View(q, terms), q.mem) /\ Unique(q.out)
          /\ MoreWords(terms, View(q, terms))
      BY <1>1, <2>1, <2>3 DEF WordSight
    <3>2. SameWords(q.out, View(p, terms))
      <4> SUFFICES ASSUME NEW i \in Ids, NEW c \in Words
                   PROVE  q.out[i][c] = View(p, terms)[i][c]
        BY DEF SameWords
      <4>1. View(q, terms)[i][c] = q.mem[i][c]
        BY <3>1 DEF SameWords
      <4> QED BY <1>6, <4>1
    <3>3. Unique(View(p, terms))
      BY <3>1, <3>2, WordsSame
    <3>4. MoreWords(q.mem, q.out)
      BY <1>1, <1>3 DEF WordDuty
    <3>5. MoreWords(terms, View(p, terms))
      <4> SUFFICES ASSUME NEW i \in Ids, NEW c \in Words
                   PROVE  terms[i][c] \subseteq View(p, terms)[i][c]
        BY DEF MoreWords
      <4>1. /\ terms[i][c] \subseteq View(q, terms)[i][c] /\ q.mem[i][c] \subseteq q.out[i][c]
            /\ View(q, terms)[i][c] = q.mem[i][c] /\ q.out[i][c] = View(p, terms)[i][c]
        BY <3>1, <3>2, <3>4 DEF MoreWords, SameWords
      <4> QED BY <4>1
    <3> QED BY <1>1, <3>2, <3>3, <3>5 DEF WordSight
  <2> QED BY <2>2, <2>3
<1>9. ASSUME "glossary" \notin doubt', NEW n \in Sources, Covering(q, terms, n)
      PROVE  Covering(p, terms, n)
  <2>1. /\ "glossary" \in q.owes /\ q.todo = <<>> /\ "glossary" \in q.holds
        /\ Covers(q.out, n)
    BY <1>1, <1>9 DEF Covering, Unscanned
  <2>2. Covers(View(p, terms), n)
    BY <1>8, <1>9, <2>1, WordsSame
  <2>3. p.at \notin Unscanned \cup {"flush"}
    BY <1>1, <1>4, <2>1 DEF Unscanned
  <2> QED BY <1>1, <1>2, <2>1, <2>2, <2>3 DEF Covering
<1>10. ASSUME "glossary" \notin doubt', NEW n \in Sources, OwnRules(n) \cap p.tx.rules # {}
       PROVE  Covering(p, terms, n)
  <2>1. Covering(q, terms, n)
    BY <1>1, <1>10 DEF WordInv, q
  <2> QED BY <1>9, <1>10, <2>1
<1> QED BY <1>1, <1>7, <1>8, <1>9, <1>10, WordsStay DEF p, q

\* A session writes a definition, and no words
LEMMA DefineWords ==
    ASSUME Types, WordInv, NEW s \in Slots, NEW text \in Ai, Define(s, text)
    PROVE  WordInv'
<1> DEFINE q == sess[s]
           p == sess'[s]
           r == q.row
           f == Changed(q.mem[r], Drafted(q, text))
<1>1. /\ Disturbed(s, {}) /\ q.at = "define" /\ p.kind = q.kind /\ r \in Ids
      /\ p.at \in {"infer", "passes done", "scan", "end"}
      /\ p.tx.terms = [q.tx.terms EXCEPT ![r] = Over(f, q.tx.terms[r])]
      /\ p.tx.rules = q.tx.rules /\ p.owes = q.owes /\ p.holds = q.holds
      /\ doubt' = doubt /\ rules' = rules /\ terms' = terms
  BY DefineEffect DEF SameConflicts, SameHolds
<1>2. q \in Session /\ q.tx \in Tx /\ WordDuty(q)
  BY Holdings DEF WordInv
<1>3. q.tx.terms \in [Ids -> Parts(Row)] /\ q.mem[r] \in Row
  BY <1>1, <1>2, TxIs DEF Session
<1>4. "glossary" \notin q.holds /\ \A i \in Ids : DOMAIN q.tx.terms[i] \cap Words = {}
  BY <1>1, <1>2 DEF WordDuty
<1>5. DOMAIN f \cap Words = {}
  <2>1. /\ Drafted(q, text)["variants"] = q.mem[r]["variants"]
        /\ Drafted(q, text)["services"] = q.mem[r]["services"]
    BY <1>3 DEF Drafted, WithDraft, Row
  <2>2. Drafted(q, text) \in Row
    BY <1>3, DraftIsRow DEF Drafted
  <2>3. \A c \in Columns : c \in DOMAIN f <=> Drafted(q, text)[c] # q.mem[r][c]
    BY <1>3, <2>2, ChangedRow
  <2> HIDE DEF f
  <2> QED BY <2>1, <2>3 DEF Words, Columns
<1>6. DOMAIN Over(f, q.tx.terms[r]) = DOMAIN f \cup DOMAIN q.tx.terms[r]
  BY DEF Over
<1> HIDE DEF f, q, p
<1>7. \A i \in Ids : DOMAIN p.tx.terms[i] \cap Words = {}
  BY <1>1, <1>3, <1>4, <1>5, <1>6
<1>8. WordDuty(p)
  BY <1>1, <1>2, <1>7 DEF WordDuty
<1>9. ASSUME "glossary" \notin doubt' PROVE WordSight(p, terms)
  <2>1. SameWords(terms, View(p, terms))
    BY <1>7, ViewNothing
  <2>2. Unique(terms)
    BY <1>1, <1>9 DEF WordInv
  <2> QED BY <1>1, <2>1, <2>2, WordsSame DEF WordSight
<1>10. \A n \in Sources : ~ Covering(q, terms, n)
  BY <1>1, <1>4 DEF Covering, Unscanned
<1>11. ASSUME "glossary" \notin doubt', NEW n \in Sources PROVE OwnRules(n) \cap p.tx.rules = {}
  <2>1. OwnRules(n) \cap q.tx.rules # {} => Covering(q, terms, n)
    BY <1>1, <1>11 DEF WordInv, q
  <2> QED BY <1>1, <1>10, <2>1
<1> QED BY <1>1, <1>8, <1>9, <1>10, <1>11, WordsStay DEF p, q

\* A session is lost, and what it owes the glossary leaves it in doubt
LEMMA LoseWords ==
    ASSUME WordInv, NEW s \in Slots, NEW X, Disturbed(s, X), terms' = terms, rules' = rules,
           doubt' = doubt \cup sess[s].owes, Same(sess'[s], NoSession),
           SameHolds(sess'[s], NoSession)
    PROVE  WordInv'
<1> DEFINE q == sess[s]
           p == sess'[s]
<1>1. /\ p.tx = NoTx /\ p.at = "idle" /\ p.owes = {} /\ p.holds = {}
  BY NoSessionIsSession DEF Same, Goes, SameHolds
<1>2. \A i \in Ids : DOMAIN p.tx.terms[i] \cap Words = {}
  BY <1>1, BlankRows
<1>3. WordDuty(p)
  BY <1>1, <1>2 DEF WordDuty
<1>4. ASSUME "glossary" \notin doubt' PROVE WordSight(p, terms)
  <2>1. SameWords(terms, View(p, terms)) /\ Unique(terms)
    BY <1>2, <1>4, ViewNothing DEF WordInv
  <2> QED BY <1>1, <2>1, WordsSame DEF WordSight
<1>5. "glossary" \notin doubt' => \A n \in Sources : ~ Covering(q, terms, n)
  BY DEF Covering
<1>6. \A n \in Sources : OwnRules(n) \cap p.tx.rules = {}
  BY <1>1, NoTxIsTx
<1> QED BY <1>3, <1>4, <1>5, <1>6, WordsStay

\* A session opens that does nothing about the glossary, or owes it what it brings
LEMMA OpensWords ==
    ASSUME WordInv, NEW s \in Slots, NEW X, Began(s, X), "glossary" \notin X,
           "glossary" \in sess'[s].owes => sess'[s].kind \in {"batch", "upload"},
           sess'[s].at = "flush" => SameWords(sess'[s].mem, sess'[s].out),
           \A n \in Sources :
              OwnRules(n) \cap (rules' \cup sess'[s].tx.rules) # {} =>
                 \/ OwnRules(n) \cap rules # {} /\ OwnRules(n) \cap sess'[s].tx.rules = {}
                 \/ Covering(sess'[s], terms, n)
    PROVE  WordInv'
<1> DEFINE q == sess[s]
           p == sess'[s]
<1>1. /\ Disturbed(s, X) /\ p.tx.terms = NoTx.terms /\ p.holds = X
      /\ doubt \subseteq doubt' /\ terms' = terms /\ q.owes = {}
  BY NoSessionIsSession DEF Began
<1>2. \A i \in Ids : DOMAIN p.tx.terms[i] \cap Words = {}
  BY <1>1, BlankRows
<1>3. WordDuty(p)
  BY <1>1, <1>2, WordsSame DEF WordDuty
<1>4. ASSUME "glossary" \notin doubt' PROVE WordSight(p, terms)
  <2>1. SameWords(terms, View(p, terms))
    BY <1>2, ViewNothing
  <2>2. Unique(terms)
    BY <1>1, <1>4 DEF WordInv
  <2> QED BY <1>1, <2>1, <2>2, WordsSame DEF WordSight
<1>5. \A n \in Sources : ~ Covering(q, terms, n)
  BY <1>1 DEF Covering
<1>6. ASSUME NEW n \in Sources
      PROVE  /\ OwnRules(n) \cap p.tx.rules # {} => Covering(p, terms, n)
             /\ OwnRules(n) \cap rules' # {} =>
                   OwnRules(n) \cap rules # {} \/ Covering(p, terms, n)
  OBVIOUS
<1> QED BY <1>1, <1>3, <1>4, <1>5, <1>6, WordsStay

\* What a request writes of a row are no words
LEMMA RequestedWords ==
    ASSUME Types, NEW i \in Ids
    PROVE  /\ \A text \in Hand : SameWords(terms, Edited(i, text))
           /\ SameWords(terms, Accepted(i))
           /\ \A d \in {"approved", "rejected"} : SameWords(terms, Judged(i, d))
<1>1. \A j \in Ids : terms[j] \in Row
  BY DEF Types, TablesTyped
<1>2. terms = [j \in Ids |-> terms[j]]
  BY DEF Types, TablesTyped
<1>3. \A text \in Hand : SameWords(terms, Edited(i, text))
  BY <1>1, <1>2 DEF SameWords, Words, Edited, Row
<1>4. SameWords(terms, Accepted(i))
  BY <1>1, <1>2 DEF SameWords, Words, Accepted, Row
<1>5. \A d \in {"approved", "rejected"} : SameWords(terms, Judged(i, d))
  BY <1>1, <1>2 DEF SameWords, Words, Judged, Row
<1> QED BY <1>3, <1>4, <1>5

\* A request that brings no rules opens
LEMMA OpensNoRules ==
    ASSUME WordInv, NEW s \in Slots, NEW X, Began(s, X), "glossary" \notin X,
           "glossary" \notin sess'[s].owes, sess'[s].tx = NoTx, rules' = rules,
           sess'[s].at = "flush" => SameWords(sess'[s].mem, sess'[s].out)
    PROVE  WordInv'
<1>1. sess'[s].tx.rules = {}
  BY NoTxIsTx
<1> QED BY <1>1, OpensWords

\* Rules that n brings are no other source's own
LEMMA BroughtByOne ==
    ASSUME NEW n \in Sources, NEW k \in Sources, k # n
    PROVE  OwnRules(k) \cap Brings[n] = {}
BY DEF OwnRules

\* A source arrives, and owes its terms
LEMMA ArrivalWords ==
    ASSUME WordInv, NEW s \in Slots, NEW n \in Sources, Began(s, {}),
           "glossary" \in sess'[s].owes, sess'[s].kind \in {"batch", "upload"},
           sess'[s].at = "detect", sess'[s].todo = << <<n, Code[n]>> >>,
           rules' \subseteq rules \cup Brings[n], sess'[s].tx.rules \subseteq Brings[n]
    PROVE  WordInv'
<1>1. Covering(sess'[s], terms, n)
  BY DEF Covering, Unscanned
<1>2. ASSUME NEW k \in Sources, OwnRules(k) \cap (rules' \cup sess'[s].tx.rules) # {}, k # n
      PROVE  OwnRules(k) \cap rules # {} /\ OwnRules(k) \cap sess'[s].tx.rules = {}
  <2>1. OwnRules(k) \cap Brings[n] = {}
    BY <1>2, BroughtByOne
  <2> QED BY <1>2, <2>1
<1> QED BY <1>1, <1>2, OpensWords

\* Every step leaves one row for each group and the terms that are owed
LEMMA StepWords == Types /\ HoldInv /\ WordInv /\ [Next]_vars => WordInv'
<1> SUFFICES ASSUME Types, HoldInv, WordInv, [Next]_vars PROVE WordInv'
  OBVIOUS
<1>1. CASE UNCHANGED vars
  <2>1. terms' = terms /\ sess' = sess /\ rules' = rules /\ doubt' = doubt
    BY <1>1 DEF vars
  <2> QED BY <2>1 DEF WordInv
<1>2. ASSUME NEW s \in Slots, Step(s) PROVE WordInv'
  <2>0. \A n \in Sources : sess[s].at \in {"define", "passes done"} /\ Covering(sess[s], terms, n)
                              => sess[s].at = "passes done" /\ "glossary" \in sess[s].holds
    BY DEF WordInv, WordDuty, Covering, Unscanned
  <2>1. CASE DetectRead(s)
    <3>1. /\ Disturbed(s, {"conflicts"}) /\ sess[s].at = "detect" /\ sess'[s].at = "replace"
          /\ sess'[s].kind = sess[s].kind /\ sess'[s].tx = sess[s].tx
          /\ sess'[s].owes = sess[s].owes /\ sess'[s].todo = sess[s].todo
          /\ SameRows(sess'[s], sess[s]) /\ sess'[s].holds = sess[s].holds \cup {"conflicts"}
          /\ doubt \subseteq doubt' /\ terms' = terms /\ rules' = rules
      BY <2>1, DetectReadEffect
    <3>2. \A n : Covering(sess[s], terms, n) => Covering(sess'[s], terms, n)
      BY <3>1, CoverPass DEF Unscanned
    <3> QED BY <3>1, <3>2, WordsAside
  <2>2. CASE ReplaceConflicts(s) \/ ReplaceAfterWait(s)
    <3>1. /\ Disturbed(s, {}) /\ sess[s].at \in {"replace", "blocked"}
          /\ sess'[s].at \in {"end", "scan"} /\ (sess'[s].at = "end" => sess[s].kind = "migrate")
          /\ sess'[s].kind = sess[s].kind /\ sess'[s].tx.rules = sess[s].tx.rules
          /\ sess'[s].owes = sess[s].owes /\ sess'[s].todo = sess[s].todo
          /\ SameRows(sess'[s], sess[s]) /\ sess'[s].holds = sess[s].holds
          /\ doubt' = doubt /\ terms' = terms /\ rules' = rules
      BY <2>2, ReplaceEffect DEF SameHolds
    <3>2. WordDuty(sess[s])
      BY DEF WordInv
    <3>3. \A n : Covering(sess[s], terms, n) => Covering(sess'[s], terms, n)
      <4>1. CASE sess'[s].at = "end"
        BY <3>1, <3>2, <4>1 DEF WordDuty, Covering
      <4>2. CASE sess'[s].at = "scan"
        BY <3>1, <4>2, CoverPass DEF Unscanned
      <4> QED BY <3>1, <4>1, <4>2
    <3> QED BY <3>1, <3>3, WordsAside
  <2>3. CASE WaitToReplace(s)
    <3>1. /\ Disturbed(s, {}) /\ sess[s].at = "replace" /\ sess'[s].at = "blocked"
          /\ sess'[s].kind = sess[s].kind /\ sess'[s].tx = sess[s].tx
          /\ sess'[s].owes = sess[s].owes /\ sess'[s].todo = sess[s].todo
          /\ SameRows(sess'[s], sess[s]) /\ sess'[s].holds = sess[s].holds
          /\ doubt' = doubt /\ terms' = terms /\ rules' = rules
      BY <2>3, WaitEffect DEF SameHolds
    <3>2. \A n : Covering(sess[s], terms, n) => Covering(sess'[s], terms, n)
      BY <3>1, CoverPass DEF Unscanned
    <3> QED BY <3>1, <3>2, WordsAside
  <2>4. CASE ScanRead(s)
    BY <2>4, ScanReadWords
  <2>5. CASE FlushTerms(s)
    BY <2>5, FlushWords
  <2>6. CASE InferFirst(s)
    <3>1. PICK i \in FirstOf(sess[s].fresh) :
            \/ /\ sess' = [sess EXCEPT ![s] = ToDefine(sess[s], sess[s].fresh \ {i})]
               /\ UNCHANGED <<Tables, Counts, doubt>>
            \/ /\ Commit(s, [sess[s] EXCEPT !.row = i, !.fresh = @ \ {i}, !.at = "define"],
                         sess[s].fresh)
               /\ UNCHANGED Counts
      BY <2>6, InferCases
    <3>2. sess[s].at = "infer"
      BY <2>6, InferCases
    <3>3. CASE /\ sess' = [sess EXCEPT ![s] = ToDefine(sess[s], sess[s].fresh \ {i})]
               /\ UNCHANGED <<Tables, Counts, doubt>>
      <4>1. /\ Types' /\ Disturbed(s, {}) /\ sess'[s].kind = sess[s].kind
            /\ sess'[s].at \in {"infer", "passes done", "scan", "end"}
            /\ sess'[s].tx.rules = sess[s].tx.rules
            /\ sess'[s].owes = sess[s].owes /\ sess'[s].todo = sess[s].todo
            /\ SameRows(sess'[s], sess[s]) /\ sess'[s].holds = sess[s].holds
            /\ doubt' = doubt /\ terms' = terms /\ rules' = rules
        BY <3>2, <3>3, InferSkipEffect DEF SameHolds, SameConflicts
      <4>2. \A n : Covering(sess[s], terms, n) => Covering(sess'[s], terms, n)
        <5>1. CASE sess'[s].at = "scan"
          <6>1. sess[s].todo # <<>>
            BY <4>1, <5>1 DEF Types, Ready
          <6> QED BY <3>2, <6>1 DEF Covering
        <5>2. CASE sess'[s].at # "scan"
          BY <3>2, <4>1, <5>2, CoverPass DEF Unscanned
        <5> QED BY <5>1, <5>2
      <4> QED BY <4>1, <4>2, WordsAside
    <3>4. CASE /\ Commit(s, [sess[s] EXCEPT !.row = i, !.fresh = @ \ {i}, !.at = "define"],
                         sess[s].fresh)
               /\ UNCHANGED Counts
      <4>1. /\ Commits(s, sess[s].fresh) /\ sess'[s].kind = sess[s].kind
            /\ sess'[s].at = "define" /\ sess'[s].owes \subseteq sess[s].owes
        BY <3>2, <3>4, InferCommitEffect
      <4>2. sess[s].fresh \subseteq Ids
        <5>1. sess[s] \in Session
          BY Holdings
        <5> QED BY <5>1 DEF Session
      <4> QED BY <3>2, <4>1, <4>2, NotARow, CommitWords DEF Unscanned
    <3> QED BY <3>1, <3>3, <3>4
  <2>7. CASE \E text \in Ai : Define(s, text)
    BY <2>7, DefineWords
  <2>8. CASE DefineNothing(s)
    <3>1. /\ Disturbed(s, {}) /\ sess[s].at = "define" /\ sess'[s].kind = sess[s].kind
          /\ sess'[s].at \in {"infer", "passes done", "scan", "end"}
          /\ sess'[s].tx.rules = sess[s].tx.rules /\ sess'[s].owes = sess[s].owes
          /\ SameRows(sess'[s], sess[s]) /\ sess'[s].holds = sess[s].holds
          /\ doubt' = doubt /\ terms' = terms /\ rules' = rules
      BY <2>8, DefineNothingEffect DEF SameConflicts
    <3> QED BY <2>0, <3>1, WordsAside
  <2>9. CASE EndPasses(s)
    <3>0. sess[s].at = "passes done"
      BY <2>9, EndCases
    <3>1. CASE Commit(s, sess[s], {}) /\ UNCHANGED Counts
      <4>1. /\ Commits(s, {}) /\ sess'[s].kind = sess[s].kind
            /\ sess'[s].at = "passes done" /\ sess'[s].owes \subseteq sess[s].owes
        BY <3>0, <3>1, EndCommitEffect
      <4> QED BY <3>0, <4>1, CommitWords DEF Unscanned
    <3>2. CASE ~(Commit(s, sess[s], {}) /\ UNCHANGED Counts)
      <4>1. /\ Disturbed(s, Mine(sess[s])) /\ sess'[s].kind = sess[s].kind
            /\ sess'[s].at \in {"end", "wiki"}
            /\ sess'[s].tx.rules = sess[s].tx.rules /\ sess'[s].owes = sess[s].owes
            /\ SameRows(sess'[s], sess[s])
            /\ sess'[s].holds = sess[s].holds \cup Mine(sess[s])
            /\ doubt \subseteq doubt' /\ terms' = terms /\ rules' = rules
        <5>1. /\ Disturbed(s, Mine(sess[s])) /\ sess'[s].kind = sess[s].kind
              /\ sess'[s].at \in {"end", "wiki"}
              /\ SameConflicts(sess'[s], sess[s]) /\ SameRows(sess'[s], sess[s])
              /\ sess'[s].holds = sess[s].holds \cup Mine(sess[s])
              /\ doubt' = doubt \cup (Mine(sess[s]) \cap HeldByOthers(s))
              /\ terms' = terms /\ rules' = rules
          BY <2>9, <3>0, <3>2, EndCases, ReadRulesEffect
        <5> QED BY <5>1 DEF SameConflicts
      <4>2. sess[s].holds = {}
        BY <2>9, <3>2, EndCases
      <4>3. "glossary" \in sess'[s].holds <=> "glossary" \in sess[s].holds
        BY <4>1, NotARow DEF Mine
      <4> QED BY <2>0, <3>0, <4>1, <4>2, <4>3, WordsAside
    <3> QED BY <3>1, <3>2
  <2>10. CASE PageWritten(s) \/ PageSkipped(s) \/ UpsertPage(s)
    <3>1. /\ \E X : Disturbed(s, X)
          /\ sess[s].at \in {"wiki", "upsert"} /\ sess'[s].at \in {"wiki", "upsert", "end"}
          /\ sess'[s].kind = sess[s].kind
          /\ sess'[s].tx.rules = sess[s].tx.rules /\ sess'[s].owes = sess[s].owes
          /\ SameRows(sess'[s], sess[s]) /\ sess'[s].holds = sess[s].holds
          /\ doubt \subseteq doubt' /\ terms' = terms /\ rules' = rules
      BY <2>10, PageWrittenEffect, PageSkippedEffect, UpsertEffect DEF SameConflicts, SameHolds
    <3>2. \A n : Covering(sess[s], terms, n) => Covering(sess'[s], terms, n)
      BY <3>1, CoverPass DEF Unscanned
    <3> QED BY <3>1, <3>2, WordsAside
  <2>11. CASE DuplicatePage(s) \/ BreakDeadlock(s) \/ LoseSession(s)
    <3>1. /\ Disturbed(s, sess[s].owes) /\ Same(sess'[s], NoSession)
          /\ SameHolds(sess'[s], NoSession) /\ doubt' = doubt \cup sess[s].owes
          /\ terms' = terms /\ rules' = rules
      BY <2>11, LoseEffect
    <3> QED BY <3>1, LoseWords
  <2>12. CASE End(s)
    <3>1. /\ Commits(s, {}) /\ sess[s].at = "end" /\ sess'[s].at = "idle"
          /\ sess'[s].owes = {}
      BY <2>12, EndEffect, NoSessionIsSession DEF Same, Goes
    <3> QED BY <3>1, CommitWords DEF Unscanned
  <2> QED
    BY <1>2, <2>1, <2>2, <2>3, <2>4, <2>5, <2>6, <2>7, <2>8, <2>9, <2>10, <2>11, <2>12
    DEF Step
<1>3. ASSUME NEW s \in Slots, Request(s) PROVE WordInv'
  <2>1. CASE \E n \in Batches : FinishFiles(s, n)
    <3>1. PICK n \in Batches : FinishFiles(s, n)
      BY <2>1
    <3>2. /\ Began(s, {}) /\ sess'[s].kind = "batch" /\ sess'[s].at = "detect"
          /\ sess'[s].todo = << <<n, Code[n]>> >> /\ "glossary" \in sess'[s].owes
          /\ sess'[s].tx = NoTx /\ rules' = rules \cup Brings[n]
      BY <3>1, FinishFilesEffect
    <3>3. n \in Sources /\ sess'[s].tx.rules = {}
      BY <3>2, NoTxIsTx DEF Sources
    <3> QED BY <3>2, <3>3, ArrivalWords
  <2>2. CASE \E n \in Uploads : UploadFile(s, n)
    <3>1. PICK n \in Uploads : UploadFile(s, n)
      BY <2>2
    <3>2. /\ Began(s, {}) /\ sess'[s].kind = "upload" /\ sess'[s].at = "detect"
          /\ sess'[s].todo = << <<n, Code[n]>> >> /\ "glossary" \in sess'[s].owes
          /\ sess'[s].tx.rules \subseteq Brings[n] /\ rules' = rules
      BY <3>1, UploadFileEffect
    <3>3. n \in Sources
      BY DEF Sources
    <3> QED BY <3>2, <3>3, ArrivalWords
  <2>3. CASE Migrate(s) \/ Rescan(s)
    <3>1. /\ Began(s, {}) /\ sess'[s].at # "flush" /\ sess'[s].tx = NoTx
          /\ sess'[s].owes = {} /\ rules' = rules
      BY <2>3, MigrateEffect, RescanEffect
    <3> QED BY <3>1, OpensNoRules
  <2>4. CASE Regenerate(s)
    <3>1. /\ Began(s, Served) /\ sess'[s].at # "flush" /\ sess'[s].tx = NoTx
          /\ sess'[s].owes = {} /\ rules' = rules
      BY <2>4, RegenerateEffect
    <3>2. "glossary" \notin Served
      BY NotARow DEF Served
    <3> QED BY <3>1, <3>2, OpensNoRules
  <2>5. CASE \E i \in Ids : InferAgain(s, i)
    <3>1. PICK i \in Ids : InferAgain(s, i)
      BY <2>5
    <3>2. /\ Began(s, {i}) /\ sess'[s].at = "define" /\ sess'[s].tx = NoTx
          /\ sess'[s].owes = {} /\ rules' = rules
      BY <3>1, InferAgainEffect
    <3>3. "glossary" \notin {i}
      BY NotARow
    <3> QED BY <3>2, <3>3, OpensNoRules
  <2>6. CASE \E i \in Ids : AcceptDefinition(s, i)
    <3>1. PICK i \in Ids : AcceptDefinition(s, i)
      BY <2>6
    <3>2. /\ Began(s, {}) /\ sess'[s].tx = NoTx /\ sess'[s].owes = {} /\ rules' = rules
          /\ sess'[s].mem = terms /\ sess'[s].out = Accepted(i)
      BY <3>1, AcceptEffect
    <3>3. SameWords(terms, Accepted(i))
      BY RequestedWords
    <3> QED BY <3>2, <3>3, OpensNoRules
  <2>7. CASE \E i \in Ids, text \in Hand : EditDefinition(s, i, text)
    <3>1. PICK i \in Ids : \E text \in Hand : EditDefinition(s, i, text)
      BY <2>7
    <3>2. PICK text \in Hand : EditDefinition(s, i, text)
      BY <3>1
    <3>3. /\ Began(s, {i}) /\ sess'[s].tx = NoTx /\ sess'[s].owes = {} /\ rules' = rules
          /\ sess'[s].mem = terms /\ sess'[s].out = Edited(i, text)
      BY <3>2, EditEffect
    <3>4. SameWords(terms, Edited(i, text)) /\ "glossary" \notin {i}
      BY RequestedWords, NotARow
    <3> QED BY <3>3, <3>4, OpensNoRules
  <2>8. CASE \E i \in Ids, d \in {"approved", "rejected"} : JudgeSynonym(s, i, d)
    <3>1. PICK i \in Ids : \E d \in {"approved", "rejected"} : JudgeSynonym(s, i, d)
      BY <2>8
    <3>2. PICK d \in {"approved", "rejected"} : JudgeSynonym(s, i, d)
      BY <3>1
    <3>3. /\ Began(s, {}) /\ sess'[s].tx = NoTx /\ sess'[s].owes = {} /\ rules' = rules
          /\ sess'[s].mem = terms /\ sess'[s].out = Judged(i, d)
      BY <3>2, JudgeEffect
    <3>4. SameWords(terms, Judged(i, d))
      BY RequestedWords
    <3> QED BY <3>3, <3>4, OpensNoRules
  <2> QED
    BY <1>3, <2>1, <2>2, <2>3, <2>4, <2>5, <2>6, <2>7, <2>8 DEF Request
<1> QED BY <1>1, <1>2, <1>3 DEF Next

\* A first ingest of n, undisturbed, has listed the terms of n
LEMMA LaterWords ==
    ASSUME NEW n \in Batches, LaterInit(n)
    PROVE  Unique(terms) /\ Covers(terms, n)
<1> DEFINE empty == [i \in Ids |-> NoRow]
           new(row, text) == IF row = NoRow \/ text = None THEN row
                             ELSE [row EXCEPT !.text = text, !.label = "draft"]
<1>1. Code[n] \in Seq(Terms) /\ n \in Names
  BY NamesAssumption DEF Texts
<1>2. PICK rows \in Scans(empty, Code[n], n, Ids), text \in Ai \cup {None} :
          terms = [i \in Ids |-> new(rows[i], text)]
  BY DEF LaterInit
<1>3. empty \in [Ids -> Row] /\ \A i \in Ids : empty[i] = NoRow
  BY NoRowIsRow
<1> HIDE DEF empty
<1>4. Written(empty, rows, Code[n], Len(Code[n]), n) /\ rows \in [Ids -> Row]
  BY <1>1, <1>2, <1>3, ScansWrite, ScansExtend DEF Scanned
<1>5. Unique(empty)
  BY <1>3, NoRowIsRow DEF Unique
<1>6. Unique(rows) /\ Covers(rows, n)
  BY <1>1, <1>4, <1>5 DEF Written, Covers
<1>7. ASSUME NEW row \in Row
      PROVE  /\ new(row, text)["variants"] = row["variants"]
             /\ new(row, text)["services"] = row["services"]
  BY DEF Row
<1> HIDE DEF new
<1>8. SameWords(rows, terms)
  BY <1>2, <1>4, <1>7 DEF SameWords, Words
<1> QED BY <1>6, <1>8, WordsSame

\* The glossary has a row for each group to begin with
LEMMA InitWords == Init => WordInv
<1> SUFFICES ASSUME Init PROVE WordInv
  OBVIOUS
<1>1. \A s \in Slots : sess[s] = NoSession
  BY DEF Init, Quiet
<1>2. \A i \in Ids : DOMAIN NoSession.tx.terms[i] \cap Words = {}
  BY BlankRows
<1>3. WordDuty(NoSession)
  BY <1>2, NoSessionIsSession DEF WordDuty
<1>4. Unique(terms) /\ \A n \in Sources : OwnRules(n) \cap rules # {} => Covers(terms, n)
  <2>1. CASE EmptyInit
    <3>1. \A i \in Ids : terms[i]["variants"] = {}
      BY <2>1, NoRowIsRow DEF EmptyInit
    <3> QED BY <2>1, <3>1 DEF EmptyInit, Unique
  <2>2. CASE \E n \in Batches : LaterInit(n)
    <3>1. PICK n \in Batches : LaterInit(n)
      BY <2>2
    <3>2. Unique(terms) /\ Covers(terms, n) /\ rules = Brings[n]
      BY <3>1, LaterWords DEF LaterInit
    <3>3. n \in Sources
      BY DEF Sources
    <3> QED BY <3>2, <3>3, BroughtByOne
  <2> QED BY <2>1, <2>2 DEF Init
<1>5. WordSight(NoSession, terms)
  <2>1. SameWords(terms, View(NoSession, terms))
    BY <1>2, ViewNothing
  <2> QED BY <1>4, <2>1, NoSessionIsSession, WordsSame DEF WordSight
<1>6. NoSession.tx.rules = {}
  BY NoSessionIsSession, NoTxIsTx
<1> QED BY <1>1, <1>3, <1>4, <1>5, <1>6 DEF WordInv

\* With nothing in doubt and nothing owed the glossary is exact
LEMMA WordsExact ==
    ASSUME \A n \in Batches \cup Uploads : OwnRules(n) # {}, WordInv
    PROVE  GlossaryExact
<1> SUFFICES ASSUME "glossary" \notin doubt \cup Owed
             PROVE  /\ \A i, j \in Exists(terms) :
                          (\E v \in terms[i].variants, w \in terms[j].variants :
                              GroupOf[v] = GroupOf[w]) => i = j
                    /\ \A i \in Exists(terms) : \A v, w \in terms[i].variants :
                          GroupOf[v] = GroupOf[w]
                    /\ \A n \in Ingested : \A k \in DOMAIN Code[n] :
                          \E i \in Ids : /\ Code[n][k] \in terms[i].variants
                                         /\ n \in terms[i].services
  BY DEF GlossaryExact
<1>1. "glossary" \notin doubt /\ \A s \in Slots : "glossary" \notin sess[s].owes
  BY DEF Owed
<1>2. Unique(terms) /\ Exists(terms) \subseteq Ids
  BY <1>1 DEF WordInv, Exists
<1>3. ASSUME NEW n \in Ingested PROVE Covers(terms, n)
  <2>1. n \in Sources /\ Brings[n] \subseteq rules
    BY DEF Ingested, Sources
  <2>2. OwnRules(n) \cap rules # {}
    BY <2>1 DEF OwnRules, Sources
  <2>3. Covers(terms, n) \/ \E s \in Slots : Covering(sess[s], terms, n)
    BY <1>1, <2>1, <2>2 DEF WordInv
  <2> QED BY <1>1, <2>3 DEF Covering
<1> QED BY <1>2, <1>3 DEF Unique, Covers, Listed

(* The glossary has one row for each group of synonyms, and lists what was *)
(* found in the code of every source on record, however scans wait, commit *)
(* and are lost, and whoever edits or judges rows meanwhile: unless two of *)
(* them overlapped or one was lost.  A source is known to be on record by  *)
(* its rules, so each must have one of its own.                            *)
THEOREM GlossaryStaysExact ==
    ASSUME \A n \in Batches \cup Uploads : OwnRules(n) # {}
    PROVE  Spec => []GlossaryExact
<1>1. Init => WordInv
  BY InitWords
<1>2. Types /\ HoldInv /\ WordInv /\ [Next]_vars => WordInv'
  BY StepWords
<1>3. WordInv => GlossaryExact
  BY WordsExact
<1> QED BY <1>1, <1>2, <1>3, AlwaysHolds, PTL DEF Spec

=============================================================================
