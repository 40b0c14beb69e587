-------------------------- MODULE FrontDeskProofs ---------------------------
(* Proofs about AdminDesk, for any users, settings and number of requests,  *)
(* and about FrontDesk, from what is proved of each of its five parts.      *)
EXTENDS FrontDesk, LimiterChatProofs, ArchiveAudienceProofs

-----------------------------------------------------------------------------
(***************************************************************************)
(* AdminDesk                                                               *)
(***************************************************************************)

-----------------------------------------------------------------------------
(* The inductive invariant of the desk *)

DeskRequest ==
    [op : {"idle", "create", "update", "save"}, no : 0..MaxRequests,
     id : Ids \cup {Unset},
     want : [username : Usernames \cup {Unset}, role : Roles \cup {Unset}],
     seen : User \cup {Unset}, form : [Settable -> Values \cup {Unset}],
     by : Admins \cup {Unset}, looked : 0..Len(SettingKeys),
     read : [Settable -> Setting \cup {Unset}]]

DeskShape == desk \in [Desks -> DeskRequest]

\* What a request of each kind has
FilledIn(r) ==
    /\ r.op # "idle" => r.no \in 1..requests
    /\ r.op = "create" => r.id \in Ids /\ r.want \in User
    /\ r.op = "update" => r.id \in Ids /\ users[r.id] # Unset /\ r.seen \in User
    /\ r.op = "save" => r.by \in Admins
    /\ r.op # "save" => \A k \in Settable : r.form[k] = Unset

\* Entries are numbered by requests made; rows once read are still there
Numbered == /\ \A n \in 1..Len(trail) : trail[n].at <= requests
            /\ \A d \in Desks, k \in Settable :
                  desk[d].read[k] # Unset => settings[k] # Unset

(* Who is about to save a setting that is not crossed began after the      *)
(* latest entry about it, and what he has read of it is what is stored.    *)
ReadsCurrent(k) ==
    \A d \in Desks : desk[d].form[k] # Unset =>
      /\ \A n \in 1..Len(trail) : trail[n].sets[k] # Unset => trail[n].at < desk[d].no
      /\ k \in LookedUp(desk[d], desk[d].looked) => desk[d].read[k] = settings[k]

\* The places of the entries of T that tell of changes of i's role
Changes(T, i) == {n \in 1..Len(T) : T[n].what = "user.role_changed" /\ T[n].id = i}

(* T tells how i, created with role g, came to have this role; and in the  *)
(* page's order, each change from the role before, unless i is in X.       *)
Tells(T, i, role, g, X) ==
    /\ Changes(T, i) = {} => role = g
    /\ \A n \in Changes(T, i) :
         /\ Changes(T, i) \subseteq 1..n => T[n].role = role
         /\ Changes(T, i) \subseteq n..Len(T) => T[n].was = g
         /\ i \notin X => \A m \in Changes(T, i) : m < n =>
              /\ T[m].at < T[n].at
              /\ Changes(T, i) \cap (m + 1)..(n - 1) = {} => T[n].was = T[m].role

(* Who is about to update a user that is not crossed began after the       *)
(* latest change of the role and has read the role the user has.  What was *)
(* read before the first change is the role the user was created with.     *)
RoleCurrent(r) ==
    r.op = "update" =>
      /\ Changes(trail, r.id) = {} => r.seen.role = given[r.id]
      /\ r.id \notin crossed => /\ \A n \in Changes(trail, r.id) : trail[n].at < r.no
                               /\ r.seen.role = users[r.id].role

(* The role of every user is told; nothing is told of one not created yet, *)
(* whom one request at most is creating.                                   *)
RolesInv ==
    /\ \A i \in Ids : IF users[i] = Unset THEN Changes(trail, i) = {}
                      ELSE Tells(trail, i, users[i].role, given[i], crossed)
    /\ \A d \in Desks : RoleCurrent(desk[d])
    /\ \A d \in Desks : desk[d].op = "create" =>
         /\ users[desk[d].id] = Unset
         /\ \A x \in Desks \ {d} : desk[x].op = "create" => desk[x].id # desk[d].id

DeskTypes == DeskTypeOK /\ DeskShape /\ (\A d \in Desks : FilledIn(desk[d])) /\ Numbered

DeskInv == /\ DeskTypes /\ RolesInv /\ SettingsExplained
           /\ \A k \in Settable \ crossed : ReadsCurrent(k)

DeskEntry == [what : {"user.created", "user.role_changed", "admin.settings_changed"},
              at : 1..MaxRequests, id : Ids \cup {Unset},
              was : Roles \cup {Unset}, role : Roles \cup {Unset},
              sets : [Settable -> Values \cup {Unset}], by : Admins \cup {Unset}]

-----------------------------------------------------------------------------
(* Lemmas about requests *)

\* There is nothing to save in an idle request
LEMMA IdleRequest ==
    /\ Idle \in DeskRequest /\ Idle.op = "idle"
    /\ \A k \in Settable : Idle.form[k] = Unset /\ Idle.read[k] = Unset
<1>1. Len(SettingKeys) \in Nat
  BY DeskAssumption
<1> QED BY <1>1, DeskBounds DEF Idle, DeskRequest

\* What the invariant says of one request
LEMMA OneRequest ==
    ASSUME DeskTypes, NEW d \in Desks
    PROVE  /\ desk[d] \in DeskRequest /\ FilledIn(desk[d])
           /\ \A k \in Settable : desk[d].read[k] # Unset => settings[k] # Unset
BY DEF DeskTypes, DeskShape, Numbered

\* The entries of the trail
LEMMA Entries ==
    ASSUME DeskTypes
    PROVE  /\ trail \in Seq(DeskEntry) /\ Len(trail) \in Nat
           /\ \A n \in 1..Len(trail) : /\ trail[n] \in DeskEntry
                                       /\ trail[n].at \in Nat /\ trail[n].at <= requests
           /\ requests \in Nat /\ requests <= MaxRequests
<1>1. trail \in Seq(DeskEntry) /\ requests \in 0..MaxRequests
  BY DEF DeskTypes, DeskTypeOK, DeskEntry
<1>2. \A n \in 1..Len(trail) : trail[n] \in DeskEntry
  BY <1>1
<1>3. \A e \in DeskEntry : e.at \in Nat
  BY DEF DeskEntry
<1>4. \A n \in 1..Len(trail) : trail[n].at <= requests
  BY DEF DeskTypes, Numbered
<1> QED BY <1>1, <1>2, <1>3, <1>4, DeskBounds

\* What is looked up is what was asked to be saved
LEMMA LookedUpIsGiven ==
    ASSUME NEW r, NEW n, NEW k \in LookedUp(r, n)
    PROVE  k \in Settable /\ r.form[k] # Unset
BY DEF LookedUp, Given, Settable

\* When nothing is left to look up, everything was
LEMMA AllLookedUp ==
    ASSUME NEW r \in DeskRequest, Ahead(r) = {}, NEW k \in Settable, r.form[k] # Unset
    PROVE  k \in LookedUp(r, r.looked)
<1>1. PICK i \in DOMAIN SettingKeys : SettingKeys[i] = k
  BY DEF Settable
<1>2. i \in Given(r) /\ i \in Nat /\ r.looked \in Nat
  BY <1>1, DeskAssumption DEF Given, DeskRequest
<1>3. i <= r.looked
  BY <1>2 DEF Ahead
<1> QED BY <1>1, <1>2, <1>3 DEF LookedUp

-----------------------------------------------------------------------------
(* DeskInv is inductive *)

\* At the beginning there is nothing to explain
LEMMA DeskInitInv == DeskInit => DeskInv
<1> SUFFICES ASSUME DeskInit PROVE DeskInv
  OBVIOUS
<1>1. \A d \in Desks : desk[d] = Idle
  BY DEF DeskInit
<1>2. DeskShape
  BY IdleRequest DEF DeskInit, DeskShape
<1>3. trail = <<>> /\ Len(trail) = 0 /\ trail \in Seq(DeskEntry)
  BY DEF DeskInit
<1>4. DeskTypeOK
  BY <1>1, <1>3, IdleRequest, DeskBounds DEF DeskInit, DeskTypeOK, DeskEntry
<1>5. DeskTypes
  BY <1>1, <1>2, <1>3, <1>4, IdleRequest DEF DeskTypes, FilledIn, Numbered
<1>6. RolesInv
  <2>1. \A i \in Ids : users[i] = Unset /\ Changes(trail, i) = {}
    BY <1>3 DEF DeskInit, Changes
  <2> QED BY <1>1, <2>1, IdleRequest DEF RolesInv, RoleCurrent
<1>7. SettingsExplained
  BY <1>3 DEF SettingsExplained, DeskInit
<1>8. \A k \in Settable : ReadsCurrent(k)
  BY <1>1, IdleRequest DEF ReadsCurrent
<1> QED BY <1>5, <1>6, <1>7, <1>8 DEF DeskInv

\* A request begins: r, with nothing looked up
LEMMA BeginInv ==
    ASSUME DeskInv, NEW d \in Desks, NEW r \in DeskRequest, Begin(d, r),
           r.op # "idle", r.no = requests + 1, r.looked = 0,
           r.op \in {"create", "update"} => r.id \in Ids,
           r.op = "create" => /\ r.want \in User /\ users[r.id] = Unset
                              /\ \A e \in Desks : desk[e].op = "create" => desk[e].id # r.id,
           r.op = "update" => users[r.id] # Unset /\ r.seen \in User /\ r.seen = users[r.id],
           r.op = "save" => r.by \in Admins,
           r.op # "save" => \A k \in Settable : r.form[k] = Unset,
           \A k \in Settable : r.read[k] = Unset
    PROVE  DeskInv'
<1>0. /\ requests' = requests + 1 /\ requests < MaxRequests
      /\ desk' = [desk EXCEPT ![d] = r]
      /\ users' = users /\ settings' = settings /\ trail' = trail
      /\ crossed' = crossed /\ given' = given /\ failures' = failures
  BY DEF Begin
<1>1. DeskTypes /\ DeskTypeOK /\ DeskShape
  BY DEF DeskInv, DeskTypes
<1>2. requests \in Nat /\ requests' \in 0..MaxRequests
  BY <1>0, <1>1, Entries, DeskBounds
<1>3. \A e \in Desks : desk'[e] = IF e = d THEN r ELSE desk[e]
  BY <1>0, <1>1 DEF DeskShape
<1>4. DeskShape'
  BY <1>0, <1>1 DEF DeskShape
<1>5. DeskTypeOK'
  BY <1>0, <1>1, <1>2, <1>3 DEF DeskTypeOK, DeskRequest
<1>6. \A e \in Desks : FilledIn(desk[e])'
  <2> SUFFICES ASSUME NEW e \in Desks PROVE FilledIn(desk[e])'
    OBVIOUS
  <2>1. CASE e = d
    <3>1. r.no \in 1..requests'
      BY <1>0, <1>2
    <3> QED BY <2>1, <3>1, <1>0, <1>3 DEF FilledIn
  <2>2. CASE e # d
    <3>1. FilledIn(desk[e]) /\ desk[e] \in DeskRequest
      BY <1>1, OneRequest
    <3>2. desk[e].no \in 1..requests => desk[e].no \in 1..requests'
      BY <1>0, <1>2
    <3> QED BY <2>2, <3>1, <3>2, <1>0, <1>3 DEF FilledIn
  <2> QED BY <2>1, <2>2
<1>7. Numbered'
  <2>1. \A n \in 1..Len(trail) : trail[n].at <= requests'
    BY <1>0, <1>1, Entries
  <2> QED BY <2>1, <1>0, <1>1, <1>3 DEF DeskTypes, Numbered
<1>8. RolesInv' /\ SettingsExplained'
  <2>1. RoleCurrent(r)
    <3> SUFFICES ASSUME r.op = "update" PROVE RoleCurrent(r)
      BY DEF RoleCurrent
    <3>1. Tells(trail, r.id, users[r.id].role, given[r.id], crossed)
      BY DEF DeskInv, RolesInv
    <3>2. \A n \in Changes(trail, r.id) : trail[n].at < r.no
      BY <1>1, Entries DEF Changes
    <3> QED BY <3>1, <3>2 DEF RoleCurrent, Tells
  <2>2. \A e \in Desks : RoleCurrent(desk[e])'
    BY <2>1, <1>0, <1>3 DEF DeskInv, RolesInv, RoleCurrent
  <2>3. RolesInv'
    BY <2>2, <1>0, <1>3 DEF DeskInv, RolesInv
  <2>4. SettingsExplained'
    BY <1>0 DEF DeskInv, SettingsExplained
  <2> QED BY <2>3, <2>4
<1>9. ASSUME NEW k \in Settable \ crossed' PROVE ReadsCurrent(k)'
  <2> SUFFICES ASSUME NEW e \in Desks, desk'[e].form[k] # Unset
               PROVE  /\ \A n \in 1..Len(trail') : trail'[n].sets[k] # Unset =>
                                                     trail'[n].at < desk'[e].no
                      /\ k \in LookedUp(desk'[e], desk'[e].looked) =>
                           desk'[e].read[k] = settings'[k]
    BY DEF ReadsCurrent
  <2>1. CASE e = d
    <3>1. desk'[e] = r
      BY <2>1, <1>3
    <3>2. LookedUp(r, 0) = {}
      BY DeskAssumption DEF LookedUp, Given
    <3>3. \A n \in 1..Len(trail') : trail'[n].at < r.no
      BY <1>0, <1>1, Entries
    <3> QED BY <3>1, <3>2, <3>3
  <2>2. CASE e # d
    BY <2>2, <1>0, <1>3 DEF DeskInv, ReadsCurrent
  <2> QED BY <2>1, <2>2
<1> QED BY <1>4, <1>5, <1>6, <1>7, <1>8, <1>9 DEF DeskInv, DeskTypes

\* A request ends and leaves nothing
LEMMA RollbackInv ==
    ASSUME DeskInv, NEW d \in Desks, Rollback(d), failures' \in 0..MaxFailures
    PROVE  DeskInv'
<1>0. /\ desk' = [desk EXCEPT ![d] = Idle]
      /\ users' = users /\ settings' = settings /\ trail' = trail
      /\ crossed' = crossed /\ given' = given /\ requests' = requests
  BY DEF Rollback
<1>1. DeskTypes /\ DeskTypeOK /\ DeskShape
  BY DEF DeskInv, DeskTypes
<1>3. \A e \in Desks : desk'[e] = IF e = d THEN Idle ELSE desk[e]
  BY <1>0, <1>1 DEF DeskShape
<1>4. DeskShape'
  BY <1>0, <1>1, IdleRequest DEF DeskShape
<1>5. DeskTypeOK'
  BY <1>0, <1>1, <1>3, IdleRequest DEF DeskTypeOK
<1>6. \A e \in Desks : FilledIn(desk[e])'
  BY <1>0, <1>1, <1>3, IdleRequest DEF DeskTypes, FilledIn
<1>7. Numbered'
  BY <1>0, <1>1, <1>3, IdleRequest DEF DeskTypes, Numbered
<1>8. RolesInv' /\ SettingsExplained'
  <2>1. RolesInv'
    BY <1>0, <1>3, IdleRequest DEF DeskInv, RolesInv, RoleCurrent
  <2>2. SettingsExplained'
    BY <1>0 DEF DeskInv, SettingsExplained
  <2> QED BY <2>1, <2>2
<1>9. ASSUME NEW k \in Settable \ crossed' PROVE ReadsCurrent(k)'
  BY <1>0, <1>3, IdleRequest DEF DeskInv, ReadsCurrent
<1> QED BY <1>4, <1>5, <1>6, <1>7, <1>8, <1>9 DEF DeskInv, DeskTypes

\* The next setting is looked up
LEMMA LookUpInv ==
    ASSUME DeskInv, NEW d \in Desks, LookUp(d)
    PROVE  DeskInv'
<1>1. DeskTypes /\ DeskTypeOK /\ DeskShape /\ failures \in 0..MaxFailures
  BY DEF DeskInv, DeskTypes, DeskTypeOK
<1>2. CASE Rollback(d) /\ UNCHANGED failures
  BY <1>1, <1>2, RollbackInv
<1>3. CASE ~(Rollback(d) /\ UNCHANGED failures)
  <2>1. PICK i \in Ahead(desk[d]) :
          desk' = [desk EXCEPT ![d].looked = i, ![d].read[SettingKeys[i]] = settings[SettingKeys[i]]]
          /\ \A j \in Ahead(desk[d]) : i <= j
    BY <1>3 DEF LookUp
  <2>2. /\ users' = users /\ settings' = settings /\ trail' = trail
        /\ crossed' = crossed /\ given' = given
        /\ requests' = requests /\ failures' = failures
        /\ desk[d].op = "save"
    BY <1>3 DEF LookUp
  <2> DEFINE k == SettingKeys[i]
             r == desk[d]
             q == [r EXCEPT !.looked = i, !.read[k] = settings[k]]
  <2>3. i \in DOMAIN SettingKeys /\ i \in 1..Len(SettingKeys) /\ k \in Settable /\ i > r.looked
    BY DeskAssumption DEF Ahead, Given, Settable
  <2>4. r \in DeskRequest /\ FilledIn(r)
    BY <1>1, OneRequest
  <2>5. desk' = [desk EXCEPT ![d] = q]
    BY <2>1, <1>1 DEF DeskShape
  <2>6. settings[k] \in Setting \cup {Unset}
    BY <1>1, <2>3 DEF DeskTypeOK
  <2>7. /\ q \in DeskRequest /\ q.op = r.op /\ q.no = r.no /\ q.id = r.id
        /\ q.want = r.want /\ q.seen = r.seen /\ q.form = r.form /\ q.by = r.by
        /\ q.looked = i
        /\ \A j \in Settable : q.read[j] = IF j = k THEN settings[k] ELSE r.read[j]
    <3> DEFINE read == [r.read EXCEPT ![k] = settings[k]]
    <3>1. q = [r EXCEPT !.looked = i, !.read = read]
      BY <2>4 DEF DeskRequest
    <3>2. r.read \in [Settable -> Setting \cup {Unset}]
      BY <2>4 DEF DeskRequest
    <3>3. /\ read \in [Settable -> Setting \cup {Unset}]
          /\ \A j \in Settable : read[j] = IF j = k THEN settings[k] ELSE r.read[j]
      BY <2>3, <2>6, <3>2
    <3>4. i \in 0..Len(SettingKeys)
      BY <2>3
    <3> HIDE DEF read
    <3>5. [r EXCEPT !.looked = i, !.read = read] \in DeskRequest
      BY <2>4, <3>3, <3>4 DEF DeskRequest
    <3> QED BY <3>1, <3>3, <3>5, <2>4 DEF DeskRequest
  <2> HIDE DEF q
  <2>8. \A e \in Desks : desk'[e] = IF e = d THEN q ELSE desk[e]
    BY <2>5, <1>1 DEF DeskShape
  <2>9. DeskShape'
    BY <2>5, <2>7, <1>1 DEF DeskShape
  <2>10. DeskTypeOK'
    BY <1>1, <2>2, <2>7, <2>8 DEF DeskTypeOK, DeskRequest
  <2>11. \A e \in Desks : FilledIn(desk[e])'
    BY <1>1, <2>2, <2>4, <2>7, <2>8 DEF DeskTypes, FilledIn
  <2>12. Numbered'
    BY <1>1, <2>2, <2>7, <2>8 DEF DeskTypes, Numbered
  <2>13. RolesInv' /\ SettingsExplained'
    <3>1. RolesInv'
      BY <2>2, <2>7, <2>8 DEF DeskInv, RolesInv, RoleCurrent
    <3>2. SettingsExplained'
      BY <2>2 DEF DeskInv, SettingsExplained
    <3> QED BY <3>1, <3>2
  <2>14. ASSUME NEW j \in LookedUp(q, q.looked), j # k PROVE j \in LookedUp(r, r.looked)
    <3>1. PICK n \in Given(q) : SettingKeys[n] = j /\ n <= i
      BY <2>7, <2>14 DEF LookedUp
    <3>2. n \in Given(r) /\ n \in Nat
      BY <2>7, <3>1, DeskAssumption DEF Given
    <3>3. n <= r.looked
      <4>1. n \in Ahead(r) => i <= n
        BY <2>1
      <4>2. r.looked \in Nat /\ i \in Nat
        BY <2>3, <2>4, DeskAssumption DEF DeskRequest
      <4>3. n # i
        BY <3>1, <2>14
      <4> QED BY <3>1, <3>2, <4>1, <4>2, <4>3 DEF Ahead
    <3> QED BY <3>1, <3>2, <3>3 DEF LookedUp
  <2>15. ASSUME NEW j \in Settable \ crossed' PROVE ReadsCurrent(j)'
    <3>1. ReadsCurrent(j)
      BY <2>2 DEF DeskInv
    <3>2. \A n : j \in LookedUp(q, q.looked) /\ j # k => j \in LookedUp(r, r.looked)
      BY <2>14
    <3> QED BY <2>2, <2>7, <2>8, <3>1, <3>2 DEF ReadsCurrent
  <2> QED BY <2>9, <2>10, <2>11, <2>12, <2>13, <2>15 DEF DeskInv, DeskTypes
<1> QED BY <1>2, <1>3

-----------------------------------------------------------------------------
(* Transactions that are committed *)

\* The trail with one entry more
LEMMA Told ==
    ASSUME DeskTypes, NEW e \in DeskEntry
    PROVE  LET T == trail \o <<e>>
           IN /\ T \in Seq(DeskEntry) /\ Len(T) = Len(trail) + 1
              /\ T[Len(trail) + 1] = e
              /\ \A n \in 1..Len(trail) : T[n] = trail[n]
<1>1. trail \in Seq(DeskEntry) /\ Len(trail) \in Nat
  BY Entries
<1> QED BY <1>1

\* A commit of well-formed rows and of one entry, or none
LEMMA CommitTypes ==
    ASSUME DeskInv, NEW d \in Desks, NEW R, NEW S, NEW entries,
           NEW e \in DeskEntry, e.at <= requests, entries \in {<<>>, <<e>>},
           Commit(d, R, S, entries),
           R \in [Ids -> User \cup {Unset}],
           \A i \in Ids : users[i] # Unset => R[i] # Unset,
           S \in [Settable -> Setting \cup {Unset}],
           \A k \in Settable : settings[k] # Unset => S[k] # Unset
    PROVE  /\ DeskTypes'
           /\ \A x \in Desks : desk'[x] = IF x = d THEN Idle ELSE desk[x]
<1>0. /\ desk' = [desk EXCEPT ![d] = Idle]
      /\ users' = R /\ settings' = S /\ trail' = trail \o entries
      /\ requests' = requests /\ failures' = failures
      /\ crossed' = crossed \cup (Concerns(desk[d]) \cap
                                UNION {Concerns(desk[x]) : x \in Desks \ {d}})
      /\ given' = [i \in Ids |-> IF users[i] = Unset /\ R[i] # Unset THEN R[i].role
                                                                    ELSE given[i]]
  BY DEF Commit
<1>1. DeskTypes /\ DeskTypeOK /\ DeskShape
  BY DEF DeskInv, DeskTypes
<1>2. trail \in Seq(DeskEntry) /\ Len(trail) \in Nat
  BY <1>1, Entries
<1>3. \A x \in Desks : desk'[x] = IF x = d THEN Idle ELSE desk[x]
  BY <1>0, <1>1 DEF DeskShape
<1>4. DeskShape'
  BY <1>0, <1>1, IdleRequest DEF DeskShape
<1>5. trail' \in Seq(DeskEntry) /\ \A n \in 1..Len(trail') : trail'[n].at <= requests
  <2>1. CASE entries = <<>>
    <3>1. trail' = trail
      BY <2>1, <1>0, <1>2
    <3> QED BY <3>1, <1>1, <1>2, Entries
  <2>2. CASE entries = <<e>>
    <3>1. /\ trail' \in Seq(DeskEntry) /\ Len(trail') = Len(trail) + 1
          /\ trail'[Len(trail) + 1] = e
          /\ \A n \in 1..Len(trail) : trail'[n] = trail[n]
      BY <2>2, <1>0, <1>1, Told
    <3>2. \A n \in 1..Len(trail) : trail[n].at <= requests
      BY <1>1, Entries
    <3> QED BY <3>1, <3>2, <1>2
  <2> QED BY <2>1, <2>2
<1>6. crossed' \subseteq Ids \cup Settable
  <2>1. Concerns(desk[d]) \subseteq Ids \cup Settable
    BY <1>1, OneRequest DEF Concerns, DeskRequest
  <2> QED BY <1>0, <1>1, <2>1 DEF DeskTypeOK
<1>10. given' \in [Ids -> Roles \cup {Unset}]
  BY <1>0, <1>1 DEF DeskTypeOK, User
<1>7. DeskTypeOK'
  BY <1>0, <1>1, <1>3, <1>5, <1>6, <1>10, IdleRequest DEF DeskTypeOK, DeskEntry
<1>8. \A x \in Desks : FilledIn(desk[x])'
  <2> SUFFICES ASSUME NEW x \in Desks PROVE FilledIn(desk[x])'
    OBVIOUS
  <2>1. FilledIn(desk[x]) /\ desk[x] \in DeskRequest
    BY <1>1, OneRequest
  <2> QED BY <2>1, <1>0, <1>3, IdleRequest DEF FilledIn
<1>9. Numbered'
  BY <1>0, <1>1, <1>3, <1>5, IdleRequest DEF DeskTypes, Numbered
<1> QED BY <1>3, <1>4, <1>7, <1>8, <1>9 DEF DeskTypes

\* An entry about no setting, with the settings as they were, explains none
LEMMA SettingsUntouched ==
    ASSUME DeskInv, NEW d \in Desks, NEW R, NEW entries,
           NEW e \in DeskEntry, entries \in {<<>>, <<e>>},
           \A k \in Settable : e.sets[k] = Unset,
           Commit(d, R, settings, entries),
           \A x \in Desks : desk'[x] = IF x = d THEN Idle ELSE desk[x]
    PROVE  SettingsExplained' /\ \A k \in Settable \ crossed' : ReadsCurrent(k)'
<1>1. /\ settings' = settings /\ trail' = trail \o entries /\ crossed \subseteq crossed'
  BY DEF Commit
<1>2. DeskTypes /\ trail \in Seq(DeskEntry) /\ Len(trail) \in Nat
  BY Entries DEF DeskInv
<1>3. CASE trail' = trail
  <2>1. SettingsExplained'
    BY <1>1, <1>3 DEF DeskInv, SettingsExplained
  <2>2. \A k \in Settable \ crossed' : ReadsCurrent(k)'
    BY <1>1, <1>3, IdleRequest DEF DeskInv, ReadsCurrent
  <2> QED BY <2>1, <2>2
<1>4. CASE entries = <<e>>
  <2>1. /\ Len(trail') = Len(trail) + 1
        /\ trail'[Len(trail) + 1] = e
        /\ \A n \in 1..Len(trail) : trail'[n] = trail[n]
    BY <1>1, <1>2, <1>4, Told
  <2>2. ASSUME NEW k \in Settable
        PROVE  {n \in 1..Len(trail') : trail'[n].sets[k] # Unset}
                 = {n \in 1..Len(trail) : trail[n].sets[k] # Unset}
    <3>1. \A n \in 1..Len(trail') : n \in 1..Len(trail) \/ n = Len(trail) + 1
      BY <1>2, <2>1
    <3>2. \A n \in 1..Len(trail) : n \in 1..Len(trail')
      BY <1>2, <2>1
    <3> QED BY <2>1, <3>1, <3>2
  <2>3. SettingsExplained'
    <3> SUFFICES ASSUME NEW k \in Settable \ crossed',
                        NEW A, A = {n \in 1..Len(trail) : trail[n].sets[k] # Unset}
                 PROVE  IF settings[k] = Unset THEN A = {}
                        ELSE \E n \in A :
                          /\ settings[k] = [value |-> trail'[n].sets[k], by |-> trail'[n].by]
                          /\ \A m \in A \ {n} : trail'[m].at < trail'[n].at
      BY <1>1, <2>2 DEF SettingsExplained
    <3>1. IF settings[k] = Unset THEN A = {}
          ELSE \E n \in A :
            /\ settings[k] = [value |-> trail[n].sets[k], by |-> trail[n].by]
            /\ \A m \in A \ {n} : trail[m].at < trail[n].at
      BY <1>1 DEF DeskInv, SettingsExplained
    <3>2. \A n \in A : trail'[n] = trail[n]
      BY <2>1
    <3> QED BY <3>1, <3>2
  <2>4. ASSUME NEW k \in Settable \ crossed' PROVE ReadsCurrent(k)'
    <3>1. ReadsCurrent(k)
      BY <1>1 DEF DeskInv
    <3>2. \A n \in 1..Len(trail') : trail'[n].sets[k] # Unset =>
             n \in 1..Len(trail) /\ trail'[n] = trail[n] /\ trail[n].sets[k] # Unset
      BY <1>2, <2>1
    <3> QED BY <3>1, <3>2, <1>1, IdleRequest DEF ReadsCurrent
  <2> QED BY <2>3, <2>4
<1> QED BY <1>1, <1>2, <1>3, <1>4

\* What an entry is filled in from
LEMMA BlankEntry ==
    /\ NoEntry \in [what : {"none"}, at : {0}, id : {Unset}, was : {Unset}, role : {Unset},
                    sets : [Settable -> {Unset}], by : {Unset}]
    /\ [Settable -> {Unset}] \subseteq [Settable -> Values \cup {Unset}]
BY DEF NoEntry

\* One entry more that does not tell of a change of i's role
LEMMA ChangesOther ==
    ASSUME NEW T, NEW U, NEW i, Len(T) \in Nat, Len(U) \in {Len(T), Len(T) + 1},
           \A n \in 1..Len(T) : U[n] = T[n],
           \A n \in Changes(U, i) : n \in 1..Len(T)
    PROVE  /\ Changes(U, i) = Changes(T, i)
           /\ \A n \in Changes(T, i) : U[n] = T[n]
<1>1. \A n \in 1..Len(T) : n \in 1..Len(U)
  OBVIOUS
<1> QED BY <1>1 DEF Changes

LEMMA TellsOther ==
    ASSUME NEW T, NEW U, NEW i, Len(T) \in Nat, Len(U) \in {Len(T), Len(T) + 1},
           Changes(U, i) = Changes(T, i),
           \A n \in Changes(T, i) : U[n] = T[n],
           NEW role, NEW g, NEW X, NEW Y, X \subseteq Y, Tells(T, i, role, g, X)
    PROVE  Tells(U, i, role, g, Y)
<1>1. ASSUME NEW n \in Changes(T, i), Changes(T, i) \subseteq n..Len(U)
      PROVE  Changes(T, i) \subseteq n..Len(T)
  BY <1>1 DEF Changes
<1> QED BY <1>1 DEF Tells

\* A request still at work whose user's role and entries are as they were
LEMMA CurrentKept ==
    ASSUME NEW x \in Desks, desk'[x] = desk[x], RoleCurrent(desk[x]),
           crossed \subseteq crossed',
           NEW i, i = desk[x].id,
           Changes(trail', i) = Changes(trail, i),
           \A n \in Changes(trail, i) : trail'[n] = trail[n],
           given'[i] = given[i], users'[i].role = users[i].role
    PROVE  RoleCurrent(desk[x])'
BY DEF RoleCurrent

\* One entry more, and it tells of a change of i's role
LEMMA TellsChange ==
    ASSUME NEW T, NEW U, NEW i, NEW role, NEW g, NEW X, NEW Y,
           Len(T) \in Nat, Len(U) = Len(T) + 1,
           \A n \in 1..Len(T) : U[n] = T[n],
           U[Len(U)].what = "user.role_changed", U[Len(U)].id = i,
           X \subseteq Y, Tells(T, i, role, g, X),
           Changes(T, i) = {} => U[Len(U)].was = g,
           i \notin Y => /\ U[Len(U)].was = role
                         /\ \A n \in Changes(T, i) : T[n].at < U[Len(U)].at
    PROVE  Tells(U, i, U[Len(U)].role, g, Y)
<1> DEFINE C == Changes(T, i)
           D == Changes(U, i)
           z == Len(U)
<1>1. D = C \cup {z} /\ z \notin C /\ z \in Nat /\ C \subseteq 1..Len(T)
  <2>1. \A n : n \in 1..Len(U) <=> n \in 1..Len(T) \/ n = z
    OBVIOUS
  <2>2. z \notin 1..Len(T)
    OBVIOUS
  <2> QED BY <2>1, <2>2 DEF Changes
<1>2. \A n \in C : U[n] = T[n] /\ n \in Nat /\ n < z
  BY <1>1
<1> HIDE DEF C, D, z
<1>3. D # {} /\ \A n \in D : D \subseteq 1..n => n = z
  BY <1>1, <1>2
<1>4. ASSUME NEW n \in D, D \subseteq n..Len(U)
      PROVE  U[n].was = g
  <2>1. CASE n = z
    <3>1. C = {}
      BY <1>1, <1>2, <1>4, <2>1 DEF z
    <3> QED BY <2>1, <3>1 DEF C, z
  <2>2. CASE n # z
    <3>1. n \in C /\ C \subseteq n..Len(T)
      BY <1>1, <1>4, <2>2
    <3> QED BY <1>2, <3>1 DEF Tells, C
  <2> QED BY <2>1, <2>2
<1>5. ASSUME i \notin Y, NEW n \in D, NEW m \in D, m < n
      PROVE  /\ U[m].at < U[n].at
             /\ D \cap (m + 1)..(n - 1) = {} => U[n].was = U[m].role
  <2>1. m \in C
    BY <1>1, <1>2, <1>5
  <2>2. CASE n = z
    <3>1. U[m].at < U[n].at /\ U[n].was = role
      BY <1>2, <1>5, <2>1, <2>2 DEF C, z
    <3>2. ASSUME D \cap (m + 1)..(n - 1) = {} PROVE T[m].role = role
      <4>1. C \subseteq 1..m
        <5> SUFFICES ASSUME NEW l \in C, ~(l \in 1..m) PROVE FALSE
          OBVIOUS
        <5>1. l \in 1..Len(T) /\ m \in 1..Len(T) /\ z = Len(T) + 1
          BY <1>1, <2>1 DEF z
        <5>2. l \in (m + 1)..(n - 1)
          BY <5>1, <2>2
        <5> QED BY <1>1, <3>2, <5>2
      <4> QED BY <2>1, <4>1 DEF Tells, C
    <3> QED BY <1>2, <2>1, <3>1, <3>2
  <2>3. CASE n # z
    <3>1. n \in C
      BY <1>1, <1>5, <2>3
    <3>2. /\ T[m].at < T[n].at
          /\ C \cap (m + 1)..(n - 1) = {} => T[n].was = T[m].role
      BY <1>5, <2>1, <3>1 DEF Tells, C
    <3> QED BY <1>1, <1>2, <2>1, <3>1, <3>2
  <2> QED BY <2>2, <2>3
<1> QED BY <1>3, <1>4, <1>5 DEF Tells, D, z

\* Roles are told after a commit that changes one and tells of it
LEMMA RolesToldInv ==
    ASSUME DeskInv, NEW d \in Desks, NEW R, NEW S, NEW e \in DeskEntry, NEW i \in Ids,
           Commit(d, R, S, <<e>>), desk[d].op = "update", desk[d].id = i,
           e.what = "user.role_changed", e.id = i,
           e.was = desk[d].seen.role, e.at = desk[d].no,
           users[i] # Unset, R[i] # Unset, R[i].role = e.role,
           \A j \in Ids \ {i} : R[j] = users[j],
           \A x \in Desks : desk'[x] = IF x = d THEN Idle ELSE desk[x]
    PROVE  RolesInv'
<1>1. /\ users' = R /\ trail' = trail \o <<e>>
      /\ crossed' = crossed \cup (Concerns(desk[d]) \cap
                                UNION {Concerns(desk[x]) : x \in Desks \ {d}})
      /\ given' = [j \in Ids |-> IF users[j] = Unset /\ R[j] # Unset THEN R[j].role
                                                                    ELSE given[j]]
  BY DEF Commit
<1>2. DeskTypes /\ Len(trail) \in Nat /\ crossed \subseteq crossed'
  BY <1>1, Entries DEF DeskInv
<1>3. /\ Len(trail') = Len(trail) + 1
      /\ trail'[Len(trail')] = e
      /\ \A n \in 1..Len(trail) : trail'[n] = trail[n]
  BY <1>1, <1>2, Told
<1>4. \A j \in Ids : given'[j] = given[j]
  BY <1>1
<1>5. ASSUME NEW j \in Ids \ {i}
      PROVE  /\ Changes(trail', j) = Changes(trail, j)
             /\ \A n \in Changes(trail, j) : trail'[n] = trail[n]
  <2>1. Len(trail') \in {Len(trail), Len(trail) + 1}
    BY <1>3
  <2>2. \A n \in Changes(trail', j) : n \in 1..Len(trail)
    BY <1>2, <1>3 DEF Changes
  <2> QED BY <1>2, <1>3, <2>1, <2>2, ChangesOther
<1>6. Tells(trail', i, R[i].role, given[i], crossed')
  <2>1. Tells(trail, i, users[i].role, given[i], crossed) /\ RoleCurrent(desk[d])
    BY DEF DeskInv, RolesInv
  <2>2. Changes(trail, i) = {} => e.was = given[i]
    BY <2>1 DEF RoleCurrent
  <2>3. i \notin crossed' => /\ e.was = users[i].role
                             /\ \A n \in Changes(trail, i) : trail[n].at < e.at
    BY <1>2, <2>1 DEF RoleCurrent
  <2> QED BY <1>2, <1>3, <2>1, <2>2, <2>3, TellsChange
<1>7. \A j \in Ids : IF users'[j] = Unset THEN Changes(trail', j) = {}
                     ELSE Tells(trail', j, users'[j].role, given'[j], crossed')
  <2>1. ASSUME NEW j \in Ids \ {i}, users[j] # Unset
        PROVE  Tells(trail', j, users[j].role, given[j], crossed')
    <3>1. Tells(trail, j, users[j].role, given[j], crossed)
      BY <2>1 DEF DeskInv, RolesInv
    <3>2. Len(trail') \in {Len(trail), Len(trail) + 1}
      BY <1>3
    <3> QED BY <1>2, <1>5, <3>1, <3>2, TellsOther
  <2>2. \A j \in Ids \ {i} : users[j] = Unset => Changes(trail', j) = {}
    BY <1>5 DEF DeskInv, RolesInv
  <2> QED BY <1>1, <1>4, <1>6, <2>1, <2>2
<1>8. ASSUME NEW x \in Desks PROVE RoleCurrent(desk[x])'
  <2>1. CASE x = d
    BY <2>1, IdleRequest DEF RoleCurrent
  <2>2. CASE x # d /\ desk[x].op = "update" /\ desk[x].id = i
    <3>1. i # Unset
      BY DeskAssumption
    <3>2. i \in Concerns(desk[d]) /\ i \in Concerns(desk[x])
      BY <2>2, <3>1 DEF Concerns
    <3>3. i \in crossed'
      BY <1>1, <2>2, <3>2
    <3>4. Len(trail') \in Changes(trail', i)
      BY <1>2, <1>3 DEF Changes
    <3> QED BY <2>2, <3>3, <3>4 DEF RoleCurrent
  <2>3. CASE x # d /\ desk[x].op = "update" /\ desk[x].id # i
    <3>1. desk[x].id \in Ids \ {i}
      BY <1>2, <2>3, OneRequest DEF FilledIn
    <3>2. RoleCurrent(desk[x])
      BY DEF DeskInv, RolesInv
    <3>3. desk'[x] = desk[x] /\ users'[desk[x].id].role = users[desk[x].id].role
      BY <1>1, <2>3, <3>1
    <3> QED BY <1>2, <1>4, <1>5, <3>1, <3>2, <3>3, CurrentKept
  <2>4. CASE x # d /\ desk[x].op # "update"
    BY <2>4 DEF RoleCurrent
  <2> QED BY <2>1, <2>2, <2>3, <2>4
<1>9. ASSUME NEW x \in Desks, desk'[x].op = "create"
      PROVE  /\ users'[desk'[x].id] = Unset
             /\ \A y \in Desks \ {x} : desk'[y].op = "create" => desk'[y].id # desk'[x].id
  <2>1. x # d /\ desk[x].op = "create" /\ desk'[x] = desk[x]
    BY <1>9, IdleRequest
  <2>2. desk[x].id \in Ids
    BY <1>2, <2>1, OneRequest DEF FilledIn
  <2>3. /\ users[desk[x].id] = Unset
        /\ \A y \in Desks \ {x} : desk[y].op = "create" => desk[y].id # desk[x].id
    BY <2>1 DEF DeskInv, RolesInv
  <2> QED BY <1>1, <2>1, <2>2, <2>3, IdleRequest
<1> QED BY <1>7, <1>8, <1>9 DEF RolesInv

\* ... or that tells of no change and leaves every role there was as it was
LEMMA RolesKeptInv ==
    ASSUME DeskInv, NEW d \in Desks, NEW R, NEW S, NEW entries, NEW e \in DeskEntry,
           entries \in {<<>>, <<e>>}, Commit(d, R, S, entries),
           e.what # "user.role_changed",
           \A j \in Ids : users[j] # Unset => R[j] # Unset /\ R[j].role = users[j].role,
           \A j \in Ids : users[j] = Unset /\ R[j] # Unset
                            => desk[d].op = "create" /\ desk[d].id = j,
           \A x \in Desks : desk'[x] = IF x = d THEN Idle ELSE desk[x]
    PROVE  RolesInv'
<1>1. /\ users' = R /\ trail' = trail \o entries /\ crossed \subseteq crossed'
      /\ given' = [j \in Ids |-> IF users[j] = Unset /\ R[j] # Unset THEN R[j].role
                                                                    ELSE given[j]]
  BY DEF Commit
<1>2. DeskTypes /\ Len(trail) \in Nat /\ trail \in Seq(DeskEntry)
  BY Entries DEF DeskInv
<1>3. /\ Len(trail') \in {Len(trail), Len(trail) + 1}
      /\ Len(trail') = Len(trail) + 1 => trail'[Len(trail) + 1] = e
      /\ \A n \in 1..Len(trail) : trail'[n] = trail[n]
  <2>1. CASE entries = <<>>
    <3>1. trail' = trail
      BY <1>1, <1>2, <2>1
    <3>2. Len(trail) # Len(trail) + 1
      BY <1>2
    <3> QED BY <3>1, <3>2
  <2>2. CASE entries = <<e>>
    BY <1>1, <1>2, <2>2, Told
  <2> QED BY <2>1, <2>2
<1>4. ASSUME NEW j \in Ids
      PROVE  /\ Changes(trail', j) = Changes(trail, j)
             /\ \A n \in Changes(trail, j) : trail'[n] = trail[n]
  <2>1. \A n \in Changes(trail', j) : n \in 1..Len(trail)
    BY <1>2, <1>3 DEF Changes
  <2> QED BY <1>2, <1>3, <2>1, ChangesOther
<1>5. ASSUME NEW j \in Ids
      PROVE  IF users'[j] = Unset THEN Changes(trail', j) = {}
             ELSE Tells(trail', j, users'[j].role, given'[j], crossed')
  <2>1. CASE users[j] = Unset
    <3>1. Changes(trail', j) = {}
      BY <1>4, <2>1 DEF DeskInv, RolesInv
    <3>2. R[j] # Unset => given'[j] = R[j].role
      BY <1>1, <2>1
    <3> QED BY <1>1, <3>1, <3>2 DEF Tells
  <2>2. CASE users[j] # Unset
    <3>1. Tells(trail, j, users[j].role, given[j], crossed)
      BY <2>2 DEF DeskInv, RolesInv
    <3>2. given'[j] = given[j] /\ R[j] # Unset /\ R[j].role = users[j].role
      BY <1>1, <2>2
    <3>3. Tells(trail', j, users[j].role, given[j], crossed')
      BY <1>1, <1>2, <1>3, <1>4, <3>1, TellsOther
    <3> QED BY <1>1, <3>2, <3>3
  <2> QED BY <2>1, <2>2
<1>6. ASSUME NEW x \in Desks PROVE RoleCurrent(desk[x])'
  <2>1. CASE x = d
    BY <2>1, IdleRequest DEF RoleCurrent
  <2>2. CASE x # d /\ desk[x].op = "update"
    <3>1. desk[x].id \in Ids /\ users[desk[x].id] # Unset
      BY <1>2, <2>2, OneRequest DEF FilledIn
    <3>2. RoleCurrent(desk[x])
      BY DEF DeskInv, RolesInv
    <3>3. given'[desk[x].id] = given[desk[x].id]
      BY <1>1, <3>1
    <3>4. desk'[x] = desk[x] /\ users'[desk[x].id].role = users[desk[x].id].role
      BY <1>1, <2>2, <3>1
    <3> QED BY <1>1, <1>4, <3>1, <3>2, <3>3, <3>4, CurrentKept
  <2>3. CASE x # d /\ desk[x].op # "update"
    BY <2>3 DEF RoleCurrent
  <2> QED BY <2>1, <2>2, <2>3
<1>7. ASSUME NEW x \in Desks, desk'[x].op = "create"
      PROVE  /\ users'[desk'[x].id] = Unset
             /\ \A y \in Desks \ {x} : desk'[y].op = "create" => desk'[y].id # desk'[x].id
  <2>1. x # d /\ desk[x].op = "create" /\ desk'[x] = desk[x]
    BY <1>7, IdleRequest
  <2>2. desk[x].id \in Ids
    BY <1>2, <2>1, OneRequest DEF FilledIn
  <2>3. /\ users[desk[x].id] = Unset
        /\ \A y \in Desks \ {x} : desk[y].op = "create" => desk[y].id # desk[x].id
    BY <2>1 DEF DeskInv, RolesInv
  <2> QED BY <1>1, <2>1, <2>2, <2>3, IdleRequest
<1> QED BY <1>5, <1>6, <1>7 DEF RolesInv

\* register_user, create_user: the row is stored with its entry
LEMMA EndCreateInv ==
    ASSUME DeskInv, NEW d \in Desks, EndCreate(d)
    PROVE  DeskInv'
<1>1. DeskTypes /\ DeskTypeOK /\ failures \in 0..MaxFailures
  BY DEF DeskInv, DeskTypes, DeskTypeOK
<1>2. CASE Rollback(d) /\ UNCHANGED failures
  BY <1>1, <1>2, RollbackInv
<1>3. CASE ~(Rollback(d) /\ UNCHANGED failures)
  <2> DEFINE r == desk[d]
             R == [users EXCEPT ![r.id] = r.want]
             e == [NoEntry EXCEPT !.what = "user.created", !.at = r.no, !.id = r.id]
  <2>1. r.op = "create" /\ Commit(d, R, settings, <<e>>)
    BY <1>3 DEF EndCreate
  <2>2. /\ FilledIn(r) /\ r.no \in 1..requests /\ r.id \in Ids
        /\ r.want \in User /\ r.want # Unset /\ users[r.id] = Unset
    <3>1. FilledIn(r)
      BY <1>1, OneRequest
    <3>2. users[r.id] = Unset
      BY <2>1 DEF DeskInv, RolesInv
    <3> QED BY <3>1, <3>2, <2>1, DeskAssumption DEF FilledIn, User
  <2>3. /\ e \in DeskEntry /\ e.what # "user.role_changed" /\ e.at <= requests
        /\ \A k \in Settable : e.sets[k] = Unset
    <3>1. requests \in Nat /\ requests <= MaxRequests
      BY <1>1, Entries
    <3>2. r.no \in 1..MaxRequests /\ r.no <= requests
      BY <3>1, <2>2, DeskBounds
    <3> HIDE DEF r
    <3> QED BY <3>2, <2>2, BlankEntry DEF DeskEntry
  <2>4. /\ R \in [Ids -> User \cup {Unset}] /\ R[r.id] = r.want
        /\ \A i \in Ids : users[i] # Unset => R[i] # Unset
        /\ \A i \in Ids \ {r.id} : R[i] = users[i]
    BY <1>1, <2>2 DEF DeskTypeOK
  <2>5. settings \in [Settable -> Setting \cup {Unset}]
    BY <1>1 DEF DeskTypeOK
  <2> HIDE DEF e, R
  <2>6. /\ DeskTypes'
        /\ \A x \in Desks : desk'[x] = IF x = d THEN Idle ELSE desk[x]
    BY <2>1, <2>3, <2>4, <2>5, CommitTypes
  <2>7. RolesInv'
    <3>1. \A j \in Ids : users[j] # Unset => R[j] # Unset /\ R[j].role = users[j].role
      BY <2>2, <2>4
    <3>2. \A j \in Ids : users[j] = Unset /\ R[j] # Unset
                         => desk[d].op = "create" /\ desk[d].id = j
      BY <2>1, <2>4
    <3> HIDE DEF r
    <3> QED BY <2>1, <2>3, <2>6, <3>1, <3>2, RolesKeptInv
  <2>8. SettingsExplained' /\ \A k \in Settable \ crossed' : ReadsCurrent(k)'
    BY <2>1, <2>3, <2>6, SettingsUntouched
  <2> QED BY <2>6, <2>7, <2>8 DEF DeskInv
<1> QED BY <1>2, <1>3

\* update_user: what differs from the row as loaded, and the entry if the role does
LEMMA EndUpdateInv ==
    ASSUME DeskInv, NEW d \in Desks, EndUpdate(d)
    PROVE  DeskInv'
<1>1. DeskTypes /\ DeskTypeOK /\ failures \in 0..MaxFailures
  BY DEF DeskInv, DeskTypes, DeskTypeOK
<1>2. CASE Rollback(d) /\ UNCHANGED failures
  BY <1>1, <1>2, RollbackInv
<1>3. CASE ~(Rollback(d) /\ UNCHANGED failures)
  <2> DEFINE r == desk[d]
             row == Updated(users[r.id], r)
             R == [users EXCEPT ![r.id] = row]
             n == [NoEntry EXCEPT !.what = "user.created", !.at = r.no]
             e == [NoEntry EXCEPT !.what = "user.role_changed", !.at = r.no, !.id = r.id,
                                  !.was = r.seen.role, !.role = r.want.role]
  <2>1. r.op = "update" /\ Commit(d, R, settings, RoleEntries(r))
    BY <1>3 DEF EndUpdate
  <2>2. r \in DeskRequest /\ r.no \in 1..requests /\ r.id \in Ids /\ users[r.id] \in User /\ r.seen \in User
    <3>1. FilledIn(r) /\ r \in DeskRequest
      BY <1>1, OneRequest
    <3> QED BY <3>1, <1>1, <2>1 DEF FilledIn, DeskTypeOK
  <2>3. /\ row \in User /\ row # Unset
        /\ row.role = IF r.want.role \in {Unset, r.seen.role} THEN users[r.id].role ELSE r.want.role
    <3>1. r.want.username \in Usernames \cup {Unset} /\ r.want.role \in Roles \cup {Unset}
      BY <2>2 DEF DeskRequest
    <3>2. row \in User
      BY <3>1, <2>2 DEF Updated, User
    <3> QED BY <3>2, DeskAssumption DEF Updated, User
  <2>4. /\ R \in [Ids -> User \cup {Unset}] /\ R[r.id] = row
        /\ \A i \in Ids : users[i] # Unset => R[i] # Unset
        /\ \A i \in Ids \ {r.id} : R[i] = users[i]
    BY <1>1, <2>2, <2>3 DEF DeskTypeOK
  <2>5. settings \in [Settable -> Setting \cup {Unset}]
    BY <1>1 DEF DeskTypeOK
  <2>6. requests \in Nat /\ requests <= MaxRequests
    BY <1>1, Entries
  <2>7. r.no \in 1..MaxRequests /\ r.no <= requests
    BY <2>2, <2>6, DeskBounds
  <2>8. CASE r.want.role \in {Unset, r.seen.role}
    <3>1. RoleEntries(r) = <<>>
      BY <2>8 DEF RoleEntries
    <3>2. /\ n \in DeskEntry /\ n.what # "user.role_changed" /\ n.at <= requests
          /\ \A k \in Settable : n.sets[k] = Unset
      <4> HIDE DEF r
      <4> QED BY <2>7, BlankEntry DEF DeskEntry
    <3>3. /\ \A j \in Ids : users[j] # Unset => R[j] # Unset /\ R[j].role = users[j].role
          /\ \A j \in Ids : ~(users[j] = Unset /\ R[j] # Unset)
      <4>1. users[r.id] # Unset
        BY <2>2, DeskAssumption DEF User
      <4> QED BY <4>1, <2>3, <2>4, <2>8
    <3> HIDE DEF n, R, r, row, e
    <3>4. /\ DeskTypes'
          /\ \A x \in Desks : desk'[x] = IF x = d THEN Idle ELSE desk[x]
      BY <2>1, <2>4, <2>5, <3>1, <3>2, CommitTypes
    <3>5. RolesInv'
      BY <2>1, <3>1, <3>2, <3>3, <3>4, RolesKeptInv
    <3>6. SettingsExplained' /\ \A k \in Settable \ crossed' : ReadsCurrent(k)'
      BY <2>1, <3>1, <3>2, <3>4, SettingsUntouched
    <3> QED BY <3>4, <3>5, <3>6 DEF DeskInv
  <2>9. CASE r.want.role \notin {Unset, r.seen.role}
    <3>1. RoleEntries(r) = <<e>>
      BY <2>9 DEF RoleEntries
    <3>2. r.want.role \in Roles /\ r.seen.role \in Roles
      BY <2>2, <2>9 DEF DeskRequest, User
    <3>3. /\ e \in DeskEntry /\ e.what = "user.role_changed" /\ e.id = r.id
          /\ e.was = r.seen.role /\ e.role = r.want.role
          /\ e.at = r.no /\ e.at <= requests
          /\ \A k \in Settable : e.sets[k] = Unset
      <4> HIDE DEF r
      <4> QED BY <2>2, <2>7, <3>2, BlankEntry DEF DeskEntry
    <3>7. users[r.id] # Unset
      BY <2>2, DeskAssumption DEF User
    <3> HIDE DEF R, row, e
    <3>4. /\ DeskTypes'
          /\ \A x \in Desks : desk'[x] = IF x = d THEN Idle ELSE desk[x]
      BY <2>1, <2>4, <2>5, <3>1, <3>3, CommitTypes
    <3>5. RolesInv'
      <4>1. R[r.id] # Unset /\ R[r.id].role = e.role
        BY <2>3, <2>4, <2>9, <3>3
      <4> QED BY <2>1, <2>2, <2>4, <3>1, <3>3, <3>4, <3>7, <4>1, RolesToldInv
    <3>6. SettingsExplained' /\ \A k \in Settable \ crossed' : ReadsCurrent(k)'
      BY <2>1, <3>1, <3>3, <3>4, SettingsUntouched
    <3> QED BY <3>4, <3>5, <3>6 DEF DeskInv
  <2> QED BY <2>8, <2>9
<1> QED BY <1>2, <1>3

\* What a save stores of a setting that nobody crossed is what it tells of it
LEMMA StoredIsTold ==
    ASSUME DeskInv, NEW d \in Desks, desk[d].op = "save", Ahead(desk[d]) = {}, NEW k \in Settable
    PROVE  /\ Stored(desk[d], k) \in Setting \cup {Unset}
           /\ settings[k] # Unset => Stored(desk[d], k) # Unset
           /\ desk[d].form[k] = Unset => Stored(desk[d], k) = settings[k]
           /\ desk[d].form[k] # Unset /\ k \notin crossed =>
                Stored(desk[d], k) = [value |-> desk[d].form[k], by |-> desk[d].by]
<1> DEFINE r == desk[d]
<1>1. DeskTypes /\ DeskTypeOK
  BY DEF DeskInv, DeskTypes
<1>2. r \in DeskRequest /\ r.by \in Admins /\ (r.read[k] # Unset => settings[k] # Unset)
  BY <1>1, OneRequest DEF FilledIn
<1>3. /\ r.form[k] \in Values \cup {Unset} /\ r.read[k] \in Setting \cup {Unset}
      /\ settings[k] \in Setting \cup {Unset}
  BY <1>1, <1>2 DEF DeskRequest, DeskTypeOK
<1> HIDE DEF r
<1>4. Writes(r, k) => r.form[k] # Unset
  BY LookedUpIsGiven DEF Writes
<1>5. \A x \in Setting : x # Unset /\ x = [value |-> x.value, by |-> x.by]
  BY DeskAssumption DEF Setting
<1>6. \A v \in Values, a \in Admins : [value |-> v, by |-> a] \in Setting
  BY DEF Setting
<1>7. Stored(r, k) \in Setting \cup {Unset} /\ (settings[k] # Unset => Stored(r, k) # Unset)
  <2>1. CASE ~Writes(r, k)
    BY <2>1, <1>3 DEF Stored
  <2>2. CASE Writes(r, k) /\ r.read[k] = Unset
    BY <2>2, <1>2, <1>3, <1>4, <1>5, <1>6 DEF Stored
  <2>3. CASE Writes(r, k) /\ r.read[k] # Unset
    <3>1. settings[k] \in Setting /\ r.form[k] \in Values
      BY <2>3, <1>2, <1>3, <1>4
    <3>2. /\ Kept(r.read[k].value, settings[k].value, r.form[k]) \in Values
          /\ Kept(r.read[k].by, settings[k].by, r.by) \in Admins
      BY <3>1, <1>2 DEF Kept, Setting
    <3> QED BY <2>3, <3>1, <3>2, <1>5, <1>6 DEF Stored
  <2> QED BY <2>1, <2>2, <2>3
<1>8. r.form[k] = Unset => Stored(r, k) = settings[k]
  BY <1>4 DEF Stored
<1>9. ASSUME r.form[k] # Unset, k \notin crossed
      PROVE  Stored(r, k) = [value |-> r.form[k], by |-> r.by]
  <2>1. k \in LookedUp(r, r.looked)
    BY <1>2, <1>9, AllLookedUp DEF r
  <2>2. r.read[k] = settings[k]
    BY <1>9, <2>1 DEF DeskInv, ReadsCurrent, r
  <2>3. CASE ~Writes(r, k)
    BY <2>1, <2>2, <2>3 DEF Writes, Stored
  <2>4. CASE Writes(r, k)
    BY <2>2, <2>4 DEF Stored, Kept
  <2> QED BY <2>3, <2>4
<1> QED BY <1>7, <1>8, <1>9 DEF r

\* The settings are stored with the entry that tells of them
LEMMA EndSaveInv ==
    ASSUME DeskInv, NEW d \in Desks, EndSave(d)
    PROVE  DeskInv'
<1>1. DeskTypes /\ DeskTypeOK /\ failures \in 0..MaxFailures
  BY DEF DeskInv, DeskTypes, DeskTypeOK
<1>2. CASE Rollback(d) /\ UNCHANGED failures
  BY <1>1, <1>2, RollbackInv
<1>3. CASE ~(Rollback(d) /\ UNCHANGED failures)
  <2> DEFINE r == desk[d]
             S == [k \in Settable |-> Stored(r, k)]
             e == [NoEntry EXCEPT !.what = "admin.settings_changed", !.at = r.no,
                                  !.sets = r.form, !.by = r.by]
  <2>1. r.op = "save" /\ Ahead(r) = {} /\ Commit(d, users, S, <<e>>)
    BY <1>3 DEF EndSave
  <2>2. r \in DeskRequest /\ r.no \in 1..requests /\ r.by \in Admins
    BY <1>1, <2>1, OneRequest DEF FilledIn
  <2>3. requests \in Nat /\ requests <= MaxRequests /\ r.no \in 1..MaxRequests
    <3>1. requests \in Nat /\ requests <= MaxRequests
      BY <1>1, Entries
    <3> QED BY <3>1, <2>2, DeskBounds
  <2>4. /\ e \in DeskEntry /\ e.what # "user.role_changed" /\ e.at = r.no /\ e.at <= requests
        /\ e.sets = r.form /\ e.by = r.by
    <3>1. r.form \in [Settable -> Values \cup {Unset}]
      BY <2>2 DEF DeskRequest
    <3>2. r.no <= requests
      BY <2>2, <2>3
    <3> HIDE DEF r
    <3> QED BY <3>1, <3>2, <2>2, <2>3, BlankEntry DEF DeskEntry
  <2>5. \A k \in Settable :
           /\ S[k] \in Setting \cup {Unset} /\ (settings[k] # Unset => S[k] # Unset)
           /\ r.form[k] = Unset => S[k] = settings[k]
           /\ r.form[k] # Unset /\ k \notin crossed =>
                S[k] = [value |-> r.form[k], by |-> r.by]
    BY <2>1, StoredIsTold
  <2>6. S \in [Settable -> Setting \cup {Unset}] /\ users \in [Ids -> User \cup {Unset}]
    BY <1>1, <2>5 DEF DeskTypeOK
  <2> HIDE DEF e, r, S
  <2>7. /\ DeskTypes'
        /\ \A x \in Desks : desk'[x] = IF x = d THEN Idle ELSE desk[x]
    BY <2>1, <2>4, <2>5, <2>6, CommitTypes
  <2>8. RolesInv'
    BY <2>1, <2>4, <2>7, RolesKeptInv
  <2>9. /\ settings' = S /\ trail' = trail \o <<e>> /\ crossed \subseteq crossed'
        /\ requests' = requests
        /\ crossed' = crossed \cup (Concerns(r) \cap
                        UNION {Concerns(desk[x]) : x \in Desks \ {d}})
    BY <2>1 DEF Commit, r
  <2>10. /\ Len(trail') = Len(trail) + 1 /\ Len(trail) \in Nat
         /\ trail'[Len(trail) + 1] = e
         /\ \A n \in 1..Len(trail) : trail'[n] = trail[n]
    BY <1>1, <2>4, <2>9, Told, Entries
  <2>11. \A n \in 1..Len(trail') : n \in 1..Len(trail) \/ n = Len(trail) + 1
    BY <2>10
  <2>12. \A n \in 1..Len(trail) : n \in 1..Len(trail') /\ n # Len(trail) + 1
    BY <2>10
  <2>13. ASSUME NEW k \in Settable \ crossed', r.form[k] # Unset, NEW x \in Desks \ {d}
         PROVE  desk[x].form[k] = Unset
    <3>1. k \in Concerns(r) /\ (desk[x].form[k] # Unset => k \in Concerns(desk[x]))
      BY <2>13 DEF Concerns
    <3> QED BY <3>1, <2>9, <2>13
  <2>14. ASSUME NEW k \in Settable \ crossed' PROVE ReadsCurrent(k)'
    <3> SUFFICES ASSUME NEW x \in Desks \ {d}, desk[x].form[k] # Unset
                 PROVE  /\ \A n \in 1..Len(trail') : trail'[n].sets[k] # Unset =>
                                                       trail'[n].at < desk[x].no
                        /\ k \in LookedUp(desk[x], desk[x].looked) =>
                             desk[x].read[k] = S[k]
      BY <2>7, <2>9, IdleRequest DEF ReadsCurrent
    <3>1. r.form[k] = Unset
      BY <2>13
    <3>2. S[k] = settings[k] /\ e.sets[k] = Unset
      BY <2>4, <2>5, <3>1
    <3>3. ReadsCurrent(k)
      BY <2>9 DEF DeskInv
    <3> QED BY <3>2, <3>3, <2>10, <2>11 DEF ReadsCurrent
  <2>15. SettingsExplained'
    <3> SUFFICES ASSUME NEW k \in Settable \ crossed'
                 PROVE  LET A == {n \in 1..Len(trail') : trail'[n].sets[k] # Unset}
                        IN  IF S[k] = Unset THEN A = {}
                            ELSE \E n \in A :
                              /\ S[k] = [value |-> trail'[n].sets[k], by |-> trail'[n].by]
                              /\ \A m \in A \ {n} : trail'[m].at < trail'[n].at
      BY <2>9 DEF SettingsExplained
    <3> DEFINE A == {n \in 1..Len(trail') : trail'[n].sets[k] # Unset}
    <3> DEFINE B == {n \in 1..Len(trail) : trail[n].sets[k] # Unset}
    <3>0. k \in Settable \ crossed
      BY <2>9
    <3>1. IF settings[k] = Unset THEN B = {}
          ELSE \E n \in B :
            /\ settings[k] = [value |-> trail[n].sets[k], by |-> trail[n].by]
            /\ \A m \in B \ {n} : trail[m].at < trail[n].at
      BY <3>0 DEF DeskInv, SettingsExplained
    <3>2. CASE r.form[k] = Unset
      <4>1. A = B /\ S[k] = settings[k]
        BY <3>2, <2>4, <2>5, <2>10, <2>11, <2>12
      <4>2. \A n \in B : trail'[n] = trail[n]
        BY <2>10
      <4> QED BY <3>1, <4>1, <4>2
    <3>3. CASE r.form[k] # Unset
      <4> DEFINE last == Len(trail) + 1
      <4>1. S[k] = [value |-> r.form[k], by |-> r.by] /\ S[k] # Unset
        <5>1. S[k] = [value |-> r.form[k], by |-> r.by]
          BY <3>0, <3>3, <2>5
        <5>2. S[k] \in Setting
          BY <5>1, <2>2, <3>3 DEF Setting, DeskRequest
        <5> QED BY <5>1, <5>2, DeskAssumption DEF Setting
      <4>2. last \in A
        BY <3>3, <2>4, <2>10
      <4>3. trail'[last].sets[k] = r.form[k] /\ trail'[last].by = r.by /\ trail'[last].at = r.no
        BY <2>4, <2>10
      <4>4. ASSUME NEW m \in A \ {last} PROVE trail'[m].at < r.no
        <5>1. m \in 1..Len(trail) /\ trail[m].sets[k] # Unset /\ trail'[m] = trail[m]
          BY <2>10, <2>11
        <5> QED BY <3>0, <3>3, <5>1 DEF DeskInv, ReadsCurrent, r
      <4> QED BY <4>1, <4>2, <4>3, <4>4
    <3> QED BY <3>2, <3>3
  <2> QED BY <2>7, <2>8, <2>14, <2>15 DEF DeskInv
<1> QED BY <1>2, <1>3

-----------------------------------------------------------------------------
(* Every step *)

\* What a form sends is a value, or nothing
LEMMA SentValues ==
    ASSUME NEW f \in Forms
    PROVE  Sent(f) \in [Settable -> Values \cup {Unset}]
<1> SUFFICES ASSUME NEW k \in Settable
             PROVE  (IF k \in Secret /\ f[k] = Mask THEN Unset ELSE f[k]) \in Values \cup {Unset}
  BY DEF Sent
<1>1. f[k] \in Values \cup {Mask, Unset} /\ (k \notin Secret => f[k] # Mask)
  BY DEF Forms
<1> QED BY <1>1

\* Every step of the desk keeps DeskInv
LEMMA DeskStepInv == DeskInv /\ [DeskNext]_deskVars => DeskInv'
<1> SUFFICES ASSUME DeskInv, [DeskNext]_deskVars PROVE DeskInv'
  OBVIOUS
<1>1. CASE UNCHANGED deskVars
  BY <1>1 DEF deskVars, DeskInv, DeskTypes, DeskTypeOK, DeskShape, FilledIn, Numbered,
              RolesInv, RoleCurrent, SettingsExplained, ReadsCurrent
<1>2. requests \in Nat /\ requests <= MaxRequests /\ DeskTypes /\ DeskTypeOK
  BY Entries DEF DeskInv, DeskTypes
<1>3. ASSUME NEW d \in Desks, NEW i \in Ids, NEW n \in Usernames, NEW o \in Roles,
             BeginCreate(d, i, n, o)
      PROVE  DeskInv'
  <2> DEFINE r == [Idle EXCEPT !.op = "create", !.no = requests + 1, !.id = i,
                               !.want = [username |-> n, role |-> o]]
  <2>1. Begin(d, r)
    BY <1>3 DEF BeginCreate
  <2>2. r \in DeskRequest
    <3>1. requests + 1 \in 0..MaxRequests
      BY <2>1, <1>2, DeskBounds DEF Begin
    <3>2. [username |-> n, role |-> o] \in [username : Usernames \cup {Unset}, role : Roles \cup {Unset}]
      OBVIOUS
    <3> QED BY <3>1, <3>2, IdleRequest DEF DeskRequest
  <2>3. /\ r.op = "create" /\ r.no = requests + 1 /\ r.looked = 0 /\ r.id \in Ids
        /\ r.want \in User /\ users[r.id] = Unset
        /\ \A e \in Desks : desk[e].op = "create" => desk[e].id # r.id
        /\ \A k \in Settable : r.form[k] = Unset /\ r.read[k] = Unset
    BY <1>3 DEF BeginCreate, Idle, User
  <2> HIDE DEF r
  <2> QED BY <2>1, <2>2, <2>3, BeginInv
<1>4. ASSUME NEW d \in Desks, NEW i \in Ids, NEW n \in Usernames \cup {Unset},
             NEW o \in Roles \cup {Unset}, BeginUpdate(d, i, n, o)
      PROVE  DeskInv'
  <2> DEFINE r == [Idle EXCEPT !.op = "update", !.no = requests + 1, !.id = i,
                               !.want = [username |-> n, role |-> o],
                               !.seen = users[i]]
  <2>1. Begin(d, r) /\ users[i] # Unset /\ users[i] \in User
    BY <1>2, <1>4 DEF BeginUpdate, DeskTypeOK
  <2>2. r \in DeskRequest
    <3>1. requests + 1 \in 0..MaxRequests
      BY <2>1, <1>2, DeskBounds DEF Begin
    <3>2. [username |-> n, role |-> o] \in [username : Usernames \cup {Unset}, role : Roles \cup {Unset}]
      OBVIOUS
    <3> QED BY <2>1, <3>1, <3>2, IdleRequest DEF DeskRequest
  <2>3. /\ r.op = "update" /\ r.no = requests + 1 /\ r.looked = 0 /\ r.id \in Ids
        /\ users[r.id] # Unset /\ r.seen \in User /\ r.seen = users[r.id]
        /\ \A k \in Settable : r.form[k] = Unset /\ r.read[k] = Unset
    BY <2>1 DEF Idle
  <2> HIDE DEF r
  <2> QED BY <2>1, <2>2, <2>3, BeginInv
<1>5. ASSUME NEW d \in Desks, NEW f \in Forms, NEW a \in Admins, BeginSave(d, f, a)
      PROVE  DeskInv'
  <2> DEFINE r == [Idle EXCEPT !.op = "save", !.no = requests + 1,
                               !.form = Sent(f), !.by = a]
  <2>1. Begin(d, r)
    BY <1>5 DEF BeginSave
  <2>2. r \in DeskRequest
    <3>1. requests + 1 \in 0..MaxRequests
      BY <2>1, <1>2, DeskBounds DEF Begin
    <3> QED BY <3>1, IdleRequest, SentValues DEF DeskRequest
  <2>3. /\ r.op = "save" /\ r.no = requests + 1 /\ r.looked = 0 /\ r.by \in Admins
        /\ \A k \in Settable : r.read[k] = Unset
    BY DEF Idle
  <2> HIDE DEF r
  <2> QED BY <2>1, <2>2, <2>3, BeginInv
<1>6. ASSUME NEW d \in Desks, LoseCommit(d) PROVE DeskInv'
  <2>1. Rollback(d) /\ failures' = failures + 1 /\ failures < MaxFailures
    BY <1>6 DEF LoseCommit
  <2>2. failures' \in 0..MaxFailures
    BY <2>1, <1>2, DeskBounds DEF DeskTypeOK
  <2> QED BY <2>1, <2>2, RollbackInv
<1> QED BY <1>1, <1>3, <1>4, <1>5, <1>6, EndCreateInv, EndUpdateInv, LookUpInv, EndSaveInv
           DEF DeskNext

-----------------------------------------------------------------------------
(* Theorems *)

\* The invariant of accounts, settings, audit log and of what every request
\* holds in memory, from which the theorems below follow.
THEOREM DeskInductive == DeskSpec => []DeskInv
BY DeskInitInv, DeskStepInv, PTL DEF DeskSpec

\* Users, settings, entries and requests are well formed: no stored secret is
\* the mask that update_settings takes for "unchanged".
THEOREM DeskTypeCorrect == DeskSpec => []DeskTypeOK
<1>1. DeskInv => DeskTypeOK
  BY DEF DeskInv, DeskTypes
<1> QED BY <1>1, DeskInductive, PTL

\* A user's role is the one it was created with or the last committed change
\* tells, the first change tells the former as the old role, and the entries of
\* a user about whom no requests crossed tell every change in the page's order:
\* for any number of create_user and update_user that cross or lose their commit.
THEOREM RolesAreExplained == DeskSpec => []RolesExplained
<1>1. DeskInv => RolesExplained
  BY DEF DeskInv, RolesInv, Tells, Changes, RolesExplained, RoleChanges
<1> QED BY <1>1, DeskInductive, PTL

\* A setting that no two forms of update_settings crossed on is what the newest
\* entry about it tells, and signed by who that entry names.
THEOREM SettingsAreExplained == DeskSpec => []SettingsExplained
<1>1. DeskInv => SettingsExplained
  BY DEF DeskInv
<1> QED BY <1>1, DeskInductive, PTL

-----------------------------------------------------------------------------
(***************************************************************************)
(* FrontDesk                                                               *)
(***************************************************************************)

\* A behaviour of the front desk is one of each part: what one part does
\* leaves the variables of the others alone.
THEOREM PartsRunAsSpecified ==
    Spec => LimiterSpec /\ ChatSpec /\ DeskSpec /\ ArchiveSpec /\ AudienceSpec
<1>1. Init => LimiterInit /\ ChatInit /\ DeskInit /\ ArchiveInit /\ AudienceInit
  BY DEF Init
<1>2. [Next]_vars => [LimiterNext]_limiterVars
  BY DEF Next, vars
<1>3. [Next]_vars => [ChatNext]_chatVars
  BY DEF Next, vars
<1>4. [Next]_vars => [DeskNext]_deskVars
  BY DEF Next, vars
<1>5. [Next]_vars => [ArchiveNext]_archiveVars
  BY DEF Next, vars
<1>6. [Next]_vars => [AudienceNext]_audienceVars
  BY DEF Next, vars
<1> QED
  BY <1>1, <1>2, <1>3, <1>4, <1>5, <1>6, PTL
     DEF Spec, LimiterSpec, ChatSpec, DeskSpec, ArchiveSpec, AudienceSpec

\* The variables of all five parts have their types, whichever part runs.
THEOREM TypeCorrect == Spec => []TypeOK
<1>1. LimiterTypeOK /\ ChatTypeOK /\ DeskTypeOK /\ ArchiveTypeOK /\ AudienceTypeOK <=> TypeOK
  BY DEF TypeOK
<1> QED
  BY <1>1, PartsRunAsSpecified, LimiterTypeCorrect, ChatTypeCorrect, DeskTypeCorrect,
     RowsAreSupported, AudienceTypeCorrect, PTL

\* What the run of FrontDesk checks of its parts holds of it for every value
\* of the constants, as each part's theorem says.
THEOREM PartsKeepTheirs ==
    Spec => /\ []AtMostLimit /\ []RefusalsHaveCause
            /\ []CoherentHistory /\ []HistoryKept
            /\ []RolesExplained /\ []SettingsExplained
            /\ []ClearedIsClear /\ []RefusalsExplained /\ []SnapshotClosed
            /\ []ToldOnce /\ []ScoresAreMeans
BY PartsRunAsSpecified, LimitHolds, RefusalsCaused, HistoryCoherent, HistoryIsKept,
   RolesAreExplained, SettingsAreExplained, ResetClears, ResetsAreRefusedFor,
   SnapshotsAreClosed, EveryoneIsToldOnce, ScoresAreTheMeans, PTL

=============================================================================
