----------------------------- MODULE AdminDesk -----------------------------
(***************************************************************************)
(* Accounts, system settings and the audit log that tells of them: the     *)
(* registration and the admin endpoints that create and change users, and  *)
(* the settings form.                                                      *)
(*                                                                         *)
(* A request is one transaction at READ COMMITTED, ended by the commit in  *)
(* write_audit, which writes the entry together with what it tells of.     *)
(* When that commit fails everything is rolled back, the failure is only   *)
(* logged and the handler goes on.  Two rows cannot have one username or   *)
(* one key: the second INSERT waits for the first and fails.  An UPDATE    *)
(* sets the columns that differ from what the request loaded, however old  *)
(* that is, and no other.                                                  *)
(*                                                                         *)
(* Of a user only the unique username and the role are kept (e-mail is     *)
(* unique like the username; name and password are nobody's concern here). *)
(* The login, which only writes entries and last_active, is left out.      *)
(***************************************************************************)
EXTENDS Integers, Sequences, FiniteSets

CONSTANTS
    Ids,          \* ids of users
    Usernames, Roles, Admins,
    SettingKeys,  \* the keys of a form in the order they are sent in
    Secret,       \* those stored encrypted and never sent back
    Values,       \* what a setting can be
    Mask,         \* what the form shows for a secret
    Desks,        \* requests at the same time
    Unset,        \* no user, no setting, not asked for
    MaxRequests,  \* bound: requests made
    MaxFailures   \* bound: commits that fail

ASSUME DeskAssumption ==
    /\ SettingKeys \in Seq({SettingKeys[i] : i \in DOMAIN SettingKeys})
    /\ Secret \subseteq {SettingKeys[i] : i \in DOMAIN SettingKeys}
    /\ Mask \notin Values
    /\ Unset \notin Ids \cup Usernames \cup Roles \cup Admins \cup Values \cup {Mask}
    /\ Unset \notin [username : Usernames, role : Roles]
    /\ Unset \notin [value : Values, by : Admins]

ASSUME DeskBounds == MaxRequests \in Nat /\ MaxFailures \in Nat

VARIABLES
    users,       \* users[i]: the row of users, or Unset
    settings,    \* settings[k]: the row of system_settings, or Unset
    trail,       \* audit_log, in the order of the commits
    desk,        \* desk[d]: the request in progress
    crossed,     \* history variable: what was written by two requests of
                 \* which neither had ended when the other began to read
    given,       \* history variable: the role a user was created with
    requests, failures

deskVars == <<users, settings, trail, desk, crossed, given, requests, failures>>

Settable == {SettingKeys[i] : i \in DOMAIN SettingKeys}

User    == [username : Usernames, role : Roles]
Setting == [value : Values, by : Admins]

(* op, no: the request and its number, its transaction's start.  id, want, *)
(* seen: the user, what is asked for and what was loaded.  form, by: the   *)
(* settings sent, and by whom; looked: the place of the last one that was  *)
(* looked up; read: their rows as loaded.                                  *)
Idle == [op |-> "idle", no |-> 0, id |-> Unset,
         want |-> [username |-> Unset, role |-> Unset], seen |-> Unset,
         form |-> [k \in Settable |-> Unset], by |-> Unset, looked |-> 0,
         read |-> [k \in Settable |-> Unset]]

NoEntry == [what |-> "none", at |-> 0, id |-> Unset, was |-> Unset, role |-> Unset,
            sets |-> [k \in Settable |-> Unset], by |-> Unset]

DeskInit ==
    /\ users = [i \in Ids |-> Unset]
    /\ settings = [k \in Settable |-> Unset]
    /\ trail = <<>>
    /\ desk = [d \in Desks |-> Idle]
    /\ crossed = {}
    /\ given = [i \in Ids |-> Unset]
    /\ requests = 0 /\ failures = 0

-----------------------------------------------------------------------------
(* Requests, transactions *)

Begin(d, request) ==
    /\ desk[d].op = "idle" /\ requests < MaxRequests
    /\ requests' = requests + 1
    /\ desk' = [desk EXCEPT ![d] = request]
    /\ UNCHANGED <<users, settings, trail, crossed, given, failures>>

\* What a request in progress is about
Concerns(r) == ({r.id} \ {Unset}) \cup {k \in Settable : r.form[k] # Unset}

\* The transaction ends: R of users, S of settings and the entry are stored
Commit(d, R, S, entries) ==
    /\ users' = R /\ settings' = S
    /\ trail' = trail \o entries
    /\ desk' = [desk EXCEPT ![d] = Idle]
    /\ crossed' = crossed \cup (Concerns(desk[d]) \cap
                                UNION {Concerns(desk[e]) : e \in Desks \ {d}})
    /\ given' = [i \in Ids |-> IF users[i] = Unset /\ R[i] # Unset THEN R[i].role
                                                                  ELSE given[i]]
    /\ UNCHANGED <<requests, failures>>

\* Nothing is stored: a constraint, or the connection, fails
Rollback(d) ==
    /\ desk' = [desk EXCEPT ![d] = Idle]
    /\ UNCHANGED <<users, settings, trail, crossed, given, requests>>

LoseCommit(d) ==
    /\ desk[d].op # "idle" /\ failures < MaxFailures
    /\ failures' = failures + 1
    /\ Rollback(d)

-----------------------------------------------------------------------------
(* Accounts *)

Used(name) == \E i \in Ids : users[i] # Unset /\ users[i].username = name

\* register_user, create_user: the name is looked up first
BeginCreate(d, i, name, role) ==
    /\ ~Used(name) /\ users[i] = Unset
    /\ \A e \in Desks : desk[e].op = "create" => desk[e].id # i
    /\ Begin(d, [Idle EXCEPT !.op = "create", !.no = requests + 1, !.id = i,
                             !.want = [username |-> name, role |-> role]])

\* The entry names the user and has no detail: it does not tell the role
EndCreate(d) ==
    LET r == desk[d]
    IN /\ r.op = "create"
       /\ IF Used(r.want.username) THEN Rollback(d) /\ UNCHANGED failures
          ELSE Commit(d, [users EXCEPT ![r.id] = r.want], settings,
                 <<[NoEntry EXCEPT !.what = "user.created", !.at = r.no,
                                   !.id = r.id]>>)

BeginUpdate(d, i, name, role) ==
    /\ users[i] # Unset
    /\ Begin(d, [Idle EXCEPT !.op = "update", !.no = requests + 1, !.id = i,
                             !.want = [username |-> name, role |-> role],
                             !.seen = users[i]])

\* The columns that are asked for and differ from what was loaded
Updated(row, r) ==
    [c \in {"username", "role"} |->
       IF r.want[c] \in {Unset, r.seen[c]} THEN row[c] ELSE r.want[c]]

\* (mutant: a role that is asked for is told, changed or not)
EntriesAsAsked(r) ==
    IF r.want.role = Unset THEN <<>>
    ELSE <<[NoEntry EXCEPT !.what = "user.role_changed", !.at = r.no, !.id = r.id,
                           !.was = r.seen.role, !.role = r.want.role]>>

\* A change of role is told in the transaction that makes it
RoleEntries(r) ==
    IF r.want.role \in {Unset, r.seen.role} THEN <<>>
    ELSE <<[NoEntry EXCEPT !.what = "user.role_changed", !.at = r.no, !.id = r.id,
                           !.was = r.seen.role, !.role = r.want.role]>>

EndUpdate(d) ==
    LET r == desk[d]
        row == Updated(users[r.id], r)
    IN /\ r.op = "update"
       /\ IF \E i \in Ids \ {r.id} : users[i] # Unset /\ users[i].username = row.username
          THEN Rollback(d) /\ UNCHANGED failures
          ELSE Commit(d, [users EXCEPT ![r.id] = row], settings, RoleEntries(r))

-----------------------------------------------------------------------------
(* Settings *)

\* (mutant: the mask is a value like any other)
SentAsShown(form) == form

\* A secret that is empty or the mask is what the form was filled with
Sent(form) == [k \in Settable |-> IF k \in Secret /\ form[k] = Mask THEN Unset
                                  ELSE form[k]]

BeginSave(d, form, admin) ==
    Begin(d, [Idle EXCEPT !.op = "save", !.no = requests + 1,
                          !.form = Sent(form), !.by = admin])

\* The places of the settings that are saved, and of those still to look up
Given(r) == {i \in DOMAIN SettingKeys : r.form[SettingKeys[i]] # Unset}
Ahead(r) == {i \in Given(r) : i > r.looked}

LookedUp(r, n) == {SettingKeys[i] : i \in {i \in Given(r) : i <= n}}

\* What the request writes, unless it finds what it would write; a secret is
\* never found so, as each encryption of it is another text
Writes(r, k) ==
    /\ k \in LookedUp(r, r.looked)
    /\ k \in Secret \/ r.read[k] # [value |-> r.form[k], by |-> r.by]

\* A lookup first flushes the write before it, whose row is locked until the
\* transaction ends
Pending(r) == {SettingKeys[i] : i \in {r.looked} \ {0}}
Held(r)    == LookedUp(r, r.looked - 1)

CanFlush(d, k) == Writes(desk[d], k) =>
                    \A e \in Desks \ {d} : ~(Writes(desk[e], k) /\ k \in Held(desk[e]))

\* A row that was not there when it was looked up and now is
Clashes(r, k) == Writes(r, k) /\ r.read[k] = Unset /\ settings[k] # Unset

LookUp(d) ==
    LET r == desk[d]
    IN /\ r.op = "save" /\ Ahead(r) # {}
       /\ \A p \in Pending(r) : CanFlush(d, p)
       /\ IF \E p \in Pending(r) : Clashes(r, p)
          THEN Rollback(d) /\ UNCHANGED failures
          ELSE /\ \E i \in Ahead(r) :
                    LET k == SettingKeys[i]
                    IN /\ \A j \in Ahead(r) : i <= j
                       /\ desk' = [desk EXCEPT ![d].looked = i, ![d].read[k] = settings[k]]
               /\ UNCHANGED <<users, settings, trail, crossed, given, requests, failures>>

\* A column that is what was loaded stays what it is by now
Kept(old, now, new) == IF old = new THEN now ELSE new

\* (mutant: an update forgets who made it)
StoredUnsigned(r, k) ==
    IF ~Writes(r, k) THEN settings[k]
    ELSE IF r.read[k] = Unset THEN [value |-> r.form[k], by |-> r.by]
    ELSE [settings[k] EXCEPT !.value = IF k \in Secret THEN r.form[k]
                                      ELSE Kept(r.read[k].value, @, r.form[k])]

Stored(r, k) ==
    IF ~Writes(r, k) THEN settings[k]
    ELSE IF r.read[k] = Unset THEN [value |-> r.form[k], by |-> r.by]
    ELSE [value |-> IF k \in Secret THEN r.form[k]
                    ELSE Kept(r.read[k].value, settings[k].value, r.form[k]),
          by |-> Kept(r.read[k].by, settings[k].by, r.by)]

EndSave(d) ==
    LET r == desk[d]
    IN /\ r.op = "save" /\ Ahead(r) = {}
       /\ \A p \in Pending(r) : CanFlush(d, p)
       /\ IF \E p \in Pending(r) : Clashes(r, p)
          THEN Rollback(d) /\ UNCHANGED failures
          ELSE Commit(d, users, [k \in Settable |-> Stored(r, k)],
                 <<[NoEntry EXCEPT !.what = "admin.settings_changed", !.at = r.no,
                                   !.sets = r.form, !.by = r.by]>>)

-----------------------------------------------------------------------------
Forms == {f \in [Settable -> Values \cup {Mask, Unset}] :
            /\ \E k \in Settable : f[k] # Unset
            /\ \A k \in Settable \ Secret : f[k] # Mask}

DeskNext ==
    \E d \in Desks :
      \/ \E i \in Ids, n \in Usernames, o \in Roles : BeginCreate(d, i, n, o)
      \/ \E i \in Ids, n \in Usernames \cup {Unset}, o \in Roles \cup {Unset} :
           BeginUpdate(d, i, n, o)
      \/ \E f \in Forms, a \in Admins : BeginSave(d, f, a)
      \/ EndCreate(d) \/ EndUpdate(d) \/ LookUp(d) \/ EndSave(d)
      \/ LoseCommit(d)

DeskSpec == DeskInit /\ [][DeskNext]_deskVars

-----------------------------------------------------------------------------
(* Properties *)

\* Users, settings, entries and requests have their types: among them, no
\* secret is ever the mask the form shows for it.
DeskTypeOK ==
    /\ users \in [Ids -> User \cup {Unset}]
    /\ settings \in [Settable -> Setting \cup {Unset}]
    /\ trail \in Seq([what : {"user.created", "user.role_changed", "admin.settings_changed"},
                      at : 1..MaxRequests, id : Ids \cup {Unset},
                      was : Roles \cup {Unset}, role : Roles \cup {Unset},
                      sets : [Settable -> Values \cup {Unset}], by : Admins \cup {Unset}])
    /\ \A d \in Desks : desk[d].op \in {"idle", "create", "update", "save"}
    /\ given \in [Ids -> Roles \cup {Unset}]
    /\ requests \in 0..MaxRequests /\ failures \in 0..MaxFailures
    /\ crossed \subseteq Ids \cup Settable

\* The entries that tell of changes of i's role
RoleChanges(i) == {n \in 1..Len(trail) : /\ trail[n].what = "user.role_changed"
                                         /\ trail[n].id = i}

\* The role of a user whom no entry of a change is about is the one the user
\* was created with (which no entry tells); the first change tells that role
\* as the old one, and the last one committed the role the user has, whichever
\* requests crossed: an admin who asks for the role the page showed changes
\* nothing and leaves no entry, though it is another by now.  Unless requests
\* about the user crossed, the audit page's order by created_at is the order
\* of the changes, and each entry's old role is the new one of the entry before.
RolesExplained ==
    \A i \in Ids : users[i] # Unset =>
      LET told == RoleChanges(i)
      IN /\ told = {} => users[i].role = given[i]
         /\ \A n \in told :
              /\ told \subseteq 1..n => trail[n].role = users[i].role
              /\ told \subseteq n..Len(trail) => trail[n].was = given[i]
              /\ i \notin crossed => \A m \in told : m < n =>
                   /\ trail[m].at < trail[n].at
                   /\ told \cap (m + 1)..(n - 1) = {} => trail[n].was = trail[m].role

\* A setting is what the newest entry that mentions it tells, and updated_by
\* is who that entry names, unless two saves of it crossed: the audit page
\* orders entries by created_at, which is when the transaction began.  (Of a
\* secret the entry tells the mask in the code; here, the value it was set to.)
SettingsExplained ==
    \A k \in Settable \ crossed :
      LET about == {n \in 1..Len(trail) : trail[n].sets[k] # Unset}
      IN IF settings[k] = Unset THEN about = {}
         ELSE \E n \in about :
                /\ settings[k] = [value |-> trail[n].sets[k], by |-> trail[n].by]
                /\ \A m \in about \ {n} : trail[m].at < trail[n].at

=============================================================================
