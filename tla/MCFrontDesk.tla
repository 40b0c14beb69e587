---------------------------- MODULE MCFrontDesk ----------------------------
(***************************************************************************)
(* TLC instance of FrontDesk.  Limiter: four calls of one key, two allowed *)
(* in a window of four milliseconds, one of delay.  Chat: two sessions,    *)
(* four requests in the first, two exchanges remembered.  Desk: two users, *)
(* three roles, so that two requests may ask for different new ones, a     *)
(* plain and a secret setting.  Archive: a rule with its service, a        *)
(* version, a document, a run with its source and a checkpoint.  Audience: *)
(* two users, two rules, four requests and two signals.                    *)
(***************************************************************************)
EXTENDS FrontDesk, TLC

CONSTANTS c1, c2, c3, c4, c5, user, talk, side, model, key

MCCallers   == {c1, c2, c3, c4}
MCKeyOf     == [c \in MCCallers |-> user]
MCSessionOf == [c \in MCCallers \cup {c5} |-> IF c = c5 THEN side ELSE talk]

MCSettingKeys == <<model, key>>

MCTableOf ==
    [svc |-> "services", rule |-> "rules", version |-> "rule_versions",
     link |-> "rule_services", doc |-> "documents", src |-> "ingest_sources",
     run |-> "ingest_runs", chk |-> "ingest_file_checkpoints"]

MCRows == DOMAIN MCTableOf

MCNeeds ==
    [r \in MCRows |-> IF r = "version" THEN {"rule"}
                      ELSE IF r = "link" THEN {"rule", "svc"}
                      ELSE IF r = "chk" THEN {"run"} ELSE {}]

MCTransactions == {{"svc", "rule", "link"}, {"version"}, {"doc"}, {"src", "run"}, {"chk"}}

\* TLC tries every permutation on every state: this one pays
FrontSymmetry == Permutations(Usernames)

=============================================================================
