----------------------------- MODULE FrontDesk -----------------------------
(***************************************************************************)
(* The parts of the API that keep state of their own beside the rules: the *)
(* limiter, chat, accounts and settings, snapshot and reset, subscriptions *)
(* and feedback.  They meet only where a call passes the limiter before    *)
(* chat begins, which takes requests away from chat and adds none, so      *)
(* whatever every pattern of requests keeps is kept behind the limiter     *)
(* too.  One behaviour of this module is one of a part's, while the others *)
(* stay as they began.                                                     *)
(***************************************************************************)
EXTENDS RateLimiter, ChatSession, AdminDesk, Archive, Audience

VARIABLE part   \* the part this behaviour is about

vars == <<limiterVars, chatVars, deskVars, archiveVars, audienceVars, part>>

Parts == {"limiter", "chat", "desk", "archive", "audience"}

Init == /\ LimiterInit /\ ChatInit /\ DeskInit /\ ArchiveInit
        /\ AudienceInit
        /\ part \in Parts

Next ==
    /\ UNCHANGED part
    /\ \/ /\ part = "limiter" /\ LimiterNext
          /\ UNCHANGED <<chatVars, deskVars, archiveVars, audienceVars>>
       \/ /\ part = "chat" /\ ChatNext
          /\ UNCHANGED <<limiterVars, deskVars, archiveVars, audienceVars>>
       \/ /\ part = "desk" /\ DeskNext
          /\ UNCHANGED <<limiterVars, chatVars, archiveVars, audienceVars>>
       \/ /\ part = "archive" /\ ArchiveNext
          /\ UNCHANGED <<limiterVars, chatVars, deskVars, audienceVars>>
       \/ /\ part = "audience" /\ AudienceNext
          /\ UNCHANGED <<limiterVars, chatVars, deskVars, archiveVars>>

Spec == Init /\ [][Next]_vars

\* The variables of all five parts have their types.
TypeOK == /\ LimiterTypeOK /\ ChatTypeOK /\ DeskTypeOK /\ ArchiveTypeOK
          /\ AudienceTypeOK

=============================================================================
