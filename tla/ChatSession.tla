---------------------------- MODULE ChatSession ----------------------------
(***************************************************************************)
(* Chat and its sessions (services/chat_service.py).  The history of a     *)
(* session is one JSON value in Redis, written with SETEX.  A request      *)
(* loads it, answers from the last exchanges of what it loaded, which may  *)
(* take as long as an LLM takes, and writes its copy with its own exchange *)
(* at the end: two requests of a session may cross.  When Redis fails, the *)
(* request goes on with an empty history, or without saving.               *)
(*                                                                         *)
(* An exchange, a user's message and its answer, is two entries of the     *)
(* list in the code.  What a request finds in the graph and in the rules   *)
(* is left out.                                                            *)
(***************************************************************************)
EXTENDS Integers, Sequences

CONSTANTS
    Askers,      \* the requests
    Sessions,    \* sessions, of a user each: the key is chat:<user>:<session>
    SessionOf,   \* SessionOf[c]: the session of request c
    Remembered   \* exchanges the LLM is given: 3, as 6 entries

ASSUME ChatAssumption ==
    SessionOf \in [Askers -> Sessions] /\ Remembered \in Nat

VARIABLES
    history,     \* history[s]: the exchanges under the session's key
    turn,        \* turn[c]: how far request c is, and the history it loaded
    answered,    \* history variable: the requests answered, in order
    spoilt       \* history variable: sessions where requests crossed, Redis
                 \* failed or the key expired

chatVars == <<history, turn, answered, spoilt>>

\* seen: the requests whose exchanges the LLM was given for the answer
Exchange == [by : Askers, llm : BOOLEAN, seen : SUBSET Askers]

ChatInit ==
    /\ history = [s \in Sessions |-> <<>>]
    /\ turn = [c \in Askers |-> [at |-> "new", copy |-> <<>>]]
    /\ answered = <<>>
    /\ spoilt = {}

\* The last exchanges of the first n of list q
Recent(q, n) == {q[i].by : i \in {j \in 1..n : j > n - Remembered}}

-----------------------------------------------------------------------------
\* _load_session: no answer from Redis is an empty history
Load(c) ==
    /\ turn[c].at = "new"
    /\ \E h \in {history[SessionOf[c]], <<>>} :
         turn' = [turn EXCEPT ![c] = [at |-> "thinking", copy |-> h]]
    /\ UNCHANGED <<history, answered, spoilt>>

\* _llm_answer: the LLM's text, or when it is switched off, fails or says
\* nothing, the fallback that knows of no history
Answers(c) ==
    {[by |-> c, llm |-> TRUE, seen |-> Recent(turn[c].copy, Len(turn[c].copy))],
     [by |-> c, llm |-> FALSE, seen |-> {}]}

\* (mutants: the exchange is pushed to the list as it is by now; only what the
\* LLM is given is kept)
Pushed(c, e) == Append(history[SessionOf[c]], e)

KeptShort(c, e) ==
    LET q == turn[c].copy
    IN Append(SubSeq(q, IF Len(q) > Remembered THEN Len(q) - Remembered + 1 ELSE 1, Len(q)), e)

\* What _save_session writes
Saved(c, e) == Append(turn[c].copy, e)

Answer(c) ==
    /\ turn[c].at = "thinking"
    /\ turn' = [turn EXCEPT ![c] = [at |-> "done", copy |-> <<>>]]
    /\ answered' = Append(answered, c)
    /\ LET s == SessionOf[c]
       IN \/ /\ \E e \in Answers(c) : history' = [history EXCEPT ![s] = Saved(c, e)]
             /\ spoilt' = IF turn[c].copy = history[s] THEN spoilt
                          ELSE spoilt \cup {s}
          \/ /\ UNCHANGED history       \* Redis failed: the answer is given
             /\ spoilt' = spoilt \cup {s}

\* The request fails, or its client's connection is gone
GiveUp(c) ==
    /\ turn[c].at = "thinking"
    /\ turn' = [turn EXCEPT ![c] = [at |-> "done", copy |-> <<>>]]
    /\ UNCHANGED <<history, answered, spoilt>>

\* 24 hours after the last save
Expire(s) ==
    /\ history[s] # <<>>
    /\ history' = [history EXCEPT ![s] = <<>>]
    /\ spoilt' = spoilt \cup {s}
    /\ UNCHANGED <<turn, answered>>

ChatNext ==
    \/ \E c \in Askers : Load(c) \/ Answer(c) \/ GiveUp(c)
    \/ \E s \in Sessions : Expire(s)

ChatSpec == ChatInit /\ [][ChatNext]_chatVars

-----------------------------------------------------------------------------
(* Properties *)

\* The histories, the copies the requests hold and the history variables
\* have their types.
ChatTypeOK ==
    /\ history \in [Sessions -> Seq(Exchange)]
    /\ turn \in [Askers -> [at : {"new", "thinking", "done"}, copy : Seq(Exchange)]]
    /\ answered \in Seq(Askers)
    /\ spoilt \in SUBSET Sessions

\* An answer in a history was given knowing the exchanges just before it and
\* no other: requests that cross lose an exchange, as the whole list is
\* written, and never leave an answer behind a question it did not follow.
CoherentHistory ==
    \A s \in Sessions : \A i \in 1..Len(history[s]) :
      history[s][i].llm => history[s][i].seen = Recent(history[s], i - 1)

Before(a, b) == \E i, j \in 1..Len(answered) :
                  i < j /\ answered[i] = a /\ answered[j] = b

\* A history has its own session's requests in the order of their answers,
\* none of them twice; all of them, unless two requests crossed, Redis failed
\* or the session expired ("Chat history preserved per user session").
HistoryKept ==
    \A s \in Sessions :
      /\ \A i, j \in 1..Len(history[s]) :
           i < j => Before(history[s][i].by, history[s][j].by)
      /\ \A i \in 1..Len(history[s]) : SessionOf[history[s][i].by] = s
      /\ s \notin spoilt =>
           \A i \in 1..Len(answered) : SessionOf[answered[i]] = s =>
             \E j \in 1..Len(history[s]) : history[s][j].by = answered[i]

=============================================================================
