---------------------------- MODULE QueryPromise ----------------------------
(***************************************************************************)
(* What QueryContext promises about its answers and the executions they    *)
(* are about, whatever happens on the way: an answer is final; an answer   *)
(* about an execution's end is true of that execution; an execution is     *)
(* cancelled only when a stop was agreed to; and a call whose answer is    *)
(* not an error never runs anything afterwards.                            *)
(***************************************************************************)
CONSTANT Calls

VARIABLES
  state,   \* of the execution of each call: none, active, or how it ended
  doomed,  \* the executions whose stop was agreed to
  about,   \* the execution each call is about, its own or another's
  answer   \* of each call: none yet, or what it returned

promiseVars == <<state, doomed, about, answer>>

Ends     == {"succeeded", "failed", "cancelled"}
Mishaps  == {"error", "context error"}
Answers  == Mishaps \cup
            {"rows", "failed", "cancelled", "timeout", "ok", "page", "query id",
             "request id", "refused", "workgroup exists"}

Init ==
  /\ state  = [c \in Calls |-> "none"]
  /\ doomed = {}
  /\ about  \in [Calls -> Calls]
  /\ answer = [c \in Calls |-> "none"]

\* Only a call that has not answered, or whose answer went wrong, starts one.
Launch(c) ==
  /\ state[c] = "none"
  /\ about[c] = c
  /\ answer[c] \in Mishaps \cup {"none"}
  /\ state' = [state EXCEPT ![c] = "active"]
  /\ UNCHANGED <<doomed, about, answer>>

Settle(c, how) ==
  /\ state[c] = "active"
  /\ how = "cancelled" => c \in doomed
  /\ state' = [state EXCEPT ![c] = how]
  /\ UNCHANGED <<doomed, about, answer>>

Doom(c) ==
  /\ state[c] # "none"
  /\ doomed' = doomed \cup {c}
  /\ UNCHANGED <<state, about, answer>>

True(c, how) ==
  /\ how = "rows" => state[about[c]] = "succeeded"
  /\ how \in {"failed", "cancelled"} => state[about[c]] = how
  /\ how = "ok" => about[c] \in doomed
  /\ how \in {"timeout", "query id"} => state[c] # "none"
  /\ how \in {"refused", "workgroup exists", "request id"} => state[c] = "none"

Reply(c, how) ==
  /\ answer[c] = "none"
  /\ True(c, how)
  /\ answer' = [answer EXCEPT ![c] = how]
  /\ UNCHANGED <<state, doomed, about>>

Next ==
  \E c \in Calls :
    \/ Launch(c) \/ Doom(c)
    \/ \E how \in Ends : Settle(c, how)
    \/ \E how \in Answers : Reply(c, how)

Spec == Init /\ [][Next]_promiseVars
=============================================================================
