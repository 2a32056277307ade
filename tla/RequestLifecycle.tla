-------------------------- MODULE RequestLifecycle --------------------------
(***************************************************************************)
(* What an outbound request promises to its caller and to the other side:  *)
(* it is settled once, by an answer or by being closed; its caller gets    *)
(* one result, a response only when it was answered; and the other side is *)
(* told, once, about a request that was given up before any answer.        *)
(***************************************************************************)
CONSTANT Requests

VARIABLES
  status,   \* "unsent", "open", "answered" or "closed"
  result,   \* what the caller got: "none", "response", "error" or "given_up"
  told      \* the requests the other side was told are cancelled

vars == <<status, result, told>>

Init ==
  /\ status = [r \in Requests |-> "unsent"]
  /\ result = [r \in Requests |-> "none"]
  /\ told = {}

\* The request takes its id and can be answered from here on.
Issue(r) ==
  /\ status[r] = "unsent"
  /\ status' = [status EXCEPT ![r] = "open"]
  /\ UNCHANGED <<result, told>>

Answer(r) ==
  /\ status[r] = "open"
  /\ status' = [status EXCEPT ![r] = "answered"]
  /\ UNCHANGED <<result, told>>

\* A shutdown closes any number of open requests, a drop closes its own.
Close(S) ==
  /\ \A r \in S : status[r] = "open"
  /\ status' = [r \in Requests |-> IF r \in S THEN "closed" ELSE status[r]]
  /\ UNCHANGED <<result, told>>

Return(r, v) ==
  /\ status[r] # "unsent" /\ result[r] = "none"
  /\ v = "response" => status[r] = "answered"
  /\ result' = [result EXCEPT ![r] = v]
  /\ UNCHANGED <<status, told>>

Tell(r) ==
  /\ status[r] = "closed" /\ result[r] = "given_up" /\ r \notin told
  /\ told' = told \cup {r}
  /\ UNCHANGED <<status, result>>

Next ==
  \/ \E r \in Requests : Issue(r) \/ Answer(r) \/ Tell(r)
  \/ \E r \in Requests, v \in {"response", "error", "given_up"} : Return(r, v)
  \/ \E S \in SUBSET Requests : Close(S)

Spec == Init /\ [][Next]_vars
=============================================================================
