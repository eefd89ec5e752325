--------------------------- MODULE TaskLifecycle ---------------------------
(***************************************************************************)
(* What the control plane promises about one task, whoever claims it and   *)
(* however often the agent dies: it is queued once, handed out at most     *)
(* once, and the outcome recorded for it is never replaced by another one. *)
(* History that grew too long is forgotten, never reopened.                *)
(***************************************************************************)
CONSTANT TaskIds

VARIABLE status

Outcome == {"succeeded", "failed", "lost", "cancelled"}
Status == {"none", "queued", "running", "forgotten"} \cup Outcome

(* "forgotten" is reachable in the step that finishes the task: the update *)
(* that records an outcome also prunes the history.                        *)
Moves ==
  [none      |-> {"queued"},
   queued    |-> {"running", "cancelled", "forgotten"},
   running   |-> {"succeeded", "failed", "lost", "forgotten"},
   succeeded |-> {"forgotten"},
   failed    |-> {"forgotten"},
   lost      |-> {"forgotten"},
   cancelled |-> {"forgotten"},
   forgotten |-> {}]

Init == status = [i \in TaskIds |-> "none"]

(* A step hands out at most one task. *)
Next ==
  /\ status' \in [TaskIds -> Status]
  /\ \A i \in TaskIds : status'[i] = status[i] \/ status'[i] \in Moves[status[i]]
  /\ \A i, j \in TaskIds :
       (/\ status[i] = "queued" /\ status'[i] = "running"
        /\ status[j] = "queued" /\ status'[j] = "running") => i = j

Spec == Init /\ [][Next]_status
=============================================================================
