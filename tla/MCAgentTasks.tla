--------------------------- MODULE MCAgentTasks ---------------------------
(* TLC instances of AgentTasks. *)
EXTENDS AgentTasks

CONSTANTS d1

\* One type per slot that may run beside the others.
MCApartTypes == {"restart", "rewind_rows", "files_check"}
MCReportTypes == {"backup"}
MCArgs == {"full"}

\* Every claim request of the loops.
MCFilters ==
  {{}, standbyUrgentTypes, FilesTaskTypes}
    \cup {fastLaneTypes \cup a \cup b : a \in {{}, sideTypes}, b \in {{}, poolerTypes}}
=============================================================================
