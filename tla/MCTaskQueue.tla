---------------------------- MODULE MCTaskQueue ----------------------------
(* TLC instance of TaskQueue. *)
EXTENDS TaskQueue

CONSTANTS d1

\* Three lanes that interact: a task that stops PostgreSQL, a health fix, and
\* copies of the main lane, of which two may wait together.
MCTypes == {"safe_copy", "standby_fence", "rewind_rows"}
MCArgs == {"one", "two"}

\* The main loop, the fast lane and the standby lane ask for these.
MCFilters == {{}, {"rewind_rows"}, {"standby_fence"}}
=============================================================================
