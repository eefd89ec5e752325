-------------------------- MODULE MCControlPlane --------------------------
(* TLC instances of ControlPlane. *)
EXTENDS ControlPlane, TLC

CONSTANTS d1, d2

MCMarkNames == {"m1"}
MCTwoNames == {"m1", "m2"}
MCArgs == {"plan", "apply", "full", "diff", "m1", "m2"}

MCSetupTypes == {"adopt", "check", "restart", "backup", "drill"}
MCSetupRequests == {"adopt", "check", "restart"}

MCChangeTypes == {"restore_point", "upgrade", "reboot", "upgrade_check", "inspect", "backup", "drill"}
MCChangeRequests == {"restore_point", "upgrade", "reboot", "upgrade_check"}

MCRewindTypes == {"restore_point", "rewind_in_place", "rewind_undo", "rewind_cleanup", "backup",
                  "check", "drill"}
MCRewindRequests == {"rewind_in_place", "rewind_undo", "rewind_cleanup", "drill"}

MCTypes == MCSetupTypes \cup MCChangeTypes \cup MCRewindTypes

\* One database (either, for the symmetry) set up from nothing, rewound or
\* upgraded, and two databases changed side by side.
MCSetup(dbs) == [dbs |-> dbs, requests |-> MCSetupRequests, schedules |-> {"full", "diff"},
                 start |-> "new", bound |-> 7]
MCRewind(dbs) == [dbs |-> dbs, requests |-> MCRewindRequests, schedules |-> {"drill"},
                  start |-> "settled", bound |-> 8]
MCChanges(dbs, schedules, bound) ==
  [dbs |-> dbs, requests |-> MCChangeRequests, schedules |-> schedules,
   start |-> "settled", bound |-> bound]
MCScenarios ==
  {MCSetup({d}) : d \in {d1, d2}} \cup {MCRewind({d}) : d \in {d1, d2}}
    \cup {MCChanges({d1, d2}, {}, 5)}

MCSymmetry == Permutations({d1, d2})
=============================================================================
