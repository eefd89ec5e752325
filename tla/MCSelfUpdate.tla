---------------------------- MODULE MCSelfUpdate ----------------------------
(* TLC instance of SelfUpdate. *)
EXTENDS SelfUpdate

\* The release after the installed one is broken in either way, and may be
\* followed by a good one that it is skipped for or replaced by.
MCKinds == {<<"good", "mute", "good">>, <<"good", "crash", "good">>}
=============================================================================
