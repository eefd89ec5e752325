-------------------------- MODULE MCRewindInPlace --------------------------
(* TLC instance of RewindInPlace. *)
EXTENDS RewindInPlace

MCSetup(contents, n, u, c) == [contents |-> contents, faults |-> n, undos |-> u, cleanups |-> c]

\* A native host and a Docker volume with three faults anywhere, between two
\* renames of a rollback too, and undos, and either with a deletion of what is kept.
MCSetups ==
  {MCSetup(FALSE, 3, 2, 0), MCSetup(TRUE, 3, 2, 0), MCSetup(FALSE, 1, 0, 1), MCSetup(TRUE, 1, 0, 1)}
=============================================================================
