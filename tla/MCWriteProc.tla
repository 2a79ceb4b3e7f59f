----------------------------- MODULE MCWriteProc -----------------------------
(* WriteProc on small instances.  Clients are interchangeable, and so are    *)
(* the contents of spec and of status.                                       *)
EXTENDS WriteProc, TLC

Symmetry == Permutations(Clients) \cup Permutations(Specs) \cup Permutations(Statuses)
=============================================================================
