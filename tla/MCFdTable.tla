----------------------------- MODULE MCFdTable -----------------------------
(***************************************************************************)
(* Instances of FdTable for TLC: names, and the values that are only told  *)
(* apart.                                                                  *)
(***************************************************************************)
EXTENDS FdTable, TLC

CONSTANTS u1, u2, f1, f2, d1, d2, d3, d4, d5, a1, a2, a3, a4

\* Addresses, files and threads are interchangeable.
Interchangeable ==
  Permutations(Addrs) \cup Permutations(Files) \cup Permutations(Users)
=============================================================================
