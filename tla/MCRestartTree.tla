---------------------------- MODULE MCRestartTree ----------------------------
(* Instances of RestartTree for TLC: all families of up to NProcs processes *)
(* that the chosen operations lead to.                                      *)
EXTENDS RestartTree
=============================================================================
