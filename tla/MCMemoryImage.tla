---------------------------- MODULE MCMemoryImage ----------------------------
(* Instances of MemoryImage for TLC: regions and what can happen to each.   *)
(* With 100 units the disk is never full.                                   *)
EXTENDS MemoryImage

AllKinds   == <<"plain", "malloc", "cache", "dyld", "skipped">>
SomeFaults == <<{"truncate", "pageout"}, {"protect"}, {}, {"seal"}, {}>>

Plain    == <<"plain">>
TwoPlain == <<"plain", "plain">>

NoFaults  == [r \in Users |-> {}]
AllFaults == [r \in Users |-> FaultKinds \ {"empty"}]
=============================================================================
