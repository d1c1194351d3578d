---------------------------- MODULE MCFileStore ----------------------------
(* Small instances of FileStore: uploads of identical bytes, so that every   *)
(* upload may find a duplicate.                                              *)
EXTENDS FileStore, TLC

SameChecksum == [f \in Files |-> CHOOSE c \in Contents : TRUE]

(* The environments of LiveHasBlob and of the properties of the race, and one *)
(* in which acknowledgements are lost.                                        *)
LostAcks == AllAssumptions \ {"ReliableAcks"}
SafeEnvironments == {Quiet, OnTime, LostAcks}

(* bound: reconcile does not run where acknowledgements are lost *)
SweepsOrLosses == "ReliableAcks" \in env \/ \A s \in Sweeps : rcPhase[s] = "off"

Symmetry == Permutations(Files)
=============================================================================
