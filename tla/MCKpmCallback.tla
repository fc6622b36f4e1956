--------------------------- MODULE MCKpmCallback ---------------------------
(***************************************************************************)
(* Instances of KpmCallback for TLC: the indications are few, but each     *)
(* kind of UE identity, of record and of description is in one of them.    *)
(***************************************************************************)
EXTENDS KpmCallbackReports, MCMessages, TLC

CONSTANTS t1, t2, t3

OneThread == {t1}
ThreeThreads == {t1, t2, t3}
Symmetry == Permutations(Threads)

=============================================================================
