--------------------------- MODULE MCSnapcastComm ---------------------------
(* Instances of SnapcastComm for TLC.                                      *)
EXTENDS SnapcastComm, TLC

\* The threads that call SnapcastComm are interchangeable in the safety runs.
CallerSymmetry == Permutations(Callers)
=============================================================================
