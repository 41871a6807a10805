----------------------------- MODULE MCEndpoint -----------------------------
(* Instances of Endpoint for TLC.                                          *)
EXTENDS Endpoint, TLC

\* Addresses are interchangeable in the safety runs.
AddressSymmetry == Permutations(Servers)
=============================================================================
