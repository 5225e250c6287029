-------------------------- MODULE MCSignalAdmission -------------------------
(***************************************************************************)
(* Small instances of signal admission for TLC.                            *)
(***************************************************************************)
EXTENDS SignalAdmission, TLC

Interchangeable == Permutations(Symbols)
=============================================================================
