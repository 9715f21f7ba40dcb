------------------------------ MODULE MCReport ------------------------------
(* An instance of RelayReport for TLC.                                     *)
EXTENDS RelayReport
=============================================================================
