---------------------------- MODULE MCStatistics ----------------------------
(* An instance of RelayStatistics for TLC.                                 *)
EXTENDS RelayStatistics
=============================================================================
