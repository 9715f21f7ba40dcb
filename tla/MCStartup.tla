----------------------------- MODULE MCStartup -----------------------------
(* An instance of Startup for TLC: up to three threads, and arguments that *)
(* are zero, wrap to zero and wrap to one.                                 *)
EXTENDS Startup

MCThreads == 0 .. 2
=============================================================================
