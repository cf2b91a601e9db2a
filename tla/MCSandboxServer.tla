-------------------------- MODULE MCSandboxServer ---------------------------
(* Instance of SandboxServer for TLC: two rollouts of two tasks each, one  *)
(* with a timeout no Duration can hold, and a verify.  With three permits  *)
(* the rollouts cannot hold all of them while both still wait for one;     *)
(* with two they can.                                                      *)
EXTENDS SandboxServer
=============================================================================
