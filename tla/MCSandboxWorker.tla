-------------------------- MODULE MCSandboxWorker --------------------------
(* SandboxWorker has no constants: TLC explores every behaviour of one     *)
(* call.  The call ends, so a state without a successor is no error.        *)
EXTENDS SandboxWorker
=============================================================================
