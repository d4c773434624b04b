---------------------------- MODULE MCSandboxRun ----------------------------
(* One run, with every outcome of every docker command.                     *)
EXTENDS SandboxRun, TLC
==============================================================================
