----------------------------- MODULE MCOptimize -----------------------------
(* Up to three candidates of three prompts, one of them garbled, over HTTP.  *)
EXTENDS Optimize
==============================================================================
