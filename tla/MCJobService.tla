---------------------------- MODULE MCJobService ----------------------------
(* Two instances that may overlap, two jobs and two requests.               *)
EXTENDS JobService, TLC
==============================================================================
