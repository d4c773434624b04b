--------------------------- MODULE MCSoftwareCase ---------------------------
(* One software case: two calls of either adapter, two sandbox runs.        *)
EXTENDS SoftwareCase, TLC
==============================================================================
