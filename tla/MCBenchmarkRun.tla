--------------------------- MODULE MCBenchmarkRun ---------------------------
(* Three configurations over one directory: the second differs in a setting, *)
(* the third in the benchmark.                                               *)
EXTENDS BenchmarkRun, TLC

ThreeConfigs == {[benchmark |-> "b1", model |-> "m1"],
                 [benchmark |-> "b1", model |-> "m2"],
                 [benchmark |-> "b2", model |-> "m1"]}
==============================================================================
