----------------------- MODULE MCEvaluationPipeline -----------------------
(* Small instances of EvaluationPipeline. *)
EXTENDS EvaluationPipeline
CONSTANTS home, shed, lamp, plug, lock1
MCNetworks == {home, shed}
MCDevices == {lamp, plug, lock1}
MCNetOf == [d \in MCDevices |-> IF d = lock1 THEN shed ELSE home]
=============================================================================
