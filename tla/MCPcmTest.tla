----------------------------- MODULE MCPcmTest -----------------------------
(***************************************************************************)
(* PCM tests on a codec whose driver creates an analog PCM with two        *)
(* playback substreams, a capture-only PCM, and one without substreams,    *)
(* over its configurations.  Newer kernels do not attach the latter:       *)
(* MCPopulated leaves it out.                                              *)
(***************************************************************************)
EXTENDS PcmTest

MCPcm == {"analog", "empty", "capture"}
MCPopulated == MCPcm \ {"empty"}

MCSubstreams ==
  [p \in Pcm |-> CASE p = "analog"  -> [d \in {0, 1} |-> IF d = 0 THEN 2 ELSE 0]
                   [] p = "empty"   -> [d \in {0, 1} |-> 0]
                   [] p = "capture" -> [d \in {0, 1} |-> d]]
=============================================================================
