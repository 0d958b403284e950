--------------------------- MODULE MCFinalization ---------------------------
(* One recording with its two files, for TLC.                              *)
EXTENDS Finalization

MCArtifacts == {"audio", "log"}

MCAudio == "audio"
=============================================================================
