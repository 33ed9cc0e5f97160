---------------------------- MODULE MCMqttClient ----------------------------
(* Instances of MqttClient for TLC. *)
EXTENDS MqttClient, TLC

AttemptSymmetry == Permutations(Attempts)
=============================================================================
