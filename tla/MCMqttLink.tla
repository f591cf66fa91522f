----------------------------- MODULE MCMqttLink -----------------------------
(* Small instance of MqttLink for TLC. *)
EXTENDS MqttLink
=============================================================================
