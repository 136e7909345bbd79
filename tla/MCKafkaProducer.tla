-------------------------- MODULE MCKafkaProducer --------------------------
(* Small instances of KafkaProducer for TLC. *)
EXTENDS KafkaProducer

CONSTANTS in1, in2, out1
=============================================================================
