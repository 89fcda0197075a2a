---------------------------- MODULE MCKafkaRetry ----------------------------
(* KafkaRetry for TLC: two consumers, three messages, one without data.    *)
EXTENDS KafkaRetry

CONSTANTS a, b

MCConsumer == {a, b}
MCEmpty == {2}
=============================================================================
