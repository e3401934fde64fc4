-------------------------- MODULE MCRabbitTransport --------------------------
(* Small instances of the Rabbit worker. *)
EXTENDS RabbitTransport, TLC

CONSTANTS n1, n2, n3
=============================================================================
