-------------------------- MODULE MCRabbitMQClient --------------------------
(* Small instances of RabbitMQClient for TLC. *)
EXTENDS RabbitMQClient, TLC

Symmetry == Permutations(Publishers)
=============================================================================
