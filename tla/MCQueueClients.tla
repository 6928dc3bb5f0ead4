---------------------------- MODULE MCQueueClients ----------------------------
(* QueueClients on a small instance, for TLC. *)
EXTENDS QueueClients
===============================================================================
