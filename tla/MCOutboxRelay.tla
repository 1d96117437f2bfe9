--------------------------- MODULE MCOutboxRelay ---------------------------
(***************************************************************************)
(* The outbox on small instances: two events, of which the numbers give    *)
(* the order of occurredAt, and two processes.                             *)
(***************************************************************************)
EXTENDS OutboxRelay, TLC

CONSTANT p1

\* A deployment between two transports: each process has its own.
MCTransport == [p \in Process |-> IF p = p1 THEN "in_process" ELSE "rabbitmq"]
=============================================================================
