----------------------------- MODULE MCForwarder -----------------------------
(***************************************************************************)
(* The forwarder for TLC, and what the repository says of it that its code *)
(* does not do.                                                            *)
(***************************************************************************)
EXTENDS Forwarder

(* "drop-oldest": whatever the deque discards is older than                 *)
(* everything it keeps (docs/configuration.md, module docstring of         *)
(* forwarder.py).  A requeue on a full deque discards the newest records.  *)
OldestDropFirst ==
  [][\A lost \in evicted' \ evicted, kept \in Range(queue') : lost < kept]_vars
=============================================================================
