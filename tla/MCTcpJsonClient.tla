-------------------------- MODULE MCTcpJsonClient --------------------------
(* TLC instances of TcpJsonClient: a mutation, two safe reads and, where the *)
(* instance has a fourth id, a request too large to encode.                  *)
EXTENDS TcpJsonClient, TLC, FiniteSets

Reads == Permutations(SafeRead)
=============================================================================
