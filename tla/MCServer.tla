------------------------------ MODULE MCServer ------------------------------
(* Two changes, a read and one edit over two connections that may be opened *)
(* two or three times: enough for an old thread, a new one and a relog to race.    *)
EXTENDS Server, TLC

Symmetric == Permutations(Conns) \cup Permutations(Changes)
=============================================================================
