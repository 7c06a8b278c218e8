------------------------------- MODULE MCWire -------------------------------
(* Two frames of the shortest and a longer kind, one that is too long, a     *)
(* good one, one without the token, a good one.                              *)
EXTENDS Wire

MCStart == <<0, 10, 22, 39, 49, 59, 69>>
MCTokenOk == <<TRUE, TRUE, TRUE, TRUE, FALSE, TRUE>>
=============================================================================
