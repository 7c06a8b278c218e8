----------------------------- MODULE MCSaveFile -----------------------------
(* Two documents and two or three threads or processes: enough for every    *)
(* mixture of two writers while a third one reads.  Which inode a new file  *)
(* gets does not matter, so inodes are symmetric.                           *)
EXTENDS SaveFile, TLC

InodeNames == Permutations(Inodes)
=============================================================================
