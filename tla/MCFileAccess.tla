----------------------------- MODULE MCFileAccess -----------------------------
(* What a game reads and names: a merged directory of two and three entries      *)
(* read with buffers of up to six; and, while none is read, buffers of nine      *)
(* bytes and names of up to three characters, every way a path can end before,   *)
(* at and behind the end of the buffer.                                          *)
EXTENDS MergedDirectory, PathOps

MCRoot == <<"s", "d">>
MCNames == UNION {[1 .. n -> {"a", "b"}] : n \in 1 .. 3}

VARIABLE part \* what runs
allVars == <<vars, pathVars, part>>

MCInit == part \in {"directory", "paths"} /\ Init /\ PathInit
MCNext ==
  /\ UNCHANGED part
  /\ \/ part = "directory" /\ Next /\ UNCHANGED pathVars
     \/ part = "paths" /\ PathNext /\ UNCHANGED vars
MCSpec == MCInit /\ [][MCNext]_allVars
===============================================================================
