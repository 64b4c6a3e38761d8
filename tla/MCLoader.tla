------------------------------- MODULE MCLoader -------------------------------
(* A tree of a directory d with a file x and a directory e in it and the files  *)
(* a and y beside it, or a part of it.  The filter has three bits: y collides   *)
(* with a and d together; the other keys share bits as any hash does.           *)
EXTENDS Loader, TLC

CONSTANTS a, x, y, d, e, root, short, cont, t1, t2

MCParent == [n \in Nodes |-> IF n \in {x, e} THEN d ELSE root]

MCBitsOf(k) ==
  CASE k = a -> {1}
    [] k = x -> {2}
    [] k = d -> {3}
    [] k = y -> {1, 3}
    [] OTHER -> {2, 3}

\* "content" has seven characters, "cont" the first four of them.
MCMountLen == [m \in Mounts |-> IF m = content THEN 7 ELSE 4]
MCBegins == {<<cont, content>>} \cap (Mounts \X Mounts)

\* x is new in the mod; a, y and d are in the romfs too.
MCContent == [m \in Mounts |-> IF m = content THEN {root, a, y, d} \cap (Nodes \cup {root}) ELSE {root, a}]

Alike == Permutations({t1, t2})
===============================================================================
