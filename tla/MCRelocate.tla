------------------------------ MODULE MCRelocate ------------------------------
(* Two instructions of every kind, in words a function begins with, at even and  *)
(* odd addresses, next to their trampoline and far from it; offsets to the word  *)
(* itself, to the other, to the words between and behind, and at the edges of    *)
(* every reach.  The reaches keep the order the real ones have.                  *)
EXTENDS Relocate

Branches == [op : {"b", "bl"}, off : {-230, -50, -1, 0, 1, 2, 30, 230}, low : {0}, reg : {0}]
Conditionals == [op : {"cbz", "tbz"}, off : {-50, -1, 0, 1, 2, 30, 60}, low : {0}, reg : {0}]
Loads == [op : Literals, off : {-50, -1, 1, 30, 150}, low : {0}, reg : {0}]
Adrs == [op : {"adr"}, off : {-50, -1, 0, 1, 2, 30, 120}, low : {0, 1}, reg : {0}]
Adrps == [op : {"adrp"}, off : {-1, 0, 1, 2}, low : {0}, reg : {0}]
Instructions == Branches \cup Conditionals \cup Loads \cup Adrs \cup Adrps \cup {I("prfm", 3), I("other", 0)}

\* Where the function and its trampoline are.
Layouts == {<<1001, 1100>>, <<1024, 1060>>, <<1022, 2000>>, <<1001, 2002>>, <<1001, 900>>}

\* An odd function gives up five words, an even one four.
Words(base, a, b) ==
  IF base % 2 = 1
  THEN <<a, b, I("other", 0), I("other", 0), I("other", 0)>>
  ELSE <<a, I("other", 0), b, I("other", 0)>>

MCPrograms ==
  {[base |-> l[1], rx |-> l[2], rw |-> 3000, code |-> Words(l[1], a, b)] :
     l \in Layouts, a \in Instructions, b \in Instructions}
===============================================================================
