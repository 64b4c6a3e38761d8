----------------------------- MODULE ReservedSpace ----------------------------
(****************************************************************************)
(* What a client of virtmem.h is promised: a reservation keeps a slice of    *)
(* address space of its own until it is released.                            *)
(****************************************************************************)
EXTENDS Integers

CONSTANTS
  Slices,          \* the slices of address space that may be asked for
  Apart(_, _)      \* two slices share no page

VARIABLE live      \* the reserved slices

Init == live = {}

Reserve(s) ==
  /\ \A other \in live : Apart(s, other)
  /\ live' = live \cup {s}

Release(s) ==
  /\ s \in live
  /\ live' = live \ {s}

Next == \E s \in Slices : Reserve(s) \/ Release(s)

Spec == Init /\ [][Next]_live
===============================================================================
