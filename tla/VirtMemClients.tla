---------------------------- MODULE VirtMemClients ----------------------------
(****************************************************************************)
(* VirtMem on its own: clients that find, reserve and release slices in any   *)
(* order, over memory in which other mappings come and go.  RwPages calls     *)
(* virtmemFindAslr, virtmemAddReservation and virtmemRemoveReservation so.    *)
(****************************************************************************)
EXTENDS VirtMem

CONSTANTS
  MaxSize,    \* bound: pages of a slice
  Background  \* the pages other code of the process may map

ASSUME ClientsAssumption == MaxSize \in Nat

VARIABLE found  \* the slice just found and not reserved yet, as <<start, size>>

vars == <<memVars, found>>
Nothing == <<>>

Init ==
  /\ InitMem
  /\ mapped \in SUBSET Background
  /\ found = Nothing

Find(size) ==
  /\ found = Nothing
  /\ \E a \in FindAslr(size) : found' = IF a < 0 THEN Nothing ELSE <<a, size>>
  /\ UNCHANGED memVars

Add ==
  /\ found # Nothing
  /\ IF NoSlotLeft
     THEN UNCHANGED <<listVars, held>>
     ELSE AddReservation(found[1], found[2])
  /\ found' = Nothing
  /\ UNCHANGED mapped

Remove(rv) ==
  /\ rv \in held
  /\ RemoveReservation(rv)
  /\ UNCHANGED <<mapped, found>>

\* Other code of the process maps or unmaps a page.  It knows nothing of the
\* reservations here; none runs between finding a slice and reserving it.
Map(p) ==
  /\ found = Nothing
  /\ mapped' = IF p \in mapped THEN mapped \ {p} ELSE mapped \cup {p}
  /\ UNCHANGED <<listVars, held, found>>

Next ==
  \/ \E size \in 1 .. MaxSize : Find(size)
  \/ Add
  \/ \E rv \in Slots : Remove(rv)
  \/ \E p \in Background : Map(p)

Spec == Init /\ [][Next]_vars

-----------------------------------------------------------------------------
(* Properties. *)

\* Whatever the order of releases, the list holds exactly the reservations not
\* released, and its links back are the converse of its links forward.
ListConsistent ==
  /\ Listed = held
  /\ \A s \in held :
       /\ next[s] # NULL => prev[next[s]] = s
       /\ prev[s] = NULL <=> s = g_Reservations

\* A slice that was found is whole pages of the ASLR region that nothing has:
\* no mapping, no reservation, not the heap or alias region of the kernel.
Taken == mapped \cup PagesOf(AliasRegion) \cup PagesOf(HeapRegion)
           \cup UNION {PagesOf(region[s]) : s \in held}

FoundIsFree ==
  found # Nothing =>
    LET pages == found[1] .. found[1] + found[2] - 1
    IN pages \subseteq PagesOf(AslrRegion) /\ pages \cap Taken = {}

\* The linked list implements a set of disjoint slices.
AllSlices == [start : 0 .. Pages, end : 0 .. Pages]
Disjoint(r, s) == ~Overlaps(r, s.start, s.end)
Abs == INSTANCE ReservedSpace WITH
         live <- {region[s] : s \in Listed},
         Slices <- AllSlices, Apart <- Disjoint
AbsSpec == Abs!Spec
===============================================================================
