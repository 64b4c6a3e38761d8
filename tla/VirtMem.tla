------------------------------- MODULE VirtMem --------------------------------
(****************************************************************************)
(* lib/nx/kernel/virtmem.c: finding a free slice of the address space and    *)
(* reserving it.  An address is the number of a page.  The reservations are  *)
(* a doubly linked list through a static array whose slots are handed out    *)
(* once: nothing ever gives one back.  The lock functions are empty          *)
(* (virtmem.c:203-214) and every caller is on one thread.                    *)
(****************************************************************************)
EXTENDS Integers

CONSTANTS
  Pages,                 \* pages of the address space, 0 .. Pages - 1
  NumReservations,       \* NUM_RESERVATIONS
  AliasRegion, HeapRegion, AslrRegion  \* as virtmemSetup learnt them from the kernel

IsRegion(r) == r.start \in 0 .. Pages /\ r.end \in r.start .. Pages

ASSUME VirtMemAssumption ==
  /\ Pages \in Nat \ {0}
  /\ NumReservations \in Nat \ {0}
  /\ IsRegion(AliasRegion) /\ IsRegion(HeapRegion) /\ IsRegion(AslrRegion)

VARIABLES
  mapped,         \* the pages at which the kernel has something mapped
  g_Reservations, \* head of the list, 0 for NULL
  next, prev,     \* the links of each slot of sReservations, 0 for NULL
  region,         \* the region of each slot
  sCurrentIndex,  \* slots handed out
  held            \* history: the slots whose clients have not released them

listVars == <<g_Reservations, next, prev, region, sCurrentIndex>>
memVars == <<mapped, listVars, held>>

Slots == 1 .. NumReservations
NULL == 0
Slice(start, end) == [start |-> start, end |-> end]
PagesOf(r) == r.start .. r.end - 1

InitMem ==
  /\ g_Reservations = NULL
  /\ next = [s \in Slots |-> NULL]
  /\ prev = [s \in Slots |-> NULL]
  /\ region = [s \in Slots |-> Slice(0, 0)]
  /\ sCurrentIndex = 0
  /\ held = {}

-----------------------------------------------------------------------------
(* Finding a slice. *)

\* _memregionOverlaps
Overlaps(r, start, end) == start < r.end /\ r.start < end

\* svcQueryMemory: the end of the block of equally mapped pages at page p.
MemEnd(p) ==
  CHOOSE e \in p + 1 .. Pages :
    /\ \A q \in p .. e - 1 : (q \in mapped) = (p \in mapped)
    /\ e = Pages \/ (e \in mapped) # (p \in mapped)

\* _memregionIsMapped, called with a guard of zero by everybody.
IsMapped(start, end) == start \in mapped \/ end > MemEnd(start)

\* The slots reached from g_Reservations along next: those in every set that
\* has the head and with a slot its successor.
Listed ==
  LET Closed == {C \in SUBSET Slots : /\ g_Reservations \in C \cup {NULL}
                                      /\ \A s \in C : next[s] \in C \cup {NULL}}
  IN {s \in Slots : \A C \in Closed : s \in C}

\* _memregionIsReserved
IsReserved(start, end) == \E s \in Listed : Overlaps(region[s], start, end)

\* The starts the random offset of _memregionFindRandom may come to, and those
\* it does not throw again.
Candidates(size) == AslrRegion.start .. AslrRegion.end - size

Thrown(size) ==
  {a \in Candidates(size) :
     /\ ~Overlaps(AliasRegion, a, a + size)
     /\ ~Overlaps(HeapRegion, a, a + size)}

\* A bug: mapped memory is not looked for.
FreeUnreserved(size) == {a \in Thrown(size) : ~IsReserved(a, a + size)}

\* A bug: reservations are not looked for.
FreeUnmapped(size) == {a \in Thrown(size) : ~IsMapped(a, a + size)}

Free(size) ==
  {a \in Thrown(size) : ~IsMapped(a, a + size) /\ ~IsReserved(a, a + size)}

\* _memregionFindRandom gives up after RANDOM_MAX_ATTEMPTS throws, which can
\* all hit a place that is taken, or at once for a size beyond the region.
\* It never returns when every throw is in the alias or the heap region.
FindAslr(size) ==
  Free(size)
    \cup (IF Free(size) # Thrown(size) \/ Candidates(size) = {} THEN {-1} ELSE {})

-----------------------------------------------------------------------------
(* The reservations. *)

\* A bug: one slot is never handed out.
OneSlotLeft == sCurrentIndex >= NumReservations - 1

\* virtmemAddReservation, when it returns NULL.
NoSlotLeft == sCurrentIndex >= NumReservations

\* virtmemAddReservation, when it returns a slot.
AddReservation(start, size) ==
  LET rv == sCurrentIndex + 1
  IN /\ ~NoSlotLeft
     /\ region' = [region EXCEPT ![rv] = Slice(start, start + size)]
     /\ next' = [next EXCEPT ![rv] = g_Reservations]
     /\ prev' = [s \in Slots |-> IF s = rv THEN NULL
                                 ELSE IF s = g_Reservations THEN rv
                                 ELSE prev[s]]
     /\ g_Reservations' = rv
     /\ sCurrentIndex' = rv
     /\ held' = held \cup {rv}

\* A bug: the successor keeps its link to the slot removed.
NextStaysLinked(rv) == prev' = prev

\* rv->next->prev = rv->prev
UnlinkNext(rv) ==
  prev' = [s \in Slots |-> IF s = next[rv] THEN prev[rv] ELSE prev[s]]

\* rv->prev->next = rv->next, or the head of the list
UnlinkPrev(rv) ==
  /\ next' = [s \in Slots |-> IF s = prev[rv] THEN next[rv] ELSE next[s]]
  /\ g_Reservations' = IF prev[rv] = NULL THEN next[rv] ELSE g_Reservations

\* A bug in what counts on it: the slot handed out last is handed out again.
RemoveReservationGivingBack(rv) ==
  /\ UnlinkNext(rv) /\ UnlinkPrev(rv)
  /\ held' = held \ {rv}
  /\ sCurrentIndex' = sCurrentIndex - 1
  /\ UNCHANGED region

\* virtmemRemoveReservation
RemoveReservation(rv) ==
  /\ UnlinkNext(rv) /\ UnlinkPrev(rv)
  /\ held' = held \ {rv}
  /\ UNCHANGED <<region, sCurrentIndex>>
===============================================================================
