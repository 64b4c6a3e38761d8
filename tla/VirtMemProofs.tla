------------------------------ MODULE VirtMemProofs -----------------------------
(****************************************************************************)
(* Proofs about the memory services.  That the linked list of reservations    *)
(* is a set of disjoint slices and what is found is free, for any address     *)
(* space, any number of slots and any order of calls; that an alias mapped    *)
(* block by block is its source, for any length, any blocks and any change of *)
(* them before it is unmapped; and that what is written through one is what   *)
(* is fetched, for lines and pages of any size.                               *)
(****************************************************************************)
EXTENDS VirtMemClients, MapRanges, Caches, WellFoundedInduction, TLAPS

-----------------------------------------------------------------------------
(* The invariant. *)

TypeOK ==
  /\ sCurrentIndex \in 0 .. NumReservations
  /\ held \in SUBSET (1 .. sCurrentIndex)
  /\ g_Reservations \in Slots \cup {NULL}
  /\ next \in [Slots -> Slots \cup {NULL}]
  /\ prev \in [Slots -> Slots \cup {NULL}]
  /\ region \in [Slots -> AllSlices]

\* Slots are handed out in ascending order and put in front, so that the list
\* is in descending order: next is the slot below in the list, prev the one above.
HeadIsLast ==
  /\ g_Reservations = NULL => held = {}
  /\ g_Reservations # NULL => g_Reservations \in held /\ \A s \in held : s <= g_Reservations

NextIsBelow(s) ==
  /\ next[s] # NULL => next[s] \in held /\ next[s] < s
  /\ \A t \in held : t < s => t <= next[s]

PrevIsAbove(s) ==
  /\ prev[s] # NULL => prev[s] \in held /\ s < prev[s]
  /\ \A t \in held : s < t => prev[s] # NULL /\ prev[s] <= t

Descending == HeadIsLast /\ \A s \in held : NextIsBelow(s) /\ PrevIsAbove(s)

\* No reservation is empty or shares a page with another.
ReservedApart ==
  /\ \A s \in held : region[s].start < region[s].end
  /\ \A s, t \in held : s # t => ~Overlaps(region[s], region[t].start, region[t].end)

\* What was found and is not reserved yet.
FoundIsApart ==
  found # Nothing =>
    /\ found = <<found[1], found[2]>>
    /\ found[1] \in Nat /\ found[2] \in Nat \ {0}
    /\ AslrRegion.start <= found[1] /\ found[1] + found[2] <= AslrRegion.end
    /\ found[1] .. found[1] + found[2] - 1 \cap mapped = {}
    /\ ~Overlaps(AliasRegion, found[1], found[1] + found[2])
    /\ ~Overlaps(HeapRegion, found[1], found[1] + found[2])
    /\ \A s \in held : ~Overlaps(region[s], found[1], found[1] + found[2])

MInv == TypeOK /\ Descending /\ ReservedApart /\ FoundIsApart

-----------------------------------------------------------------------------
(* Sets of numbers. *)

\* A set of natural numbers that is not empty has a least one.
LEMMA SetHasMin ==
  ASSUME NEW S \in SUBSET Nat, S # {}
  PROVE  \E m \in S : \A n \in S : m <= n
<1> DEFINE R == OpToRel(<, Nat)
<1>1. IsWellFoundedOn(R, Nat)
  BY NatLessThanWellFounded
<1>2. PICK m \in S : \A n \in S : ~ (<<n, m>> \in R)
  <2> HIDE DEF R
  <2> QED BY <1>1, WFMin
<1>3. \A n \in S : m <= n
  <2> TAKE n \in S
  <2>1. ~ (n < m)
    BY <1>2 DEF OpToRel
  <2> QED BY <2>1
<1> QED BY <1>2, <1>3

\* One with an upper bound has a greatest one.
LEMMA SetHasMax ==
  ASSUME NEW N \in Nat, NEW S \in SUBSET (0 .. N), S # {}
  PROVE  \E m \in S : \A n \in S : n <= m
<1> DEFINE T == {t \in 0 .. N : N - t \in S}
<1>1. T \in SUBSET Nat
  OBVIOUS
<1>2. T # {}
  <2>1. PICK s \in S : TRUE
    OBVIOUS
  <2>2. s \in 0 .. N /\ N - s \in 0 .. N /\ N - (N - s) = s
    OBVIOUS
  <2> QED BY <2>2
<1>3. PICK t \in T : \A u \in T : t <= u
  BY <1>1, <1>2, SetHasMin
<1>4. \A n \in S : n <= N - t
  <2> TAKE n \in S
  <2>1. n \in 0 .. N /\ N - n \in 0 .. N /\ N - (N - n) = n
    OBVIOUS
  <2>2. N - n \in T
    BY <2>1
  <2>3. t <= N - n
    BY <1>3, <2>2
  <2> QED BY <2>1, <2>3
<1> QED BY <1>3, <1>4
-----------------------------------------------------------------------------
(* The list. *)

\* next and prev are each other's converse.
LEMMA LinksAreConverse ==
  ASSUME TypeOK, Descending, NEW s \in held
  PROVE  /\ s \in Slots
         /\ next[s] # NULL => next[s] \in held /\ prev[next[s]] = s
         /\ prev[s] # NULL => prev[s] \in held /\ next[prev[s]] = s
         /\ prev[s] = NULL <=> s = g_Reservations
<1>0. NumReservations \in Nat \ {0}
  BY VirtMemAssumption
<1>1. \A x \in held : x \in Slots /\ x \in Int /\ x # NULL
  BY <1>0 DEF TypeOK, Slots, NULL
<1>2. next[s] # NULL => next[s] \in held /\ prev[next[s]] = s
  <2> SUFFICES ASSUME next[s] # NULL PROVE next[s] \in held /\ prev[next[s]] = s
    OBVIOUS
  <2> DEFINE n == next[s]
  <2>1. n \in held /\ n < s
    BY DEF Descending, NextIsBelow
  <2>2. prev[n] # NULL /\ prev[n] <= s
    BY <2>1 DEF Descending, PrevIsAbove
  <2>3. prev[n] \in held /\ n < prev[n]
    BY <2>1, <2>2 DEF Descending, PrevIsAbove
  <2>4. ~ (prev[n] < s)
    <3> SUFFICES ASSUME prev[n] < s PROVE FALSE
      OBVIOUS
    <3>1. prev[n] <= n
      BY <2>3 DEF Descending, NextIsBelow
    <3> QED BY <3>1, <2>1, <2>3, <1>1
  <2> QED BY <2>1, <2>2, <2>3, <2>4, <1>1
<1>3. prev[s] # NULL => prev[s] \in held /\ next[prev[s]] = s
  <2> SUFFICES ASSUME prev[s] # NULL PROVE prev[s] \in held /\ next[prev[s]] = s
    OBVIOUS
  <2> DEFINE p == prev[s]
  <2>1. p \in held /\ s < p
    BY DEF Descending, PrevIsAbove
  <2>2. s <= next[p]
    BY <2>1 DEF Descending, NextIsBelow
  <2>3. next[p] # NULL /\ next[p] \in Slots
    BY <2>1, <2>2, <1>1 DEF TypeOK, NULL
  <2>4. next[p] \in held /\ next[p] < p
    BY <2>1, <2>3 DEF Descending, NextIsBelow
  <2>5. ~ (s < next[p])
    <3> SUFFICES ASSUME s < next[p] PROVE FALSE
      OBVIOUS
    <3>1. p <= next[p]
      BY <2>4 DEF Descending, PrevIsAbove
    <3> QED BY <3>1, <2>1, <2>4, <1>1
  <2> QED BY <2>1, <2>2, <2>4, <2>5, <1>1
<1>4. prev[s] = NULL <=> s = g_Reservations
  <2>1. g_Reservations \in held /\ s <= g_Reservations
    BY DEF Descending, HeadIsLast
  <2>2. CASE s = g_Reservations
    <3> SUFFICES ASSUME prev[s] # NULL PROVE FALSE
      BY <2>2
    <3>1. prev[s] \in held /\ s < prev[s]
      BY DEF Descending, PrevIsAbove
    <3>2. prev[s] <= s
      BY <3>1, <2>2 DEF Descending, HeadIsLast, NULL
    <3> QED BY <3>1, <3>2, <1>1
  <2>3. CASE s # g_Reservations
    <3>1. s < g_Reservations
      BY <2>1, <2>3, <1>1
    <3> QED BY <3>1, <2>1, <2>3 DEF Descending, PrevIsAbove
  <2> QED BY <2>2, <2>3
<1> QED BY <1>1, <1>2, <1>3, <1>4

\* What is reached from the head is what was not released.
LEMMA ListedIsHeld == TypeOK /\ Descending => Listed = held
<1> SUFFICES ASSUME TypeOK, Descending PROVE Listed = held
  OBVIOUS
<1> DEFINE Closed == {C \in SUBSET Slots : /\ g_Reservations \in C \cup {NULL}
                                           /\ \A s \in C : next[s] \in C \cup {NULL}}
<1>0. NumReservations \in Nat \ {0} /\ held \subseteq Slots /\ Slots \subseteq 0 .. NumReservations
  BY VirtMemAssumption DEF TypeOK, Slots
<1>1. Listed = {s \in Slots : \A C \in Closed : s \in C}
  BY DEF Listed
<1>2. held \in Closed
  <2>1. g_Reservations \in held \cup {NULL}
    BY DEF Descending, HeadIsLast
  <2>2. \A s \in held : next[s] \in held \cup {NULL}
    BY DEF Descending, NextIsBelow
  <2> QED BY <1>0, <2>1, <2>2
<1>3. ASSUME NEW C \in Closed PROVE held \subseteq C
  <2> SUFFICES ASSUME held \ C # {} PROVE FALSE
    OBVIOUS
  <2>1. PICK m \in held \ C : \A n \in held \ C : n <= m
    <3>1. held \ C \in SUBSET (0 .. NumReservations)
      BY <1>0
    <3> HIDE DEF Closed
    <3> QED BY <1>0, <3>1, SetHasMax
  <2>2. CASE m = g_Reservations
    BY <2>1, <2>2, <1>0 DEF Slots, NULL
  <2>3. CASE m # g_Reservations
    <3>1. prev[m] # NULL
      BY <2>1, <2>3, LinksAreConverse
    <3>2. prev[m] \in held /\ next[prev[m]] = m /\ m < prev[m]
      BY <2>1, <3>1, LinksAreConverse DEF Descending, PrevIsAbove
    <3>3. prev[m] \in C
      <4> SUFFICES ASSUME prev[m] \notin C PROVE FALSE
        OBVIOUS
      <4>1. prev[m] <= m
        BY <2>1, <3>2
      <4>2. prev[m] \in Int /\ m \in Int
        <5>1. \A x \in held : x \in Int
          BY <1>0
        <5> QED BY <2>1, <3>2, <5>1
      <4> QED BY <3>2, <4>1, <4>2
    <3>4. m \in C \cup {NULL}
      BY <3>2, <3>3
    <3> QED BY <3>4, <2>1, <1>0 DEF Slots, NULL
  <2> QED BY <2>2, <2>3
<1>4. held \subseteq Listed
  <2> HIDE DEF Closed
  <2> QED BY <1>0, <1>1, <1>3
<1>5. Listed \subseteq held
  <2> HIDE DEF Closed
  <2> QED BY <1>1, <1>2
<1> QED BY <1>4, <1>5

LEMMA ListIsConsistent == TypeOK /\ Descending => ListConsistent
<1> SUFFICES ASSUME TypeOK, Descending PROVE ListConsistent
  OBVIOUS
<1>1. Listed = held
  BY ListedIsHeld
<1>2. ASSUME NEW s \in held, next[s] # NULL PROVE prev[next[s]] = s
  BY <1>2, LinksAreConverse
<1>3. ASSUME NEW s \in held PROVE prev[s] = NULL <=> s = g_Reservations
  BY LinksAreConverse
<1> QED BY <1>1, <1>2, <1>3, Zenon DEF ListConsistent

\* virtmemAddReservation puts the slot above all others.
LEMMA AddKeepsOrder ==
  ASSUME TypeOK, Descending, NEW start \in Nat, NEW size \in Nat, start + size <= Pages,
         AddReservation(start, size)
  PROVE  TypeOK' /\ Descending'
<1> DEFINE rv == sCurrentIndex + 1
<1>0. NumReservations \in Nat \ {0} /\ Pages \in Nat /\ sCurrentIndex \in Nat
      /\ sCurrentIndex < NumReservations /\ rv \in Slots /\ rv # NULL
  <2>1. NumReservations \in Nat \ {0} /\ Pages \in Nat /\ sCurrentIndex \in 0 .. NumReservations
    BY VirtMemAssumption DEF TypeOK
  <2>2. ~ (sCurrentIndex >= NumReservations)
    BY DEF AddReservation, NoSlotLeft
  <2> QED BY <2>1, <2>2 DEF Slots, NULL
<1>1. \A s \in held : s \in Slots /\ s \in Int /\ s # NULL /\ s < rv
  BY <1>0 DEF TypeOK, Slots, NULL
<1>2. /\ held' = held \cup {rv} /\ g_Reservations' = rv /\ sCurrentIndex' = rv
      /\ \A s \in Slots : next'[s] = IF s = rv THEN g_Reservations ELSE next[s]
      /\ \A s \in Slots : prev'[s] = IF s = rv THEN NULL ELSE IF s = g_Reservations THEN rv ELSE prev[s]
  BY DEF AddReservation, TypeOK
<1>3. TypeOK'
  <2>1. sCurrentIndex' \in 0 .. NumReservations /\ held' \in SUBSET (1 .. sCurrentIndex')
    BY <1>0, <1>2 DEF TypeOK
  <2>2. g_Reservations' \in Slots \cup {NULL} /\ next' \in [Slots -> Slots \cup {NULL}]
    BY <1>0 DEF TypeOK, AddReservation
  <2>3. prev' \in [Slots -> Slots \cup {NULL}]
    BY <1>0 DEF TypeOK, AddReservation
  <2>4. Slice(start, start + size) \in AllSlices
    BY <1>0 DEF Slice, AllSlices
  <2>5. region' \in [Slots -> AllSlices]
    BY <1>0, <2>4 DEF TypeOK, AddReservation
  <2> QED BY <2>1, <2>2, <2>3, <2>5 DEF TypeOK
<1>4. HeadIsLast'
  BY <1>0, <1>1, <1>2 DEF HeadIsLast
<1>5. ASSUME NEW s \in held' PROVE NextIsBelow(s)'
  <2>1. CASE s = rv
    <3>1. next'[s] = g_Reservations
      BY <1>0, <1>2, <2>1
    <3>2. next'[s] # NULL => next'[s] \in held' /\ next'[s] < s
      BY <1>1, <1>2, <2>1, <3>1 DEF Descending, HeadIsLast
    <3>3. \A t \in held' : t < s => t <= next'[s]
      BY <1>0, <1>1, <1>2, <2>1, <3>1 DEF Descending, HeadIsLast
    <3> QED BY <3>2, <3>3 DEF NextIsBelow
  <2>2. CASE s # rv
    <3>1. s \in held /\ next'[s] = next[s]
      BY <1>1, <1>2, <2>2
    <3>2. next'[s] # NULL => next'[s] \in held' /\ next'[s] < s
      BY <1>2, <3>1 DEF Descending, NextIsBelow
    <3>3. \A t \in held' : t < s => t <= next'[s]
      <4> SUFFICES ASSUME NEW t \in held', t < s PROVE t <= next[s]
        BY <3>1
      <4>1. t \in held
        BY <1>0, <1>1, <1>2, <3>1
      <4> QED BY <3>1, <4>1 DEF Descending, NextIsBelow
    <3> QED BY <3>2, <3>3 DEF NextIsBelow
  <2> QED BY <2>1, <2>2
<1>6. ASSUME NEW s \in held' PROVE PrevIsAbove(s)'
  <2>1. CASE s = rv
    <3>1. prev'[s] = NULL /\ \A t \in held' : t <= s
      BY <1>0, <1>1, <1>2, <2>1
    <3>2. \A t \in held' : t \in Int /\ s \in Int
      BY <1>0, <1>1, <1>2, <2>1
    <3>3. \A t \in held' : ~ (s < t)
      BY <3>1, <3>2
    <3> QED BY <3>1, <3>3 DEF PrevIsAbove
  <2>2. CASE s # rv /\ s = g_Reservations
    <3>1. s \in held /\ prev'[s] = rv /\ rv \in held' /\ s < rv
      BY <1>1, <1>2, <2>2
    <3>2. \A t \in held' : s < t => t = rv
      <4> SUFFICES ASSUME NEW t \in held', s < t, t # rv PROVE FALSE
        OBVIOUS
      <4>1. t \in held
        BY <1>2
      <4>2. t <= s
        BY <4>1, <2>2, <3>1, <1>1 DEF Descending, HeadIsLast
      <4> QED BY <4>1, <4>2, <3>1, <1>1
    <3> QED BY <3>1, <3>2, <1>0 DEF PrevIsAbove
  <2>3. CASE s # rv /\ s # g_Reservations
    <3>1. s \in held /\ prev'[s] = prev[s]
      BY <1>1, <1>2, <2>3
    <3>2. s < g_Reservations /\ g_Reservations \in held
      BY <3>1, <2>3, <1>1 DEF Descending, HeadIsLast
    <3>3. prev[s] # NULL /\ prev[s] \in held /\ prev[s] <= g_Reservations /\ s < prev[s]
      BY <3>1, <3>2 DEF Descending, PrevIsAbove
    <3>4. \A t \in held' : s < t => prev[s] <= t
      <4> SUFFICES ASSUME NEW t \in held', s < t PROVE prev[s] <= t
        OBVIOUS
      <4>1. CASE t \in held
        BY <4>1, <3>1 DEF Descending, PrevIsAbove
      <4>2. CASE t = rv
        BY <4>2, <3>3, <1>1
      <4> QED BY <4>1, <4>2, <1>2
    <3> QED BY <3>1, <3>3, <3>4, <1>2 DEF PrevIsAbove
  <2> QED BY <2>1, <2>2, <2>3
<1> QED BY <1>3, <1>4, <1>5, <1>6 DEF Descending

\* virtmemRemoveReservation takes a slot out wherever it is.
LEMMA RemoveKeepsOrder ==
  ASSUME TypeOK, Descending, NEW rv \in held, RemoveReservation(rv)
  PROVE  TypeOK' /\ Descending'
<1>0. NumReservations \in Nat \ {0} /\ sCurrentIndex \in Nat /\ held \subseteq Slots
  BY VirtMemAssumption DEF TypeOK, Slots
<1>1. \A s \in held : s \in Slots /\ s \in Int /\ s # NULL
  BY <1>0 DEF TypeOK, Slots, NULL
<1>2. /\ held' = held \ {rv}
      /\ g_Reservations' = IF prev[rv] = NULL THEN next[rv] ELSE g_Reservations
      /\ \A s \in Slots : next'[s] = IF s = prev[rv] THEN next[rv] ELSE next[s]
      /\ \A s \in Slots : prev'[s] = IF s = next[rv] THEN prev[rv] ELSE prev[s]
  BY DEF RemoveReservation, UnlinkNext, UnlinkPrev
<1>3. TypeOK'
  <2>1. next[rv] \in Slots \cup {NULL} /\ prev[rv] \in Slots \cup {NULL}
    BY <1>0 DEF TypeOK
  <2>2. next' \in [Slots -> Slots \cup {NULL}] /\ prev' \in [Slots -> Slots \cup {NULL}]
    BY <2>1 DEF TypeOK, RemoveReservation, UnlinkNext, UnlinkPrev
  <2>3. UNCHANGED <<region, sCurrentIndex>>
    BY DEF RemoveReservation
  <2> QED BY <1>2, <2>1, <2>2, <2>3 DEF TypeOK
<1>4. /\ next[rv] # NULL => next[rv] \in held /\ next[rv] < rv /\ prev[next[rv]] = rv
      /\ \A t \in held : t < rv => t <= next[rv]
      /\ prev[rv] # NULL => prev[rv] \in held /\ rv < prev[rv] /\ next[prev[rv]] = rv
      /\ \A t \in held : rv < t => prev[rv] # NULL /\ prev[rv] <= t
      /\ prev[rv] = NULL <=> rv = g_Reservations
  BY LinksAreConverse DEF Descending, NextIsBelow, PrevIsAbove
<1>5. HeadIsLast'
  <2>1. CASE prev[rv] = NULL
    <3>1. rv = g_Reservations /\ g_Reservations' = next[rv]
      BY <1>2, <1>4, <2>1
    <3>2. \A t \in held' : t \in held /\ t < rv
      BY <1>1, <1>2, <3>1 DEF Descending, HeadIsLast
    <3>3. \A t \in held' : t <= next[rv]
      BY <1>4, <3>2
    <3>4. next[rv] = NULL => held' = {}
      <4> SUFFICES ASSUME next[rv] = NULL, NEW t \in held' PROVE FALSE
        OBVIOUS
      <4>1. t <= 0 /\ t \in 1 .. sCurrentIndex
        BY <3>2, <3>3 DEF NULL, TypeOK
      <4> QED BY <4>1, <1>0
    <3>5. next[rv] # NULL => next[rv] \in held'
      BY <1>1, <1>2, <1>4
    <3> QED BY <3>1, <3>3, <3>4, <3>5 DEF HeadIsLast
  <2>2. CASE prev[rv] # NULL
    <3>1. g_Reservations' = g_Reservations /\ g_Reservations # rv
      BY <1>2, <1>4, <2>2
    <3> QED BY <1>2, <3>1 DEF Descending, HeadIsLast
  <2> QED BY <2>1, <2>2
<1>6. ASSUME NEW s \in held' PROVE NextIsBelow(s)'
  <2>0. s \in held /\ s # rv /\ s \in Slots
    BY <1>1, <1>2
  <2>1. CASE s = prev[rv]
    <3>1. next'[s] = next[rv] /\ rv < s /\ next[s] = rv
      BY <1>1, <1>2, <1>4, <2>0, <2>1
    <3>2. next'[s] # NULL => next'[s] \in held' /\ next'[s] < s
      BY <1>1, <1>2, <1>4, <2>0, <3>1
    <3>3. \A t \in held' : t < s => t <= next'[s]
      <4> SUFFICES ASSUME NEW t \in held', t < s PROVE t <= next[rv]
        BY <3>1
      <4>1. t \in held /\ t # rv /\ t <= rv
        BY <1>2, <2>0, <3>1 DEF Descending, NextIsBelow
      <4>2. t < rv
        BY <4>1, <1>1
      <4> QED BY <1>4, <4>1, <4>2
    <3> QED BY <3>2, <3>3 DEF NextIsBelow
  <2>2. CASE s # prev[rv]
    <3>1. next'[s] = next[s]
      BY <1>2, <2>0, <2>2
    <3>2. next[s] # rv
      BY <1>1, <2>0, <2>2, LinksAreConverse
    <3>3. next[s] # NULL => next[s] \in held' /\ next[s] < s
      BY <1>2, <2>0, <3>2 DEF Descending, NextIsBelow
    <3>4. \A t \in held' : t < s => t <= next[s]
      BY <1>2, <2>0 DEF Descending, NextIsBelow
    <3> QED BY <3>1, <3>3, <3>4 DEF NextIsBelow
  <2> QED BY <2>1, <2>2
<1>7. ASSUME NEW s \in held' PROVE PrevIsAbove(s)'
  <2>0. s \in held /\ s # rv /\ s \in Slots
    BY <1>1, <1>2
  <2>1. CASE s = next[rv]
    <3>1. prev'[s] = prev[rv] /\ s < rv /\ prev[s] = rv
      BY <1>1, <1>2, <1>4, <2>0, <2>1
    <3>2. prev'[s] # NULL => prev'[s] \in held' /\ s < prev'[s]
      BY <1>1, <1>2, <1>4, <2>0, <3>1
    <3>3. \A t \in held' : s < t => prev'[s] # NULL /\ prev'[s] <= t
      <4> SUFFICES ASSUME NEW t \in held', s < t PROVE prev[rv] # NULL /\ prev[rv] <= t
        BY <3>1
      <4>1. t \in held /\ t # rv /\ rv <= t
        BY <1>2, <2>0, <3>1 DEF Descending, PrevIsAbove
      <4>2. rv < t
        BY <4>1, <1>1
      <4> QED BY <1>4, <4>1, <4>2
    <3> QED BY <3>2, <3>3 DEF PrevIsAbove
  <2>2. CASE s # next[rv]
    <3>1. prev'[s] = prev[s]
      BY <1>2, <2>0, <2>2
    <3>2. prev[s] # rv
      BY <1>1, <2>0, <2>2, LinksAreConverse
    <3>3. prev[s] # NULL => prev[s] \in held' /\ s < prev[s]
      BY <1>2, <2>0, <3>2 DEF Descending, PrevIsAbove
    <3>4. \A t \in held' : s < t => prev[s] # NULL /\ prev[s] <= t
      BY <1>2, <2>0 DEF Descending, PrevIsAbove
    <3> QED BY <3>1, <3>3, <3>4 DEF PrevIsAbove
  <2> QED BY <2>1, <2>2
<1> QED BY <1>3, <1>5, <1>6, <1>7 DEF Descending

-----------------------------------------------------------------------------
(* Finding. *)

\* A slice that _memregionIsMapped says is not mapped has no mapped page.
LEMMA UnmappedUpToMemEnd ==
  ASSUME NEW a \in Nat, NEW e \in Nat, a < e, e <= Pages, ~IsMapped(a, e)
  PROVE  a .. e - 1 \cap mapped = {}
<1> DEFINE Ends(x) == x = Pages \/ (x \in mapped) # (a \in mapped)
           Same(x) == \A q \in a .. x - 1 : (q \in mapped) = (a \in mapped)
           T == {x \in a + 1 .. Pages : Ends(x)}
<1>0. Pages \in Nat \ {0}
  BY VirtMemAssumption
<1>1. T \in SUBSET Nat /\ Pages \in T
  BY <1>0
<1>2. PICK m \in T : \A n \in T : m <= n
  <2> HIDE DEF T
  <2> QED BY <1>1, SetHasMin
<1>3. m \in a + 1 .. Pages /\ Ends(m)
  OBVIOUS
<1>4. Same(m)
  <2> SUFFICES ASSUME NEW q \in a .. m - 1, q # a PROVE (q \in mapped) = (a \in mapped)
    OBVIOUS
  <2>1. q \in a + 1 .. Pages /\ ~ (m <= q)
    BY <1>0, <1>3
  <2>2. q \notin T
    BY <1>2, <2>1
  <2> QED BY <2>1, <2>2
<1>5. MemEnd(a) = CHOOSE x \in a + 1 .. Pages : Same(x) /\ Ends(x)
  BY DEF MemEnd
<1>6. MemEnd(a) \in a + 1 .. Pages /\ Same(MemEnd(a))
  <2> HIDE DEF Ends, Same
  <2> QED BY <1>3, <1>4, <1>5
<1>7. a \notin mapped /\ e <= MemEnd(a)
  BY <1>0, <1>6 DEF IsMapped
<1>8. ASSUME NEW q \in a .. e - 1 PROVE q \notin mapped
  <2>1. q \in a .. MemEnd(a) - 1
    BY <1>0, <1>6, <1>7
  <2>2. (q \in mapped) = (a \in mapped)
    BY <1>6, <2>1
  <2> QED BY <1>7, <2>2
<1> QED BY <1>8

LEMMA FindKeepsApart ==
  ASSUME MInv, NEW size \in 1 .. MaxSize, Find(size)
  PROVE  FoundIsApart'
<1>0. Pages \in Nat \ {0} /\ MaxSize \in Nat /\ AslrRegion.start \in Nat /\ AslrRegion.end \in 0 .. Pages
      /\ size \in Nat \ {0}
  BY VirtMemAssumption, ClientsAssumption DEF IsRegion
<1>1. PICK a \in FindAslr(size) : found' = IF a < 0 THEN Nothing ELSE <<a, size>>
  BY DEF Find
<1>2. CASE a \in Free(size)
  <2>1. /\ a \in Candidates(size)
        /\ ~Overlaps(AliasRegion, a, a + size) /\ ~Overlaps(HeapRegion, a, a + size)
        /\ ~IsMapped(a, a + size) /\ ~IsReserved(a, a + size)
    BY <1>2 DEF Free, Thrown
  <2>2. a \in Nat /\ AslrRegion.start <= a /\ a + size <= AslrRegion.end
    BY <1>0, <2>1 DEF Candidates
  <2>3. a .. a + size - 1 \cap mapped = {}
    <3>1. a + size \in Nat /\ a < a + size /\ a + size <= Pages
      BY <1>0, <2>2
    <3> QED BY <2>1, <2>2, <3>1, UnmappedUpToMemEnd
  <2>4. \A s \in held : ~Overlaps(region[s], a, a + size)
    BY <2>1, ListedIsHeld DEF MInv, IsReserved
  <2>5. found' = <<a, size>> /\ UNCHANGED <<mapped, held, region>>
    BY <1>1, <2>2 DEF Find, memVars, listVars
  <2> QED BY <1>0, <2>1, <2>2, <2>3, <2>4, <2>5 DEF FoundIsApart, Overlaps
<1>3. CASE a = -1
  BY <1>1, <1>3 DEF FoundIsApart
<1> QED BY <1>2, <1>3 DEF FindAslr

LEMMA FoundIsFreeOfAll == MInv => FoundIsFree
<1> SUFFICES ASSUME MInv, found # Nothing
             PROVE  LET pages == found[1] .. found[1] + found[2] - 1
                    IN pages \subseteq PagesOf(AslrRegion) /\ pages \cap Taken = {}
  BY DEF FoundIsFree
<1> DEFINE pages == found[1] .. found[1] + found[2] - 1
<1>0. /\ found[1] \in Nat /\ found[2] \in Nat \ {0} /\ held \subseteq Slots
      /\ \A r \in {AliasRegion, HeapRegion, AslrRegion} : r.start \in Int /\ r.end \in Int
      /\ \A s \in held : region[s].start \in Int /\ region[s].end \in Int
  <2>1. found[1] \in Nat /\ found[2] \in Nat \ {0}
    BY DEF MInv, FoundIsApart
  <2>2. held \subseteq Slots
    BY VirtMemAssumption DEF MInv, TypeOK, Slots
  <2>3. \A r \in {AliasRegion, HeapRegion, AslrRegion} : r.start \in Int /\ r.end \in Int
    BY VirtMemAssumption DEF IsRegion
  <2>4. \A s \in held : region[s] \in AllSlices
    BY <2>2 DEF MInv, TypeOK
  <2> QED BY <2>1, <2>2, <2>3, <2>4, VirtMemAssumption DEF AllSlices
<1>1. pages \subseteq PagesOf(AslrRegion)
  BY <1>0 DEF MInv, FoundIsApart, PagesOf
<1>2. ASSUME NEW r, r.start \in Int, r.end \in Int, ~Overlaps(r, found[1], found[1] + found[2])
      PROVE  pages \cap PagesOf(r) = {}
  BY <1>0, <1>2 DEF Overlaps, PagesOf
<1>3. pages \cap PagesOf(AliasRegion) = {} /\ pages \cap PagesOf(HeapRegion) = {}
  BY <1>0, <1>2 DEF MInv, FoundIsApart
<1>4. \A s \in held : pages \cap PagesOf(region[s]) = {}
  BY <1>0, <1>2 DEF MInv, FoundIsApart
<1>5. pages \cap mapped = {}
  BY DEF MInv, FoundIsApart
<1> HIDE DEF pages
<1>6. pages \cap Taken = {}
  BY <1>3, <1>4, <1>5 DEF Taken
<1> QED BY <1>1, <1>6 DEF pages

-----------------------------------------------------------------------------
(* The steps. *)

LEMMA InitMInv == Init => MInv
<1> SUFFICES ASSUME Init PROVE MInv
  OBVIOUS
<1>1. TypeOK
  BY VirtMemAssumption DEF Init, InitMem, TypeOK, AllSlices, Slice, NULL
<1>2. Descending /\ ReservedApart /\ FoundIsApart
  BY DEF Init, InitMem, Descending, HeadIsLast, ReservedApart, FoundIsApart, NULL
<1> QED BY <1>1, <1>2 DEF MInv

LEMMA ApartIsSymmetric ==
  ASSUME NEW r, NEW s, r.start \in Int, r.end \in Int, s.start \in Int, s.end \in Int
  PROVE  Overlaps(r, s.start, s.end) <=> Overlaps(s, r.start, r.end)
BY DEF Overlaps

\* What is reserved is what was found, and so apart from the others.
LEMMA AddedIsApart ==
  ASSUME MInv, Add, ~NoSlotLeft
  PROVE  /\ AddReservation(found[1], found[2])
         /\ held' = held \cup {sCurrentIndex + 1} /\ sCurrentIndex + 1 \notin held
         /\ sCurrentIndex + 1 \in Slots /\ held \subseteq Slots
         /\ Slice(found[1], found[1] + found[2]) \in AllSlices
         /\ region'[sCurrentIndex + 1] = Slice(found[1], found[1] + found[2])
         /\ \A s \in held : region'[s] = region[s] /\ region[s] \in AllSlices
         /\ \A s \in held : ~Overlaps(region[s], found[1], found[1] + found[2])
<1> DEFINE rv == sCurrentIndex + 1
<1>0. /\ NumReservations \in Nat \ {0} /\ Pages \in Nat /\ AslrRegion.end \in 0 .. Pages
      /\ sCurrentIndex \in 0 .. NumReservations /\ ~ (sCurrentIndex >= NumReservations)
      /\ held \subseteq 1 .. sCurrentIndex
  BY VirtMemAssumption DEF IsRegion, MInv, TypeOK, NoSlotLeft
<1>1. AddReservation(found[1], found[2]) /\ found # Nothing
  BY DEF Add
<1>2. rv \in Slots /\ rv \notin held /\ held \subseteq Slots
  BY <1>0 DEF Slots
<1>3. /\ found[1] \in Nat /\ found[2] \in Nat \ {0} /\ found[1] + found[2] <= AslrRegion.end
      /\ \A s \in held : ~Overlaps(region[s], found[1], found[1] + found[2])
  BY <1>1 DEF MInv, FoundIsApart
<1>4. Slice(found[1], found[1] + found[2]) \in AllSlices
  BY <1>0, <1>3 DEF Slice, AllSlices
<1>5. held' = held \cup {rv} /\ region' = [region EXCEPT ![rv] = Slice(found[1], found[1] + found[2])]
  BY <1>1 DEF AddReservation
<1>6. \A s \in held : region'[s] = region[s] /\ region[s] \in AllSlices
  BY <1>2, <1>5 DEF MInv, TypeOK
<1>7. region'[rv] = Slice(found[1], found[1] + found[2])
  BY <1>2, <1>5 DEF MInv, TypeOK
<1> QED BY <1>1, <1>2, <1>3, <1>4, <1>5, <1>6, <1>7

LEMMA StepMInv == MInv /\ [Next]_vars => MInv'
<1> SUFFICES ASSUME MInv, [Next]_vars PROVE MInv'
  OBVIOUS
<1>1. ASSUME NEW size \in 1 .. MaxSize, Find(size) PROVE MInv'
  <2>1. FoundIsApart'
    BY <1>1, FindKeepsApart
  <2>2. UNCHANGED <<g_Reservations, next, prev, region, sCurrentIndex, held>>
    BY <1>1 DEF Find, memVars, listVars
  <2> QED BY <2>1, <2>2 DEF MInv, TypeOK, Descending, HeadIsLast, NextIsBelow, PrevIsAbove, ReservedApart
<1>2. ASSUME Add PROVE MInv'
  <2>1. FoundIsApart'
    BY <1>2 DEF Add, FoundIsApart
  <2>2. CASE NoSlotLeft
    <3>1. UNCHANGED <<g_Reservations, next, prev, region, sCurrentIndex, held>>
      BY <1>2, <2>2 DEF Add, listVars
    <3> QED BY <2>1, <3>1 DEF MInv, TypeOK, Descending, HeadIsLast, NextIsBelow, PrevIsAbove, ReservedApart
  <2>3. CASE ~NoSlotLeft
    <3> DEFINE rv == sCurrentIndex + 1
    <3>1. found[1] \in Nat /\ found[2] \in Nat \ {0} /\ found[1] + found[2] <= Pages
      BY <1>2, VirtMemAssumption DEF Add, MInv, FoundIsApart, IsRegion
    <3>2. AddReservation(found[1], found[2])
      BY <1>2, <2>3, AddedIsApart
    <3>3. TypeOK' /\ Descending'
      BY <3>1, <3>2, AddKeepsOrder DEF MInv
    <3>4. \A s \in held' : region'[s].start < region'[s].end
      BY <1>2, <2>3, <3>1, AddedIsApart DEF MInv, ReservedApart, Slice
    <3>5. ASSUME NEW s \in held', NEW t \in held', s # t
          PROVE  ~Overlaps(region'[s], region'[t].start, region'[t].end)
      <4>0. /\ \A x \in held : region'[x] = region[x] /\ ~Overlaps(region[x], region'[rv].start, region'[rv].end)
            /\ \A x \in held : region[x].start \in Int /\ region[x].end \in Int
            /\ region'[rv].start \in Int /\ region'[rv].end \in Int
            /\ held' = held \cup {rv}
        BY <1>2, <2>3, <3>1, AddedIsApart, VirtMemAssumption DEF Slice, AllSlices
      <4>1. CASE s \in held /\ t \in held
        BY <4>0, <4>1, <3>5 DEF MInv, ReservedApart
      <4>2. CASE s \in held /\ t = rv
        BY <4>0, <4>2
      <4>3. CASE s = rv /\ t \in held
        <5>1. ~Overlaps(region'[t], region'[rv].start, region'[rv].end)
          BY <4>0, <4>3
        <5> QED BY <4>0, <4>3, <5>1, ApartIsSymmetric
      <4> QED BY <4>0, <4>1, <4>2, <4>3, <3>5
    <3>6. ReservedApart'
      BY <3>4, <3>5 DEF ReservedApart, Overlaps
    <3> QED BY <2>1, <3>3, <3>6 DEF MInv
  <2> QED BY <2>2, <2>3
<1>3. ASSUME NEW rv \in Slots, Remove(rv) PROVE MInv'
  <2>1. rv \in held /\ RemoveReservation(rv) /\ UNCHANGED <<mapped, found>>
    BY <1>3 DEF Remove
  <2>2. TypeOK' /\ Descending'
    BY <2>1, RemoveKeepsOrder DEF MInv
  <2>3. held' \subseteq held /\ UNCHANGED region
    BY <2>1 DEF RemoveReservation
  <2>4. ReservedApart' /\ FoundIsApart'
    BY <2>1, <2>3 DEF MInv, ReservedApart, FoundIsApart, Overlaps
  <2> QED BY <2>2, <2>4 DEF MInv
<1>4. ASSUME NEW p \in Background, Map(p) PROVE MInv'
  <2>1. found' = Nothing
    BY <1>4 DEF Map
  <2>2. UNCHANGED <<g_Reservations, next, prev, region, sCurrentIndex, held>>
    BY <1>4 DEF Map, listVars
  <2> QED BY <2>1, <2>2 DEF MInv, TypeOK, Descending, HeadIsLast, NextIsBelow, PrevIsAbove, ReservedApart, FoundIsApart
<1>5. CASE UNCHANGED vars
  BY <1>5 DEF vars, memVars, listVars, MInv, TypeOK, Descending, HeadIsLast, NextIsBelow, PrevIsAbove,
              ReservedApart, FoundIsApart, Overlaps
<1> QED BY <1>1, <1>2, <1>3, <1>4, <1>5 DEF Next

-----------------------------------------------------------------------------
(* The theorems. *)

LEMMA Invariant == Spec => []MInv
<1> QED BY InitMInv, StepMInv, PTL DEF Spec

\* However slots are reserved and released, the list from g_Reservations holds
\* what was not released, and prev is the converse of next (virtmem.c:242-276).
THEOREM ListIsTheReservations == Spec => []ListConsistent
<1>1. MInv => ListConsistent
  BY ListIsConsistent DEF MInv
<1> QED BY <1>1, Invariant, PTL

\* virtmemFindAslr finds whole pages of its region that nothing has.
THEOREM WhatIsFoundIsFree == Spec => []FoundIsFree
<1> QED BY Invariant, FoundIsFreeOfAll, PTL

\* The regions of the list, as a refinement of ReservedSpace.
Live == {region[s] : s \in Listed}

LEMMA LiveIsHeld == MInv => Live = {region[s] : s \in held}
BY ListedIsHeld DEF Live, MInv

LEMMA StepsImplement == MInv /\ MInv' /\ [Next]_vars => [Abs!Next]_Live
<1> SUFFICES ASSUME MInv, MInv', [Next]_vars PROVE Abs!Next \/ Live' = Live
  BY DEF Live
<1>0. Live = {region[s] : s \in held} /\ Live' = {region'[s] : s \in held'}
  <2>1. (MInv => Live = {region[s] : s \in held})'
    BY LiveIsHeld, PTL
  <2> QED BY <2>1, LiveIsHeld
<1>1. UNCHANGED <<region, held>> => Live' = Live
  BY <1>0
<1>2. ASSUME Add, ~NoSlotLeft PROVE Abs!Next
  <2> DEFINE rv == sCurrentIndex + 1
             s == Slice(found[1], found[1] + found[2])
  <2>1. s \in AllSlices /\ Live' = Live \cup {s}
    BY <1>0, <1>2, AddedIsApart
  <2>2. \A other \in Live : Disjoint(s, other)
    <3> SUFFICES ASSUME NEW x \in held PROVE Disjoint(s, region[x])
      BY <1>0
    <3>1. ~Overlaps(region[x], s.start, s.end) /\ region[x] \in AllSlices /\ s \in AllSlices
      BY <1>2, AddedIsApart DEF Slice
    <3>2. ~Overlaps(s, region[x].start, region[x].end)
      BY <3>1, ApartIsSymmetric, VirtMemAssumption DEF AllSlices
    <3> QED BY <3>2 DEF Disjoint
  <2> QED BY <2>1, <2>2 DEF Abs!Next, Abs!Reserve, Live
<1>3. ASSUME NEW rv \in Slots, Remove(rv) PROVE Abs!Next
  <2>1. rv \in held /\ held' = held \ {rv} /\ UNCHANGED region /\ held \subseteq Slots
    BY <1>3, VirtMemAssumption DEF Remove, RemoveReservation, MInv, TypeOK, Slots
  <2>2. region[rv] \in AllSlices /\ region[rv] \in Live
    BY <1>0, <2>1 DEF MInv, TypeOK
  <2>3. ASSUME NEW t \in held, t # rv PROVE region[t] # region[rv]
    <3>1. /\ ~Overlaps(region[t], region[rv].start, region[rv].end)
          /\ region[rv].start < region[rv].end
          /\ region[rv] \in AllSlices
      BY <2>1, <2>2, <2>3 DEF MInv, ReservedApart
    <3> QED BY <3>1, VirtMemAssumption DEF Overlaps, AllSlices
  <2>4. Live' = Live \ {region[rv]}
    BY <1>0, <2>1, <2>3
  <2> QED BY <2>2, <2>4 DEF Abs!Next, Abs!Release, Live
<1>4. CASE UNCHANGED vars
  BY <1>1, <1>4 DEF vars, memVars, listVars
<1>5. ASSUME NEW size \in 1 .. MaxSize, Find(size) PROVE Live' = Live
  BY <1>1, <1>5 DEF Find, memVars, listVars
<1>6. ASSUME Add, NoSlotLeft PROVE Live' = Live
  BY <1>1, <1>6 DEF Add, listVars
<1>7. ASSUME NEW p \in Background, Map(p) PROVE Live' = Live
  BY <1>1, <1>7 DEF Map, listVars
<1> QED BY <1>2, <1>3, <1>4, <1>5, <1>6, <1>7 DEF Next

\* The linked list is a set of slices that share no page: a slot that is taken
\* adds one, a slot that is released takes that one away.
THEOREM ImplementsReservedSpace == Spec => AbsSpec
<1>1. Init => Abs!Init
  <2> SUFFICES ASSUME Init PROVE Live = {}
    BY DEF Abs!Init, Live
  <2>1. held = {}
    BY DEF Init, InitMem
  <2> QED BY <2>1, InitMInv, LiveIsHeld
<1> QED BY <1>1, Invariant, StepsImplement, PTL DEF Spec, AbsSpec, Abs!Spec, Live

-----------------------------------------------------------------------------
(* The blocks behind an alias. *)

\* Where the next query is.
Position == meminfo.addr + meminfo.size

\* The pages from the i-th to before the j-th, each at its place.
Shown(i, j) == {<<k, source.start + k>> : k \in i .. j - 1}

AliasTypeOK ==
  /\ blocks \in SUBSET (0 .. Space - 1) /\ 0 \in blocks
  /\ source \in [start : Nat, length : Nat \ {0}] /\ SourceEnd <= Space
  /\ meminfo.addr \in Nat /\ meminfo.size \in Nat
  /\ unmapping \in BOOLEAN

\* A turn begins at the source or where a block does, and what is behind it is
\* untouched.
TurnBegins ==
  phase = "turn" =>
    /\ source.start <= Position /\ Position < SourceEnd
    /\ Position = source.start \/ Position \in blocks
    /\ alias = IF unmapping THEN Shown(Position - source.start, source.length)
               ELSE Shown(0, Position - source.start)

AliasInv == AliasTypeOK /\ TurnBegins /\ AliasIsTheSource

-----------------------------------------------------------------------------
(* A turn. *)

\* svcQueryMemory returns the block an address is in, up to where the next one
\* begins; a block that begins at the address begins there.
LEMMA BlockIsAround ==
  ASSUME AliasTypeOK, NEW page \in Nat, page < Space
  PROVE  LET m == BlockAt(page)
         IN /\ m.addr \in Nat /\ m.size \in Nat
            /\ m.addr <= page /\ page < m.addr + m.size
            /\ m.addr + m.size = Space \/ m.addr + m.size \in blocks
            /\ page \in blocks => m.addr = page
<1> DEFINE before == {b \in blocks : b <= page}
           behind == {b \in blocks : b > page}
           start == Max(before)
           end == IF behind = {} THEN Space ELSE Min(behind)
<1>0. Space \in Nat \ {0} /\ \A b \in blocks : b \in Nat /\ b < Space
  BY MapRangesAssumption DEF AliasTypeOK
<1>1. start \in before /\ \A b \in before : start >= b
  <2>1. before \in SUBSET (0 .. page) /\ before # {}
    <3>1. 0 \in before
      BY DEF AliasTypeOK
    <3>2. before \in SUBSET (0 .. page)
      BY <1>0
    <3> QED BY <3>1, <3>2
  <2>2. \E x \in before : \A y \in before : x >= y
    <3> HIDE DEF before
    <3>1. PICK x \in before : \A y \in before : y <= x
      BY <2>1, SetHasMax
    <3>2. \A y \in before : x >= y
      BY <3>1
    <3> QED BY <3>2
  <2> HIDE DEF before
  <2> QED BY <2>2 DEF Max
<1>2. behind # {} => end \in behind
  <2> SUFFICES ASSUME behind # {} PROVE Min(behind) \in behind
    OBVIOUS
  <2>1. behind \in SUBSET Nat
    BY <1>0
  <2> HIDE DEF behind
  <2>2. \E x \in behind : \A y \in behind : x <= y
    BY <2>1, SetHasMin
  <2> QED BY <2>2 DEF Min
<1>3. start \in Nat /\ start <= page /\ start \in blocks
  BY <1>0, <1>1
<1>4. end \in Nat /\ page < end /\ (end = Space \/ end \in blocks)
  BY <1>0, <1>2
<1>5. page \in blocks => start = page
  BY <1>0, <1>1, <1>3
<1>6. BlockAt(page) = [addr |-> start, size |-> end - start]
  BY DEF BlockAt
<1> HIDE DEF before, behind, start, end
<1> QED BY <1>3, <1>4, <1>5, <1>6

\* What a turn hands on goes from where it began to the end of its block, or of
\* the source.
LEMMA TurnIsNext ==
  ASSUME AliasTypeOK, TurnBegins, phase = "turn"
  PROVE  LET m == BlockAt(Position)
             upTo == Smaller(SourceEnd, m.addr + m.size) - source.start
         IN /\ m.addr \in Nat /\ m.size \in Nat
            /\ Position - source.start \in Nat /\ Position - source.start < upTo /\ upTo <= source.length
            /\ Pieces(m) = Shown(Position - source.start, upTo)
            /\ m.addr + m.size < SourceEnd =>
                 m.addr + m.size \in blocks /\ upTo = m.addr + m.size - source.start /\ source.start <= m.addr + m.size
            /\ ~(m.addr + m.size < SourceEnd) => upTo = source.length
<1> DEFINE m == BlockAt(Position)
           upTo == Smaller(SourceEnd, m.addr + m.size) - source.start
           from == Position - source.start
<1>0. /\ source.start \in Nat /\ source.length \in Nat \ {0} /\ SourceEnd = source.start + source.length
      /\ Position \in Nat /\ source.start <= Position /\ Position < SourceEnd /\ SourceEnd <= Space
      /\ Space \in Nat /\ (Position = source.start \/ Position \in blocks)
  BY MapRangesAssumption DEF AliasTypeOK, TurnBegins, Position, SourceEnd
<1>1. /\ m.addr \in Nat /\ m.size \in Nat /\ m.addr <= Position /\ Position < m.addr + m.size
      /\ m.addr + m.size = Space \/ m.addr + m.size \in blocks
      /\ Position \in blocks => m.addr = Position
  BY <1>0, BlockIsAround
<1> HIDE DEF m
<1>2. Larger(m.addr, source.start) = Position
  BY <1>0, <1>1 DEF Larger
<1>3. from \in Nat /\ upTo \in Nat /\ from < upTo /\ upTo <= source.length
  BY <1>0, <1>1 DEF Smaller
<1>4. Pieces(m) = Shown(from, upTo)
  <2>1. Pieces(m) = {<<from + i, source.start + from + i>> : i \in 0 .. (upTo - from) - 1}
    <3>1. source.start + from = Position
      BY <1>0
    <3>2. Smaller(SourceEnd, m.addr + m.size) - Position = upTo - from
      BY <1>0, <1>1 DEF Smaller
    <3> QED BY <1>2, <3>1, <3>2 DEF Pieces
  <2> HIDE DEF from, upTo
  <2>2. ASSUME NEW i \in 0 .. (upTo - from) - 1
        PROVE  <<from + i, source.start + from + i>> \in Shown(from, upTo)
    <3>1. from + i \in from .. upTo - 1 /\ source.start + from + i = source.start + (from + i)
      BY <1>0, <1>3
    <3> QED BY <3>1 DEF Shown
  <2>3. ASSUME NEW k \in from .. upTo - 1 PROVE <<k, source.start + k>> \in Pieces(m)
    <3>1. k - from \in 0 .. (upTo - from) - 1 /\ from + (k - from) = k
          /\ source.start + from + (k - from) = source.start + k
      BY <1>0, <1>3
    <3> QED BY <2>1, <3>1
  <2> QED BY <2>1, <2>2, <2>3 DEF Shown
<1>5. m.addr + m.size < SourceEnd =>
        m.addr + m.size \in blocks /\ upTo = m.addr + m.size - source.start /\ source.start <= m.addr + m.size
  BY <1>0, <1>1 DEF Smaller
<1>6. ~(m.addr + m.size < SourceEnd) => upTo = source.length
  BY <1>0, <1>1 DEF Smaller
<1> QED BY <1>1, <1>3, <1>4, <1>5, <1>6 DEF m

\* Ranges next to each other, and what is left of one without the other.
LEMMA ShownInTurn ==
  ASSUME NEW i \in Nat, NEW j \in Nat, NEW k \in Nat, i <= j, j <= k
  PROVE  /\ Shown(i, j) \cup Shown(j, k) = Shown(i, k)
         /\ Shown(i, k) \ Shown(i, j) = Shown(j, k)
<1>1. i .. k - 1 = (i .. j - 1) \cup (j .. k - 1) /\ (i .. j - 1) \cap (j .. k - 1) = {}
  OBVIOUS
<1> QED BY <1>1 DEF Shown

-----------------------------------------------------------------------------
(* The steps. *)

LEMMA InitAliasInv == MapRangesInit => AliasInv
<1> SUFFICES ASSUME MapRangesInit PROVE AliasInv
  OBVIOUS
<1>0. Space \in Nat \ {0} /\ MaxLength \in Nat
  BY MapRangesAssumption
<1>1. /\ source \in [start : 0 .. Space - 1, length : 1 .. MaxLength]
      /\ source.start + source.length <= Space
      /\ meminfo = [addr |-> source.start, size |-> 0] /\ alias = {} /\ unmapping = FALSE /\ phase = "turn"
  BY DEF MapRangesInit
<1>2. blocks \in SUBSET (0 .. Space - 1) /\ 0 \in blocks
  BY <1>0 DEF MapRangesInit
<1>3. AliasTypeOK
  <2>1. source \in [start : Nat, length : Nat \ {0}] /\ SourceEnd <= Space
    BY <1>0, <1>1 DEF SourceEnd
  <2>2. meminfo.addr \in Nat /\ meminfo.size \in Nat
    BY <1>1, <2>1
  <2> QED BY <1>1, <1>2, <2>1, <2>2 DEF AliasTypeOK
<1>4. Position = source.start /\ source.start \in Nat /\ source.length \in Nat \ {0}
  BY <1>0, <1>1 DEF Position
<1>5. Shown(0, Position - source.start) = {}
  BY <1>4 DEF Shown
<1>6. TurnBegins
  BY <1>1, <1>4, <1>5 DEF TurnBegins, SourceEnd
<1>7. AliasIsTheSource
  BY <1>1 DEF AliasIsTheSource
<1> QED BY <1>3, <1>6, <1>7 DEF AliasInv

LEMMA TurnAliasInv == AliasInv /\ MapTurn => AliasInv'
<1> SUFFICES ASSUME AliasInv, MapTurn PROVE AliasInv'
  OBVIOUS
<1> DEFINE m == BlockAt(Position)
           upTo == Smaller(SourceEnd, m.addr + m.size) - source.start
           from == Position - source.start
<1>1. /\ m.addr \in Nat /\ m.size \in Nat /\ from \in Nat /\ from < upTo /\ upTo <= source.length
      /\ Pieces(m) = Shown(from, upTo)
      /\ m.addr + m.size < SourceEnd =>
           m.addr + m.size \in blocks /\ upTo = m.addr + m.size - source.start /\ source.start <= m.addr + m.size
      /\ ~(m.addr + m.size < SourceEnd) => upTo = source.length
  BY TurnIsNext DEF AliasInv, MapTurn
<1>2. phase = "turn" /\ meminfo' = m /\ UNCHANGED <<blocks, source, unmapping>>
  BY DEF MapTurn, Position
<1>3. \/ phase' = "aborted"
      \/ /\ alias' = IF unmapping THEN alias \ Pieces(m) ELSE alias \cup Pieces(m)
         /\ phase' = IF m.addr + m.size < SourceEnd THEN "turn" ELSE "ended"
  BY DEF MapTurn, Position
<1>4. source.length \in Nat /\ source.start \in Nat
  BY DEF AliasInv, AliasTypeOK
<1> HIDE DEF m
<1>5. AliasTypeOK'
  BY <1>1, <1>2 DEF AliasInv, AliasTypeOK, SourceEnd
<1>6. CASE phase' = "aborted"
  BY <1>5, <1>6 DEF AliasInv, TurnBegins, AliasIsTheSource
<1>7. CASE /\ alias' = IF unmapping THEN alias \ Pieces(m) ELSE alias \cup Pieces(m)
           /\ phase' = IF m.addr + m.size < SourceEnd THEN "turn" ELSE "ended"
  <2>1. upTo \in Nat
    <3>1. m.addr + m.size < SourceEnd \/ ~(m.addr + m.size < SourceEnd)
      OBVIOUS
    <3> HIDE DEF upTo
    <3> QED BY <1>1, <1>4, <3>1
  <2>2. alias' = IF unmapping THEN Shown(upTo, source.length) ELSE Shown(0, upTo)
    <3>1. alias = IF unmapping THEN Shown(from, source.length) ELSE Shown(0, from)
      BY <1>2 DEF AliasInv, TurnBegins
    <3> HIDE DEF upTo, from
    <3>2. Shown(0, from) \cup Shown(from, upTo) = Shown(0, upTo)
      BY <1>1, <2>1, ShownInTurn
    <3>3. Shown(from, source.length) \ Shown(from, upTo) = Shown(upTo, source.length)
      BY <1>1, <1>4, <2>1, ShownInTurn
    <3> QED BY <1>1, <1>7, <3>1, <3>2, <3>3
  <2>3. CASE m.addr + m.size < SourceEnd
    <3>1. phase' = "turn" /\ Position' = m.addr + m.size
      BY <1>2, <1>7, <2>3 DEF Position
    <3> HIDE DEF upTo
    <3>2. Position' - source'.start = upTo
      <4>1. source' = source
        BY <1>2
      <4>2. upTo = m.addr + m.size - source.start
        BY <1>1, <2>3
      <4> QED BY <1>1, <1>4, <3>1, <4>1, <4>2
    <3>3. /\ source'.start <= Position' /\ Position' < SourceEnd' /\ Position' \in blocks'
      BY <1>1, <1>2, <2>3, <3>1 DEF SourceEnd
    <3>4. TurnBegins'
      BY <1>2, <2>2, <3>1, <3>2, <3>3 DEF TurnBegins, Shown
    <3>5. AliasIsTheSource'
      BY <3>1 DEF AliasIsTheSource
    <3> QED BY <1>5, <3>4, <3>5 DEF AliasInv
  <2>4. CASE ~(m.addr + m.size < SourceEnd)
    <3>1. phase' = "ended" /\ upTo = source.length
      BY <1>1, <1>7, <2>4
    <3> HIDE DEF upTo
    <3>2. Shown(source.length, source.length) = {}
      BY <1>4 DEF Shown
    <3>3. AliasIsTheSource'
      BY <1>2, <2>2, <3>1, <3>2 DEF AliasIsTheSource, Shown
    <3>4. TurnBegins'
      BY <3>1 DEF TurnBegins
    <3> QED BY <1>5, <3>3, <3>4 DEF AliasInv
  <2> QED BY <2>3, <2>4
<1> QED BY <1>3, <1>6, <1>7

LEMMA StepAliasInv == AliasInv /\ [MapRangesNext]_rangeVars => AliasInv'
<1> SUFFICES ASSUME AliasInv, [MapRangesNext]_rangeVars PROVE AliasInv'
  OBVIOUS
<1>1. CASE MapTurn
  BY <1>1, TurnAliasInv
<1>2. CASE TurnAborts
  BY <1>2 DEF TurnAborts, AliasInv, AliasTypeOK, TurnBegins, AliasIsTheSource, SourceEnd
<1>3. CASE BeginUnmapping
  <2>1. /\ phase = "ended" /\ ~unmapping /\ phase' = "turn" /\ unmapping' = TRUE
        /\ meminfo' = [addr |-> source.start, size |-> 0] /\ UNCHANGED <<source, alias>>
        /\ blocks' \in SUBSET (0 .. Space - 1) /\ 0 \in blocks'
    BY <1>3, MapRangesAssumption DEF BeginUnmapping
  <2>2. source.start \in Nat /\ source.length \in Nat \ {0}
    BY DEF AliasInv, AliasTypeOK
  <2>3. AliasTypeOK'
    BY <2>1, <2>2 DEF AliasInv, AliasTypeOK, SourceEnd
  <2>4. alias = Shown(0, source.length)
    BY <2>1 DEF AliasInv, AliasIsTheSource, Shown
  <2>5. Position' = source.start /\ Position' - source.start = 0
    BY <2>1, <2>2 DEF Position
  <2>6. TurnBegins'
    BY <2>1, <2>2, <2>4, <2>5 DEF TurnBegins, SourceEnd, Shown
  <2> QED BY <2>1, <2>3, <2>6 DEF AliasInv, AliasIsTheSource
<1>4. CASE UNCHANGED rangeVars
  BY <1>4 DEF rangeVars, AliasInv, AliasTypeOK, TurnBegins, AliasIsTheSource, SourceEnd, Position, Shown
<1> QED BY <1>1, <1>2, <1>3, <1>4 DEF MapRangesNext

\* However many blocks the source of an alias is, whatever turn is refused and
\* however the blocks change in between, ForEachMemRange maps each page of it at
\* its place and leaves none when it unmaps.
THEOREM AliasShowsTheSource == MapRangesSpec => []AliasIsTheSource
<1>1. AliasInv => AliasIsTheSource
  BY DEF AliasInv
<1> QED BY <1>1, InitAliasInv, StepAliasInv, PTL DEF MapRangesSpec

-----------------------------------------------------------------------------
(* The caches. *)

\* A number is a multiple of L and a rest.
LEMMA Divides ==
  ASSUME NEW L \in Nat \ {0}, NEW w \in Nat
  PROVE  \E q \in Nat, r \in 0 .. L - 1 : w = L * q + r /\ w % L = r
<1>1. PICK q \in Nat : L * q <= w /\ w < L * q + L
  <2>1. w \div L \in Nat /\ L * (w \div L) <= w /\ w < L * (w \div L) + L
    OBVIOUS
  <2> QED BY <2>1
<1>2. PICK r \in 0 .. L - 1 : w = L * q + r
  <2>1. PICK m \in Nat : m = L * q
    OBVIOUS
  <2>2. w - m \in 0 .. L - 1 /\ w = m + (w - m)
    BY <1>1, <2>1
  <2> QED BY <2>1, <2>2
<1>3. (L * q + r) % L = r
  BY Z3
<1> QED BY <1>2, <1>3

\* A cache has lines.
LEMMA LinesHaveWords == \A f \in LineFields : LineWords(f) \in Nat \ {0}
  BY CachesAssumption DEF LineWords

\* The line of a word begins at or before it, ends behind it, and is its own line;
\* and so is the one behind it.
LEMMA LineOfWord ==
  ASSUME NEW f \in LineFields, NEW w \in Nat
  PROVE  /\ LineStart(w, f) \in Nat
         /\ LineStart(w, f) <= w /\ w < LineStart(w, f) + LineWords(f)
         /\ LineStart(LineStart(w, f), f) = LineStart(w, f)
         /\ LineStart(w, f) = w => LineStart(w + LineWords(f), f) = w + LineWords(f)
<1> DEFINE L == LineWords(f)
<1>1. L \in Nat \ {0}
  BY LinesHaveWords
<1> HIDE DEF L
<1>2. PICK q \in Nat, r \in 0 .. L - 1 : w = L * q + r /\ w % L = r
  BY <1>1, Divides
<1>3. PICK m \in Nat : m = L * q
  BY <1>1
<1>4. LineStart(w, f) = m
  BY <1>1, <1>2, <1>3 DEF LineStart, L
<1>5. (L * q + 0) % L = 0 /\ (L * (q + 1) + 0) % L = 0
  <2>1. \A k \in Nat : (L * k + 0) % L = 0
    BY <1>1, Z3
  <2> QED BY <2>1
<1>6. L * (q + 1) = m + L
  BY <1>1, <1>3
<1>7. m % L = 0 /\ (m + L) % L = 0
  BY <1>1, <1>3, <1>5, <1>6
<1>8. LineStart(m, f) = m /\ LineStart(m + L, f) = m + L
  BY <1>1, <1>3, <1>7 DEF LineStart, L
<1> QED BY <1>1, <1>2, <1>3, <1>4, <1>8 DEF L

\* No word is left that only the data cache has once the loop over the data lines is
\* behind it, and no old one once the loop over the instruction lines is, where that
\* loop finds them at all; so what is fetched in between is never old.
Found == owner = "patch" \/ physical

KInv ==
  /\ owner \in {"jit", "patch"} /\ physical \in BOOLEAN
  /\ range \in [start : Nat, size : Nat \ {0}]
  /\ fields \in [d : LineFields, i : LineFields]
  /\ owner = "jit" => range.size = CachePage /\ range.start % CachePage = 0
  /\ line \in Nat
  /\ step \in {"write", "written", "dcache", "icache", "flushed"}
  /\ dirty \subseteq ClaimedWords /\ stale \subseteq ClaimedWords
  /\ step = "dcache" => LineStart(line, fields.d) = line /\ \A w \in dirty : line <= w
  /\ step \in {"icache", "flushed"} => dirty = {}
  /\ step = "icache" /\ Found => LineStart(line, fields.i) = line /\ \A w \in stale : line <= w
  /\ step = "flushed" /\ Found => stale = {}

\* What is flushed begins with the claim and ends with it.
LEMMA FlushCovers ==
  ASSUME KInv
  PROVE  FlushStart = range.start /\ FlushEnd = range.start + range.size
<1>1. /\ range.start \in Nat /\ range.size \in Nat \ {0} /\ CachePage \in Nat \ {0}
      /\ owner = "jit" => range.size = CachePage /\ range.start % CachePage = 0
  BY CachesAssumption DEF KInv
<1>2. CASE owner = "jit"
  <2>1. \A L \in Nat \ {0} : (L + L - 1) \div L = 1 /\ L * 1 = L
    OBVIOUS
  <2>2. FlushSize = CachePage * ((CachePage + CachePage - 1) \div CachePage)
    BY <1>1, <1>2 DEF FlushSize
  <2>3. FlushSize = CachePage
    BY <1>1, <2>1, <2>2
  <2>4. FlushStart = range.start
    BY <1>1, <1>2 DEF FlushStart
  <2> QED BY <1>1, <1>2, <2>3, <2>4 DEF FlushEnd
<1>3. CASE owner # "jit"
  BY <1>1, <1>3 DEF FlushStart, FlushSize, FlushEnd
<1> QED BY <1>2, <1>3

LEMMA InitKInv == CachesInit => KInv
<1> SUFFICES ASSUME CachesInit PROVE KInv
  OBVIOUS
<1>1. /\ owner \in {"jit", "patch"} /\ physical \in BOOLEAN
      /\ fields \in [d : LineFields, i : LineFields]
      /\ dirty = {} /\ stale = {} /\ line = 0 /\ step = "write"
  BY DEF CachesInit
<1>2. /\ range \in [start : 0 .. AreaWords - 1, size : {1, 5, CachePage}]
      /\ owner = "jit" => range.size = CachePage /\ range.start % CachePage = 0
  BY DEF CachesInit
<1>3. range \in [start : Nat, size : Nat \ {0}]
  BY <1>2, CachesAssumption
<1> QED BY <1>1, <1>2, <1>3 DEF KInv

LEMMA StepKInv == KInv /\ [CachesNext]_cacheVars => KInv'
<1> SUFFICES ASSUME KInv, [CachesNext]_cacheVars PROVE KInv'
  OBVIOUS
<1>0. /\ range.start \in Nat /\ range.size \in Nat \ {0}
      /\ fields.d \in LineFields /\ fields.i \in LineFields
      /\ LineWords(fields.d) \in Nat \ {0} /\ LineWords(fields.i) \in Nat \ {0}
      /\ line \in Nat
      /\ FlushStart = range.start /\ FlushEnd = range.start + range.size
      /\ FlushStart \in Nat /\ FlushEnd \in Nat
  BY FlushCovers, LinesHaveWords DEF KInv
<1>a. \A w \in ClaimedWords : w \in Nat /\ FlushStart <= w /\ w < FlushEnd
  BY <1>0 DEF ClaimedWords
<1>b. \A f \in LineFields :
        /\ FirstLine(f) \in Nat /\ FirstLine(f) <= FlushStart
        /\ LineStart(FirstLine(f), f) = FirstLine(f)
  BY <1>0, LineOfWord DEF FirstLine
<1>1. CASE WriteThroughAlias
  <2>1. /\ step' = "written" /\ dirty' = ClaimedWords /\ stale' \subseteq ClaimedWords
        /\ UNCHANGED <<range, owner, fields, physical, line>>
    BY <1>1 DEF WriteThroughAlias
  <2> QED BY <2>1 DEF KInv, ClaimedWords, Found
<1>2. CASE BeginFlush
  <2>1. /\ step' = "dcache" /\ line' = FirstLine(fields.d)
        /\ UNCHANGED <<range, owner, fields, physical, dirty, stale>>
    BY <1>2 DEF BeginFlush
  <2>2. line' \in Nat /\ LineStart(line', fields.d) = line' /\ line' <= FlushStart
    BY <1>0, <1>b, <2>1
  <2>3. \A w \in dirty : line' <= w
    BY <1>0, <1>a, <2>2 DEF KInv
  <2>4. (step' = "dcache" => LineStart(line', fields'.d) = line' /\ \A w \in dirty' : line' <= w)
    BY <2>1, <2>2, <2>3
  <2> QED BY <2>1, <2>2, <2>4 DEF KInv, ClaimedWords, Found
<1>3. CASE CleanLine
  <2> DEFINE D == LineWords(fields.d)
  <2>1. /\ step = "dcache"
        /\ dirty' = dirty \ InLine(LineStart(line, fields.d), fields.d)
        /\ UNCHANGED <<range, owner, fields, physical, stale>>
    BY <1>3 DEF CleanLine
  <2>2. LineStart(line, fields.d) = line /\ \A w \in dirty : line <= w
    BY <2>1 DEF KInv
  <2>3. dirty' = dirty \ (line .. line + D - 1)
    BY <2>1, <2>2 DEF InLine
  <2>4. D \in Nat \ {0}
    BY <1>0
  <2> HIDE DEF D
  <2>5. \A w \in dirty' : w \in dirty /\ line + D <= w
    BY <1>0, <1>a, <2>2, <2>3, <2>4 DEF KInv
  <2>6. CASE line + D < FlushEnd
    <3>1. line' = line + D /\ step' = "dcache"
      BY <1>3, <2>1, <2>6 DEF CleanLine, D
    <3>2. LineStart(line + D, fields.d) = line + D
      BY <1>0, <2>2, LineOfWord DEF D
    <3>3. line' \in Nat
      BY <1>0, <2>4, <3>1
    <3>4. LineStart(line', fields'.d) = line' /\ \A w \in dirty' : line' <= w
      BY <2>1, <2>5, <3>1, <3>2
    <3> QED BY <2>1, <2>3, <3>1, <3>3, <3>4 DEF KInv, ClaimedWords, Found
  <2>7. CASE ~(line + D < FlushEnd)
    <3>1. line' = FirstLine(fields.i) /\ step' = "icache"
      BY <1>3, <2>1, <2>7 DEF CleanLine, D
    <3>2. dirty' = {}
      BY <1>0, <1>a, <2>4, <2>5, <2>7 DEF KInv
    <3>3. line' \in Nat /\ LineStart(line', fields.i) = line' /\ line' <= FlushStart
      BY <1>0, <1>b, <3>1
    <3>4. \A w \in stale : line' <= w
      BY <1>0, <1>a, <3>3 DEF KInv
    <3>5. LineStart(line', fields'.i) = line' /\ \A w \in stale' : line' <= w
      BY <2>1, <3>3, <3>4
    <3> QED BY <2>1, <3>1, <3>2, <3>3, <3>5 DEF KInv, ClaimedWords, Found
  <2> QED BY <2>6, <2>7
<1>4. CASE InvalidateLine
  <2> DEFINE I == LineWords(fields.i)
             l == LineStart(line, fields.i)
  <2>1. /\ step = "icache"
        /\ stale' = IF Found THEN stale \ InLine(l, fields.i) ELSE stale
        /\ UNCHANGED <<range, owner, fields, physical, dirty>>
    BY <1>4 DEF InvalidateLine, Found
  <2>2. dirty = {}
    BY <2>1 DEF KInv
  <2>3. line' \in Nat /\ step' \in {"icache", "flushed"}
    <3>1. CASE line + I < FlushEnd
      BY <1>0, <1>4, <2>1, <3>1 DEF InvalidateLine
    <3>2. CASE ~(line + I < FlushEnd)
      BY <1>4, <3>2 DEF InvalidateLine
    <3> QED BY <3>1, <3>2
  <2>4. stale' \subseteq stale
    BY <2>1
  <2>5. ASSUME Found
        PROVE  /\ step' = "icache" => LineStart(line', fields.i) = line' /\ \A w \in stale' : line' <= w
               /\ step' = "flushed" => stale' = {}
    <3>1. l = line /\ \A w \in stale : line <= w
      BY <2>1, <2>5 DEF KInv
    <3>2. stale' = stale \ (line .. line + I - 1)
      BY <2>1, <2>5, <3>1 DEF InLine
    <3>3. I \in Nat \ {0}
      BY <1>0
    <3>4. \A w \in stale' : w \in stale /\ line + I <= w
      BY <1>0, <1>a, <3>1, <3>2, <3>3 DEF KInv
    <3>5. CASE line + I < FlushEnd
      <4>1. line' = line + I /\ step' = "icache"
        BY <1>4, <2>1, <3>5 DEF InvalidateLine
      <4>2. LineStart(line + I, fields.i) = line + I
        BY <1>0, <3>1, LineOfWord
      <4> QED BY <3>4, <4>1, <4>2
    <3>6. CASE ~(line + I < FlushEnd)
      <4>1. step' = "flushed"
        BY <1>4, <3>6 DEF InvalidateLine
      <4>2. stale' = {}
        BY <1>0, <1>a, <3>3, <3>4, <3>6 DEF KInv
      <4> QED BY <4>1, <4>2
    <3> QED BY <3>5, <3>6
  <2> HIDE DEF I, l
  <2>6. Found' <=> Found
    BY <2>1 DEF Found
  <2>7. (step' = "icache" /\ Found' => LineStart(line', fields'.i) = line' /\ \A w \in stale' : line' <= w)
    BY <2>1, <2>5, <2>6
  <2>8. (step' = "flushed" /\ Found' => stale' = {})
    BY <2>5, <2>6
  <2>9. step' # "dcache"
    BY <2>3
  <2> QED BY <2>1, <2>2, <2>3, <2>4, <2>7, <2>8, <2>9 DEF KInv, ClaimedWords
<1>5. CASE NextHook
  <2>1. step' = "write" /\ UNCHANGED <<range, owner, fields, physical, dirty, stale, line>>
    BY <1>5 DEF NextHook
  <2> QED BY <2>1 DEF KInv, ClaimedWords, Found
<1>6. ASSUME NEW l \in LinesOf(fields.i), FetchAhead(l) PROVE KInv'
  <2>1. /\ stale' = stale \cup (InLine(l, fields.i) \cap dirty)
        /\ UNCHANGED <<range, owner, fields, physical, dirty, line, step>>
    BY <1>6 DEF FetchAhead
  <2>2. stale' \subseteq ClaimedWords
    BY <2>1 DEF KInv
  <2>3. step \in {"icache", "flushed"} => stale' = stale
    BY <2>1 DEF KInv
  <2> QED BY <2>1, <2>2, <2>3 DEF KInv, ClaimedWords, Found
<1>7. ASSUME NEW l \in LinesOf(fields.d), WriteBack(l) PROVE KInv'
  <2>1. /\ dirty' \subseteq dirty
        /\ UNCHANGED <<range, owner, fields, physical, stale, line, step>>
    BY <1>7 DEF WriteBack
  <2> QED BY <2>1 DEF KInv, ClaimedWords, Found
<1>8. CASE UNCHANGED cacheVars
  BY <1>8 DEF cacheVars, KInv, ClaimedWords, Found
<1> QED BY <1>1, <1>2, <1>3, <1>4, <1>5, <1>6, <1>7, <1>8 DEF CachesNext

\* Whatever is fetched ahead or written back meanwhile, no old instruction is left
\* when Flush or the destructor is done, for lines and pages of any size, wherever
\* the range begins in its line; but for trampolines of a cache that finds a line by
\* its address alone.
THEOREM WhatIsWrittenIsFetched == CachesSpec => []FlushedIsFetched
<1>1. KInv => FlushedIsFetched
  BY DEF KInv, FlushedIsFetched, Found
<1> QED BY <1>1, InitKInv, StepKInv, PTL DEF CachesSpec
===============================================================================
