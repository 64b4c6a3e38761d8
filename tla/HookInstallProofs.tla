-------------------------- MODULE HookInstallProofs ---------------------------
(* Proofs about HookInstall, for every number of hooks, sizes and reservations. *)
EXTENDS HookInstall, SequenceTheorems, TLAPS

(* Every hook takes a reservation before it writes its trampoline, no slot of    *)
(* the reservations comes back, and the hook that finds none left, which goes on *)
(* without, does not get past its destructor: so the count of the reservations   *)
(* bounds the trampolines written.                                               *)
Counted ==
  /\ hook \in 0 .. Len(Targets)
  /\ index \in Int
  /\ pc # "aborted" => index = hook - 1
  /\ sCurrentIndex \in 0 .. NumReservations
  /\ "rv" \in DOMAIN claim
  /\ pc \in {"find", "reserve"} => sCurrentIndex = hook
  /\ pc \in {"map", "check", "patch", "unmap", "release"} =>
       IF claim.rv = NULL THEN sCurrentIndex = hook /\ hook = NumReservations
                          ELSE sCurrentIndex = hook + 1
  /\ pc \in {"idle", "return"} => sCurrentIndex = hook + 1

SlotsInOrder ==
  /\ slot \in [Hooks -> Int]
  /\ \A h \in Hooks : slot[h] = IF h <= hook THEN h - 1 ELSE -1

WrittenAreReserved ==
  \A i \in DOMAIN trampoline :
    trampoline[i] # NoTrampoline => i + 1 <= hook /\ i + 1 <= sCurrentIndex

TrampolineDomain == DOMAIN trampoline = 0 .. Len(Targets)

PatchesAHook == pc = "patch" => hook > 0

IInv == Counted /\ SlotsInOrder /\ WrittenAreReserved /\ TrampolineDomain /\ PatchesAHook

LEMMA TargetsLength == Len(Targets) \in Nat /\ Hooks = 1 .. Len(Targets)
  BY HookAssumption DEF Hooks

LEMMA TimesMonotone ==
  ASSUME NEW a \in Nat, NEW b \in Nat, NEW c \in Nat, a <= b
  PROVE  a * c <= b * c
<1>1. PICK d \in Nat : b = a + d
  <2>1. b - a \in Nat /\ b = a + (b - a)
    OBVIOUS
  <2>2. QED
    BY <2>1
<1>2. d * c \in Nat /\ a * c \in Nat
  OBVIOUS
<1>3. b * c = a * c + d * c
  BY <1>1
<1>4. QED
  BY <1>2, <1>3

LEMMA InitIInv == Init => IInv
<1> SUFFICES ASSUME Init PROVE IInv
  OBVIOUS
<1>1. Counted
  <2>1. "rv" \in DOMAIN claim
    BY DEF Init, NoClaim
  <2>2. QED
    BY <2>1, TargetsLength, VirtMemAssumption DEF Init, InitMem, Counted
<1>2. SlotsInOrder
  BY TargetsLength DEF Init, SlotsInOrder
<1>3. WrittenAreReserved /\ TrampolineDomain
  BY TargetsLength DEF Init, WrittenAreReserved, TrampolineDomain
<1>4. PatchesAHook
  BY DEF Init, PatchesAHook
<1>5. QED
  BY <1>1, <1>2, <1>3, <1>4 DEF IInv

(* A step that leaves the count of reservations, the hooks and the trampolines     *)
(* alone keeps the invariant when the place of the thread fits the count.          *)
LEMMA Elsewhere ==
  ASSUME IInv, UNCHANGED <<hook, index, sCurrentIndex, slot, trampoline>>,
         pc # "aborted", "rv" \in DOMAIN claim',
         pc' \in {"find", "reserve"} => sCurrentIndex = hook,
         pc' \in {"map", "check", "patch", "unmap", "release"} =>
           IF claim'.rv = NULL THEN sCurrentIndex = hook /\ hook = NumReservations
                               ELSE sCurrentIndex = hook + 1,
         pc' \in {"idle", "return"} => sCurrentIndex = hook + 1,
         pc' = "patch" => hook > 0
  PROVE  IInv'
<1>1. Counted'
  BY DEF IInv, Counted
<1>2. SlotsInOrder'
  BY DEF IInv, SlotsInOrder
<1>3. WrittenAreReserved' /\ TrampolineDomain'
  BY DEF IInv, WrittenAreReserved, TrampolineDomain
<1>4. PatchesAHook'
  BY DEF PatchesAHook
<1>5. QED
  BY <1>1, <1>2, <1>3, <1>4 DEF IInv

(* The steps of the constructor and of the destructor.                             *)
LEMMA ClaimsIInv ==
  ASSUME IInv, ConstructFind \/ ConstructMap \/ ConstructCheck \/ DestroyUnmap \/ DestroyRelease
  PROVE  IInv'
<1> USE DEF memVars, listVars, hookVars
<1> DEFINE Same == UNCHANGED <<hook, index, sCurrentIndex, slot, trampoline>>
<1>1. "rv" \in DOMAIN claim /\ hook \in Nat /\ NumReservations \in Nat \ {0}
  BY TargetsLength, VirtMemAssumption DEF IInv, Counted
<1>2. CASE ConstructFind
  <2>1. Same /\ pc = "find" /\ pc' = "reserve"
    BY <1>2 DEF ConstructFind
  <2>2. "rv" \in DOMAIN claim'
    BY <1>1, <1>2 DEF ConstructFind
  <2>3. sCurrentIndex = hook
    BY <2>1 DEF IInv, Counted
  <2>4. QED
    BY <2>1, <2>2, <2>3, Elsewhere
<1>3. CASE ConstructMap
  <2>1. Same /\ pc = "map" /\ pc' \in {"aborted", "check"}
        /\ (claim' = claim \/ claim' = [claim EXCEPT !.rw = RwAddress])
    BY <1>3 DEF ConstructMap, Stop
  <2>2. "rv" \in DOMAIN claim' /\ claim'.rv = claim.rv
    BY <1>1, <2>1
  <2>3. IF claim.rv = NULL THEN sCurrentIndex = hook /\ hook = NumReservations
                           ELSE sCurrentIndex = hook + 1
    BY <2>1 DEF IInv, Counted
  <2>4. QED
    BY <2>1, <2>2, <2>3, Elsewhere
<1>4. CASE ConstructCheck
  <2>1. Same /\ claim' = claim /\ pc = "check"
        /\ pc' \in {"idle", "patch"} /\ (pc' = "patch" <=> hook # 0)
    BY <1>4 DEF ConstructCheck
  <2>2. IF claim.rv = NULL THEN sCurrentIndex = hook /\ hook = NumReservations
                           ELSE sCurrentIndex = hook + 1
    BY <2>1 DEF IInv, Counted
  <2>3. pc' = "idle" => sCurrentIndex = hook + 1
    BY <1>1, <2>1, <2>2
  <2>4. hook # 0 => hook > 0
    BY <1>1
  <2>5. QED
    BY <1>1, <2>1, <2>2, <2>3, <2>4, Elsewhere
<1>5. CASE DestroyUnmap
  <2>1. Same /\ claim' = claim /\ pc = "unmap" /\ pc' = "release"
    BY <1>5 DEF DestroyUnmap
  <2>2. IF claim.rv = NULL THEN sCurrentIndex = hook /\ hook = NumReservations
                           ELSE sCurrentIndex = hook + 1
    BY <2>1 DEF IInv, Counted
  <2>3. QED
    BY <1>1, <2>1, <2>2, Elsewhere
<1>6. CASE DestroyRelease
  <2>1. Same /\ pc = "release"
        /\ \/ claim.rv = NULL /\ claim' = claim /\ pc' = "crashed"
           \/ claim.rv # NULL /\ claim' = NoClaim /\ pc' = "return"
    BY <1>6 DEF DestroyRelease, RemoveReservation, Stop
  <2>2. claim.rv # NULL => sCurrentIndex = hook + 1
    BY <2>1 DEF IInv, Counted
  <2>3. "rv" \in DOMAIN claim'
    BY <1>1, <2>1 DEF NoClaim
  <2>4. QED
    BY <2>1, <2>2, <2>3, Elsewhere
<1>7. QED
  BY <1>2, <1>3, <1>4, <1>5, <1>6

LEMMA ReserveIInv ==
  ASSUME IInv, ConstructReserve PROVE IInv'
<1> USE DEF memVars, listVars, hookVars
<1>1. /\ pc = "reserve" /\ pc' = "map" /\ UNCHANGED <<hook, index, slot, trampoline>>
  BY DEF ConstructReserve
<1>2. /\ "rv" \in DOMAIN claim /\ hook \in Nat /\ NumReservations \in Nat \ {0}
      /\ sCurrentIndex = hook /\ sCurrentIndex <= NumReservations
  BY <1>1, TargetsLength, VirtMemAssumption DEF IInv, Counted
<1>3. CASE NoSlotLeft
  <2>1. claim' = [claim EXCEPT !.rv = NULL] /\ sCurrentIndex' = sCurrentIndex
    BY <1>3 DEF ConstructReserve
  <2>2. "rv" \in DOMAIN claim' /\ claim'.rv = NULL
    BY <1>2, <2>1
  <2>3. hook = NumReservations
    BY <1>2, <1>3 DEF NoSlotLeft
  <2>4. QED
    BY <1>1, <1>2, <2>1, <2>2, <2>3, Elsewhere
<1>4. CASE ~NoSlotLeft
  <2>1. claim' = [claim EXCEPT !.rv = g_Reservations']
        /\ AddReservation(AlignedRw, AlignedSize)
    BY <1>4 DEF ConstructReserve
  <2>2. sCurrentIndex' = sCurrentIndex + 1 /\ g_Reservations' = sCurrentIndex + 1
    BY <2>1 DEF AddReservation
  <2>3. "rv" \in DOMAIN claim' /\ claim'.rv = sCurrentIndex + 1
    BY <1>2, <2>1, <2>2
  <2>4. claim'.rv # NULL
    BY <1>2, <2>3 DEF NULL
  <2>5. sCurrentIndex < NumReservations
    BY <1>2, <1>4 DEF NoSlotLeft
  <2>6. Counted'
    BY <1>1, <1>2, <2>2, <2>3, <2>4, <2>5, TargetsLength DEF IInv, Counted
  <2>7. SlotsInOrder' /\ TrampolineDomain' /\ PatchesAHook'
    BY <1>1 DEF IInv, SlotsInOrder, TrampolineDomain, PatchesAHook
  <2>8. WrittenAreReserved'
    BY <1>1, <1>2, <2>2, TargetsLength DEF IInv, WrittenAreReserved, TrampolineDomain
  <2>9. QED
    BY <2>6, <2>7, <2>8 DEF IInv
<1>5. QED
  BY <1>3, <1>4

LEMMA HookIInv ==
  ASSUME IInv, Hook PROVE IInv'
<1> USE DEF memVars, listVars, hookVars
<1>1. /\ pc = "idle" /\ hook < Len(Targets) /\ index' = index + 1
      /\ UNCHANGED <<sCurrentIndex, trampoline>>
  BY DEF Hook
<1>2. /\ index = hook - 1 /\ sCurrentIndex = hook + 1 /\ hook \in Nat /\ "rv" \in DOMAIN claim
      /\ sCurrentIndex \in 0 .. NumReservations /\ Len(Targets) \in Nat
  BY <1>1, TargetsLength DEF IInv, Counted
<1>3. CASE Allocated > HookMax
  <2>1. pc' = "aborted" /\ UNCHANGED <<hook, slot, claim>>
    BY <1>3 DEF Hook
  <2>2. Counted' /\ SlotsInOrder' /\ PatchesAHook'
    BY <1>1, <1>2, <2>1 DEF IInv, Counted, SlotsInOrder, PatchesAHook
  <2>3. WrittenAreReserved' /\ TrampolineDomain'
    BY <1>1, <2>1 DEF IInv, WrittenAreReserved, TrampolineDomain
  <2>4. QED
    BY <2>2, <2>3 DEF IInv
<1>4. CASE ~(Allocated > HookMax)
  <2>1. /\ pc' = "find" /\ hook' = hook + 1
        /\ slot' = [slot EXCEPT ![hook + 1] = Allocated]
        /\ "rv" \in DOMAIN claim'
    BY <1>4 DEF Hook, NoClaim
  <2>2. Counted' /\ PatchesAHook'
    BY <1>1, <1>2, <2>1 DEF Counted, PatchesAHook
  <2>3. SlotsInOrder'
    BY <1>1, <1>2, <2>1, TargetsLength DEF IInv, SlotsInOrder, Allocated
  <2>4. WrittenAreReserved' /\ TrampolineDomain'
    BY <1>1, <1>2, <2>1, TargetsLength DEF IInv, WrittenAreReserved, TrampolineDomain
  <2>5. QED
    BY <2>2, <2>3, <2>4 DEF IInv
<1>5. QED
  BY <1>3, <1>4

LEMMA PatchIInv ==
  ASSUME IInv, HookFuncImpl PROVE IInv'
<1> USE DEF memVars, listVars, hookVars
<1>1. "rv" \in DOMAIN claim /\ pc = "patch"
  BY DEF IInv, Counted, HookFuncImpl
<1>2. CASE Stop("aborted") \/ Stop("crashed")
  <2>1. UNCHANGED <<hook, index, sCurrentIndex, slot, trampoline, claim>>
        /\ pc' \in {"aborted", "crashed"}
    BY <1>2 DEF Stop
  <2>2. QED
    BY <1>1, <2>1, Elsewhere
<1>3. CASE ~(Stop("aborted") \/ Stop("crashed"))
  <2>1. /\ pc' = "unmap"
        /\ trampoline' = [i \in DOMAIN trampoline |->
                            LET t == IF i = slot[hook] THEN Saved ELSE trampoline[i]
                            IN IF i \in Hit /\ t # NoTrampoline THEN Overwritten ELSE t]
        /\ UNCHANGED <<hook, index, sCurrentIndex, slot, claim>>
    BY <1>3 DEF HookFuncImpl
  <2>2. Counted' /\ SlotsInOrder' /\ PatchesAHook'
    BY <1>1, <2>1 DEF IInv, Counted, SlotsInOrder, PatchesAHook
  <2>3. slot[hook] = hook - 1 /\ hook \in Nat /\ hook <= sCurrentIndex
    BY <1>1, TargetsLength, VirtMemAssumption DEF IInv, Counted, SlotsInOrder, PatchesAHook
  <2>4. TrampolineDomain'
    BY <2>1 DEF IInv, TrampolineDomain
  <2>5. ASSUME NEW i \in DOMAIN trampoline', trampoline'[i] # NoTrampoline
        PROVE  i + 1 <= hook /\ i + 1 <= sCurrentIndex
    <3>1. i \in DOMAIN trampoline /\ (i = slot[hook] \/ trampoline[i] # NoTrampoline)
      BY <2>1, <2>5
    <3>2. QED
      BY <2>3, <3>1 DEF IInv, WrittenAreReserved
  <2>6. WrittenAreReserved'
    BY <2>1, <2>5 DEF WrittenAreReserved, NoTrampoline
  <2>7. QED
    BY <2>2, <2>4, <2>6 DEF IInv
<1>4. QED
  BY <1>2, <1>3

LEMMA NextIInv == IInv /\ [Next]_vars => IInv'
<1> SUFFICES ASSUME IInv, [Next]_vars PROVE IInv'
  OBVIOUS
<1>1. CASE Return
  <2>1. UNCHANGED <<hook, index, sCurrentIndex, slot, trampoline, claim>> /\ pc = "return"
        /\ pc' = "idle"
    BY <1>1 DEF Return, memVars, listVars
  <2>2. sCurrentIndex = hook + 1 /\ "rv" \in DOMAIN claim
    BY <2>1 DEF IInv, Counted
  <2>3. QED
    BY <2>1, <2>2, Elsewhere
<1>2. CASE UNCHANGED vars
  BY <1>2 DEF vars, memVars, listVars, hookVars, IInv, Counted, SlotsInOrder, WrittenAreReserved,
              TrampolineDomain, PatchesAHook
<1>3. QED
  BY <1>1, <1>2, ClaimsIInv, ReserveIInv, HookIInv, PatchIInv DEF Next

(* AllocForTrampoline lets one hook more than the pool holds pass, which does no     *)
(* harm as long as there are no more reservations than trampolines: the Jit has one   *)
(* of them, and one hook without any writes a trampoline before it crashes.  In the   *)
(* program they are five against twenty.                                              *)
THEOREM PoolIsBounded ==
  ASSUME NumReservations <= HookMax
  PROVE  Spec => []PoolBounded
<1>1. IInv => PoolBounded
  <2> SUFFICES ASSUME IInv PROVE PoolBounded
    OBVIOUS
  <2>1. ASSUME NEW i \in DOMAIN trampoline, trampoline[i] # NoTrampoline
        PROVE  (i + 1) * TrampolineSize <= JitWords
    <3>1. i \in Nat /\ i + 1 <= HookMax
      BY <2>1, VirtMemAssumption, TargetsLength, HookAssumption
         DEF IInv, Counted, WrittenAreReserved, TrampolineDomain, HookMax
    <3>2. HookMax \in Nat /\ HookMax * TrampolineSize <= JitWords
      BY HookAssumption DEF HookMax
    <3>3. (i + 1) * TrampolineSize <= HookMax * TrampolineSize
      <4>1. i + 1 \in Nat /\ TrampolineSize \in Nat
        BY <3>1, HookAssumption
      <4>2. QED
        BY <3>1, <3>2, <4>1, TimesMonotone
    <3>4. QED
      BY <3>1, <3>2, <3>3, HookAssumption
  <2>2. ASSUME NEW g \in Hooks, NEW h \in Hooks, g # h, slot[g] # -1
        PROVE  slot[g] # slot[h]
    BY <2>2, TargetsLength DEF IInv, Counted, SlotsInOrder
  <2>3. QED
    BY <2>1, <2>2 DEF PoolBounded
<1>2. Spec => []IInv
  BY InitIInv, NextIInv, PTL DEF Spec
<1>3. QED
  BY <1>1, <1>2, PTL

-----------------------------------------------------------------------------
(* What is writable, and which reservations are held, at every place of the thread. *)

\* The pages that are an alias, those of the claim's alias, and those of the Jit's
\* once there is one.
Writable == {p \in 0 .. Pages - 1 : rwOf[p] # -1}
Area == AlignedRw .. AlignedRw + AlignedSize - 1
JitArea == IF hook = 0 THEN {} ELSE PagesOf(region[1])

AliasType ==
  /\ claim \in [ro : Nat, size : Nat, rw : Nat, rv : Int]
  /\ rwOf \in [0 .. Pages - 1 -> Int]
  /\ DOMAIN region = Slots
  /\ pc \in {"check", "patch", "unmap"} => Area \subseteq 0 .. Pages - 1

HeldByPlace ==
  /\ pc \in {"find", "reserve"} => held = IF hook = 0 THEN {} ELSE {1}
  /\ (pc \in {"map", "check", "patch", "unmap", "release"} /\ claim.rv # NULL) =>
       held = {1, hook + 1} /\ claim.rv = hook + 1
  /\ pc \in {"return", "idle"} => held = {1}
  /\ pc \in {"patch", "unmap", "release", "return"} => hook > 0

\* An alias is made of pages that were free, so it is none of the Jit's.
WritableByPlace ==
  /\ Writable \subseteq mapped
  /\ (pc \in {"map", "check", "patch", "unmap"} /\ claim.rv # NULL) =>
       region[hook + 1] = Slice(AlignedRw, AlignedRw + AlignedSize)
  /\ pc \in {"find", "reserve", "map", "release"} => Writable = JitArea
  /\ pc \in {"check", "patch", "unmap"} =>
       Writable = JitArea \cup Area /\ JitArea \cap Area = {}
  /\ pc \in {"return", "idle"} => Writable = PagesOf(region[1])

AInv == AliasType /\ HeldByPlace /\ WritableByPlace

(* The page of a word that is so far into a page.                               *)
LEMMA PageOfOffset ==
  ASSUME NEW a \in Nat, NEW r \in Nat, r < PageWords
  PROVE  PageOf(a * PageWords + r) = a
<1>1. PageWords \in Nat \ {0}
  BY HookAssumption
<1>2. a * PageWords \in Nat
  BY <1>1
<1> DEFINE q == PageOf(a * PageWords + r)
<1>3. q \in Nat /\ q * PageWords <= a * PageWords + r
                /\ a * PageWords + r < q * PageWords + PageWords
  BY <1>1, <1>2 DEF PageOf
<1> HIDE DEF q
<1>4. ~(q < a)
  <2>1. SUFFICES ASSUME q + 1 <= a PROVE FALSE
    BY <1>3
  <2>2. q + 1 \in Nat /\ (q + 1) * PageWords <= a * PageWords
    BY <1>1, <1>3, <2>1, TimesMonotone
  <2>3. (q + 1) * PageWords = q * PageWords + PageWords
    BY <1>1, <1>3
  <2>4. q * PageWords \in Nat
    BY <1>1, <1>3
  <2>5. QED
    BY <1>1, <1>2, <1>3, <2>2, <2>3, <2>4
<1>5. ~(q > a)
  <2>1. SUFFICES ASSUME a + 1 <= q PROVE FALSE
    BY <1>3
  <2>2. a + 1 \in Nat /\ (a + 1) * PageWords <= q * PageWords
    BY <1>1, <1>3, <2>1, TimesMonotone
  <2>3. (a + 1) * PageWords = a * PageWords + PageWords
    BY <1>1
  <2>4. q * PageWords \in Nat
    BY <1>1, <1>3
  <2>5. QED
    BY <1>1, <1>2, <1>3, <2>2, <2>3, <2>4
<1>6. q = a
  BY <1>3, <1>4, <1>5
<1>7. QED
  BY <1>6 DEF q

(* A word of the program is less than a page behind the start of its page.        *)
LEMMA OffsetInPage ==
  ASSUME NEW w \in Nat
  PROVE  /\ PageOf(w) \in Nat
         /\ w - PageOf(w) * PageWords \in Nat
         /\ w - PageOf(w) * PageWords < PageWords
<1>1. PageWords \in Nat \ {0}
  BY HookAssumption
<1>2. PageOf(w) \in Nat /\ PageOf(w) * PageWords <= w /\ w < PageOf(w) * PageWords + PageWords
  BY <1>1 DEF PageOf
<1>3. PageOf(w) * PageWords \in Nat
  BY <1>1, <1>2
<1>4. QED
  BY <1>1, <1>2, <1>3

(* The pages of a claim.                                                         *)
LEMMA ClaimPages ==
  ASSUME claim \in [ro : Nat, size : Nat, rw : Nat, rv : Int]
  PROVE  AlignedRo \in Nat /\ AlignedSize \in Nat /\ AlignedRw \in Nat
<1>1. claim.ro \in Nat /\ claim.size \in Nat /\ claim.rw \in Nat
  OBVIOUS
<1>2. AlignedRo \in Nat /\ AlignedRw \in Nat
  BY <1>1, OffsetInPage DEF AlignedRo, AlignedRw
<1>3. AlignedSize \in Nat
  <2>1. claim.size + PageWords - 1 \in Nat
    BY <1>1, HookAssumption
  <2>2. AlignedSize = PageOf(claim.size + PageWords - 1)
    BY DEF AlignedSize, PageOf
  <2>3. QED
    BY <2>1, <2>2, OffsetInPage
<1>4. QED
  BY <1>2, <1>3

(* A slice virtmemFindAslr returns is a slice of the region it looks in.          *)
LEMMA FoundFits ==
  ASSUME NEW n \in Nat, NEW a \in FindAslr(n), ~(a < 0)
  PROVE  a \in Nat /\ AslrRegion.start <= a /\ a + n <= AslrRegion.end
<1>1. a \in Candidates(n)
  BY DEF FindAslr, Free, Thrown
<1>2. AslrRegion.start \in Nat /\ AslrRegion.end \in Nat
  BY VirtMemAssumption DEF IsRegion
<1>3. a \in Int /\ AslrRegion.start <= a /\ a <= AslrRegion.end - n
  BY <1>1, <1>2 DEF Candidates
<1>4. QED
  BY <1>2, <1>3

(* The region lies in the address space.                                          *)
LEMMA RegionFits == PagesOf(AslrRegion) \subseteq 0 .. Pages - 1
  BY VirtMemAssumption DEF PagesOf, IsRegion

LEMMA InitAInv == Init => AInv
<1> SUFFICES ASSUME Init PROVE AInv
  OBVIOUS
<1>1. /\ pc = "find" /\ hook = 0 /\ held = {}
      /\ rwOf = [p \in 0 .. Pages - 1 |-> -1]
      /\ claim = [NoClaim EXCEPT !.ro = JitPage * PageWords, !.size = JitWords]
      /\ DOMAIN region = Slots
  BY DEF Init, InitMem
<1>2. Writable = {}
  BY <1>1 DEF Writable
<1>3. JitPage \in Nat
  BY HookAssumption, VirtMemAssumption
<1>4. JitPage * PageWords \in Nat /\ JitWords \in Nat
  BY <1>3, HookAssumption
<1>5. claim \in [ro : Nat, size : Nat, rw : Nat, rv : Int]
  <2>1. claim = [ro |-> JitPage * PageWords, size |-> JitWords, rw |-> 0, rv |-> 0]
    BY <1>1 DEF NoClaim, NULL
  <2>2. \A a, b \in Nat : [ro |-> a, size |-> b, rw |-> 0, rv |-> 0]
                             \in [ro : Nat, size : Nat, rw : Nat, rv : Int]
    OBVIOUS
  <2>3. QED
    BY <1>4, <2>1, <2>2
<1>6. rwOf \in [0 .. Pages - 1 -> Int]
  BY <1>1
<1>7. AliasType
  BY <1>1, <1>5, <1>6 DEF AliasType
<1>8. HeldByPlace /\ WritableByPlace
  BY <1>1, <1>2 DEF HeldByPlace, WritableByPlace, JitArea
<1>9. QED
  BY <1>7, <1>8 DEF AInv

(* A place the thread stops at: nothing is said of it.                           *)
LEMMA StopKeeps ==
  ASSUME AInv, UNCHANGED <<memVars, hook, claim, rwOf>>, pc' \in {"aborted", "crashed"}
  PROVE  AInv'
<1> USE DEF memVars, listVars
<1>1. AliasType'
  BY DEF AInv, AliasType
<1>2. HeldByPlace'
  BY DEF HeldByPlace
<1>3. Writable' = Writable
  BY DEF Writable
<1>4. WritableByPlace'
  BY <1>3 DEF AInv, WritableByPlace
<1>5. QED
  BY <1>1, <1>2, <1>4 DEF AInv

(* The constructor's steps.                                                      *)
LEMMA FindKeeps == ASSUME IInv, AInv, ConstructFind PROVE AInv'
<1> USE DEF memVars, listVars
<1>1. PICK a \in FindAslr(AlignedSize) :
        claim' = [claim EXCEPT !.rw = IF a < 0 THEN 0 ELSE a * PageWords]
  BY DEF ConstructFind
<1>2. pc = "find" /\ pc' = "reserve" /\ UNCHANGED <<memVars, hook, rwOf>>
  BY DEF ConstructFind
<1>3. claim \in [ro : Nat, size : Nat, rw : Nat, rv : Int] /\ AlignedSize \in Nat
  BY ClaimPages DEF AInv, AliasType
<1>4. (IF a < 0 THEN 0 ELSE a * PageWords) \in Nat
  <2>1. CASE a < 0
    BY <2>1
  <2>2. CASE ~(a < 0)
    <3>1. a \in Nat /\ PageWords \in Nat
      BY <1>3, <2>2, FoundFits, HookAssumption
    <3>2. a * PageWords \in Nat
      BY <3>1
    <3>3. QED
      BY <2>2, <3>2
  <2>3. QED
    BY <2>1, <2>2
<1>5. claim' \in [ro : Nat, size : Nat, rw : Nat, rv : Int]
  BY <1>1, <1>3, <1>4
<1>6. AliasType'
  BY <1>2, <1>5 DEF AInv, AliasType
<1>7. Writable' = Writable /\ JitArea' = JitArea
  BY <1>2 DEF Writable, JitArea
<1>8. HeldByPlace' /\ WritableByPlace'
  BY <1>2, <1>7 DEF AInv, HeldByPlace, WritableByPlace
<1>9. QED
  BY <1>6, <1>8 DEF AInv

LEMMA ReserveKeeps == ASSUME IInv, AInv, ConstructReserve PROVE AInv'
<1> USE DEF memVars, listVars
<1>1. pc = "reserve" /\ pc' = "map" /\ UNCHANGED <<mapped, hook, rwOf>>
  BY DEF ConstructReserve
<1>2. claim \in [ro : Nat, size : Nat, rw : Nat, rv : Int] /\ DOMAIN region = Slots
  BY DEF AInv, AliasType
<1>3. CASE NoSlotLeft
  <2>1. claim' = [claim EXCEPT !.rv = NULL] /\ UNCHANGED <<listVars, held>>
    BY <1>3 DEF ConstructReserve
  <2>2. claim' \in [ro : Nat, size : Nat, rw : Nat, rv : Int] /\ claim'.rv = NULL
    BY <1>2, <2>1 DEF NULL
  <2>3. AliasType'
    BY <1>1, <1>2, <2>1, <2>2 DEF AInv, AliasType
  <2>4. Writable' = Writable /\ JitArea' = JitArea
    BY <1>1, <2>1 DEF Writable, JitArea
  <2>5. HeldByPlace' /\ WritableByPlace'
    BY <1>1, <2>1, <2>2, <2>4 DEF AInv, HeldByPlace, WritableByPlace
  <2>6. QED
    BY <2>3, <2>5 DEF AInv
<1>4. CASE ~NoSlotLeft
  <2>1. /\ AddReservation(AlignedRw, AlignedSize)
        /\ claim' = [claim EXCEPT !.rv = g_Reservations']
    BY <1>4 DEF ConstructReserve
  <2>2. sCurrentIndex = hook /\ hook \in Nat /\ hook + 1 \in Slots
    BY <1>1, <1>4, TargetsLength, VirtMemAssumption DEF IInv, Counted, NoSlotLeft, Slots
  <2>3. /\ region' = [region EXCEPT ![hook + 1] = Slice(AlignedRw, AlignedRw + AlignedSize)]
        /\ g_Reservations' = hook + 1
        /\ held' = held \cup {hook + 1}
    BY <2>1, <2>2 DEF AddReservation
  <2>4. /\ claim' \in [ro : Nat, size : Nat, rw : Nat, rv : Int]
        /\ claim'.rv = hook + 1
        /\ claim'.rw = claim.rw /\ claim'.size = claim.size
    BY <1>2, <2>1, <2>2, <2>3
  <2>5. AlignedRw' = AlignedRw /\ AlignedSize' = AlignedSize
    BY <2>4 DEF AlignedRw, AlignedSize, PageOf
  <2>6. DOMAIN region' = Slots /\ region'[hook + 1] = Slice(AlignedRw, AlignedRw + AlignedSize)
        /\ (hook # 0 => region'[1] = region[1])
    BY <1>2, <2>2, <2>3
  <2>7. AliasType'
    BY <1>1, <2>4, <2>6 DEF AInv, AliasType
  <2>8. HeldByPlace'
    BY <1>1, <2>2, <2>3, <2>4 DEF AInv, HeldByPlace
  <2>9. Writable' = Writable /\ JitArea' = JitArea
    BY <1>1, <2>6 DEF Writable, JitArea
  <2>10. WritableByPlace'
    BY <1>1, <2>5, <2>6, <2>9 DEF AInv, WritableByPlace
  <2>11. QED
    BY <2>7, <2>8, <2>10 DEF AInv
<1>5. QED
  BY <1>3, <1>4

(* The kernel maps only pages that were free, so the new alias meets no other.      *)
LEMMA MapKeeps == ASSUME IInv, AInv, ConstructMap PROVE AInv'
<1> USE DEF memVars, listVars
<1> DEFINE ro == AlignedRo .. AlignedRo + AlignedSize - 1
<1>1. pc = "map"
  BY DEF ConstructMap
<1>2. CASE ~(Area \subseteq PagesOf(AslrRegion)) \/ Area \cap mapped # {} \/ ~(ro \subseteq mapped)
  BY <1>2, StopKeeps DEF ConstructMap, Stop, Area
<1>3. CASE ~(~(Area \subseteq PagesOf(AslrRegion)) \/ Area \cap mapped # {} \/ ~(ro \subseteq mapped))
  <2>1. /\ mapped' = mapped \cup Area
        /\ rwOf' = [p \in DOMAIN rwOf |->
                      IF p \in Area THEN AlignedRo + (p - AlignedRw) ELSE rwOf[p]]
        /\ claim' = [claim EXCEPT !.rw = RwAddress]
        /\ pc' = "check"
        /\ UNCHANGED <<listVars, held, hook>>
    BY <1>3 DEF ConstructMap, Area
  <2>2. /\ claim \in [ro : Nat, size : Nat, rw : Nat, rv : Int]
        /\ rwOf \in [0 .. Pages - 1 -> Int]
    BY DEF AInv, AliasType
  <2>3. AlignedRo \in Nat /\ AlignedSize \in Nat /\ AlignedRw \in Nat
    BY <2>2, ClaimPages
  <2>4. /\ claim.ro - AlignedRo * PageWords \in Nat
        /\ claim.ro - AlignedRo * PageWords < PageWords
    BY <2>2, OffsetInPage DEF AlignedRo
  <2>5. RwAddress \in Nat
    <3>1. AlignedRw * PageWords \in Nat
      BY <2>3, HookAssumption
    <3>2. QED
      BY <2>4, <3>1 DEF RwAddress
  <2>6. PageOf(RwAddress) = AlignedRw
    BY <2>3, <2>4, PageOfOffset DEF RwAddress
  <2>7. /\ claim' \in [ro : Nat, size : Nat, rw : Nat, rv : Int]
        /\ claim'.rw = RwAddress /\ claim'.size = claim.size /\ claim'.rv = claim.rv
    BY <2>1, <2>2, <2>5
  <2>8. AlignedSize' = AlignedSize
    BY <2>7 DEF AlignedSize
  <2>9. AlignedRw' = AlignedRw
    <3>1. AlignedRw' = PageOf(RwAddress)
      BY <2>7 DEF AlignedRw, PageOf
    <3>2. QED
      BY <2>6, <3>1
  <2>10. Area' = Area
    BY <2>8, <2>9 DEF Area
  <2>11. Area \subseteq 0 .. Pages - 1
    BY <1>3, RegionFits
  <2>12. \A p \in Area : AlignedRo + (p - AlignedRw) \in Nat
    BY <2>3 DEF Area
  <2>13. rwOf' \in [0 .. Pages - 1 -> Int]
    BY <2>1, <2>2, <2>12
  <2>14. Writable' = Writable \cup Area
    <3>1. \A p \in 0 .. Pages - 1 : rwOf'[p] # -1 <=> rwOf[p] # -1 \/ p \in Area
      <4>1. TAKE p \in 0 .. Pages - 1
      <4>2. CASE p \in Area
        <5>1. rwOf'[p] = AlignedRo + (p - AlignedRw)
          BY <2>1, <2>2, <4>2
        <5>2. rwOf'[p] \in Nat
          BY <2>12, <4>2, <5>1
        <5>3. QED
          BY <4>2, <5>2
      <4>3. CASE p \notin Area
        <5>1. rwOf'[p] = rwOf[p]
          BY <2>1, <2>2, <4>3
        <5>2. QED
          BY <4>3, <5>1
      <4>4. QED
        BY <4>2, <4>3
    <3>2. QED
      BY <2>11, <3>1 DEF Writable
  <2>15. JitArea' = JitArea /\ Writable = JitArea /\ Writable \subseteq mapped
    BY <1>1, <2>1 DEF JitArea, AInv, WritableByPlace
  <2>16. AliasType'
    BY <2>1, <2>7, <2>10, <2>11, <2>13 DEF AInv, AliasType
  <2>17. HeldByPlace'
    BY <1>1, <2>1, <2>7 DEF AInv, HeldByPlace
  <2>18. WritableByPlace'
    <3>1. Writable' \subseteq mapped'
      BY <2>1, <2>14, <2>15
    <3>2. JitArea \cap Area = {}
      BY <1>3, <2>15
    <3>3. claim'.rv # NULL => region'[hook' + 1] = Slice(AlignedRw', AlignedRw' + AlignedSize')
      BY <1>1, <2>1, <2>7, <2>8, <2>9 DEF AInv, WritableByPlace
    <3>4. QED
      BY <2>1, <2>10, <2>14, <2>15, <3>1, <3>2, <3>3 DEF WritableByPlace
  <2>19. QED
    BY <2>16, <2>17, <2>18 DEF AInv
<1>4. QED
  BY <1>2, <1>3

LEMMA CheckKeeps == ASSUME IInv, AInv, ConstructCheck PROVE AInv'
<1> USE DEF memVars, listVars
<1>1. /\ pc = "check" /\ hook \in Nat
      /\ pc' = IF hook = 0 THEN "idle" ELSE "patch"
      /\ UNCHANGED <<memVars, hook, claim, rwOf>>
  BY TargetsLength DEF ConstructCheck, IInv, Counted
<1>2. AlignedRw' = AlignedRw /\ AlignedSize' = AlignedSize
  BY <1>1 DEF AlignedRw, AlignedSize, PageOf
<1>3. Writable' = Writable /\ JitArea' = JitArea /\ Area' = Area
  BY <1>1, <1>2 DEF Writable, JitArea, Area
<1>4. hook = 0 => claim.rv # NULL
  BY <1>1, VirtMemAssumption DEF IInv, Counted
<1>5. AliasType'
  BY <1>1, <1>3 DEF AInv, AliasType
<1>6. HeldByPlace'
  BY <1>1, <1>4 DEF AInv, HeldByPlace
<1>7. hook = 0 => Writable = PagesOf(region[1])
  <2>1. SUFFICES ASSUME hook = 0 PROVE Writable = PagesOf(region[1])
    OBVIOUS
  <2>2. Writable = Area /\ region[1] = Slice(AlignedRw, AlignedRw + AlignedSize)
    BY <1>1, <1>4, <2>1 DEF AInv, WritableByPlace, JitArea
  <2>3. AlignedRw \in Nat /\ AlignedSize \in Nat
    BY ClaimPages DEF AInv, AliasType
  <2>4. PagesOf(region[1]) = AlignedRw .. (AlignedRw + AlignedSize) - 1
    BY <2>2 DEF PagesOf, Slice
  <2>5. QED
    BY <2>2, <2>3, <2>4 DEF Area
<1>8. WritableByPlace'
  BY <1>1, <1>2, <1>3, <1>7 DEF AInv, WritableByPlace
<1>9. QED
  BY <1>5, <1>6, <1>8 DEF AInv

(* The destructor's steps.                                                       *)
LEMMA UnmapKeeps == ASSUME IInv, AInv, DestroyUnmap PROVE AInv'
<1> USE DEF memVars, listVars
<1>1. /\ pc = "unmap" /\ pc' = "release"
      /\ mapped' = mapped \ Area
      /\ rwOf' = [p \in DOMAIN rwOf |-> IF p \in Area THEN -1 ELSE rwOf[p]]
      /\ UNCHANGED <<listVars, held, hook, claim>>
  BY DEF DestroyUnmap, Area
<1>2. rwOf \in [0 .. Pages - 1 -> Int]
  BY DEF AInv, AliasType
<1>3. rwOf' \in [0 .. Pages - 1 -> Int]
  BY <1>1, <1>2
<1>4. Writable' = Writable \ Area
  BY <1>1, <1>2 DEF Writable
<1>5. JitArea' = JitArea /\ Writable = JitArea \cup Area /\ JitArea \cap Area = {}
      /\ Writable \subseteq mapped
  BY <1>1 DEF JitArea, AInv, WritableByPlace
<1>6. AliasType'
  BY <1>1, <1>3 DEF AInv, AliasType
<1>7. HeldByPlace'
  BY <1>1 DEF AInv, HeldByPlace
<1>8. WritableByPlace'
  BY <1>1, <1>4, <1>5 DEF WritableByPlace
<1>9. QED
  BY <1>6, <1>7, <1>8 DEF AInv

LEMMA ReleaseKeeps == ASSUME IInv, AInv, DestroyRelease PROVE AInv'
<1> USE DEF memVars, listVars
<1>1. CASE claim.rv = NULL
  BY <1>1, StopKeeps DEF DestroyRelease, Stop
<1>2. CASE claim.rv # NULL
  <2>1. /\ pc = "release" /\ pc' = "return"
        /\ held' = held \ {claim.rv} /\ claim' = NoClaim
        /\ UNCHANGED <<region, mapped, hook, rwOf>>
    BY <1>2 DEF DestroyRelease, RemoveReservation
  <2>2. hook > 0 /\ hook \in Nat /\ held = {1, hook + 1} /\ claim.rv = hook + 1
    BY <1>2, <2>1, TargetsLength DEF AInv, HeldByPlace, IInv, Counted
  <2>3. Writable' = Writable /\ JitArea' = JitArea /\ Writable = JitArea
        /\ JitArea = PagesOf(region[1])
    BY <2>1, <2>2 DEF Writable, JitArea, AInv, WritableByPlace
  <2>4. claim' \in [ro : Nat, size : Nat, rw : Nat, rv : Int]
    BY <2>1 DEF NoClaim, NULL
  <2>5. AliasType'
    BY <2>1, <2>4 DEF AInv, AliasType
  <2>6. HeldByPlace'
    BY <2>1, <2>2 DEF HeldByPlace
  <2>7. WritableByPlace'
    BY <2>1, <2>3 DEF AInv, WritableByPlace
  <2>8. QED
    BY <2>5, <2>6, <2>7 DEF AInv
<1>3. QED
  BY <1>1, <1>2

LEMMA HookKeeps == ASSUME IInv, AInv, Hook PROVE AInv'
<1> USE DEF memVars, listVars
<1>1. pc = "idle" /\ hook < Len(Targets) /\ hook \in Nat /\ UNCHANGED <<memVars, rwOf>>
  BY TargetsLength DEF Hook, IInv, Counted
<1>2. CASE Allocated > HookMax
  BY <1>1, <1>2, StopKeeps DEF Hook
<1>3. CASE ~(Allocated > HookMax)
  <2>1. /\ hook' = hook + 1 /\ pc' = "find"
        /\ claim' = [NoClaim EXCEPT !.ro = Targets[hook + 1],
                                    !.size = IF Far[hook + 1] THEN MaxInstructions ELSE 1]
    BY <1>3 DEF Hook
  <2>2. Targets[hook + 1] \in Nat
    <3>1. hook + 1 \in 1 .. Len(Targets)
      BY <1>1, TargetsLength
    <3>2. Targets[hook + 1] \in 0 .. Pages * PageWords - 1
      BY <3>1, HookAssumption, ElementOfSeq
    <3>3. Pages * PageWords - 1 \in Int
      BY HookAssumption, VirtMemAssumption
    <3>4. \A n \in Int : \A w \in 0 .. n : w \in Nat
      OBVIOUS
    <3>5. QED
      BY <3>2, <3>3, <3>4
  <2>3. claim' \in [ro : Nat, size : Nat, rw : Nat, rv : Int]
    <3>1. \A a, b \in Nat : [ro |-> a, size |-> b, rw |-> 0, rv |-> 0]
                               \in [ro : Nat, size : Nat, rw : Nat, rv : Int]
      OBVIOUS
    <3>2. (IF Far[hook + 1] THEN MaxInstructions ELSE 1) \in Nat
      BY DEF MaxInstructions
    <3>3. claim' = [ro |-> Targets[hook + 1],
                    size |-> IF Far[hook + 1] THEN MaxInstructions ELSE 1,
                    rw |-> 0, rv |-> 0]
      BY <2>1 DEF NoClaim, NULL
    <3>4. QED
      BY <2>2, <3>1, <3>2, <3>3
  <2>4. AliasType'
    BY <1>1, <2>1, <2>3 DEF AInv, AliasType
  <2>5. held = {1} /\ hook + 1 # 0 /\ Writable \subseteq mapped /\ Writable = PagesOf(region[1])
    BY <1>1 DEF AInv, HeldByPlace, WritableByPlace
  <2>6. HeldByPlace'
    BY <1>1, <2>1, <2>5 DEF HeldByPlace
  <2>7. Writable' = Writable /\ JitArea' = PagesOf(region[1])
    BY <1>1, <2>1, <2>5 DEF Writable, JitArea
  <2>8. WritableByPlace'
    BY <1>1, <2>1, <2>5, <2>7 DEF WritableByPlace
  <2>9. QED
    BY <2>4, <2>6, <2>8 DEF AInv
<1>4. QED
  BY <1>2, <1>3

LEMMA PatchKeeps == ASSUME IInv, AInv, HookFuncImpl PROVE AInv'
<1> USE DEF memVars, listVars
<1>1. pc = "patch"
  BY DEF HookFuncImpl
<1>2. CASE Stop("aborted") \/ Stop("crashed")
  BY <1>2, StopKeeps DEF Stop
<1>3. CASE ~(Stop("aborted") \/ Stop("crashed"))
  <2>1. pc' = "unmap" /\ UNCHANGED <<memVars, hook, claim, rwOf>>
    BY <1>3 DEF HookFuncImpl
  <2>2. AlignedRw' = AlignedRw /\ AlignedSize' = AlignedSize
    BY <2>1 DEF AlignedRw, AlignedSize, PageOf
  <2>3. Writable' = Writable /\ JitArea' = JitArea /\ Area' = Area
    BY <2>1, <2>2 DEF Writable, JitArea, Area
  <2>4. AliasType'
    BY <1>1, <2>1, <2>3 DEF AInv, AliasType
  <2>5. HeldByPlace'
    BY <1>1, <2>1 DEF AInv, HeldByPlace
  <2>6. WritableByPlace'
    BY <1>1, <2>1, <2>2, <2>3 DEF AInv, WritableByPlace
  <2>7. QED
    BY <2>4, <2>5, <2>6 DEF AInv
<1>4. QED
  BY <1>2, <1>3

LEMMA ReturnKeeps == ASSUME IInv, AInv, Return PROVE AInv'
<1> USE DEF memVars, listVars
<1>1. pc = "return" /\ pc' = "idle" /\ UNCHANGED <<memVars, hook, claim, rwOf>>
  BY DEF Return
<1>2. Writable' = Writable
  BY <1>1 DEF Writable
<1>3. AliasType' /\ HeldByPlace'
  BY <1>1 DEF AInv, AliasType, HeldByPlace
<1>4. WritableByPlace'
  BY <1>1, <1>2 DEF AInv, WritableByPlace
<1>5. QED
  BY <1>3, <1>4 DEF AInv

LEMMA NextAInv == IInv /\ AInv /\ [Next]_vars => AInv'
<1> SUFFICES ASSUME IInv, AInv, [Next]_vars PROVE AInv'
  OBVIOUS
<1>1. CASE UNCHANGED vars
  <2>1. UNCHANGED <<memVars, pc, hook, claim, rwOf>>
    BY <1>1 DEF vars
  <2>2. AlignedRw' = AlignedRw /\ AlignedSize' = AlignedSize
    BY <2>1 DEF AlignedRw, AlignedSize, PageOf
  <2>3. Writable' = Writable /\ JitArea' = JitArea /\ Area' = Area
    BY <2>1, <2>2 DEF Writable, JitArea, Area, memVars, listVars
  <2>4. AliasType'
    BY <2>1, <2>3 DEF AInv, AliasType, memVars, listVars
  <2>5. HeldByPlace'
    BY <2>1 DEF AInv, HeldByPlace, memVars
  <2>6. WritableByPlace'
    BY <2>1, <2>2, <2>3 DEF AInv, WritableByPlace, memVars, listVars
  <2>7. QED
    BY <2>4, <2>5, <2>6 DEF AInv
<1>2. QED
  BY <1>1, FindKeeps, ReserveKeeps, MapKeeps, CheckKeeps, UnmapKeeps, ReleaseKeeps, HookKeeps,
     PatchKeeps, ReturnKeeps
     DEF Next

(* Between two hooks RwPages' destructor has taken the last alias away and given its     *)
(* reservation back: what stays writable is s_HookJit's area and nothing else, for any     *)
(* hooks and any addresses virtmemFindAslr draws.                                         *)
THEOREM CodeIsClosedAgain == Spec => []OnlyJitStaysWritable
<1>1. AInv => OnlyJitStaysWritable
  BY DEF AInv, HeldByPlace, WritableByPlace, OnlyJitStaysWritable, Writable
<1>2. Spec => [](IInv /\ AInv)
  BY InitIInv, NextIInv, InitAInv, NextAInv, PTL DEF Spec
<1>3. QED
  BY <1>1, <1>2, PTL

-----------------------------------------------------------------------------
(* What the hook being installed claims. *)

\* Whether a hook has written its trampoline, which it does before its patch.
Done(h) == trampoline[h - 1] # NoTrampoline

Constructing == pc \in {"find", "reserve", "map", "check", "patch"}

ClaimIsTheTarget ==
  /\ (Constructing /\ hook > 0) =>
       /\ claim.ro = Targets[hook]
       /\ claim.size = IF Far[hook] THEN MaxInstructions ELSE 1
       /\ ~Done(hook)
  /\ pc \in {"unmap", "release", "return"} => hook > 0 /\ Done(hook)

(* How many words are patched, and where the pointer comes to lie.                *)
LEMMA CountIs ==
  ASSUME NEW h \in Hooks
  PROVE  /\ Targets[h] \in Nat
         /\ Count(h) \in {1, 4, 5}
         /\ Count(h) <= IF Far[h] THEN MaxInstructions ELSE 1
         /\ Count(h) = 4 => (Targets[h] + 2) % 2 = 0
         /\ Count(h) = 5 => (Targets[h] + 2) % 2 # 0
<1>1. Targets[h] \in Nat
  <2>1. h \in 1 .. Len(Targets)
    BY TargetsLength
  <2>2. Targets[h] \in 0 .. Pages * PageWords - 1
    BY <2>1, HookAssumption, ElementOfSeq
  <2>3. Pages * PageWords - 1 \in Int
    BY HookAssumption, VirtMemAssumption
  <2>4. \A n \in Int : \A w \in 0 .. n : w \in Nat
    OBVIOUS
  <2>5. QED
    BY <2>2, <2>3, <2>4
<1>2. Far[h] \in BOOLEAN
  BY HookAssumption
<1>3. QED
  BY <1>1, <1>2 DEF Count, MaxInstructions

LEMMA InitClaimIsTheTarget == Init => ClaimIsTheTarget
  BY DEF Init, ClaimIsTheTarget

(* A step that leaves what is claimed and the trampolines alone.                   *)
LEMMA ClaimStays ==
  ASSUME ClaimIsTheTarget, UNCHANGED <<hook, trampoline>>,
         \/ Constructing /\ pc' \in {"reserve", "map", "check", "patch"}
            /\ claim'.ro = claim.ro /\ claim'.size = claim.size
         \/ pc \in {"unmap", "release"} /\ pc' \in {"release", "return"}
         \/ pc' \in {"aborted", "crashed", "idle"}
  PROVE  ClaimIsTheTarget'
<1>1. Done(hook)' <=> Done(hook)
  BY DEF Done
<1>2. QED
  BY <1>1 DEF ClaimIsTheTarget, Constructing

LEMMA NextClaimIsTheTarget == IInv /\ AInv /\ ClaimIsTheTarget /\ [Next]_vars => ClaimIsTheTarget'
<1> SUFFICES ASSUME IInv, AInv, ClaimIsTheTarget, [Next]_vars PROVE ClaimIsTheTarget'
  OBVIOUS
<1> USE DEF memVars, listVars, hookVars
<1>1. hook \in Nat /\ hook <= Len(Targets)
      /\ claim \in [ro : Nat, size : Nat, rw : Nat, rv : Int]
  BY TargetsLength DEF IInv, Counted, AInv, AliasType
<1>2. CASE ConstructFind
  <2>1. PICK a : claim' = [claim EXCEPT !.rw = IF a < 0 THEN 0 ELSE a * PageWords]
    BY <1>2 DEF ConstructFind
  <2>2. claim'.ro = claim.ro /\ claim'.size = claim.size
    BY <1>1, <2>1
  <2>3. Constructing /\ pc' = "reserve" /\ UNCHANGED <<hook, trampoline>>
    BY <1>2 DEF ConstructFind, Constructing
  <2>4. QED
    BY <2>2, <2>3, ClaimStays
<1>3. CASE ConstructReserve
  <2>1. PICK r : claim' = [claim EXCEPT !.rv = r]
    BY <1>3 DEF ConstructReserve
  <2>2. claim'.ro = claim.ro /\ claim'.size = claim.size
    BY <1>1, <2>1
  <2>3. Constructing /\ pc' = "map" /\ UNCHANGED <<hook, trampoline>>
    BY <1>3 DEF ConstructReserve, Constructing
  <2>4. QED
    BY <2>2, <2>3, ClaimStays
<1>4. CASE ConstructMap
  <2>1. CASE Stop("aborted")
    BY <2>1, ClaimStays DEF Stop
  <2>2. CASE ~Stop("aborted")
    <3>1. claim' = [claim EXCEPT !.rw = RwAddress] /\ pc' = "check" /\ Constructing
          /\ UNCHANGED <<hook, trampoline>>
      BY <1>4, <2>2 DEF ConstructMap, Constructing
    <3>2. claim'.ro = claim.ro /\ claim'.size = claim.size
      BY <1>1, <3>1
    <3>3. QED
      BY <3>1, <3>2, ClaimStays
  <2>3. QED
    BY <2>1, <2>2
<1>5. CASE ConstructCheck
  <2>1. Constructing /\ pc' \in {"idle", "patch"} /\ UNCHANGED <<hook, claim, trampoline>>
    BY <1>5 DEF ConstructCheck, Constructing
  <2>2. QED
    BY <2>1, ClaimStays
<1>6. CASE DestroyUnmap \/ DestroyRelease
  <2>1. pc \in {"unmap", "release"} /\ pc' \in {"release", "return", "crashed"}
        /\ UNCHANGED <<hook, trampoline>>
    BY <1>6 DEF DestroyUnmap, DestroyRelease, Stop
  <2>2. QED
    BY <2>1, ClaimStays
<1>7. CASE Hook
  <2>1. pc = "idle" /\ hook < Len(Targets) /\ UNCHANGED trampoline
    BY <1>7 DEF Hook
  <2>2. CASE Allocated > HookMax
    BY <1>7, <2>1, <2>2, ClaimStays DEF Hook
  <2>3. CASE ~(Allocated > HookMax)
    <3>1. /\ hook' = hook + 1 /\ pc' = "find"
          /\ claim' = [NoClaim EXCEPT !.ro = Targets[hook + 1],
                                      !.size = IF Far[hook + 1] THEN MaxInstructions ELSE 1]
      BY <1>7, <2>3 DEF Hook
    <3>2. ~Done(hook + 1)
      <4>1. hook \in DOMAIN trampoline /\ ~(hook + 1 <= hook)
        BY <1>1, <2>1, TargetsLength DEF IInv, TrampolineDomain
      <4>2. (hook + 1) - 1 = hook
        BY <1>1
      <4>3. QED
        BY <4>1, <4>2 DEF IInv, WrittenAreReserved, Done
    <3>3. ~Done(hook)'
      BY <2>1, <3>1, <3>2 DEF Done
    <3>4. claim'.ro = Targets[hook'] /\ claim'.size = IF Far[hook'] THEN MaxInstructions ELSE 1
      BY <3>1 DEF NoClaim
    <3>5. QED
      BY <3>1, <3>3, <3>4 DEF ClaimIsTheTarget
  <2>4. QED
    BY <2>2, <2>3
<1>8. CASE HookFuncImpl
  <2>1. CASE Stop("aborted") \/ Stop("crashed")
    BY <2>1, ClaimStays DEF Stop
  <2>2. CASE ~(Stop("aborted") \/ Stop("crashed"))
    <3>1. /\ pc = "patch" /\ pc' = "unmap" /\ hook' = hook
          /\ trampoline' = [i \in DOMAIN trampoline |->
                              LET t == IF i = slot[hook] THEN Saved ELSE trampoline[i]
                              IN IF i \in Hit /\ t # NoTrampoline THEN Overwritten ELSE t]
      BY <1>8, <2>2 DEF HookFuncImpl
    <3>2. hook > 0 /\ hook \in Hooks /\ slot[hook] = hook - 1 /\ hook - 1 \in DOMAIN trampoline
      BY <1>1, <3>1, TargetsLength DEF IInv, PatchesAHook, SlotsInOrder, TrampolineDomain
    <3>3. Saved # NoTrampoline
      <4>1. claim.ro = Targets[hook]
        BY <3>1, <3>2 DEF ClaimIsTheTarget, Constructing
      <4>2. Saved.resume = Targets[hook] + Count(hook)
        BY <4>1 DEF Saved, Relocated
      <4>3. Saved.resume # -1
        BY <3>2, <4>2, CountIs
      <4>4. QED
        BY <4>3 DEF NoTrampoline
    <3>4. Overwritten # NoTrampoline
      BY DEF Overwritten, NoTrampoline
    <3>5. trampoline'[hook - 1] # NoTrampoline
      BY <3>1, <3>2, <3>3, <3>4
    <3>6. QED
      BY <3>1, <3>2, <3>5 DEF ClaimIsTheTarget, Constructing, Done, NoTrampoline
  <2>3. QED
    BY <2>1, <2>2
<1>9. CASE Return
  BY <1>9, ClaimStays DEF Return
<1>10. CASE UNCHANGED vars
  <2>1. Done(hook)' <=> Done(hook)
    BY <1>10 DEF vars, Done
  <2>2. QED
    BY <1>10, <2>1 DEF vars, ClaimIsTheTarget, Constructing
<1>11. QED
  BY <1>2, <1>3, <1>4, <1>5, <1>6, <1>7, <1>8, <1>9, <1>10 DEF Next

-----------------------------------------------------------------------------
(* That nothing stops a hook that fits. *)

\* What the program's sizes and targets have in common: the Jit's area is in a page,
\* a trampoline and the pool have room, and no claim crosses the end of a page.
\* Without the last the alias of a target is too short, as run hook_straddle shows,
\* and the code patches past its end.
Fitting ==
  /\ NumReservations - 1 <= HookMax
  /\ MaxInstructions * 10 <= TrampolineSize
  /\ JitWords <= PageWords
  /\ \A h \in Hooks :
       (Targets[h] % PageWords) + (IF Far[h] THEN MaxInstructions ELSE 1) <= PageWords

\* The pages claims are of: mapped from the beginning, and never an alias.
Base == {PageOf(Targets[h]) : h \in Hooks} \cup {JitPage}

BaseStays == Base \subseteq mapped /\ \A p \in Base : rwOf[p] = -1

JitClaimed ==
  hook = 0 /\ Constructing => claim.ro = JitPage * PageWords /\ claim.size = JitWords

\* Between virtmemFindAslr and svcMapProcessMemory nobody maps anything.
DrawnIsFree ==
  pc \in {"reserve", "map"} =>
    claim.rw = 0 \/ (AlignedRw \in PagesOf(AslrRegion) /\ AlignedRw \notin mapped)

\* No assertion looks, but the alias is as long as the claim.
AliasShowsTheClaim == pc \in {"check", "patch"} => AliasComplete

FInv == BaseStays /\ JitClaimed /\ DrawnIsFree /\ AliasShowsTheClaim /\ FittingHooksInstall

(* The place of a word in its page.                                              *)
LEMMA WordInPage ==
  ASSUME NEW a \in Nat, NEW r \in Nat, r < PageWords
  PROVE  (a * PageWords + r) % PageWords = r
<1>1. PageWords \in Nat \ {0}
  BY HookAssumption
<1>2. \A L \in Nat \ {0} : \A s \in 0 .. L - 1 : (L * a + s) % L = s
  BY Z3
<1>3. r \in 0 .. PageWords - 1
  BY <1>1
<1>4. a * PageWords = PageWords * a
  BY <1>1
<1>5. QED
  BY <1>1, <1>2, <1>3, <1>4

(* A claim is of one page, which is mapped and will not be an alias.               *)
LEMMA ClaimInPage ==
  ASSUME Fitting, IInv, AInv, ClaimIsTheTarget, JitClaimed, Constructing
  PROVE  /\ AlignedRo \in Base /\ AlignedRo \in Nat
         /\ claim.ro \in Nat /\ claim.size \in Nat \ {0}
         /\ claim.ro - AlignedRo * PageWords \in Nat
         /\ (claim.ro - AlignedRo * PageWords) + claim.size <= PageWords
         /\ AlignedSize = 1
<1>1. claim.ro \in Nat /\ claim.size \in Nat /\ PageWords \in Nat \ {0} /\ JitPage \in Nat
      /\ JitWords \in Nat \ {0}
  BY HookAssumption, VirtMemAssumption DEF AInv, AliasType
<1>2. /\ AlignedRo \in Nat /\ claim.ro - AlignedRo * PageWords \in Nat
      /\ claim.ro - AlignedRo * PageWords < PageWords
  BY <1>1, OffsetInPage DEF AlignedRo
<1>3. /\ AlignedRo \in Base /\ claim.size \in Nat \ {0}
      /\ (claim.ro - AlignedRo * PageWords) + claim.size <= PageWords
  <2>1. CASE hook = 0
    <3>1. claim.ro = JitPage * PageWords /\ claim.size = JitWords
      BY <2>1 DEF JitClaimed
    <3>2. JitPage * PageWords \in Nat /\ claim.ro = JitPage * PageWords + 0
      BY <1>1, <3>1
    <3>3. AlignedRo = JitPage
      BY <1>1, <3>2, PageOfOffset DEF AlignedRo
    <3>4. claim.ro - AlignedRo * PageWords = 0
      BY <3>1, <3>2, <3>3
    <3>5. QED
      BY <1>1, <3>1, <3>3, <3>4 DEF Base, Fitting
  <2>2. CASE hook # 0
    <3>1. hook > 0 /\ hook \in Hooks
      BY <2>2, TargetsLength DEF IInv, Counted
    <3>2. claim.ro = Targets[hook] /\ claim.size = IF Far[hook] THEN MaxInstructions ELSE 1
      BY <3>1 DEF ClaimIsTheTarget, ClaimIsTheTarget
    <3>3. AlignedRo \in Base
      BY <3>1, <3>2 DEF AlignedRo, Base
    <3>4. claim.size \in Nat \ {0}
      BY <3>2 DEF MaxInstructions
    <3>5. Targets[hook] % PageWords = claim.ro - AlignedRo * PageWords
      <4>1. PICK m \in Nat : m = AlignedRo * PageWords
        BY <1>1, <1>2
      <4>2. claim.ro = m + (claim.ro - m)
        BY <1>1, <4>1
      <4>3. (m + (claim.ro - m)) % PageWords = claim.ro - m
        BY <1>2, <4>1, WordInPage
      <4>4. QED
        BY <3>2, <4>1, <4>2, <4>3
    <3>6. QED
      BY <3>1, <3>2, <3>3, <3>4, <3>5 DEF Fitting
  <2>3. QED
    BY <2>1, <2>2
<1>4. AlignedSize = 1
  <2>1. claim.size <= PageWords
    <3>1. \A r, s, p \in Nat : r + s <= p => s <= p
      OBVIOUS
    <3>2. QED
      BY <1>1, <1>2, <1>3, <3>1
  <2>2. claim.size - 1 \in Nat /\ claim.size - 1 < PageWords
        /\ claim.size + PageWords - 1 = 1 * PageWords + (claim.size - 1)
    BY <1>1, <1>3, <2>1
  <2>3. PageOf(claim.size + PageWords - 1) = 1
    BY <2>2, PageOfOffset
  <2>4. QED
    BY <2>3 DEF AlignedSize, PageOf
<1>5. QED
  BY <1>1, <1>2, <1>3, <1>4

(* The alias shows the target's words.                                              *)
LEMMA PatchedWordsAre ==
  ASSUME IInv, AInv, ClaimIsTheTarget, AliasShowsTheClaim, pc = "patch", hook \in Hooks
  PROVE  /\ claim.ro = Targets[hook] /\ Targets[hook] \in Nat /\ Count(hook) \in {1, 4, 5}
         /\ ~Done(hook)
         /\ \A k \in 1 .. Count(hook) :
              PatchedWords[k] = Targets[hook] + (k - 1) /\ PatchedWords[k] # -1
<1>1. /\ claim.ro = Targets[hook]
      /\ claim.size = IF Far[hook] THEN MaxInstructions ELSE 1
      /\ ~Done(hook)
  BY TargetsLength DEF ClaimIsTheTarget, Constructing
<1>2. /\ Targets[hook] \in Nat /\ Count(hook) \in {1, 4, 5}
      /\ Count(hook) <= claim.size /\ claim.size \in Nat
  BY <1>1, CountIs DEF AInv, AliasType
<1>3. ASSUME NEW k \in 1 .. Count(hook)
      PROVE  PatchedWords[k] = Targets[hook] + (k - 1) /\ PatchedWords[k] # -1
  <2>1. k - 1 \in ClaimWords
    BY <1>2 DEF ClaimWords
  <2>2. Physical(claim.rw + (k - 1)) = claim.ro + (k - 1)
    BY <2>1 DEF AliasShowsTheClaim, AliasComplete
  <2>3. claim.rw + (k - 1) = claim.rw + k - 1
    BY <1>2 DEF AInv, AliasType
  <2>4. PatchedWords[k] = Physical(claim.rw + k - 1)
    BY DEF PatchedWords
  <2>5. PatchedWords[k] = Targets[hook] + (k - 1)
    BY <1>1, <2>2, <2>3, <2>4
  <2>6. QED
    BY <1>2, <2>5
<1>4. QED
  BY <1>1, <1>2, <1>3

(* The pages of the targets and of the Jit are pages.                               *)
LEMMA BaseArePages == Base \subseteq 0 .. Pages - 1
<1>1. PageWords \in Nat \ {0} /\ Pages \in Nat \ {0}
  BY HookAssumption, VirtMemAssumption
<1>2. ASSUME NEW h \in Hooks PROVE PageOf(Targets[h]) \in 0 .. Pages - 1
  <2>1. PICK m \in Nat : m = Pages * PageWords
    BY <1>1
  <2>2. h \in 1 .. Len(Targets)
    BY TargetsLength
  <2>3. Targets[h] \in 0 .. m - 1
    BY <2>1, <2>2, HookAssumption, ElementOfSeq
  <2>4. Targets[h] \in Nat /\ Targets[h] < m
    BY <2>3
  <2>5. /\ PageOf(Targets[h]) \in Nat
        /\ Targets[h] - PageOf(Targets[h]) * PageWords \in Nat
    BY <2>4, OffsetInPage
  <2>6. ~(Pages <= PageOf(Targets[h]))
    <3>1. SUFFICES ASSUME Pages <= PageOf(Targets[h]) PROVE FALSE
      OBVIOUS
    <3>2. Pages * PageWords <= PageOf(Targets[h]) * PageWords
      BY <1>1, <2>5, <3>1, TimesMonotone
    <3>3. PICK n \in Nat : n = PageOf(Targets[h]) * PageWords
      BY <1>1, <2>5
    <3>4. QED
      BY <2>1, <2>4, <2>5, <3>2, <3>3
  <2>7. QED
    BY <1>1, <2>5, <2>6
<1>3. QED
  BY <1>2, HookAssumption DEF Base

LEMMA InitFInv == Init => FInv
<1> SUFFICES ASSUME Init PROVE FInv
  OBVIOUS
<1>1. /\ mapped = {PageOf(w) : w \in {Targets[h] : h \in Hooks}} \cup {JitPage}
      /\ pc = "find" /\ hook = 0
      /\ claim = [NoClaim EXCEPT !.ro = JitPage * PageWords, !.size = JitWords]
      /\ rwOf = [p \in 0 .. Pages - 1 |-> -1]
  BY DEF Init, PageOf
<1>2. Base \subseteq mapped
  BY <1>1 DEF Base
<1>3. \A p \in Base : rwOf[p] = -1
  BY <1>1, BaseArePages
<1>4. JitClaimed
  BY <1>1 DEF JitClaimed, NoClaim
<1>5. QED
  BY <1>1, <1>2, <1>3, <1>4 DEF FInv, BaseStays, DrawnIsFree, AliasShowsTheClaim, FittingHooksInstall

(* A slice that was found begins at a free page of the region.                        *)
LEMMA DrawFree ==
  ASSUME Fitting, IInv, AInv, ClaimIsTheTarget, FInv, ConstructFind PROVE FInv'
<1> USE DEF memVars, listVars
<1>1. PICK a \in FindAslr(AlignedSize) :
        claim' = [claim EXCEPT !.rw = IF a < 0 THEN 0 ELSE a * PageWords]
  BY DEF ConstructFind
<1>2. pc = "find" /\ pc' = "reserve" /\ Constructing /\ UNCHANGED <<mapped, hook, rwOf>>
  BY DEF ConstructFind, Constructing
<1>3. claim \in [ro : Nat, size : Nat, rw : Nat, rv : Int] /\ AlignedSize = 1
  BY <1>2, ClaimInPage DEF FInv, AInv, AliasType
<1>4. /\ claim'.rw = IF a < 0 THEN 0 ELSE a * PageWords
      /\ claim'.ro = claim.ro /\ claim'.size = claim.size
  BY <1>1, <1>3
<1>5. claim'.rw = 0 \/ (AlignedRw' \in PagesOf(AslrRegion) /\ AlignedRw' \notin mapped)
  <2>1. CASE a < 0
    BY <1>4, <2>1
  <2>2. CASE ~(a < 0)
    <3>1. a \in Nat /\ AslrRegion.start <= a /\ a + 1 <= AslrRegion.end
      BY <1>3, <2>2, FoundFits
    <3>2. a \in PagesOf(AslrRegion)
      BY <3>1, VirtMemAssumption DEF PagesOf, IsRegion
    <3>3. a \in Free(AlignedSize)
      BY <2>2 DEF FindAslr
    <3>4. a \notin mapped
      BY <3>3 DEF Free, IsMapped
    <3>5. a * PageWords \in Nat /\ 0 < PageWords
      BY <3>1, HookAssumption
    <3>6. claim'.rw = a * PageWords + 0
      BY <1>4, <2>2, <3>5
    <3>7. PageOf(claim'.rw) = a
      BY <3>1, <3>5, <3>6, PageOfOffset
    <3>8. AlignedRw' = a
      BY <3>7 DEF AlignedRw, PageOf
    <3>9. QED
      BY <3>2, <3>4, <3>8
  <2>3. QED
    BY <2>1, <2>2
<1>6. JitClaimed'
  BY <1>2, <1>4 DEF FInv, JitClaimed
<1>7. QED
  BY <1>2, <1>5, <1>6 DEF FInv, BaseStays, DrawnIsFree, AliasShowsTheClaim, FittingHooksInstall

(* With or without a reservation, nothing else changes.                              *)
LEMMA ReserveFits ==
  ASSUME Fitting, IInv, AInv, ClaimIsTheTarget, FInv, ConstructReserve PROVE FInv'
<1> USE DEF memVars, listVars
<1>1. pc = "reserve" /\ pc' = "map" /\ Constructing /\ UNCHANGED <<mapped, hook, rwOf>>
  BY DEF ConstructReserve, Constructing
<1>2. PICK r : claim' = [claim EXCEPT !.rv = r]
  BY DEF ConstructReserve
<1>3. claim'.ro = claim.ro /\ claim'.size = claim.size /\ claim'.rw = claim.rw
  BY <1>2 DEF AInv, AliasType
<1>4. AlignedRw' = AlignedRw
  BY <1>3 DEF AlignedRw, PageOf
<1>5. JitClaimed'
  BY <1>1, <1>3 DEF FInv, JitClaimed
<1>6. DrawnIsFree'
  BY <1>1, <1>3, <1>4 DEF FInv, DrawnIsFree
<1>7. QED
  BY <1>1, <1>5, <1>6 DEF FInv, BaseStays, AliasShowsTheClaim, FittingHooksInstall

(* The kernel refuses nothing but NULL, and the alias shows every word of the claim.   *)
LEMMA MapFits ==
  ASSUME Fitting, IInv, AInv, ClaimIsTheTarget, FInv, ConstructMap PROVE FInv'
<1> USE DEF memVars, listVars
<1>1. pc = "map" /\ Constructing
  BY DEF ConstructMap, Constructing
<1>2. /\ AlignedRo \in Base /\ AlignedRo \in Nat
      /\ claim.ro \in Nat /\ claim.size \in Nat \ {0}
      /\ claim.ro - AlignedRo * PageWords \in Nat
      /\ (claim.ro - AlignedRo * PageWords) + claim.size <= PageWords
      /\ AlignedSize = 1
  BY <1>1, ClaimInPage DEF FInv
<1>3. /\ claim \in [ro : Nat, size : Nat, rw : Nat, rv : Int]
      /\ rwOf \in [0 .. Pages - 1 -> Int]
      /\ AlignedRw \in Nat
  BY <1>1, ClaimPages DEF AInv, AliasType
<1>4. Area = {AlignedRw} /\ AlignedRo .. AlignedRo + AlignedSize - 1 = {AlignedRo}
  BY <1>2, <1>3 DEF Area
<1> DEFINE refused == \/ ~(Area \subseteq PagesOf(AslrRegion))
                      \/ Area \cap mapped # {}
                      \/ ~({AlignedRo} \subseteq mapped)
<1>5. CASE refused
  <2>1. Stop("aborted")
    BY <1>4, <1>5 DEF ConstructMap, Area
  <2>2. AlignedRo \in mapped
    BY <1>2 DEF FInv, BaseStays
  <2>3. claim.rw = 0
    BY <1>1, <1>4, <1>5, <2>2 DEF FInv, DrawnIsFree
  <2>4. NothingFound
    BY <1>2, <2>3 DEF NothingFound
  <2>5. NothingFound'
    BY <2>1, <2>4 DEF NothingFound, Stop
  <2>6. QED
    BY <2>1, <2>5 DEF Stop, FInv, BaseStays, JitClaimed, DrawnIsFree, AliasShowsTheClaim,
                      FittingHooksInstall, Constructing
<1>6. CASE ~refused
  <2>1. /\ mapped' = mapped \cup {AlignedRw}
        /\ rwOf' = [p \in DOMAIN rwOf |->
                      IF p \in {AlignedRw} THEN AlignedRo + (p - AlignedRw) ELSE rwOf[p]]
        /\ claim' = [claim EXCEPT !.rw = RwAddress]
        /\ pc' = "check"
        /\ UNCHANGED hook
    BY <1>4, <1>6 DEF ConstructMap, Area
  <2>2. AlignedRw \notin mapped /\ AlignedRw \in 0 .. Pages - 1
    BY <1>4, <1>6, RegionFits
  <2>3. BaseStays'
    <3>1. ASSUME NEW p \in Base PROVE rwOf'[p] = -1
      <4>1. p \in mapped /\ rwOf[p] = -1 /\ p \in DOMAIN rwOf
        BY <1>3, BaseArePages DEF FInv, BaseStays
      <4>2. p \notin {AlignedRw}
        BY <2>2, <4>1
      <4>3. QED
        BY <2>1, <4>1, <4>2
    <3>2. QED
      BY <2>1, <3>1 DEF FInv, BaseStays
  <2> DEFINE offset == claim.ro - AlignedRo * PageWords
  <2>4. /\ offset \in Nat /\ offset + claim.size <= PageWords
        /\ RwAddress = AlignedRw * PageWords + offset
        /\ AlignedRw * PageWords \in Nat /\ PageWords \in Nat \ {0}
        /\ AlignedRo * PageWords \in Nat
    BY <1>2, <1>3, HookAssumption DEF RwAddress
  <2>5. claim.ro = AlignedRo * PageWords + offset
    BY <1>2, <2>4
  <2> HIDE DEF offset
  <2>6. /\ claim'.rw = AlignedRw * PageWords + offset
        /\ claim'.ro = claim.ro /\ claim'.size = claim.size
    BY <1>3, <2>1, <2>4
  <2>7. rwOf'[AlignedRw] = AlignedRo
    <3>1. AlignedRw \in DOMAIN rwOf
      BY <1>3, <2>2
    <3>2. AlignedRo + (AlignedRw - AlignedRw) = AlignedRo
      BY <1>2, <1>3
    <3>3. QED
      BY <2>1, <3>1, <3>2
  <2>8. AliasComplete'
    <3> SUFFICES ASSUME NEW k \in 0 .. claim'.size - 1
                 PROVE  Physical(claim.rw + k)' = claim'.ro + k
      BY DEF AliasComplete, ClaimWords
    <3>1. k \in Nat /\ offset + k \in Nat /\ offset + k < PageWords
      BY <1>2, <2>4, <2>6
    <3>2. claim'.rw + k = AlignedRw * PageWords + (offset + k)
      BY <2>4, <2>6, <3>1
    <3>3. PageOf(claim'.rw + k) = AlignedRw
      BY <1>3, <3>1, <3>2, PageOfOffset
    <3>4. (claim'.rw + k) % PageWords = offset + k
      BY <1>3, <3>1, <3>2, WordInPage
    <3>5. rwOf'[PageOf(claim'.rw + k)] = AlignedRo /\ AlignedRo # -1
      BY <1>2, <2>7, <3>3
    <3>6. Physical(claim.rw + k)' = (AlignedRo * PageWords) + ((claim'.rw + k) % PageWords)
      BY <3>5 DEF Physical, PageOf
    <3>7. (AlignedRo * PageWords) + (offset + k) = claim'.ro + k
      BY <2>4, <2>5, <2>6, <3>1
    <3>8. QED
      BY <3>4, <3>6, <3>7
  <2>9. JitClaimed'
    BY <1>1, <2>1, <2>6 DEF FInv, JitClaimed, Constructing
  <2>10. QED
    BY <2>1, <2>3, <2>8, <2>9 DEF FInv, DrawnIsFree, AliasShowsTheClaim, FittingHooksInstall
<1>7. QED
  BY <1>5, <1>6

(* The other steps, which leave those pages alone.                                    *)
LEMMA NextFInv == (Fitting /\ IInv /\ AInv /\ ClaimIsTheTarget /\ FInv /\ [Next]_vars) => FInv'
<1> SUFFICES ASSUME Fitting, IInv, AInv, ClaimIsTheTarget, FInv, [Next]_vars PROVE FInv'
  OBVIOUS
<1> USE DEF memVars, listVars
<1>1. CASE ConstructCheck
  <2>1. /\ pc = "check" /\ pc' = IF hook = 0 THEN "idle" ELSE "patch"
        /\ UNCHANGED <<mapped, hook, claim, rwOf>>
    BY <1>1 DEF ConstructCheck
  <2>2. AliasComplete
    BY <2>1 DEF FInv, AliasShowsTheClaim
  <2>3. AliasComplete'
    BY <2>1, <2>2 DEF AliasComplete, ClaimWords, Physical, PageOf
  <2>4. QED
    BY <2>1, <2>3 DEF FInv, BaseStays, JitClaimed, DrawnIsFree, AliasShowsTheClaim,
                      FittingHooksInstall, Constructing
<1>2. CASE DestroyUnmap
  <2>1. /\ pc = "unmap" /\ pc' = "release"
        /\ mapped' = mapped \ Area
        /\ rwOf' = [p \in DOMAIN rwOf |-> IF p \in Area THEN -1 ELSE rwOf[p]]
    BY <1>2 DEF DestroyUnmap, Area
  <2>2. Writable = JitArea \cup Area
    BY <2>1 DEF AInv, WritableByPlace
  <2>3. ASSUME NEW p \in Base PROVE p \in mapped' /\ rwOf'[p] = -1
    <3>1. p \in mapped /\ rwOf[p] = -1 /\ p \in DOMAIN rwOf
      BY BaseArePages DEF FInv, BaseStays, AInv, AliasType
    <3>2. p \notin Writable
      BY <3>1 DEF Writable
    <3>3. QED
      BY <2>1, <2>2, <3>1, <3>2
  <2>4. QED
    BY <2>1, <2>3 DEF FInv, BaseStays, JitClaimed, DrawnIsFree, AliasShowsTheClaim,
                      FittingHooksInstall, Constructing
<1>3. CASE DestroyRelease
  <2>1. /\ pc = "release" /\ UNCHANGED <<mapped, hook, rwOf>>
        /\ pc' = "return" \/ (pc' = "crashed" /\ claim.rv = NULL)
    BY <1>3 DEF DestroyRelease, Stop
  <2>2. claim.rv = NULL => hook = NumReservations
    BY <2>1 DEF IInv, Counted
  <2>3. pc' = "crashed" => hook' >= NumReservations
    BY <2>1, <2>2, VirtMemAssumption
  <2>4. QED
    BY <2>1, <2>3 DEF FInv, BaseStays, JitClaimed, DrawnIsFree, AliasShowsTheClaim,
                FittingHooksInstall, Constructing
<1>4. CASE Hook
  <2>1. pc = "idle" /\ UNCHANGED <<mapped, rwOf>> /\ hook \in Nat /\ index = hook - 1
    BY <1>4, TargetsLength DEF Hook, IInv, Counted
  <2>2. CASE Allocated > HookMax
    <3>1. pc' = "aborted" /\ UNCHANGED hook
      BY <1>4, <2>2 DEF Hook
    <3>2. hook >= NumReservations
      <4>1. HookMax \in Int /\ NumReservations \in Int
        BY HookAssumption, VirtMemAssumption DEF HookMax
      <4>2. hook > HookMax
        BY <2>1, <2>2, <4>1 DEF Allocated
      <4>3. QED
        BY <2>1, <4>1, <4>2 DEF Fitting
    <3>3. QED
      BY <2>1, <3>1, <3>2 DEF FInv, BaseStays, JitClaimed, DrawnIsFree, AliasShowsTheClaim,
                              FittingHooksInstall, Constructing
  <2>3. CASE ~(Allocated > HookMax)
    <3>1. pc' = "find" /\ hook' = hook + 1
      BY <1>4, <2>3 DEF Hook
    <3>2. hook' # 0
      BY <2>1, <3>1
    <3>3. QED
      BY <2>1, <3>1, <3>2 DEF FInv, BaseStays, JitClaimed, DrawnIsFree, AliasShowsTheClaim,
                              FittingHooksInstall, Constructing
  <2>4. QED
    BY <2>2, <2>3
<1>5. CASE HookFuncImpl
  <2>1. pc = "patch" /\ hook \in Hooks
    BY <1>5, TargetsLength DEF HookFuncImpl, IInv, Counted, PatchesAHook
  <2>2. ~(TrampolineSize < Count(hook) * 10)
    BY <2>1, CountIs, HookAssumption DEF Fitting, MaxInstructions
  <2>3. \A k \in 1 .. Count(hook) : PatchedWords[k] # -1
    BY <2>1, PatchedWordsAre DEF FInv
  <2>4. pc' = "unmap" /\ UNCHANGED <<mapped, hook, rwOf>>
    BY <1>5, <2>2, <2>3 DEF HookFuncImpl
  <2>5. QED
    BY <2>4 DEF FInv, BaseStays, JitClaimed, DrawnIsFree, AliasShowsTheClaim,
                FittingHooksInstall, Constructing
<1>6. CASE Return
  <2>1. pc' = "idle" /\ UNCHANGED <<mapped, hook, rwOf>>
    BY <1>6 DEF Return
  <2>2. QED
    BY <2>1 DEF FInv, BaseStays, JitClaimed, DrawnIsFree, AliasShowsTheClaim,
                FittingHooksInstall, Constructing
<1>7. CASE UNCHANGED vars
  <2>1. UNCHANGED <<mapped, pc, hook, claim, rwOf>>
    BY <1>7 DEF vars
  <2>2. AliasComplete' = AliasComplete
    BY <2>1 DEF AliasComplete, ClaimWords, Physical, PageOf
  <2>3. AlignedRw' = AlignedRw /\ NothingFound' = NothingFound
    BY <2>1 DEF AlignedRw, PageOf, NothingFound
  <2>4. QED
    BY <2>1, <2>2, <2>3 DEF FInv, BaseStays, JitClaimed, DrawnIsFree, AliasShowsTheClaim,
                            FittingHooksInstall, Constructing
<1>8. QED
  BY <1>1, <1>2, <1>3, <1>4, <1>5, <1>6, <1>7, DrawFree, ReserveFits, MapFits DEF Next

LEMMA FInductive ==
  ASSUME Fitting
  PROVE  Spec => []FInv
<1>1. IInv /\ AInv /\ ClaimIsTheTarget /\ FInv /\ [Next]_vars => FInv'
  BY NextFInv
<1>2. QED
  BY <1>1, InitFInv, InitIInv, NextIInv, InitAInv, NextAInv, InitClaimIsTheTarget,
     NextClaimIsTheTarget, PTL DEF Spec

(* A hook that is not one too many for the reservations is never refused by a system     *)
(* call nor crashes, whatever addresses are drawn, unless virtmemFindAslr gives up.        *)
THEOREM FittingHooksAreInstalled ==
  ASSUME Fitting
  PROVE  Spec => []FittingHooksInstall
<1>1. FInv => FittingHooksInstall
  BY DEF FInv
<1>2. QED
  BY <1>1, FInductive, PTL

(* The assertion of the constructor, that both mappings hold the same data, can only be    *)
(* wrong of a claim that crosses the end of a page.                                        *)
THEOREM AliasesAreComplete ==
  ASSUME Fitting
  PROVE  Spec => []MappingsMatch
<1>1. FInv => MappingsMatch
  BY DEF FInv, AliasShowsTheClaim, MappingsMatch
<1>2. QED
  BY <1>1, FInductive, PTL

-----------------------------------------------------------------------------
(* What the hooks have written. *)

\* The words a hook patches.
PatchWords(h) == Targets[h] .. Targets[h] + (Count(h) - 1)

\* A hook that is done has its patch in the program and the words it covers in its
\* trampoline.
Written(h) ==
  /\ h <= hook
  /\ \A k \in 1 .. Count(h) : memory[Targets[h] + (k - 1)] = PatchOf(h)[k]
  /\ trampoline[h - 1] =
       [words |-> [k \in 1 .. Count(h) |-> Insn(Targets[h] + (k - 1))],
        resume |-> Targets[h] + Count(h)]

WordsInv ==
  /\ DOMAIN memory = CodeWords
  /\ \A h \in Hooks : Done(h) => Written(h)
  /\ \A w \in CodeWords :
       (\A h \in Hooks : Done(h) => w \notin PatchWords(h)) => memory[w] = Insn(w)

OrigInv ==
  /\ DOMAIN orig = Hooks
  /\ \A h \in Hooks : orig[h] # -1 => Done(h) /\ orig[h] = slot[h]

WInv == WordsInv /\ OrigInv

(* The three patches.                                                            *)
LEMMA PatchCases ==
  ASSUME NEW h
  PROVE  \E b, j, n :
           /\ b = <<[op |-> "b", arg |-> h]>>
           /\ j = <<Word("ldr x17, 8"), Word("br x17"),
                    [op |-> "ptr", arg |-> h], [op |-> "ptr hi", arg |-> h]>>
           /\ n = <<Word("nop")>> \o j
           /\ Count(h) = 1 => PatchOf(h) = b
           /\ Count(h) = 4 => PatchOf(h) = j
           /\ Count(h) = 5 => PatchOf(h) = n
<1>1. PICK b, j, n :
        /\ b = <<[op |-> "b", arg |-> h]>>
        /\ j = <<Word("ldr x17, 8"), Word("br x17"),
                 [op |-> "ptr", arg |-> h], [op |-> "ptr hi", arg |-> h]>>
        /\ n = <<Word("nop")>> \o j
        /\ PatchOf(h) = CASE Count(h) = 1 -> b [] Count(h) = 4 -> j [] Count(h) = 5 -> n
  BY Zenon DEF PatchOf
<1>2. PatchOf(h) = CASE Count(h) = 1 -> b [] Count(h) = 4 -> j [] Count(h) = 5 -> n
  BY <1>1, Zenon
<1>3. ASSUME NEW f, f = CASE Count(h) = 1 -> b [] Count(h) = 4 -> j [] Count(h) = 5 -> n
      PROVE  /\ Count(h) = 1 => f = b
             /\ Count(h) = 4 => f = j
             /\ Count(h) = 5 => f = n
  BY <1>3
<1>4. /\ Count(h) = 1 => PatchOf(h) = b
      /\ Count(h) = 4 => PatchOf(h) = j
      /\ Count(h) = 5 => PatchOf(h) = n
  BY <1>2, <1>3
<1>5. QED
  BY <1>1, <1>4, Zenon

(* The patch is that long, and a pointer in it has an even address.               *)
LEMMA PatchIs ==
  ASSUME NEW h \in Hooks
  PROVE  /\ PatchOf(h) = [k \in 1 .. Count(h) |-> PatchOf(h)[k]]
         /\ \A k \in 1 .. Count(h) :
              PatchOf(h)[k].op = "ptr" => (Targets[h] + (k - 1)) % 2 = 0
<1> DEFINE f == PatchOf(h)
<1> DEFINE w1 == Word("ldr x17, 8")
<1> DEFINE w2 == Word("br x17")
<1> DEFINE w3 == [op |-> "ptr", arg |-> h]
<1> DEFINE w4 == [op |-> "ptr hi", arg |-> h]
<1> DEFINE w5 == Word("nop")
<1> DEFINE w6 == [op |-> "b", arg |-> h]
<1>1. w1.op # "ptr" /\ w2.op # "ptr" /\ w4.op # "ptr" /\ w5.op # "ptr" /\ w6.op # "ptr"
  BY DEF Word
<1>2. /\ Count(h) = 1 => f = <<w6>>
      /\ Count(h) = 4 => f = <<w1, w2, w3, w4>>
      /\ Count(h) = 5 => f = <<w5>> \o <<w1, w2, w3, w4>>
  BY PatchCases, Zenon
<1> HIDE DEF f, w1, w2, w3, w4, w5, w6
<1>3. CASE Count(h) = 1
  <2>1. f = <<w6>>
    BY <1>2, <1>3
  <2>2. f = [k \in 1 .. 1 |-> f[k]] /\ f[1] = w6
    BY <2>1
  <2>3. QED
    BY <1>1, <1>3, <2>2 DEF f
<1>4. CASE Count(h) = 4
  <2>1. f = <<w1, w2, w3, w4>>
    BY <1>2, <1>4, Zenon
  <2>2. f = [k \in 1 .. 4 |-> f[k]] /\ f[1] = w1 /\ f[2] = w2 /\ f[4] = w4
    BY <2>1
  <2>3. \A k \in 1 .. 4 : f[k].op = "ptr" => k = 3
    BY <1>1, <2>2
  <2>4. (Targets[h] + (3 - 1)) % 2 = 0
    BY <1>4, CountIs
  <2>5. QED
    BY <1>4, <2>2, <2>3, <2>4 DEF f
<1>5. CASE Count(h) = 5
  <2>1. f = <<w5>> \o <<w1, w2, w3, w4>>
    BY <1>2, <1>5, Zenon
  <2>2. /\ f = [k \in 1 .. 5 |-> f[k]]
        /\ f[1] = w5 /\ f[2] = w1 /\ f[3] = w2 /\ f[5] = w4
    BY <2>1
  <2>3. \A k \in 1 .. 5 : f[k].op = "ptr" => k = 4
    BY <1>1, <2>2
  <2>4. (Targets[h] + (4 - 1)) % 2 = 0
    BY <1>5, CountIs
  <2>5. QED
    BY <1>5, <2>2, <2>3, <2>4 DEF f
<1>6. QED
  BY <1>3, <1>4, <1>5, CountIs

(* Two hooks' patches do not meet, nor does one the word behind another.           *)
LEMMA PatchesApart ==
  ASSUME NEW g \in Hooks, NEW h \in Hooks, g # h
  PROVE  \A w \in PatchWords(g) : w \notin Targets[h] .. Targets[h] + MaxInstructions
<1>1. /\ Targets[g] \in Nat /\ Targets[h] \in Nat
      /\ Count(g) \in {1, 4, 5}
  BY CountIs
<1>2. Targets[g] + MaxInstructions < Targets[h] \/ Targets[h] + MaxInstructions < Targets[g]
  <2>1. Targets[g] # Targets[h]
    BY HookAssumption
  <2>2. Targets[g] < Targets[h] \/ Targets[h] < Targets[g]
    BY <1>1, <2>1
  <2>3. QED
    BY <2>2, HookAssumption
<1>3. QED
  BY <1>1, <1>2 DEF PatchWords, MaxInstructions

(* The words of a patch and the one behind it are words of the program.             *)
LEMMA PatchInCode ==
  ASSUME NEW h \in Hooks
  PROVE  /\ PatchWords(h) \subseteq Targets[h] .. Targets[h] + MaxInstructions
         /\ Targets[h] + Count(h) \in Targets[h] .. Targets[h] + MaxInstructions
         /\ Targets[h] .. Targets[h] + MaxInstructions \subseteq CodeWords
<1>1. Targets[h] \in Nat /\ Count(h) \in {1, 4, 5}
  BY CountIs
<1>2. QED
  BY <1>1 DEF PatchWords, MaxInstructions, CodeWords

LEMMA InitWInv == Init => WInv
<1> SUFFICES ASSUME Init PROVE WInv
  OBVIOUS
<1>1. \A h \in Hooks : ~Done(h)
  BY TargetsLength DEF Init, Done
<1>2. WordsInv
  BY <1>1 DEF Init, WordsInv
<1>3. OrigInv
  BY DEF Init, OrigInv
<1>4. QED
  BY <1>2, <1>3 DEF WInv

(* A step that writes nothing keeps what is written.                               *)
LEMMA WritesNothing ==
  ASSUME WInv, hook <= hook', hook \in Int, hook' \in Int, UNCHANGED <<memory, trampoline, orig>>,
         \A h \in Hooks : h <= hook => slot'[h] = slot[h]
  PROVE  WordsInv' /\ OrigInv'
<1>1. \A h \in Hooks : Done(h)' <=> Done(h)
  BY DEF Done
<1>2. \A h \in Hooks : Written(h) => Written(h)'
  <2>1. TAKE h \in Hooks
  <2>2. h \in Nat /\ PatchOf(h)' = PatchOf(h) /\ Count(h)' = Count(h)
    BY TargetsLength DEF PatchOf, Count
  <2>3. QED
    BY <2>2 DEF Written
<1>3. WordsInv'
  BY <1>1, <1>2 DEF WInv, WordsInv, PatchWords, Count
<1>4. OrigInv'
  <2>1. \A h \in Hooks : Done(h) => h <= hook
    BY DEF WInv, WordsInv, Written
  <2>2. QED
    BY <1>1, <2>1 DEF WInv, OrigInv
<1>5. QED
  BY <1>3, <1>4

(* The alias shows the target, so the patch covers the target and nothing else, and    *)
(* what is saved are the words the program was loaded with.                           *)
LEMMA PatchWrites ==
  ASSUME IInv, AInv, ClaimIsTheTarget, AliasShowsTheClaim, WInv, HookFuncImpl,
         ~(Stop("aborted") \/ Stop("crashed"))
  PROVE  WordsInv' /\ OrigInv'
<1> DEFINE T == Targets[hook]
<1> DEFINE n == Count(hook)
<1> DEFINE at(w) == {k \in 1 .. n : PatchedWords[k] = w}
<1>1. /\ pc = "patch" /\ memory' = Patched
      /\ trampoline' = [i \in DOMAIN trampoline |->
                          LET t == IF i = slot[hook] THEN Saved ELSE trampoline[i]
                          IN IF i \in Hit /\ t # NoTrampoline THEN Overwritten ELSE t]
      /\ UNCHANGED <<hook, slot, orig>>
  BY DEF HookFuncImpl
<1>2. hook \in Hooks /\ hook \in Nat /\ hook > 0 /\ slot[hook] = hook - 1
  BY <1>1, TargetsLength DEF IInv, Counted, PatchesAHook, SlotsInOrder
<1>3. T \in Nat /\ n \in {1, 4, 5} /\ claim.ro = T /\ ~Done(hook)
  BY <1>1, <1>2, PatchedWordsAre
<1>4. \A k \in 1 .. n : PatchedWords[k] = T + (k - 1)
  BY <1>1, <1>2, PatchedWordsAre
<1>5. \A w \in CodeWords :
        memory'[w] = IF at(w) = {} THEN memory[w] ELSE PatchOf(hook)[CHOOSE k \in at(w) : TRUE]
  BY <1>1 DEF Patched
<1>6. DOMAIN memory' = CodeWords
  BY <1>1 DEF Patched
<1>7. \A k \in 1 .. n : memory'[T + (k - 1)] = PatchOf(hook)[k]
  <2>1. TAKE k \in 1 .. n
  <2>2. T + (k - 1) \in CodeWords
    BY <1>2, <1>3, PatchInCode DEF PatchWords
  <2>3. at(T + (k - 1)) = {k}
    BY <1>3, <1>4
  <2>4. (CHOOSE j \in {k} : TRUE) = k
    OBVIOUS
  <2>5. QED
    BY <1>5, <2>2, <2>3, <2>4
<1>8. \A w \in CodeWords : w \notin PatchWords(hook) => memory'[w] = memory[w]
  <2>1. TAKE w \in CodeWords
  <2>2. HAVE w \notin PatchWords(hook)
  <2>3. at(w) = {}
    <3>1. \A k \in 1 .. n : T + (k - 1) \in PatchWords(hook)
      BY <1>3 DEF PatchWords
    <3>2. QED
      BY <1>4, <2>2, <3>1
  <2>4. QED
    BY <1>5, <2>1, <2>3
<1>9. \A h \in Hooks : Done(h) => h # hook
  BY <1>3
<1>10. \A k \in 1 .. n : memory[T + (k - 1)] = Insn(T + (k - 1))
  <2>1. TAKE k \in 1 .. n
  <2>2. /\ T + (k - 1) \in CodeWords
        /\ T + (k - 1) \in T .. T + MaxInstructions
    BY <1>2, <1>3, PatchInCode DEF PatchWords
  <2>3. \A h \in Hooks : Done(h) => T + (k - 1) \notin PatchWords(h)
    BY <1>2, <1>9, <2>2, PatchesApart
  <2>4. QED
    BY <2>2, <2>3 DEF WInv, WordsInv
<1>11. \A k \in 1 .. n : PatchedWords[k] \in CodeWords
  BY <1>2, <1>3, <1>4, PatchInCode DEF PatchWords
<1>12. Saved = [words |-> [k \in 1 .. n |-> Insn(T + (k - 1))], resume |-> T + n]
  <2>1. Saved = [words |-> [k \in 1 .. n |->
                              LET w == PatchedWords[k]
                              IN IF w \in CodeWords THEN memory[w] ELSE Word("jit")],
                 resume |-> claim.ro + n]
    BY DEF Saved, Relocated
  <2>2. [k \in 1 .. n |->
           LET w == PatchedWords[k] IN IF w \in CodeWords THEN memory[w] ELSE Word("jit")]
          = [k \in 1 .. n |-> Insn(T + (k - 1))]
    BY <1>4, <1>10, <1>11
  <2>3. QED
    BY <1>3, <2>1, <2>2
<1>13. trampoline'[hook - 1] = Saved
       /\ \A h \in Hooks : h # hook => trampoline'[h - 1] = trampoline[h - 1]
  <2>1. Hit = {}
    BY <1>11 DEF Hit
  <2>2. trampoline' = [i \in DOMAIN trampoline |-> IF i = slot[hook] THEN Saved ELSE trampoline[i]]
    BY <1>1, <2>1
  <2>3. \A h \in Hooks : h - 1 \in DOMAIN trampoline /\ (h # hook => h - 1 # hook - 1)
    BY <1>2, TargetsLength DEF IInv, TrampolineDomain
  <2>4. QED
    BY <1>2, <2>2, <2>3
<1>14. Done(hook)'
  <2>1. Saved.resume = T + n /\ T + n # -1
    BY <1>3, <1>12
  <2>2. NoTrampoline.resume = -1
    BY DEF NoTrampoline
  <2>3. Saved # NoTrampoline
    BY <2>1, <2>2
  <2>4. trampoline'[hook' - 1] # NoTrampoline
    BY <1>1, <1>13, <2>3
  <2>5. QED
    BY <2>4 DEF Done, NoTrampoline
<1>15. \A h \in Hooks : h # hook => (Done(h)' <=> Done(h))
  BY <1>13 DEF Done, NoTrampoline
<1>16. \A h \in Hooks : Count(h)' = Count(h) /\ PatchOf(h)' = PatchOf(h)
  BY DEF Count, PatchOf
<1>17. \A h \in Hooks : Done(h)' => Written(h)'
  <2>1. TAKE h \in Hooks
  <2>2. HAVE Done(h)'
  <2>3. CASE h = hook
    <3>1. trampoline'[h - 1] = [words |-> [k \in 1 .. Count(h) |-> Insn(Targets[h] + (k - 1))],
                                resume |-> Targets[h] + Count(h)]
      BY <1>12, <1>13, <2>3
    <3>2. h <= hook'
      BY <1>1, <1>2, <2>3
    <3>3. QED
      BY <1>7, <1>16, <2>3, <3>1, <3>2 DEF Written, Count, PatchOf, Insn
  <2>4. CASE h # hook
    <3>1. Written(h)
      BY <1>15, <2>2, <2>4 DEF WInv, WordsInv
    <3>2. ASSUME NEW k \in 1 .. Count(h)
          PROVE  memory'[Targets[h] + (k - 1)] = memory[Targets[h] + (k - 1)]
      <4>1. Targets[h] + (k - 1) \in PatchWords(h)
        BY CountIs DEF PatchWords
      <4>2. Targets[h] + (k - 1) \in CodeWords
        BY <4>1, PatchInCode
      <4>3. Targets[h] + (k - 1) \notin PatchWords(hook)
        BY <1>2, <2>4, <4>1, PatchesApart, PatchInCode
      <4>4. QED
        BY <1>8, <4>2, <4>3
    <3>3. \A k \in 1 .. Count(h) : memory'[Targets[h] + (k - 1)] = PatchOf(h)[k]
      BY <3>1, <3>2 DEF Written
    <3>4. h <= hook' /\ trampoline'[h - 1] = trampoline[h - 1]
      BY <1>1, <1>13, <2>4, <3>1 DEF Written
    <3>5. QED
      BY <1>16, <3>1, <3>3, <3>4 DEF Written, Count, PatchOf, Insn
  <2>5. QED
    BY <2>3, <2>4
<1>18. \A w \in CodeWords :
         (\A h \in Hooks : Done(h)' => w \notin PatchWords(h)) => memory'[w] = Insn(w)
  <2>1. TAKE w \in CodeWords
  <2>2. HAVE \A h \in Hooks : Done(h)' => w \notin PatchWords(h)
  <2>3. w \notin PatchWords(hook)
    BY <1>1, <1>2, <1>14, <2>2 DEF Done
  <2>4. \A h \in Hooks : Done(h) => w \notin PatchWords(h)
    BY <1>9, <1>15, <2>2
  <2>5. memory[w] = Insn(w)
    BY <2>1, <2>4 DEF WInv, WordsInv
  <2>6. QED
    BY <1>8, <2>1, <2>3, <2>5
<1>19. WordsInv'
  BY <1>6, <1>17, <1>18 DEF WordsInv, PatchWords, Count, CodeWords, Insn
<1>20. OrigInv'
  <2>1. \A h \in Hooks : Done(h) => Done(h)'
    BY <1>9, <1>15
  <2>2. QED
    BY <1>1, <2>1 DEF WInv, OrigInv
<1>21. QED
  BY <1>19, <1>20

LEMMA NextWInv ==
  (IInv /\ AInv /\ ClaimIsTheTarget /\ AliasShowsTheClaim /\ WInv /\ [Next]_vars) => WInv'
<1> SUFFICES ASSUME IInv, AInv, ClaimIsTheTarget, AliasShowsTheClaim, WInv, [Next]_vars
             PROVE  WInv'
  OBVIOUS
<1> USE DEF memVars, listVars, hookVars
<1>1. hook \in Nat /\ hook <= Len(Targets)
  BY TargetsLength DEF IInv, Counted
<1>2. ASSUME UNCHANGED <<hook, memory, hookVars>> PROVE WInv'
  BY <1>1, <1>2, WritesNothing DEF WInv
<1>3. CASE ConstructFind \/ ConstructReserve \/ ConstructMap \/ ConstructCheck
  BY <1>2, <1>3 DEF ConstructFind, ConstructReserve, ConstructMap, ConstructCheck, Stop
<1>4. CASE DestroyUnmap \/ DestroyRelease
  BY <1>2, <1>4 DEF DestroyUnmap, DestroyRelease, Stop
<1>5. CASE Hook
  <2>1. pc = "idle" /\ hook < Len(Targets) /\ UNCHANGED <<memory, trampoline, orig>>
    BY <1>5 DEF Hook
  <2>2. CASE Allocated > HookMax
    <3>1. UNCHANGED <<hook, slot>>
      BY <1>5, <2>2 DEF Hook
    <3>2. QED
      BY <1>1, <2>1, <3>1, WritesNothing DEF WInv
  <2>3. CASE ~(Allocated > HookMax)
    <3>1. hook' = hook + 1 /\ slot' = [slot EXCEPT ![hook + 1] = Allocated]
      BY <1>5, <2>3 DEF Hook
    <3>2. \A h \in Hooks : h <= hook => slot'[h] = slot[h]
      BY <1>1, <3>1, TargetsLength DEF IInv, SlotsInOrder
    <3>3. QED
      BY <1>1, <2>1, <3>1, <3>2, WritesNothing DEF WInv
  <2>4. QED
    BY <2>2, <2>3
<1>6. CASE HookFuncImpl
  <2>1. CASE Stop("aborted") \/ Stop("crashed")
    BY <1>2, <2>1 DEF Stop
  <2>2. CASE ~(Stop("aborted") \/ Stop("crashed"))
    BY <1>6, <2>2, PatchWrites DEF WInv
  <2>3. QED
    BY <2>1, <2>2
<1>7. CASE Return
  <2>1. /\ pc = "return" /\ orig' = [orig EXCEPT ![hook] = slot[hook]]
        /\ UNCHANGED <<hook, memory, slot, trampoline>>
    BY <1>7 DEF Return
  <2>2. Done(hook)
    BY <2>1 DEF ClaimIsTheTarget
  <2>3. \A h \in Hooks : (Done(h)' <=> Done(h)) /\ Count(h)' = Count(h) /\ PatchOf(h)' = PatchOf(h)
    BY <2>1 DEF Done, Count, PatchOf
  <2>4. \A h \in Hooks : Written(h) => Written(h)'
    BY <2>1, <2>3 DEF Written
  <2>5. WordsInv'
    BY <2>1, <2>3, <2>4 DEF WInv, WordsInv, PatchWords
  <2>6. OrigInv'
    BY <2>1, <2>2, <2>3 DEF WInv, OrigInv
  <2>7. QED
    BY <2>5, <2>6 DEF WInv
<1>8. CASE UNCHANGED vars
  BY <1>2, <1>8 DEF vars
<1>9. QED
  BY <1>3, <1>4, <1>5, <1>6, <1>7, <1>8 DEF Next

LEMMA IntactFromInv ==
  ASSUME IInv, WInv
  PROVE  HooksIntact
<1>1. ASSUME NEW h \in Hooks, orig[h] # -1
      PROVE  LET t == Targets[h]
                 n == Count(h)
             IN /\ orig[h] = slot[h]
                /\ [k \in 1 .. n |-> memory[t + k - 1]] = PatchOf(h)
                /\ trampoline[slot[h]].words = [k \in 1 .. n |-> Insn(t + k - 1)]
                /\ LET w == trampoline[slot[h]].resume IN w = t + n /\ memory[w] = Insn(w)
  <2> DEFINE t == Targets[h]
  <2> DEFINE n == Count(h)
  <2>1. Done(h) /\ orig[h] = slot[h] /\ Written(h)
    BY <1>1 DEF WInv, OrigInv, WordsInv
  <2>2. slot[h] = h - 1
    BY <2>1 DEF Written, IInv, SlotsInOrder
  <2>3. [k \in 1 .. n |-> memory[t + k - 1]] = PatchOf(h)
    <3>1. \A k \in 1 .. n : memory[t + k - 1] = PatchOf(h)[k]
      BY <2>1 DEF Written
    <3>2. [k \in 1 .. n |-> memory[t + k - 1]] = [k \in 1 .. n |-> PatchOf(h)[k]]
      BY <3>1, Zenon
    <3>3. QED
      BY <3>2, PatchIs
  <2>4. /\ trampoline[slot[h]].words = [k \in 1 .. n |-> Insn(t + k - 1)]
        /\ trampoline[slot[h]].resume = t + n
    <3>1. trampoline[slot[h]] = [words |-> [k \in 1 .. n |-> Insn(t + k - 1)], resume |-> t + n]
      BY <2>1, <2>2 DEF Written
    <3> DEFINE f == [k \in 1 .. n |-> Insn(t + k - 1)]
    <3>2. trampoline[slot[h]] = [words |-> f, resume |-> t + n]
      BY <3>1, Zenon
    <3> HIDE DEF f
    <3>3. trampoline[slot[h]].words = f /\ trampoline[slot[h]].resume = t + n
      BY <3>2
    <3>4. QED
      BY <3>3 DEF f
  <2>5. memory[t + n] = Insn(t + n)
    <3>1. t + n \in CodeWords /\ t + n \in t .. t + MaxInstructions
      BY PatchInCode
    <3>2. t + n \notin PatchWords(h)
      BY CountIs DEF PatchWords
    <3>3. \A g \in Hooks : t + n \notin PatchWords(g)
      BY <3>1, <3>2, PatchesApart
    <3>4. QED
      BY <3>1, <3>3 DEF WInv, WordsInv
  <2>6. QED
    BY <2>1, <2>3, <2>4, <2>5
<1>2. ASSUME NEW w \in CodeWords
      PROVE  /\ memory[w].op = "ptr" => w % 2 = 0
             /\ memory[w] # Insn(w) =>
                  \E h \in 1 .. hook : w \in Targets[h] .. Targets[h] + Count(h) - 1
  <2>1. CASE memory[w] = Insn(w)
    BY <2>1 DEF Insn
  <2>2. CASE memory[w] # Insn(w)
    <3>1. PICK h \in Hooks : Done(h) /\ w \in PatchWords(h)
      BY <2>2 DEF WInv, WordsInv
    <3>2. Written(h)
      BY <3>1 DEF WInv, WordsInv
    <3>3. h \in 1 .. hook
      BY <3>2, TargetsLength DEF Written, IInv, Counted
    <3>4. PICK k \in 1 .. Count(h) : w = Targets[h] + (k - 1)
      <4>1. Targets[h] \in Nat /\ Count(h) \in Nat
        BY CountIs
      <4>2. w - Targets[h] + 1 \in 1 .. Count(h) /\ w = Targets[h] + ((w - Targets[h] + 1) - 1)
        BY <3>1, <4>1 DEF PatchWords
      <4>3. QED
        BY <4>2
    <3>5. memory[w] = PatchOf(h)[k]
      BY <3>2, <3>4 DEF Written
    <3>6. memory[w].op = "ptr" => w % 2 = 0
      BY <3>4, <3>5, PatchIs
    <3>7. w \in Targets[h] .. Targets[h] + Count(h) - 1
      BY <3>1 DEF PatchWords
    <3>8. QED
      BY <3>3, <3>6, <3>7
  <2>3. QED
    BY <2>1, <2>2
<1>3. QED
  BY <1>1, <1>2 DEF HooksIntact

(* As long as no claim crosses the end of a page, whatever hooks are installed, in        *)
(* whatever order and at whatever aliases: a target whose Orig is set jumps to its         *)
(* callback through an aligned pointer, its trampoline runs the words it was loaded with,  *)
(* and no word outside the patches has changed.                                            *)
THEOREM InstalledStaysIntact ==
  ASSUME Fitting
  PROVE  Spec => []HooksIntact
<1>1. FInv => AliasShowsTheClaim
  BY DEF FInv
<1>2. IInv /\ AInv /\ ClaimIsTheTarget /\ AliasShowsTheClaim /\ WInv /\ [Next]_vars => WInv'
  BY NextWInv
<1>3. Spec => [](IInv /\ AInv /\ ClaimIsTheTarget /\ FInv)
  BY FInductive, InitIInv, NextIInv, InitAInv, NextAInv, InitClaimIsTheTarget,
     NextClaimIsTheTarget, PTL DEF Spec
<1>4. Spec => [](IInv /\ WInv)
  BY <1>1, <1>2, <1>3, InitWInv, PTL DEF Spec
<1>5. IInv /\ WInv => HooksIntact
  BY IntactFromInv
<1>6. QED
  BY <1>4, <1>5, PTL
===============================================================================
