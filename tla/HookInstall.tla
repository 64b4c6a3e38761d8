----------------------------- MODULE HookInstall ------------------------------
(****************************************************************************)
(* Installing hooks: Hook and HookFuncImpl of hook/nx64/hook_impl.cpp, the   *)
(* writable alias of the code they patch (util/sys/rw_pages.cpp, jit.hpp)    *)
(* and the reservations it takes (VirtMem).  Everything runs on one thread,  *)
(* before the game.  An address is the number of a 32-bit word.  Relocated   *)
(* instructions are the originals: what relocation does to them is not here. *)
(* EXL_DEBUG is defined nowhere, so EXL_ASSERT is empty and only the         *)
(* EXL_ABORT_UNLESS and R_ABORT_UNLESS of this path stop the program.  Every *)
(* hook of the program has a trampoline: Hook with do_trampoline = false,    *)
(* which neither allocates nor saves, is not here.                           *)
(****************************************************************************)
EXTENDS VirtMem, Sequences

CONSTANTS
  PageWords,      \* PAGE_SIZE / 4
  JitWords,       \* setting::JitSize / 4
  TrampolineSize, \* words of a trampoline
  JitPage,        \* page of s_HookJit's area
  Targets,        \* the functions hooked, in that order: their addresses
  Far             \* of each, whether "b" cannot reach the callback

HookMax == JitWords \div TrampolineSize
MaxInstructions == 5
Hooks == DOMAIN Targets

\* The words of the program that patches are near.
CodeWords == UNION {Targets[h] .. Targets[h] + MaxInstructions : h \in Hooks}

\* Functions are at least as long as the patches, so these never meet.
ASSUME HookAssumption ==
  /\ PageWords \in Nat \ {0} /\ JitWords \in Nat \ {0} /\ TrampolineSize \in Nat \ {0}
  /\ JitPage \in 0 .. Pages - 1
  /\ Targets \in Seq(0 .. Pages * PageWords - 1)
  /\ Far \in [Hooks -> BOOLEAN]
  /\ \A g, h \in Hooks : Targets[g] < Targets[h] => Targets[g] + MaxInstructions < Targets[h]
  /\ \A g, h \in Hooks : Targets[g] = Targets[h] => g = h

VARIABLES
  pc,        \* where the thread is: "idle", "find", "reserve", "map", "check",
             \* "patch", "unmap", "release", "return"; "aborted" and "crashed" are ends
  hook,      \* the hook being installed, 0 for the Jit's own pages
  claim,     \* RwPages::Claim: m_Ro, m_Size, m_Rw and m_RwReserve
  rwOf,      \* what a page of the address space is a writable alias of, or -1
  memory,    \* the words of the program, as the first mapping shows them
  index,     \* AllocForTrampoline's count
  slot,      \* the trampoline of each hook, -1 before it has one
  trampoline,\* what a trampoline does: the words it runs, where it goes on
  orig       \* what each OrigRef() holds, -1 for null

hookVars == <<index, slot, trampoline, orig>>
vars == <<memVars, pc, hook, claim, rwOf, memory, hookVars>>

Insn(w) == [op |-> "insn", arg |-> w]
Word(o) == [op |-> o, arg |-> 0]
NoClaim == [ro |-> 0, size |-> 0, rw |-> 0, rv |-> NULL]
NoTrampoline == [words |-> <<>>, resume |-> -1]
Overwritten == [words |-> <<>>, resume |-> 0]

\* The program as loaded, nnMain's hook first; page 0 is never mapped.
Init ==
  /\ InitMem
  /\ mapped = {w \div PageWords : w \in {Targets[h] : h \in Hooks}} \cup {JitPage}
  /\ pc = "find"
  /\ hook = 0
  /\ claim = [NoClaim EXCEPT !.ro = JitPage * PageWords, !.size = JitWords]
  /\ rwOf = [p \in 0 .. Pages - 1 |-> -1]
  /\ memory = [w \in CodeWords |-> Insn(w)]
  /\ index = -1
  /\ slot = [h \in Hooks |-> -1]
  /\ trampoline = [i \in 0 .. Len(Targets) |-> NoTrampoline]
  /\ orig = [h \in Hooks |-> -1]

Stop(how) ==
  /\ pc' = how
  /\ UNCHANGED <<memVars, hook, claim, rwOf, memory, hookVars>>

-----------------------------------------------------------------------------
(* RwPages: a writable alias of the pages under an address. *)

PageOf(w) == w \div PageWords
AlignedRo == PageOf(claim.ro)
AlignedSize == (claim.size + PageWords - 1) \div PageWords  \* pages
AlignedRw == PageOf(claim.rw)

\* virtmemFindAslr, whose NULL is a page number like another.
ConstructFind ==
  /\ pc = "find"
  /\ \E a \in FindAslr(AlignedSize) :
       claim' = [claim EXCEPT !.rw = IF a < 0 THEN 0 ELSE a * PageWords]
  /\ pc' = "reserve"
  /\ UNCHANGED <<memVars, hook, rwOf, memory, hookVars>>

\* virtmemAddReservation.
ConstructReserve ==
  /\ pc = "reserve"
  /\ IF NoSlotLeft
     THEN /\ claim' = [claim EXCEPT !.rv = NULL]
          /\ UNCHANGED <<listVars, held>>
     ELSE /\ AddReservation(AlignedRw, AlignedSize)
          /\ claim' = [claim EXCEPT !.rv = g_Reservations']
  /\ pc' = "map"
  /\ UNCHANGED <<mapped, hook, rwOf, memory, hookVars>>

\* m_Rw, the word of the alias that is the same as m_Ro
RwAddress == AlignedRw * PageWords + (claim.ro - AlignedRo * PageWords)

\* ForEachMemRange and svcMapProcessMemory, which refuses a page outside the
\* region, as NULL is, a page that is taken and a source that is not mapped.
ConstructMap ==
  /\ pc = "map"
  /\ LET rw == AlignedRw .. AlignedRw + AlignedSize - 1
         ro == AlignedRo .. AlignedRo + AlignedSize - 1
     IN IF ~(rw \subseteq PagesOf(AslrRegion)) \/ rw \cap mapped # {} \/ ~(ro \subseteq mapped)
        THEN Stop("aborted")
        ELSE /\ mapped' = mapped \cup rw
             /\ rwOf' = [p \in DOMAIN rwOf |->
                          IF p \in rw THEN AlignedRo + (p - AlignedRw) ELSE rwOf[p]]
             /\ claim' = [claim EXCEPT !.rw = RwAddress]
             /\ pc' = "check"
             /\ UNCHANGED <<listVars, held, hook, memory, hookVars>>

\* The word a word of the alias is, -1 if it is not of an alias.
Physical(w) ==
  LET p == rwOf[PageOf(w)]
  IN IF p = -1 THEN -1 ELSE (p * PageWords) + (w % PageWords)

ClaimWords == 0 .. claim.size - 1

\* The alias shows every word of the claim.
AliasComplete == \A k \in ClaimWords : Physical(claim.rw + k) = claim.ro + k

\* The end of the constructor: where it asserts that both mappings hold the same
\* data, there is no code.
ConstructCheck ==
  /\ pc = "check"
  /\ pc' = IF hook = 0 THEN "idle" ELSE "patch"
  /\ UNCHANGED <<memVars, hook, claim, rwOf, memory, hookVars>>

\* A bug: the destructor of an object that is not the owner.
DestroyNotOwner ==
  /\ pc = "unmap"
  /\ pc' = "return"
  /\ UNCHANGED <<memVars, hook, claim, rwOf, memory, hookVars>>

\* The destructor: svcUnmapProcessMemory, then virtmemRemoveReservation.
DestroyUnmap ==
  /\ pc = "unmap"
  /\ LET rw == AlignedRw .. AlignedRw + AlignedSize - 1
     IN /\ mapped' = mapped \ rw
        /\ rwOf' = [p \in DOMAIN rwOf |-> IF p \in rw THEN -1 ELSE rwOf[p]]
  /\ pc' = "release"
  /\ UNCHANGED <<listVars, held, hook, claim, memory, hookVars>>

\* virtmemRemoveReservation dereferences what it is given.
DestroyRelease ==
  /\ pc = "release"
  /\ IF claim.rv = NULL
     THEN Stop("crashed")
     ELSE /\ RemoveReservation(claim.rv)
          /\ claim' = NoClaim
          /\ pc' = "return"
          /\ UNCHANGED <<mapped, hook, rwOf, memory, hookVars>>

-----------------------------------------------------------------------------
(* Hook. *)

\* __atomic_increase in AllocForTrampoline: the count after it was increased.
Allocated == index + 1

\* AllocForTrampoline, and the claim HookFuncImpl makes: five words or one.
Hook ==
  /\ pc = "idle"
  /\ hook < Len(Targets)
  /\ index' = index + 1
  /\ IF Allocated > HookMax
     THEN /\ pc' = "aborted"
          /\ UNCHANGED <<hook, claim, slot>>
     ELSE /\ hook' = hook + 1
          /\ slot' = [slot EXCEPT ![hook + 1] = Allocated]
          /\ claim' = [NoClaim EXCEPT !.ro = Targets[hook + 1],
                                      !.size = IF Far[hook + 1] THEN MaxInstructions ELSE 1]
          /\ pc' = "find"
  /\ UNCHANGED <<memVars, rwOf, memory, trampoline, orig>>

\* How many words of the target are patched: the pointer needs 8-byte alignment.
Count(h) == IF ~Far[h] THEN 1 ELSE IF (Targets[h] + 2) % 2 # 0 THEN 5 ELSE 4

PatchOf(h) ==
  LET jump == <<Word("ldr x17, 8"), Word("br x17"),
                [op |-> "ptr", arg |-> h], [op |-> "ptr hi", arg |-> h]>>
  IN CASE Count(h) = 1 -> <<[op |-> "b", arg |-> h]>>
       [] Count(h) = 4 -> jump
       [] Count(h) = 5 -> <<Word("nop")>> \o jump

\* The words HookFuncImpl reads and writes, counted from m_Rw.
PatchedWords == [k \in 1 .. Count(hook) |-> Physical(claim.rw + k - 1)]

\* The program after the patch.
Patched ==
  [w \in CodeWords |->
     LET at == {k \in 1 .. Count(hook) : PatchedWords[k] = w}
     IN IF at = {} THEN memory[w] ELSE PatchOf(hook)[CHOOSE k \in at : TRUE]]

\* __fix_instructions: the words the patch will cover, read through the alias
\* from the program mem, and a jump to the word after them.  Past the alias may
\* be the Jit's, whose words are no instructions of the program.
Relocated(mem) ==
  [words |-> [k \in 1 .. Count(hook) |->
                LET w == PatchedWords[k] IN IF w \in CodeWords THEN mem[w] ELSE Word("jit")],
   resume |-> claim.ro + Count(hook)]

\* A bug: the target is patched before its words are saved.
SavedAfter == Relocated(Patched)

\* What __fix_instructions has put into the trampoline.
Saved == Relocated(memory)

\* The trampolines a patch hits that runs past its alias into the Jit's.
Hit ==
  {(w - JitPage * PageWords) \div TrampolineSize :
     w \in {PatchedWords[k] : k \in 1 .. Count(hook)} \ CodeWords}

\* A word past the alias, if it is not the Jit's, cannot be written.
HookFuncImpl ==
  /\ pc = "patch"
  /\ IF TrampolineSize < Count(hook) * 10
     THEN Stop("aborted")
     ELSE IF \E k \in 1 .. Count(hook) : PatchedWords[k] = -1
     THEN Stop("crashed")
     ELSE /\ trampoline' = [i \in DOMAIN trampoline |->
                              LET t == IF i = slot[hook] THEN Saved ELSE trampoline[i]
                              IN IF i \in Hit /\ t # NoTrampoline THEN Overwritten ELSE t]
          /\ memory' = Patched
          /\ pc' = "unmap"
          /\ UNCHANGED <<memVars, hook, claim, rwOf, index, slot, orig>>

\* The return of Hook, and OrigRef() = ... of its caller.
Return ==
  /\ pc = "return"
  /\ orig' = [orig EXCEPT ![hook] = slot[hook]]
  /\ pc' = "idle"
  /\ UNCHANGED <<memVars, hook, claim, rwOf, memory, index, slot, trampoline>>

Next ==
  \/ ConstructFind \/ ConstructReserve \/ ConstructMap \/ ConstructCheck
  \/ DestroyUnmap \/ DestroyRelease
  \/ Hook \/ HookFuncImpl \/ Return

Spec == Init /\ [][Next]_vars

-----------------------------------------------------------------------------
(* Properties. *)

\* Once a hook is installed, and however many are installed after it, its
\* target jumps to its callback through an aligned pointer, Orig runs the words
\* the target had, goes on behind the patch in words nobody has patched, and no
\* other word of the program has changed.
HooksIntact ==
  /\ \A h \in Hooks : orig[h] # -1 =>
       LET t == Targets[h]
           n == Count(h)
       IN /\ orig[h] = slot[h]
          /\ [k \in 1 .. n |-> memory[t + k - 1]] = PatchOf(h)
          /\ trampoline[slot[h]].words = [k \in 1 .. n |-> Insn(t + k - 1)]
          /\ LET w == trampoline[slot[h]].resume IN w = t + n /\ memory[w] = Insn(w)
  /\ \A w \in CodeWords :
       /\ memory[w].op = "ptr" => w % 2 = 0
       /\ memory[w] # Insn(w) => \E h \in 1 .. hook : w \in Targets[h] .. Targets[h] + Count(h) - 1

\* Code is writable only while it is being patched: between two hooks the one
\* alias left is the Jit's, and so is the one reservation.
OnlyJitStaysWritable ==
  pc = "idle" =>
    /\ held = {1}
    /\ {p \in 0 .. Pages - 1 : rwOf[p] # -1} = PagesOf(region[1])

\* virtmemFindAslr gave up for the claim.
NothingFound == claim.size # 0 /\ claim.rw = 0

\* The hooks that fit, one less than NUM_RESERVATIONS, are never refused and
\* never crash unless virtmemFindAslr gives up, whatever addresses were drawn for
\* the aliases before.  The program installs four with five reservations.
FittingHooksInstall ==
  pc \in {"aborted", "crashed"} => hook >= NumReservations \/ NothingFound

\* No trampoline is written beyond the pool and no two hooks share one, although
\* AllocForTrampoline hands out one slot too many and a missing reservation stops
\* nobody: the hook that has none writes its trampoline and its patch before its
\* destructor crashes, and it is the last one.
PoolBounded ==
  /\ \A i \in DOMAIN trampoline :
       trampoline[i] # NoTrampoline => (i + 1) * TrampolineSize <= JitWords
  /\ \A g, h \in Hooks : g # h /\ slot[g] # -1 => slot[g] # slot[h]

\* When the alias is made, both mappings hold the same data, as the assertion of
\* the constructor says.
MappingsMatch == pc = "check" => AliasComplete
===============================================================================
