-------------------------------- MODULE Regions --------------------------------
(****************************************************************************)
(* exl_init asks the kernel twice for the regions of the address space:       *)
(* FindRegions of util/sys/mem_layout.cpp, then virtmemSetup of               *)
(* nx/kernel/virtmem.c.  Where the kernel does not know the question both      *)
(* infer the answer from an svcUnmapMemory that must fail.  Addresses count    *)
(* 2 MB.  R_ASSERT looks at nothing in this build, R_ABORT_UNLESS ends it.     *)
(****************************************************************************)
EXTENDS Integers, Sequences

CONSTANT KernelRegions \* what the kernel answers: [start, size] by region
RegionNames == {"alias", "heap", "aslr", "stack"}
ASSUME RegionsAssumption == KernelRegions \in [RegionNames -> [start : Nat, size : Nat]]

VARIABLES
  known,  \* the InfoTypes the kernel answers
  probe,  \* how it refuses the svcUnmapMemory
  layout, \* s_Alias, s_Heap, s_Aslr and s_Stack
  g,      \* g_AliasRegion, g_HeapRegion, g_AslrRegion and g_StackRegion
  asked,  \* the query that is next
  setup   \* "layout", "infer", "virtmem", "legacy", "returned" or "aborted"

regionVars == <<known, probe, layout, g, asked, setup>>

\* Address, then size, of one region after the other: "alias", "heap", "aslr", "stack".
InfoTypes == RegionNames \X {"start", "size"}
Order == <<"alias", "heap", "aslr", "stack">>
Queries == [i \in 1 .. 8 |-> <<Order[(i + 1) \div 2], IF i % 2 = 1 THEN "start" ELSE "size">>]
Unset == [start |-> 0, size |-> 0]
MemRegion(r) == [start |-> r.start, end |-> r.start + r.size]

RegionsInit ==
  /\ known \in SUBSET InfoTypes
  /\ probe \in {"InvalidMemoryState", "InvalidMemoryRange", "other"}
  /\ layout = [r \in RegionNames |-> Unset]
  /\ g = [r \in RegionNames |-> MemRegion(Unset)]
  /\ asked = 1
  /\ setup = "layout"

\* GetAddressFromInfo and TryGetAddressFromInfo: the stub stores what the kernel
\* left in its register even when the call failed, here -1.
FindRegion ==
  LET q == Queries[asked]
      answered == q \in known
  IN /\ setup = "layout"
     /\ layout' = [layout EXCEPT ![q[1]] =
                     [@ EXCEPT ![q[2]] = IF answered THEN KernelRegions[q[1]][q[2]] ELSE -1]]
     /\ setup' = CASE answered -> IF asked = 8 THEN "virtmem" ELSE "layout"
                   [] ~answered /\ q[1] \in {"alias", "heap"} -> "aborted"
                   [] OTHER -> "infer"
     /\ asked' = IF answered /\ asked < 8 THEN asked + 1 ELSE 1
     /\ UNCHANGED <<known, probe, g>>

\* What both take a refusal for, as start and end.
Inferred ==
  IF probe = "InvalidMemoryState"
  THEN [aslr |-> [start |-> 1, end |-> 2048], stack |-> [start |-> 1, end |-> 512]]
  ELSE [aslr |-> [start |-> 64, end |-> 32768], stack |-> [start |-> 64, end |-> 1024]]

\* A bug: what was asked of the stack before the refusal is kept.
InferAslr ==
  /\ setup = "infer" /\ setup' = "virtmem"
  /\ layout' = IF probe = "other" THEN layout
               ELSE [layout EXCEPT !.aslr = [start |-> Inferred.aslr.start, size |-> Inferred.aslr.end]]
  /\ UNCHANGED <<known, probe, g, asked>>

\* InferAslrAndStack: the ends become sizes, and an error goes unnoticed.
InferAslrAndStack ==
  /\ setup = "infer" /\ setup' = "virtmem"
  /\ layout' = IF probe = "other" THEN layout
               ELSE [r \in RegionNames |->
                       IF r \in {"aslr", "stack"}
                       THEN [start |-> Inferred[r].start, size |-> Inferred[r].end] ELSE layout[r]]
  /\ UNCHANGED <<known, probe, g, asked>>

\* virtmemSetup, one region after the other: _memregionInitWithInfo sets a region
\* only when both queries succeed, and only the aslr's may fail.
SetUpRegion ==
  LET r == Queries[asked][1]
  IN /\ setup = "virtmem"
     /\ IF {<<r, "start">>, <<r, "size">>} \subseteq known
        THEN /\ g' = [g EXCEPT ![r] = MemRegion(KernelRegions[r])]
             /\ setup' = IF r = "stack" THEN "returned" ELSE "virtmem"
             /\ asked' = IF r = "stack" THEN 1 ELSE asked + 2
        ELSE /\ setup' = IF r = "aslr" THEN "legacy" ELSE "aborted"
             /\ UNCHANGED <<g, asked>>
     /\ UNCHANGED <<known, probe, layout>>

\* _memregionInitHardcoded of the regions a legacy kernel does not know.
SetUpLegacy ==
  /\ setup = "legacy"
  /\ IF probe = "other" THEN setup' = "aborted" /\ UNCHANGED g
     ELSE /\ setup' = "returned"
          /\ g' = [r \in RegionNames |-> IF r \in {"aslr", "stack"} THEN Inferred[r] ELSE g[r]]
  /\ UNCHANGED <<known, probe, layout, asked>>

RegionsNext == FindRegion \/ InferAslrAndStack \/ SetUpRegion \/ SetUpLegacy
RegionsSpec == RegionsInit /\ [][RegionsNext]_regionVars

-----------------------------------------------------------------------------
\* FindRegions took an end for a size, so its region ends as far behind as it starts.
EndsTooLate(r) == r \in {"aslr", "stack"} /\ layout[r].size = Inferred[r].end

\* Whatever the kernel refuses, if exl_init returns then the two views of the
\* address space are the same regions, none half asked and half inferred,
\* although one of them goes on after any failure and the other does not; only
\* the ends of inferred regions differ.
RegionsAgree ==
  setup = "returned" =>
    \A r \in RegionNames :
      /\ layout[r].start = g[r].start
      /\ layout[r].start + layout[r].size = g[r].end \/ EndsTooLate(r)
===============================================================================
