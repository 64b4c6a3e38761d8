------------------------------ MODULE RuntimeProofs ------------------------------
(****************************************************************************)
(* Proofs about what the program's own code has below it: the search for its  *)
(* modules, for every memory map; the regions of the address space, for any   *)
(* regions a kernel has and any set of questions it refuses; the handle of    *)
(* the process, for any number of calls.                                      *)
(****************************************************************************)
EXTENDS MemLayout, Regions, ProcessHandle, SequenceTheorems, FiniteSetTheorems, TLAPS

-----------------------------------------------------------------------------
(* The layout of the process. *)

\* How many modules of the map can be found.
Count == Cardinality(Modules)

\* The entry of the k-th.
Info(k) == [start |-> Nth(k) - 1, end |-> Nth(k) + 2]

\* The blocks seen, and the modules that lie in them.
Seen == IF size = 0 THEN 0 ELSE addr + 1
Found == {i \in Modules : i + 2 <= Seen}

\* The table while the first n modules are in it, and with the last one moved.
TableOf(n) == [i \in Start .. End - 1 |-> IF i < n THEN Info(i) ELSE None]
FinalTable ==
  [i \in Start .. End - 1 |->
     IF i = Sdk THEN Info(Count - 1) ELSE IF i < Count - 1 THEN Info(i) ELSE None]

\* A module is begun where the map begins one, and its first blocks were seen.
Begun ==
  LET B == Begins(map)
  IN \/ /\ state = "text" /\ curModInfo = -1
        /\ Seen \notin B /\ ~(Seen - 1 \in B /\ map[Seen] = "rodata")
     \/ state = "rodata" /\ Seen \in B /\ curModInfo = Seen - 1
     \/ state = "data" /\ Seen - 1 \in B /\ map[Seen] = "rodata" /\ curModInfo = Seen - 2

\* There is a first, a second and so on up to the n-th module.
HasNth(n) == \A k \in 0 .. n - 1 : Nth(k) \in Modules

Scanning ==
  /\ addr \in 0 .. Len(map) - 1 /\ size \in {0, 1} /\ (size = 0 => addr = 0)
  /\ offset = addr
  /\ nextModIdx = Cardinality(Found) /\ nextModIdx <= End
  /\ moduleInfos = TableOf(nextModIdx) /\ HasNth(nextModIdx)
  /\ Begun

LInv ==
  /\ map \in Maps
  /\ self \in Int /\ self + 1 \in ModuleStarts(map)
  /\ phase \in {"scan", "place", "findSelf", "done", "aborted"}
  /\ phase = "scan" => Scanning
  /\ phase = "place" =>
       Count < End /\ nextModIdx = Count /\ moduleInfos = TableOf(Count) /\ HasNth(Count)
  /\ phase \in {"findSelf", "done"} => Count < End /\ moduleInfos = FinalTable /\ HasNth(Count)
  /\ IF phase = "done" THEN SelfIsSelf ELSE selfIdx = End

(* A map is a sequence that begins and ends with another block, so no module is among   *)
(* its first or last blocks, and every module found is one that is begun.                *)
LEMMA MapIs ==
  ASSUME map \in Maps
  PROVE  /\ Len(map) \in Nat \ {0} /\ Len(map) > 1
         /\ map[1] = "other" /\ map[Len(map)] = "other"
         /\ \A i \in Modules :
              /\ i \in 2 .. Len(map) - 3
              /\ map[i] = "text" /\ map[i + 1] = "rodata" /\ map[i + 2] = "data"
              /\ i \in Begins(map)
         /\ \A i \in 1 .. Len(map) - 2 :
              (i \in Begins(map) /\ map[i + 1] = "rodata" /\ map[i + 2] = "data") => i \in Modules
         /\ \A i \in Begins(map) : i \in 1 .. Len(map) /\ map[i] = "text"
         /\ \A i \in 1 .. Len(map) :
              i \in Begins(map) <=> /\ map[i] = "text" /\ i - 1 \notin Begins(map)
                                    /\ ~(i - 2 \in Begins(map) /\ map[i - 1] = "rodata")
         /\ Modules # {} /\ Modules \in SUBSET (1 .. Len(map) - 2)
<1>1. map \in Maps
  OBVIOUS
<1>2. map \in Seq({"text", "rodata", "data", "other"}) /\ map # <<>>
      /\ map[1] = "other" /\ map[Len(map)] = "other"
      /\ IsBegins(map, Begins(map)) /\ \E i \in ModuleStarts(map) : map[i - 1] = "other"
  BY <1>1, MapAssumption
<1>3. Len(map) \in Nat \ {0}
  BY <1>2, EmptySeq, LenProperties
<1>4. PICK B : B = Begins(map)
  OBVIOUS
<1>5. IsBegins(map, B)
  BY <1>2, <1>4
<1>6. /\ \A i \in B : i \in 1 .. Len(map) /\ map[i] = "text"
      /\ \A i \in 1 .. Len(map) :
           i \in B <=> map[i] = "text" /\ i - 1 \notin B /\ ~(i - 2 \in B /\ map[i - 1] = "rodata")
  <2> DEFINE Begun1(i) == map[i] = "text" /\ i - 1 \notin B /\ ~(i - 2 \in B /\ map[i - 1] = "rodata")
  <2>1. B = {i \in 1 .. Len(map) : Begun1(i)}
    BY <1>5 DEF IsBegins
  <2> HIDE DEF Begun1
  <2>2. \A i : i \in B <=> i \in 1 .. Len(map) /\ Begun1(i)
    BY <2>1
  <2>3. QED
    BY <2>2 DEF Begun1
<1>7. ASSUME NEW i \in ModuleStarts(map)
      PROVE  /\ i \in 1 .. Len(map) - 2 /\ i \in 2 .. Len(map) - 3
             /\ map[i] = "text" /\ map[i + 1] = "rodata" /\ map[i + 2] = "data"
  <2>1. i \in 1 .. Len(map) - 2 /\ map[i] = "text" /\ map[i + 1] = "rodata" /\ map[i + 2] = "data"
    BY DEF ModuleStarts
  <2>2. i # 1 /\ i + 2 # Len(map)
    BY <1>2, <2>1
  <2>3. i \in 2 .. Len(map) - 3
    BY <1>3, <2>1, <2>2
  <2>4. QED
    BY <2>1, <2>3
<1>8. PICK i \in ModuleStarts(map) : map[i - 1] = "other"
  BY <1>2
<1>9. i \in B
  <2>1. i \in 1 .. Len(map) /\ map[i] = "text"
    BY <1>3, <1>7
  <2>2. i - 1 \notin B /\ map[i - 1] # "rodata"
    BY <1>6, <1>8
  <2>3. QED
    BY <1>6, <2>1, <2>2
<1>10. Modules = ModuleStarts(map) \cap B
  BY <1>4 DEF Modules
<1>11. Modules # {} /\ Modules \in SUBSET (1 .. Len(map) - 2) /\ Len(map) > 1
  BY <1>3, <1>7, <1>8, <1>9, <1>10
<1>12. ASSUME NEW j \in Modules
       PROVE  /\ j \in 2 .. Len(map) - 3
              /\ map[j] = "text" /\ map[j + 1] = "rodata" /\ map[j + 2] = "data" /\ j \in B
  BY <1>7, <1>10
<1>13. ASSUME NEW j \in 1 .. Len(map) - 2, j \in B, map[j + 1] = "rodata", map[j + 2] = "data"
       PROVE  j \in Modules
  BY <1>6, <1>10, <1>13 DEF ModuleStarts
<1>14. QED
  BY <1>2, <1>3, <1>4, <1>6, <1>11, <1>12, <1>13

(* There are finitely many modules, and of any of them the ones before it are fewer.    *)
LEMMA ModulesFinite ==
  ASSUME LInv
  PROVE  /\ IsFiniteSet(Modules) /\ Count \in Nat
         /\ \A S \in SUBSET Modules : IsFiniteSet(S) /\ Cardinality(S) \in Nat /\ Cardinality(S) <= Count
<1> map \in Maps
  BY DEF LInv
<1>1. Modules \in SUBSET (1 .. Len(map) - 2) /\ Len(map) \in Nat
  BY MapIs
<1>2. IsFiniteSet(1 .. Len(map) - 2)
  BY <1>1, FS_Interval
<1>3. IsFiniteSet(Modules)
  BY <1>1, <1>2, FS_Subset
<1>4. QED
  BY <1>3, FS_Subset, FS_CardinalityType DEF Count

\* How many modules are before the i-th block.
Rank(i) == Cardinality({j \in Modules : j < i})

(* Two modules do not have as many before them: Nth gives the one that does.            *)
LEMMA NthIs ==
  ASSUME LInv, NEW i \in Modules
  PROVE  Nth(Rank(i)) = i /\ Rank(i) \in 0 .. Count - 1
<1> map \in Maps
  BY DEF LInv
<1>1. \A k \in Modules : k \in Int
  BY MapIs
<1>2. ASSUME NEW j \in Modules, NEW k \in Modules, j < k
      PROVE  Rank(j) < Rank(k)
  <2> DEFINE S == {m \in Modules : m < j}
             T == {m \in Modules : m < k}
  <2>1. S \cup {j} \in SUBSET T /\ j \notin S /\ S \in SUBSET Modules /\ T \in SUBSET Modules
    BY <1>1, <1>2
  <2>2. IsFiniteSet(S) /\ IsFiniteSet(T) /\ Cardinality(S) \in Nat /\ Cardinality(T) \in Nat
    BY <2>1, ModulesFinite
  <2>3. Cardinality(S \cup {j}) = Cardinality(S) + 1
    BY <2>1, <2>2, FS_AddElement
  <2>4. Cardinality(S \cup {j}) <= Cardinality(T)
    BY <2>1, <2>2, FS_Subset
  <2>5. Rank(j) = Cardinality(S) /\ Rank(k) = Cardinality(T)
    BY DEF Rank
  <2> HIDE DEF S, T
  <2>6. QED
    BY <2>2, <2>3, <2>4, <2>5
<1>3. \A j, k \in Modules : Rank(j) \in Nat
  <2>1. TAKE j, k \in Modules
  <2>2. {m \in Modules : m < j} \in SUBSET Modules
    OBVIOUS
  <2>3. QED
    BY <2>2, ModulesFinite DEF Rank
<1>4. \A j \in Modules : Rank(j) = Rank(i) => j = i
  <2>1. TAKE j \in Modules
  <2>2. j < i \/ i < j \/ i = j
    BY <1>1
  <2>3. QED
    BY <1>2, <1>3, <2>2
<1>5. Nth(Rank(i)) = CHOOSE k \in Modules : Rank(k) = Rank(i)
  BY DEF Nth, Rank, Modules
<1>6. Nth(Rank(i)) = i
  BY <1>4, <1>5
<1>7. Rank(i) < Count
  <2> DEFINE S == {m \in Modules : m < i}
  <2>1. S \cup {i} \in SUBSET Modules /\ i \notin S /\ S \in SUBSET Modules
    BY <1>1
  <2>2. IsFiniteSet(S) /\ Cardinality(S) \in Nat /\ Cardinality(S \cup {i}) <= Count
    BY <2>1, ModulesFinite
  <2>3. Cardinality(S \cup {i}) = Cardinality(S) + 1
    BY <2>1, <2>2, FS_AddElement
  <2>4. Rank(i) = Cardinality(S)
    BY DEF Rank
  <2> HIDE DEF S
  <2>5. QED
    BY <2>2, <2>3, <2>4, ModulesFinite
<1>8. QED
  BY <1>3, <1>6, <1>7, ModulesFinite

(* A turn of the loop sees the next block, or wraps to the first one when it has seen    *)
(* all: the last one is no module's, so none is begun.                                  *)
LEMMA TurnSees ==
  ASSUME LInv, Turn
  PROVE  /\ Scanning /\ nextModIdx < End /\ nextModIdx \in Nat
         /\ Seen \in 0 .. Len(map) /\ selfIdx = End
         /\ addr' = Queried /\ size' = 1 /\ offset' = Queried
         /\ Seen < Len(map) => Queried = Seen /\ phase' = "scan"
         /\ Seen = Len(map) => Queried = 0 /\ phase' = "place" /\ state = "text"
         /\ UNCHANGED <<map, self, selfIdx>>
<1> map \in Maps
  BY DEF LInv
<1>1. Scanning /\ addr' = Queried /\ size' = 1 /\ offset' = Queried /\ ~Full
      /\ UNCHANGED <<map, self, selfIdx>> /\ selfIdx = End
  BY DEF Turn, LInv
<1>2. Len(map) \in Nat \ {0} /\ End \in Nat
  BY MapIs, MapAssumption
<1>3. nextModIdx \in Nat
  <2>1. Found \in SUBSET Modules
    BY DEF Found
  <2>2. QED
    BY <1>1, <2>1, ModulesFinite DEF Scanning
<1>4. Seen \in 0 .. Len(map) /\ addr + size = Seen /\ addr \in Int
  BY <1>1, <1>2 DEF Scanning, Seen
<1>5. \A l \in Nat \ {0} : (\A a \in 0 .. l - 1 : a % l = a) /\ l % l = 0
  BY Z3
<1>6. Seen < Len(map) => Queried = Seen
  <2>1. Seen < Len(map) => Seen \in 0 .. Len(map) - 1
    BY <1>2, <1>4
  <2>2. QED
    BY <1>2, <1>4, <1>5, <2>1 DEF Queried
<1>7. Seen = Len(map) => Queried = 0
  BY <1>2, <1>4, <1>5 DEF Queried
<1>8. Seen < Len(map) => phase' = "scan"
  <2>1. Seen < Len(map) => ~(Seen < addr)
    BY <1>1, <1>2, <1>4 DEF Scanning, Seen
  <2>2. QED
    BY <1>1, <1>6, <2>1 DEF Turn, Wrapped, Scanning
<1>9. ASSUME Seen = Len(map)
      PROVE  phase' = "place" /\ state = "text"
  <2>1. size = 1 /\ addr = Len(map) - 1
    BY <1>1, <1>2, <1>4, <1>9 DEF Scanning, Seen
  <2>2. Len(map) > 1
    BY MapIs
  <2>3. Queried < offset
    BY <1>1, <1>2, <1>7, <1>9, <2>1, <2>2 DEF Scanning
  <2>4. map[Seen] = "other"
    BY <1>9, MapIs
  <2>5. state = "text"
    BY <1>1, <2>4, MapIs DEF Scanning, Begun
  <2>6. QED
    BY <2>3, <2>5 DEF Turn, Wrapped
<1>10. QED
  BY <1>1, <1>2, <1>3, <1>4, <1>6, <1>7, <1>8, <1>9 DEF Full

(* The modules, their order and the tables made of them are the map's.                  *)
LEMMA MapStays ==
  ASSUME map' = map
  PROVE  /\ Modules' = Modules /\ Count' = Count /\ FinalTable' = FinalTable
         /\ \A n : TableOf(n)' = TableOf(n)
         /\ \A k : Nth(k)' = Nth(k) /\ Info(k)' = Info(k)
<1>1. Modules' = Modules
  BY DEF Modules
<1>2. \A k : Nth(k)' = Nth(k)
  BY <1>1 DEF Nth, Modules
<1>3. \A k : Info(k)' = Info(k)
  BY <1>2 DEF Info
<1>4. Count' = Count
  BY <1>1 DEF Count
<1>5. \A n : TableOf(n)' = TableOf(n)
  BY <1>3 DEF TableOf
<1>6. FinalTable' = FinalTable
  BY <1>3, <1>4 DEF FinalTable
<1>7. QED
  BY <1>1, <1>2, <1>3, <1>4, <1>5, <1>6

(* A turn that sees the next block and ends no module.                                  *)
LEMMA TurnKeepsTable ==
  ASSUME LInv, Turn, Seen < Len(map), UNCHANGED <<nextModIdx, moduleInfos>>,
         \A i \in Modules : i + 2 # Seen + 1,
         Seen' = Seen + 1 => Begun'
  PROVE  LInv'
<1> map \in Maps
  BY DEF LInv
<1>1. /\ Scanning /\ Seen \in 0 .. Len(map) /\ Len(map) \in Nat
      /\ addr' = Seen /\ size' = 1 /\ offset' = Seen /\ phase' = "scan"
      /\ UNCHANGED <<map, self>> /\ selfIdx' = End
  BY TurnSees, MapIs
<1>2. Seen' = Seen + 1
  BY <1>1 DEF Seen
<1>3. Modules' = Modules /\ \A k : Nth(k)' = Nth(k) /\ Info(k)' = Info(k)
  BY <1>1, MapStays
<1>4. \A i \in Modules : i \in Int
  BY MapIs
<1>5. Found' = Found
  BY <1>1, <1>2, <1>3, <1>4 DEF Found
<1>6. nextModIdx' = Cardinality(Found') /\ nextModIdx' <= End
  BY <1>1, <1>5 DEF Scanning
<1>7. moduleInfos' = TableOf(nextModIdx)'
  BY <1>1, <1>3 DEF Scanning, TableOf
<1>8. HasNth(nextModIdx)'
  BY <1>1, <1>3 DEF Scanning, HasNth
<1>9. addr' \in 0 .. Len(map') - 1 /\ size' \in {0, 1} /\ size' # 0 /\ offset' = addr'
  BY <1>1
<1>10. Scanning'
  BY <1>2, <1>6, <1>7, <1>9, <1>8 DEF Scanning
<1>11. QED
  BY <1>1, <1>3, <1>10 DEF LInv

(* The turn that wraps has seen all modules.                                            *)
LEMMA WrapKeeps ==
  ASSUME LInv, Turn, Seen = Len(map), UNCHANGED <<nextModIdx, moduleInfos>>
  PROVE  LInv'
<1> map \in Maps
  BY DEF LInv
<1>1. /\ Scanning /\ nextModIdx < End /\ phase' = "place" /\ UNCHANGED <<map, self>>
      /\ selfIdx' = End
  BY TurnSees
<1>2. \A i \in Modules : i + 2 <= Seen
  BY MapIs
<1>3. Found = Modules
  BY <1>2 DEF Found
<1>4. nextModIdx = Count
  BY <1>1, <1>3 DEF Scanning, Count
<1>5. /\ Modules' = Modules /\ Count' = Count /\ TableOf(Count)' = TableOf(Count)
      /\ \A k : Nth(k)' = Nth(k)
  BY <1>1, MapStays DEF TableOf
<1>6. HasNth(Count)'
  BY <1>1, <1>4, <1>5 DEF Scanning, HasNth
<1>7. QED
  BY <1>1, <1>4, <1>5, <1>6 DEF LInv, Scanning

(* The steps of the state machine.                                                      *)
LEMMA ScanKeeps ==
  ASSUME LInv, NoModuleHere \/ TextFound \/ RodataFound \/ Reset \/ DataFound
  PROVE  LInv'
<1> map \in Maps
  BY DEF LInv
<1>1. Turn
  BY DEF NoModuleHere, TextFound, RodataFound, Reset, DataFound
<1>2. /\ Scanning /\ Begun /\ Seen \in 0 .. Len(map) /\ Len(map) \in Nat \ {0}
      /\ nextModIdx < End /\ nextModIdx \in Nat
      /\ addr' = Queried /\ size' = 1 /\ offset' = Queried
      /\ Seen < Len(map) => Queried = Seen /\ phase' = "scan"
      /\ Seen = Len(map) => Queried = 0 /\ phase' = "place" /\ state = "text"
      /\ UNCHANGED <<map, self>> /\ selfIdx' = End
  BY <1>1, TurnSees, MapIs DEF Scanning
<1>3. Modules' = Modules /\ \A k : Nth(k)' = Nth(k) /\ Info(k)' = Info(k)
  BY <1>2, MapStays
<1>4. CASE Seen = Len(map)
  <2>1. Block = "other" /\ state = "text"
    BY <1>2, <1>4, MapIs DEF Block
  <2>2. UNCHANGED <<nextModIdx, moduleInfos>>
    BY <2>1 DEF NoModuleHere, TextFound, RodataFound, Reset, DataFound
  <2>3. QED
    BY <1>1, <1>4, <2>2, WrapKeeps
<1>5. CASE Seen < Len(map)
  <2>1. Block = map[Seen + 1] /\ Queried = Seen
    BY <1>2, <1>5 DEF Block
  <2> DEFINE B == Begins(map)
  <2>2. /\ \A i \in Modules : /\ i \in 2 .. Len(map) - 3 /\ i \in B
                              /\ map[i] = "text" /\ map[i + 1] = "rodata" /\ map[i + 2] = "data"
        /\ \A i \in B : i \in 1 .. Len(map) /\ map[i] = "text"
        /\ Seen + 1 \in B <=> /\ map[Seen + 1] = "text" /\ Seen \notin B
                              /\ ~(Seen - 1 \in B /\ map[Seen] = "rodata")
    <3>1. Seen + 1 \in 1 .. Len(map) /\ (Seen + 1) - 1 = Seen /\ (Seen + 1) - 2 = Seen - 1
      BY <1>2, <1>5
    <3>2. /\ \A i \in Modules : /\ i \in 2 .. Len(map) - 3 /\ i \in B
                                 /\ map[i] = "text" /\ map[i + 1] = "rodata" /\ map[i + 2] = "data"
          /\ \A i \in B : i \in 1 .. Len(map) /\ map[i] = "text"
      BY MapIs
    <3>3. \A i \in 1 .. Len(map) :
            i \in B <=> map[i] = "text" /\ i - 1 \notin B /\ ~(i - 2 \in B /\ map[i - 1] = "rodata")
      BY MapIs
    <3> HIDE DEF B
    <3>4. QED
      BY <3>1, <3>2, <3>3
  <2>3. /\ state = "text" => Seen \notin B /\ ~(Seen - 1 \in B /\ map[Seen] = "rodata")
        /\ state = "rodata" => Seen \in B /\ curModInfo = Seen - 1
        /\ state = "data" => Seen - 1 \in B /\ map[Seen] = "rodata" /\ curModInfo = Seen - 2
        /\ state \in {"text", "rodata", "data"}
        /\ state = "text" => curModInfo = -1
    BY <1>2 DEF Begun
  <2> HIDE DEF B
  (* No module ends with this block unless it was begun and its rodata seen.             *)
  <2>4. \A i \in Modules : i + 2 = Seen + 1 => Seen - 1 \in B /\ map[Seen] = "rodata" /\ map[Seen + 1] = "data"
    <3>1. TAKE i \in Modules
    <3>2. i + 2 = Seen + 1 => i = Seen - 1 /\ i + 1 = Seen
      BY <1>2, <2>2
    <3>3. QED
      BY <2>2, <3>2
  (* What is left to show of the place behind this block.                                *)
  <2>5. ASSUME Seen' = Seen + 1,
                \/ /\ state' = "text" /\ curModInfo' = -1
                   /\ Seen + 1 \notin B /\ ~(Seen \in B /\ map[Seen + 1] = "rodata")
                \/ state' = "rodata" /\ Seen + 1 \in B /\ curModInfo' = Seen
                \/ state' = "data" /\ Seen \in B /\ map[Seen + 1] = "rodata" /\ curModInfo' = Seen - 1
         PROVE  Begun'
    <3>1. (Seen + 1) - 1 = Seen /\ (Seen + 1) - 2 = Seen - 1
      BY <1>2
    <3>2. map' = map
      BY <1>2
    <3>3. QED
      BY <2>5, <3>1, <3>2 DEF Begun, B
  <2>6. CASE NoModuleHere
    <3>1. state = "text" /\ map[Seen + 1] # "text" /\ state' = state /\ curModInfo' = curModInfo
      BY <2>1, <2>6 DEF NoModuleHere
    <3>2. \A i \in Modules : i + 2 # Seen + 1
      BY <2>3, <2>4, <3>1
    <3>3. Seen' = Seen + 1 => Begun'
      BY <2>2, <2>3, <2>5, <3>1
    <3>4. QED
      BY <1>1, <1>5, <2>6, <3>2, <3>3, TurnKeepsTable DEF NoModuleHere
  <2>7. CASE TextFound
    <3>1. state = "text" /\ map[Seen + 1] = "text" /\ state' = "rodata" /\ curModInfo' = Seen
      BY <2>1, <2>7 DEF TextFound
    <3>2. \A i \in Modules : i + 2 # Seen + 1
      BY <2>3, <2>4, <3>1
    <3>3. Seen' = Seen + 1 => Begun'
      BY <2>2, <2>3, <2>5, <3>1
    <3>4. QED
      BY <1>1, <1>5, <2>7, <3>2, <3>3, TurnKeepsTable DEF TextFound
  <2>8. CASE RodataFound
    <3>1. /\ state = "rodata" /\ map[Seen + 1] = "rodata" /\ state' = "data"
          /\ curModInfo' = curModInfo
      BY <2>1, <2>8 DEF RodataFound
    <3>2. \A i \in Modules : i + 2 # Seen + 1
      BY <2>4, <3>1
    <3>3. Seen' = Seen + 1 => Begun'
      BY <2>3, <2>5, <3>1
    <3>4. QED
      BY <1>1, <1>5, <2>8, <3>2, <3>3, TurnKeepsTable DEF RodataFound
  <2>9. CASE Reset
    <3>1. state # "text" /\ map[Seen + 1] # state /\ state' = "text" /\ curModInfo' = -1
      BY <2>1, <2>9 DEF Reset
    <3>2. \A i \in Modules : i + 2 # Seen + 1
      BY <2>2, <2>3, <2>4, <3>1
    <3>3. Seen' = Seen + 1 => Begun'
      BY <2>2, <2>3, <2>5, <3>1
    <3>4. QED
      BY <1>1, <1>5, <2>9, <3>2, <3>3, TurnKeepsTable DEF Reset
  <2>10. CASE DataFound
    <3>1. /\ state = "data" /\ map[Seen + 1] = "data" /\ state' = "text" /\ curModInfo' = -1
          /\ moduleInfos' = [moduleInfos EXCEPT ![nextModIdx] = [start |-> curModInfo, end |-> Seen + 1]]
          /\ nextModIdx' = nextModIdx + 1
      BY <2>1, <2>10 DEF DataFound
    <3>2. Seen - 1 \in B /\ map[Seen] = "rodata" /\ curModInfo = Seen - 2
      BY <2>3, <3>1
    <3>3. PICK i \in Int : i = Seen - 1
      BY <1>2
    <3>4. i \in Modules
      <4>1. i \in 1 .. Len(map) - 2 /\ i + 1 = Seen /\ i + 2 = Seen + 1
        BY <1>2, <1>5, <2>2, <3>2, <3>3
      <4>2. QED
        BY <3>1, <3>2, <3>3, <4>1, MapIs DEF B
    <3>5. \A j \in Modules : j \in Int
      BY MapIs
    <3>6. Found = {j \in Modules : j < i}
      BY <1>2, <3>3, <3>5 DEF Found
    <3>7. nextModIdx = Rank(i) /\ Nth(nextModIdx) = i
      BY <1>2, <3>4, <3>6, NthIs DEF Scanning, Rank
    <3>8. Seen' = Seen + 1 /\ phase' = "scan" /\ Found \in SUBSET Modules
      BY <1>2, <1>5 DEF Seen, Found
    <3>9. Found' = Found \cup {i} /\ i \notin Found
      <4>1. Found' = {j \in Modules : j + 2 <= Seen + 1}
        BY <1>3, <3>8 DEF Found
      <4>2. \A j \in Modules : j + 2 <= Seen + 1 <=> (j + 2 <= Seen \/ j = i)
        BY <1>2, <3>3, <3>5
      <4>3. ~(i + 2 <= Seen)
        BY <1>2, <3>3
      <4>4. \A j : j \in Found' <=> j \in Found \/ j = i
        BY <3>4, <4>1, <4>2 DEF Found
      <4>5. Found' = Found \cup {i}
        BY <4>4
      <4>6. QED
        BY <4>3, <4>5 DEF Found
    <3>10. nextModIdx' = Cardinality(Found') /\ nextModIdx' <= End
      <4>1. IsFiniteSet(Found)
        BY <3>8, ModulesFinite
      <4>2. Cardinality(Found \cup {i}) = Cardinality(Found) + 1
        BY <3>9, <4>1, FS_AddElement
      <4>3. QED
        BY <1>2, <3>1, <3>9, <4>2, MapAssumption DEF Scanning
    <3>11. [start |-> curModInfo, end |-> Seen + 1] = Info(nextModIdx)
      <4>1. i - 1 = Seen - 2 /\ i + 2 = Seen + 1
        BY <1>2, <3>3
      <4>2. QED
        BY <3>2, <3>7, <4>1 DEF Info
    <3>12. moduleInfos' = TableOf(nextModIdx + 1)
      <4>1. moduleInfos = TableOf(nextModIdx)
        BY <1>2 DEF Scanning
      <4>2. nextModIdx \in Start .. End - 1 /\ End \in Nat
        BY <1>2, MapAssumption DEF Start
      <4>3. \A j \in Start .. End - 1 : j < nextModIdx + 1 <=> j < nextModIdx \/ j = nextModIdx
        BY <4>2 DEF Start
      <4>4. moduleInfos' = [moduleInfos EXCEPT ![nextModIdx] = Info(nextModIdx)]
        BY <3>1, <3>11
      <4>5. QED
        BY <4>1, <4>2, <4>3, <4>4 DEF TableOf
    <3>13. moduleInfos' = TableOf(nextModIdx)'
      BY <1>3, <3>1, <3>12 DEF TableOf
    <3>14. Begun'
      BY <2>2, <2>5, <3>1, <3>2, <3>8
    <3>15. HasNth(nextModIdx)'
      <4>1. HasNth(nextModIdx) /\ nextModIdx \in Nat /\ nextModIdx' = nextModIdx + 1
        BY <1>2, <3>1 DEF Scanning
      <4>2. \A k \in 0 .. (nextModIdx + 1) - 1 : k = nextModIdx \/ k \in 0 .. nextModIdx - 1
        BY <4>1
      <4>3. \A k \in 0 .. (nextModIdx + 1) - 1 : Nth(k) \in Modules
        BY <3>4, <3>7, <4>1, <4>2 DEF HasNth
      <4>4. QED
        BY <1>3, <4>1, <4>3 DEF HasNth
    <3>16. addr' \in 0 .. Len(map') - 1 /\ size' \in {0, 1} /\ size' # 0 /\ offset' = addr'
      BY <1>2, <1>5
    <3>17. Scanning'
      BY <3>10, <3>13, <3>14, <3>16, <3>15 DEF Scanning
    <3>18. QED
      BY <1>2, <1>3, <3>8, <3>17 DEF LInv
  <2>11. QED
    BY <2>6, <2>7, <2>8, <2>9, <2>10
<1>6. QED
  BY <1>2, <1>4, <1>5

(* After the loop the last entry moves to the sdk's index: there is at least one module, *)
(* and fewer than entries.                                                              *)
LEMMA PlaceKeeps ==
  ASSUME LInv, PlaceSdk
  PROVE  LInv'
<1>1. /\ Count < End /\ nextModIdx = Count /\ moduleInfos = TableOf(Count) /\ HasNth(Count)
      /\ phase' = "findSelf" /\ UNCHANGED <<map, self, selfIdx>> /\ selfIdx = End
  BY DEF PlaceSdk, LInv, scanVars
<1>2. Count \in Nat \ {0} /\ End \in Nat
  <2>1. PICK i : i \in Modules
    BY MapIs DEF LInv
  <2>2. QED
    BY <2>1, ModulesFinite, NthIs, MapAssumption
<1>3. moduleInfos' = [moduleInfos EXCEPT ![Sdk] = moduleInfos[Count - 1], ![Count - 1] = None]
  BY <1>1, <1>2 DEF PlaceSdk
<1>4. Count - 1 \in Start .. End - 1 /\ Sdk \in Start .. End - 1 /\ Count - 1 < Sdk
  BY <1>1, <1>2 DEF Start, Sdk
<1>5. moduleInfos[Count - 1] = Info(Count - 1)
  BY <1>1, <1>2, <1>4 DEF TableOf
<1>6. \A i \in Start .. End - 1 :
        moduleInfos'[i] = IF i = Count - 1 THEN None
                          ELSE IF i = Sdk THEN Info(Count - 1) ELSE moduleInfos[i]
  BY <1>1, <1>3, <1>4, <1>5 DEF TableOf
<1>7. \A i \in Start .. End - 1 : moduleInfos[i] = IF i < Count THEN Info(i) ELSE None
  BY <1>1 DEF TableOf
<1>8. \A i \in Start .. End - 1 :
        moduleInfos'[i] = IF i = Sdk THEN Info(Count - 1) ELSE IF i < Count - 1 THEN Info(i) ELSE None
  <2>1. TAKE i \in Start .. End - 1
  <2>2. CASE i = Sdk
    BY <1>4, <1>6, <2>2
  <2>3. CASE i # Sdk /\ i < Count - 1
    <3>1. i # Count - 1 /\ i < Count
      BY <1>2, <2>3 DEF Start
    <3>2. QED
      BY <1>6, <1>7, <2>3, <3>1
  <2>4. CASE i # Sdk /\ ~(i < Count - 1)
    <3>1. i = Count - 1 \/ ~(i < Count)
      BY <1>2, <2>4 DEF Start
    <3>2. QED
      BY <1>6, <1>7, <2>4, <3>1
  <2>5. QED
    BY <2>2, <2>3, <2>4
<1>9. moduleInfos' = FinalTable
  <2>1. DOMAIN moduleInfos = Start .. End - 1
    BY <1>1 DEF TableOf
  <2>2. DOMAIN moduleInfos' = DOMAIN moduleInfos
    BY <1>3
  <2>3. moduleInfos' = [i \in DOMAIN moduleInfos' |-> moduleInfos'[i]]
    BY <1>3
  <2>4. QED
    BY <1>8, <2>1, <2>2, <2>3 DEF FinalTable
<1>10. /\ Modules' = Modules /\ Count' = Count /\ FinalTable' = FinalTable
       /\ \A k : Nth(k)' = Nth(k)
  BY <1>1, MapStays
<1>11. HasNth(Count)'
  BY <1>1, <1>10 DEF HasNth
<1>12. QED
  BY <1>1, <1>9, <1>10, <1>11 DEF LInv

(* A module that can be found is in the finished table, at its place in the order or     *)
(* at the sdk's, and one that cannot is not: every entry is of one that can.              *)
LEMMA SelfIsThere ==
  LInv /\ phase = "findSelf" =>
    ((\E i \in Start .. End - 1 : IsSelf(i)) <=> self + 1 \in Begins(map))
<1> SUFFICES ASSUME LInv, phase = "findSelf"
             PROVE  (\E i \in Start .. End - 1 : IsSelf(i)) <=> self + 1 \in Begins(map)
  OBVIOUS
<1>1. /\ moduleInfos = FinalTable /\ self + 1 \in ModuleStarts(map) /\ Count < End /\ HasNth(Count)
      /\ self \in Int /\ map \in Maps
  BY DEF LInv
<1>2. Count \in Nat /\ End \in Nat /\ \A m \in Modules : m \in Nat \ {0} /\ m \in Begins(map)
  BY <1>1, ModulesFinite, MapAssumption, MapIs
<1>3. ASSUME self + 1 \in Begins(map) PROVE \E i \in Start .. End - 1 : IsSelf(i)
  <2>1. self + 1 \in Modules
    BY <1>1, <1>3 DEF Modules
  <2>2. PICK k \in Int : k = Rank(self + 1)
    BY <2>1, NthIs
  <2>3. Nth(k) = self + 1 /\ k \in 0 .. Count - 1 /\ self + 1 \in Nat \ {0}
    BY <1>2, <2>1, <2>2, NthIs
  <2>4. PICK i \in Start .. End - 1 : i = IF k = Count - 1 THEN Sdk ELSE k
    BY <1>1, <1>2, <2>3 DEF Start, Sdk
  <2>5. moduleInfos[i] = Info(k)
    <3>1. CASE k = Count - 1
      BY <1>1, <2>4, <3>1 DEF FinalTable
    <3>2. CASE k # Count - 1
      <4>1. i # Sdk /\ i < Count - 1
        BY <1>1, <1>2, <2>3, <2>4, <3>2 DEF Sdk
      <4>2. QED
        BY <1>1, <2>4, <3>2, <4>1 DEF FinalTable
    <3>3. QED
      BY <3>1, <3>2
  <2>6. Info(k).start = Nth(k) - 1 /\ Info(k).start \in Nat
    BY <2>3 DEF Info
  <2>7. QED
    BY <1>1, <2>3, <2>5, <2>6 DEF None, IsSelf
<1>4. ASSUME NEW i \in Start .. End - 1, IsSelf(i) PROVE self + 1 \in Begins(map)
  <2>1. PICK k \in 0 .. Count - 1 : moduleInfos[i] = Info(k)
    <3>1. moduleInfos[i] # None
      BY <1>4 DEF IsSelf
    <3>2. Count >= 1
      <4>1. PICK m : m \in Modules
        BY <1>1, MapIs
      <4>2. QED
        BY <1>2, <4>1, NthIs
    <3>3. CASE i = Sdk
      <4>1. Count - 1 \in 0 .. Count - 1 /\ moduleInfos[i] = Info(Count - 1)
        BY <1>1, <1>2, <3>2, <3>3 DEF FinalTable
      <4>2. QED
        BY <4>1
    <3>4. CASE i # Sdk
      <4>1. i < Count - 1 /\ moduleInfos[i] = Info(i)
        BY <1>1, <3>1, <3>4 DEF FinalTable
      <4>2. i \in 0 .. Count - 1
        BY <1>2, <4>1 DEF Start
      <4>3. QED
        BY <4>1, <4>2
    <3>5. QED
      BY <3>3, <3>4
  <2>2. Nth(k) \in Modules
    BY <1>1, <2>1 DEF HasNth
  <2>3. Nth(k) - 1 = self
    BY <1>4, <2>1 DEF IsSelf, Info
  <2>4. Nth(k) = self + 1
    BY <1>1, <1>2, <2>2, <2>3
  <2>5. QED
    BY <1>2, <2>2, <2>4
<1>5. QED
  BY <1>3, <1>4

(* Nothing is found at the start.                                                       *)
LEMMA InitLInv == Init => LInv
<1> SUFFICES ASSUME Init PROVE LInv
  OBVIOUS
<1>1. /\ map \in Maps /\ addr = 0 /\ size = 0 /\ offset = 0 /\ state = "text" /\ curModInfo = -1
      /\ nextModIdx = 0 /\ moduleInfos = [i \in Start .. End - 1 |-> None] /\ phase = "scan"
      /\ self \in {i - 1 : i \in ModuleStarts(map)} /\ selfIdx = End
  BY DEF Init, Start
<1>2. Len(map) \in Nat \ {0} /\ End \in Nat
  BY <1>1, MapIs, MapAssumption
<1>3. \A i \in ModuleStarts(map) : i \in Nat \ {0}
  BY <1>2 DEF ModuleStarts
<1>4. self \in Int /\ self + 1 \in ModuleStarts(map)
  BY <1>1, <1>3
<1>5. Seen = 0 /\ Found = {}
  BY <1>1, <1>3 DEF Seen, Found, Modules
<1>6. moduleInfos = TableOf(0) /\ HasNth(0)
  BY <1>1 DEF TableOf, HasNth, Start
<1>7. Begun
  <2>1. 0 \notin Begins(map) /\ 0 - 1 \notin Begins(map)
    BY <1>1, <1>2, MapIs
  <2>2. QED
    BY <1>1, <1>5, <2>1 DEF Begun
<1>8. Scanning
  BY <1>1, <1>2, <1>5, <1>6, <1>7, FS_EmptySet DEF Scanning
<1>9. QED
  BY <1>1, <1>4, <1>8 DEF LInv

(* Every turn, and every step after the loop, keeps it.                                 *)
LEMMA NextLInv == LInv /\ [Next]_vars => LInv'
<1> SUFFICES ASSUME LInv, [Next]_vars PROVE LInv'
  OBVIOUS
<1>1. CASE TooManyStaticModules
  <2>1. map' = map /\ self' = self /\ phase' = "aborted" /\ selfIdx' = selfIdx /\ phase = "scan"
    BY <1>1 DEF TooManyStaticModules
  <2>2. QED
    BY <2>1, MapStays DEF LInv
<1>2. CASE NoModuleHere \/ TextFound \/ RodataFound \/ Reset \/ DataFound
  BY <1>2, ScanKeeps
<1>3. CASE PlaceSdk
  BY <1>3, PlaceKeeps
<1>4. CASE FindSelf \/ SelfNotFound
  <2>1. phase = "findSelf" /\ phase' = "done" /\ UNCHANGED <<map, self, moduleInfos>>
    BY <1>4 DEF FindSelf, SelfNotFound
  <2>2. Modules' = Modules /\ Count' = Count /\ FinalTable' = FinalTable /\ HasNth(Count)' = HasNth(Count)
    BY <2>1, MapStays DEF HasNth
  <2>3. SelfIsSelf'
    <3>1. CASE FindSelf
      <4>1. PICK i \in Start .. End - 1 : IsSelf(i) /\ selfIdx' = i
        BY <3>1 DEF FindSelf, IndexOf
      <4>2. self + 1 \in Begins(map)
        BY <2>1, <4>1, SelfIsThere
      <4>3. i < End /\ moduleInfos[i].start = self
        BY <4>1, MapAssumption DEF IsSelf, Start
      <4>4. QED
        BY <2>1, <4>1, <4>2, <4>3 DEF SelfIsSelf
    <3>2. CASE SelfNotFound
      <4>1. self + 1 \notin Begins(map)
        BY <2>1, <3>2, SelfIsThere DEF SelfNotFound
      <4>2. selfIdx' = End
        BY <2>1, <3>2 DEF SelfNotFound, LInv
      <4>3. QED
        BY <2>1, <4>1, <4>2 DEF SelfIsSelf
    <3>3. QED
      BY <1>4, <3>1, <3>2
  <2>4. QED
    BY <2>1, <2>2, <2>3 DEF LInv
<1>5. CASE UNCHANGED vars
  <2>1. UNCHANGED <<map, self, addr, size, offset, state, curModInfo, nextModIdx, moduleInfos, selfIdx, phase>>
    BY <1>5 DEF vars, scanVars
  <2>2. Modules' = Modules /\ Count' = Count /\ FinalTable' = FinalTable
    BY <2>1, MapStays
  <2>3. /\ TableOf(nextModIdx)' = TableOf(nextModIdx) /\ TableOf(Count)' = TableOf(Count)
        /\ HasNth(nextModIdx)' = HasNth(nextModIdx) /\ HasNth(Count)' = HasNth(Count)
    BY <2>1, <2>2, MapStays DEF TableOf, HasNth
  <2>4. Scanning' = Scanning
    BY <2>1, <2>2, <2>3 DEF Scanning, Begun, Found, Seen
  <2>5. SelfIsSelf' = SelfIsSelf
    BY <2>1 DEF SelfIsSelf
  <2>6. QED
    BY <2>1, <2>2, <2>3, <2>4, <2>5 DEF LInv
<1>6. QED
  BY <1>1, <1>2, <1>3, <1>4, <1>5 DEF Next

(* So it is an invariant.                                                               *)
LEMMA LayoutInductive == Spec => []LInv
BY InitLInv, NextLInv, PTL DEF Spec

(* FindModules leaves in the table exactly the modules of the memory map that do not      *)
(* lie directly behind an unfinished one, in address order with the last one at the sdk's *)
(* index, for every map of any length with a module behind free memory.                   *)
THEOREM TableHoldsTheModules == Spec => []TableIsTheMap
<1>1. LInv => TableIsTheMap
  BY DEF LInv, TableIsTheMap, FinalTable, Info, Count
<1>2. QED
  BY <1>1, LayoutInductive, PTL

(* The search for __module_start leaves the index of the module's own entry, and none      *)
(* only if the module is among those lost.                                                *)
THEOREM SelfIsFound == Spec => []SelfIsSelf
<1>1. LInv => SelfIsSelf
  BY DEF LInv, SelfIsSelf
<1>2. QED
  BY <1>1, LayoutInductive, PTL

-----------------------------------------------------------------------------
(* The regions of the address space: the two views of it agree. *)
Field(r) == {<<r, "start">>, <<r, "size">>}
AllKnown == Field("aslr") \cup Field("stack") \subseteq known

\* What FindRegions has when the i-th question is next.
AnsweredBefore(i) ==
  \A j \in 1 .. i - 1 : Queries[j] \in known /\ layout[Queries[j][1]][Queries[j][2]] = KernelRegions[Queries[j][1]][Queries[j][2]]

\* What it leaves: the first two regions asked, the others asked or inferred.
Asked(r) == Field(r) \subseteq known /\ layout[r] = KernelRegions[r]
WasInferred(r) == probe = "other" \/ layout[r] = [start |-> Inferred[r].start, size |-> Inferred[r].end]
LayoutFound ==
  /\ Asked("alias") /\ Asked("heap")
  /\ \/ Asked("aslr") /\ Asked("stack")
     \/ ~AllKnown /\ WasInferred("aslr") /\ WasInferred("stack")

\* What virtmemSetup has when a region is next.
SetUpTo(i) ==
  /\ i > 1 => g["alias"] = MemRegion(KernelRegions["alias"])
  /\ i > 3 => g["heap"] = MemRegion(KernelRegions["heap"])
  /\ i > 5 => Field("aslr") \subseteq known /\ g["aslr"] = MemRegion(KernelRegions["aslr"])

TypeOK ==
  /\ layout \in [RegionNames -> [start : Int, size : Int]]
  /\ g \in [RegionNames -> [start : Int, end : Int]]
  /\ setup \in {"layout", "infer", "virtmem", "legacy", "returned", "aborted"}

RInv ==
  /\ TypeOK
  /\ setup = "layout" => asked \in 1 .. 8 /\ AnsweredBefore(asked)
  /\ setup = "infer" => asked = 1 /\ Asked("alias") /\ Asked("heap") /\ ~AllKnown
  /\ setup = "virtmem" => asked \in {1, 3, 5, 7} /\ LayoutFound /\ SetUpTo(asked)
  /\ setup = "legacy" => LayoutFound /\ ~AllKnown /\ SetUpTo(5)
  /\ RegionsAgree

\* The order of the questions.
LEMMA TheQueries ==
  /\ Queries[1] = <<"alias", "start">> /\ Queries[2] = <<"alias", "size">>
  /\ Queries[3] = <<"heap", "start">> /\ Queries[4] = <<"heap", "size">>
  /\ Queries[5] = <<"aslr", "start">> /\ Queries[6] = <<"aslr", "size">>
  /\ Queries[7] = <<"stack", "start">> /\ Queries[8] = <<"stack", "size">>
BY DEF Queries, Order

\* One step of the search of mem_layout.cpp.
LEMMA FindRegionKeeps == RInv /\ FindRegion => RInv'
<1> SUFFICES ASSUME RInv, FindRegion PROVE RInv'
    OBVIOUS
<1> DEFINE q == Queries[asked]
<1>1. asked \in 1 .. 8 /\ AnsweredBefore(asked) /\ setup = "layout" /\ UNCHANGED <<known, probe, g>>
      BY DEF RInv, FindRegion
<1>2. q \in RegionNames \X {"start", "size"}
      BY <1>1, TheQueries DEF RegionNames
<1>3. TypeOK'
  <2> DEFINE v == IF q \in known THEN KernelRegions[q[1]][q[2]] ELSE -1
  <2>1. layout' \in [RegionNames -> [start : Int, size : Int]]
    <3>1. layout' = [layout EXCEPT ![q[1]] = [@ EXCEPT ![q[2]] = v]]
          BY DEF FindRegion
    <3>2. q[1] \in RegionNames /\ q[2] \in {"start", "size"}
          BY <1>2
    <3>3. v \in Int
          BY <3>2, RegionsAssumption
    <3>4. layout \in [RegionNames -> [start : Int, size : Int]]
          BY DEF RInv, TypeOK
    <3> HIDE DEF v, q
    <3>5. [layout[q[1]] EXCEPT ![q[2]] = v] \in [start : Int, size : Int]
          BY <3>2, <3>3, <3>4
    <3>6. QED
          BY <3>1, <3>2, <3>4, <3>5
  <2>2. setup' \in {"layout", "infer", "virtmem", "aborted"}
        BY DEF FindRegion
  <2>3. QED
        BY <1>1, <2>1, <2>2 DEF RInv, TypeOK
<1>4. CASE q \notin known
  <2>1. setup' \in {"aborted", "infer"} /\ asked' = 1
        BY <1>4 DEF FindRegion
  <2>2. CASE setup' = "infer"
    <3>1. asked \in {5, 6, 7, 8}
          BY <1>1, <1>4, <2>2, TheQueries DEF FindRegion
    <3>2. \A j \in 1 .. 4 : Queries[j] \in known /\ layout'[Queries[j][1]][Queries[j][2]] = KernelRegions[Queries[j][1]][Queries[j][2]]
          BY <1>1, <3>1, TheQueries DEF FindRegion, AnsweredBefore, RInv, TypeOK, RegionNames
    <3>3. Asked("alias")' /\ Asked("heap")'
          BY <1>1, <1>3, <3>2, TheQueries, RegionsAssumption DEF Asked, Field, TypeOK, RegionNames
    <3>4. (~AllKnown)'
          BY <1>1, <1>4, <3>1, TheQueries DEF AllKnown, Field
    <3>5. QED
          BY <1>3, <2>1, <2>2, <3>3, <3>4 DEF RInv, RegionsAgree
  <2>3. QED
        BY <1>3, <2>1, <2>2 DEF RInv, RegionsAgree
<1>5. CASE q \in known
  <2>1. layout' = [layout EXCEPT ![q[1]] = [@ EXCEPT ![q[2]] = KernelRegions[q[1]][q[2]]]]
        BY <1>5 DEF FindRegion
  <2>2. \A j \in 1 .. asked : Queries[j] \in known /\ layout'[Queries[j][1]][Queries[j][2]] = KernelRegions[Queries[j][1]][Queries[j][2]]
        BY <1>1, <1>5, <2>1, TheQueries DEF AnsweredBefore, RInv, TypeOK, RegionNames
  <2>3. CASE asked < 8
        BY <1>1, <1>3, <1>5, <2>2, <2>3 DEF FindRegion, RInv, AnsweredBefore, RegionsAgree
  <2>4. CASE asked = 8
    <3>1. setup' = "virtmem" /\ asked' = 1
          BY <1>5, <2>4 DEF FindRegion
    <3>2. Asked("alias")' /\ Asked("heap")' /\ Asked("aslr")' /\ Asked("stack")'
      <4> SUFFICES ASSUME NEW r \in RegionNames PROVE Asked(r)'
          BY DEF RegionNames
      <4>1. \E i \in {1, 3, 5, 7} : Queries[i] = <<r, "start">> /\ Queries[i + 1] = <<r, "size">>
            BY TheQueries DEF RegionNames
      <4>2. PICK i \in {1, 3, 5, 7} : Queries[i] = <<r, "start">> /\ Queries[i + 1] = <<r, "size">>
            BY <4>1
      <4>3. /\ Field(r) \subseteq known'
            /\ layout'[r]["start"] = KernelRegions[r]["start"] /\ layout'[r]["size"] = KernelRegions[r]["size"]
            BY <1>1, <2>2, <2>4, <4>2 DEF Field
      <4>4. layout'[r] \in [start : Int, size : Int] /\ KernelRegions[r] \in [start : Nat, size : Nat]
            BY <1>3, RegionsAssumption DEF TypeOK
      <4>5. QED
            BY <4>3, <4>4 DEF Asked
    <3>3. QED
          BY <1>3, <3>1, <3>2 DEF RInv, LayoutFound, SetUpTo, RegionsAgree
  <2>5. QED
        BY <1>1, <2>3, <2>4
<1>6. QED
      BY <1>4, <1>5

\* What mem_layout.cpp infers.
LEMMA InferKeeps == RInv /\ InferAslrAndStack => RInv'
<1> SUFFICES ASSUME RInv, InferAslrAndStack PROVE RInv'
    OBVIOUS
<1>1. Asked("alias") /\ Asked("heap") /\ ~AllKnown /\ asked' = 1 /\ setup' = "virtmem" /\ UNCHANGED <<known, probe, g>>
      BY DEF RInv, InferAslrAndStack
<1>2. layout' \in [RegionNames -> [start : Int, size : Int]]
      BY DEF RInv, TypeOK, InferAslrAndStack, Inferred, RegionNames
<1>3. WasInferred("aslr")' /\ WasInferred("stack")'
      BY <1>1 DEF WasInferred, InferAslrAndStack, Inferred, RegionNames
<1>4. layout'["alias"] = layout["alias"] /\ layout'["heap"] = layout["heap"]
      BY DEF InferAslrAndStack, RegionNames
<1>5. Asked("alias")' /\ Asked("heap")' /\ ~AllKnown'
      BY <1>1, <1>4 DEF Asked, AllKnown, Field
<1>6. QED
      BY <1>1, <1>2, <1>3, <1>5 DEF RInv, TypeOK, LayoutFound, SetUpTo, RegionsAgree

\* One region of virtmemSetup.
LEMMA SetUpKeeps == RInv /\ SetUpRegion => RInv'
<1> SUFFICES ASSUME RInv, SetUpRegion PROVE RInv'
    OBVIOUS
<1> DEFINE r == Queries[asked][1]
<1>1. asked \in {1, 3, 5, 7} /\ LayoutFound /\ SetUpTo(asked) /\ TypeOK /\ UNCHANGED <<known, probe, layout>>
      BY DEF RInv, SetUpRegion
<1>2. LayoutFound'
      BY <1>1 DEF LayoutFound, Asked, AllKnown, WasInferred, Inferred
<1>3. r \in RegionNames
      BY <1>1, TheQueries DEF RegionNames
<1>4. CASE ~(Field(r) \subseteq known)
  <2>1. setup' = (IF r = "aslr" THEN "legacy" ELSE "aborted") /\ UNCHANGED <<g, asked>>
        BY <1>4 DEF SetUpRegion, Field
  <2>2. r = "aslr" => asked = 5
        BY <1>1, TheQueries
  <2>3. r = "aslr" => ~AllKnown'
        BY <1>1, <1>4 DEF AllKnown
  <2>4. r = "aslr" => SetUpTo(5)'
        BY <1>1, <2>1, <2>2 DEF SetUpTo
  <2>5. QED
        BY <1>1, <1>2, <2>1, <2>3, <2>4 DEF RInv, TypeOK, RegionsAgree
<1>5. CASE Field(r) \subseteq known
  <2>1. /\ g' = [g EXCEPT ![r] = MemRegion(KernelRegions[r])]
        /\ setup' = IF r = "stack" THEN "returned" ELSE "virtmem"
        /\ asked' = IF r = "stack" THEN 1 ELSE asked + 2
        BY <1>5 DEF SetUpRegion, Field
  <2>2. g' \in [RegionNames -> [start : Int, end : Int]]
    <3>1. MemRegion(KernelRegions[r]) \in [start : Int, end : Int]
          BY <1>3, RegionsAssumption DEF MemRegion
    <3>2. QED
          BY <1>1, <1>3, <2>1, <3>1 DEF TypeOK
  <2>3. CASE asked # 7
    <3>1. asked' \in {1, 3, 5, 7} /\ setup' = "virtmem"
          BY <1>1, <2>1, <2>3, TheQueries
    <3>2. SetUpTo(asked)'
          BY <1>1, <1>5, <2>1, <2>3, TheQueries DEF SetUpTo, TypeOK, RegionNames
    <3>3. QED
          BY <1>1, <1>2, <2>2, <3>1, <3>2 DEF RInv, TypeOK, RegionsAgree
  <2>4. CASE asked = 7
    <3>1. r = "stack" /\ setup' = "returned"
          BY <2>1, <2>4, TheQueries
    <3>2. AllKnown
          BY <1>1, <1>5, <2>4, <3>1 DEF SetUpTo, AllKnown
    <3>3. \A s \in RegionNames : g'[s] = MemRegion(KernelRegions[s])
          BY <1>1, <2>1, <2>4, <3>1 DEF SetUpTo, TypeOK, RegionNames
    <3>4. \A s \in RegionNames : layout[s] = KernelRegions[s]
          BY <1>1, <3>2 DEF LayoutFound, Asked, RegionNames
    <3>5. RegionsAgree'
      <4>1. \A s \in RegionNames : KernelRegions[s] \in [start : Nat, size : Nat]
            BY RegionsAssumption
      <4>2. \A s \in RegionNames : g'[s].start = KernelRegions[s].start
                                   /\ g'[s].end = KernelRegions[s].start + KernelRegions[s].size
        <5> TAKE s \in RegionNames
        <5>1. g'[s] = [start |-> KernelRegions[s].start, end |-> KernelRegions[s].start + KernelRegions[s].size]
              BY <3>3 DEF MemRegion
        <5>2. QED
              BY <4>1, <5>1
      <4>3. \A s \in RegionNames : layout'[s] = KernelRegions[s]
            BY <1>1, <3>4
      <4>4. \A s \in RegionNames : /\ layout'[s].start = g'[s].start
                                   /\ layout'[s].start + layout'[s].size = g'[s].end
        <5> TAKE s \in RegionNames
        <5>1. layout'[s].start = KernelRegions[s].start /\ layout'[s].size = KernelRegions[s].size
              BY <4>3
        <5>2. QED
              BY <4>2, <5>1
      <4>5. QED
            BY <4>4 DEF RegionsAgree, EndsTooLate
    <3>6. QED
          BY <1>1, <2>2, <3>1, <3>5 DEF RInv, TypeOK
  <2>5. QED
        BY <2>3, <2>4
<1>6. QED
      BY <1>4, <1>5

\* What virtmemSetup infers.
LEMMA SetUpLegacyKeeps == RInv /\ SetUpLegacy => RInv'
<1> SUFFICES ASSUME RInv, SetUpLegacy PROVE RInv'
    OBVIOUS
<1>1. LayoutFound /\ ~AllKnown /\ SetUpTo(5) /\ TypeOK /\ UNCHANGED <<known, probe, layout, asked>>
      BY DEF RInv, SetUpLegacy
<1>2. CASE probe = "other"
      BY <1>1, <1>2 DEF SetUpLegacy, RInv, TypeOK, RegionsAgree
<1>3. CASE probe # "other"
  <2>1. /\ setup' = "returned"
        /\ g' = [r \in RegionNames |-> IF r \in {"aslr", "stack"} THEN Inferred[r] ELSE g[r]]
        BY <1>3 DEF SetUpLegacy
  <2>2. g' \in [RegionNames -> [start : Int, end : Int]]
        BY <1>1, <2>1 DEF TypeOK, Inferred, RegionNames
  <2>3. Inferred' = Inferred
        BY <1>1 DEF Inferred
  <2>4. \A r \in {"aslr", "stack"} : layout'[r].start = g'[r].start /\ EndsTooLate(r)'
        BY <1>1, <1>3, <2>1, <2>3 DEF LayoutFound, WasInferred, EndsTooLate, Asked, AllKnown, RegionNames
  <2>5. \A r \in {"alias", "heap"} :
          layout'[r].start = g'[r].start /\ layout'[r].start + layout'[r].size = g'[r].end
        BY <1>1, <2>1, RegionsAssumption DEF LayoutFound, Asked, SetUpTo, MemRegion, RegionNames
  <2>6. RegionsAgree'
        BY <2>4, <2>5 DEF RegionsAgree, RegionNames
  <2>7. QED
        BY <1>1, <2>1, <2>2, <2>6 DEF RInv, TypeOK
<1>4. QED
      BY <1>2, <1>3

\* Whatever the kernel refuses, the two views of the address space that
\* exl_init builds agree when it returns, but for the ends that are too late.
THEOREM TheRegionsAgree == RegionsSpec => []RegionsAgree
<1>1. RegionsInit => RInv
      BY DEF RegionsInit, RInv, TypeOK, AnsweredBefore, RegionsAgree, MemRegion, Unset
<1>2. RInv /\ UNCHANGED regionVars => RInv'
      BY DEF regionVars, RInv, TypeOK, AnsweredBefore, RegionsAgree, Asked, AllKnown, LayoutFound, WasInferred,
             SetUpTo, Inferred, EndsTooLate
<1>3. RInv /\ [RegionsNext]_regionVars => RInv'
      BY <1>2, FindRegionKeeps, InferKeeps, SetUpKeeps, SetUpLegacyKeeps DEF RegionsNext
<1>4. RInv => RegionsAgree
      BY DEF RInv
<1>5. QED
      BY <1>1, <1>3, <1>4, PTL DEF RegionsSpec

-----------------------------------------------------------------------------
(* The handle of the process: Get returns with the handle, and with nothing     *)
(* else left behind.  The two threads meet only at the session and at the end   *)
(* of the receiver, so the invariant gives the handle table as a function of    *)
(* where the two are.                                                           *)
Alone == receiver = "none" /\ sHandle = "invalid"

\* The receiver from its start to its end, and from the message on.
ReceiverRuns == receiver \in {"starts", "receives", "sets the handle", "closes the session", "exits", "exited"}
HasReceived == receiver \in {"sets the handle", "closes the session", "exits", "exited"}
HasSet == receiver \in {"closes the session", "exits", "exited"}
SessionOpen == receiver \in {"starts", "receives", "sets the handle", "closes the session"}

\* The handle table while both threads run.
Held ==
  {"thread"} \cup (IF caller = "waits" THEN {} ELSE {"client"})
             \cup (IF SessionOpen THEN {"server"} ELSE {})
             \cup (IF HasReceived THEN {"process"} ELSE {})

CallerKnows ==
  /\ caller \in {"idle", "asks the kernel", "creates a session", "creates a thread", "starts the thread", "sends",
                 "is sending", "closes the client", "waits", "closes the thread", "returns", "aborted"}
  /\ caller = "idle" => \/ Alone /\ handles = {}
                        \/ sHandle = "process" /\ handles = {"process"} /\ receiver \in {"none", "exited"}
  /\ caller \in {"asks the kernel", "creates a session"} => Alone /\ handles = {}
  /\ caller = "creates a thread" => Alone /\ handles = {"server", "client"}
  /\ caller = "starts the thread" => Alone /\ handles = {"server", "client", "thread"}
  /\ caller = "closes the thread" => sHandle = "process" /\ handles = {"thread", "process"} /\ receiver = "exited"

BothRun ==
  caller \in {"sends", "is sending", "closes the client", "waits"} =>
    /\ ReceiverRuns
    /\ handles = Held
    /\ receiver = "sets the handle" => tls = "process"
    /\ HasSet => sHandle = "process"

HInv == CallerKnows /\ BothRun /\ HandleIsReceived

LEMMA HInvInit == ProcessHandleInit => HInv
BY DEF ProcessHandleInit, HInv, CallerKnows, BothRun, HandleIsReceived, Alone

\* The steps of the thread that calls Get.
LEMMA CallerKeeps == HInv /\ CallerNext => HInv'
<1> SUFFICES ASSUME HInv, CallerNext PROVE HInv'
    OBVIOUS
<1> USE DEF CallerGoes, Alone, CallerKnows, BothRun, HandleIsReceived
<1>1. CASE CallGet
      BY <1>1 DEF HInv, CallGet
<1>2. CASE GetViaMesosphere
      BY <1>2 DEF HInv, GetViaMesosphere
<1>3. CASE MesosphereFails
      BY <1>3 DEF HInv, MesosphereFails
<1>4. CASE CreateSession
      BY <1>4 DEF HInv, CreateSession
<1>5. CASE CreateThread
      BY <1>5 DEF HInv, CreateThread
<1>6. CASE StartThread
      BY <1>6 DEF HInv, StartThread, Held, ReceiverRuns, SessionOpen, HasReceived, HasSet
<1>7. CASE CallAborts
      BY <1>7 DEF HInv, CallAborts
<1>8. CASE SendFails
      BY <1>8 DEF HInv, SendFails, Held, ReceiverRuns, SessionOpen, HasReceived, HasSet
<1>9. CASE SendMessage
      BY <1>9 DEF HInv, SendMessage, Held, ReceiverRuns, SessionOpen, HasReceived, HasSet
<1>10. CASE SendReturns
      BY <1>10 DEF HInv, SendReturns, Held, ReceiverRuns, SessionOpen, HasReceived, HasSet
<1>11. CASE CloseClient
      BY <1>11 DEF HInv, CloseClient, Held, ReceiverRuns, SessionOpen, HasReceived, HasSet
<1>12. CASE WaitForThread
      BY <1>12 DEF HInv, WaitForThread, Held, ReceiverRuns, SessionOpen, HasReceived, HasSet
<1>13. CASE CloseThread
      BY <1>13 DEF HInv, CloseThread
<1>14. CASE ReturnHandle
      BY <1>14 DEF HInv, ReturnHandle
<1>15. QED
      BY <1>1, <1>2, <1>3, <1>4, <1>5, <1>6, <1>7, <1>8, <1>9, <1>10, <1>11, <1>12, <1>13, <1>14 DEF CallerNext, CallerGoesOn

\* The steps of the thread that receives: it runs only beside a caller that has
\* started it and not yet seen its end.
LEMMA ReceiverKeeps == HInv /\ ReceiverNext => HInv'
<1> SUFFICES ASSUME HInv, ReceiverNext PROVE HInv'
    OBVIOUS
<1>1. CASE ReceiveAborts
      BY <1>1 DEF HInv, ReceiveAborts, CallerKnows, BothRun, HandleIsReceived
<1>2. ASSUME ~ReceiveAborts
      PROVE  caller \in {"sends", "is sending", "closes the client", "waits"} /\ UNCHANGED caller
      BY <1>2 DEF HInv, CallerKnows, HandleIsReceived, Alone, ReceiverNext, ReceiverGoes, Running, ClearTls,
                  ReplyAndReceive, SetHandle, CloseSession, ExitThread
<1> USE DEF ReceiverGoes, CallerKnows, BothRun, HandleIsReceived, Held, ReceiverRuns, SessionOpen, HasReceived, HasSet
<1>3. CASE ClearTls /\ ~ReceiveAborts
      BY <1>2, <1>3 DEF HInv, ClearTls
<1>4. CASE ReplyAndReceive /\ ~ReceiveAborts
      BY <1>2, <1>4 DEF HInv, ReplyAndReceive
<1>5. CASE SetHandle /\ ~ReceiveAborts
      BY <1>2, <1>5 DEF HInv, SetHandle
<1>6. CASE CloseSession /\ ~ReceiveAborts
      BY <1>2, <1>6 DEF HInv, CloseSession
<1>7. CASE ExitThread /\ ~ReceiveAborts
      BY <1>2, <1>7 DEF HInv, ExitThread
<1>8. QED
      BY <1>1, <1>3, <1>4, <1>5, <1>6, <1>7 DEF ReceiverNext

\* Get returns with a handle of the process, its only new one, and never while
\* the receiver runs on the stack in the frame it leaves, however often it is called.
THEOREM GetHasTheHandle == ProcessHandleSpec => []HandleIsReceived
<1>1. HInv /\ [ProcessHandleNext]_handleVars => HInv'
      BY CallerKeeps, ReceiverKeeps
         DEF ProcessHandleNext, handleVars, HInv, CallerKnows, BothRun, HandleIsReceived, Alone, Held, ReceiverRuns,
             SessionOpen, HasReceived, HasSet
<1>2. HInv => HandleIsReceived
      BY DEF HInv
<1>3. QED
      BY HInvInit, <1>1, <1>2, PTL DEF ProcessHandleSpec
=================================================================================
