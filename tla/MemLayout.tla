------------------------------ MODULE MemLayout -------------------------------
(****************************************************************************)
(* FindModules of util/sys/mem_layout.cpp: one walk over the memory map of    *)
(* the process, in which text, rodata and data blocks in a row are a static   *)
(* module, and the table indexed by ModuleIndex it leaves behind.  A block is *)
(* its kind; its address is its place in the map, from 0.                     *)
(****************************************************************************)
EXTENDS Integers, Sequences, FiniteSets

CONSTANTS
  End,       \* ModuleIndex::End, the entries of the table
  Maps,      \* the memory maps: sequences of "text", "rodata", "data" and "other"
  Begins(_)  \* the blocks of a map at which a module is begun

Start == 0
Sdk == End - 1
None == [start |-> -1, end |-> -1]

\* What a map holds: the places where the three blocks of a module begin.
ModuleStarts(m) ==
  {i \in 1 .. Len(m) - 2 : m[i] = "text" /\ m[i + 1] = "rodata" /\ m[i + 2] = "data"}

\* A module is begun at every text block but the one directly behind a beginning
\* and the one behind a beginning and its rodata: those only show that what was
\* begun is no module.  From the start of a map on there is just one such set.
IsBegins(m, B) ==
  B = {i \in 1 .. Len(m) :
         m[i] = "text" /\ i - 1 \notin B /\ ~(i - 2 \in B /\ m[i - 1] = "rodata")}

\* The map begins and ends with a block that is no module's, and there is a module
\* behind free memory, as rtld is.
ASSUME MapAssumption ==
  /\ End \in Nat /\ End > 3
  /\ Maps \subseteq Seq({"text", "rodata", "data", "other"})
  /\ \A m \in Maps :
       /\ m # <<>> /\ m[1] = "other" /\ m[Len(m)] = "other"
       /\ \E i \in ModuleStarts(m) : m[i - 1] = "other"
       /\ IsBegins(m, Begins(m))

VARIABLES
  map,          \* the memory map
  self,         \* __module_start
  addr, size,   \* meminfo: the last block queried, and one if there was any
  offset,       \* where the last turn of the loop was
  state,        \* of the state machine
  curModInfo,   \* m_Text.m_Start of the module begun
  nextModIdx,
  moduleInfos,  \* m_Total by index, None where moduleBitset is not set
  selfIdx,      \* s_SelfModuleIdx
  phase         \* "scan", "place", "findSelf", "done" or "aborted"

scanVars == <<addr, size, offset, state, curModInfo, nextModIdx>>
vars == <<map, self, scanVars, moduleInfos, selfIdx, phase>>

Init ==
  /\ map \in Maps
  /\ self \in {i - 1 : i \in ModuleStarts(map)}
  /\ addr = 0 /\ size = 0 /\ offset = 0
  /\ state = "text"
  /\ curModInfo = -1
  /\ nextModIdx = Start
  /\ moduleInfos = [i \in Start .. End - 1 |-> None]
  /\ selfIdx = End
  /\ phase = "scan"

-----------------------------------------------------------------------------
(* The loop over the memory map. *)

\* svcQueryMemory of meminfo.addr + meminfo.size, which wraps to zero.
Queried == (addr + size) % Len(map)
Block == map[Queried + 1]

Full == End <= nextModIdx

\* The loop ends with the turn in which the address went back.
Wrapped == Queried < offset

\* A bug: the address alone is queried, not what lies behind the block.
TurnInPlace ==
  /\ phase = "scan"
  /\ ~Full
  /\ addr' = Queried
  /\ size' = 0
  /\ offset' = Queried
  /\ phase' = IF Wrapped THEN "place" ELSE "scan"
  /\ UNCHANGED <<map, self, selfIdx>>

\* What a turn does besides its state: query, and leave when wrapped.
Turn ==
  /\ phase = "scan"
  /\ ~Full
  /\ addr' = Queried
  /\ size' = 1
  /\ offset' = Queried
  /\ phase' = IF Wrapped THEN "place" ELSE "scan"
  /\ UNCHANGED <<map, self, selfIdx>>

TooManyStaticModules ==
  /\ phase = "scan"
  /\ Full
  /\ phase' = "aborted"
  /\ UNCHANGED <<map, self, scanVars, moduleInfos, selfIdx>>

NoModuleHere ==
  /\ Turn
  /\ state = "text" /\ Block # "text"
  /\ UNCHANGED <<state, curModInfo, nextModIdx, moduleInfos>>

TextFound ==
  /\ Turn
  /\ state = "text" /\ Block = "text"
  /\ state' = "rodata"
  /\ curModInfo' = Queried
  /\ UNCHANGED <<nextModIdx, moduleInfos>>

RodataFound ==
  /\ Turn
  /\ state = "rodata" /\ Block = "rodata"
  /\ state' = "data"
  /\ UNCHANGED <<curModInfo, nextModIdx, moduleInfos>>

\* A bug: a text block without its module is kept.
ResetNot ==
  /\ Turn
  /\ state # "text" /\ Block # state
  /\ UNCHANGED <<state, curModInfo, nextModIdx, moduleInfos>>

\* Not a proper module.
Reset ==
  /\ Turn
  /\ state # "text" /\ Block # state
  /\ state' = "text"
  /\ curModInfo' = -1
  /\ UNCHANGED <<nextModIdx, moduleInfos>>

DataFound ==
  /\ Turn
  /\ state = "data" /\ Block = "data"
  /\ moduleInfos' = [moduleInfos EXCEPT
       ![nextModIdx] = [start |-> curModInfo, end |-> Queried + 1]]
  /\ nextModIdx' = nextModIdx + 1
  /\ state' = "text"
  /\ curModInfo' = -1

-----------------------------------------------------------------------------
(* After the loop. *)

\* The last module found moves to the sdk's index, if it is not there already.
PlaceSdk ==
  /\ phase = "place"
  /\ moduleInfos' =
       IF nextModIdx = End
       THEN moduleInfos
       ELSE [moduleInfos EXCEPT ![Sdk] = moduleInfos[nextModIdx - 1],
                                ![nextModIdx - 1] = None]
  /\ phase' = "findSelf"
  /\ UNCHANGED <<map, self, scanVars, selfIdx>>

\* A bug: entries that are not set are not counted.
IndexOfCompacted(i) == Cardinality({j \in Start .. i - 1 : moduleInfos[j] # None})

\* The counter i beside the loop over moduleInfos.
IndexOf(i) == i

IsSelf(i) == moduleInfos[i] # None /\ moduleInfos[i].start = self

FindSelf ==
  /\ phase = "findSelf"
  /\ \E i \in Start .. End - 1 :
       /\ IsSelf(i)
       /\ selfIdx' = IndexOf(i)
  /\ phase' = "done"
  /\ UNCHANGED <<map, self, scanVars, moduleInfos>>

\* The assertion behind the loop is compiled out: the index stays at the end.
SelfNotFound ==
  /\ phase = "findSelf"
  /\ \A i \in Start .. End - 1 : ~IsSelf(i)
  /\ phase' = "done"
  /\ UNCHANGED <<map, self, scanVars, moduleInfos, selfIdx>>

Next ==
  \/ TooManyStaticModules
  \/ NoModuleHere \/ TextFound \/ RodataFound \/ Reset \/ DataFound
  \/ PlaceSdk \/ FindSelf \/ SelfNotFound

\* The program does nothing else meanwhile.
Spec == Init /\ [][Next]_vars /\ WF_vars(Next)

-----------------------------------------------------------------------------
(* Properties. *)

\* The modules that can be found: one that begins with the block that breaks off
\* what was begun before it is lost.
Modules == ModuleStarts(map) \cap Begins(map)

\* They in the order of their addresses.
Nth(k) == CHOOSE i \in Modules : Cardinality({j \in Modules : j < i}) = k

\* When the walk is done the table holds every module of the map that does not lie
\* directly behind the text, or the text and rodata, of an unfinished one, and
\* nothing else: each with its whole range, in address order from rtld's index on,
\* and the last of them at the sdk's.
TableIsTheMap ==
  phase = "done" =>
    LET n == Cardinality(Modules)
        InfoOf(k) == [start |-> Nth(k) - 1, end |-> Nth(k) + 2]
    IN moduleInfos = [i \in Start .. End - 1 |->
                        IF i = Sdk THEN InfoOf(n - 1)
                        ELSE IF i < n - 1 THEN InfoOf(i) ELSE None]

\* The module finds itself, also when it is the one moved to the sdk's index; only
\* when it is one of the lost it has no index.
SelfIsSelf ==
  phase = "done" =>
    IF self + 1 \in Begins(map)
    THEN selfIdx < End /\ moduleInfos[selfIdx].start = self
    ELSE selfIdx = End

\* No more modules than the table has entries are not too many.
NotTooManyAccepted == phase = "aborted" => Cardinality(Modules) > End

\* The walk ends.
Terminates == <>(phase \in {"done", "aborted"})
===============================================================================
