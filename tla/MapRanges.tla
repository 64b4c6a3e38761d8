------------------------------- MODULE MapRanges -------------------------------
(****************************************************************************)
(* ForEachMemRange of util/sys/rw_pages.cpp, as RwPages uses it: the pages    *)
(* behind an alias are mapped, and unmapped again, one memory block at a      *)
(* time.  Addresses count pages.                                              *)
(****************************************************************************)
EXTENDS Integers, FiniteSets, FiniteSetsExt

CONSTANTS Space, MaxLength \* pages of the address space, bound of an alias's length
ASSUME MapRangesAssumption == Space \in Nat \ {0} /\ MaxLength \in Nat

VARIABLES
  blocks,    \* where the memory blocks of the process begin
  source,    \* GetAlignedRo and GetAlignedSize: [start, length]
  meminfo,   \* the block that was queried last: [addr, size]
  alias,     \* the pages of the alias: <<offset, page behind it>>
  unmapping, \* the alias is being unmapped
  phase      \* "turn", "ended" or "aborted"

rangeVars == <<blocks, source, meminfo, alias, unmapping, phase>>

MapRangesInit ==
  /\ \E b \in SUBSET (1 .. Space - 1) : blocks = b \cup {0}
  /\ source \in {s \in [start : 0 .. Space - 1, length : 1 .. MaxLength] : s.start + s.length <= Space}
  /\ meminfo = [addr |-> source.start, size |-> 0]
  /\ alias = {}
  /\ unmapping = FALSE
  /\ phase = "turn"

Smaller(a, b) == IF a < b THEN a ELSE b
Larger(a, b) == IF a < b THEN b ELSE a

\* svcQueryMemory: the block around an address.
BlockAt(page) ==
  LET start == Max({b \in blocks : b <= page})
      behind == {b \in blocks : b > page}
  IN [addr |-> start, size |-> (IF behind = {} THEN Space ELSE Min(behind)) - start]

SourceEnd == source.start + source.length

\* A bug: what the last block has beyond the source is mapped as well.
PiecesToTheEnd(m) ==
  LET offset == Larger(m.addr, source.start) - source.start
      length == m.addr + m.size - (source.start + offset)
  IN {<<offset + i, source.start + offset + i>> : i \in 0 .. length - 1}

\* What a turn hands to its callback.
Pieces(m) ==
  LET offset == Larger(m.addr, source.start) - source.start
      length == Smaller(SourceEnd, m.addr + m.size) - (source.start + offset)
  IN {<<offset + i, source.start + offset + i>> : i \in 0 .. length - 1}

\* One turn: query, and map or unmap; what is mapped already, or not mapped,
\* is refused by the kernel.
MapTurn ==
  LET m == BlockAt(meminfo.addr + meminfo.size)
      pieces == Pieces(m)
      refused == IF unmapping THEN pieces \ alias # {}
                 ELSE \E p \in pieces, a \in alias : p[1] = a[1]
  IN /\ phase = "turn"
     /\ meminfo' = m
     /\ IF refused THEN phase' = "aborted" /\ UNCHANGED alias
        ELSE /\ alias' = IF unmapping THEN alias \ pieces ELSE alias \cup pieces
             /\ phase' = IF m.addr + m.size < SourceEnd THEN "turn" ELSE "ended"
     /\ UNCHANGED <<blocks, source, unmapping>>

\* Any piece may be refused for want of resources.
TurnAborts ==
  /\ phase = "turn" /\ phase' = "aborted"
  /\ UNCHANGED <<blocks, source, meminfo, alias, unmapping>>

\* The destructor, after the blocks of the process were split or joined.
BeginUnmapping ==
  /\ phase = "ended" /\ ~unmapping
  /\ \E b \in SUBSET (1 .. Space - 1) : blocks' = b \cup {0}
  /\ meminfo' = [addr |-> source.start, size |-> 0]
  /\ unmapping' = TRUE
  /\ phase' = "turn"
  /\ UNCHANGED <<source, alias>>

MapRangesNext == MapTurn \/ TurnAborts \/ BeginUnmapping
MapRangesSpec == MapRangesInit /\ [][MapRangesNext]_rangeVars

\* However the source is cut into blocks, and however they changed before the
\* alias goes: an alias that is complete shows each page of the source at its
\* place and nothing else, and of one that was unmapped no page is left.
AliasIsTheSource ==
  phase = "ended" => alias = IF unmapping THEN {} ELSE {<<i, source.start + i>> : i \in 0 .. source.length - 1}
===============================================================================
