--------------------------- MODULE MergedDirectory ----------------------------
(****************************************************************************)
(* MergedDirectory of program/accessor.hpp behind IDirectory and             *)
(* DirectoryAccessor: one directory object over two directory handles, the   *)
(* mod's first.  The mod's entries are numbered 1 .. ModCount and the romfs' *)
(* follow them, so an entry is its place in the merged directory; nothing is *)
(* de-duplicated.  One caller uses the object at a time.                     *)
(****************************************************************************)
EXTENDS Integers

CONSTANTS
  ModCount, RomfsCount,  \* entries behind mHandle1 and mHandle2
  MaxRead                \* bound: the largest max_entries asked for

ASSUME CountAssumption ==
  ModCount \in Nat /\ RomfsCount \in Nat /\ MaxRead \in Nat \ {0}

VARIABLES
  pos1, pos2,    \* how far the two handles have been read
  open1, open2,  \* the handles are open
  given,         \* out_entries[1 .. *out_count] after a read, empty after an error
  count,         \* *out of GetEntryCount, -1 before the first
  res,           \* what the last call returned
  delivered,     \* history: the entries the caller was ever given
  failed         \* history: a handle failed in the middle of a call

handleVars == <<pos1, pos2, open1, open2>>
vars == <<handleVars, given, count, res, delivered, failed>>

Total == ModCount + RomfsCount
None == <<>>

Init ==
  /\ pos1 = 0 /\ pos2 = 0
  /\ open1 = TRUE /\ open2 = TRUE
  /\ given = None
  /\ count = -1
  /\ res = "ok"
  /\ delivered = {}
  /\ failed = FALSE

Give(entries) ==
  /\ given' = entries
  /\ delivered' = delivered \cup {entries[i] : i \in DOMAIN entries}

\* IDirectory::Read, when it returns without calling DoRead: a null pointer,
\* a max_entries of zero, which is a success with no entry, or a negative one.
ReadRefused(r) ==
  /\ open1 /\ open2
  /\ given' = None
  /\ res' = r
  /\ UNCHANGED <<handleVars, count, delivered, failed>>

-----------------------------------------------------------------------------
(* MergedDirectory::DoRead. *)

\* nn::fs::ReadDirectory: as many entries as are left and fit.
ReadDirectory(left, room) == IF left < room THEN left ELSE room

\* The room is not reduced by what was read.
RestUnreduced(n, remaining) == remaining

\* remaining after a read of n entries, as the code computes it.
Rest(n, remaining) == IF n >= remaining THEN 0 ELSE remaining - n

\* The second read at the start of the buffer, over the first's entries.
SlotOverwritten(i, count1) == ModCount + pos2 + i

\* The entry in slot i of the caller's buffer: the mod's first, then, from
\* entries + count1 on, the romfs'.
Slot(i, count1) == IF i <= count1 THEN pos1 + i ELSE ModCount + pos2 + (i - count1)

DoRead(max) ==
  LET count1 == ReadDirectory(ModCount - pos1, max)
      remaining == Rest(count1, max)
      count2 == IF remaining <= 0 THEN 0 ELSE ReadDirectory(RomfsCount - pos2, remaining)
      out == IF remaining <= 0 THEN max ELSE max - Rest(count2, remaining)
  IN /\ open1 /\ open2
     /\ pos1' = pos1 + count1
     /\ pos2' = pos2 + count2
     /\ Give([i \in 1 .. out |-> Slot(i, count1)])
     /\ res' = "ok"
     /\ UNCHANGED <<open1, open2, count, failed>>

\* The first ReadDirectory fails: nothing has happened yet.
DoReadFails1 ==
  /\ open1 /\ open2
  /\ given' = None
  /\ res' = "error"
  /\ failed' = TRUE
  /\ UNCHANGED <<handleVars, count, delivered>>

\* The second fails when the first has delivered: the caller sees the error
\* and no count, and the handle of the mod has moved on.
DoReadFails2(max) ==
  LET count1 == ReadDirectory(ModCount - pos1, max)
  IN /\ open1 /\ open2
     /\ Rest(count1, max) > 0
     /\ pos1' = pos1 + count1
     /\ given' = None
     /\ res' = "error"
     /\ failed' = TRUE
     /\ UNCHANGED <<pos2, open1, open2, count, delivered>>

-----------------------------------------------------------------------------
(* GetEntryCount and the destructor. *)

DoGetEntryCount ==
  /\ open1 /\ open2
  /\ count' = ModCount + RomfsCount
  /\ res' = "ok"
  /\ UNCHANGED <<handleVars, given, delivered, failed>>

GetEntryCountFails ==
  /\ open1 /\ open2
  /\ res' \in {"error", "nullptr"}
  /\ UNCHANGED <<handleVars, given, count, delivered, failed>>

Destroy ==
  /\ open1 /\ open2
  /\ open1' = FALSE
  /\ open2' = FALSE
  /\ UNCHANGED <<pos1, pos2, given, count, res, delivered, failed>>

Next ==
  \/ \E r \in {"nullptr", "ok", "invalid"} : ReadRefused(r)
  \/ \E max \in 1 .. MaxRead : DoRead(max) \/ DoReadFails2(max)
  \/ DoReadFails1
  \/ DoGetEntryCount \/ GetEntryCountFails
  \/ Destroy

Spec == Init /\ [][Next]_vars

-----------------------------------------------------------------------------
(* Properties. *)

TypeOK ==
  /\ pos1 \in 0 .. ModCount
  /\ pos2 \in 0 .. RomfsCount
  /\ open1 \in BOOLEAN /\ open2 \in BOOLEAN
  /\ DOMAIN given \subseteq 1 .. MaxRead
  /\ count \in {-1, Total}
  /\ res \in {"ok", "error", "nullptr", "invalid"}
  /\ delivered \subseteq 1 .. Total
  /\ failed \in BOOLEAN

\* The romfs handle is read only when the mod's is at its end, so the two
\* positions are one position in the merged directory.
ModFirst == pos2 > 0 => pos1 = ModCount

\* As long as no handle has failed, the caller has been given each entry of
\* both directories up to the position and no slot it did not get was counted:
\* out_count is exact at every boundary between the two directories.
LossOnlyByError == ~failed => delivered = 1 .. pos1 + pos2

\* The merged object behaves as one directory handle: entries in order, none
\* twice, none missing, a short read only at the end; an error can lose only
\* entries of the mod.
Abs == INSTANCE DirStream WITH
         next <- pos1 + pos2, Skippable <- ModCount
AbsSpec == Abs!Spec
===============================================================================
