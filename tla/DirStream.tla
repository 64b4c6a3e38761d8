------------------------------ MODULE DirStream -------------------------------
(****************************************************************************)
(* What the game is promised of a directory handle: its Total entries are    *)
(* given out in order, as many at a time as are asked for and left.  A read  *)
(* that fails gives nothing, and may skip entries up to number Skippable.    *)
(****************************************************************************)
EXTENDS Integers

CONSTANTS Total, Skippable, MaxRead

VARIABLES
  next,   \* entries given out or skipped so far
  given,  \* the entries the last successful read put in the caller's buffer
  count   \* the last entry count reported, -1 before the first

streamVars == <<next, given, count>>

Init == next = 0 /\ given = <<>> /\ count = -1

AtMost(n, left) == IF n < left THEN n ELSE left

Read(n) ==
  LET got == AtMost(n, Total - next)
  IN /\ given' = [i \in 1 .. got |-> next + i]
     /\ next' = next + got
     /\ UNCHANGED count

ReadFails ==
  /\ given' = <<>>
  /\ next' >= next
  /\ next' # next => next' <= Skippable
  /\ UNCHANGED count

Count == count' = Total /\ UNCHANGED <<next, given>>

Next == (\E n \in 0 .. MaxRead : Read(n)) \/ ReadFails \/ Count

Spec == Init /\ [][Next]_streamVars
===============================================================================
