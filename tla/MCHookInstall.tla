----------------------------- MODULE MCHookInstall ----------------------------
(* Four hooks as the program has them, near and far callbacks, odd and even      *)
(* targets, and two more: the pool is cut to five trampolines, as many as there  *)
(* are reservations.  The Jit takes one of them, so the fifth hook finds none,    *)
(* and crashes.  Page 0 is unmapped, pages 1 and 2 are code, page 3 is the Jit's; *)
(* the sizes of a page and a trampoline are real.  What a hook is made of, the    *)
(* pieces its alias is mapped in, the moved words, the caches and the encoding of *)
(* instructions, runs by itself while no hook is installed.                       *)
EXTENDS HookInstall, MCRelocate, MCEncoders, MapRanges, Caches

MCAlias == Slice(5, 6)
MCHeap == Slice(9, 10)
MCAslr == Slice(4, 10)
MCTargets == <<1025, 1041, 2048, 2060, 1057, 2072>>
MCFar == <<TRUE, FALSE, TRUE, FALSE, FALSE, TRUE>>

VARIABLE part \* what runs
allVars == <<vars, relocateVars, encoderVars, rangeVars, cacheVars, part>>

AProgram == CHOOSE p \in MCPrograms : TRUE
ASource == /\ blocks = {0} /\ source = [start |-> 0, length |-> 1] /\ meminfo = [addr |-> 0, size |-> 0]
           /\ alias = {} /\ unmapping = FALSE /\ phase = "turn"

NothingWritten ==
  /\ owner = "patch" /\ range = [start |-> 0, size |-> 1] /\ fields = [d |-> 1, i |-> 1] /\ physical = TRUE
  /\ dirty = {} /\ fetched = {} /\ stale = {} /\ line = 0 /\ step = "write"

MCInit ==
  /\ part \in {"hooks", "words", "encoder", "alias", "caches"}
  /\ Init
  /\ IF part = "words" THEN \E p \in Programs : RelocateInit(p) ELSE RelocateInit(AProgram)
  /\ IF part = "encoder" THEN \E o \in Operations : EncoderInit(o) ELSE EncoderInit(Object("nop"))
  /\ IF part = "alias" THEN MapRangesInit ELSE ASource
  /\ IF part = "caches" THEN CachesInit ELSE NothingWritten

MCNext ==
  /\ UNCHANGED part
  /\ \/ part = "hooks" /\ Next /\ UNCHANGED <<relocateVars, encoderVars, rangeVars, cacheVars>>
     \/ part = "words" /\ RelocateNext /\ UNCHANGED <<vars, encoderVars, rangeVars, cacheVars>>
     \/ part = "encoder" /\ EncoderNext /\ UNCHANGED <<vars, relocateVars, rangeVars, cacheVars>>
     \/ part = "alias" /\ MapRangesNext /\ UNCHANGED <<vars, relocateVars, encoderVars, cacheVars>>
     \/ part = "caches" /\ CachesNext /\ UNCHANGED <<vars, relocateVars, encoderVars, rangeVars>>

MCSpec == MCInit /\ [][MCNext]_allVars
===============================================================================
