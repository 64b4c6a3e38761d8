------------------------------- MODULE StackWalk -------------------------------
(****************************************************************************)
(* The walk over the frames of a stack, util/stack_trace.hpp.  A word has     *)
(* WordSize bytes.  What a frame holds is only known when it is read.         *)
(****************************************************************************)
EXTENDS Naturals

CONSTANTS
  WordSize, \* bytes of a word
  Stack,    \* [start, end] of the stack
  Pointers  \* what a frame pointer can be: null, unaligned, on the stack or not

ASSUME StackWalkAssumption == WordSize \in Nat \ {0} /\ Pointers \subseteq Nat

VARIABLES
  mFp, mLr, mPrevFp, \* m_Fp, m_Lr ("none", "aligned" or "unaligned") and m_PrevFp
  readable,          \* where IsValidPointer of the derived iterator says yes
  walking            \* Walk has not left its loop

stackVars == <<mFp, mLr, mPrevFp, readable, walking>>

StackWalkInit(pointers) ==
  /\ mFp \in Pointers
  /\ mLr = "none" /\ mPrevFp = 0
  /\ readable = pointers
  /\ walking = TRUE

\* A bug: a frame may be its own caller.
IsValidTwice ==
  /\ mFp # 0 /\ mFp % WordSize = 0
  /\ Stack.start <= mFp /\ mFp < Stack.end
  /\ mFp >= mPrevFp

IsValid ==
  /\ mFp # 0 /\ mFp % WordSize = 0
  /\ Stack.start <= mFp /\ mFp < Stack.end
  /\ mFp > mPrevFp

\* IsValidLrImpl: what is kept of the return address that was read.
KeptLr(lr) == IF lr = "aligned" THEN lr ELSE "none"

\* One turn of Walk: it does not look at what Step says.
StepFrame ==
  /\ walking /\ IsValid
  /\ mFp \in readable
  /\ mPrevFp' = mFp
  /\ \E fp \in Pointers, lr \in {"none", "aligned", "unaligned"} : mFp' = fp /\ mLr' = KeptLr(lr)
  /\ UNCHANGED <<readable, walking>>

StepRefused ==
  /\ walking /\ IsValid
  /\ mFp \notin readable
  /\ UNCHANGED stackVars

LeaveWalk ==
  /\ walking /\ ~IsValid
  /\ walking' = FALSE
  /\ UNCHANGED <<mFp, mLr, mPrevFp, readable>>

StackWalkNext == StepFrame \/ StepRefused \/ LeaveWalk
StackWalkSpec ==
  /\ \E pointers \in SUBSET Pointers : StackWalkInit(pointers)
  /\ [][StackWalkNext]_stackVars /\ WF_stackVars(StackWalkNext)

\* Whatever frames hold, loops and wild pointers included, the walk ends,
\* except at a frame pointer IsValidPointer refuses: Step then changes nothing
\* and Walk calls its delegate with the same frame for ever.
WalkEnds == walking ~> (~walking \/ (IsValid /\ mFp \notin readable))
===============================================================================
