------------------------------- MODULE MCRuntime ------------------------------
(* What the program's own code has below it, one part at a time: the search for *)
(* its modules in every memory map of MCMemLayout; the regions of the address    *)
(* space, with any question refused; the handle of its process, asked for twice; *)
(* each system call stub; and the walk over a stack of four words, from frame    *)
(* pointers on it, unaligned in it, below and behind it.                         *)
EXTENDS MCMemLayout, Regions, ProcessHandle, SvcStubs, StackWalk

MCRegions ==
  [alias |-> [start |-> 3, size |-> 4], heap |-> [start |-> 10, size |-> 2],
   aslr |-> [start |-> 2, size |-> 5000], stack |-> [start |-> 20, size |-> 7]]
MCStack == [start |-> 8, end |-> 40]
MCPointers == {0, 3, 4, 8, 12, 16, 24, 32, 40}

VARIABLE part \* what runs
allVars == <<vars, regionVars, handleVars, svcVars, stackVars, part>>

\* The layout of three modules, the first of them the program, as it was found.
LayoutIsFound ==
  /\ map = <<"other">> \o Module \o Module \o Module \o <<"other">>
  /\ self = 1
  /\ addr = 0 /\ size = 1 /\ offset = 0
  /\ state = "text" /\ curModInfo = -1 /\ nextModIdx = 3
  /\ moduleInfos = [i \in Start .. End - 1 |->
                      IF i < 2 THEN [start |-> 1 + 3 * i, end |-> 4 + 3 * i]
                      ELSE IF i = Sdk THEN [start |-> 7, end |-> 10] ELSE None]
  /\ selfIdx = 0
  /\ phase = "done"

NothingAsked ==
  /\ known = {} /\ probe = "other" /\ asked = 1 /\ setup = "layout"
  /\ layout = [r \in RegionNames |-> Unset] /\ g = [r \in RegionNames |-> MemRegion(Unset)]

NothingWalked == mFp = 0 /\ mLr = "none" /\ mPrevFp = 0 /\ readable = {} /\ walking = FALSE

MCInit ==
  /\ part \in {"layout", "regions", "handle", "call", "stack"}
  /\ IF part = "layout" THEN Init ELSE LayoutIsFound
  /\ IF part = "regions" THEN RegionsInit ELSE NothingAsked
  /\ ProcessHandleInit
  /\ IF part = "call" THEN \E name \in DOMAIN Prototypes : SvcInit(name) ELSE SvcInit("svcExitProcess")
  /\ IF part = "stack" THEN \E pointers \in SUBSET Pointers : StackWalkInit(pointers) ELSE NothingWalked

LayoutRuns == part = "layout" /\ Next /\ UNCHANGED <<regionVars, handleVars, svcVars, stackVars, part>>
RegionsRun == part = "regions" /\ RegionsNext /\ UNCHANGED <<vars, handleVars, svcVars, stackVars, part>>
CallerRuns == part = "handle" /\ CallerNext /\ UNCHANGED <<vars, regionVars, svcVars, stackVars, part>>
CallGoesOn == part = "handle" /\ CallerGoesOn /\ UNCHANGED <<vars, regionVars, svcVars, stackVars, part>>
ReceiverRuns == part = "handle" /\ ReceiverNext /\ UNCHANGED <<vars, regionVars, svcVars, stackVars, part>>
CallRuns == part = "call" /\ SvcNext /\ UNCHANGED <<vars, regionVars, handleVars, stackVars, part>>
StackRuns == part = "stack" /\ StackWalkNext /\ UNCHANGED <<vars, regionVars, handleVars, svcVars, part>>

MCNext == LayoutRuns \/ RegionsRun \/ CallerRuns \/ ReceiverRuns \/ CallRuns \/ StackRuns

\* Each part's own fairness; a frame that is refused for ever changes nothing.
MCSpec ==
  /\ MCInit /\ [][MCNext]_allVars
  /\ WF_allVars(LayoutRuns) /\ WF_allVars(CallGoesOn) /\ WF_allVars(ReceiverRuns) /\ WF_allVars(StackRuns)
===============================================================================
