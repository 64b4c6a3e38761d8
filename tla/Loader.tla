------------------------------- MODULE Loader --------------------------------
(****************************************************************************)
(* program/loader.cpp: the start-up of the module, the three file-system    *)
(* hooks the game's threads run, and the thread that indexes the mod        *)
(* directory on the SD card, while the card's contents change under them.   *)
(*                                                                          *)
(* A path is a node of a tree of Files and Dirs below Root; the same node   *)
(* names an entry of the mod directory and the entry of the game's romfs it *)
(* overrides.  The path filter is the set of its bits that are set; setting *)
(* a key's bits and testing them are single steps here because gFilterLock  *)
(* makes them so (PathFilter shows it); taking and releasing the lock are   *)
(* steps of their own.  Every path is assumed to fit JoinPath's buffer      *)
(* (PathOps treats the others).                                             *)
(****************************************************************************)
EXTENDS Integers, Sequences, FiniteSets

CONSTANTS
  Files, Dirs, Root,  \* the tree of relative paths; Root is the empty one
  Parent,             \* Parent[n]: the folder of node n
  None,               \* no node, no call, no result
  Shorts,             \* paths that end inside the mount name they begin with
  Garbage,            \* what is read past a path's end or from its middle and
                      \* is no key of the mod
  BitsOf(_),           \* the filter bits of a key, any function at all
  Mounts,             \* names a romfs may be mounted under
  content,            \* the mount name assumed before any MountRom
  MountLen,           \* MountLen[m]: strlen(m)
  Begins,             \* pairs <<p, m>> of names of which p is the beginning of m
  Content,            \* Content[m]: the nodes of the romfs mounted as m
  Threads,            \* the game's threads
  Ops,                \* the calls the game makes
  MaxChanges,         \* bound: additions to and removals from the SD card
  MaxFaults           \* bound: file-system calls that fail though they could succeed

Nodes == Files \cup Dirs
Folders == Dirs \cup {Root}

\* What a call returns: a handle or file of one side, both sides merged, an
\* accessor that is null or has nothing behind it, the original's error, or that
\* of FindFileSystem.
Results == {"mod", "romfs", "merged", "null", "hollow", "fail", "noSystem"}

AllOps == {"OpenFile", "OpenDirectory", "OpenDirectoryNull"}

\* The key of directory d with a '/' after it, built from an empty entry name.
Slash(d) == <<d, "/">>

Keys == Nodes \cup {Slash(d) : d \in Folders} \cup {Garbage}

\* In a tree no set of nodes holds the folder of each of its members.
ASSUME LoaderAssumption ==
  /\ Files \cap Dirs = {}
  /\ IsFiniteSet(Nodes)
  /\ Root \notin Nodes
  /\ None \notin Nodes \cup {Root} \cup Ops \cup Results
  /\ Garbage \notin Nodes \cup {Root, None}
  /\ Shorts \cap (Nodes \cup {Root, None}) = {}
  /\ \A d \in Folders : Slash(d) \notin Nodes \cup {Root, None, Garbage}
  /\ Parent \in [Nodes -> Folders]
  /\ \A S \in SUBSET Nodes : (\A n \in S : Parent[n] \in S) => S = {}
  /\ content \in Mounts
  /\ None \notin Mounts
  /\ MountLen \in [Mounts -> Nat]
  /\ Content \in [Mounts -> SUBSET (Nodes \cup {Root})]
  /\ Begins \subseteq Mounts \X Mounts
  /\ Ops \subseteq AllOps
  /\ MaxChanges \in Nat
  /\ MaxFaults \in Nat

VARIABLES
  phase,        \* where the main thread is in InitializeLoader
  hooked,       \* the functions whose trampoline is installed
  stack,        \* the activations of ProcessDirectoryRecursive, innermost last
  walkHandles,  \* directory handles the walk holds
  mFilter,      \* the bits of gPathFilter that are set
  mountPoint,   \* sContentMountPoint
  mountLen,     \* sContentMountPointLength
  pc,           \* pc[t]: where game thread t is in a hook
  req,          \* req[t]: the call it is in
  key,          \* key[t]: rawPath
  handles,      \* handles[t]: directory handles opened for t's call or its result
  lost,         \* history: lost[t]: handles of t's calls nobody can close any more
  outOfMemory,  \* history: outOfMemory[t]: t's calls that ran out of memory
  ret,          \* ret[t]: what the call returned
  mod,          \* the SD card: the nodes of the mod directory, Root if it exists
  mounted,      \* the mount names registered with the file system
  changes, faults,           \* how much of the two bounds is used
  indexed,      \* history: keys whose add has returned
  kept, dirty,  \* history: nodes there since the walk began; it was disturbed
  removed,      \* history: removals from the card since the walk began
  sure,         \* history: t's call must be served from the mod
  hurt          \* history: a fault hit t's call

loaderVars == <<phase, hooked>>
walkVars == <<stack, walkHandles, mFilter, indexed>>
mountVars == <<mountPoint, mountLen, mounted>>
callVars == <<pc, req, key, handles, ret, lost, outOfMemory>>
cardVars == <<mod, changes>>
sinceVars == <<kept, dirty, removed>>
vars == <<loaderVars, walkVars, mountVars, callVars, cardVars, faults, sinceVars, sure, hurt>>

NoReq == [op |-> None, mount |-> None, node |-> None]

Paths == Nodes \cup {Root} \cup Shorts

Request == [op : Ops, mount : Mounts, node : Paths]

Children(d) == {n \in Nodes : n \in mod /\ Parent[n] = d}

NewFrame(d) == [dir |-> d, pc |-> "open", left |-> 0, seen |-> {}, entry |-> None]

\* A lookup that keeps a directory's trailing '/'.
InFilterSlashed(k) == k # Root /\ BitsOf(IF k \in Dirs THEN Slash(k) ELSE k) \subseteq mFilter

InFilter(k) == k # Root /\ BitsOf(k) \subseteq mFilter

\* gFilterLock is held by std::scoped_lock and std::shared_lock objects, so by
\* whoever is inside their blocks.
Readers == {t \in Threads : pc[t] = "contains"}
Writing == \E i \in DOMAIN stack : stack[i].pc = "locked"

Init ==
  /\ phase = "mount"
  /\ hooked = {}
  /\ stack = <<>>
  /\ walkHandles = 0
  /\ mFilter = {}
  /\ mountPoint = content
  /\ mountLen = MountLen[content]
  /\ pc = [t \in Threads |-> "idle"]
  /\ req = [t \in Threads |-> NoReq]
  /\ key = [t \in Threads |-> None]
  /\ handles = [t \in Threads |-> {}]
  /\ ret = [t \in Threads |-> None]
  /\ lost = [t \in Threads |-> 0]
  /\ outOfMemory = [t \in Threads |-> 0]
  /\ mod \in SUBSET (Nodes \cup {Root})
  /\ \A n \in mod \cap Nodes : Parent[n] \in mod
  /\ mounted = {}
  /\ changes = 0
  /\ faults = 0
  /\ indexed = {}
  /\ kept = {}
  /\ dirty = FALSE
  /\ removed = 0
  /\ sure = [t \in Threads |-> FALSE]
  /\ hurt = [t \in Threads |-> FALSE]

-----------------------------------------------------------------------------
(* InitializeLoader, on the main thread, before the game's own main runs. *)

StartWalk ==
  /\ stack' = <<NewFrame(Root)>>
  /\ kept' = mod
  /\ dirty' = FALSE
  /\ removed' = 0

\* MountSdCard fails for another reason than being mounted already: no hooks.
MountSdCardFails ==
  /\ phase = "mount"
  /\ faults < MaxFaults
  /\ faults' = faults + 1
  /\ phase' = "run"
  /\ UNCHANGED <<hooked, walkVars, mountVars, callVars, cardVars, sinceVars, sure, hurt>>

MountSdCard ==
  /\ phase = "mount"
  /\ phase' = "hookMountRom"
  /\ UNCHANGED <<hooked, walkVars, mountVars, callVars, cardVars, faults, sinceVars, sure, hurt>>

InstallMountRom ==
  /\ phase = "hookMountRom"
  /\ phase' = "hookOpenFile"
  /\ hooked' = hooked \cup {"MountRom"}
  /\ UNCHANGED <<walkVars, mountVars, callVars, cardVars, faults, sinceVars, sure, hurt>>

InstallOpenFile ==
  /\ phase = "hookOpenFile"
  /\ phase' = "hookOpenDirectory"
  /\ hooked' = hooked \cup {"OpenFile"}
  /\ UNCHANGED <<walkVars, mountVars, callVars, cardVars, faults, sinceVars, sure, hurt>>

InstallOpenDirectory ==
  /\ phase = "hookOpenDirectory"
  /\ phase' = "index"
  /\ hooked' = hooked \cup {"OpenDirectory"}
  /\ UNCHANGED <<walkVars, mountVars, callVars, cardVars, faults, sinceVars, sure, hurt>>

\* The call of ProcessDirectoryRecursive before the indexer thread exists.
Index ==
  /\ phase = "index"
  /\ phase' = "indexing"
  /\ StartWalk
  /\ UNCHANGED <<hooked, walkHandles, mFilter, indexed, mountVars, callVars, cardVars, faults, sure, hurt>>

\* The first walk is over: start the indexer thread and go on to the game.
InitDone ==
  /\ phase = "indexing"
  /\ stack = <<>>
  /\ phase' = "run"
  /\ UNCHANGED <<hooked, walkVars, mountVars, callVars, cardVars, faults, sinceVars, sure, hurt>>

\* No indexer thread: the mod is indexed during start-up only.
WakeNever == phase = "never" /\ UNCHANGED vars

\* ThreadMain enters its loop, or wakes from its sleep.
Wake ==
  /\ phase = "run"
  /\ hooked # {}
  /\ stack = <<>>
  /\ StartWalk
  /\ UNCHANGED <<loaderVars, walkHandles, mFilter, indexed, mountVars, callVars, cardVars, faults, sure, hurt>>

-----------------------------------------------------------------------------
(* ProcessDirectoryRecursive, on the main thread first and then on the       *)
(* indexer.  It opens through OpenDirectory::Orig, past the hook.            *)

Top == stack[Len(stack)]
At(p) == stack # <<>> /\ Top.pc = p
SetTop(f) == [stack EXCEPT ![Len(stack)] = f]
Return == stack' = SubSeq(stack, 1, Len(stack) - 1)

walkFrame == <<loaderVars, mountVars, callVars, cardVars, kept, removed, sure, hurt>>

WalkFault ==
  /\ faults < MaxFaults
  /\ faults' = faults + 1
  /\ dirty' = TRUE

WalkOpen ==
  /\ At("open")
  /\ Top.dir \in mod
  /\ stack' = SetTop([Top EXCEPT !.pc = "count"])
  /\ walkHandles' = walkHandles + 1
  /\ UNCHANGED <<walkFrame, mFilter, indexed, faults, dirty>>

WalkOpenFails ==
  /\ At("open")
  /\ IF Top.dir \in mod THEN WalkFault ELSE UNCHANGED <<faults, dirty>>
  /\ Return
  /\ UNCHANGED <<walkFrame, walkHandles, mFilter, indexed>>

\* A loop that runs once too often.
WalkCountOneMore ==
  /\ At("count")
  /\ stack' = SetTop([Top EXCEPT !.pc = "read", !.left = Cardinality(Children(Top.dir)) + 1])
  /\ UNCHANGED <<walkFrame, walkHandles, mFilter, indexed, faults, dirty>>

WalkCount ==
  /\ At("count")
  /\ stack' = SetTop([Top EXCEPT !.pc = "read", !.left = Cardinality(Children(Top.dir))])
  /\ UNCHANGED <<walkFrame, walkHandles, mFilter, indexed, faults, dirty>>

\* An early return that forgets the handle.
WalkCountFailsLeaking ==
  /\ At("count")
  /\ WalkFault
  /\ Return
  /\ UNCHANGED <<walkFrame, walkHandles, mFilter, indexed>>

WalkCountFails ==
  /\ At("count")
  /\ WalkFault
  /\ Return
  /\ walkHandles' = walkHandles - 1
  /\ UNCHANGED <<walkFrame, mFilter, indexed>>

\* One round of the loop up to the recursive call: ReadDirectory delivers an
\* entry it has not delivered yet, in the card's own order.
WalkRead ==
  /\ At("read")
  /\ Top.left > 0
  /\ \E e \in Children(Top.dir) \ Top.seen :
       LET here == SetTop([Top EXCEPT !.pc = "add", !.left = @ - 1,
                                      !.seen = @ \cup {e}, !.entry = e])
       IN stack' = IF e \in Dirs THEN Append(here, NewFrame(e)) ELSE here
  /\ UNCHANGED <<walkFrame, walkHandles, mFilter, indexed, faults, dirty>>

\* The directory shrank after it was counted: ReadDirectory succeeds with no
\* entry, readCount is not looked at, and the zeroed entry is a directory
\* without a name, which is this directory once more.
WalkReadNothing ==
  /\ At("read")
  /\ Top.left > 0
  /\ Children(Top.dir) \subseteq Top.seen
  /\ stack' = Append(SetTop([Top EXCEPT !.pc = "add", !.left = @ - 1, !.entry = None]),
                     NewFrame(Top.dir))
  /\ UNCHANGED <<walkFrame, walkHandles, mFilter, indexed, faults, dirty>>

WalkReadFails ==
  /\ At("read")
  /\ Top.left > 0
  /\ WalkFault
  /\ stack' = SetTop([Top EXCEPT !.left = @ - 1])
  /\ UNCHANGED <<walkFrame, walkHandles, mFilter, indexed>>

\* A directory's key with the '/' it is opened with.
EntryKeySlashed(f) == IF f.entry \in Dirs THEN Slash(f.entry) ELSE f.entry

\* The key of the round's entry: of the one without a name, this directory's with
\* a '/' after it.
EntryKey(f) == IF f.entry # None THEN f.entry ELSE Slash(f.dir)

\* The rest of the round, after the recursive call if there was one: nothing for
\* the root without a name, else the key is added under the lock.
WalkSkip ==
  /\ At("add")
  /\ Top.entry = None /\ Top.dir = Root
  /\ stack' = SetTop([Top EXCEPT !.pc = "read"])
  /\ UNCHANGED <<walkFrame, walkHandles, mFilter, indexed, faults, dirty>>

WalkLock ==
  /\ At("add")
  /\ ~(Top.entry = None /\ Top.dir = Root)
  /\ Readers = {} /\ ~Writing
  /\ stack' = SetTop([Top EXCEPT !.pc = "locked"])
  /\ UNCHANGED <<walkFrame, walkHandles, mFilter, indexed, faults, dirty>>

WalkAdd ==
  /\ At("locked")
  /\ stack' = SetTop([Top EXCEPT !.pc = "read", !.entry = None])
  /\ mFilter' = mFilter \cup BitsOf(EntryKey(Top))
  /\ indexed' = indexed \cup {EntryKey(Top)}
  /\ UNCHANGED <<walkFrame, walkHandles, faults, dirty>>

WalkClose ==
  /\ At("read")
  /\ Top.left = 0
  /\ Return
  /\ walkHandles' = walkHandles - 1
  /\ UNCHANGED <<walkFrame, mFilter, indexed, faults, dirty>>

WalkStep ==
  \/ WalkOpen \/ WalkOpenFails \/ WalkCount \/ WalkCountFails
  \/ WalkRead \/ WalkReadNothing \/ WalkReadFails
  \/ WalkSkip \/ WalkLock \/ WalkAdd \/ WalkClose

-----------------------------------------------------------------------------
(* MountRom, on any game thread. *)

hookFrame == <<loaderVars, walkVars, cardVars, sinceVars>>
historyFrame == <<lost, outOfMemory>>

\* The original succeeds; without the hook that is all there is.
CallMountRom(t, m) ==
  /\ phase = "run"
  /\ pc[t] = "idle"
  /\ m \notin mounted
  /\ mounted' = mounted \cup {m}
  /\ IF "MountRom" \in hooked
     THEN /\ pc' = [pc EXCEPT ![t] = "setPoint"]
          /\ req' = [req EXCEPT ![t] = [NoReq EXCEPT !.mount = m]]
     ELSE UNCHANGED <<pc, req>>
  /\ UNCHANGED <<hookFrame, historyFrame, mountPoint, mountLen, key, handles, ret, faults, sure, hurt>>

\* A new mount point: no call in flight can be sure of the old one.
SetMountPoint(t) ==
  /\ pc[t] = "setPoint"
  /\ mountPoint' = req[t].mount
  /\ pc' = [pc EXCEPT ![t] = "setLength"]
  /\ sure' = [u \in Threads |-> sure[u] /\ mountPoint' = mountPoint]
  /\ UNCHANGED <<hookFrame, historyFrame, mountLen, mounted, req, key, handles, ret, faults, hurt>>

\* strlen of the name just stored: of the thread's own argument, or of what the
\* variable holds by now.  Of two threads that mount at once the name of one may
\* stay with the length of the other.
SetMountLength(t) ==
  /\ pc[t] = "setLength"
  /\ mountLen' \in {MountLen[mountPoint], MountLen[req[t].mount]}
  /\ pc' = [pc EXCEPT ![t] = "idle"]
  /\ req' = [req EXCEPT ![t] = NoReq]
  /\ sure' = [u \in Threads |-> sure[u] /\ mountLen' = mountLen]
  /\ UNCHANGED <<hookFrame, historyFrame, mountPoint, mounted, key, handles, ret, faults, hurt>>

-----------------------------------------------------------------------------
(* OpenFile and OpenDirectory, on any game thread. *)

HookOf(o) == IF o = "OpenFile" THEN "OpenFile" ELSE "OpenDirectory"

\* What a call can open: a file, or a directory.
Reach(o) == IF o = "OpenFile" THEN Files ELSE Folders

\* CheckPrefix(path, sContentMountPoint) for the path of n on mount m: it compares
\* until either string ends.
PrefixPasses(m, n) ==
  \/ m = mountPoint
  \/ <<mountPoint, m>> \in Begins
  \/ n \in Shorts /\ <<m, mountPoint>> \in Begins

\* The rawPaths that may be behind the delimiter, if CheckPrefix(path +
\* sContentMountPointLength, cMountDelimiter) passes: with the length of the path's
\* own mount name the rest of the path; with a smaller one a letter is met and the
\* check fails; else the place is in the middle of the path or past its end, and
\* anything may stand there, keys of the mod too.
RawPaths(m, n) ==
  IF n \in Shorts \/ mountLen > MountLen[m] THEN Nodes \cup {Root, Garbage}
  ELSE IF mountLen = MountLen[m] THEN {n}
  ELSE {}

\* The history of a call that starts: its path is one that was indexed, is in
\* the mod and has the content mount point in front of it.
IsSure(o, m, n) ==
  /\ o # "OpenDirectoryNull"
  /\ HookOf(o) \in hooked
  /\ n \in indexed \cap mod
  /\ m = mountPoint
  /\ mountLen = MountLen[mountPoint]

\* The call, up to CheckPrefix(path, sContentMountPoint).
Call(t, o, m, n) ==
  /\ phase = "run"
  /\ pc[t] = "idle"
  /\ n \in Reach(o) \cup Shorts
  /\ m \in mounted
  /\ req' = [req EXCEPT ![t] = [op |-> o, mount |-> m, node |-> n]]
  /\ pc' = [pc EXCEPT ![t] = IF HookOf(o) \in hooked /\ PrefixPasses(m, n)
                             THEN "delimiter" ELSE "original"]
  /\ sure' = [sure EXCEPT ![t] = IsSure(o, m, n)]
  /\ UNCHANGED <<hookFrame, historyFrame, mountVars, key, handles, ret, faults, hurt>>

callFrame == <<hookFrame, historyFrame, mountVars, req>>

ReturnWith(t, r) ==
  /\ pc' = [pc EXCEPT ![t] = "returned"]
  /\ ret' = [ret EXCEPT ![t] = r]

\* CheckPrefix(path + sContentMountPointLength, cMountDelimiter), the check of
\* outHandle and the start of rawPath; the length is read once for all of it.
CheckDelimiter(t) ==
  /\ pc[t] = "delimiter"
  /\ \/ /\ RawPaths(req[t].mount, req[t].node) # {req[t].node}
        /\ pc' = [pc EXCEPT ![t] = "original"]
        /\ UNCHANGED <<key, ret>>
     \/ /\ RawPaths(req[t].mount, req[t].node) # {}
        /\ req[t].op = "OpenDirectoryNull"
        /\ ReturnWith(t, "fail")
        /\ UNCHANGED key
     \/ /\ req[t].op # "OpenDirectoryNull"
        /\ \E k \in RawPaths(req[t].mount, req[t].node) : key' = [key EXCEPT ![t] = k]
        /\ pc' = [pc EXCEPT ![t] = "lookup"]
        /\ UNCHANGED ret
  /\ UNCHANGED <<callFrame, handles, faults, sure, hurt>>

\* InFilter of the empty path is false without a look at the filter.
LookUpNothing(t) ==
  /\ pc[t] = "lookup"
  /\ key[t] = Root
  /\ pc' = [pc EXCEPT ![t] = "original"]
  /\ UNCHANGED <<callFrame, key, handles, ret, faults, sure, hurt>>

\* A lookup that waits for the mod to be indexed first.
AcquireSharedOnceIndexed(t) ==
  /\ pc[t] = "lookup"
  /\ key[t] # Root
  /\ ~Writing
  /\ mFilter # {}
  /\ pc' = [pc EXCEPT ![t] = "contains"]
  /\ UNCHANGED <<callFrame, key, handles, ret, faults, sure, hurt>>

AcquireShared(t) ==
  /\ pc[t] = "lookup"
  /\ key[t] # Root
  /\ ~Writing
  /\ pc' = [pc EXCEPT ![t] = "contains"]
  /\ UNCHANGED <<callFrame, key, handles, ret, faults, sure, hurt>>

LookUp(t) ==
  /\ pc[t] = "contains"
  /\ pc' = [pc EXCEPT ![t] = IF InFilter(key[t]) THEN "openMod" ELSE "original"]
  /\ UNCHANGED <<callFrame, key, handles, ret, faults, sure, hurt>>

\* The mod has at newpath what the call opens.
ModHas(t) == key[t] \in mod \cap Reach(req[t].op)

\* Orig(newpath) finds what the filter promised.
OpenMod(t) ==
  /\ pc[t] = "openMod"
  /\ ModHas(t)
  /\ IF req[t].op = "OpenFile"
     THEN /\ ReturnWith(t, "mod")
          /\ UNCHANGED handles
     ELSE /\ pc' = [pc EXCEPT ![t] = "openBoth"]
          /\ handles' = [handles EXCEPT ![t] = {"mod"}]
          /\ UNCHANGED ret
  /\ UNCHANGED <<callFrame, key, faults, sure, hurt>>

\* The failure is returned to the game.
OpenModFailsForGood(t) ==
  /\ pc[t] = "openMod"
  /\ ~ModHas(t)
  /\ ReturnWith(t, "fail")
  /\ UNCHANGED <<callFrame, key, handles, faults, sure, hurt>>

\* A false positive, a path removed since it was indexed, a file where a directory
\* is asked for, or a failing card.
OpenModFails(t) ==
  /\ pc[t] = "openMod"
  /\ IF ModHas(t)
     THEN /\ faults < MaxFaults
          /\ faults' = faults + 1
          /\ hurt' = [hurt EXCEPT ![t] = TRUE]
     ELSE UNCHANGED <<faults, hurt>>
  /\ pc' = [pc EXCEPT ![t] = "original"]
  /\ UNCHANGED <<callFrame, key, handles, ret, sure>>

\* OpenDirectory's Orig(&handle2, path); if there is no such directory the
\* caller gets the mod's.
OpenBoth(t) ==
  /\ pc[t] = "openBoth"
  /\ IF req[t].node \in Content[req[t].mount]
     THEN /\ pc' = [pc EXCEPT ![t] = "merge"]
          /\ handles' = [handles EXCEPT ![t] = @ \cup {"romfs"}]
          /\ UNCHANGED ret
     ELSE /\ ReturnWith(t, "mod")
          /\ UNCHANGED handles
  /\ UNCHANGED <<callFrame, key, faults, sure, hurt>>

HookFault(t) ==
  /\ faults < MaxFaults
  /\ faults' = faults + 1
  /\ hurt' = [hurt EXCEPT ![t] = TRUE]

\* The romfs has the directory and fails to open it: taken for one that only the
\* mod has.
OpenBothFails(t) ==
  /\ pc[t] = "openBoth"
  /\ req[t].node \in Content[req[t].mount]
  /\ HookFault(t)
  /\ ReturnWith(t, "mod")
  /\ UNCHANGED <<callFrame, key, handles, sure>>

Merge(t) ==
  /\ pc[t] = "merge"
  /\ ReturnWith(t, "merged")
  /\ UNCHANGED <<callFrame, key, handles, faults, sure, hurt>>

\* The second handle is not closed.
FindFileSystemFailsLeaking(t) ==
  /\ pc[t] = "merge"
  /\ HookFault(t)
  /\ handles' = [handles EXCEPT ![t] = {"romfs"}]
  /\ ReturnWith(t, "noSystem")
  /\ UNCHANGED <<callFrame, key, sure>>

FindFileSystemFails(t) ==
  /\ pc[t] = "merge"
  /\ HookFault(t)
  /\ handles' = [handles EXCEPT ![t] = {}]
  /\ ReturnWith(t, "noSystem")
  /\ UNCHANGED <<callFrame, key, sure>>

\* The operator new of the two classes does not throw: with no memory for the
\* accessor the game gets a null one and success, with none for the MergedDirectory
\* one that has nothing behind it.
NewFails(t) ==
  /\ pc[t] = "merge"
  /\ HookFault(t)
  /\ \E r \in {"null", "hollow"} : ReturnWith(t, r)
  /\ outOfMemory' = [outOfMemory EXCEPT ![t] = @ + 1]
  /\ UNCHANGED <<hookFrame, lost, mountVars, req, key, handles, sure>>

\* Orig with the caller's own path: every way past the mod ends here.
OpenOriginal(t) ==
  /\ pc[t] = "original"
  /\ IF req[t].node \in Content[req[t].mount] /\ req[t].op # "OpenDirectoryNull"
     THEN /\ ReturnWith(t, "romfs")
          /\ handles' = [handles EXCEPT ![t] = IF req[t].op = "OpenFile" THEN @ ELSE {"romfs"}]
     ELSE /\ ReturnWith(t, "fail")
          /\ UNCHANGED handles
  /\ UNCHANGED <<callFrame, key, faults, sure, hurt>>

\* The handles that closing a call's result closes.
Given(t) == {h \in {"mod", "romfs"} : req[t].op = "OpenDirectory" /\ ret[t] \in {h, "merged"}}

\* The game closes what it was given and goes on; what else is open stays so.
Finish(t) ==
  /\ pc[t] = "returned"
  /\ pc' = [pc EXCEPT ![t] = "idle"]
  /\ req' = [req EXCEPT ![t] = NoReq]
  /\ key' = [key EXCEPT ![t] = None]
  /\ handles' = [handles EXCEPT ![t] = {}]
  /\ ret' = [ret EXCEPT ![t] = None]
  /\ lost' = [lost EXCEPT ![t] = @ + Cardinality(handles[t] \ Given(t))]
  /\ sure' = [sure EXCEPT ![t] = FALSE]
  /\ hurt' = [hurt EXCEPT ![t] = FALSE]
  /\ UNCHANGED <<hookFrame, outOfMemory, mountVars, faults>>

HookStep(t) ==
  \/ CheckDelimiter(t) \/ LookUpNothing(t) \/ AcquireShared(t) \/ LookUp(t)
  \/ OpenMod(t) \/ OpenModFails(t) \/ OpenBoth(t) \/ OpenBothFails(t)
  \/ Merge(t) \/ FindFileSystemFails(t) \/ NewFails(t) \/ OpenOriginal(t)

-----------------------------------------------------------------------------
(* The owner of the SD card adds and removes files while the game runs. *)

cardFrame == <<loaderVars, walkVars, mountVars, callVars, faults, hurt>>

AddToMod(n) ==
  /\ changes < MaxChanges
  /\ n \notin mod
  /\ n \in Nodes => Parent[n] \in mod
  /\ mod' = mod \cup {n}
  /\ changes' = changes + 1
  /\ dirty' = (dirty \/ stack # <<>>)
  /\ UNCHANGED <<cardFrame, kept, removed, sure>>

RemoveFromMod(n) ==
  /\ changes < MaxChanges
  /\ n \in mod
  /\ Children(n) = {}
  /\ mod' = mod \ {n}
  /\ changes' = changes + 1
  /\ kept' = kept \ {n}
  /\ removed' = IF stack = <<>> THEN removed ELSE removed + 1
  /\ sure' = [t \in Threads |-> sure[t] /\ req[t].node # n]
  /\ UNCHANGED <<cardFrame, dirty>>

-----------------------------------------------------------------------------
Next ==
  \/ MountSdCardFails \/ MountSdCard
  \/ InstallMountRom \/ InstallOpenFile \/ InstallOpenDirectory
  \/ Index \/ InitDone \/ Wake
  \/ WalkStep
  \/ \E t \in Threads :
       \/ \E m \in Mounts : CallMountRom(t, m)
       \/ SetMountPoint(t) \/ SetMountLength(t)
       \/ \E o \in Ops, m \in Mounts, n \in Paths : Call(t, o, m, n)
       \/ HookStep(t)
       \/ Finish(t)
  \/ \E n \in Nodes \cup {Root} : AddToMod(n) \/ RemoveFromMod(n)

Spec == Init /\ [][Next]_vars

\* The console's scheduler lets a thread that can run go on; ThreadMain sleeps
\* for a bounded time.  A thread that waits for gFilterLock gets it in the end if it
\* is free again and again, which is more than that nobody keeps it.  Nothing is
\* assumed of the game or of the card's owner.
Fairness ==
  /\ WF_vars(MountSdCard \/ MountSdCardFails)
  /\ WF_vars(InstallMountRom \/ InstallOpenFile \/ InstallOpenDirectory \/ Index \/ InitDone)
  /\ WF_vars(Wake)
  /\ WF_vars(WalkStep)
  /\ SF_vars(WalkLock)
  /\ \A t \in Threads : WF_vars(HookStep(t)) /\ SF_vars(AcquireShared(t))

FairSpec == Spec /\ Fairness

-----------------------------------------------------------------------------
(* Properties. *)

WalkPCs == {"open", "count", "read", "add", "locked"}
HookPCs == {"delimiter", "lookup", "contains", "openMod", "openBoth", "merge", "original"}

Frame == [dir : Folders, pc : WalkPCs, left : Nat, seen : SUBSET Nodes,
          entry : Nodes \cup {None}]

TypeOK ==
  /\ phase \in {"mount", "hookMountRom", "hookOpenFile", "hookOpenDirectory",
               "index", "indexing", "run"}
  /\ hooked \subseteq {"MountRom", "OpenFile", "OpenDirectory"}
  /\ stack \in Seq(Frame)
  /\ walkHandles \in Int
  /\ mountPoint \in Mounts
  /\ mountLen \in Nat
  /\ pc \in [Threads -> HookPCs \cup {"idle", "setPoint", "setLength", "returned"}]
  /\ req \in [Threads -> [op : Ops \cup {None}, mount : Mounts \cup {None},
                          node : Paths \cup {None}]]
  /\ key \in [Threads -> Keys \cup {Root, None}]
  /\ handles \in [Threads -> SUBSET {"mod", "romfs"}]
  /\ ret \in [Threads -> Results \cup {None}]
  /\ lost \in [Threads -> Nat]
  /\ outOfMemory \in [Threads -> Nat]
  /\ mod \subseteq Nodes \cup {Root}
  /\ mounted \subseteq Mounts
  /\ changes \in 0 .. MaxChanges
  /\ faults \in 0 .. MaxFaults
  /\ indexed \subseteq Keys
  /\ kept \subseteq Nodes \cup {Root}
  /\ dirty \in BOOLEAN
  /\ removed \in Nat
  /\ sure \in [Threads -> BOOLEAN]
  /\ hurt \in [Threads -> BOOLEAN]

\* A call for a path that was indexed before it began, stays in the mod while
\* it runs and is met by no failure of the system is served from the mod: a
\* file, or a directory merged with the romfs directory exactly when the romfs
\* has one.  Re-indexing, other calls and changes elsewhere do not matter.
SureIsServed ==
  \A t \in Threads :
    (pc[t] = "returned" /\ sure[t] /\ ~hurt[t]) =>
      ret[t] = IF /\ req[t].op = "OpenDirectory"
                  /\ req[t].node \in Content[req[t].mount]
               THEN "merged" ELSE "mod"

\* The loader never makes the game's own content unreachable: a call gets the
\* original's error only if the romfs lacks the path too, whatever false positive,
\* stale bit, torn mount point, failing card or removal in mid-call the hook runs
\* into.
RomfsStaysReachable ==
  \A t \in Threads :
    (pc[t] = "returned" /\ ret[t] = "fail" /\ req[t].op # "OpenDirectoryNull") =>
      req[t].node \notin Content[req[t].mount]

\* The handles a call needs open: the ones the hook goes on with, then the ones
\* that were given to the game.
Owed(t) ==
  CASE pc[t] = "openBoth" -> {"mod"}
    [] pc[t] = "merge" -> {"mod", "romfs"}
    [] pc[t] = "returned" -> Given(t)
    [] OTHER -> {}

\* OpenDirectory closes no handle it needs or has given to the game, and leaves
\* none behind that nobody can close but the two of a call that ran out of memory,
\* whatever fails at whichever step.
HandlesAccounted ==
  \A t \in Threads :
    /\ Owed(t) \subseteq handles[t]
    /\ lost[t] + Cardinality(handles[t] \ Owed(t)) = 2 * outOfMemory[t]

\* The walk holds one handle per activation past its open, at its early
\* return and its skipped entries too.
WalkHandlesAccounted ==
  walkHandles = Cardinality({i \in DOMAIN stack : stack[i].pc # "open"})

\* A walk met by no failure and no addition has indexed whatever was there when
\* it began and is there still, removals during the walk notwithstanding.
WalkComplete ==
  (stack = <<>> /\ ~dirty) => kept \ {Root} \subseteq indexed

\* A directory is entered again from itself, through the nameless entry a
\* shrunk directory yields, at most once for every removal since the walk began:
\* the activations are no more than the levels of the tree and those removals.
Deeper == Cardinality({i \in 1 .. Len(stack) - 1 : stack[i].dir = stack[i + 1].dir})

DepthBounded == Deeper <= removed

\* What the README promises of a directory that is in the mod and in the
\* romfs, here when nothing has failed or changed since the mod was indexed
\* before the game began: the game is given the two merged.
MergedView ==
  \A t \in Threads :
    (/\ pc[t] = "returned"
     /\ req[t].op = "OpenDirectory"
     /\ req[t].node \in mod \cap Content[req[t].mount]
     /\ hooked # {} /\ faults = 0 /\ changes = 0)
    => ret[t] = "merged"

\* Every call of a hook returns: the lock it waits for, which the indexer takes
\* once for every entry, comes free and is not held by somebody who waits too.
CallsReturn ==
  \A t \in Threads : (pc[t] \in HookPCs) ~> (pc[t] = "returned")

\* A file put on the card and left there is indexed in the end, whatever
\* failed before, if the hooks were installed.
EventuallyIndexed ==
  \A n \in Nodes : <>[](n \in mod /\ hooked # {}) => <>(n \in indexed)

==============================================================================
