----------------------------- MODULE LoaderProofs -----------------------------
(* Proofs about Loader, for every tree, romfs, set of threads, hash and bound. *)
EXTENDS Loader, SequenceTheorems, FiniteSetTheorems, TLAPS

InHook == HookPCs \cup {"returned"}

\* A thread in a hook is there for a request; past the lookup it is not the one
\* with a null outHandle; and only OpenDirectory opens both directories.
ReqInv(t) ==
  /\ pc[t] \in InHook => req[t] \in Request
  /\ pc[t] \in {"setPoint", "setLength"} => req[t].mount \in Mounts
  /\ pc[t] \in {"lookup", "contains", "openMod", "openBoth", "merge"} => req[t].op # "OpenDirectoryNull"
  /\ pc[t] \in {"openBoth", "merge"} => req[t].op = "OpenDirectory"

\* What is known of a sure and unhurt call at every step of the hook.
SureInv(t) ==
  (sure[t] /\ ~hurt[t]) =>
    /\ pc[t] \in InHook \ {"original"}
    /\ req[t].op \in {"OpenFile", "OpenDirectory"}
    /\ req[t].node \in indexed \cap mod \cap Reach(req[t].op)
    /\ req[t].mount = mountPoint
    /\ mountLen = MountLen[mountPoint]
    /\ pc[t] \in {"lookup", "contains", "openMod"} => key[t] = req[t].node
    /\ pc[t] = "merge" => req[t].node \in Content[req[t].mount]
    /\ pc[t] = "returned" =>
         ret[t] = IF /\ req[t].op = "OpenDirectory"
                     /\ req[t].node \in Content[req[t].mount]
                  THEN "merged" ELSE "mod"

\* RomfsStaysReachable for one thread.
FailInv(t) ==
  (pc[t] = "returned" /\ ret[t] = "fail" /\ req[t].op # "OpenDirectoryNull") =>
    req[t].node \notin Content[req[t].mount]

\* The handles a thread has open, and the ones its calls have lost.
HandleInv(t) ==
  IF pc[t] = "returned" /\ ret[t] \in {"null", "hollow"}
  THEN handles[t] = {"mod", "romfs"} /\ lost[t] + 2 = 2 * outOfMemory[t]
  ELSE handles[t] = Owed(t) /\ lost[t] = 2 * outOfMemory[t]

ThreadInv(t) ==
  /\ ReqInv(t)
  /\ HandleInv(t)
  /\ SureInv(t)
  /\ FailInv(t)

\* The bits of every key whose add has returned are set.
IndexedAreFound ==
  \A k \in indexed : BitsOf(k) \subseteq mFilter

IInv ==
  /\ TypeOK
  /\ IndexedAreFound
  /\ \A t \in Threads : ThreadInv(t)

\* The steps of the start-up and of the walk, which touch no call.
Quiet ==
  \/ MountSdCardFails \/ MountSdCard
  \/ InstallMountRom \/ InstallOpenFile \/ InstallOpenDirectory
  \/ Index \/ InitDone \/ Wake \/ WalkStep

-----------------------------------------------------------------------------
(* The stack of activations. *)

(* The innermost activation of a stack is an activation.                       *)
LEMMA TopType ==
  ASSUME TypeOK, stack # <<>>
  PROVE  /\ Top \in Frame
         /\ Len(stack) \in Nat \ {0}
         /\ Len(stack) \in DOMAIN stack
<1>1. stack \in Seq(Frame)
  BY DEF TypeOK
<1>2. Len(stack) \in Nat \ {0}
  BY <1>1, EmptySeq, LenProperties
<1>3. Len(stack) \in 1 .. Len(stack)
  BY <1>2
<1>4. QED
  BY <1>1, <1>2, <1>3, ElementOfSeq, LenProperties DEF Top

(* Replacing the innermost activation, or returning from it, leaves a stack.     *)
LEMMA StackType ==
  ASSUME TypeOK, stack # <<>>
  PROVE  /\ \A f \in Frame : SetTop(f) \in Seq(Frame)
         /\ SubSeq(stack, 1, Len(stack) - 1) \in Seq(Frame)
<1>1. stack \in Seq(Frame) /\ Len(stack) \in Nat \ {0} /\ Len(stack) \in DOMAIN stack
  BY TopType DEF TypeOK
<1>2. ASSUME NEW f \in Frame PROVE SetTop(f) \in Seq(Frame)
  <2>1. Len(stack) \in 1 .. Len(stack)
    BY <1>1
  <2>2. QED
    BY <1>1, <2>1, ExceptSeq DEF SetTop
<1>3. SubSeq(stack, 1, Len(stack) - 1) \in Seq(Frame)
  <2>1. \A i \in 1 .. Len(stack) - 1 : stack[i] \in Frame
    <3>1. \A i \in 1 .. Len(stack) - 1 : i \in 1 .. Len(stack)
      BY <1>1
    <3>2. QED
      BY <1>1, <3>1, ElementOfSeq
  <2>2. QED
    BY <1>1, <2>1, SubSeqProperties
<1>4. QED
  BY <1>2, <1>3

(* A new activation, for a folder of the tree.                                  *)
LEMMA NewFrameType ==
  ASSUME NEW d \in Folders
  PROVE  NewFrame(d) \in Frame
BY DEF NewFrame, Frame, WalkPCs

(* A directory has a number of entries.                                         *)
LEMMA CountType ==
  ASSUME NEW d
  PROVE  Cardinality(Children(d)) \in Nat
<1>1. Children(d) \in SUBSET Nodes
  BY DEF Children
<1>2. QED
  BY <1>1, LoaderAssumption, FS_Subset, FS_CardinalityType

-----------------------------------------------------------------------------
(* Types. *)

(* Everything has its type at the start.                                        *)
LEMMA InitTypeOK == Init => TypeOK
<1> SUFFICES ASSUME Init PROVE TypeOK
  OBVIOUS
<1> USE DEF Init
<1>1. stack \in Seq(Frame)
  BY EmptySeq
<1>2. mountPoint \in Mounts /\ mountLen \in Nat
  BY LoaderAssumption
<1>3. changes \in 0 .. MaxChanges /\ faults \in 0 .. MaxFaults
  BY LoaderAssumption
<1>4. /\ req \in [Threads -> [op : Ops \cup {None}, mount : Mounts \cup {None},
                              node : Paths \cup {None}]]
      /\ pc \in [Threads -> HookPCs \cup {"idle", "setPoint", "setLength", "returned"}]
      /\ handles \in [Threads -> SUBSET {"mod", "romfs"}]
      /\ ret \in [Threads -> Results \cup {None}]
  BY DEF NoReq
<1>5. /\ dirty \in BOOLEAN /\ sure \in [Threads -> BOOLEAN] /\ hurt \in [Threads -> BOOLEAN]
      /\ lost \in [Threads -> Nat] /\ outOfMemory \in [Threads -> Nat] /\ removed \in Nat
  OBVIOUS
<1>6. QED
  BY <1>1, <1>2, <1>3, <1>4, <1>5 DEF TypeOK

(* The steps of the start-up.                                                    *)
LEMMA StartUpType ==
  ASSUME TypeOK,
         \/ MountSdCardFails \/ MountSdCard
         \/ InstallMountRom \/ InstallOpenFile \/ InstallOpenDirectory
         \/ Index \/ InitDone \/ Wake
  PROVE  TypeOK'
<1> USE DEF TypeOK, loaderVars, walkVars, mountVars, callVars, cardVars, sinceVars
<1>1. CASE MountSdCardFails
  <2>1. faults' \in 0 .. MaxFaults
    BY <1>1, LoaderAssumption DEF MountSdCardFails
  <2>2. QED
    BY <1>1, <2>1 DEF MountSdCardFails
<1>2. CASE MountSdCard
  BY <1>2 DEF MountSdCard
<1>3. CASE InstallMountRom
  BY <1>3 DEF InstallMountRom
<1>4. CASE InstallOpenFile
  BY <1>4 DEF InstallOpenFile
<1>5. ASSUME StartWalk
      PROVE  /\ stack' \in Seq(Frame) /\ kept' \subseteq Nodes \cup {Root}
             /\ dirty' \in BOOLEAN /\ removed' \in Nat
  <2>1. NewFrame(Root) \in Frame
    BY NewFrameType DEF Folders
  <2>2. <<NewFrame(Root)>> \in Seq(Frame)
    BY <2>1
  <2>3. QED
    BY <1>5, <2>2 DEF StartWalk
<1>6. CASE InstallOpenDirectory
  BY <1>6 DEF InstallOpenDirectory
<1>7. CASE Index
  BY <1>5, <1>7 DEF Index
<1>8. CASE InitDone
  BY <1>8 DEF InitDone
<1>9. CASE Wake
  BY <1>5, <1>9 DEF Wake
<1>10. QED
  BY <1>1, <1>2, <1>3, <1>4, <1>6, <1>7, <1>8, <1>9

(* The steps of the walk.                                                         *)
LEMMA WalkType == ASSUME TypeOK, WalkStep PROVE TypeOK'
<1>1. stack # <<>>
  BY DEF WalkStep, At, WalkOpen, WalkOpenFails, WalkCount, WalkCountFails, WalkRead,
         WalkReadNothing, WalkReadFails, WalkSkip, WalkLock, WalkAdd, WalkClose
<1>2. Top \in Frame
  BY <1>1, TopType
<1>3. \A f \in Frame : SetTop(f) \in Seq(Frame)
  BY <1>1, StackType
<1>4. SubSeq(stack, 1, Len(stack) - 1) \in Seq(Frame)
  BY <1>1, StackType
<1>5. ASSUME stack' \in Seq(Frame), walkHandles' \in Int, mFilter' = mFilter, indexed' = indexed,
             UNCHANGED walkFrame, UNCHANGED <<faults, dirty>> \/ WalkFault
      PROVE  TypeOK'
  <2>1. faults' \in 0 .. MaxFaults
    BY <1>5, LoaderAssumption DEF TypeOK, WalkFault
  <2>2. dirty' = dirty \/ dirty' = TRUE
    BY <1>5 DEF WalkFault
  <2>3. QED
    BY <1>5, <2>1, <2>2 DEF TypeOK, walkFrame, loaderVars, mountVars, callVars, cardVars
<1>6. walkHandles + 1 \in Int /\ walkHandles - 1 \in Int
  BY DEF TypeOK
<1>7. CASE WalkOpen
  <2>1. [Top EXCEPT !.pc = "count"] \in Frame
    BY <1>2 DEF Frame, WalkPCs
  <2>2. stack' \in Seq(Frame)
    BY <1>3, <1>7, <2>1 DEF WalkOpen
  <2>3. QED
    BY <1>5, <1>6, <1>7, <2>2 DEF WalkOpen
<1>8. CASE WalkOpenFails
  BY <1>4, <1>5, <1>8 DEF WalkOpenFails, Return, TypeOK
<1>9. CASE WalkCount
  <2>1. Cardinality(Children(Top.dir)) \in Nat
    BY CountType
  <2>2. [Top EXCEPT !.pc = "read", !.left = Cardinality(Children(Top.dir))] \in Frame
    BY <1>2, <2>1 DEF Frame, WalkPCs
  <2>3. stack' \in Seq(Frame)
    BY <1>3, <1>9, <2>2 DEF WalkCount
  <2>4. QED
    BY <1>5, <1>9, <2>3 DEF WalkCount, TypeOK
<1>10. CASE WalkCountFails
  BY <1>4, <1>5, <1>6, <1>10 DEF WalkCountFails, Return
<1>11. CASE WalkRead
  <2>1. PICK e \in Children(Top.dir) \ Top.seen :
          LET here == SetTop([Top EXCEPT !.pc = "add", !.left = @ - 1,
                                         !.seen = @ \cup {e}, !.entry = e])
          IN stack' = IF e \in Dirs THEN Append(here, NewFrame(e)) ELSE here
    BY <1>11 DEF WalkRead
  <2> DEFINE f == [Top EXCEPT !.pc = "add", !.left = @ - 1, !.seen = @ \cup {e}, !.entry = e]
  <2>2. e \in Nodes
    BY DEF Children
  <2>3. f \in Frame
    <3>1. Top.left - 1 \in Nat
      BY <1>2, <1>11 DEF WalkRead, Frame
    <3>2. Top.seen \cup {e} \in SUBSET Nodes
      BY <1>2, <2>2 DEF Frame
    <3>3. QED
      BY <1>2, <2>2, <3>1, <3>2 DEF Frame, WalkPCs
  <2>4. SetTop(f) \in Seq(Frame)
    BY <1>3, <2>3
  <2>5. e \in Dirs => Append(SetTop(f), NewFrame(e)) \in Seq(Frame)
    BY <2>4, NewFrameType, AppendProperties DEF Folders
  <2>6. stack' \in Seq(Frame)
    BY <2>1, <2>4, <2>5
  <2>7. QED
    BY <1>5, <1>11, <2>6 DEF WalkRead, TypeOK
<1>12. CASE WalkReadNothing
  <2> DEFINE f == [Top EXCEPT !.pc = "add", !.left = @ - 1, !.entry = None]
  <2>1. f \in Frame
    <3>1. Top.left - 1 \in Nat
      BY <1>2, <1>12 DEF WalkReadNothing, Frame
    <3>2. QED
      BY <1>2, <3>1 DEF Frame, WalkPCs
  <2>2. NewFrame(Top.dir) \in Frame
    BY <1>2, NewFrameType DEF Frame
  <2>3. Append(SetTop(f), NewFrame(Top.dir)) \in Seq(Frame)
    BY <1>3, <2>1, <2>2, AppendProperties
  <2>4. stack' \in Seq(Frame)
    BY <1>12, <2>3 DEF WalkReadNothing
  <2>5. QED
    BY <1>5, <1>12, <2>4 DEF WalkReadNothing, TypeOK
<1>13. CASE WalkReadFails
  <2>1. [Top EXCEPT !.left = @ - 1] \in Frame
    BY <1>2, <1>13 DEF WalkReadFails, Frame
  <2>2. stack' \in Seq(Frame)
    BY <1>3, <1>13, <2>1 DEF WalkReadFails
  <2>3. QED
    BY <1>5, <1>13, <2>2 DEF WalkReadFails, TypeOK
<1>14. CASE WalkSkip
  <2>1. [Top EXCEPT !.pc = "read"] \in Frame
    BY <1>2 DEF Frame, WalkPCs
  <2>2. stack' \in Seq(Frame)
    BY <1>3, <1>14, <2>1 DEF WalkSkip
  <2>3. QED
    BY <1>5, <1>14, <2>2 DEF WalkSkip, TypeOK
<1>15. CASE WalkLock
  <2>1. [Top EXCEPT !.pc = "locked"] \in Frame
    BY <1>2 DEF Frame, WalkPCs
  <2>2. stack' \in Seq(Frame)
    BY <1>3, <1>15, <2>1 DEF WalkLock
  <2>3. QED
    BY <1>5, <1>15, <2>2 DEF WalkLock, TypeOK
<1>16. CASE WalkAdd
  <2>1. [Top EXCEPT !.pc = "read", !.entry = None] \in Frame
    BY <1>2 DEF Frame, WalkPCs
  <2>2. stack' \in Seq(Frame)
    BY <1>3, <1>16, <2>1 DEF WalkAdd
  <2>3. EntryKey(Top) \in Keys
    BY <1>2, <1>16 DEF EntryKey, Keys, Frame, Folders, WalkAdd, At
  <2>4. indexed' \subseteq Keys
    BY <1>16, <2>3 DEF WalkAdd, TypeOK
  <2>5. QED
    BY <1>16, <2>2, <2>4
    DEF WalkAdd, TypeOK, walkFrame, loaderVars, mountVars, callVars, cardVars
<1>17. CASE WalkClose
  BY <1>4, <1>5, <1>6, <1>17 DEF WalkClose, Return
<1>18. QED
  BY <1>7, <1>8, <1>9, <1>10, <1>11, <1>12, <1>13, <1>16, <1>17, <1>14, <1>15 DEF WalkStep

-----------------------------------------------------------------------------
(* The hooks. *)

(* A step that leaves a thread's own call alone, keeps the mount point and takes *)
(* nothing from the index, nor the thread's path from the mod, keeps what is      *)
(* known of the thread.                                                          *)
LEMMA OtherThread ==
  ASSUME NEW u \in Threads, ThreadInv(u),
         pc'[u] = pc[u], req'[u] = req[u], key'[u] = key[u],
         handles'[u] = handles[u], ret'[u] = ret[u], hurt'[u] = hurt[u],
         lost'[u] = lost[u], outOfMemory'[u] = outOfMemory[u],
         sure'[u] => /\ sure[u]
                     /\ mountPoint' = mountPoint
                     /\ mountLen = MountLen[mountPoint] => mountLen' = mountLen
                     /\ req[u].node \in mod => req[u].node \in mod',
         indexed \subseteq indexed'
  PROVE  ThreadInv(u)'
<1> USE DEF ThreadInv
<1>1. ReqInv(u)'
  BY DEF ReqInv
<1>2. HandleInv(u)'
  BY DEF HandleInv, Owed, Given
<1>3. SureInv(u)'
  BY DEF SureInv
<1>4. FailInv(u)'
  BY DEF FailInv
<1>5. QED
  BY <1>1, <1>2, <1>3, <1>4

(* The variables of the calls keep their types when one thread's entries change    *)
(* to values of the right type.                                                   *)
LEMMA CallType ==
  ASSUME TypeOK, NEW t \in Threads, UNCHANGED hookFrame,
         mountPoint' \in Mounts, mountLen' \in Nat, mounted' \subseteq Mounts,
         NEW p \in HookPCs \cup {"idle", "setPoint", "setLength", "returned"},
         NEW q \in [op : Ops \cup {None}, mount : Mounts \cup {None}, node : Paths \cup {None}],
         NEW k \in Keys \cup {Root, None},
         NEW h \in SUBSET {"mod", "romfs"}, NEW r \in Results \cup {None},
         pc' = [pc EXCEPT ![t] = p],
         req' = req \/ req' = [req EXCEPT ![t] = q],
         key' = key \/ key' = [key EXCEPT ![t] = k],
         handles' = handles \/ handles' = [handles EXCEPT ![t] = h],
         ret' = ret \/ ret' = [ret EXCEPT ![t] = r],
         lost' \in [Threads -> Nat],
         outOfMemory' \in [Threads -> Nat],
         sure' \in [Threads -> BOOLEAN],
         hurt' \in [Threads -> BOOLEAN],
         faults' \in 0 .. MaxFaults
  PROVE  TypeOK'
<1>1. pc' \in [Threads -> HookPCs \cup {"idle", "setPoint", "setLength", "returned"}]
  BY DEF TypeOK
<1>2. req' \in [Threads -> [op : Ops \cup {None}, mount : Mounts \cup {None},
                             node : Paths \cup {None}]]
  <2>1. req \in [Threads -> [op : Ops \cup {None}, mount : Mounts \cup {None},
                             node : Paths \cup {None}]]
    BY DEF TypeOK
  <2>2. QED
    BY <2>1
<1>3. key' \in [Threads -> Keys \cup {Root, None}]
  <2>1. key \in [Threads -> Keys \cup {Root, None}]
    BY DEF TypeOK
  <2>2. QED
    BY <2>1
<1>4. handles' \in [Threads -> SUBSET {"mod", "romfs"}]
  <2>1. handles \in [Threads -> SUBSET {"mod", "romfs"}]
    BY DEF TypeOK
  <2>2. QED
    BY <2>1
<1>5. ret' \in [Threads -> Results \cup {None}]
  <2>1. ret \in [Threads -> Results \cup {None}]
    BY DEF TypeOK
  <2>2. QED
    BY <2>1
<1>6. QED
  BY <1>1, <1>2, <1>3, <1>4, <1>5
     DEF TypeOK, hookFrame, loaderVars, walkVars, cardVars, sinceVars

(* A request, and no request, have the type of a thread's entry.                     *)
LEMMA RequestType ==
  ASSUME NEW q \in Request \cup {NoReq}
  PROVE  q \in [op : Ops \cup {None}, mount : Mounts \cup {None}, node : Paths \cup {None}]
BY DEF Request, NoReq

\* A step that changes no thread's call but t's.
OnlyThread(t) ==
  \A u \in Threads \ {t} :
    /\ pc'[u] = pc[u] /\ req'[u] = req[u] /\ key'[u] = key[u]
    /\ handles'[u] = handles[u] /\ ret'[u] = ret[u]
    /\ lost'[u] = lost[u] /\ outOfMemory'[u] = outOfMemory[u]
    /\ hurt'[u] = hurt[u]

(* A step of one thread's call keeps the invariant if it keeps that thread's part   *)
(* and lets no call be sure that another mount point or length would mislead.       *)
LEMMA CallKeeps ==
  ASSUME IInv, NEW t \in Threads, OnlyThread(t), UNCHANGED hookFrame,
         \A u \in Threads \ {t} :
           sure'[u] => /\ sure[u]
                       /\ mountPoint' = mountPoint
                       /\ mountLen = MountLen[mountPoint] => mountLen' = mountLen,
         TypeOK', ThreadInv(t)'
  PROVE  IInv'
<1>1. mFilter' = mFilter /\ indexed' = indexed /\ mod' = mod
  BY DEF hookFrame, walkVars, cardVars
<1>2. ASSUME NEW u \in Threads \ {t} PROVE ThreadInv(u)'
  BY <1>1, <1>2, OtherThread DEF OnlyThread, IInv
<1>3. IndexedAreFound'
  BY <1>1 DEF IInv, IndexedAreFound
<1>4. QED
  BY <1>2, <1>3 DEF IInv

(* A call begins: it is sure only if everything SureInv asks holds.                 *)
LEMMA CallStep ==
  ASSUME IInv, NEW t \in Threads, NEW o \in Ops, NEW m \in Mounts,
         NEW n \in Paths, Call(t, o, m, n)
  PROVE  IInv'
<1> DEFINE q == [op |-> o, mount |-> m, node |-> n]
           p == IF HookOf(o) \in hooked /\ PrefixPasses(m, n) THEN "delimiter" ELSE "original"
<1>1. TypeOK
  BY DEF IInv
<1>2. /\ req' = [req EXCEPT ![t] = q] /\ pc' = [pc EXCEPT ![t] = p]
      /\ UNCHANGED hookFrame /\ UNCHANGED mountVars
      /\ UNCHANGED <<key, handles, ret, faults, hurt, lost, outOfMemory>>
      /\ sure' = [sure EXCEPT ![t] = IsSure(o, m, n)]
      /\ pc[t] = "idle"
      /\ n \in Reach(o) \cup Shorts
  BY DEF Call, historyFrame
<1>3. q \in Request /\ p \in HookPCs
  BY DEF Request, HookPCs
<1>4. IsSure(o, m, n) \in BOOLEAN
  BY DEF IsSure
<1>5. TypeOK'
  <2>1. /\ sure' \in [Threads -> BOOLEAN] /\ hurt' \in [Threads -> BOOLEAN]
        /\ faults' \in 0 .. MaxFaults
        /\ lost' \in [Threads -> Nat] /\ outOfMemory' \in [Threads -> Nat]
    BY <1>1, <1>2, <1>4 DEF TypeOK
  <2>2. mountPoint' \in Mounts /\ mountLen' \in Nat /\ mounted' \subseteq Mounts
    BY <1>1, <1>2 DEF TypeOK, mountVars
  <2>3. {} \in SUBSET {"mod", "romfs"} /\ None \in Results \cup {None} /\ None \in Keys \cup {Root, None}
    OBVIOUS
  <2>4. q \in [op : Ops \cup {None}, mount : Mounts \cup {None}, node : Paths \cup {None}]
    BY <1>3, RequestType
  <2>5. QED
    BY <1>1, <1>2, <1>3, <2>1, <2>2, <2>3, <2>4, CallType
<1>6. /\ pc'[t] = p /\ req'[t] = q /\ sure'[t] = IsSure(o, m, n) /\ handles'[t] = handles[t]
      /\ lost'[t] = lost[t] /\ outOfMemory'[t] = outOfMemory[t]
  BY <1>1, <1>2 DEF TypeOK
<1>7. ThreadInv(t)'
  <2>1. ReqInv(t)'
    BY <1>3, <1>6 DEF ReqInv, HookPCs
  <2>2. HandleInv(t)'
    BY <1>2, <1>6 DEF IInv, ThreadInv, HandleInv, Owed
  <2>3. SureInv(t)'
    <3>1. ASSUME sure'[t] PROVE /\ p = "delimiter" /\ o \in {"OpenFile", "OpenDirectory"}
                                /\ n \in indexed \cap mod \cap Reach(o) /\ m = mountPoint
                                /\ mountLen = MountLen[mountPoint]
      <4>1. /\ o \in {"OpenFile", "OpenDirectory"} /\ HookOf(o) \in hooked
            /\ n \in indexed \cap mod /\ m = mountPoint
            /\ mountLen = MountLen[mountPoint]
        BY <1>6, <3>1, LoaderAssumption DEF IsSure, AllOps
      <4>2. n \notin Shorts
        BY <1>1, <4>1, LoaderAssumption DEF TypeOK
      <4>3. QED
        BY <1>2, <4>1, <4>2 DEF PrefixPasses
    <3>2. QED
      BY <1>2, <1>6, <3>1 DEF SureInv, InHook, HookPCs, hookFrame, mountVars, walkVars, cardVars
  <2>4. FailInv(t)'
    BY <1>6 DEF FailInv
  <2>5. QED
    BY <2>1, <2>2, <2>3, <2>4 DEF ThreadInv
<1>8. OnlyThread(t)
  BY <1>1, <1>2 DEF OnlyThread, TypeOK
<1>9. \A u \in Threads \ {t} : sure'[u] = sure[u]
  BY <1>1, <1>2 DEF TypeOK
<1>10. mountPoint' = mountPoint /\ mountLen' = mountLen
  BY <1>2 DEF mountVars
<1>11. QED
  BY <1>2, <1>5, <1>7, <1>8, <1>9, <1>10, CallKeeps

(* The two handles are two.                                                         *)
LEMMA BothHandles ==
  /\ IsFiniteSet({"mod", "romfs"})
  /\ Cardinality({"mod", "romfs"}) = 2
  /\ Cardinality({}) = 0
<1>1. IsFiniteSet({"romfs"}) /\ Cardinality({"romfs"}) = 1
  BY FS_Singleton
<1>2. /\ IsFiniteSet({"romfs"} \cup {"mod"})
      /\ Cardinality({"romfs"} \cup {"mod"}) = Cardinality({"romfs"}) + 1
  BY <1>1, FS_AddElement
<1>3. {"romfs"} \cup {"mod"} = {"mod", "romfs"}
  OBVIOUS
<1>4. Cardinality({}) = 0
  BY FS_EmptySet
<1>5. QED
  BY <1>1, <1>2, <1>3, <1>4

(* The game finishes with a result: the handles it was not given are lost, and      *)
(* nothing else is known of an idle thread.                                          *)
LEMMA FinishStep ==
  ASSUME IInv, NEW t \in Threads, Finish(t)
  PROVE  IInv'
<1>1. TypeOK
  BY DEF IInv
<1>2. /\ pc'[t] = "idle" /\ ~sure'[t] /\ handles'[t] = {}
      /\ lost'[t] = lost[t] + Cardinality(handles[t] \ Given(t))
      /\ outOfMemory' = outOfMemory
      /\ pc[t] = "returned"
      /\ UNCHANGED hookFrame /\ UNCHANGED mountVars
  BY <1>1 DEF Finish, TypeOK
<1>3. /\ Cardinality({"mod", "romfs"}) = 2
      /\ Cardinality({}) = 0
      /\ Cardinality(handles[t] \ Given(t)) \in Nat
  <2>1. handles[t] \ Given(t) \in SUBSET {"mod", "romfs"}
    BY <1>1 DEF TypeOK
  <2>2. QED
    BY <2>1, BothHandles, FS_Subset, FS_CardinalityType
<1>4. TypeOK'
  <2>1. /\ sure' \in [Threads -> BOOLEAN] /\ hurt' \in [Threads -> BOOLEAN]
        /\ faults' \in 0 .. MaxFaults /\ outOfMemory' \in [Threads -> Nat]
    BY <1>1 DEF Finish, TypeOK
  <2>2. lost' \in [Threads -> Nat]
    BY <1>1, <1>3 DEF Finish, TypeOK
  <2>3. /\ {} \in SUBSET {"mod", "romfs"} /\ None \in Results \cup {None}
        /\ None \in Keys \cup {Root, None}
        /\ NoReq \in [op : Ops \cup {None}, mount : Mounts \cup {None}, node : Paths \cup {None}]
    BY RequestType
  <2>4. mountPoint' \in Mounts /\ mountLen' \in Nat /\ mounted' \subseteq Mounts
    BY <1>1, <1>2 DEF TypeOK, mountVars
  <2>5. QED
    BY <1>1, <1>2, <2>1, <2>2, <2>3, <2>4, CallType DEF Finish
<1>5. HandleInv(t)'
  <2>1. HandleInv(t)
    BY DEF IInv, ThreadInv
  <2>2. lost[t] \in Nat /\ outOfMemory[t] \in Nat
    BY <1>1 DEF TypeOK
  <2>3. lost'[t] = 2 * outOfMemory'[t]
    <3>1. CASE ret[t] \in {"null", "hollow"}
      <4>1. Given(t) = {}
        BY <3>1 DEF Given
      <4>2. handles[t] \ Given(t) = {"mod", "romfs"} /\ lost[t] + 2 = 2 * outOfMemory[t]
        BY <1>2, <2>1, <3>1, <4>1 DEF HandleInv
      <4>3. QED
        BY <1>2, <1>3, <2>2, <4>2
    <3>2. CASE ret[t] \notin {"null", "hollow"}
      <4>1. handles[t] \ Given(t) = {} /\ lost[t] = 2 * outOfMemory[t]
        BY <1>2, <2>1, <3>2 DEF HandleInv, Owed
      <4>2. Cardinality(handles[t] \ Given(t)) = 0
        BY <1>3, <4>1, Zenon
      <4>3. QED
        BY <1>2, <2>2, <4>1, <4>2
    <3>3. QED
      BY <3>1, <3>2
  <2>4. QED
    BY <1>2, <2>3 DEF HandleInv, Owed
<1>6. ThreadInv(t)'
  BY <1>2, <1>5 DEF ThreadInv, ReqInv, SureInv, FailInv, InHook, HookPCs
<1>7. OnlyThread(t)
  BY <1>1 DEF OnlyThread, Finish, TypeOK
<1>8. \A u \in Threads \ {t} : sure'[u] = sure[u]
  BY <1>1 DEF Finish, TypeOK
<1>9. mountPoint' = mountPoint /\ mountLen' = mountLen
  BY <1>2 DEF mountVars
<1>10. QED
  BY <1>2, <1>4, <1>6, <1>7, <1>8, <1>9, CallKeeps

(* What stands behind the delimiter is a key, or the root.                            *)
LEMMA RawPathIsKey ==
  ASSUME NEW m, NEW n \in Paths \cup {None}, NEW k \in RawPaths(m, n)
  PROVE  k \in Keys \cup {Root, None}
BY DEF RawPaths, Keys, Paths

(* A step inside a hook changes the call of its thread only, and keeps the types.    *)
LEMMA HookStepFrame ==
  ASSUME TypeOK, NEW t \in Threads, HookStep(t)
  PROVE  /\ TypeOK'
         /\ OnlyThread(t)
         /\ UNCHANGED hookFrame /\ UNCHANGED mountVars /\ req' = req /\ sure' = sure
<1> USE DEF ReturnWith, callFrame
<1>1. /\ UNCHANGED hookFrame /\ UNCHANGED mountVars /\ req' = req /\ sure' = sure
      /\ lost' = lost
      /\ \/ outOfMemory' = outOfMemory
         \/ outOfMemory' = [outOfMemory EXCEPT ![t] = @ + 1]
  BY DEF HookStep, CheckDelimiter, LookUpNothing, AcquireShared, LookUp, OpenMod, OpenModFails,
         OpenBoth, OpenBothFails, Merge, FindFileSystemFails, NewFails, OpenOriginal, historyFrame
<1>2. \/ faults' = faults /\ hurt' = hurt
      \/ faults < MaxFaults /\ faults' = faults + 1 /\ hurt' = [hurt EXCEPT ![t] = TRUE]
  BY DEF HookStep, CheckDelimiter, LookUpNothing, AcquireShared, LookUp, OpenMod, OpenModFails,
         OpenBoth, OpenBothFails, Merge, FindFileSystemFails, NewFails, OpenOriginal, HookFault
<1>3. /\ faults' \in 0 .. MaxFaults
      /\ hurt' \in [Threads -> BOOLEAN]
      /\ \A u \in Threads \ {t} : hurt'[u] = hurt[u]
  <2>1. faults' \in 0 .. MaxFaults
    BY <1>2, LoaderAssumption DEF TypeOK
  <2>2. hurt' \in [Threads -> BOOLEAN] /\ \A u \in Threads \ {t} : hurt'[u] = hurt[u]
    BY <1>2 DEF TypeOK
  <2>3. QED
    BY <2>1, <2>2
<1>4. \E p \in HookPCs \cup {"returned"} : pc' = [pc EXCEPT ![t] = p]
  BY DEF HookStep, CheckDelimiter, LookUpNothing, AcquireShared, LookUp, OpenMod, OpenModFails,
         OpenBoth, OpenBothFails, Merge, FindFileSystemFails, NewFails, OpenOriginal, HookPCs
<1>5. key' = key \/ \E k \in Keys \cup {Root, None} : key' = [key EXCEPT ![t] = k]
  <2>1. CheckDelimiter(t) => \/ key' = key
                            \/ \E k \in RawPaths(req[t].mount, req[t].node) :
                                 key' = [key EXCEPT ![t] = k]
    BY DEF CheckDelimiter
  <2>2. req[t].node \in Paths \cup {None}
    BY DEF TypeOK
  <2>3. \A k \in RawPaths(req[t].mount, req[t].node) : k \in Keys \cup {Root, None}
    BY <2>2, RawPathIsKey
  <2>4. ~CheckDelimiter(t) => key' = key
    BY DEF HookStep, LookUpNothing, AcquireShared, LookUp, OpenMod, OpenModFails,
           OpenBoth, OpenBothFails, Merge, FindFileSystemFails, NewFails, OpenOriginal
  <2>5. QED
    BY <2>1, <2>3, <2>4
<1>6. handles' = handles \/ \E h \in SUBSET {"mod", "romfs"} : handles' = [handles EXCEPT ![t] = h]
  <2>1. handles[t] \in SUBSET {"mod", "romfs"}
    BY DEF TypeOK
  <2>2. \/ handles' = handles
        \/ \E h \in {{}, {"mod"}, {"romfs"}, handles[t] \cup {"romfs"}, handles[t]} :
             handles' = [handles EXCEPT ![t] = h]
    BY DEF HookStep, CheckDelimiter, LookUpNothing, AcquireShared, LookUp, OpenMod, OpenModFails,
           OpenBoth, OpenBothFails, Merge, FindFileSystemFails, NewFails, OpenOriginal
  <2>3. QED
    BY <2>1, <2>2
<1>7. ret' = ret \/ \E r \in Results : ret' = [ret EXCEPT ![t] = r]
  BY DEF HookStep, CheckDelimiter, LookUpNothing, AcquireShared, LookUp, OpenMod, OpenModFails,
         OpenBoth, OpenBothFails, Merge, FindFileSystemFails, NewFails, OpenOriginal, Results
<1>8. PICK p \in HookPCs \cup {"returned"} : pc' = [pc EXCEPT ![t] = p]
  BY <1>4
<1>9. PICK k \in Keys \cup {Root, None} : key' = key \/ key' = [key EXCEPT ![t] = k]
  BY <1>5
<1>10. PICK h \in SUBSET {"mod", "romfs"} : handles' = handles \/ handles' = [handles EXCEPT ![t] = h]
  BY <1>6
<1>11. PICK r \in Results : ret' = ret \/ ret' = [ret EXCEPT ![t] = r]
  BY <1>7 DEF Results
<1>12. TypeOK'
  <2>1. sure' \in [Threads -> BOOLEAN] /\ lost' \in [Threads -> Nat]
    BY <1>1 DEF TypeOK
  <2>2. outOfMemory' \in [Threads -> Nat]
    <3>1. outOfMemory \in [Threads -> Nat]
      BY DEF TypeOK
    <3>2. outOfMemory[t] + 1 \in Nat
      BY <3>1
    <3>3. outOfMemory' = outOfMemory \/ outOfMemory' = [outOfMemory EXCEPT ![t] = outOfMemory[t] + 1]
      BY <1>1
    <3>4. QED
      BY <3>1, <3>2, <3>3
  <2>3. mountPoint' \in Mounts /\ mountLen' \in Nat /\ mounted' \subseteq Mounts
    BY <1>1 DEF TypeOK, mountVars
  <2>4. NoReq \in [op : Ops \cup {None}, mount : Mounts \cup {None}, node : Paths \cup {None}]
    BY RequestType
  <2>5. r \in Results \cup {None} /\ p \in HookPCs \cup {"idle", "setPoint", "setLength", "returned"}
    OBVIOUS
  <2>6. QED
    BY <1>1, <1>3, <1>8, <1>9, <1>10, <1>11, <2>1, <2>2, <2>3, <2>4, <2>5, CallType
<1>13. OnlyThread(t)
  BY <1>1, <1>3, <1>8, <1>9, <1>10, <1>11 DEF OnlyThread, TypeOK
<1>14. QED
  BY <1>1, <1>12, <1>13

(* Each step inside a hook keeps what is known of its thread.                        *)
LEMMA HookStepOwn ==
  ASSUME IInv, NEW t \in Threads, HookStep(t)
  PROVE  ThreadInv(t)'
<1>1. TypeOK /\ ThreadInv(t) /\ IndexedAreFound
  BY DEF IInv
<1>2. UNCHANGED hookFrame /\ UNCHANGED mountVars /\ req' = req /\ sure' = sure
  BY <1>1, HookStepFrame
<1>3. /\ mFilter' = mFilter /\ indexed' = indexed /\ mod' = mod
      /\ mountPoint' = mountPoint /\ mountLen' = mountLen
  BY <1>2 DEF hookFrame, mountVars, walkVars, cardVars
<1>4. pc[t] \in HookPCs => req[t].op \in AllOps
  BY <1>1, LoaderAssumption DEF ThreadInv, ReqInv, InHook, Request
<1>5. lost[t] \in Nat /\ outOfMemory[t] \in Nat
  BY <1>1 DEF TypeOK
<1>6. ~NewFails(t) => lost' = lost /\ outOfMemory' = outOfMemory
  BY DEF HookStep, CheckDelimiter, LookUpNothing, AcquireShared, LookUp, OpenMod, OpenModFails,
         OpenBoth, OpenBothFails, Merge, FindFileSystemFails, OpenOriginal, callFrame, historyFrame
<1>7. sure[t] /\ ~hurt[t] /\ pc[t] # "returned" =>
        /\ req[t].node \in indexed \cap mod \cap Reach(req[t].op)
        /\ req[t].node \notin Shorts /\ req[t].node # Root
        /\ RawPaths(req[t].mount, req[t].node) = {req[t].node}
  <2>1. ASSUME sure[t], ~hurt[t], pc[t] # "returned"
        PROVE  /\ req[t].node \in indexed \cap mod \cap Reach(req[t].op)
               /\ req[t].node \notin Shorts /\ req[t].node # Root
               /\ RawPaths(req[t].mount, req[t].node) = {req[t].node}
    <3>1. /\ req[t].node \in indexed \cap mod \cap Reach(req[t].op)
          /\ req[t].mount = mountPoint /\ mountLen = MountLen[mountPoint]
      BY <1>1, <2>1 DEF ThreadInv, SureInv
    <3>2. req[t].node \notin Shorts
      BY <1>1, <3>1, LoaderAssumption DEF TypeOK
    <3>3. req[t].node # Root
      BY <1>1, <3>1, LoaderAssumption DEF TypeOK, Keys
    <3>4. mountLen \in Nat /\ ~(mountLen > mountLen)
      BY <1>1 DEF TypeOK
    <3>5. QED
      BY <3>1, <3>2, <3>3, <3>4 DEF RawPaths
  <2>2. QED
    BY <2>1
<1> USE <1>2, <1>3
<1> USE DEF ThreadInv, ReqInv, SureInv, FailInv, HandleInv, Owed, Given, InHook, HookPCs, ReturnWith
<1>8. CASE CheckDelimiter(t)
  <2>1. pc'[t] \in {"original", "returned", "lookup"} /\ pc[t] = "delimiter"
    BY <1>1, <1>8 DEF CheckDelimiter, TypeOK
  <2>2. pc'[t] = "returned" => ret'[t] = "fail" /\ req[t].op = "OpenDirectoryNull"
    BY <1>1, <1>8 DEF CheckDelimiter, TypeOK
  <2>3. pc'[t] = "lookup" => req[t].op # "OpenDirectoryNull"
    BY <1>1, <1>8 DEF CheckDelimiter, TypeOK
  <2>4. hurt' = hurt /\ handles' = handles /\ lost' = lost /\ outOfMemory' = outOfMemory
    BY <1>8 DEF CheckDelimiter, callFrame, historyFrame
  <2>5. (sure[t] /\ ~hurt[t]) => pc'[t] = "lookup" /\ key'[t] = req[t].node
    <3>1. ASSUME sure[t], ~hurt[t] PROVE pc'[t] = "lookup" /\ key'[t] = req[t].node
      <4>1. RawPaths(req[t].mount, req[t].node) = {req[t].node}
        BY <1>7, <2>1, <3>1
      <4>2. req[t].op # "OpenDirectoryNull"
        BY <1>1, <3>1
      <4>3. QED
        BY <1>1, <1>8, <4>1, <4>2 DEF CheckDelimiter, TypeOK
    <3>2. QED
      BY <3>1
  <2>6. ReqInv(t)' /\ FailInv(t)'
    BY <1>1, <2>1, <2>2, <2>3
  <2>7. HandleInv(t)'
    BY <1>1, <2>1, <2>2, <2>4
  <2>8. SureInv(t)'
    BY <1>1, <2>1, <2>4, <2>5
  <2>9. QED
    BY <2>6, <2>7, <2>8
<1>9. CASE LookUpNothing(t)
  BY <1>1, <1>6, <1>7, <1>9 DEF LookUpNothing, NewFails, TypeOK
<1>10. CASE AcquireShared(t)
  BY <1>1, <1>6, <1>10 DEF AcquireShared, NewFails, TypeOK
<1>11. CASE LookUp(t)
  <2>1. (sure[t] /\ ~hurt[t]) => InFilter(key[t])
    <3>1. ASSUME sure[t], ~hurt[t] PROVE InFilter(key[t])
      <4>1. key[t] = req[t].node /\ req[t].node \in indexed /\ req[t].node # Root
        BY <1>1, <1>7, <1>11, <3>1 DEF LookUp
      <4>2. BitsOf(req[t].node) \subseteq mFilter
        BY <1>1, <4>1 DEF IndexedAreFound
      <4>3. QED
        BY <4>1, <4>2 DEF InFilter
    <3>2. QED
      BY <3>1
  <2>2. QED
    BY <1>1, <1>6, <1>11, <2>1 DEF LookUp, NewFails, TypeOK
<1>12. CASE OpenMod(t)
  <2>1. pc[t] = "openMod" /\ hurt' = hurt /\ lost' = lost /\ outOfMemory' = outOfMemory /\ key' = key
    BY <1>12 DEF OpenMod, callFrame, historyFrame
  <2>2. handles[t] = {}
    BY <1>1, <2>1
  <2>3. CASE req[t].op = "OpenFile"
    <3>1. pc'[t] = "returned" /\ ret'[t] = "mod" /\ handles' = handles
      BY <1>1, <1>12, <2>3 DEF OpenMod, TypeOK
    <3>2. HandleInv(t)'
      BY <1>1, <2>1, <2>2, <2>3, <3>1
    <3>3. SureInv(t)'
      BY <1>1, <2>1, <2>3, <3>1
    <3>4. ReqInv(t)' /\ FailInv(t)'
      BY <1>1, <2>1, <2>3, <3>1
    <3>5. QED
      BY <3>2, <3>3, <3>4
  <2>4. CASE req[t].op # "OpenFile"
    <3>1. pc'[t] = "openBoth" /\ handles'[t] = {"mod"} /\ ret' = ret
      BY <1>1, <1>12, <2>4 DEF OpenMod, TypeOK
    <3>2. req[t].op = "OpenDirectory"
      BY <1>1, <1>4, <2>1, <2>4 DEF AllOps
    <3>3. HandleInv(t)'
      BY <1>1, <2>1, <3>1
    <3>4. SureInv(t)'
      BY <1>1, <2>1, <3>1
    <3>5. ReqInv(t)' /\ FailInv(t)'
      BY <1>1, <2>1, <3>1, <3>2
    <3>6. QED
      BY <3>3, <3>4, <3>5
  <2>5. QED
    BY <2>3, <2>4
<1>13. CASE OpenModFails(t)
  <2>1. (sure[t] /\ ~hurt[t]) => ModHas(t)
    BY <1>1, <1>7, <1>13 DEF OpenModFails, ModHas
  <2>2. QED
    BY <1>1, <1>6, <1>13, <2>1 DEF OpenModFails, NewFails, TypeOK
<1>14. CASE OpenBoth(t)
  <2>1. pc[t] = "openBoth" /\ hurt' = hurt /\ lost' = lost /\ outOfMemory' = outOfMemory /\ key' = key
    BY <1>14 DEF OpenBoth, callFrame, historyFrame
  <2>2. handles[t] = {"mod"} /\ req[t].op = "OpenDirectory"
    BY <1>1, <2>1
  <2>3. CASE req[t].node \in Content[req[t].mount]
    <3>1. pc'[t] = "merge" /\ handles'[t] = handles[t] \cup {"romfs"} /\ ret' = ret
      BY <1>1, <1>14, <2>3 DEF OpenBoth, TypeOK
    <3>2. handles'[t] = {"mod", "romfs"}
      BY <2>2, <3>1
    <3>3. HandleInv(t)'
      BY <1>1, <2>1, <3>1, <3>2
    <3>4. SureInv(t)'
      BY <1>1, <2>1, <2>3, <3>1
    <3>5. ReqInv(t)' /\ FailInv(t)'
      BY <1>1, <2>1, <2>2, <3>1
    <3>6. QED
      BY <3>3, <3>4, <3>5
  <2>4. CASE req[t].node \notin Content[req[t].mount]
    <3>1. pc'[t] = "returned" /\ ret'[t] = "mod" /\ handles' = handles
      BY <1>1, <1>14, <2>4 DEF OpenBoth, TypeOK
    <3>2. HandleInv(t)'
      BY <1>1, <2>1, <2>2, <3>1
    <3>3. SureInv(t)'
      BY <1>1, <2>1, <2>4, <3>1
    <3>4. ReqInv(t)' /\ FailInv(t)'
      BY <1>1, <2>1, <3>1
    <3>5. QED
      BY <3>2, <3>3, <3>4
  <2>5. QED
    BY <2>3, <2>4
<1>15. CASE OpenBothFails(t)
  BY <1>1, <1>6, <1>15 DEF OpenBothFails, HookFault, NewFails, TypeOK
<1>16. CASE Merge(t)
  BY <1>1, <1>6, <1>16 DEF Merge, NewFails, TypeOK
<1>17. CASE FindFileSystemFails(t)
  BY <1>1, <1>6, <1>17 DEF FindFileSystemFails, HookFault, NewFails, TypeOK
<1>18. CASE NewFails(t)
  <2>1. /\ pc[t] = "merge" /\ pc'[t] = "returned" /\ ret'[t] \in {"null", "hollow"} /\ hurt'[t]
        /\ handles' = handles /\ lost' = lost
        /\ outOfMemory'[t] = outOfMemory[t] + 1
    BY <1>1, <1>18 DEF NewFails, HookFault, TypeOK
  <2>2. handles[t] = {"mod", "romfs"} /\ lost[t] = 2 * outOfMemory[t]
    BY <1>1, <2>1
  <2>3. lost'[t] + 2 = 2 * outOfMemory'[t]
    BY <1>5, <2>1, <2>2
  <2>4. HandleInv(t)'
    BY <2>1, <2>2, <2>3
  <2>5. QED
    BY <1>1, <2>1, <2>4
<1>19. CASE OpenOriginal(t)
  <2>1. pc[t] = "original" /\ hurt' = hurt /\ lost' = lost /\ outOfMemory' = outOfMemory /\ key' = key
        /\ pc'[t] = "returned"
    BY <1>1, <1>19 DEF OpenOriginal, callFrame, historyFrame, TypeOK
  <2>2. handles[t] = {} /\ ~(sure[t] /\ ~hurt[t]) /\ req[t].op \in AllOps /\ lost[t] = 2 * outOfMemory[t]
    BY <1>1, <1>4, <2>1
  <2>3. ReqInv(t)' /\ SureInv(t)'
    BY <1>1, <2>1, <2>2
  <2>4. CASE req[t].node \in Content[req[t].mount] /\ req[t].op # "OpenDirectoryNull"
    <3>1. ret'[t] = "romfs"
      BY <1>1, <1>19, <2>4 DEF OpenOriginal, TypeOK
    <3>2. handles'[t] = IF req[t].op = "OpenFile" THEN {} ELSE {"romfs"}
      BY <1>1, <1>19, <2>2, <2>4 DEF OpenOriginal, TypeOK
    <3>3. HandleInv(t)'
      <4>1. CASE req[t].op = "OpenFile"
        BY <2>1, <2>2, <3>1, <3>2, <4>1
      <4>2. CASE req[t].op # "OpenFile"
        <5>1. req[t].op = "OpenDirectory"
          BY <2>2, <2>4, <4>2 DEF AllOps
        <5>2. QED
          BY <2>1, <2>2, <3>1, <3>2, <5>1
      <4>3. QED
        BY <4>1, <4>2
    <3>4. FailInv(t)'
      BY <3>1
    <3>5. QED
      BY <2>3, <3>3, <3>4
  <2>5. CASE ~(req[t].node \in Content[req[t].mount] /\ req[t].op # "OpenDirectoryNull")
    <3>1. ret'[t] = "fail" /\ handles' = handles
      BY <1>1, <1>19, <2>5 DEF OpenOriginal, TypeOK
    <3>2. HandleInv(t)' /\ FailInv(t)'
      BY <2>1, <2>2, <2>5, <3>1
    <3>3. QED
      BY <2>3, <3>2
  <2>6. QED
    BY <2>4, <2>5
<1>20. QED
  BY <1>8, <1>9, <1>10, <1>11, <1>12, <1>13, <1>14, <1>15, <1>16, <1>17, <1>18, <1>19 DEF HookStep

-----------------------------------------------------------------------------
(* The other steps. *)

(* Start-up and walk leave every call alone; the walk adds to the filter the bits   *)
(* of what it adds to the index.                                                   *)
LEMMA QuietStep ==
  ASSUME IInv, Quiet
  PROVE  IInv'
<1>1. TypeOK
  BY DEF IInv
<1>2. TypeOK'
  BY <1>1, StartUpType, WalkType DEF Quiet
<1>3. UNCHANGED <<callVars, mountVars, mod, sure, hurt>>
  BY DEF Quiet, WalkStep, WalkOpen, WalkOpenFails, WalkCount, WalkCountFails, WalkRead,
         WalkReadNothing, WalkReadFails, WalkSkip, WalkLock, WalkAdd, WalkClose,
         walkFrame, cardVars,
         MountSdCardFails, MountSdCard, InstallMountRom, InstallOpenFile,
         InstallOpenDirectory, Index, InitDone, Wake
<1>4. \/ mFilter' = mFilter /\ indexed' = indexed
      \/ /\ mFilter' = mFilter \cup BitsOf(EntryKey(Top))
         /\ indexed' = indexed \cup {EntryKey(Top)}
  BY DEF Quiet, WalkStep, WalkOpen, WalkOpenFails, WalkCount, WalkCountFails, WalkRead,
         WalkReadNothing, WalkReadFails, WalkSkip, WalkLock, WalkAdd, WalkClose, walkVars,
         MountSdCardFails, MountSdCard, InstallMountRom, InstallOpenFile,
         InstallOpenDirectory, Index, InitDone, Wake
<1>5. IndexedAreFound'
  BY <1>4 DEF IInv, IndexedAreFound
<1>6. ASSUME NEW u \in Threads PROVE ThreadInv(u)'
  <2>1. ThreadInv(u)
    BY DEF IInv
  <2>2. indexed \subseteq indexed'
    BY <1>4
  <2>3. QED
    BY <1>3, <2>1, <2>2, OtherThread DEF callVars, mountVars
<1>7. QED
  BY <1>2, <1>5, <1>6 DEF IInv

(* MountRom: a new mount point or length takes the certainty of every call in       *)
(* flight.                                                                          *)
LEMMA MountStep ==
  ASSUME IInv, NEW t \in Threads,
         (\E m \in Mounts : CallMountRom(t, m)) \/ SetMountPoint(t) \/ SetMountLength(t)
  PROVE  IInv'
<1> DEFINE Requests == [op : Ops \cup {None}, mount : Mounts \cup {None}, node : Paths \cup {None}]
<1>1. TypeOK /\ ThreadInv(t)
  BY DEF IInv
<1>2. /\ UNCHANGED hookFrame /\ UNCHANGED <<lost, outOfMemory, key, handles, ret, faults, hurt>>
      /\ pc[t] \in {"idle", "setPoint", "setLength"}
  BY DEF CallMountRom, SetMountPoint, SetMountLength, historyFrame
<1>3. \E p \in {"idle", "setPoint", "setLength"}, q \in Requests :
        /\ pc' = [pc EXCEPT ![t] = p]
        /\ req' = req \/ req' = [req EXCEPT ![t] = q]
        /\ p \in {"setPoint", "setLength"} => req'[t].mount \in Mounts
  <2>1. ASSUME NEW m \in Mounts, CallMountRom(t, m)
        PROVE  \E p \in {"idle", "setPoint", "setLength"}, q \in Requests :
                 /\ pc' = [pc EXCEPT ![t] = p]
                 /\ req' = req \/ req' = [req EXCEPT ![t] = q]
                 /\ p \in {"setPoint", "setLength"} => req'[t].mount \in Mounts
    <3> DEFINE q == [NoReq EXCEPT !.mount = m]
    <3>1. q \in Requests /\ q.mount = m
      BY DEF NoReq
    <3>2. CASE "MountRom" \in hooked
      <4>1. pc' = [pc EXCEPT ![t] = "setPoint"] /\ req' = [req EXCEPT ![t] = q]
        BY <2>1, <3>2 DEF CallMountRom
      <4>2. req'[t] = q
        BY <1>1, <4>1 DEF TypeOK
      <4> HIDE DEF q
      <4>3. QED
        BY <3>1, <4>1, <4>2
    <3>3. CASE "MountRom" \notin hooked
      <4>1. pc' = pc /\ req' = req /\ pc[t] = "idle"
        BY <2>1, <3>3 DEF CallMountRom
      <4>2. pc' = [pc EXCEPT ![t] = "idle"]
        BY <1>1, <4>1 DEF TypeOK
      <4> HIDE DEF q
      <4>3. QED
        BY <3>1, <4>1, <4>2
    <3>4. QED
      BY <3>2, <3>3
  <2>2. NoReq \in Requests
    BY DEF NoReq
  <2>3. CASE SetMountPoint(t)
    <3>1. /\ pc' = [pc EXCEPT ![t] = "setLength"] /\ req' = req /\ req[t].mount \in Mounts
      BY <1>1, <2>3 DEF SetMountPoint, ThreadInv, ReqInv
    <3>2. QED
      BY <2>2, <3>1
  <2>4. CASE SetMountLength(t)
    <3>1. pc' = [pc EXCEPT ![t] = "idle"] /\ req' = [req EXCEPT ![t] = NoReq]
      BY <2>4 DEF SetMountLength
    <3>2. QED
      BY <2>2, <3>1
  <2>5. QED
    BY <2>1, <2>3, <2>4
<1>4. PICK p \in {"idle", "setPoint", "setLength"}, q \in Requests :
        /\ pc' = [pc EXCEPT ![t] = p]
        /\ req' = req \/ req' = [req EXCEPT ![t] = q]
        /\ p \in {"setPoint", "setLength"} => req'[t].mount \in Mounts
  BY <1>3
<1>5. mountPoint' \in Mounts /\ mountLen' \in Nat /\ mounted' \subseteq Mounts
  <2>1. ASSUME NEW m \in Mounts, CallMountRom(t, m)
        PROVE  mountPoint' \in Mounts /\ mountLen' \in Nat /\ mounted' \subseteq Mounts
    BY <1>1, <2>1 DEF CallMountRom, TypeOK
  <2>2. CASE SetMountPoint(t)
    BY <1>1, <2>2 DEF SetMountPoint, TypeOK, ThreadInv, ReqInv
  <2>3. CASE SetMountLength(t)
    <3>1. MountLen[mountPoint] \in Nat /\ MountLen[req[t].mount] \in Nat
      BY <1>1, <2>3, LoaderAssumption DEF SetMountLength, TypeOK, ThreadInv, ReqInv
    <3>2. QED
      BY <1>1, <2>3, <3>1 DEF SetMountLength, TypeOK
  <2>4. QED
    BY <2>1, <2>2, <2>3
<1>6. /\ sure' \in [Threads -> BOOLEAN]
      /\ \A u \in Threads :
           sure'[u] => sure[u] /\ mountPoint' = mountPoint /\ mountLen' = mountLen
  <2>1. CASE \E m \in Mounts : CallMountRom(t, m)
    BY <1>1, <2>1 DEF CallMountRom, TypeOK
  <2>2. CASE SetMountPoint(t)
    <3>1. \A u \in Threads : (sure[u] /\ mountPoint' = mountPoint) \in BOOLEAN
      OBVIOUS
    <3>2. QED
      BY <1>1, <2>2, <3>1 DEF SetMountPoint
  <2>3. CASE SetMountLength(t)
    <3>1. \A u \in Threads : (sure[u] /\ mountLen' = mountLen) \in BOOLEAN
      OBVIOUS
    <3>2. QED
      BY <1>1, <2>3, <3>1 DEF SetMountLength
  <2>4. QED
    BY <2>1, <2>2, <2>3
<1>7. TypeOK'
  <2>1. /\ lost' \in [Threads -> Nat] /\ outOfMemory' \in [Threads -> Nat]
        /\ hurt' \in [Threads -> BOOLEAN] /\ faults' \in 0 .. MaxFaults
    BY <1>1, <1>2 DEF TypeOK
  <2>2. /\ p \in HookPCs \cup {"idle", "setPoint", "setLength", "returned"}
        /\ None \in Keys \cup {Root, None} /\ {} \in SUBSET {"mod", "romfs"}
        /\ None \in Results \cup {None}
    OBVIOUS
  <2>3. QED
    BY <1>1, <1>2, <1>4, <1>5, <1>6, <2>1, <2>2, CallType
<1>8. OnlyThread(t)
  BY <1>1, <1>2, <1>4 DEF OnlyThread, TypeOK
<1>9. pc'[t] = p
  BY <1>1, <1>4 DEF TypeOK
<1>10. ThreadInv(t)'
  <2>1. ~(sure[t] /\ ~hurt[t])
    BY <1>1, <1>2 DEF ThreadInv, SureInv, InHook, HookPCs
  <2>2. SureInv(t)'
    BY <1>2, <1>6, <2>1 DEF SureInv
  <2>3. HandleInv(t)'
    BY <1>1, <1>2, <1>9 DEF ThreadInv, HandleInv, Owed
  <2>4. ReqInv(t)' /\ FailInv(t)'
    BY <1>4, <1>9 DEF ReqInv, FailInv, InHook, HookPCs
  <2>5. QED
    BY <2>2, <2>3, <2>4 DEF ThreadInv
<1>11. QED
  BY <1>2, <1>6, <1>7, <1>8, <1>10, CallKeeps

(* The card changes: a removal takes the certainty of the calls for that path only.   *)
LEMMA CardStep ==
  ASSUME IInv, NEW n \in Nodes \cup {Root}, AddToMod(n) \/ RemoveFromMod(n)
  PROVE  IInv'
<1>1. TypeOK
  BY DEF IInv
<1>2. /\ UNCHANGED <<loaderVars, walkVars, mountVars, callVars, faults, hurt>>
      /\ changes < MaxChanges /\ changes' = changes + 1
      /\ mod' \subseteq mod \cup {n} /\ kept' \subseteq kept
      /\ removed' = removed \/ removed' = removed + 1
  BY DEF AddToMod, RemoveFromMod, cardFrame
<1>3. changes' \in 0 .. MaxChanges /\ removed' \in Nat
  BY <1>1, <1>2, LoaderAssumption DEF TypeOK
<1>4. dirty' \in BOOLEAN /\ sure' \in [Threads -> BOOLEAN]
  <2>1. CASE AddToMod(n)
    BY <1>1, <2>1 DEF AddToMod, TypeOK
  <2>2. CASE RemoveFromMod(n)
    <3>1. \A t \in Threads : (sure[t] /\ req[t].node # n) \in BOOLEAN
      OBVIOUS
    <3>2. QED
      BY <1>1, <2>2, <3>1 DEF RemoveFromMod, TypeOK
  <2>3. QED
    BY <2>1, <2>2
<1>5. TypeOK'
  BY <1>1, <1>2, <1>3, <1>4 DEF TypeOK, loaderVars, walkVars, mountVars, callVars
<1>6. IndexedAreFound'
  BY <1>2 DEF IInv, IndexedAreFound, walkVars
<1>7. ASSUME NEW u \in Threads PROVE ThreadInv(u)'
  <2>1. ThreadInv(u)
    BY DEF IInv
  <2>2. sure'[u] => sure[u] /\ (req[u].node \in mod => req[u].node \in mod')
    BY DEF AddToMod, RemoveFromMod
  <2>3. QED
    BY <1>2, <2>1, <2>2, OtherThread DEF walkVars, mountVars, callVars
<1>8. QED
  BY <1>5, <1>6, <1>7 DEF IInv

-----------------------------------------------------------------------------
(* The invariant, and what follows from it. *)

LEMMA InitIInv == Init => IInv
<1> SUFFICES ASSUME Init PROVE IInv
  OBVIOUS
<1>1. TypeOK
  BY InitTypeOK
<1>2. IndexedAreFound
  BY DEF Init, IndexedAreFound
<1>3. ASSUME NEW t \in Threads PROVE ThreadInv(t)
  <2>1. /\ pc[t] = "idle" /\ ~sure[t] /\ handles[t] = {}
        /\ lost[t] = 0 /\ outOfMemory[t] = 0
    BY DEF Init
  <2>2. HandleInv(t)
    BY <2>1 DEF HandleInv, Owed
  <2>3. QED
    BY <2>1, <2>2 DEF ThreadInv, ReqInv, SureInv, FailInv, InHook, HookPCs
<1>4. QED
  BY <1>1, <1>2, <1>3 DEF IInv

LEMMA NextIInv == IInv /\ [Next]_vars => IInv'
<1> SUFFICES ASSUME IInv, [Next]_vars PROVE IInv'
  OBVIOUS
<1>1. CASE Quiet
  BY <1>1, QuietStep
<1>2. ASSUME NEW t \in Threads,
             (\E m \in Mounts : CallMountRom(t, m)) \/ SetMountPoint(t) \/ SetMountLength(t)
      PROVE  IInv'
  BY <1>2, MountStep
<1>3. ASSUME NEW t \in Threads, NEW o \in Ops, NEW m \in Mounts, NEW n \in Paths,
             Call(t, o, m, n)
      PROVE  IInv'
  BY <1>3, CallStep
<1>4. ASSUME NEW t \in Threads, HookStep(t) PROVE IInv'
  <2>1. TypeOK
    BY DEF IInv
  <2>2. ThreadInv(t)'
    BY <1>4, HookStepOwn
  <2>3. TypeOK' /\ OnlyThread(t) /\ UNCHANGED hookFrame /\ UNCHANGED mountVars /\ sure' = sure
    BY <1>4, <2>1, HookStepFrame
  <2>4. mountPoint' = mountPoint /\ mountLen' = mountLen
    BY <2>3 DEF mountVars
  <2>5. QED
    BY <2>2, <2>3, <2>4, CallKeeps
<1>5. ASSUME NEW t \in Threads, Finish(t) PROVE IInv'
  BY <1>5, FinishStep
<1>6. ASSUME NEW n \in Nodes \cup {Root}, AddToMod(n) \/ RemoveFromMod(n) PROVE IInv'
  BY <1>6, CardStep
<1>7. CASE UNCHANGED vars
  <2>1. TypeOK'
    BY <1>7 DEF IInv, TypeOK, vars, loaderVars, walkVars, mountVars, callVars, cardVars, sinceVars
  <2>2. IndexedAreFound'
    BY <1>7 DEF IInv, IndexedAreFound, vars, walkVars
  <2>3. ASSUME NEW u \in Threads PROVE ThreadInv(u)'
    <3>1. ThreadInv(u)
      BY DEF IInv
    <3>2. QED
      BY <1>7, <3>1, OtherThread DEF vars, walkVars, mountVars, callVars, cardVars
  <2>4. QED
    BY <2>1, <2>2, <2>3 DEF IInv
<1>8. QED
  BY <1>1, <1>2, <1>3, <1>4, <1>5, <1>6, <1>7 DEF Next, Quiet

LEMMA Inductive == Spec => []IInv
  BY InitIInv, NextIInv, PTL DEF Spec

(* Every variable of the loader keeps its type: no count of a walk goes below zero,     *)
(* no key outside the tree is added.                                                    *)
THEOREM TypeCorrect == Spec => []TypeOK
<1>1. IInv => TypeOK
  BY DEF IInv
<1>2. QED
  BY <1>1, Inductive, PTL

(* A call for a path that was indexed before and stays in the mod gets the mod's file,   *)
(* or the merged directory, however the game's threads, the indexer and the owner of     *)
(* the card interleave with it.                                                         *)
THEOREM ModIsServed == Spec => []SureIsServed
<1>1. IInv => SureIsServed
  BY DEF IInv, ThreadInv, SureInv, SureIsServed
<1>2. QED
  BY <1>1, Inductive, PTL

(* OpenFile and OpenDirectory never fail on a path the romfs has: the fallback covers    *)
(* false positives, stale bits, torn mount points and removals in mid-call.              *)
THEOREM RomfsIsReachable == Spec => []RomfsStaysReachable
<1>1. IInv => RomfsStaysReachable
  BY DEF IInv, ThreadInv, FailInv, RomfsStaysReachable
<1>2. QED
  BY <1>1, Inductive, PTL

(* OpenDirectory closes no handle it needs or has given away, and of the handles it      *)
(* opens nobody can close exactly two for every call that ran out of memory.              *)
THEOREM NoHandleForgotten == Spec => []HandlesAccounted
<1>1. IInv => HandlesAccounted
  <2> SUFFICES ASSUME IInv, NEW t \in Threads
               PROVE  /\ Owed(t) \subseteq handles[t]
                      /\ lost[t] + Cardinality(handles[t] \ Owed(t)) = 2 * outOfMemory[t]
    BY DEF HandlesAccounted
  <2>1. HandleInv(t) /\ lost[t] \in Nat /\ outOfMemory[t] \in Nat
    BY DEF IInv, ThreadInv, TypeOK
  <2>2. CASE pc[t] = "returned" /\ ret[t] \in {"null", "hollow"}
    <3>1. Owed(t) = {}
      BY <2>2 DEF Owed, Given
    <3>2. handles[t] = {"mod", "romfs"} /\ lost[t] + 2 = 2 * outOfMemory[t]
      BY <2>1, <2>2 DEF HandleInv
    <3>3. handles[t] \ Owed(t) = {"mod", "romfs"}
      BY <3>1, <3>2
    <3>4. Cardinality({"mod", "romfs"}) = 2
      BY BothHandles
    <3>5. QED
      BY <3>1, <3>2, <3>3, <3>4
  <2>3. CASE ~(pc[t] = "returned" /\ ret[t] \in {"null", "hollow"})
    <3>1. handles[t] = Owed(t) /\ lost[t] = 2 * outOfMemory[t]
      BY <2>1, <2>3 DEF HandleInv
    <3>2. handles[t] \ Owed(t) = {}
      BY <3>1
    <3>3. Cardinality({}) = 0
      BY BothHandles
    <3>4. QED
      BY <2>1, <3>1, <3>2, <3>3
  <2>4. QED
    BY <2>2, <2>3
<1>2. QED
  BY <1>1, Inductive, PTL

-----------------------------------------------------------------------------
(* What a step of the walk does to the stack. *)

(* A step of the walk happens in an activation and leaves the start-up alone.            *)
LEMMA WalkStepFrame ==
  ASSUME WalkStep
  PROVE  stack # <<>> /\ UNCHANGED loaderVars
BY DEF WalkStep, At, WalkOpen, WalkOpenFails, WalkCount, WalkCountFails, WalkRead,
       WalkReadNothing, WalkReadFails, WalkSkip, WalkLock, WalkAdd, WalkClose,
         walkFrame

\* The innermost activation becomes f; it becomes f and calls itself for d; it
\* returns.
Replaced(f) ==
  /\ Len(stack') = Len(stack)
  /\ \A i \in 1 .. Len(stack) - 1 : stack'[i] = stack[i]
  /\ stack'[Len(stack)] = f

Called(f, d) ==
  /\ Len(stack') = Len(stack) + 1
  /\ \A i \in 1 .. Len(stack) - 1 : stack'[i] = stack[i]
  /\ stack'[Len(stack)] = f
  /\ stack'[Len(stack) + 1] = NewFrame(d)

Returned ==
  /\ Len(stack') = Len(stack) - 1
  /\ \A i \in 1 .. Len(stack) - 1 : stack'[i] = stack[i]

(* The stack with a new innermost activation.                                           *)
LEMMA SetTopIs ==
  ASSUME TypeOK, stack # <<>>, NEW f \in Frame
  PROVE  /\ SetTop(f) \in Seq(Frame)
         /\ Len(SetTop(f)) = Len(stack)
         /\ \A i \in 1 .. Len(stack) - 1 : SetTop(f)[i] = stack[i]
         /\ SetTop(f)[Len(stack)] = f
<1>1. stack \in Seq(Frame) /\ Len(stack) \in Nat \ {0} /\ Len(stack) \in DOMAIN stack
  BY TopType DEF TypeOK
<1>2. SetTop(f) \in Seq(Frame)
  BY StackType
<1>3. DOMAIN SetTop(f) = DOMAIN stack
  BY DEF SetTop
<1>4. Len(SetTop(f)) = Len(stack) /\ DOMAIN stack = 1 .. Len(stack)
  BY <1>1, <1>2, <1>3, LenProperties
<1>5. \A i \in 1 .. Len(stack) - 1 : i \in DOMAIN stack /\ i # Len(stack)
  BY <1>1, <1>4
<1>6. QED
  BY <1>1, <1>2, <1>4, <1>5 DEF SetTop

(* Replacing the innermost activation.                                                  *)
LEMMA ReplaceIs ==
  ASSUME TypeOK, stack # <<>>, NEW f \in Frame, stack' = SetTop(f)
  PROVE  Replaced(f)
BY SetTopIs DEF Replaced

(* Replacing it and calling from it.                                                    *)
LEMMA CallIs ==
  ASSUME TypeOK, stack # <<>>, NEW f \in Frame, NEW d \in Folders,
         stack' = Append(SetTop(f), NewFrame(d))
  PROVE  Called(f, d)
<1>1. Len(stack) \in Nat \ {0}
  BY TopType
<1> DEFINE s == SetTop(f)
<1>2. /\ s \in Seq(Frame) /\ Len(s) = Len(stack)
      /\ \A i \in 1 .. Len(stack) - 1 : s[i] = stack[i]
      /\ s[Len(stack)] = f
  BY SetTopIs
<1>3. stack' = Append(s, NewFrame(d)) /\ NewFrame(d) \in Frame
  BY NewFrameType
<1> HIDE DEF s
<1>4. /\ Len(stack') = Len(stack) + 1
      /\ \A i \in 1 .. Len(stack) : stack'[i] = s[i]
      /\ stack'[Len(stack) + 1] = NewFrame(d)
  BY <1>2, <1>3, AppendProperties
<1>5. \A i \in 1 .. Len(stack) - 1 : i \in 1 .. Len(stack)
  BY <1>1
<1>6. Len(stack) \in 1 .. Len(stack)
  BY <1>1
<1>7. QED
  BY <1>2, <1>4, <1>5, <1>6 DEF Called

(* Returning from it.                                                                   *)
LEMMA ReturnIs ==
  ASSUME TypeOK, stack # <<>>, Return
  PROVE  Returned
<1>1. stack \in Seq(Frame) /\ Len(stack) \in Nat \ {0}
  BY TopType DEF TypeOK
<1>2. \A i \in 1 .. Len(stack) - 1 : stack[i] \in Frame
  <2>1. \A i \in 1 .. Len(stack) - 1 : i \in 1 .. Len(stack)
    BY <1>1
  <2>2. QED
    BY <1>1, <2>1, ElementOfSeq
<1> DEFINE s == SubSeq(stack, 1, Len(stack) - 1)
<1>3. /\ Len(s) = IF 1 <= Len(stack) - 1 THEN Len(stack) - 1 - 1 + 1 ELSE 0
      /\ \A i \in 1 .. Len(stack) - 1 - 1 + 1 : s[i] = stack[1 + i - 1]
  BY <1>1, <1>2, SubSeqProperties
<1>4. stack' = s
  BY DEF Return
<1> HIDE DEF s
<1>5. Len(stack) - 1 - 1 + 1 = Len(stack) - 1 /\ \A i \in 1 .. Len(stack) - 1 : 1 + i - 1 = i
  BY <1>1
<1>6. Len(s) = Len(stack) - 1
  <2>1. \A l \in Nat \ {0} : (IF 1 <= l - 1 THEN l - 1 - 1 + 1 ELSE 0) = l - 1
    OBVIOUS
  <2>2. (IF 1 <= Len(stack) - 1 THEN Len(stack) - 1 - 1 + 1 ELSE 0) = Len(stack) - 1
    BY <1>1, <2>1
  <2>3. QED
    BY <1>3, <2>2
<1>7. \A i \in 1 .. Len(stack) - 1 : s[i] = stack[i]
  <2>1. TAKE i \in 1 .. Len(stack) - 1
  <2>2. i \in 1 .. Len(stack) - 1 - 1 + 1 /\ 1 + i - 1 = i
    BY <1>5
  <2>3. s[i] = stack[1 + i - 1]
    BY <1>3, <2>2
  <2>4. QED
    BY <2>2, <2>3
<1>8. QED
  BY <1>4, <1>6, <1>7 DEF Returned

\* The innermost activation after each step that does not return.
AfterRead(e) == [Top EXCEPT !.pc = "add", !.left = @ - 1, !.seen = @ \cup {e}, !.entry = e]
AfterNothing == [Top EXCEPT !.pc = "add", !.left = @ - 1, !.entry = None]
AfterCount == [Top EXCEPT !.pc = "read", !.left = Cardinality(Children(Top.dir))]

(* Every step of the walk replaces the innermost activation, calls from it or          *)
(* returns from it.                                                                    *)
LEMMA WalkMoves ==
  ASSUME TypeOK, WalkStep
  PROVE  /\ WalkOpen => Replaced([Top EXCEPT !.pc = "count"])
         /\ WalkCount => AfterCount \in Frame /\ Replaced(AfterCount)
         /\ WalkRead => \E e \in Children(Top.dir) \ Top.seen :
                          /\ e \in Nodes /\ AfterRead(e) \in Frame
                          /\ IF e \in Dirs THEN Called(AfterRead(e), e) ELSE Replaced(AfterRead(e))
         /\ WalkReadNothing => AfterNothing \in Frame /\ Called(AfterNothing, Top.dir)
         /\ WalkReadFails => /\ [Top EXCEPT !.left = @ - 1] \in Frame
                             /\ Replaced([Top EXCEPT !.left = @ - 1])
         /\ WalkSkip => Replaced([Top EXCEPT !.pc = "read"])
         /\ WalkLock => Replaced([Top EXCEPT !.pc = "locked"])
         /\ WalkAdd => Replaced([Top EXCEPT !.pc = "read", !.entry = None])
         /\ (WalkOpenFails \/ WalkCountFails \/ WalkClose) => Returned
<1>1. stack # <<>> /\ Top \in Frame
  BY WalkStepFrame, TopType
<1>2. WalkOpen => Replaced([Top EXCEPT !.pc = "count"])
  <2>1. [Top EXCEPT !.pc = "count"] \in Frame
    BY <1>1 DEF Frame, WalkPCs
  <2>2. QED
    BY <1>1, <2>1, ReplaceIs DEF WalkOpen
<1>3. WalkCount => AfterCount \in Frame /\ Replaced(AfterCount)
  <2>1. Cardinality(Children(Top.dir)) \in Nat
    BY CountType
  <2>2. AfterCount \in Frame
    BY <1>1, <2>1 DEF Frame, WalkPCs, AfterCount
  <2>3. WalkCount => stack' = SetTop(AfterCount)
    BY DEF WalkCount, AfterCount
  <2>4. QED
    BY <1>1, <2>2, <2>3, ReplaceIs
<1>4. ASSUME WalkRead
      PROVE  \E e \in Children(Top.dir) \ Top.seen :
               /\ e \in Nodes /\ AfterRead(e) \in Frame
               /\ IF e \in Dirs THEN Called(AfterRead(e), e) ELSE Replaced(AfterRead(e))
  <2>1. PICK e \in Children(Top.dir) \ Top.seen :
          stack' = IF e \in Dirs THEN Append(SetTop(AfterRead(e)), NewFrame(e))
                                 ELSE SetTop(AfterRead(e))
    BY <1>4 DEF WalkRead, AfterRead
  <2>2. e \in Nodes
    BY DEF Children
  <2>3. Top.left - 1 \in Nat /\ Top.seen \cup {e} \in SUBSET Nodes
    BY <1>1, <1>4, <2>2 DEF WalkRead, Frame
  <2>4. AfterRead(e) \in Frame
    BY <1>1, <2>2, <2>3 DEF Frame, WalkPCs, AfterRead
  <2>5. e \in Dirs => Called(AfterRead(e), e)
    BY <1>1, <2>1, <2>4, CallIs DEF Folders
  <2>6. e \notin Dirs => Replaced(AfterRead(e))
    BY <1>1, <2>1, <2>4, ReplaceIs
  <2>7. QED
    BY <2>2, <2>4, <2>5, <2>6
<1>5. ASSUME WalkReadNothing
      PROVE  AfterNothing \in Frame /\ Called(AfterNothing, Top.dir)
  <2>1. Top.left - 1 \in Nat
    BY <1>1, <1>5 DEF WalkReadNothing, Frame
  <2>2. AfterNothing \in Frame /\ Top.dir \in Folders
    BY <1>1, <2>1 DEF Frame, WalkPCs, AfterNothing
  <2>3. stack' = Append(SetTop(AfterNothing), NewFrame(Top.dir))
    BY <1>5 DEF WalkReadNothing, AfterNothing
  <2>4. QED
    BY <1>1, <2>2, <2>3, CallIs
<1>6. ASSUME WalkReadFails
      PROVE  /\ [Top EXCEPT !.left = @ - 1] \in Frame
             /\ Replaced([Top EXCEPT !.left = @ - 1])
  <2>1. Top.left - 1 \in Nat
    BY <1>1, <1>6 DEF WalkReadFails, Frame
  <2>2. [Top EXCEPT !.left = @ - 1] \in Frame
    BY <1>1, <2>1 DEF Frame
  <2>3. QED
    BY <1>1, <1>6, <2>2, ReplaceIs DEF WalkReadFails
<1>7. WalkAdd => Replaced([Top EXCEPT !.pc = "read", !.entry = None])
  <2>1. [Top EXCEPT !.pc = "read", !.entry = None] \in Frame
    BY <1>1 DEF Frame, WalkPCs
  <2>2. QED
    BY <1>1, <2>1, ReplaceIs DEF WalkAdd
<1>8. (WalkOpenFails \/ WalkCountFails \/ WalkClose) => Returned
  BY <1>1, ReturnIs DEF WalkOpenFails, WalkCountFails, WalkClose
<1>9. WalkSkip => Replaced([Top EXCEPT !.pc = "read"])
  <2>1. [Top EXCEPT !.pc = "read"] \in Frame
    BY <1>1 DEF Frame, WalkPCs
  <2>2. QED
    BY <1>1, <2>1, ReplaceIs DEF WalkSkip
<1>10. WalkLock => Replaced([Top EXCEPT !.pc = "locked"])
  <2>1. [Top EXCEPT !.pc = "locked"] \in Frame
    BY <1>1 DEF Frame, WalkPCs
  <2>2. QED
    BY <1>1, <2>1, ReplaceIs DEF WalkLock
<1>11. QED
  BY <1>2, <1>3, <1>4, <1>5, <1>6, <1>7, <1>8, <1>9, <1>10

-----------------------------------------------------------------------------
(* The walk and the start-up: when there is an activation, and what handles it holds. *)

\* Nothing walks before the start-up indexes.
StartUpInv ==
  phase \in {"mount", "hookMountRom", "hookOpenFile", "hookOpenDirectory", "index"} => stack = <<>>

\* The activations that are past their open.
Held == {i \in DOMAIN stack : stack[i].pc # "open"}

WInv == StartUpInv /\ WalkHandlesAccounted

(* What a step of the walk keeps of the start-up.                                        *)
LEMMA WalkKeepsStartUp ==
  ASSUME StartUpInv, stack # <<>>, UNCHANGED loaderVars
  PROVE  StartUpInv'
BY DEF StartUpInv, loaderVars

(* Only the innermost activation's place changes the activations that hold a handle.      *)
LEMMA HeldFinite ==
  ASSUME TypeOK
  PROVE  /\ IsFiniteSet(Held)
         /\ Cardinality(Held) \in Nat
<1>1. stack \in Seq(Frame)
  BY DEF TypeOK
<1>2. DOMAIN stack = 1 .. Len(stack) /\ Len(stack) \in Nat
  BY <1>1, LenProperties
<1>3. IsFiniteSet(1 .. Len(stack))
  BY <1>2, FS_Interval
<1>4. Held \subseteq 1 .. Len(stack)
  BY <1>2 DEF Held
<1>5. QED
  BY <1>3, <1>4, FS_Subset, FS_CardinalityType

(* An activation that stays where it is keeps the handles; one that has opened has one   *)
(* more.                                                                                *)
LEMMA HeldReplaced ==
  ASSUME TypeOK, stack # <<>>, NEW f \in Frame, stack' \in Seq(Frame), Replaced(f)
  PROVE  /\ (Top.pc # "open" /\ f.pc # "open") => Held' = Held
         /\ (Top.pc = "open" /\ f.pc # "open") =>
              Held' = Held \cup {Len(stack)} /\ Len(stack) \notin Held
<1>1. stack \in Seq(Frame) /\ Len(stack) \in Nat \ {0}
  BY TopType DEF TypeOK
<1>2. DOMAIN stack' = 1 .. Len(stack) /\ DOMAIN stack = 1 .. Len(stack)
  BY <1>1, LenProperties DEF Replaced
<1>3. \A i \in 1 .. Len(stack) : i = Len(stack) \/ i \in 1 .. Len(stack) - 1
  BY <1>1
<1>4. \A i \in (1 .. Len(stack)) \ {Len(stack)} : stack'[i] = stack[i]
  BY <1>3 DEF Replaced
<1>5. stack'[Len(stack)] = f /\ Len(stack) \in 1 .. Len(stack)
  BY <1>1 DEF Replaced
<1>6. QED
  BY <1>2, <1>4, <1>5 DEF Held, Top

(* Likewise when it also calls itself: the new activation has not opened yet.            *)
LEMMA HeldCalled ==
  ASSUME TypeOK, stack # <<>>, NEW f \in Frame, NEW d \in Folders, stack' \in Seq(Frame),
         Top.pc # "open", f.pc # "open", Called(f, d)
  PROVE  Held' = Held
<1>1. stack \in Seq(Frame) /\ Len(stack) \in Nat \ {0}
  BY TopType DEF TypeOK
<1>2. DOMAIN stack' = 1 .. Len(stack) + 1 /\ DOMAIN stack = 1 .. Len(stack)
  BY <1>1, LenProperties DEF Called
<1>3. stack'[Len(stack) + 1].pc = "open" /\ stack'[Len(stack)].pc # "open"
  BY DEF Called, NewFrame
<1>4. \A i \in 1 .. Len(stack) - 1 : stack'[i] = stack[i]
  BY DEF Called
<1>5. \A i \in 1 .. Len(stack) + 1 :
        i = Len(stack) + 1 \/ i = Len(stack) \/ i \in 1 .. Len(stack) - 1
  BY <1>1
<1>6. \A i \in 1 .. Len(stack) : i \in 1 .. Len(stack) + 1 /\ i # Len(stack) + 1
  BY <1>1
<1>7. ASSUME NEW i \in Held PROVE i \in Held'
  <2>1. i \in 1 .. Len(stack) /\ stack[i].pc # "open"
    BY <1>2 DEF Held
  <2>2. stack'[i].pc # "open" /\ i \in 1 .. Len(stack) + 1
    BY <1>3, <1>4, <1>5, <1>6, <2>1
  <2>3. QED
    BY <1>2, <2>2 DEF Held
<1>8. ASSUME NEW i \in Held' PROVE i \in Held
  <2>1. i \in 1 .. Len(stack) + 1 /\ stack'[i].pc # "open"
    BY <1>2 DEF Held
  <2>2. i = Len(stack) \/ i \in 1 .. Len(stack) - 1
    BY <1>3, <1>5, <2>1
  <2>3. stack[i].pc # "open" /\ i \in 1 .. Len(stack)
    BY <1>1, <1>4, <2>1, <2>2 DEF Top
  <2>4. QED
    BY <1>2, <2>3 DEF Held
<1>9. QED
  BY <1>7, <1>8

(* An activation that returns takes its handle away, if it has one.                     *)
LEMMA HeldReturned ==
  ASSUME TypeOK, stack # <<>>, stack' \in Seq(Frame), Returned
  PROVE  /\ Top.pc = "open" => Held' = Held
         /\ Top.pc # "open" => Held' = Held \ {Len(stack)} /\ Len(stack) \in Held
<1>1. stack \in Seq(Frame) /\ Len(stack) \in Nat \ {0}
  BY TopType DEF TypeOK
<1>2. DOMAIN stack' = 1 .. Len(stack) - 1 /\ DOMAIN stack = 1 .. Len(stack)
  BY <1>1, LenProperties DEF Returned
<1>3. Held' = {i \in 1 .. Len(stack) - 1 : stack[i].pc # "open"}
  BY <1>2 DEF Held, Returned
<1>4. Held = {i \in 1 .. Len(stack) : stack[i].pc # "open"}
  BY <1>2 DEF Held
<1>5. 1 .. Len(stack) - 1 = (1 .. Len(stack)) \ {Len(stack)} /\ Len(stack) \in 1 .. Len(stack)
  BY <1>1
<1>6. QED
  BY <1>3, <1>4, <1>5 DEF Top

(* The walk's count of handles follows the activations that hold one.                    *)
LEMMA WalkKeepsHandles ==
  ASSUME TypeOK, WalkHandlesAccounted, WalkStep
  PROVE  WalkHandlesAccounted'
<1>1. /\ stack # <<>> /\ Top \in Frame /\ stack' \in Seq(Frame)
      /\ IsFiniteSet(Held) /\ Cardinality(Held) \in Nat
  BY WalkStepFrame, TopType, HeldFinite, WalkType DEF TypeOK
<1>2. walkHandles = Cardinality(Held)
  BY DEF WalkHandlesAccounted, Held
<1>3. SUFFICES walkHandles' = Cardinality(Held')
  BY DEF WalkHandlesAccounted, Held
<1>4. ASSUME NEW f \in Frame, f.pc # "open", Top.pc # "open", walkHandles' = walkHandles,
             Replaced(f) \/ \E d \in Folders : Called(f, d)
      PROVE  walkHandles' = Cardinality(Held')
  BY <1>1, <1>2, <1>4, HeldReplaced, HeldCalled
<1>5. ASSUME Top.pc # "open", Returned, walkHandles' = walkHandles - 1
      PROVE  walkHandles' = Cardinality(Held')
  <2>1. Held' = Held \ {Len(stack)} /\ Len(stack) \in Held
    BY <1>1, <1>5, HeldReturned
  <2>2. Cardinality(Held \ {Len(stack)}) = Cardinality(Held) - 1
    BY <1>1, <2>1, FS_RemoveElement
  <2>3. QED
    BY <1>2, <1>5, <2>1, <2>2
<1>6. CASE WalkOpen
  <2> DEFINE f == [Top EXCEPT !.pc = "count"]
  <2>1. f \in Frame /\ f.pc = "count"
    BY <1>1 DEF Frame, WalkPCs
  <2>2. Top.pc = "open" /\ Replaced(f) /\ walkHandles' = walkHandles + 1
    BY <1>6, WalkMoves DEF WalkOpen, At
  <2> HIDE DEF f
  <2>3. Held' = Held \cup {Len(stack)} /\ Len(stack) \notin Held
    BY <1>1, <2>1, <2>2, HeldReplaced
  <2>4. QED
    BY <1>1, <1>2, <2>2, <2>3, FS_AddElement
<1>7. CASE WalkOpenFails
  <2>1. Top.pc = "open" /\ Returned /\ walkHandles' = walkHandles
    BY <1>7, WalkMoves DEF WalkOpenFails, At
  <2>2. QED
    BY <1>1, <1>2, <2>1, HeldReturned
<1>8. CASE WalkCountFails \/ WalkClose
  <2>1. Top.pc # "open" /\ Returned /\ walkHandles' = walkHandles - 1
    BY <1>8, WalkMoves DEF WalkCountFails, WalkClose, At
  <2>2. QED
    BY <1>5, <2>1
<1>9. CASE WalkCount
  <2>1. AfterCount \in Frame /\ Replaced(AfterCount) /\ Top.pc # "open" /\ walkHandles' = walkHandles
    BY <1>9, WalkMoves DEF WalkCount, At
  <2>2. AfterCount.pc = "read"
    BY <1>1 DEF AfterCount, Frame
  <2>3. QED
    BY <1>4, <2>1, <2>2
<1>10. CASE WalkRead
  <2>1. PICK e \in Children(Top.dir) \ Top.seen :
               /\ e \in Nodes /\ AfterRead(e) \in Frame
               /\ IF e \in Dirs THEN Called(AfterRead(e), e) ELSE Replaced(AfterRead(e))
    BY <1>10, WalkMoves
  <2>2. AfterRead(e).pc = "add" /\ Top.pc # "open" /\ walkHandles' = walkHandles
    BY <1>1, <1>10 DEF AfterRead, Frame, WalkRead, At
  <2>3. Replaced(AfterRead(e)) \/ \E d \in Folders : Called(AfterRead(e), d)
    BY <2>1 DEF Folders
  <2>4. QED
    BY <1>4, <2>1, <2>2, <2>3
<1>11. CASE WalkReadNothing
  <2>1. /\ AfterNothing \in Frame /\ Called(AfterNothing, Top.dir)
        /\ Top.pc # "open" /\ walkHandles' = walkHandles
    BY <1>11, WalkMoves DEF WalkReadNothing, At
  <2>2. AfterNothing.pc = "add" /\ Top.dir \in Folders
    BY <1>1 DEF AfterNothing, Frame
  <2>3. QED
    BY <1>4, <2>1, <2>2
<1>12. CASE WalkReadFails
  <2> DEFINE f == [Top EXCEPT !.left = @ - 1]
  <2>1. f \in Frame /\ Replaced(f) /\ Top.pc = "read" /\ walkHandles' = walkHandles
    BY <1>12, WalkMoves DEF WalkReadFails, At
  <2>2. f.pc = "read"
    BY <1>1, <2>1 DEF Frame
  <2> HIDE DEF f
  <2>3. QED
    BY <1>4, <2>1, <2>2
<1>13. CASE WalkAdd
  <2> DEFINE f == [Top EXCEPT !.pc = "read", !.entry = None]
  <2>1. f \in Frame /\ f.pc = "read"
    BY <1>1 DEF Frame, WalkPCs
  <2>2. Replaced(f) /\ Top.pc # "open" /\ walkHandles' = walkHandles
    BY <1>13, WalkMoves DEF WalkAdd, At
  <2> HIDE DEF f
  <2>3. QED
    BY <1>4, <2>1, <2>2
<1>14. CASE WalkSkip
  <2> DEFINE f == [Top EXCEPT !.pc = "read"]
  <2>1. f \in Frame /\ f.pc = "read"
    BY <1>1 DEF Frame, WalkPCs
  <2>2. Replaced(f) /\ Top.pc # "open" /\ walkHandles' = walkHandles
    BY <1>14, WalkMoves DEF WalkSkip, At
  <2> HIDE DEF f
  <2>3. QED
    BY <1>4, <2>1, <2>2
<1>15. CASE WalkLock
  <2> DEFINE f == [Top EXCEPT !.pc = "locked"]
  <2>1. f \in Frame /\ f.pc = "locked"
    BY <1>1 DEF Frame, WalkPCs
  <2>2. Replaced(f) /\ Top.pc # "open" /\ walkHandles' = walkHandles
    BY <1>15, WalkMoves DEF WalkLock, At
  <2> HIDE DEF f
  <2>3. QED
    BY <1>4, <2>1, <2>2
<1>16. QED
  BY <1>6, <1>7, <1>8, <1>9, <1>10, <1>11, <1>12, <1>13, <1>14, <1>15 DEF WalkStep

(* A walk begins with an activation that has opened nothing.                            *)
LEMMA StartWalkHandles ==
  ASSUME WalkHandlesAccounted, stack = <<>>, StartWalk, walkHandles' = walkHandles
  PROVE  WalkHandlesAccounted'
<1>1. Held = {} /\ walkHandles = Cardinality(Held)
  BY DEF Held, WalkHandlesAccounted
<1>2. stack' = <<NewFrame(Root)>> /\ NewFrame(Root).pc = "open"
  BY DEF StartWalk, NewFrame
<1>3. \A i \in DOMAIN stack' : stack'[i].pc = "open"
  BY <1>2
<1>4. Held' = {}
  BY <1>3 DEF Held
<1>5. QED
  BY <1>1, <1>4 DEF WalkHandlesAccounted, Held

(* Nothing walks at the start.                                                          *)
LEMMA InitWInv == Init => WInv
<1> SUFFICES ASSUME Init PROVE WInv
  OBVIOUS
<1>1. stack = <<>> /\ phase = "mount" /\ hooked = {} /\ walkHandles = 0
  BY DEF Init
<1>2. {i \in DOMAIN stack : stack[i].pc # "open"} = {}
  BY <1>1
<1>3. WalkHandlesAccounted
  BY <1>1, <1>2, FS_EmptySet DEF WalkHandlesAccounted
<1>4. QED
  BY <1>1, <1>3 DEF WInv, StartUpInv

(* Every step keeps the order of the start-up and the count of the handles.             *)
LEMMA NextWInv == TypeOK /\ WInv /\ [Next]_vars => WInv'
<1> SUFFICES ASSUME TypeOK, WInv, [Next]_vars PROVE WInv'
  OBVIOUS
<1>1. ASSUME stack' = stack, walkHandles' = walkHandles, UNCHANGED loaderVars
      PROVE  WInv'
  BY <1>1 DEF WInv, StartUpInv, WalkHandlesAccounted, loaderVars
<1>2. CASE \/ MountSdCardFails \/ MountSdCard
           \/ InstallMountRom \/ InstallOpenFile \/ InstallOpenDirectory
  <2>1. stack' = stack /\ walkHandles' = walkHandles
    BY <1>2
       DEF MountSdCardFails, MountSdCard, InstallMountRom, InstallOpenFile, InstallOpenDirectory,
           walkVars
  <2>2. WalkHandlesAccounted'
    BY <2>1 DEF WInv, WalkHandlesAccounted
  <2>3. StartUpInv'
    BY <1>2, <2>1
       DEF WInv, StartUpInv, MountSdCardFails, MountSdCard, InstallMountRom,
           InstallOpenFile, InstallOpenDirectory
  <2>4. QED
    BY <2>2, <2>3 DEF WInv
<1>3. CASE Index
  <2>1. stack = <<>> /\ StartWalk /\ walkHandles' = walkHandles /\ phase' = "indexing"
    BY <1>3 DEF Index, WInv, StartUpInv
  <2>2. QED
    BY <2>1, StartWalkHandles DEF WInv, StartUpInv
<1>4. CASE InitDone
  <2>1. stack' = stack /\ walkHandles' = walkHandles /\ phase' = "run"
    BY <1>4 DEF InitDone, walkVars
  <2>2. QED
    BY <2>1 DEF WInv, StartUpInv, WalkHandlesAccounted
<1>5. CASE Wake
  <2>1. stack = <<>> /\ StartWalk /\ walkHandles' = walkHandles /\ UNCHANGED loaderVars
        /\ phase = "run"
    BY <1>5 DEF Wake
  <2>2. WalkHandlesAccounted'
    BY <2>1, StartWalkHandles DEF WInv
  <2>3. QED
    BY <2>1, <2>2 DEF WInv, StartUpInv, loaderVars
<1>6. CASE WalkStep
  BY <1>6, WalkStepFrame, WalkKeepsStartUp, WalkKeepsHandles DEF WInv
<1>7. ASSUME NEW t \in Threads,
             (\E m \in Mounts : CallMountRom(t, m)) \/ SetMountPoint(t) \/ SetMountLength(t)
      PROVE  WInv'
  BY <1>1, <1>7 DEF CallMountRom, SetMountPoint, SetMountLength, hookFrame, walkVars
<1>8. ASSUME NEW t \in Threads, NEW o \in Ops, NEW m \in Mounts, NEW n \in Paths,
             Call(t, o, m, n)
      PROVE  WInv'
  BY <1>1, <1>8 DEF Call, hookFrame, walkVars
<1>9. ASSUME NEW t \in Threads, HookStep(t) PROVE WInv'
  BY <1>1, <1>9
     DEF HookStep, CheckDelimiter, LookUpNothing, AcquireShared, LookUp, OpenMod, OpenModFails,
         OpenBoth, OpenBothFails, Merge, FindFileSystemFails, NewFails, OpenOriginal,
         callFrame, hookFrame, walkVars, loaderVars
<1>10. ASSUME NEW t \in Threads, Finish(t) PROVE WInv'
  BY <1>1, <1>10 DEF Finish, hookFrame, walkVars
<1>11. ASSUME NEW n \in Nodes \cup {Root}, AddToMod(n) \/ RemoveFromMod(n) PROVE WInv'
  BY <1>1, <1>11 DEF AddToMod, RemoveFromMod, cardFrame, walkVars
<1>12. CASE UNCHANGED vars
  BY <1>1, <1>12 DEF vars, walkVars
<1>13. QED
  BY <1>2, <1>3, <1>4, <1>5, <1>6, <1>7, <1>8, <1>9, <1>10, <1>11, <1>12 DEF Next

(* So both are invariants.                                                              *)
LEMMA WalkInductive == Spec => []WInv
<1>1. IInv => TypeOK
  BY DEF IInv
<1>2. QED
  BY <1>1, Inductive, InitWInv, NextWInv, PTL DEF Spec

(* ProcessDirectoryRecursive holds one handle per activation past its open, whatever      *)
(* fails and however deep it is, so a walk that has returned has closed them all.       *)
THEOREM WalkClosesAll == Spec => []WalkHandlesAccounted
<1>1. WInv => WalkHandlesAccounted
  BY DEF WInv
<1>2. QED
  BY <1>1, WalkInductive, PTL

-----------------------------------------------------------------------------
(* The depth of the recursion. *)

\* The activations up to the k-th that were entered again from themselves.
Links(k) == {i \in 1 .. k - 1 : stack[i].dir = stack[i + 1].dir}

\* What an activation has still to be given.
Rest(f) == Children(f.dir) \ f.seen

\* An activation with c re-entered ones up to it can read at most as many nameless
\* entries more as the removals leave room for: what it counted is what it has still
\* to be given, but for a removal each.
Roomy(f, c) ==
  /\ c <= removed
  /\ f.pc \in {"read", "add", "locked"} => c + f.left <= removed + Cardinality(Rest(f))
  /\ f.pc \in {"open", "count"} => f.seen = {}

DInv == \A k \in 1 .. Len(stack) : Roomy(stack[k], Cardinality(Links(k)))

(* What is left of a directory is a finite set.                                         *)
LEMMA RestType ==
  ASSUME NEW f
  PROVE  IsFiniteSet(Rest(f)) /\ Cardinality(Rest(f)) \in Nat
<1>1. Rest(f) \in SUBSET Nodes
  BY DEF Rest, Children
<1>2. QED
  BY <1>1, LoaderAssumption, FS_Subset, FS_CardinalityType

(* One activation more is at most one re-entered activation more.                       *)
LEMMA LinksType ==
  ASSUME NEW k \in Nat
  PROVE  /\ IsFiniteSet(Links(k)) /\ Cardinality(Links(k)) \in Nat
         /\ IsFiniteSet(Links(k + 1))
         /\ Cardinality(Links(k + 1)) \in {Cardinality(Links(k)), Cardinality(Links(k)) + 1}
         /\ (k > 0 /\ stack[k].dir # stack[k + 1].dir) => Links(k + 1) = Links(k)
<1>1. Links(k) \in SUBSET (1 .. k - 1)
  BY DEF Links
<1>2. IsFiniteSet(1 .. k - 1)
  BY FS_Interval
<1>3. IsFiniteSet(Links(k)) /\ Cardinality(Links(k)) \in Nat
  BY <1>1, <1>2, FS_Subset, FS_CardinalityType
<1>4. CASE k = 0
  <2>1. 1 .. k - 1 = {} /\ 1 .. (k + 1) - 1 = {}
    BY <1>4
  <2>2. Links(k + 1) = {} /\ Links(k) = {}
    BY <2>1 DEF Links
  <2>3. QED
    BY <1>3, <1>4, <2>2
<1>5. CASE k > 0
  <2>1. 1 .. (k + 1) - 1 = (1 .. k - 1) \cup {k}
    BY <1>5
  <2>2. Links(k + 1) = IF stack[k].dir = stack[k + 1].dir THEN Links(k) \cup {k} ELSE Links(k)
    BY <2>1 DEF Links
  <2>3. IsFiniteSet(Links(k) \cup {k})
        /\ Cardinality(Links(k) \cup {k}) \in {Cardinality(Links(k)), Cardinality(Links(k)) + 1}
    BY <1>3, FS_AddElement
  <2>4. QED
    BY <1>3, <2>2, <2>3
<1>6. QED
  BY <1>3, <1>4, <1>5

(* Links looks at the directories of the first k activations only.                      *)
LEMMA LinksKept ==
  ASSUME NEW k \in Nat, \A i \in 1 .. k : stack'[i].dir = stack[i].dir
  PROVE  Links(k)' = Links(k)
<1>1. \A i \in 1 .. k - 1 : i \in 1 .. k /\ i + 1 \in 1 .. k
  OBVIOUS
<1>2. Links(k)' = {i \in 1 .. k - 1 : stack'[i].dir = stack'[i + 1].dir}
  BY DEF Links
<1>3. QED
  BY <1>1, <1>2 DEF Links

(* A step that replaces the innermost activation by a roomy one of the same directory.   *)
LEMMA DepthReplaced ==
  ASSUME TypeOK, stack # <<>>, DInv, UNCHANGED <<mod, removed>>, NEW f, Replaced(f), f.dir = Top.dir,
         Roomy(f, Cardinality(Links(Len(stack))))
  PROVE  DInv'
<1>1. Len(stack) \in Nat \ {0}
  BY TopType
<1>2. ASSUME NEW k \in 1 .. Len(stack)
      PROVE  Links(k)' = Links(k)
  <2>1. \A i \in 1 .. k : i \in 1 .. Len(stack) - 1 \/ i = Len(stack)
    BY <1>1
  <2>2. \A i \in 1 .. k : stack'[i].dir = stack[i].dir
    BY <2>1 DEF Replaced, Top
  <2>3. k \in Nat
    BY <1>1
  <2>4. QED
    BY <2>2, <2>3, LinksKept
<1>3. \A g, c : Roomy(g, c)' = Roomy(g, c)
  BY DEF Roomy, Rest, Children
<1>4. ASSUME NEW k \in 1 .. Len(stack)
      PROVE  Roomy(stack'[k], Cardinality(Links(k)))
  <2>1. CASE k = Len(stack)
    BY <2>1 DEF Replaced
  <2>2. CASE k # Len(stack)
    <3>1. k \in 1 .. Len(stack) - 1
      BY <1>1, <2>2
    <3>2. QED
      BY <3>1 DEF DInv, Replaced
  <2>3. QED
    BY <2>1, <2>2
<1>5. QED
  BY <1>2, <1>3, <1>4 DEF DInv, Replaced

(* A step that also calls from it, for another directory or while the removals leave    *)
(* room.                                                                                *)
LEMMA DepthCalled ==
  ASSUME TypeOK, stack # <<>>, DInv, UNCHANGED <<mod, removed>>, NEW f, NEW d, Called(f, d),
         f.dir = Top.dir, Roomy(f, Cardinality(Links(Len(stack)))),
         d = Top.dir => Cardinality(Links(Len(stack))) + 1 <= removed
  PROVE  DInv'
<1>1. Len(stack) \in Nat \ {0}
  BY TopType
<1>2. PICK n \in Nat \ {0} : n = Len(stack)
  BY <1>1
<1>3. ASSUME NEW k \in 1 .. n
      PROVE  Links(k)' = Links(k)
  <2>1. \A i \in 1 .. k : i \in 1 .. Len(stack) - 1 \/ i = Len(stack)
    BY <1>2
  <2>2. \A i \in 1 .. k : stack'[i].dir = stack[i].dir
    BY <2>1 DEF Called, Top
  <2>3. k \in Nat
    BY <1>2
  <2>4. QED
    BY <2>2, <2>3, LinksKept
<1>4. \A g, c : Roomy(g, c)' = Roomy(g, c)
  BY DEF Roomy, Rest, Children
<1>5. ASSUME NEW k \in 1 .. n
      PROVE  Roomy(stack'[k], Cardinality(Links(k)))
  <2>1. CASE k = n
    BY <1>2, <2>1 DEF Called
  <2>2. CASE k # n
    <3>1. k \in 1 .. Len(stack) - 1
      BY <1>2, <2>2
    <3>2. QED
      BY <1>2, <3>1 DEF DInv, Called
  <2>3. QED
    BY <2>1, <2>2
<1>6. Links(n + 1)' = IF f.dir = d THEN Links(n) \cup {n} ELSE Links(n)
  <2>1. Links(n + 1)' = {i \in 1 .. (n + 1) - 1 : stack'[i].dir = stack'[i + 1].dir}
    BY DEF Links
  <2>2. Links(n)' = {i \in 1 .. n - 1 : stack'[i].dir = stack'[i + 1].dir}
    BY DEF Links
  <2>3. 1 .. (n + 1) - 1 = (1 .. n - 1) \cup {n}
    BY <1>2
  <2>4. stack'[n].dir = f.dir /\ stack'[n + 1].dir = d
    BY <1>2 DEF Called, NewFrame
  <2>5. Links(n)' = Links(n)
    BY <1>2, <1>3
  <2>6. ASSUME NEW i
        PROVE  i \in Links(n + 1)' <=> i \in Links(n)' \/ (i = n /\ f.dir = d)
    <3>1. i \in Links(n + 1)' <=> i \in (1 .. n - 1) \cup {n} /\ stack'[i].dir = stack'[i + 1].dir
      BY <2>1, <2>3
    <3>2. CASE i = n
      <4>1. i \notin 1 .. n - 1
        BY <3>2
      <4>2. QED
        BY <2>2, <2>4, <3>1, <3>2, <4>1
    <3>3. CASE i # n
      BY <2>2, <3>1, <3>3
    <3>4. QED
      BY <3>2, <3>3
  <2>7. \A i : i \in Links(n + 1)' <=> i \in Links(n) \/ (i = n /\ f.dir = d)
    BY <2>5, <2>6
  <2>8. CASE f.dir = d
    <3>1. Links(n + 1)' = Links(n) \cup {n}
      BY <2>7, <2>8
    <3>2. QED
      BY <2>8, <3>1
  <2>9. CASE f.dir # d
    <3>1. Links(n + 1)' = Links(n)
      BY <2>7, <2>9
    <3>2. QED
      BY <2>9, <3>1
  <2>10. QED
    BY <2>8, <2>9
<1>7. Cardinality(Links(n)) <= removed
  BY <1>2 DEF DInv, Roomy
<1>8. IsFiniteSet(Links(n)) /\ Cardinality(Links(n)) \in Nat
  BY <1>2, LinksType
<1>9. Cardinality(Links(n) \cup {n}) \in {Cardinality(Links(n)), Cardinality(Links(n)) + 1}
  BY <1>8, FS_AddElement
<1>10. Cardinality(Links(n + 1)') <= removed
  BY <1>2, <1>6, <1>7, <1>8, <1>9 DEF TypeOK
<1>11. Roomy(stack'[n + 1], Cardinality(Links(n + 1)'))
  BY <1>2, <1>10 DEF Called, Roomy, NewFrame
<1>12. \A k \in 1 .. n + 1 : k \in 1 .. n \/ k = n + 1
  BY <1>2
<1>13. Len(stack') = n + 1
  BY <1>2 DEF Called
<1>14. QED
  BY <1>3, <1>4, <1>5, <1>11, <1>12, <1>13 DEF DInv

(* A step that returns.                                                                 *)
LEMMA DepthReturned ==
  ASSUME TypeOK, stack # <<>>, DInv, UNCHANGED <<mod, removed>>, Returned
  PROVE  DInv'
<1>1. Len(stack) \in Nat \ {0}
  BY TopType
<1>2. ASSUME NEW k \in 1 .. Len(stack) - 1
      PROVE  Links(k)' = Links(k)
  <2>1. k \in Nat /\ \A i \in 1 .. k : i \in 1 .. Len(stack) - 1
    BY <1>1
  <2>2. QED
    BY <2>1, LinksKept DEF Returned
<1>3. \A g, c : Roomy(g, c)' = Roomy(g, c)
  BY DEF Roomy, Rest, Children
<1>4. \A k \in 1 .. Len(stack) - 1 : k \in 1 .. Len(stack)
  BY <1>1
<1>5. QED
  BY <1>2, <1>3, <1>4 DEF DInv, Returned

(* An entry of a directory is not that directory.                                       *)
LEMMA NotItsOwnFolder ==
  ASSUME NEW n \in Nodes
  PROVE  Parent[n] # n
<1>1. (\A m \in {n} : Parent[m] \in {n}) => {n} = {}
  BY LoaderAssumption
<1>2. QED
  BY <1>1

(* The walk keeps the room for nameless entries.                                        *)
LEMMA WalkKeepsDepth ==
  ASSUME TypeOK, DInv, WalkStep
  PROVE  DInv'
<1> DEFINE c == Cardinality(Links(Len(stack)))
<1>1. stack # <<>> /\ Top \in Frame /\ Len(stack) \in Nat \ {0} /\ UNCHANGED <<mod, removed>>
  BY WalkStepFrame, TopType
     DEF WalkStep, WalkOpen, WalkOpenFails, WalkCount, WalkCountFails, WalkRead,
         WalkReadNothing, WalkReadFails, WalkSkip, WalkLock, WalkAdd, WalkClose,
         walkFrame, cardVars
<1>2. Roomy(Top, c)
  BY <1>1 DEF DInv, Top
<1>3. c \in Nat /\ removed \in Nat
  BY <1>1, LinksType DEF TypeOK
<1>4. Cardinality(Rest(Top)) \in Nat
  BY RestType
<1> HIDE DEF c
<1>5. CASE WalkOpen
  <2> DEFINE f == [Top EXCEPT !.pc = "count"]
  <2>1. f.dir = Top.dir /\ f.pc = "count" /\ f.seen = Top.seen /\ Top.pc = "open"
    BY <1>1, <1>5 DEF Frame, WalkOpen, At
  <2>2. Replaced(f)
    BY <1>5, WalkMoves
  <2> HIDE DEF f
  <2>3. Roomy(f, c)
    BY <1>2, <2>1 DEF Roomy
  <2>4. QED
    BY <1>1, <2>1, <2>2, <2>3, DepthReplaced DEF c
<1>6. CASE WalkCount
  <2> DEFINE f == AfterCount
  <2>1. /\ f.dir = Top.dir /\ f.pc = "read" /\ f.seen = Top.seen /\ Top.pc = "count"
        /\ f.left = Cardinality(Children(Top.dir))
    BY <1>1, <1>6 DEF Frame, WalkCount, At, AfterCount
  <2>2. Replaced(f)
    BY <1>6, WalkMoves
  <2> HIDE DEF f
  <2>3. f.seen = {} /\ c <= removed
    BY <1>2, <2>1 DEF Roomy
  <2>4. Rest(f) = Children(Top.dir)
    BY <2>1, <2>3 DEF Rest
  <2>5. c + f.left <= removed + Cardinality(Rest(f))
    <3>1. f.left = Cardinality(Rest(f)) /\ f.left \in Nat
      BY <2>1, <2>4, CountType
    <3>2. QED
      BY <1>3, <2>3, <3>1
  <2>6. Roomy(f, c)
    BY <2>1, <2>3, <2>5 DEF Roomy
  <2>7. QED
    BY <1>1, <2>1, <2>2, <2>6, DepthReplaced DEF c
<1>7. CASE WalkRead
  <2>1. PICK e \in Children(Top.dir) \ Top.seen :
               /\ e \in Nodes /\ AfterRead(e) \in Frame
               /\ IF e \in Dirs THEN Called(AfterRead(e), e) ELSE Replaced(AfterRead(e))
    BY <1>7, WalkMoves
  <2> DEFINE f == AfterRead(e)
  <2>2. /\ f.dir = Top.dir /\ f.pc = "add" /\ f.seen = Top.seen \cup {e} /\ Top.pc = "read"
        /\ f.left = Top.left - 1
    BY <1>1, <1>7 DEF Frame, WalkRead, At, AfterRead
  <2>3. IF e \in Dirs THEN Called(f, e) ELSE Replaced(f)
    BY <2>1
  <2> HIDE DEF f
  <2>4. Rest(f) = Rest(Top) \ {e} /\ e \in Rest(Top)
    BY <2>2 DEF Rest
  <2>5. Cardinality(Rest(f)) = Cardinality(Rest(Top)) - 1
    BY <2>4, RestType, FS_RemoveElement
  <2>6. Roomy(f, c)
    BY <1>1, <1>2, <1>3, <1>4, <2>2, <2>5 DEF Roomy, Frame
  <2>7. e # Top.dir
    BY <2>1, NotItsOwnFolder DEF Children
  <2>8. QED
    BY <1>1, <2>2, <2>3, <2>6, <2>7, DepthReplaced, DepthCalled DEF c
<1>8. CASE WalkReadNothing
  <2> DEFINE f == AfterNothing
  <2>1. /\ f.dir = Top.dir /\ f.pc = "add" /\ f.seen = Top.seen /\ Top.pc = "read"
        /\ f.left = Top.left - 1 /\ Top.left > 0
    BY <1>1, <1>8 DEF Frame, WalkReadNothing, At, AfterNothing
  <2>2. Called(f, Top.dir)
    BY <1>8, WalkMoves
  <2> HIDE DEF f
  <2>3. Rest(Top) = {} /\ Rest(f) = {}
    BY <1>8, <2>1 DEF WalkReadNothing, Rest
  <2>4. c + Top.left <= removed + 0
    BY <1>2, <2>1, <2>3, FS_EmptySet DEF Roomy
  <2>5. c + 1 <= removed
    BY <1>1, <1>3, <2>1, <2>4 DEF Frame
  <2>6. c + f.left <= removed + 0
    BY <1>1, <1>3, <2>1, <2>4 DEF Frame
  <2>7. Roomy(f, c)
    BY <1>2, <2>1, <2>3, <2>6, FS_EmptySet DEF Roomy
  <2>8. QED
    BY <1>1, <2>1, <2>2, <2>5, <2>7, DepthCalled DEF c
<1>9. CASE WalkReadFails
  <2> DEFINE f == [Top EXCEPT !.left = @ - 1]
  <2>1. f.dir = Top.dir /\ f.pc = "read" /\ f.seen = Top.seen /\ Top.pc = "read" /\ f.left = Top.left - 1
    BY <1>1, <1>9 DEF Frame, WalkReadFails, At
  <2>2. Replaced(f)
    BY <1>9, WalkMoves
  <2> HIDE DEF f
  <2>3. Rest(f) = Rest(Top)
    BY <2>1 DEF Rest
  <2>4. Roomy(f, c)
    BY <1>1, <1>2, <1>3, <1>4, <2>1, <2>3 DEF Roomy, Frame
  <2>5. QED
    BY <1>1, <2>1, <2>2, <2>4, DepthReplaced DEF c
<1>10. CASE WalkAdd
  <2> DEFINE f == [Top EXCEPT !.pc = "read", !.entry = None]
  <2>1. f.dir = Top.dir /\ f.pc = "read" /\ f.seen = Top.seen /\ Top.pc = "locked" /\ f.left = Top.left
    BY <1>1, <1>10 DEF Frame, WalkAdd, At
  <2>2. Replaced(f)
    BY <1>10, WalkMoves
  <2> HIDE DEF f
  <2>3. Rest(f) = Rest(Top)
    BY <2>1 DEF Rest
  <2>4. Roomy(f, c)
    BY <1>2, <2>1, <2>3 DEF Roomy
  <2>5. QED
    BY <1>1, <2>1, <2>2, <2>4, DepthReplaced DEF c
<1>11. CASE WalkOpenFails \/ WalkCountFails \/ WalkClose
  BY <1>1, <1>11, WalkMoves, DepthReturned
<1>12. CASE WalkSkip
  <2> DEFINE f == [Top EXCEPT !.pc = "read"]
  <2>1. f.dir = Top.dir /\ f.pc = "read" /\ f.seen = Top.seen /\ Top.pc = "add" /\ f.left = Top.left
    BY <1>1, <1>12 DEF Frame, WalkSkip, At
  <2>2. Replaced(f)
    BY <1>12, WalkMoves
  <2> HIDE DEF f
  <2>3. Rest(f) = Rest(Top)
    BY <2>1 DEF Rest
  <2>4. Roomy(f, c)
    BY <1>2, <2>1, <2>3 DEF Roomy
  <2>5. QED
    BY <1>1, <2>1, <2>2, <2>4, DepthReplaced DEF c
<1>13. CASE WalkLock
  <2> DEFINE f == [Top EXCEPT !.pc = "locked"]
  <2>1. f.dir = Top.dir /\ f.pc = "locked" /\ f.seen = Top.seen /\ Top.pc = "add" /\ f.left = Top.left
    BY <1>1, <1>13 DEF Frame, WalkLock, At
  <2>2. Replaced(f)
    BY <1>13, WalkMoves
  <2> HIDE DEF f
  <2>3. Rest(f) = Rest(Top)
    BY <2>1 DEF Rest
  <2>4. Roomy(f, c)
    BY <1>2, <2>1, <2>3 DEF Roomy
  <2>5. QED
    BY <1>1, <2>1, <2>2, <2>4, DepthReplaced DEF c
<1>14. QED
  BY <1>5, <1>6, <1>7, <1>8, <1>9, <1>10, <1>11, <1>12, <1>13 DEF WalkStep

(* A walk begins with the root alone.                                                   *)
LEMMA StartWalkDepth ==
  ASSUME StartWalk
  PROVE  DInv'
<1>1. stack' = <<NewFrame(Root)>>
  BY DEF StartWalk
<1>2. Len(stack') = 1 /\ stack'[1] = NewFrame(Root)
  BY <1>1
<1>3. Links(1)' = {}
  <2>1. 1 .. 1 - 1 = {}
    OBVIOUS
  <2>2. QED
    BY <2>1 DEF Links
<1>4. removed' = 0
  BY DEF StartWalk
<1>5. Cardinality(Links(1)') = 0
  BY <1>3, FS_EmptySet
<1>6. \A k \in 1 .. Len(stack') : k = 1
  BY <1>2
<1>7. ASSUME NEW k \in 1 .. Len(stack')
      PROVE  Roomy(stack[k], Cardinality(Links(k)))'
  <2>1. k = 1
    BY <1>6
  <2>2. Roomy(stack[1], Cardinality(Links(1)))'
    BY <1>2, <1>4, <1>5 DEF Roomy, NewFrame
  <2>3. QED
    BY <2>1, <2>2
<1>8. QED
  BY <1>7 DEF DInv

(* A removal takes at most one entry from a directory, and counts for one if there is a *)
(* walk; an addition takes none.                                                        *)
LEMMA CardKeepsDepth ==
  ASSUME TypeOK, DInv, NEW n \in Nodes \cup {Root}, AddToMod(n) \/ RemoveFromMod(n)
  PROVE  DInv'
<1>1. stack' = stack /\ removed \in Nat
  BY DEF AddToMod, RemoveFromMod, cardFrame, walkVars, TypeOK
<1>2. CASE stack = <<>>
  <2>1. 1 .. Len(stack') = {}
    BY <1>1, <1>2
  <2>2. QED
    BY <2>1 DEF DInv
<1>3. CASE stack # <<>>
  <2>1. \/ removed' = removed /\ mod \subseteq mod'
        \/ removed' = removed + 1 /\ mod \ {n} \subseteq mod'
    BY <1>3 DEF AddToMod, RemoveFromMod
  <2>2. removed' \in {removed, removed + 1}
    BY <2>1
  <2>3. ASSUME NEW f
        PROVE  /\ Cardinality(Rest(f)') \in Nat
               /\ removed + Cardinality(Rest(f)) <= removed' + Cardinality(Rest(f)')
    <3>1. Rest(f)' \in SUBSET Nodes
      BY DEF Rest, Children
    <3>2. IsFiniteSet(Rest(f)') /\ Cardinality(Rest(f)') \in Nat
      BY <3>1, LoaderAssumption, FS_Subset, FS_CardinalityType
    <3>3. IsFiniteSet(Rest(f)) /\ Cardinality(Rest(f)) \in Nat
      BY RestType
    <3>4. CASE removed' = removed /\ mod \subseteq mod'
      <4>1. Rest(f) \subseteq Rest(f)'
        BY <3>4 DEF Rest, Children
      <4>2. Cardinality(Rest(f)) <= Cardinality(Rest(f)')
        BY <3>2, <4>1, FS_Subset
      <4>3. QED
        BY <1>1, <3>2, <3>3, <3>4, <4>2
    <3>5. CASE removed' = removed + 1 /\ mod \ {n} \subseteq mod'
      <4>1. Rest(f) \ {n} \subseteq Rest(f)'
        BY <3>5 DEF Rest, Children
      <4>2. Cardinality(Rest(f) \ {n}) <= Cardinality(Rest(f)')
        BY <3>2, <4>1, FS_Subset
      <4>3. Cardinality(Rest(f) \ {n}) \in {Cardinality(Rest(f)), Cardinality(Rest(f)) - 1}
        BY <3>3, FS_RemoveElement
      <4>4. QED
        BY <1>1, <3>2, <3>3, <3>5, <4>2, <4>3
    <3>6. QED
      BY <2>1, <3>2, <3>4, <3>5
  <2>4. ASSUME NEW k PROVE Links(k)' = Links(k)
    BY <1>1 DEF Links
  <2>5. ASSUME NEW k \in 1 .. Len(stack)
        PROVE  Roomy(stack[k], Cardinality(Links(k)))'
    <3>1. stack[k] \in Frame /\ k \in Nat
      <4>1. stack \in Seq(Frame)
        BY DEF TypeOK
      <4>2. QED
        BY <4>1, ElementOfSeq, LenProperties
    <3>2. PICK f \in Frame : f = stack[k]
      BY <3>1
    <3>3. PICK c \in Nat : c = Cardinality(Links(k))
      BY <3>1, LinksType
    <3>4. Roomy(f, c) /\ f.left \in Nat
      BY <3>2, <3>3 DEF DInv, Frame
    <3>5. Cardinality(Rest(f)) \in Nat
      BY RestType
    <3>6. /\ Cardinality(Rest(f)') \in Nat
          /\ removed + Cardinality(Rest(f)) <= removed' + Cardinality(Rest(f)')
      BY <2>3
    <3>7. Roomy(f, c)'
      BY <1>1, <2>2, <3>4, <3>5, <3>6 DEF Roomy
    <3>8. stack'[k] = f /\ Cardinality(Links(k)') = c
      BY <1>1, <2>4, <3>2, <3>3
    <3>9. QED
      BY <3>7, <3>8 DEF Roomy, Rest
  <2>6. QED
    BY <1>1, <2>5 DEF DInv
<1>4. QED
  BY <1>2, <1>3

-----------------------------------------------------------------------------
(* The completeness of a walk. *)

\* n and the folders above it, the root apart: what every set holds that holds n
\* and the folder of each of its members.
Above(n) ==
  {m \in Nodes : \A S \in SUBSET Nodes :
     (n \in S /\ \A x \in S : Parent[x] \in Nodes => Parent[x] \in S) => m \in S}

\* An activation that will come to n: it is about to add it, or has still to be
\* given n or a folder above it.
Covers(f, n) ==
  \/ f.pc \in {"add", "locked"} /\ f.entry = n
  \/ \E m \in Above(n) : f.dir = Parent[m] /\ m \notin f.seen

\* An undisturbed walk comes to whatever it has not indexed, and reads as often as
\* its directories have entries.
CInv ==
  /\ \A n \in mod \cap Nodes : Parent[n] \in mod
  /\ WalkComplete
  /\ (stack # <<>> /\ ~dirty) =>
       /\ kept = mod
       /\ \A n \in mod \cap Nodes :
            n \in indexed \/ \E i \in 1 .. Len(stack) : Covers(stack[i], n)
       /\ \A i \in 1 .. Len(stack) :
            stack[i].pc \in {"read", "add", "locked"} => Cardinality(Rest(stack[i])) <= stack[i].left

(* The folders above a node, up to one that lies in the root.                           *)
LEMMA AboveItself ==
  ASSUME NEW n \in Nodes
  PROVE  n \in Above(n)
BY DEF Above

LEMMA AboveClosed ==
  ASSUME NEW n \in Nodes, NEW m \in Above(n), Parent[m] \in Nodes
  PROVE  Parent[m] \in Above(n)
BY DEF Above

LEMMA AboveInside ==
  ASSUME NEW n \in Nodes, NEW e \in Above(n), e # n
  PROVE  \E m \in Above(n) : Parent[m] = e
<1> SUFFICES ASSUME \A m \in Above(n) : Parent[m] # e PROVE FALSE
  OBVIOUS
<1> DEFINE S == Above(n) \ {e}
<1>1. S \in SUBSET Nodes /\ n \in S
  BY AboveItself DEF Above
<1>2. \A x \in S : Parent[x] \in Nodes => Parent[x] \in S
  BY AboveClosed
<1>3. e \in S
  <2> HIDE DEF S
  <2>1. QED
    BY <1>1, <1>2 DEF Above
<1>4. QED
  BY <1>3

LEMMA AboveInMod ==
  ASSUME \A n \in mod \cap Nodes : Parent[n] \in mod, NEW n \in mod \cap Nodes
  PROVE  Above(n) \subseteq mod \cap Nodes
<1> DEFINE S == mod \cap Nodes
<1>1. S \in SUBSET Nodes /\ n \in S /\ \A x \in S : Parent[x] \in Nodes => Parent[x] \in S
  OBVIOUS
<1> HIDE DEF S
<1>2. \A m \in Above(n) : m \in S
  BY <1>1 DEF Above
<1>3. QED
  BY <1>2 DEF S

LEMMA AboveReachesRoot ==
  ASSUME NEW n \in Nodes
  PROVE  \E m \in Above(n) : Parent[m] = Root
<1> SUFFICES ASSUME \A m \in Above(n) : Parent[m] # Root PROVE FALSE
  OBVIOUS
<1>1. \A m \in Above(n) : m \in Nodes /\ Parent[m] \in Nodes
  BY LoaderAssumption DEF Above, Nodes, Folders
<1>2. \A m \in Above(n) : Parent[m] \in Above(n)
  BY <1>1, AboveClosed
<1>3. Above(n) \in SUBSET Nodes
  BY <1>1
<1>4. Above(n) = {}
  BY <1>2, <1>3, LoaderAssumption
<1>5. QED
  BY <1>4, AboveItself

(* A node that is covered stays covered or is indexed if the innermost activation's     *)
(* covering is passed on.                                                               *)
LEMMA CoverPassedOn ==
  ASSUME TypeOK, stack # <<>>, NEW n,
         n \in indexed \/ \E i \in 1 .. Len(stack) : Covers(stack[i], n),
         indexed \subseteq indexed',
         Len(stack') \in Int, Len(stack) - 1 <= Len(stack'),
         \A i \in 1 .. Len(stack) - 1 : stack'[i] = stack[i],
         Covers(Top, n) =>
           n \in indexed' \/ \E i \in 1 .. Len(stack') : Covers(stack'[i], n)
  PROVE  n \in indexed' \/ \E i \in 1 .. Len(stack') : Covers(stack'[i], n)
<1>1. Len(stack) \in Nat \ {0}
  BY TopType
<1>2. CASE n \in indexed
  BY <1>2
<1>3. ASSUME NEW i \in 1 .. Len(stack), Covers(stack[i], n)
      PROVE  n \in indexed' \/ \E j \in 1 .. Len(stack') : Covers(stack'[j], n)
  <2>1. CASE i = Len(stack)
    BY <1>3, <2>1 DEF Top
  <2>2. CASE i # Len(stack)
    <3>1. i \in 1 .. Len(stack) - 1 /\ i \in 1 .. Len(stack')
      BY <1>1, <2>2
    <3>2. stack'[i] = stack[i]
      BY <3>1
    <3>3. QED
      BY <1>3, <3>1, <3>2
  <2>3. QED
    BY <2>1, <2>2
<1>4. QED
  BY <1>2, <1>3

(* The count of what is left to read, when the innermost activation becomes f and       *)
(* perhaps calls.                                                                       *)
LEMMA LeftKept ==
  ASSUME TypeOK, stack # <<>>,
         \A i \in 1 .. Len(stack) :
            stack[i].pc \in {"read", "add", "locked"} => Cardinality(Rest(stack[i])) <= stack[i].left,
         \/ Returned
         \/ \E f : /\ f.pc \in {"read", "add", "locked"} => Cardinality(Rest(f)) <= f.left
                   /\ Replaced(f) \/ \E d : Called(f, d)
  PROVE  \A i \in 1 .. Len(stack') :
            stack'[i].pc \in {"read", "add", "locked"} => Cardinality(Rest(stack'[i])) <= stack'[i].left
<1>1. Len(stack) \in Nat \ {0}
  BY TopType
<1>2. ASSUME NEW i \in 1 .. Len(stack) - 1, stack'[i] = stack[i]
      PROVE  stack'[i].pc \in {"read", "add", "locked"} => Cardinality(Rest(stack'[i])) <= stack'[i].left
  <2>1. i \in 1 .. Len(stack)
    BY <1>1
  <2>2. QED
    BY <1>2, <2>1
<1>3. CASE Returned
  BY <1>2, <1>3 DEF Returned
<1>4. ASSUME NEW f, f.pc \in {"read", "add", "locked"} => Cardinality(Rest(f)) <= f.left, Replaced(f)
      PROVE  \A i \in 1 .. Len(stack') :
               stack'[i].pc \in {"read", "add", "locked"} => Cardinality(Rest(stack'[i])) <= stack'[i].left
  <2>1. TAKE i \in 1 .. Len(stack')
  <2>2. i \in 1 .. Len(stack) - 1 \/ i = Len(stack)
    BY <1>1, <1>4 DEF Replaced
  <2>3. QED
    BY <1>2, <1>4, <2>2 DEF Replaced
<1>5. ASSUME NEW f, NEW d, f.pc \in {"read", "add", "locked"} => Cardinality(Rest(f)) <= f.left, Called(f, d)
      PROVE  \A i \in 1 .. Len(stack') :
               stack'[i].pc \in {"read", "add", "locked"} => Cardinality(Rest(stack'[i])) <= stack'[i].left
  <2>1. TAKE i \in 1 .. Len(stack')
  <2>2. i \in 1 .. Len(stack) - 1 \/ i = Len(stack) \/ i = Len(stack) + 1
    BY <1>1, <1>5 DEF Called
  <2>3. CASE i = Len(stack) + 1
    <3>1. stack'[i].pc = "open"
      BY <1>5, <2>3 DEF Called, NewFrame
    <3>2. QED
      BY <3>1
  <2>4. QED
    BY <1>2, <1>5, <2>2, <2>3 DEF Called
<1>6. QED
  BY <1>3, <1>4, <1>5

(* It is enough that the new innermost activation, or the one it calls, covers what the  *)
(* old one covered.                                                                     *)
LEMMA CoverByTop ==
  ASSUME TypeOK, stack # <<>>, NEW n,
         n \in indexed \/ \E i \in 1 .. Len(stack) : Covers(stack[i], n),
         indexed \subseteq indexed', NEW f,
         \/ Replaced(f) /\ (Covers(Top, n) => n \in indexed' \/ Covers(f, n))
         \/ \E d : /\ Called(f, d)
                   /\ Covers(Top, n) => Covers(f, n) \/ Covers(NewFrame(d), n)
  PROVE  n \in indexed' \/ \E i \in 1 .. Len(stack') : Covers(stack'[i], n)
<1>1. Len(stack) \in Nat \ {0}
  BY TopType
<1>2. CASE Replaced(f) /\ (Covers(Top, n) => n \in indexed' \/ Covers(f, n))
  <2>1. Len(stack) \in 1 .. Len(stack') /\ stack'[Len(stack)] = f
    BY <1>1, <1>2 DEF Replaced
  <2>2. Covers(Top, n) => n \in indexed' \/ \E i \in 1 .. Len(stack') : Covers(stack'[i], n)
    BY <1>2, <2>1
  <2>3. Len(stack') \in Int /\ Len(stack) - 1 <= Len(stack')
    BY <1>1, <1>2 DEF Replaced
  <2>4. QED
    BY <1>2, <2>2, <2>3, CoverPassedOn DEF Replaced
<1>3. ASSUME NEW d, Called(f, d), Covers(Top, n) => Covers(f, n) \/ Covers(NewFrame(d), n)
      PROVE  n \in indexed' \/ \E i \in 1 .. Len(stack') : Covers(stack'[i], n)
  <2>1. /\ Len(stack) \in 1 .. Len(stack') /\ stack'[Len(stack)] = f
        /\ Len(stack) + 1 \in 1 .. Len(stack') /\ stack'[Len(stack) + 1] = NewFrame(d)
    BY <1>1, <1>3 DEF Called
  <2>2. Covers(Top, n) => n \in indexed' \/ \E i \in 1 .. Len(stack') : Covers(stack'[i], n)
    BY <1>3, <2>1
  <2>3. Len(stack') \in Int /\ Len(stack) - 1 <= Len(stack')
    BY <1>1, <1>3 DEF Called
  <2>4. QED
    BY <1>3, <2>2, <2>3, CoverPassedOn DEF Called
<1>4. QED
  BY <1>2, <1>3

(* And nothing is covered by an activation that returns.                                *)
LEMMA CoverByNone ==
  ASSUME TypeOK, stack # <<>>, NEW n,
         n \in indexed \/ \E i \in 1 .. Len(stack) : Covers(stack[i], n),
         indexed \subseteq indexed', Returned, ~Covers(Top, n)
  PROVE  n \in indexed' \/ \E i \in 1 .. Len(stack') : Covers(stack'[i], n)
<1>1. Len(stack') \in Int /\ Len(stack) - 1 <= Len(stack')
  BY TopType DEF Returned
<1>2. QED
  BY <1>1, CoverPassedOn DEF Returned

(* A step of an undisturbed walk keeps everything covered or indexed, and reads no less  *)
(* than there is.                                                                       *)
LEMMA WalkKeepsCover ==
  ASSUME TypeOK, DInv, WalkStep, ~dirty', ~dirty,
         \A n \in mod \cap Nodes : Parent[n] \in mod,
         \A n \in mod \cap Nodes :
            n \in indexed \/ \E i \in 1 .. Len(stack) : Covers(stack[i], n),
         \A i \in 1 .. Len(stack) :
            stack[i].pc \in {"read", "add", "locked"} => Cardinality(Rest(stack[i])) <= stack[i].left
  PROVE  /\ \A n \in mod \cap Nodes :
              n \in indexed' \/ \E i \in 1 .. Len(stack') : Covers(stack'[i], n)
         /\ \A i \in 1 .. Len(stack') :
              stack'[i].pc \in {"read", "add", "locked"} => Cardinality(Rest(stack'[i])) <= stack'[i].left
<1> DEFINE Covered == \A n \in mod \cap Nodes :
              n \in indexed' \/ \E i \in 1 .. Len(stack') : Covers(stack'[i], n)
           Left == \A i \in 1 .. Len(stack') :
              stack'[i].pc \in {"read", "add", "locked"} => Cardinality(Rest(stack'[i])) <= stack'[i].left
<1>1. stack # <<>> /\ Top \in Frame /\ Len(stack) \in Nat \ {0}
  BY WalkStepFrame, TopType
<1>2. Top.pc \in {"read", "add", "locked"} => Cardinality(Rest(Top)) <= Top.left
  BY <1>1 DEF Top
<1>3. Top.pc \in {"open", "count"} => Top.seen = {}
  BY <1>1 DEF DInv, Roomy, Top
<1>4. indexed \subseteq indexed'
  BY DEF WalkStep, WalkOpen, WalkOpenFails, WalkCount, WalkCountFails, WalkRead,
         WalkReadNothing, WalkReadFails, WalkSkip, WalkLock, WalkAdd, WalkClose
<1>5. Cardinality(Rest(Top)) \in Nat
  BY RestType
<1>6. ASSUME NEW f, f.pc \in {"read", "add", "locked"} => Cardinality(Rest(f)) <= f.left,
             Replaced(f) \/ \E d : Called(f, d)
      PROVE  Left
  BY <1>1, <1>6, LeftKept
<1>7. ASSUME NEW f, f.dir = Top.dir, f.seen = Top.seen, Top.pc \notin {"add", "locked"}
      PROVE  \A n : Covers(Top, n) => Covers(f, n)
  BY <1>7 DEF Covers
<1>8. CASE WalkOpen
  <2> DEFINE f == [Top EXCEPT !.pc = "count"]
  <2>1. f.dir = Top.dir /\ f.pc = "count" /\ f.seen = Top.seen /\ Top.pc = "open"
    BY <1>1, <1>8 DEF Frame, WalkOpen, At
  <2>2. Replaced(f)
    BY <1>8, WalkMoves
  <2> HIDE DEF f
  <2>3. Covered
    BY <1>1, <1>4, <1>7, <2>1, <2>2, CoverByTop
  <2>4. Left
    BY <1>6, <2>1, <2>2
  <2>5. QED
    BY <2>3, <2>4
<1>9. CASE WalkCount
  <2> DEFINE f == AfterCount
  <2>1. /\ f.dir = Top.dir /\ f.pc = "read" /\ f.seen = Top.seen /\ Top.pc = "count"
        /\ f.left = Cardinality(Children(Top.dir))
    BY <1>1, <1>9 DEF Frame, WalkCount, At, AfterCount
  <2>2. Replaced(f)
    BY <1>9, WalkMoves
  <2> HIDE DEF f
  <2>3. Rest(f) = Children(Top.dir)
    BY <1>3, <2>1 DEF Rest
  <2>4. Cardinality(Rest(f)) <= f.left
    BY <2>1, <2>3, CountType
  <2>5. Covered
    BY <1>1, <1>4, <1>7, <2>1, <2>2, CoverByTop
  <2>6. Left
    BY <1>6, <2>2, <2>4
  <2>7. QED
    BY <2>5, <2>6
<1>10. CASE WalkRead
  <2>1. PICK e \in Children(Top.dir) \ Top.seen :
               /\ e \in Nodes /\ AfterRead(e) \in Frame
               /\ IF e \in Dirs THEN Called(AfterRead(e), e) ELSE Replaced(AfterRead(e))
    BY <1>10, WalkMoves
  <2> DEFINE f == AfterRead(e)
  <2>2. /\ f.dir = Top.dir /\ f.pc = "add" /\ f.seen = Top.seen \cup {e} /\ Top.pc = "read"
        /\ f.left = Top.left - 1 /\ f.entry = e
    BY <1>1, <1>10 DEF Frame, WalkRead, At, AfterRead
  <2>3. IF e \in Dirs THEN Called(f, e) ELSE Replaced(f)
    BY <2>1
  <2> HIDE DEF f
  <2>4. Rest(f) = Rest(Top) \ {e} /\ e \in Rest(Top)
    BY <2>2 DEF Rest
  <2>5. Cardinality(Rest(f)) = Cardinality(Rest(Top)) - 1
    BY <2>4, RestType, FS_RemoveElement
  <2>6. Cardinality(Rest(f)) <= f.left
    BY <1>1, <1>2, <1>5, <2>2, <2>5 DEF Frame
  <2>7. ASSUME NEW n \in Nodes, Covers(Top, n)
        PROVE  Covers(f, n) \/ (e \in Dirs /\ Covers(NewFrame(e), n))
    <3>1. PICK m \in Above(n) : Top.dir = Parent[m] /\ m \notin Top.seen
      BY <2>2, <2>7 DEF Covers
    <3>2. CASE m # e
      BY <2>2, <3>1, <3>2 DEF Covers
    <3>3. CASE m = e /\ n = e
      BY <2>2, <3>3 DEF Covers
    <3>4. CASE m = e /\ n # e
      <4>1. PICK k \in Above(n) : Parent[k] = e
        BY <3>1, <3>4, AboveInside
      <4>2. e \in Dirs
        BY <2>1, <4>1, LoaderAssumption DEF Above, Folders
      <4>3. Covers(NewFrame(e), n)
        BY <4>1 DEF Covers, NewFrame
      <4>4. QED
        BY <4>2, <4>3
    <3>5. QED
      BY <3>2, <3>3, <3>4
  <2>8. Covered
    <3>1. TAKE n \in mod \cap Nodes
    <3>2. QED
      BY <1>1, <1>4, <2>3, <2>7, <3>1, CoverByTop
  <2>9. Left
    BY <1>6, <2>3, <2>6
  <2>10. QED
    BY <2>8, <2>9
<1>11. CASE WalkReadNothing
  <2> DEFINE f == AfterNothing
  <2>1. /\ f.dir = Top.dir /\ f.pc = "add" /\ f.seen = Top.seen /\ Top.pc = "read"
        /\ f.left = Top.left - 1 /\ Top.left > 0
    BY <1>1, <1>11 DEF Frame, WalkReadNothing, At, AfterNothing
  <2>2. Called(f, Top.dir)
    BY <1>11, WalkMoves
  <2> HIDE DEF f
  <2>3. Rest(f) = {}
    BY <1>11, <2>1 DEF WalkReadNothing, Rest
  <2>4. Cardinality(Rest(f)) <= f.left
    BY <1>1, <2>1, <2>3, FS_EmptySet DEF Frame
  <2>5. Covered
    BY <1>1, <1>4, <1>7, <2>1, <2>2, CoverByTop
  <2>6. Left
    BY <1>6, <2>2, <2>4
  <2>7. QED
    BY <2>5, <2>6
<1>12. CASE WalkAdd
  <2> DEFINE f == [Top EXCEPT !.pc = "read", !.entry = None]
  <2>1. f.dir = Top.dir /\ f.pc = "read" /\ f.seen = Top.seen /\ Top.pc = "locked" /\ f.left = Top.left
    BY <1>1, <1>12 DEF Frame, WalkAdd, At
  <2>2. Replaced(f)
    BY <1>12, WalkMoves
  <2> HIDE DEF f
  <2>3. Rest(f) = Rest(Top)
    BY <2>1 DEF Rest
  <2>4. ASSUME NEW n \in Nodes, Covers(Top, n)
        PROVE  n \in indexed' \/ Covers(f, n)
    <3>1. CASE Top.entry = n
      <4>1. Top.entry # None
        BY <3>1, LoaderAssumption
      <4>2. QED
        BY <1>12, <3>1, <4>1 DEF WalkAdd, EntryKey
    <3>2. CASE Top.entry # n
      BY <2>1, <2>4, <3>2 DEF Covers
    <3>3. QED
      BY <3>1, <3>2
  <2>5. Covered
    <3>1. TAKE n \in mod \cap Nodes
    <3>2. QED
      BY <1>1, <1>4, <2>2, <2>4, <3>1, CoverByTop
  <2>6. Left
    BY <1>2, <1>6, <2>1, <2>2, <2>3
  <2>7. QED
    BY <2>5, <2>6
<1>13. ASSUME Returned, Top.pc \notin {"add", "locked"},
              \A m \in mod \cap Nodes : Parent[m] = Top.dir => m \in Top.seen
       PROVE  Covered /\ Left
  <2>1. ASSUME NEW n \in mod \cap Nodes
        PROVE  ~Covers(Top, n)
    <3>1. Above(n) \subseteq mod \cap Nodes
      BY AboveInMod
    <3>2. QED
      BY <1>13, <3>1 DEF Covers
  <2>2. Covered
    BY <1>1, <1>4, <1>13, <2>1, CoverByNone
  <2>3. Left
    BY <1>1, <1>13, LeftKept
  <2>4. QED
    BY <2>2, <2>3
<1>14. CASE WalkOpenFails
  <2>1. Top.dir \notin mod /\ Top.pc = "open"
    BY <1>14 DEF WalkOpenFails, WalkFault, At
  <2>2. Returned
    BY <1>14, WalkMoves
  <2>3. QED
    BY <1>13, <2>1, <2>2
<1>15. CASE WalkClose
  <2>1. Top.pc = "read" /\ Top.left = 0
    BY <1>15 DEF WalkClose, At
  <2>2. Cardinality(Rest(Top)) = 0
    BY <1>2, <1>5, <2>1
  <2>3. Rest(Top) = {}
    BY <2>2, RestType, FS_EmptySet
  <2>4. \A m \in mod \cap Nodes : Parent[m] = Top.dir => m \in Top.seen
    BY <2>3 DEF Rest, Children
  <2>5. QED
    BY <1>13, <1>15, <2>1, <2>4, WalkMoves
<1>16. CASE WalkCountFails \/ WalkReadFails
  BY <1>16 DEF WalkCountFails, WalkReadFails, WalkFault
<1>17. CASE WalkSkip
  <2> DEFINE f == [Top EXCEPT !.pc = "read"]
  <2>1. f.dir = Top.dir /\ f.pc = "read" /\ f.seen = Top.seen /\ Top.pc = "add"
        /\ f.left = Top.left /\ f.entry = Top.entry
    BY <1>1, <1>17 DEF Frame, WalkSkip, At
  <2>2. Replaced(f)
    BY <1>17, WalkMoves
  <2> HIDE DEF f
  <2>3. Rest(f) = Rest(Top)
    BY <2>1 DEF Rest
  <2>4. ASSUME NEW n \in Nodes, Covers(Top, n)
        PROVE  Covers(f, n)
    BY <2>1, <2>4, <1>17, LoaderAssumption DEF WalkSkip, Covers
  <2>5. Covered
    <3>1. TAKE n \in mod \cap Nodes
    <3>2. QED
      BY <1>1, <1>4, <2>2, <2>4, <3>1, CoverByTop
  <2>6. Left
    BY <1>2, <1>6, <2>1, <2>2, <2>3
  <2>7. QED
    BY <2>5, <2>6
<1>18. CASE WalkLock
  <2> DEFINE f == [Top EXCEPT !.pc = "locked"]
  <2>1. f.dir = Top.dir /\ f.pc = "locked" /\ f.seen = Top.seen /\ Top.pc = "add"
        /\ f.left = Top.left /\ f.entry = Top.entry
    BY <1>1, <1>18 DEF Frame, WalkLock, At
  <2>2. Replaced(f)
    BY <1>18, WalkMoves
  <2> HIDE DEF f
  <2>3. Rest(f) = Rest(Top)
    BY <2>1 DEF Rest
  <2>4. ASSUME NEW n \in Nodes, Covers(Top, n)
        PROVE  Covers(f, n)
    BY <2>1, <2>4 DEF Covers
  <2>5. Covered
    <3>1. TAKE n \in mod \cap Nodes
    <3>2. QED
      BY <1>1, <1>4, <2>2, <2>4, <3>1, CoverByTop
  <2>6. Left
    BY <1>2, <1>6, <2>1, <2>2, <2>3
  <2>7. QED
    BY <2>5, <2>6
<1>19. QED
  BY <1>8, <1>9, <1>10, <1>11, <1>12, <1>14, <1>15, <1>16, <1>17, <1>18 DEF WalkStep

(* The walk, disturbed or not, keeps what makes it complete.                            *)
LEMMA WalkKeepsC ==
  ASSUME TypeOK, DInv, CInv, WalkStep
  PROVE  CInv'
<1>1. stack # <<>> /\ mod' = mod /\ kept' = kept
  BY WalkStepFrame
     DEF WalkStep, WalkOpen, WalkOpenFails, WalkCount, WalkCountFails, WalkRead,
         WalkReadNothing, WalkReadFails, WalkSkip, WalkLock, WalkAdd, WalkClose,
         walkFrame, cardVars
<1>2. dirty' = dirty \/ dirty'
  BY DEF WalkStep, WalkOpen, WalkOpenFails, WalkCount, WalkCountFails, WalkRead,
         WalkReadNothing, WalkReadFails, WalkSkip, WalkLock, WalkAdd, WalkClose, WalkFault
<1>3. CASE dirty'
  BY <1>1, <1>3 DEF CInv, WalkComplete
<1>4. CASE ~dirty'
  <2>1. ~dirty /\ kept = mod
    BY <1>1, <1>2, <1>4 DEF CInv
  <2>2. /\ \A n \in mod \cap Nodes :
              n \in indexed' \/ \E i \in 1 .. Len(stack') : Covers(stack'[i], n)
        /\ \A i \in 1 .. Len(stack') :
              stack'[i].pc \in {"read", "add", "locked"} => Cardinality(Rest(stack'[i])) <= stack'[i].left
    BY <1>1, <1>4, <2>1, WalkKeepsCover DEF CInv
  <2>3. \A f : Rest(f)' = Rest(f)
    BY <1>1 DEF Rest, Children
  <2>4. stack' = <<>> => mod \cap Nodes \subseteq indexed'
    <3>1. 1 .. 0 = {}
      OBVIOUS
    <3>2. stack' = <<>> => 1 .. Len(stack') = {}
      BY <3>1
    <3>3. QED
      BY <2>2, <3>2
  <2>5. kept' \ {Root} \subseteq mod \cap Nodes
    BY <1>1, <2>1 DEF TypeOK
  <2>6. WalkComplete'
    BY <2>4, <2>5 DEF WalkComplete
  <2>7. \A f, n : Covers(f, n)' = Covers(f, n)
    BY DEF Covers
  <2>8. QED
    BY <1>1, <2>1, <2>2, <2>3, <2>6, <2>7 DEF CInv
<1>5. QED
  BY <1>3, <1>4

(* A walk begins with an activation of the root, which covers every node.               *)
LEMMA StartWalkCovers ==
  ASSUME TypeOK, CInv, StartWalk, UNCHANGED cardVars, indexed' = indexed
  PROVE  CInv'
<1>1. stack' = <<NewFrame(Root)>> /\ mod' = mod /\ kept' = mod
  BY DEF StartWalk, cardVars
<1>2. Len(stack') = 1 /\ stack'[1] = NewFrame(Root) /\ 1 \in 1 .. Len(stack') /\ stack' # <<>>
  BY <1>1
<1>3. ASSUME NEW n \in Nodes
      PROVE  Covers(NewFrame(Root), n)
  BY AboveReachesRoot DEF Covers, NewFrame
<1>4. \A i \in 1 .. Len(stack') : stack'[i].pc = "open"
  BY <1>2 DEF NewFrame
<1>5. \A f, n : Covers(f, n)' = Covers(f, n)
  BY DEF Covers
<1>6. \A n \in mod \cap Nodes : \E i \in 1 .. Len(stack') : Covers(stack'[i], n)
  BY <1>2, <1>3
<1>7. WalkComplete'
  BY <1>2 DEF WalkComplete
<1>8. QED
  BY <1>1, <1>4, <1>5, <1>6, <1>7 DEF CInv

(* The card changes: an addition disturbs the walk that is on, a removal takes from what *)
(* the walk owes.                                                                       *)
LEMMA CardKeepsCover ==
  ASSUME TypeOK, CInv, NEW n \in Nodes \cup {Root}, AddToMod(n) \/ RemoveFromMod(n)
  PROVE  CInv'
<1>1. stack' = stack /\ indexed' = indexed
  BY DEF AddToMod, RemoveFromMod, cardFrame, walkVars
<1>2. CASE AddToMod(n)
  <2>1. mod' = mod \cup {n} /\ kept' = kept /\ dirty' = (dirty \/ stack # <<>>)
    BY <1>2 DEF AddToMod
  <2>2. \A k \in mod' \cap Nodes : Parent[k] \in mod'
    BY <1>2, <2>1 DEF AddToMod, CInv
  <2>3. WalkComplete'
    BY <1>1, <2>1 DEF CInv, WalkComplete
  <2>4. stack' # <<>> => dirty'
    BY <1>1, <2>1
  <2>5. QED
    BY <2>2, <2>3, <2>4 DEF CInv
<1>3. CASE RemoveFromMod(n)
  <2>1. mod' = mod \ {n} /\ kept' = kept \ {n} /\ dirty' = dirty /\ Children(n) = {}
    BY <1>3 DEF RemoveFromMod
  <2>2. \A k \in mod' \cap Nodes : Parent[k] \in mod'
    BY <2>1 DEF CInv, Children
  <2>3. WalkComplete'
    BY <1>1, <2>1 DEF CInv, WalkComplete
  <2>4. ASSUME NEW f PROVE Cardinality(Rest(f)') <= Cardinality(Rest(f))
    <3>1. Rest(f)' \in SUBSET Rest(f)
      BY <2>1 DEF Rest, Children
    <3>2. QED
      BY <3>1, RestType, FS_Subset
  <2>5. ASSUME NEW i \in 1 .. Len(stack), ~dirty, stack # <<>>, stack[i].pc \in {"read", "add", "locked"}
        PROVE  Cardinality(Rest(stack[i]))' <= stack[i].left
    <3>1. stack[i] \in Frame
      <4>1. stack \in Seq(Frame)
        BY DEF TypeOK
      <4>2. QED
        BY <4>1, ElementOfSeq, LenProperties
    <3>2. PICK f \in Frame : f = stack[i]
      BY <3>1
    <3>3. Cardinality(Rest(f)) <= f.left /\ f.left \in Nat
      BY <2>5, <3>2 DEF CInv, Frame
    <3>4. Cardinality(Rest(f)') <= Cardinality(Rest(f)) /\ Cardinality(Rest(f)) \in Nat
      BY <2>4, RestType
    <3>5. Cardinality(Rest(f)') \in Nat
      <4>1. Rest(f)' \in SUBSET Nodes
        BY DEF Rest, Children
      <4>2. QED
        BY <4>1, LoaderAssumption, FS_Subset, FS_CardinalityType
    <3>6. Cardinality(Rest(f)') <= f.left
      BY <3>3, <3>4, <3>5
    <3>7. Rest(stack[i])' = Rest(f)'
      BY <1>1, <3>2 DEF Rest
    <3>8. QED
      BY <3>2, <3>6, <3>7
  <2>6. \A f, k : Covers(f, k)' = Covers(f, k)
    BY DEF Covers
  <2>7. QED
    BY <1>1, <2>1, <2>2, <2>3, <2>5, <2>6 DEF CInv
<1>4. QED
  BY <1>2, <1>3

(* Both hold before there is a walk.                                                    *)
LEMMA InitDC == Init => DInv /\ CInv
<1> SUFFICES ASSUME Init PROVE DInv /\ CInv
  OBVIOUS
<1>1. stack = <<>> /\ kept = {} /\ \A n \in mod \cap Nodes : Parent[n] \in mod
  BY DEF Init
<1>2. 1 .. Len(stack) = {}
  BY <1>1
<1>3. QED
  BY <1>1, <1>2 DEF DInv, CInv, WalkComplete

(* Every step keeps the room of the activations and the cover of the nodes.             *)
LEMMA NextDC == TypeOK /\ DInv /\ CInv /\ [Next]_vars => DInv' /\ CInv'
<1> SUFFICES ASSUME TypeOK, DInv, CInv, [Next]_vars PROVE DInv' /\ CInv'
  OBVIOUS
<1>1. ASSUME stack' = stack, indexed' = indexed, kept' = kept, dirty' = dirty, removed' = removed,
             mod' = mod
      PROVE  DInv' /\ CInv'
  BY <1>1 DEF DInv, Roomy, Links, Rest, Children, CInv, Covers, WalkComplete
<1>2. CASE \/ MountSdCardFails \/ MountSdCard
           \/ InstallMountRom \/ InstallOpenFile \/ InstallOpenDirectory \/ InitDone
  BY <1>1, <1>2
     DEF MountSdCardFails, MountSdCard, InstallMountRom, InstallOpenFile, InstallOpenDirectory,
         InitDone, walkVars, cardVars, sinceVars
<1>3. CASE Index \/ Wake
  <2>1. StartWalk /\ UNCHANGED cardVars /\ indexed' = indexed
    BY <1>3 DEF Index, Wake
  <2>2. QED
    BY <2>1, StartWalkDepth, StartWalkCovers
<1>4. CASE WalkStep
  BY <1>4, WalkKeepsDepth, WalkKeepsC
<1>5. ASSUME NEW t \in Threads,
             (\E m \in Mounts : CallMountRom(t, m)) \/ SetMountPoint(t) \/ SetMountLength(t)
      PROVE  DInv' /\ CInv'
  BY <1>1, <1>5 DEF CallMountRom, SetMountPoint, SetMountLength, hookFrame, walkVars, cardVars, sinceVars
<1>6. ASSUME NEW t \in Threads, NEW o \in Ops, NEW m \in Mounts, NEW n \in Paths,
             Call(t, o, m, n)
      PROVE  DInv' /\ CInv'
  BY <1>1, <1>6 DEF Call, hookFrame, walkVars, cardVars, sinceVars
<1>7. ASSUME NEW t \in Threads, HookStep(t) PROVE DInv' /\ CInv'
  BY <1>1, <1>7
     DEF HookStep, CheckDelimiter, LookUpNothing, AcquireShared, LookUp, OpenMod, OpenModFails,
         OpenBoth, OpenBothFails, Merge, FindFileSystemFails, NewFails, OpenOriginal,
         callFrame, hookFrame, walkVars, cardVars, sinceVars
<1>8. ASSUME NEW t \in Threads, Finish(t) PROVE DInv' /\ CInv'
  BY <1>1, <1>8 DEF Finish, hookFrame, walkVars, cardVars, sinceVars
<1>9. ASSUME NEW n \in Nodes \cup {Root}, AddToMod(n) \/ RemoveFromMod(n) PROVE DInv' /\ CInv'
  BY <1>9, CardKeepsDepth, CardKeepsCover
<1>10. CASE UNCHANGED vars
  BY <1>1, <1>10 DEF vars, walkVars, cardVars, sinceVars
<1>11. QED
  BY <1>2, <1>3, <1>4, <1>5, <1>6, <1>7, <1>8, <1>9, <1>10 DEF Next

(* So both are invariants.                                                              *)
LEMMA DepthAndCoverInductive == Spec => [](TypeOK /\ DInv /\ CInv)
<1>1. IInv => TypeOK
  BY DEF IInv
<1>2. QED
  BY <1>1, Inductive, InitDC, NextDC, PTL DEF Spec

(* ProcessDirectoryRecursive enters a directory from itself at most once for every       *)
(* removal from the card since the walk began, so the depth of the recursion is bounded  *)
(* by the levels of the tree and those removals.                                        *)
THEOREM DepthIsBounded == Spec => []DepthBounded
<1>1. TypeOK /\ DInv => DepthBounded
  <2> SUFFICES ASSUME TypeOK, DInv PROVE DepthBounded
    OBVIOUS
  <2>1. Deeper = Cardinality(Links(Len(stack)))
    BY DEF Deeper, Links
  <2>2. CASE stack = <<>>
    <3>1. 1 .. Len(stack) - 1 = {}
      BY <2>2
    <3>2. Deeper = 0
      BY <3>1, FS_EmptySet DEF Deeper
    <3>3. removed \in Nat
      BY DEF TypeOK
    <3>4. QED
      BY <3>2, <3>3 DEF DepthBounded
  <2>3. CASE stack # <<>>
    <3>1. Len(stack) \in 1 .. Len(stack)
      BY <2>3, TopType
    <3>2. QED
      BY <2>1, <3>1 DEF DInv, Roomy, DepthBounded
  <2>4. QED
    BY <2>2, <2>3
<1>2. QED
  BY <1>1, DepthAndCoverInductive, PTL

(* A walk that nothing failed in and nothing was added during has indexed whatever was   *)
(* there from its beginning to its end, for every tree, order of the card's entries and  *)
(* removal in between.                                                                  *)
THEOREM WalkIndexesAll == Spec => []WalkComplete
<1>1. CInv => WalkComplete
  BY DEF CInv
<1>2. QED
  BY <1>1, DepthAndCoverInductive, PTL
==============================================================================
