------------------------------- MODULE SvcStubs -------------------------------
(****************************************************************************)
(* The system call stubs of nx/kernel/svc.s against their prototypes in       *)
(* nx/kernel/svc.h.  A stub is its instructions up to ret; a value is where   *)
(* it came from: the caller's register, the kernel's, or the caller's memory. *)
(* svc.h does not declare svcGet- and svcSetDebugThreadContext: only stubs    *)
(* with a prototype are called.                                               *)
(****************************************************************************)
EXTENDS Integers, Sequences, TLC

VARIABLES
  svcName,  \* the stub that was called
  rest,     \* its instructions that are left
  regs,     \* x0 .. x8
  stack,    \* what was pushed behind the caller's sp
  memory64, \* the double words behind the pointers in x0 and x1: <<lower, upper half>>
  trap      \* what the kernel got: the number and x0 .. x7

svcVars == <<svcName, rest, regs, stack, memory64, trap>>

Push(from) == [op |-> "push", regs |-> from]
Pop(to) == [op |-> "pop", regs |-> to]
Svc(number) == [op |-> "svc", number |-> number]
Store(reg, width, base, offset) == [op |-> "str", reg |-> reg, width |-> width, base |-> base, offset |-> offset]
Load(reg, base, offset) == [op |-> "ldr", reg |-> reg, base |-> base, offset |-> offset]
Move(to, from) == [op |-> "mov", to |-> to, from |-> from]

\* A bug: the pointer stays in a register over the system call.
SavingNot(reg, number, width) == <<Move(2, reg), Svc(number), Store(1, width, 2, 0)>>

\* The shapes stubs have: nothing but the call; one pointer or two saved over it.
Plain(number) == <<Svc(number)>>
Saving(reg, number, width) == <<Push(<<reg>>), Svc(number), Pop(<<2>>), Store(1, width, 2, 0)>>
SavingBoth(number, width) ==
  <<Push(<<0, 1>>), Svc(number), Pop(<<3, 4>>), Store(1, width, 3, 0), Store(2, 32, 4, 0)>>
PhysicalAddress ==
  <<Push(<<0>>), Svc(\h54), Pop(<<4>>), Store(1, 64, 4, 0), Store(2, 64, 4, 8), Store(3, 64, 4, 16)>>
SecureMonitor ==
  <<Push(<<0>>), Move(8, 0)>> \o [r \in 1 .. 8 |-> Load(r - 1, 8, 8 * (r - 1))] \o <<Svc(\h7F), Pop(<<8>>)>>
  \o [r \in 1 .. 8 |-> Store(r - 1, 64, 8, 8 * (r - 1))]

StubsA ==
  [svcSetHeapSize |-> Saving(0, \h1, 64), svcSetMemoryPermission |-> Plain(\h2),
   svcSetMemoryAttribute |-> Plain(\h3), svcMapMemory |-> Plain(\h4), svcUnmapMemory |-> Plain(\h5),
   svcQueryMemory |-> Saving(1, \h6, 32), svcExitProcess |-> Plain(\h7), svcCreateThread |-> Saving(0, \h8, 32),
   svcStartThread |-> Plain(\h9), svcExitThread |-> Plain(\hA), svcSleepThread |-> Plain(\hB),
   svcGetThreadPriority |-> Saving(0, \hC, 32), svcSetThreadPriority |-> Plain(\hD),
   svcGetThreadCoreMask |-> SavingBoth(\hE, 32), svcSetThreadCoreMask |-> Plain(\hF),
   svcGetCurrentProcessorNumber |-> Plain(\h10), svcSignalEvent |-> Plain(\h11), svcClearEvent |-> Plain(\h12),
   svcMapSharedMemory |-> Plain(\h13), svcUnmapSharedMemory |-> Plain(\h14),
   svcCreateTransferMemory |-> Saving(0, \h15, 32), svcCloseHandle |-> Plain(\h16),
   svcResetSignal |-> Plain(\h17), svcWaitSynchronization |-> Saving(0, \h18, 32),
   svcCancelSynchronization |-> Plain(\h19)]
StubsB ==
  [svcArbitrateLock |-> Plain(\h1A), svcArbitrateUnlock |-> Plain(\h1B),
   svcWaitProcessWideKeyAtomic |-> Plain(\h1C), svcSignalProcessWideKey |-> Plain(\h1D),
   svcGetSystemTick |-> Plain(\h1E), svcConnectToNamedPort |-> Saving(0, \h1F, 32),
   svcSendSyncRequest |-> Plain(\h21), svcSendSyncRequestWithUserBuffer |-> Plain(\h22),
   svcSendAsyncRequestWithUserBuffer |-> Saving(0, \h23, 32), svcGetProcessId |-> Saving(0, \h24, 64),
   svcGetThreadId |-> Saving(0, \h25, 64), svcBreak |-> Plain(\h26), svcOutputDebugString |-> Plain(\h27),
   svcReturnFromException |-> Plain(\h28), svcGetInfo |-> Saving(0, \h29, 64),
   svcMapPhysicalMemory |-> Plain(\h2C), svcUnmapPhysicalMemory |-> Plain(\h2D),
   svcGetResourceLimitLimitValue |-> Saving(0, \h30, 64), svcGetResourceLimitCurrentValue |-> Saving(0, \h31, 64),
   svcSetThreadActivity |-> Plain(\h32), svcGetThreadContext3 |-> Plain(\h33),
   svcCreateSession |-> SavingBoth(\h40, 32), svcAcceptSession |-> Saving(0, \h41, 32),
   svcReplyAndReceive |-> Saving(0, \h43, 32)]
StubsC ==
  [svcReplyAndReceiveWithUserBuffer |-> Saving(0, \h44, 32), svcCreateEvent |-> SavingBoth(\h45, 32),
   svcMapPhysicalMemoryUnsafe |-> Plain(\h48), svcUnmapPhysicalMemoryUnsafe |-> Plain(\h49),
   svcSetUnsafeLimit |-> Plain(\h4A), svcCreateCodeMemory |-> Saving(0, \h4B, 32),
   svcControlCodeMemory |-> Plain(\h4C), svcReadWriteRegister |-> Saving(0, \h4E, 32),
   svcCreateSharedMemory |-> Saving(0, \h50, 32), svcMapTransferMemory |-> Plain(\h51),
   svcUnmapTransferMemory |-> Plain(\h52), svcCreateInterruptEvent |-> Saving(0, \h53, 32),
   svcQueryPhysicalAddress |-> PhysicalAddress, svcQueryIoMapping |-> Saving(0, \h55, 64),
   svcCreateDeviceAddressSpace |-> Saving(0, \h56, 32), svcAttachDeviceAddressSpace |-> Plain(\h57),
   svcDetachDeviceAddressSpace |-> Plain(\h58), svcMapDeviceAddressSpaceByForce |-> Plain(\h59),
   svcMapDeviceAddressSpaceAligned |-> Plain(\h5A), svcUnmapDeviceAddressSpace |-> Plain(\h5C),
   svcDebugActiveProcess |-> Saving(0, \h60, 32), svcBreakDebugProcess |-> Plain(\h61),
   svcTerminateDebugProcess |-> Plain(\h62)]
StubsD ==
  [svcGetDebugEvent |-> Plain(\h63), svcLegacyContinueDebugEvent |-> Plain(\h64),
   svcContinueDebugEvent |-> Plain(\h64), svcGetProcessList |-> Saving(0, \h65, 32),
   svcGetThreadList |-> Saving(0, \h66, 32), svcGetDebugThreadContext |-> Plain(\h67),
   svcSetDebugThreadContext |-> Plain(\h68), svcQueryDebugProcessMemory |-> Saving(1, \h69, 32),
   svcReadDebugProcessMemory |-> Plain(\h6A), svcWriteDebugProcessMemory |-> Plain(\h6B),
   svcGetDebugThreadParam |-> SavingBoth(\h6D, 64), svcGetSystemInfo |-> Saving(0, \h6F, 64),
   svcCreatePort |-> SavingBoth(\h70, 32), svcManageNamedPort |-> Saving(0, \h71, 32),
   svcConnectToPort |-> Saving(0, \h72, 32), svcSetProcessMemoryPermission |-> Plain(\h73),
   svcMapProcessMemory |-> Plain(\h74), svcUnmapProcessMemory |-> Plain(\h75),
   svcQueryProcessMemory |-> Saving(1, \h76, 32), svcMapProcessCodeMemory |-> Plain(\h77),
   svcUnmapProcessCodeMemory |-> Plain(\h78), svcCreateProcess |-> Saving(0, \h79, 32),
   svcStartProcess |-> Plain(\h7A)]
StubsE ==
  [svcTerminateProcess |-> Plain(\h7B), svcGetProcessInfo |-> Saving(0, \h7C, 32),
   svcCreateResourceLimit |-> Saving(0, \h7D, 32), svcSetResourceLimitLimitValue |-> Plain(\h7E),
   svcCallSecureMonitor |-> SecureMonitor]
Stubs == StubsA @@ StubsB @@ StubsC @@ StubsD @@ StubsE

-----------------------------------------------------------------------------
(* What the prototypes declare: the number in the comment, and the pointers    *)
(* for what the kernel returns in registers: argument, offset, width and the   *)
(* register.                                                                   *)

Declared(number, outs) == [number |-> number, outs |-> outs]
Out(argument, offset, width, reg) == [argument |-> argument, offset |-> offset, width |-> width, reg |-> reg]
Nothing == {}
One(argument, width) == {Out(argument, 0, width, 1)}
Two(width0, width1) == {Out(0, 0, width0, 1), Out(1, 0, width1, 2)}
Three == {Out(0, 8 * i, 64, i + 1) : i \in 0 .. 2}
Eight == {Out(0, 8 * i, 64, i) : i \in 0 .. 7}

PrototypesA ==
  [svcSetHeapSize |-> Declared(\h0, One(0, 64)), svcSetMemoryPermission |-> Declared(\h1, Nothing),
   svcSetMemoryAttribute |-> Declared(\h2, Nothing), svcMapMemory |-> Declared(\h4, Nothing),
   svcUnmapMemory |-> Declared(\h5, Nothing), svcQueryMemory |-> Declared(\h6, One(1, 32)),
   svcExitProcess |-> Declared(\h7, Nothing), svcCreateThread |-> Declared(\h8, One(0, 32)),
   svcStartThread |-> Declared(\h9, Nothing), svcExitThread |-> Declared(\hA, Nothing),
   svcSleepThread |-> Declared(\hB, Nothing), svcGetThreadPriority |-> Declared(\hC, One(0, 32)),
   svcSetThreadPriority |-> Declared(\hD, Nothing), svcGetThreadCoreMask |-> Declared(\hE, Two(32, 32)),
   svcSetThreadCoreMask |-> Declared(\hF, Nothing), svcGetCurrentProcessorNumber |-> Declared(\h10, Nothing)]
PrototypesB ==
  [svcSignalEvent |-> Declared(\h11, Nothing), svcClearEvent |-> Declared(\h12, Nothing),
   svcMapSharedMemory |-> Declared(\h13, Nothing), svcUnmapSharedMemory |-> Declared(\h14, Nothing),
   svcCreateTransferMemory |-> Declared(\h15, One(0, 32)), svcCloseHandle |-> Declared(\h16, Nothing),
   svcResetSignal |-> Declared(\h17, Nothing), svcWaitSynchronization |-> Declared(\h18, One(0, 32)),
   svcCancelSynchronization |-> Declared(\h19, Nothing), svcArbitrateLock |-> Declared(\h1A, Nothing),
   svcArbitrateUnlock |-> Declared(\h1B, Nothing), svcWaitProcessWideKeyAtomic |-> Declared(\h1C, Nothing),
   svcSignalProcessWideKey |-> Declared(\h1D, Nothing), svcGetSystemTick |-> Declared(\h1E, Nothing),
   svcConnectToNamedPort |-> Declared(\h1F, One(0, 32))]
PrototypesC ==
  [svcSendSyncRequest |-> Declared(\h21, Nothing), svcSendSyncRequestWithUserBuffer |-> Declared(\h22, Nothing),
   svcSendAsyncRequestWithUserBuffer |-> Declared(\h23, One(0, 32)),
   svcGetProcessId |-> Declared(\h24, One(0, 64)), svcGetThreadId |-> Declared(\h25, One(0, 64)),
   svcBreak |-> Declared(\h26, Nothing), svcOutputDebugString |-> Declared(\h27, Nothing),
   svcReturnFromException |-> Declared(\h28, Nothing), svcGetInfo |-> Declared(\h29, One(0, 64)),
   svcMapPhysicalMemory |-> Declared(\h2C, Nothing), svcUnmapPhysicalMemory |-> Declared(\h2D, Nothing),
   svcGetResourceLimitLimitValue |-> Declared(\h30, One(0, 64)),
   svcGetResourceLimitCurrentValue |-> Declared(\h31, One(0, 64)), svcSetThreadActivity |-> Declared(\h32, Nothing)]
PrototypesD ==
  [svcGetThreadContext3 |-> Declared(\h33, Nothing), svcCreateSession |-> Declared(\h40, Two(32, 32)),
   svcAcceptSession |-> Declared(\h41, One(0, 32)), svcReplyAndReceive |-> Declared(\h43, One(0, 32)),
   svcReplyAndReceiveWithUserBuffer |-> Declared(\h44, One(0, 32)),
   svcCreateEvent |-> Declared(\h45, Two(32, 32)), svcMapPhysicalMemoryUnsafe |-> Declared(\h48, Nothing),
   svcUnmapPhysicalMemoryUnsafe |-> Declared(\h49, Nothing), svcSetUnsafeLimit |-> Declared(\h4A, Nothing),
   svcCreateCodeMemory |-> Declared(\h4B, One(0, 32)), svcControlCodeMemory |-> Declared(\h4C, Nothing),
   svcReadWriteRegister |-> Declared(\h4E, One(0, 32)), svcCreateSharedMemory |-> Declared(\h50, One(0, 32)),
   svcMapTransferMemory |-> Declared(\h51, Nothing), svcUnmapTransferMemory |-> Declared(\h52, Nothing)]
PrototypesE ==
  [svcCreateInterruptEvent |-> Declared(\h53, One(0, 32)), svcQueryPhysicalAddress |-> Declared(\h54, Three),
   svcQueryIoMapping |-> Declared(\h55, One(0, 64)), svcCreateDeviceAddressSpace |-> Declared(\h56, One(0, 32)),
   svcAttachDeviceAddressSpace |-> Declared(\h57, Nothing), svcDetachDeviceAddressSpace |-> Declared(\h58, Nothing),
   svcMapDeviceAddressSpaceByForce |-> Declared(\h59, Nothing),
   svcMapDeviceAddressSpaceAligned |-> Declared(\h5A, Nothing), svcUnmapDeviceAddressSpace |-> Declared(\h5C, Nothing),
   svcDebugActiveProcess |-> Declared(\h60, One(0, 32)), svcBreakDebugProcess |-> Declared(\h61, Nothing),
   svcTerminateDebugProcess |-> Declared(\h62, Nothing), svcGetDebugEvent |-> Declared(\h63, Nothing),
   svcContinueDebugEvent |-> Declared(\h64, Nothing), svcLegacyContinueDebugEvent |-> Declared(\h64, Nothing),
   svcGetProcessList |-> Declared(\h65, One(0, 32))]
PrototypesF ==
  [svcGetThreadList |-> Declared(\h66, One(0, 32)), svcQueryDebugProcessMemory |-> Declared(\h69, One(1, 32)),
   svcReadDebugProcessMemory |-> Declared(\h6A, Nothing), svcWriteDebugProcessMemory |-> Declared(\h6B, Nothing),
   svcGetDebugThreadParam |-> Declared(\h6D, Two(64, 32)), svcGetSystemInfo |-> Declared(\h6F, One(0, 64)),
   svcCreatePort |-> Declared(\h70, Two(32, 32)), svcManageNamedPort |-> Declared(\h71, One(0, 32)),
   svcConnectToPort |-> Declared(\h72, One(0, 32)), svcSetProcessMemoryPermission |-> Declared(\h73, Nothing),
   svcMapProcessMemory |-> Declared(\h74, Nothing), svcUnmapProcessMemory |-> Declared(\h75, Nothing),
   svcQueryProcessMemory |-> Declared(\h76, One(1, 32))]
PrototypesG ==
  [svcMapProcessCodeMemory |-> Declared(\h77, Nothing), svcUnmapProcessCodeMemory |-> Declared(\h78, Nothing),
   svcCreateProcess |-> Declared(\h79, One(0, 32)), svcStartProcess |-> Declared(\h7A, Nothing),
   svcTerminateProcess |-> Declared(\h7B, Nothing), svcGetProcessInfo |-> Declared(\h7C, One(0, 64)),
   svcCreateResourceLimit |-> Declared(\h7D, One(0, 32)), svcSetResourceLimitLimitValue |-> Declared(\h7E, Nothing),
   svcCallSecureMonitor |-> Declared(\h7F, Eight)]
Prototypes == PrototypesA @@ PrototypesB @@ PrototypesC @@ PrototypesD @@ PrototypesE @@ PrototypesF @@ PrototypesG

-----------------------------------------------------------------------------
Argument(r) == <<"argument", r>>
Kernel(r) == <<"kernel", r>>
Behind(pointer, offset) == <<"behind", pointer, offset>>
Addresses == {<<pointer, 8 * i>> : pointer \in 0 .. 1, i \in 0 .. 7}

SvcInit(name) ==
  /\ svcName = name
  /\ rest = Stubs[name]
  /\ regs = [r \in 0 .. 8 |-> Argument(r)]
  /\ stack = <<>>
  /\ memory64 = [a \in Addresses |-> <<Behind(a[1], a[2]), Behind(a[1], a[2])>>]
  /\ trap = [number |-> 0, regs |-> <<>>]

Executes(op) == rest # <<>> /\ rest[1].op = op /\ rest' = Tail(rest) /\ UNCHANGED svcName

\* str rN, [sp, #-16]! and stp rN, rM, [sp, #-16]!.
ExecutePush ==
  /\ Executes("push")
  /\ stack' = <<[k \in DOMAIN rest[1].regs |-> regs[rest[1].regs[k]]]>> \o stack
  /\ UNCHANGED <<regs, memory64, trap>>

\* ldr rN, [sp], #16 and ldp rN, rM, [sp], #16.
ExecutePop ==
  /\ Executes("pop")
  /\ regs' = [r \in 0 .. 8 |-> IF \E k \in DOMAIN rest[1].regs : rest[1].regs[k] = r
                               THEN stack[1][CHOOSE k \in DOMAIN rest[1].regs : rest[1].regs[k] = r] ELSE regs[r]]
  /\ stack' = Tail(stack)
  /\ UNCHANGED <<memory64, trap>>

\* The kernel leaves nothing of the caller's in the registers it returns.
ExecuteSvc ==
  /\ Executes("svc")
  /\ trap' = [number |-> rest[1].number, regs |-> [r \in 0 .. 7 |-> regs[r]]]
  /\ regs' = [r \in 0 .. 8 |-> Kernel(r)]
  /\ UNCHANGED <<stack, memory64>>

\* Through a register that holds no pointer of the caller's nothing is written.
ExecuteStore ==
  /\ Executes("str")
  /\ LET i == rest[1]
         a == <<regs[i.base][2], i.offset>>
     IN memory64' = IF regs[i.base] \in {Argument(0), Argument(1)}
                    THEN [memory64 EXCEPT ![a] = <<regs[i.reg], IF i.width = 64 THEN regs[i.reg] ELSE @[2]>>]
                    ELSE memory64
  /\ UNCHANGED <<regs, stack, trap>>

ExecuteLoad ==
  /\ Executes("ldr")
  /\ regs' = [regs EXCEPT ![rest[1].reg] = memory64[<<regs[rest[1].base][2], rest[1].offset>>][1]]
  /\ UNCHANGED <<stack, memory64, trap>>

ExecuteMove ==
  /\ Executes("mov")
  /\ regs' = [regs EXCEPT ![rest[1].to] = regs[rest[1].from]]
  /\ UNCHANGED <<stack, memory64, trap>>

SvcNext == ExecutePush \/ ExecutePop \/ ExecuteSvc \/ ExecuteStore \/ ExecuteLoad \/ ExecuteMove
SvcSpec == (\E name \in DOMAIN Prototypes : SvcInit(name)) /\ [][SvcNext]_svcVars

-----------------------------------------------------------------------------
\* What the two halves of a double word should hold in the end.
Promised(a) ==
  LET to == {o \in Prototypes[svcName].outs : <<o.argument, o.offset>> = a}
      old == Behind(a[1], a[2])
  IN IF to = {} THEN <<old, old>>
     ELSE LET o == CHOOSE o \in to : TRUE IN <<Kernel(o.reg), IF o.width = 64 THEN Kernel(o.reg) ELSE old>>

\* svcGetProcessInfo declares 64 bits and stores 32, and the comments of the
\* first three calls number them from 0.
HalfStored == {"svcGetProcessInfo"}
Misnumbered == {"svcSetHeapSize", "svcSetMemoryPermission", "svcSetMemoryAttribute"}

\* A stub that returns has passed its caller's arguments to the system call its
\* prototype documents, put all of what the kernel returned, and no more, behind
\* the pointers its prototype declares, and left the caller's stack as it was.
StubsKeepTheContract ==
  rest = <<>> =>
    /\ stack = <<>> /\ regs[0] = Kernel(0)
    /\ trap.number = Prototypes[svcName].number \/ svcName \in Misnumbered
    /\ \A r \in 0 .. 7 : trap.regs[r] = IF svcName = "svcCallSecureMonitor" THEN Behind(0, 8 * r) ELSE Argument(r)
    /\ \A a \in Addresses : memory64[a] = Promised(a)
                            \/ (svcName \in HalfStored /\ memory64[a][1] = Promised(a)[1])
===============================================================================
