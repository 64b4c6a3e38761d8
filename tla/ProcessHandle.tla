----------------------------- MODULE ProcessHandle -----------------------------
(****************************************************************************)
(* How the process gets a handle of itself, util/sys/cur_proc_handle.cpp: it  *)
(* asks the kernel or, where the kernel does not know the question, has a      *)
(* thread of its own receive the handle as a message.  R_ABORT_UNLESS ends     *)
(* the process at once.                                                        *)
(****************************************************************************)
EXTENDS Naturals

CONSTANT MaxGets \* bound: how often the handle is asked for
ASSUME ProcessHandleAssumption == MaxGets \in Nat

VARIABLES
  sHandle,  \* s_Handle
  handles,  \* the entries of the process's handle table
  caller,   \* where the thread is that calls Get
  receiver, \* where the thread is that receives, on a stack in the caller's frame
  request,  \* the message on its way through the session
  tls,      \* word 3 of the receiver's message buffer
  gets      \* calls of Get so far

handleVars == <<sHandle, handles, caller, receiver, request, tls, gets>>

ProcessHandleInit ==
  /\ sHandle = "invalid" /\ tls = "unknown"
  /\ handles = {}
  /\ caller = "idle" /\ receiver = "none"
  /\ request = "none"
  /\ gets = 0

Running == caller # "aborted"
CallerGoes(from, to) == caller = from /\ caller' = to
ReceiverGoes(from, to) == Running /\ receiver = from /\ receiver' = to

CallGet ==
  /\ gets < MaxGets
  /\ CallerGoes("idle", IF sHandle = "invalid" THEN "asks the kernel" ELSE "returns")
  /\ gets' = gets + 1
  /\ UNCHANGED <<sHandle, handles, receiver, request, tls>>

GetViaMesosphere ==
  /\ CallerGoes("asks the kernel", "returns")
  /\ sHandle' = "process"
  /\ handles' = handles \cup {"process"}
  /\ UNCHANGED <<receiver, request, tls, gets>>

MesosphereFails ==
  /\ CallerGoes("asks the kernel", "creates a session")
  /\ UNCHANGED <<sHandle, handles, receiver, request, tls, gets>>

CreateSession ==
  /\ CallerGoes("creates a session", "creates a thread")
  /\ handles' = handles \cup {"server", "client"}
  /\ UNCHANGED <<sHandle, receiver, request, tls, gets>>

CreateThread ==
  /\ CallerGoes("creates a thread", "starts the thread")
  /\ handles' = handles \cup {"thread"}
  /\ UNCHANGED <<sHandle, receiver, request, tls, gets>>

StartThread ==
  /\ CallerGoes("starts the thread", "sends")
  /\ receiver' = "starts"
  /\ UNCHANGED <<sHandle, handles, request, tls, gets>>

\* Any of the calls under R_ABORT_UNLESS is refused.
CallAborts ==
  /\ caller \in {"creates a session", "creates a thread", "starts the thread", "waits"}
  /\ caller' = "aborted"
  /\ UNCHANGED <<sHandle, handles, receiver, request, tls, gets>>

\* The result of svcSendSyncRequest is not looked at, whether it is refused ...
SendFails ==
  /\ CallerGoes("sends", "closes the client")
  /\ UNCHANGED <<sHandle, handles, receiver, request, tls, gets>>

SendMessage ==
  /\ CallerGoes("sends", "is sending")
  /\ request' = "queued"
  /\ UNCHANGED <<sHandle, handles, receiver, tls, gets>>

\* ... or ends because nobody is left at the other end of the session.
SendReturns ==
  /\ CallerGoes("is sending", "closes the client")
  /\ "server" \notin handles
  /\ UNCHANGED <<sHandle, handles, receiver, request, tls, gets>>

CloseClient ==
  /\ CallerGoes("closes the client", "waits")
  /\ handles' = handles \ {"client"}
  /\ UNCHANGED <<sHandle, receiver, request, tls, gets>>

\* A bug: the caller goes on without the thread's end.
DoNotWait ==
  /\ CallerGoes("waits", "closes the thread")
  /\ UNCHANGED <<sHandle, handles, receiver, request, tls, gets>>

WaitForThread ==
  /\ CallerGoes("waits", "closes the thread")
  /\ receiver = "exited"
  /\ UNCHANGED <<sHandle, handles, receiver, request, tls, gets>>

CloseThread ==
  /\ CallerGoes("closes the thread", "returns")
  /\ handles' = handles \ {"thread"}
  /\ UNCHANGED <<sHandle, receiver, request, tls, gets>>

ReturnHandle ==
  /\ CallerGoes("returns", "idle")
  /\ UNCHANGED <<sHandle, handles, receiver, request, tls, gets>>

ClearTls ==
  /\ ReceiverGoes("starts", "receives")
  /\ tls' = "zero"
  /\ UNCHANGED <<sHandle, handles, caller, request, gets>>

\* The kernel puts a handle of the process in place of CUR_PROCESS_HANDLE.
ReplyAndReceive ==
  /\ ReceiverGoes("receives", "sets the handle")
  /\ request = "queued"
  /\ request' = "received"
  /\ tls' = "process"
  /\ handles' = handles \cup {"process"}
  /\ UNCHANGED <<sHandle, caller, gets>>

\* Nobody can send any more, or there is no room for the handle.
ReceiveAborts ==
  /\ Running /\ receiver = "receives"
  /\ request = "queued" \/ "client" \notin handles
  /\ caller' = "aborted"
  /\ UNCHANGED <<sHandle, handles, receiver, request, tls, gets>>

SetHandle ==
  /\ ReceiverGoes("sets the handle", "closes the session")
  /\ sHandle' = tls
  /\ UNCHANGED <<handles, caller, request, tls, gets>>

\* A bug: the session stays open.
LeaveSession ==
  /\ ReceiverGoes("closes the session", "exits")
  /\ UNCHANGED <<sHandle, handles, caller, request, tls, gets>>

CloseSession ==
  /\ ReceiverGoes("closes the session", "exits")
  /\ handles' = handles \ {"server"}
  /\ UNCHANGED <<sHandle, caller, request, tls, gets>>

ExitThread ==
  /\ ReceiverGoes("exits", "exited")
  /\ UNCHANGED <<sHandle, handles, caller, request, tls, gets>>

\* What becomes of a call once it is made, unless it ends the process.
CallerGoesOn ==
  \/ GetViaMesosphere \/ MesosphereFails \/ CreateSession \/ CreateThread \/ StartThread
  \/ SendFails \/ SendMessage \/ SendReturns \/ CloseClient \/ WaitForThread \/ CloseThread \/ ReturnHandle
CallerNext == CallGet \/ CallAborts \/ CallerGoesOn
ReceiverNext == ClearTls \/ ReplyAndReceive \/ ReceiveAborts \/ SetHandle \/ CloseSession \/ ExitThread
ProcessHandleNext == CallerNext \/ ReceiverNext

\* The scheduler lets both threads run: each has a core of its own.  Nobody has to
\* call, and no call of the kernel has to be refused: a thread that waits for ever
\* stays where it is, but the kernel does tell a receiver that its client is gone.
ProcessHandleSpec ==
  /\ ProcessHandleInit /\ [][ProcessHandleNext]_handleVars
  /\ WF_handleVars(CallerGoesOn) /\ WF_handleVars(ReceiverNext)

\* Get returns with a handle of the process, which is then its only new one,
\* and never while the thread still runs on the stack in the frame it leaves.
HandleIsReceived ==
  caller = "returns" => /\ sHandle = "process"
                        /\ handles = {"process"}
                        /\ receiver \in {"none", "exited"}

\* A call of Get returns, or the process has ended: the two threads never wait
\* for each other, whichever comes first and whatever is refused.
GetReturns == caller = "asks the kernel" ~> caller \in {"returns", "aborted"}
===============================================================================
