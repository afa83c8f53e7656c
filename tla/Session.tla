------------------------------ MODULE Session -------------------------------
(***************************************************************************)
(* ServerCore/Session under IocpCore::Dispatch: one connection, the worker *)
(* threads that dequeue its completions, and whoever calls Send, from a    *)
(* handler of this session, of another one, or a job of the room.          *)
(*                                                                         *)
(* The reads and writes of the atomics, the critical sections and the      *)
(* calls of Winsock are the steps.  A completion is dequeued in the step   *)
(* that delivers it.  The lock is a variable because ProcessSend keeps it  *)
(* while it calls RegisterSend, which takes it again.                      *)
(***************************************************************************)
EXTENDS Naturals, Sequences, FiniteSets

CONSTANTS Threads, Buffers,
          NoThread, NoBuffer,
          MaxFailures         \* bound: WSASends that fail

ASSUME SessionAssumption ==
  NoThread \notin Threads /\ NoBuffer \notin Buffers /\ MaxFailures \in Nat

VARIABLES
  connected,       \* _connected
  sendQueue,       \* _sendQueue
  sendRegistered,  \* _sendRegistered
  lock,            \* owner of the session's lock
  sendEvent,       \* _sendEvent, and whether the operation is pending
  recvEvent, disconnectEvent,
  accepting,       \* the AcceptEx, or ConnectEx, of the session is pending
  inService,       \* Service::_sessions contains the session
  frame,           \* frame[t]: what thread t is doing for this session
  accepted,        \* history: every buffer pushed to _sendQueue
  wire,            \* history: the buffers given to WSASend, in order
  failures,        \* history: WSASends that failed
  stuck,           \* history: a WSASend failed and the session went on
  refused          \* history: DisconnectEx failed

vars == <<connected, sendQueue, sendRegistered, lock, sendEvent, recvEvent, disconnectEvent,
          accepting, inService, frame, accepted, wire, failures, stuck, refused>>
sendVars == <<sendQueue, sendRegistered, sendEvent, accepted, wire, failures, stuck>>

Frame == [pc : {"idle", "push", "register", "gather", "wsaSend", "sendFailed", "unregister", "sent",
                "exchange", "disconnectEx", "release",
                "add", "onConnected", "onRecv", "wsaRecv", "recvFailed"},
          buffer : Buffers \union {NoBuffer},
          then : {"idle", "onConnected", "onRecv"},       \* where Send, or RegisterSend, returns
          next : {"idle", "sendFailed", "recvFailed"}]    \* where Disconnect returns
NoFrame == [pc |-> "idle", buffer |-> NoBuffer, then |-> "idle", next |-> "idle"]
Event == [owner : BOOLEAN, pending : BOOLEAN]
NoEvent == [owner |-> FALSE, pending |-> FALSE]

Init ==
  /\ connected = FALSE
  /\ sendQueue = <<>>
  /\ sendRegistered = FALSE
  /\ lock = NoThread
  /\ sendEvent = [owner |-> FALSE, pending |-> FALSE, buffers |-> <<>>]
  /\ recvEvent = NoEvent
  /\ disconnectEvent = NoEvent
  /\ accepting = TRUE
  /\ inService = FALSE
  /\ frame = [t \in Threads |-> NoFrame]
  /\ accepted = {}
  /\ wire = <<>>
  /\ failures = 0
  /\ stuck = FALSE
  /\ refused = FALSE

At(t, pc) == frame[t].pc = pc
Goto(t, pc) == frame' = [frame EXCEPT ![t].pc = pc]
Call(t, pc, then) == frame' = [frame EXCEPT ![t].pc = pc, ![t].then = then]

\* Disconnect is called and control goes on at next.
Disconnecting(t, next) == frame' = [frame EXCEPT ![t].pc = "exchange", ![t].next = next]

\* RegisterSend returns to Send, or to ProcessSend, whose lock guard is released.
SendReturn(t) ==
  /\ frame' = [frame EXCEPT ![t] = [NoFrame EXCEPT !.pc = frame[t].then]]
  /\ lock' = IF lock = t THEN NoThread ELSE lock

\* Disconnect returns.
DisconnectReturn(t) == frame' = [frame EXCEPT ![t].pc = frame[t].next, ![t].next = "idle"]

-----------------------------------------------------------------------------
\* Send by anyone who has the session: Service::_sessions, its own handlers, or
\* a player.  It returns at once when the session is not connected.
Send(t, b) ==
  /\ (At(t, "idle") /\ inService) \/ frame[t].pc \in {"onConnected", "onRecv"}
  /\ connected
  /\ b \notin accepted /\ \A u \in Threads : frame[u].buffer # b
  /\ frame' = [frame EXCEPT ![t].pc = "push", ![t].buffer = b, ![t].then = frame[t].pc]
  /\ UNCHANGED <<connected, lock, recvEvent, disconnectEvent, accepting, inService, sendVars, refused>>

\* Mutant: the previous value of _sendRegistered is ignored.
SendPushRegistering(t) ==
  /\ At(t, "push") /\ lock = NoThread
  /\ sendQueue' = Append(sendQueue, frame[t].buffer)
  /\ accepted' = accepted \union {frame[t].buffer}
  /\ sendRegistered' = TRUE
  /\ frame' = [frame EXCEPT ![t] = [frame[t] EXCEPT !.pc = "register", !.buffer = NoBuffer]]
  /\ UNCHANGED <<connected, lock, sendEvent, recvEvent, disconnectEvent, accepting, inService,
                 wire, failures, stuck, refused>>

\* Under the lock: push, and exchange(true) of _sendRegistered.
SendPush(t) ==
  /\ At(t, "push") /\ lock = NoThread
  /\ sendQueue' = Append(sendQueue, frame[t].buffer)
  /\ accepted' = accepted \union {frame[t].buffer}
  /\ sendRegistered' = TRUE
  /\ frame' = [frame EXCEPT ![t] =
       IF sendRegistered THEN [NoFrame EXCEPT !.pc = frame[t].then]
       ELSE [frame[t] EXCEPT !.pc = "register", !.buffer = NoBuffer]]
  /\ UNCHANGED <<connected, lock, sendEvent, recvEvent, disconnectEvent, accepting, inService,
                 wire, failures, stuck, refused>>

\* RegisterSend returns when the session is not connected any more; it leaves
\* _sendRegistered set.
RegisterRefused(t) ==
  /\ At(t, "register") /\ ~ connected
  /\ SendReturn(t)
  /\ UNCHANGED <<connected, recvEvent, disconnectEvent, accepting, inService, sendVars, refused>>

RegisterOwner(t) ==
  /\ At(t, "register") /\ connected
  /\ sendEvent' = [sendEvent EXCEPT !.owner = TRUE]
  /\ Goto(t, "gather")
  /\ UNCHANGED <<connected, sendQueue, sendRegistered, lock, recvEvent, disconnectEvent, accepting,
                 inService, accepted, wire, failures, stuck, refused>>

\* Mutant: the queue is read and not popped.
RegisterGatherKeeping(t) ==
  /\ At(t, "gather") /\ lock \in {NoThread, t}
  /\ sendEvent' = [sendEvent EXCEPT !.buffers = @ \o sendQueue]
  /\ Goto(t, "wsaSend")
  /\ UNCHANGED <<connected, sendQueue, sendRegistered, lock, recvEvent, disconnectEvent,
                 accepting, inService, accepted, wire, failures, stuck, refused>>

\* Under the lock: the whole queue moves to the event.
RegisterGather(t) ==
  /\ At(t, "gather") /\ lock \in {NoThread, t}
  /\ sendEvent' = [sendEvent EXCEPT !.buffers = @ \o sendQueue]
  /\ sendQueue' = <<>>
  /\ Goto(t, "wsaSend")
  /\ UNCHANGED <<connected, sendRegistered, lock, recvEvent, disconnectEvent, accepting,
                 inService, accepted, wire, failures, stuck, refused>>

WSASend(t) ==
  /\ At(t, "wsaSend")
  /\ sendEvent' = [sendEvent EXCEPT !.pending = TRUE]
  /\ wire' = wire \o sendEvent.buffers
  /\ SendReturn(t)
  /\ UNCHANGED <<connected, sendQueue, sendRegistered, recvEvent, disconnectEvent, accepting,
                 inService, accepted, failures, stuck, refused>>

\* WSASend fails: HandleError disconnects on two of the error codes only.
WSASendFails(t) ==
  /\ At(t, "wsaSend") /\ failures < MaxFailures
  /\ failures' = failures + 1
  /\ \/ Disconnecting(t, "sendFailed") /\ UNCHANGED stuck
     \/ Goto(t, "sendFailed") /\ stuck' = TRUE
  /\ UNCHANGED <<connected, sendQueue, sendRegistered, lock, sendEvent, recvEvent, disconnectEvent,
                 accepting, inService, accepted, wire, refused>>

SendFailed(t) ==
  /\ At(t, "sendFailed")
  /\ sendEvent' = [sendEvent EXCEPT !.owner = FALSE, !.buffers = <<>>]
  /\ Goto(t, "unregister")
  /\ UNCHANGED <<connected, sendQueue, sendRegistered, lock, recvEvent, disconnectEvent, accepting,
                 inService, accepted, wire, failures, stuck, refused>>

Unregister(t) ==
  /\ At(t, "unregister")
  /\ sendRegistered' = FALSE
  /\ SendReturn(t)
  /\ UNCHANGED <<connected, sendQueue, sendEvent, recvEvent, disconnectEvent, accepting,
                 inService, accepted, wire, failures, stuck, refused>>

-----------------------------------------------------------------------------
\* The completion of the send: ProcessSend drops the buffers; numOfBytes is 0
\* when the connection is gone.
SendCompletes(t) ==
  /\ At(t, "idle") /\ sendEvent.pending
  /\ sendEvent' = [owner |-> FALSE, pending |-> FALSE, buffers |-> <<>>]
  /\ Disconnecting(t, "idle") \/ Goto(t, "sent")
  /\ UNCHANGED <<connected, sendQueue, sendRegistered, lock, recvEvent, disconnectEvent, accepting,
                 inService, accepted, wire, failures, stuck, refused>>

\* Mutant: the flag is reset without a look at the queue.
SentUnregister(t) ==
  /\ At(t, "sent") /\ lock = NoThread
  /\ sendRegistered' = FALSE
  /\ Goto(t, "idle")
  /\ UNCHANGED <<connected, sendQueue, lock, sendEvent, recvEvent, disconnectEvent, accepting,
                 inService, accepted, wire, failures, stuck, refused>>

\* Mutant: the flag is not reset.
SentHolding(t) ==
  /\ At(t, "sent") /\ lock = NoThread /\ sendQueue = <<>>
  /\ Goto(t, "idle")
  /\ UNCHANGED <<connected, lock, recvEvent, disconnectEvent, accepting, inService, sendVars, refused>>

\* Under the lock, which is kept while RegisterSend runs.
SentNoMore(t) ==
  /\ At(t, "sent") /\ lock = NoThread /\ sendQueue = <<>>
  /\ sendRegistered' = FALSE
  /\ Goto(t, "idle")
  /\ UNCHANGED <<connected, sendQueue, lock, sendEvent, recvEvent, disconnectEvent, accepting,
                 inService, accepted, wire, failures, stuck, refused>>

\* Mutant: the flag is reset before the next send is registered, without the lock.
SentMoreOpen(t) ==
  /\ At(t, "sent") /\ lock = NoThread /\ sendQueue # <<>>
  /\ sendRegistered' = FALSE
  /\ Call(t, "register", "idle")
  /\ UNCHANGED <<connected, sendQueue, lock, sendEvent, recvEvent, disconnectEvent, accepting,
                 inService, accepted, wire, failures, stuck, refused>>

SentMore(t) ==
  /\ At(t, "sent") /\ lock = NoThread /\ sendQueue # <<>>
  /\ lock' = t
  /\ Call(t, "register", "idle")
  /\ UNCHANGED <<connected, recvEvent, disconnectEvent, accepting, inService, sendVars, refused>>

-----------------------------------------------------------------------------
\* Mutant: the previous value of _connected is ignored.
DisconnectAnyway(t) ==
  /\ At(t, "exchange")
  /\ connected' = FALSE
  /\ Goto(t, "disconnectEx")
  /\ UNCHANGED <<lock, recvEvent, disconnectEvent, accepting, inService, sendVars, refused>>

\* Disconnect: _connected.exchange(false); only one caller goes on.
DisconnectExchange(t) ==
  /\ At(t, "exchange")
  /\ connected' = FALSE
  /\ IF connected THEN Goto(t, "disconnectEx") ELSE DisconnectReturn(t)
  /\ UNCHANGED <<lock, recvEvent, disconnectEvent, accepting, inService, sendVars, refused>>

\* RegisterDisconnect: the owner is set before DisconnectEx, reset if it fails.
DisconnectEx(t) ==
  /\ At(t, "disconnectEx")
  /\ \E ok \in BOOLEAN :
       disconnectEvent' = [owner |-> ok, pending |-> ok] /\ refused' = ~ ok
  /\ DisconnectReturn(t)
  /\ UNCHANGED <<connected, lock, recvEvent, accepting, inService, sendVars>>

\* Disconnect is public.
UserDisconnect(t) ==
  /\ At(t, "idle") /\ inService /\ connected
  /\ Disconnecting(t, "idle")
  /\ UNCHANGED <<connected, lock, recvEvent, disconnectEvent, accepting, inService, sendVars, refused>>

\* Mutant: OnDisconnected is called and the session stays in the service.
DisconnectForgotten(t) ==
  /\ At(t, "idle") /\ disconnectEvent.pending
  /\ disconnectEvent' = NoEvent
  /\ UNCHANGED <<connected, lock, recvEvent, accepting, inService, frame, sendVars, refused>>

\* ProcessDisconnect: OnDisconnected, then ReleaseSession.
DisconnectCompletes(t) ==
  /\ At(t, "idle") /\ disconnectEvent.pending
  /\ disconnectEvent' = NoEvent
  /\ Goto(t, "release")
  /\ UNCHANGED <<connected, lock, recvEvent, accepting, inService, sendVars, refused>>

ReleaseSession(t) ==
  /\ At(t, "release")
  /\ inService' = FALSE
  /\ Goto(t, "idle")
  /\ UNCHANGED <<connected, lock, recvEvent, disconnectEvent, accepting, sendVars, refused>>

-----------------------------------------------------------------------------
\* ProcessAccept or the completion of ConnectEx: ProcessConnect.
ConnectCompletes(t) ==
  /\ At(t, "idle") /\ accepting
  /\ accepting' = FALSE
  /\ connected' = TRUE
  /\ Goto(t, "add")
  /\ UNCHANGED <<lock, recvEvent, disconnectEvent, inService, sendVars, refused>>

AddSession(t) ==
  /\ At(t, "add")
  /\ inService' = TRUE
  /\ Goto(t, "onConnected")
  /\ UNCHANGED <<connected, lock, recvEvent, disconnectEvent, accepting, sendVars, refused>>

\* The callback returns; RegisterRecv follows and returns when not connected.
CallbackReturns(t) ==
  /\ frame[t].pc \in {"onConnected", "onRecv"}
  /\ Goto(t, IF connected THEN "wsaRecv" ELSE "idle")
  /\ recvEvent' = [recvEvent EXCEPT !.owner = connected]
  /\ UNCHANGED <<connected, lock, disconnectEvent, accepting, inService, sendVars, refused>>

WSARecv(t) ==
  /\ At(t, "wsaRecv")
  /\ recvEvent' = [recvEvent EXCEPT !.pending = TRUE]
  /\ Goto(t, "idle")
  /\ UNCHANGED <<connected, lock, disconnectEvent, accepting, inService, sendVars, refused>>

WSARecvFails(t) ==
  /\ At(t, "wsaRecv")
  /\ Disconnecting(t, "recvFailed") \/ Goto(t, "recvFailed")
  /\ UNCHANGED <<connected, lock, recvEvent, disconnectEvent, accepting, inService, sendVars, refused>>

RecvFailed(t) ==
  /\ At(t, "recvFailed")
  /\ recvEvent' = [recvEvent EXCEPT !.owner = FALSE]
  /\ Goto(t, "idle")
  /\ UNCHANGED <<connected, lock, disconnectEvent, accepting, inService, sendVars, refused>>

\* ProcessRecv: the peer is gone, or its data goes to OnRecv.
RecvCompletes(t) ==
  /\ At(t, "idle") /\ recvEvent.pending
  /\ recvEvent' = NoEvent
  /\ Disconnecting(t, "idle") \/ Goto(t, "onRecv")
  /\ UNCHANGED <<connected, lock, disconnectEvent, accepting, inService, sendVars, refused>>

\* OnWrite, OnRecv or OnRead reports an overflow.
RecvOverflow(t) ==
  /\ At(t, "onRecv")
  /\ Disconnecting(t, "idle")
  /\ UNCHANGED <<connected, lock, recvEvent, disconnectEvent, accepting, inService, sendVars, refused>>

-----------------------------------------------------------------------------
\* Steps of a thread that is inside the session's code.
ThreadStep(t) ==
  \/ SendPush(t) \/ RegisterRefused(t) \/ RegisterOwner(t) \/ RegisterGather(t)
  \/ WSASend(t) \/ WSASendFails(t) \/ SendFailed(t) \/ Unregister(t)
  \/ SentNoMore(t) \/ SentMore(t)
  \/ DisconnectExchange(t) \/ DisconnectEx(t) \/ ReleaseSession(t)
  \/ AddSession(t) \/ CallbackReturns(t) \/ WSARecv(t) \/ WSARecvFails(t) \/ RecvFailed(t)
  \/ RecvOverflow(t)

Next ==
  \E t \in Threads :
    \/ ThreadStep(t)
    \/ \E b \in Buffers : Send(t, b)
    \/ UserDisconnect(t)
    \/ SendCompletes(t) \/ RecvCompletes(t) \/ DisconnectCompletes(t) \/ ConnectCompletes(t)

Spec == Init /\ [][Next]_vars

\* The threads run; the peer reads, so that sends complete; DisconnectEx
\* completes.  Nobody has to send, to call Disconnect or to answer.
FairSpec ==
  /\ Spec
  /\ \A t \in Threads : WF_vars(ThreadStep(t))
  /\ WF_vars(\E t \in Threads : SendCompletes(t))
  /\ WF_vars(\E t \in Threads : DisconnectCompletes(t))

-----------------------------------------------------------------------------
TypeOK ==
  /\ connected \in BOOLEAN /\ sendRegistered \in BOOLEAN
  /\ accepting \in BOOLEAN /\ inService \in BOOLEAN /\ stuck \in BOOLEAN /\ refused \in BOOLEAN
  /\ sendQueue \in Seq(Buffers) /\ wire \in Seq(Buffers)
  /\ lock \in Threads \union {NoThread}
  /\ sendEvent \in [owner : BOOLEAN, pending : BOOLEAN, buffers : Seq(Buffers)]
  /\ recvEvent \in Event /\ disconnectEvent \in Event
  /\ frame \in [Threads -> Frame]
  /\ accepted \in SUBSET Buffers
  /\ failures \in Nat

\* Thread t is the one that registers, or has just completed, a send.
InDisconnect(t) == frame[t].pc \in {"exchange", "disconnectEx"}
Sender(t) ==
  \/ frame[t].pc \in {"register", "gather", "wsaSend", "sendFailed", "unregister", "sent"}
  \/ InDisconnect(t) /\ frame[t].next = "sendFailed"

\* At most one send is under way, and while it is nobody can begin another.
OneSend ==
  /\ \A t, u \in Threads : Sender(t) /\ Sender(u) => t = u
  /\ sendEvent.pending => \A t \in Threads : ~ Sender(t)
  /\ sendEvent.pending \/ (\E t \in Threads : Sender(t)) => sendRegistered
  /\ \A t \in Threads : lock = t => Sender(t)

\* Thread t is the one that receives: at most one WSARecv is under way.
Receiver(t) ==
  \/ frame[t].pc \in {"add", "onConnected", "onRecv", "wsaRecv", "recvFailed"}
  \/ InDisconnect(t) /\ frame[t].next = "recvFailed"
  \/ (frame[t].pc = "push" \/ Sender(t)) /\ frame[t].pc # "sent" /\ frame[t].then # "idle"
OneRecv ==
  /\ \A t, u \in Threads : Receiver(t) /\ Receiver(u) => t = u
  /\ recvEvent.pending \/ accepting => \A t \in Threads : ~ Receiver(t)

SessionInv == TypeOK /\ OneSend /\ OneRecv

-----------------------------------------------------------------------------
\* A completion finds its event's owner: Dispatch does not dereference null, and
\* the session stays alive as long as the kernel has its buffers.
CompletionsOwned ==
  /\ sendEvent.pending => sendEvent.owner
  /\ recvEvent.pending => recvEvent.owner
  /\ disconnectEvent.pending => disconnectEvent.owner

\* The assertion in ReleaseSession holds: the session is in the service, and it
\* leaves once, whatever number of threads saw the connection fail.
ReleaseFindsSession ==
  \A t \in Threads : At(t, "release") =>
    inService /\ ~ connected /\ \A u \in Threads : At(u, "release") => u = t

\* A buffer in the queue of a connected session has somebody who will send it,
\* unless a WSASend has failed and the session was kept.
NoForgottenSend ==
  sendQueue # <<>> /\ connected /\ ~ stuck =>
    \/ sendEvent.pending
    \/ \E t \in Threads : Sender(t) /\ frame[t].pc # "unregister"
    \/ \E t \in Threads : At(t, "exchange")

Stream == INSTANCE SendStream WITH
  held <- (IF sendEvent.pending \/ \E t \in Threads :
                At(t, "sendFailed") \/ (InDisconnect(t) /\ frame[t].next = "sendFailed")
           THEN <<>> ELSE sendEvent.buffers) \o sendQueue

\* Whoever calls Send and whoever completes it, the buffers reach the socket in
\* the order they were pushed, none twice, none lost but by a failed WSASend.
RefinesSendStream == Stream!Spec

\* What was accepted is sent, or the session is disconnected or was left stuck.
EveryBufferSent ==
  \A b \in Buffers :
    b \in accepted ~> \/ \E i \in 1..Len(wire) : wire[i] = b
                      \/ ~ connected \/ failures > 0

\* However many threads see the connection fail, and whatever they are doing, a
\* session that is disconnected leaves the service, unless DisconnectEx fails.
DisconnectReleases == inService /\ ~ connected ~> ~ inService \/ refused
=============================================================================
