--------------------------- MODULE SessionProofs ----------------------------
(***************************************************************************)
(* Proofs about Session, for any number of threads and buffers: one send   *)
(* and one receive under way (SessionInv), owned completions, the release  *)
(* of the session, no forgotten buffer, and that Send implements the       *)
(* stream of SendStream.                                                   *)
(***************************************************************************)
EXTENDS Session, TLAPS, SequenceTheorems

USE SessionAssumption

\* The buffer a thread is about to push is new, and nobody else's.
FrameInv ==
  /\ \A t \in Threads : At(t, "push") => frame[t].buffer \in Buffers \ accepted
  /\ \A t, u \in Threads :
       At(t, "push") /\ At(u, "push") /\ frame[t].buffer = frame[u].buffer => t = u

\* The owner is set before the call that needs it.
OwnerInv ==
  /\ CompletionsOwned
  /\ \A t \in Threads : frame[t].pc \in {"gather", "wsaSend"} => sendEvent.owner
  /\ \A t \in Threads : At(t, "wsaRecv") => recvEvent.owner

\* The connection is not in the service yet; nothing else happens until it is.
Early == accepting \/ \E t \in Threads : At(t, "add")
EarlyInv ==
  /\ accepting => ~ connected /\ \A t \in Threads : At(t, "idle")
  /\ \A t \in Threads : At(t, "add") => connected /\ \A u \in Threads \ {t} : At(u, "idle")
  /\ Early => /\ ~ (sendEvent.pending \/ recvEvent.pending \/ disconnectEvent.pending)
              /\ ~ inService /\ ~ sendRegistered /\ sendQueue = <<>>

\* Thread t has made the session leave and has not finished; it leaves once.
Leaving(t) == frame[t].pc \in {"disconnectEx", "release"}
LeaveInv ==
  /\ connected => inService \/ Early
  /\ \A t, u \in Threads : Leaving(t) /\ Leaving(u) => t = u
  /\ \A t \in Threads : Leaving(t) => ~ disconnectEvent.pending
  /\ disconnectEvent.pending \/ (\E t \in Threads : Leaving(t)) => inService /\ ~ connected

\* Thread t will send what is in the queue, or end the connection.
Promises(t) == (Sender(t) /\ frame[t].pc # "unregister") \/ At(t, "exchange")
FlowInv ==
  connected /\ ~ stuck =>
    /\ sendRegistered => sendEvent.pending \/ \E t \in Threads : Promises(t)
    /\ sendQueue # <<>> => sendRegistered
    /\ \A t \in Threads : frame[t].pc \notin {"sendFailed", "unregister"}

\* Thread t's WSASend has failed and its buffers are not dropped yet.
Failing(t) == At(t, "sendFailed") \/ (InDisconnect(t) /\ frame[t].next = "sendFailed")

\* What is registered is not empty, and what is not under way is.
StreamInv ==
  /\ \A t \in Threads : frame[t].pc \in {"register", "gather"} => sendQueue # <<>>
  /\ \A t \in Threads : At(t, "wsaSend") => sendEvent.buffers # <<>>
  /\ sendEvent.buffers # <<>> =>
       sendEvent.pending \/ \E t \in Threads : At(t, "wsaSend") \/ Failing(t)

\* Every buffer under way was accepted.
AcceptedInv ==
  /\ \A i \in 1..Len(sendQueue) : sendQueue[i] \in accepted
  /\ \A i \in 1..Len(sendEvent.buffers) : sendEvent.buffers[i] \in accepted
  /\ \A i \in 1..Len(wire) : wire[i] \in accepted

\* The inductive invariant.
SessionIInv ==
  /\ SessionInv /\ FrameInv /\ OwnerInv /\ EarlyInv
  /\ LeaveInv /\ FlowInv /\ StreamInv /\ AcceptedInv

-----------------------------------------------------------------------------
\* What the steps do to the frame of the thread that takes them; the frames of
\* the others stay.
Others(t) == \A u \in Threads \ {t} : frame'[u] = frame[u]

\* What UNCHANGED sendVars keeps, variable by variable.
LEMMA SendVarsKept ==
  ASSUME UNCHANGED sendVars
  PROVE  /\ sendQueue' = sendQueue /\ sendRegistered' = sendRegistered /\ sendEvent' = sendEvent
         /\ accepted' = accepted /\ wire' = wire /\ failures' = failures /\ stuck' = stuck
  BY DEF sendVars

\* The fields of the frames after Goto.
LEMMA GotoFields ==
  ASSUME TypeOK, NEW t \in Threads, NEW p, Goto(t, p)
  PROVE  /\ frame'[t].pc = p /\ UNCHANGED <<frame[t].buffer, frame[t].then, frame[t].next>>
         /\ Others(t)
  BY DEF TypeOK, Goto, Frame, Others

\* The fields of the frames after a call that returns to next.
LEMMA CallFields ==
  ASSUME TypeOK, NEW t \in Threads, NEW p, NEW q, Call(t, p, q)
  PROVE  /\ frame'[t].pc = p /\ frame'[t].then = q
         /\ UNCHANGED <<frame[t].buffer, frame[t].next>> /\ Others(t)
  BY DEF TypeOK, Call, Frame, Others

\* The fields of the frames after HandleError or a handler calls Disconnect.
LEMMA DisconnectingFields ==
  ASSUME TypeOK, NEW t \in Threads, NEW n, Disconnecting(t, n)
  PROVE  /\ frame'[t].pc = "exchange" /\ frame'[t].next = n
         /\ UNCHANGED <<frame[t].buffer, frame[t].then>> /\ Others(t)
  BY DEF TypeOK, Disconnecting, Frame, Others

\* The fields of the frames after Disconnect returns.
LEMMA DisconnectReturnFields ==
  ASSUME TypeOK, NEW t \in Threads, DisconnectReturn(t)
  PROVE  /\ frame'[t].pc = frame[t].next /\ frame'[t].next = "idle"
         /\ UNCHANGED <<frame[t].buffer, frame[t].then>> /\ Others(t)
         /\ frame[t].next \in {"idle", "sendFailed", "recvFailed"}
  BY DEF TypeOK, DisconnectReturn, Frame, Others

\* The fields of the frames after Send or RegisterSend returns.
LEMMA SendReturnFields ==
  ASSUME TypeOK, NEW t \in Threads, SendReturn(t)
  PROVE  /\ frame'[t].pc = frame[t].then /\ frame'[t].then = "idle" /\ frame'[t].next = "idle"
         /\ lock' = IF lock = t THEN NoThread ELSE lock
         /\ Others(t) /\ frame[t].then \in {"idle", "onConnected", "onRecv"}
  BY DEF TypeOK, SendReturn, NoFrame, Frame, Others

\* The fields of the frames after Send begins.
LEMMA SendFields ==
  ASSUME TypeOK, NEW t \in Threads, NEW b, Send(t, b)
  PROVE  /\ frame'[t].pc = "push" /\ frame'[t].buffer = b /\ frame'[t].then = frame[t].pc
         /\ UNCHANGED frame[t].next /\ Others(t)
  BY DEF TypeOK, Send, Frame, Others

\* The fields of the frames after Send has queued its buffer.
LEMMA SendPushFields ==
  ASSUME TypeOK, NEW t \in Threads, SendPush(t)
  PROVE  /\ IF sendRegistered
            THEN /\ frame'[t].pc = frame[t].then
                 /\ frame'[t].then = "idle" /\ frame'[t].next = "idle"
            ELSE frame'[t].pc = "register" /\ UNCHANGED <<frame[t].then, frame[t].next>>
         /\ Others(t) /\ frame[t].then \in {"idle", "onConnected", "onRecv"}
  BY DEF TypeOK, SendPush, NoFrame, Frame, Others



\* The steps outside the sending code.
QuietStep(t) ==
  \/ DisconnectExchange(t) \/ DisconnectEx(t) \/ UserDisconnect(t)
  \/ DisconnectCompletes(t) \/ ReleaseSession(t)
  \/ ConnectCompletes(t) \/ AddSession(t) \/ CallbackReturns(t) \/ WSARecv(t)
  \/ WSARecvFails(t) \/ RecvFailed(t) \/ RecvCompletes(t) \/ RecvOverflow(t)

\* They leave the state of the sends alone, and a failing send failing.
LEMMA QuietStepKeeps ==
  ASSUME TypeOK, NEW t \in Threads, QuietStep(t)
  PROVE  /\ sendQueue' = sendQueue /\ sendEvent' = sendEvent /\ accepted' = accepted
         /\ wire' = wire /\ failures' = failures
         /\ Others(t) /\ frame'[t].pc \notin {"register", "gather", "wsaSend"}
         /\ ~ At(t, "wsaSend") /\ (Failing(t)' <=> Failing(t))
  <1>1. UNCHANGED sendVars
    BY DEF QuietStep, DisconnectExchange, DisconnectEx, UserDisconnect, DisconnectCompletes,
           ReleaseSession, ConnectCompletes, AddSession, CallbackReturns, WSARecv, WSARecvFails,
           RecvFailed, RecvCompletes, RecvOverflow
  <1>2. /\ Others(t) /\ frame'[t].pc \notin {"register", "gather", "wsaSend"}
        /\ ~ At(t, "wsaSend") /\ (Failing(t)' <=> Failing(t))
    <2> USE DEF At, Failing, InDisconnect
    <2>1. CASE DisconnectExchange(t) \/ DisconnectEx(t)
      BY <2>1, GotoFields, DisconnectReturnFields DEF DisconnectExchange, DisconnectEx
    <2>2. CASE UserDisconnect(t) \/ DisconnectCompletes(t) \/ ReleaseSession(t)
      BY <2>2, GotoFields, DisconnectingFields DEF UserDisconnect, DisconnectCompletes, ReleaseSession
    <2>3. CASE ConnectCompletes(t) \/ AddSession(t) \/ CallbackReturns(t) \/ WSARecv(t)
      BY <2>3, GotoFields DEF ConnectCompletes, AddSession, CallbackReturns, WSARecv
    <2>4. CASE WSARecvFails(t) \/ RecvFailed(t) \/ RecvCompletes(t) \/ RecvOverflow(t)
      BY <2>4, GotoFields, DisconnectingFields DEF WSARecvFails, RecvFailed, RecvCompletes, RecvOverflow
    <2>5. QED
      BY <2>1, <2>2, <2>3, <2>4 DEF QuietStep
  <1>3. QED
    BY <1>1, <1>2, SendVarsKept

\* A step that leaves sending alone: its thread is a sender after it if it was one.
LEMMA OneSendKept ==
  ASSUME OneSend, NEW t \in Threads, Others(t), Sender(t)' <=> Sender(t),
         UNCHANGED <<sendEvent.pending, sendRegistered, lock>>
  PROVE  OneSend'
  <1>1. \A u \in Threads : Sender(u)' <=> Sender(u)
    BY DEF Others, Sender, InDisconnect
  <1>2. QED
    BY <1>1 DEF OneSend

\* A step by which thread t leaves the sending code; the flag is reset at most
\* when no completion will come.
LEMMA OneSendLeft ==
  ASSUME OneSend, NEW t \in Threads, Others(t), Sender(t), ~ Sender(t)',
         sendRegistered' \/ ~ sendEvent'.pending, lock' \in {NoThread, lock} \ {t}
  PROVE  OneSend'
  <1>1. \A u \in Threads : Sender(u)' => FALSE
    BY DEF Others, Sender, InDisconnect, OneSend
  <1>2. QED
    BY <1>1 DEF OneSend

\* A step by which thread t enters it, with the flag set and nothing pending.
LEMMA OneSendEntered ==
  ASSUME OneSend, NEW t \in Threads, Others(t), Sender(t)',
         \A u \in Threads : ~ Sender(u), 
         sendRegistered', ~ sendEvent'.pending, lock' \in {NoThread, t}
  PROVE  OneSend'
  <1>1. \A u \in Threads \ {t} : ~ Sender(u)'
    BY DEF Others, Sender, InDisconnect
  <1>2. QED
    BY <1>1 DEF OneSend

\* One send at a time.
LEMMA OneSendStep ==
  ASSUME TypeOK, OneSend, [Next]_vars
  PROVE  OneSend'
  <1> USE DEF Sender, InDisconnect, At
  <1>1. CASE UNCHANGED vars
    BY <1>1 DEF vars, OneSend
  <1>2. ASSUME NEW t \in Threads, NEW b \in Buffers, Send(t, b)
        PROVE  OneSend'
    BY <1>2, SendFields, OneSendKept DEF Send, sendVars
  <1>3. ASSUME NEW t \in Threads, SendPush(t)
        PROVE  OneSend'
    <2>1. UNCHANGED <<sendEvent, lock>> /\ lock = NoThread /\ sendRegistered' /\ ~ Sender(t)
      BY <1>3 DEF SendPush
    <2>2. CASE sendRegistered
      BY <1>3, <2>1, <2>2, SendPushFields, OneSendKept DEF TypeOK
    <2>3. CASE ~ sendRegistered
      BY <1>3, <2>1, <2>3, SendPushFields, OneSendEntered DEF OneSend
    <2>4. QED
      BY <2>2, <2>3
  <1>4. ASSUME NEW t \in Threads, RegisterOwner(t) \/ RegisterGather(t) \/ SendFailed(t)
        PROVE  OneSend'
    <2>1. UNCHANGED <<sendEvent.pending, sendRegistered, lock>>
      BY <1>4 DEF RegisterOwner, RegisterGather, SendFailed, TypeOK
    <2>2. QED
      BY <1>4, <2>1, GotoFields, OneSendKept DEF RegisterOwner, RegisterGather, SendFailed
  <1>5. ASSUME NEW t \in Threads, WSASendFails(t) PROVE OneSend'
    BY <1>5, GotoFields, DisconnectingFields, OneSendKept DEF WSASendFails
  <1>6. ASSUME NEW t \in Threads, RegisterRefused(t) \/ WSASend(t) \/ Unregister(t)
        PROVE  OneSend'
    <2>1. Sender(t) /\ SendReturn(t)
      BY <1>6 DEF RegisterRefused, WSASend, Unregister
    <2>2. ~ Sender(t)' /\ Others(t) /\ lock' = IF lock = t THEN NoThread ELSE lock
      BY <2>1, SendReturnFields
    <2>3. sendRegistered' \/ ~ sendEvent'.pending
      BY <1>6, <2>1 DEF RegisterRefused, WSASend, Unregister, sendVars, OneSend
    <2>4. QED
      BY <2>1, <2>2, <2>3, OneSendLeft
  <1>7. ASSUME NEW t \in Threads, SentNoMore(t) PROVE OneSend'
    <2>1. Sender(t) /\ ~ sendEvent'.pending /\ lock' = NoThread
      BY <1>7 DEF SentNoMore, OneSend
    <2>2. ~ Sender(t)' /\ Others(t)
      BY <1>7, GotoFields DEF SentNoMore
    <2>3. QED
      BY <2>1, <2>2, OneSendLeft
  <1>8. ASSUME NEW t \in Threads, SentMore(t) PROVE OneSend'
    <2>1. Sender(t) /\ lock' = t /\ UNCHANGED <<sendEvent, sendRegistered>>
      BY <1>8 DEF SentMore, sendVars
    <2>2. Sender(t)' /\ Others(t)
      BY <1>8, CallFields DEF SentMore
    <2>3. \A u \in Threads \ {t} : ~ Sender(u)'
      BY <2>1, <2>2 DEF Others, OneSend
    <2>4. QED
      BY <2>1, <2>2, <2>3 DEF OneSend
  <1>9. ASSUME NEW t \in Threads, SendCompletes(t) PROVE OneSend'
    <2>1. /\ sendEvent.pending /\ ~ Sender(t) /\ ~ sendEvent'.pending
          /\ UNCHANGED <<sendRegistered, lock>>
      BY <1>9 DEF SendCompletes
    <2>2. \A u \in Threads : ~ Sender(u)
      BY <2>1 DEF OneSend
    <2>3. sendRegistered' /\ lock' = NoThread
      BY <2>1, <2>2 DEF OneSend, TypeOK
    <2>4. Others(t)
      BY <1>9, GotoFields, DisconnectingFields DEF SendCompletes
    <2>5. CASE Sender(t)'
      BY <2>1, <2>2, <2>3, <2>4, <2>5, OneSendEntered
    <2>6. CASE ~ Sender(t)'
      <3>1. \A u \in Threads : ~ Sender(u)'
        BY <2>2, <2>4, <2>6 DEF Others
      <3>2. QED
        BY <2>1, <2>3, <3>1 DEF OneSend
    <2>7. QED
      BY <2>5, <2>6
  <1>10. ASSUME NEW t \in Threads, DisconnectExchange(t) \/ DisconnectEx(t) PROVE OneSend'
    <2>1. Sender(t)' <=> Sender(t)
      BY <1>10, GotoFields, DisconnectReturnFields DEF DisconnectExchange, DisconnectEx
    <2>2. Others(t) /\ UNCHANGED <<sendEvent, sendRegistered, lock>>
      BY <1>10, GotoFields, DisconnectReturnFields DEF DisconnectExchange, DisconnectEx, sendVars
    <2>3. QED
      BY <2>1, <2>2, OneSendKept
  <1>11. ASSUME NEW t \in Threads,
                \/ UserDisconnect(t) \/ DisconnectCompletes(t) \/ ReleaseSession(t)
                \/ ConnectCompletes(t) \/ AddSession(t) \/ CallbackReturns(t) \/ WSARecv(t)
                \/ WSARecvFails(t) \/ RecvFailed(t) \/ RecvCompletes(t) \/ RecvOverflow(t)
         PROVE  OneSend'
    <2>1. UNCHANGED <<sendEvent, sendRegistered, lock>>
      BY <1>11 DEF UserDisconnect, DisconnectCompletes, ReleaseSession, ConnectCompletes, AddSession,
         CallbackReturns, WSARecv, WSARecvFails, RecvFailed, RecvCompletes, RecvOverflow, sendVars
    <2>2. ~ Sender(t) /\ ~ Sender(t)' /\ Others(t)
      BY <1>11, GotoFields, DisconnectingFields
      DEF UserDisconnect, DisconnectCompletes, ReleaseSession, ConnectCompletes, AddSession,
         CallbackReturns, WSARecv, WSARecvFails, RecvFailed, RecvCompletes, RecvOverflow
    <2>3. QED
      BY <2>1, <2>2, OneSendKept
  <1>12. QED
    BY <1>1, <1>2, <1>3, <1>4, <1>5, <1>6, <1>7, <1>8, <1>9, <1>10, <1>11 DEF Next, ThreadStep

-----------------------------------------------------------------------------
\* The frames keep their type.
LEMMA FrameTypeStep ==
  ASSUME TypeOK, FrameInv, [Next]_vars
  PROVE  frame' \in [Threads -> Frame]
  <1> USE DEF TypeOK
  <1>0. ASSUME NEW t \in Threads, NEW f \in Frame, frame' = [frame EXCEPT ![t] = f]
        PROVE  frame' \in [Threads -> Frame]
    BY <1>0
  <1>1. ASSUME NEW t \in Threads, NEW p \in {"gather", "wsaSend", "sendFailed", "unregister", "idle",
               "sent", "disconnectEx", "release", "add", "onConnected", "onRecv", "wsaRecv",
               "recvFailed"}, Goto(t, p)
        PROVE  frame' \in [Threads -> Frame]
    <2>1. [frame[t] EXCEPT !.pc = p] \in Frame
      BY DEF Frame
    <2>2. QED
      BY <1>0, <1>1, <2>1 DEF Goto
  <1>2. ASSUME NEW t \in Threads, NEW n \in {"idle", "sendFailed", "recvFailed"}, Disconnecting(t, n)
        PROVE  frame' \in [Threads -> Frame]
    <2>1. [frame[t] EXCEPT !.pc = "exchange", !.next = n] \in Frame
      BY DEF Frame
    <2>2. QED
      BY <1>0, <1>2, <2>1 DEF Disconnecting
  <1>3. ASSUME NEW t \in Threads, DisconnectReturn(t) PROVE frame' \in [Threads -> Frame]
    <2>1. [frame[t] EXCEPT !.pc = frame[t].next, !.next = "idle"] \in Frame
      BY DEF Frame
    <2>2. QED
      BY <1>0, <1>3, <2>1 DEF DisconnectReturn
  <1>4. ASSUME NEW t \in Threads, SendReturn(t) PROVE frame' \in [Threads -> Frame]
    BY <1>4 DEF SendReturn, NoFrame, Frame
  <1>5. ASSUME NEW t \in Threads, Call(t, "register", "idle") PROVE frame' \in [Threads -> Frame]
    <2>1. [frame[t] EXCEPT !.pc = "register", !.then = "idle"] \in Frame
      BY DEF Frame
    <2>2. QED
      BY <1>0, <1>5, <2>1 DEF Call
  <1>6. ASSUME NEW t \in Threads, NEW b \in Buffers, Send(t, b) PROVE frame' \in [Threads -> Frame]
    BY <1>6 DEF Send, At, Frame
  <1>7. ASSUME NEW t \in Threads, SendPush(t) PROVE frame' \in [Threads -> Frame]
    <2>1. [NoFrame EXCEPT !.pc = frame[t].then] \in Frame
      BY DEF NoFrame, Frame
    <2>2. [frame[t] EXCEPT !.pc = "register", !.buffer = NoBuffer] \in Frame
      BY DEF Frame
    <2>3. QED
      BY <1>0, <1>7, <2>1, <2>2 DEF SendPush
  <1>8. CASE UNCHANGED vars
    BY <1>8 DEF vars
  <1>9. ASSUME NEW t \in Threads,
               \/ RegisterRefused(t) \/ RegisterOwner(t) \/ RegisterGather(t) \/ WSASend(t)
               \/ WSASendFails(t) \/ SendFailed(t) \/ Unregister(t) \/ SendCompletes(t)
               \/ SentNoMore(t) \/ SentMore(t)
        PROVE  frame' \in [Threads -> Frame]
    BY <1>9, <1>1, <1>2, <1>4, <1>5
    DEF RegisterRefused, RegisterOwner, RegisterGather, WSASend, WSASendFails, SendFailed, Unregister,
        SendCompletes, SentNoMore, SentMore
  <1>10. ASSUME NEW t \in Threads,
                \/ DisconnectExchange(t) \/ DisconnectEx(t) \/ UserDisconnect(t)
                \/ DisconnectCompletes(t) \/ ReleaseSession(t)
         PROVE  frame' \in [Threads -> Frame]
    BY <1>10, <1>1, <1>2, <1>3
    DEF DisconnectExchange, DisconnectEx, UserDisconnect, DisconnectCompletes, ReleaseSession
  <1>11. ASSUME NEW t \in Threads,
                \/ ConnectCompletes(t) \/ AddSession(t) \/ CallbackReturns(t) \/ WSARecv(t)
                \/ WSARecvFails(t) \/ RecvFailed(t) \/ RecvCompletes(t) \/ RecvOverflow(t)
         PROVE  frame' \in [Threads -> Frame]
    BY <1>11, <1>1, <1>2
    DEF ConnectCompletes, AddSession, CallbackReturns, WSARecv, WSARecvFails, RecvFailed,
        RecvCompletes, RecvOverflow
  <1>12. QED
    BY <1>6, <1>7, <1>8, <1>9, <1>10, <1>11 DEF Next, ThreadStep

\* Type correctness of every step.
LEMMA SessionTypeStep ==
  ASSUME TypeOK, FrameInv, [Next]_vars
  PROVE  TypeOK'
  <1>0. frame' \in [Threads -> Frame]
    BY FrameTypeStep
  <1> USE DEF TypeOK, Event
  <1>1. CASE UNCHANGED vars
    BY <1>1 DEF vars
  <1>2. ASSUME NEW t \in Threads, SendPush(t) PROVE TypeOK'
    <2>1. frame[t].buffer \in Buffers
      BY <1>2 DEF SendPush, FrameInv
    <2>2. sendQueue' \in Seq(Buffers) /\ accepted' \in SUBSET Buffers
      BY <1>2, <2>1 DEF SendPush
    <2>3. QED
      BY <1>2, <2>2, <1>0 DEF SendPush
  <1>3. ASSUME NEW t \in Threads, RegisterOwner(t) \/ RegisterGather(t) \/ SendFailed(t) PROVE TypeOK'
    <2>1. sendEvent.buffers \o sendQueue \in Seq(Buffers) /\ <<>> \in Seq(Buffers)
      BY ConcatProperties
    <2>2. sendEvent' \in [owner : BOOLEAN, pending : BOOLEAN, buffers : Seq(Buffers)]
      <3>1. CASE RegisterOwner(t)
        BY <3>1 DEF RegisterOwner
      <3>2. CASE RegisterGather(t)
        BY <2>1, <3>2 DEF RegisterGather
      <3>3. CASE SendFailed(t)
        BY <2>1, <3>3 DEF SendFailed
      <3>4. QED
        BY <1>3, <3>1, <3>2, <3>3
    <2>3. sendQueue' \in {sendQueue, <<>>}
      BY <1>3 DEF RegisterOwner, RegisterGather, SendFailed
    <2>4. QED
      BY <1>0, <1>3, <2>1, <2>2, <2>3 DEF RegisterOwner, RegisterGather, SendFailed
  <1>4. ASSUME NEW t \in Threads, RegisterRefused(t) \/ WSASend(t) \/ Unregister(t) PROVE TypeOK'
    <2>1. lock' \in Threads \union {NoThread}
      BY <1>4 DEF RegisterRefused, WSASend, Unregister, SendReturn
    <2>2. sendEvent' \in [owner : BOOLEAN, pending : BOOLEAN, buffers : Seq(Buffers)]
      BY <1>4 DEF RegisterRefused, WSASend, Unregister, sendVars
    <2>3. wire' \in {wire, wire \o sendEvent.buffers} /\ wire \o sendEvent.buffers \in Seq(Buffers)
      BY <1>4, ConcatProperties DEF RegisterRefused, WSASend, Unregister, sendVars
    <2>4. QED
      BY <1>4, <2>1, <2>2, <2>3, <1>0 DEF RegisterRefused, WSASend, Unregister, sendVars
  <1>5. ASSUME NEW t \in Threads, WSASendFails(t) PROVE TypeOK'
    <2>1. failures' \in Nat
      BY <1>5 DEF WSASendFails
    <2>2. stuck' \in BOOLEAN
      <3>1. stuck' = stuck \/ stuck' = TRUE
        BY <1>5 DEF WSASendFails
      <3>2. QED
        BY <3>1
    <2>3. QED
      BY <1>0, <1>5, <2>1, <2>2 DEF WSASendFails
  <1>6. ASSUME NEW t \in Threads, SendCompletes(t) PROVE TypeOK'
    <2>1. sendEvent' \in [owner : BOOLEAN, pending : BOOLEAN, buffers : Seq(Buffers)]
      BY <1>6, EmptySeq DEF SendCompletes
    <2>2. QED
      BY <1>6, <2>1, <1>0 DEF SendCompletes
  <1>7. ASSUME NEW t \in Threads, SentNoMore(t) \/ SentMore(t) \/ \E b \in Buffers : Send(t, b)
        PROVE  TypeOK'
    BY <1>7, <1>0 DEF SentNoMore, SentMore, Send, sendVars
  <1>8. ASSUME NEW t \in Threads,
               \/ DisconnectExchange(t) \/ DisconnectEx(t) \/ UserDisconnect(t)
               \/ DisconnectCompletes(t) \/ ReleaseSession(t)
        PROVE  TypeOK'
    <2>1. disconnectEvent' \in Event
      <3>1. CASE DisconnectEx(t)
        <4>1. PICK ok \in BOOLEAN : disconnectEvent' = [owner |-> ok, pending |-> ok]
          BY <3>1 DEF DisconnectEx
        <4>2. QED
          BY <4>1
      <3>2. CASE DisconnectExchange(t) \/ UserDisconnect(t) \/ DisconnectCompletes(t) \/ ReleaseSession(t)
        <4>1. disconnectEvent' = disconnectEvent \/ disconnectEvent' = NoEvent
          BY <3>2 DEF DisconnectExchange, UserDisconnect, DisconnectCompletes, ReleaseSession
        <4>2. NoEvent \in Event
          BY DEF NoEvent
        <4>3. QED
          BY <4>1, <4>2
      <3>3. QED
        BY <1>8, <3>1, <3>2
    <2>2. connected' \in BOOLEAN /\ refused' \in BOOLEAN /\ inService' \in BOOLEAN
      BY <1>8 DEF DisconnectExchange, DisconnectEx, UserDisconnect, DisconnectCompletes, ReleaseSession
    <2>3. UNCHANGED <<sendVars, lock, recvEvent, accepting>>
      BY <1>8 DEF DisconnectExchange, DisconnectEx, UserDisconnect, DisconnectCompletes, ReleaseSession
    <2>4. QED
      BY <1>0, <2>1, <2>2, <2>3 DEF sendVars
  <1>9. ASSUME NEW t \in Threads,
               \/ ConnectCompletes(t) \/ AddSession(t) \/ CallbackReturns(t) \/ WSARecv(t)
               \/ WSARecvFails(t) \/ RecvFailed(t) \/ RecvCompletes(t) \/ RecvOverflow(t)
        PROVE  TypeOK'
    <2>1. recvEvent' \in Event
      <3>1. [recvEvent EXCEPT !.owner = connected] \in Event /\ [recvEvent EXCEPT !.pending = TRUE] \in Event
        OBVIOUS
      <3>2. [recvEvent EXCEPT !.owner = FALSE] \in Event /\ NoEvent \in Event
        BY DEF NoEvent
      <3>3. QED
        BY <1>9, <3>1, <3>2
        DEF ConnectCompletes, AddSession, CallbackReturns, WSARecv, WSARecvFails, RecvFailed,
            RecvCompletes, RecvOverflow
    <2>2. connected' \in BOOLEAN /\ accepting' \in BOOLEAN /\ inService' \in BOOLEAN
      BY <1>9 DEF ConnectCompletes, AddSession, CallbackReturns, WSARecv, WSARecvFails, RecvFailed,
         RecvCompletes, RecvOverflow
    <2>3. UNCHANGED <<sendVars, lock, disconnectEvent, refused>>
      BY <1>9 DEF ConnectCompletes, AddSession, CallbackReturns, WSARecv, WSARecvFails, RecvFailed,
         RecvCompletes, RecvOverflow
    <2>4. QED
      BY <1>0, <2>1, <2>2, <2>3 DEF sendVars
  <1>10. QED
    BY <1>1, <1>2, <1>3, <1>4, <1>5, <1>6, <1>7, <1>8, <1>9 DEF Next, ThreadStep

-----------------------------------------------------------------------------
\* A step that leaves receiving alone, or by which thread t leaves it.
LEMMA OneRecvKept ==
  ASSUME OneRecv, NEW t \in Threads, Others(t), Receiver(t)' => Receiver(t),
         recvEvent'.pending \/ accepting' => recvEvent.pending \/ accepting
  PROVE  OneRecv'
  <1>1. \A u \in Threads : Receiver(u)' => Receiver(u)
    BY DEF Others, Receiver, Sender, InDisconnect
  <1>2. QED
    BY <1>1 DEF OneRecv

\* A step by which thread t takes up a completion, the only one there is.
LEMMA OneRecvEntered ==
  ASSUME OneRecv, NEW t \in Threads, Others(t), recvEvent.pending \/ accepting,
         ~ recvEvent'.pending, ~ accepting'
  PROVE  OneRecv'
  <1>1. \A u \in Threads \ {t} : ~ Receiver(u)'
    BY DEF Others, Receiver, Sender, InDisconnect, OneRecv
  <1>2. QED
    BY <1>1 DEF OneRecv

\* One receive at a time.
LEMMA OneRecvStep ==
  ASSUME TypeOK, OneRecv, EarlyInv, [Next]_vars
  PROVE  OneRecv'
  <1> USE DEF Receiver, Sender, InDisconnect, At
  <1>1. CASE UNCHANGED vars
    BY <1>1 DEF vars, OneRecv
  <1>2. ASSUME NEW t \in Threads,
               \/ \E b \in Buffers : Send(t, b)
               \/ SendPush(t) \/ RegisterRefused(t) \/ RegisterOwner(t) \/ RegisterGather(t)
               \/ WSASend(t) \/ WSASendFails(t) \/ SendFailed(t) \/ Unregister(t)
               \/ SendCompletes(t) \/ SentNoMore(t) \/ SentMore(t)
        PROVE  OneRecv'
    <2>1. Receiver(t)' => Receiver(t)
      <3>1. CASE \E b \in Buffers : Send(t, b)
        BY <3>1, SendFields DEF Send
      <3>2. CASE SendPush(t)
        BY <3>2, SendPushFields DEF SendPush
      <3>3. CASE RegisterRefused(t) \/ WSASend(t) \/ Unregister(t)
        BY <3>3, SendReturnFields DEF RegisterRefused, WSASend, Unregister
      <3>4. CASE RegisterOwner(t) \/ RegisterGather(t) \/ SendFailed(t) \/ WSASendFails(t)
        BY <3>4, GotoFields, DisconnectingFields DEF RegisterOwner, RegisterGather, SendFailed, WSASendFails
      <3>5. CASE SendCompletes(t) \/ SentNoMore(t) \/ SentMore(t)
        BY <3>5, GotoFields, CallFields, DisconnectingFields DEF SendCompletes, SentNoMore, SentMore
      <3>6. QED
        BY <1>2, <3>1, <3>2, <3>3, <3>4, <3>5
    <2>2. Others(t) /\ UNCHANGED <<recvEvent, accepting>>
      BY <1>2, GotoFields, CallFields, DisconnectingFields, SendReturnFields, SendFields, SendPushFields
      DEF Send, SendPush, RegisterRefused, RegisterOwner, RegisterGather, WSASend, WSASendFails,
          SendFailed, Unregister, SendCompletes, SentNoMore, SentMore
    <2>3. QED
      BY <2>1, <2>2, OneRecvKept
  <1>3. ASSUME NEW t \in Threads,
               \/ DisconnectExchange(t) \/ DisconnectEx(t) \/ UserDisconnect(t)
               \/ DisconnectCompletes(t) \/ ReleaseSession(t)
        PROVE  OneRecv'
    <2>1. Receiver(t)' => Receiver(t)
      BY <1>3, GotoFields, DisconnectingFields, DisconnectReturnFields
      DEF DisconnectExchange, DisconnectEx, UserDisconnect, DisconnectCompletes, ReleaseSession
    <2>2. Others(t) /\ UNCHANGED <<recvEvent, accepting>>
      BY <1>3, GotoFields, DisconnectingFields, DisconnectReturnFields
      DEF DisconnectExchange, DisconnectEx, UserDisconnect, DisconnectCompletes, ReleaseSession
    <2>3. QED
      BY <2>1, <2>2, OneRecvKept
  <1>4. ASSUME NEW t \in Threads, ConnectCompletes(t) PROVE OneRecv'
    <2>1. accepting /\ ~ accepting' /\ ~ recvEvent'.pending
      BY <1>4 DEF ConnectCompletes, EarlyInv, Early
    <2>2. Others(t)
      BY <1>4, GotoFields DEF ConnectCompletes
    <2>3. QED
      BY <2>1, <2>2, OneRecvEntered
  <1>5. ASSUME NEW t \in Threads, RecvCompletes(t) PROVE OneRecv'
    <2>1. recvEvent.pending /\ ~ recvEvent'.pending
      BY <1>5 DEF RecvCompletes, NoEvent
    <2>2. ~ accepting'
      BY <1>5, <2>1 DEF RecvCompletes, EarlyInv, Early
    <2>3. Others(t)
      BY <1>5, GotoFields, DisconnectingFields DEF RecvCompletes
    <2>4. QED
      BY <2>1, <2>2, <2>3, OneRecvEntered
  <1>6. ASSUME NEW t \in Threads,
               AddSession(t) \/ CallbackReturns(t) \/ WSARecvFails(t) \/ RecvFailed(t) \/ RecvOverflow(t)
        PROVE  OneRecv'
    <2>1. Receiver(t) /\ Others(t)
      BY <1>6, GotoFields, DisconnectingFields
      DEF AddSession, CallbackReturns, WSARecvFails, RecvFailed, RecvOverflow
    <2>2. UNCHANGED <<recvEvent.pending, accepting>>
      BY <1>6 DEF AddSession, CallbackReturns, WSARecvFails, RecvFailed, RecvOverflow, TypeOK, Event
    <2>3. QED
      BY <2>1, <2>2, OneRecvKept
  <1>7. ASSUME NEW t \in Threads, WSARecv(t) PROVE OneRecv'
    <2>1. Receiver(t) /\ ~ Receiver(t)' /\ Others(t)
      BY <1>7, GotoFields DEF WSARecv
    <2>2. \A u \in Threads : ~ Receiver(u)'
      BY <2>1 DEF Others, OneRecv
    <2>3. QED
      BY <2>2 DEF OneRecv
  <1>8. QED
    BY <1>1, <1>2, <1>3, <1>4, <1>5, <1>6, <1>7 DEF Next, ThreadStep

-----------------------------------------------------------------------------
\* What the threads are about to push.
LEMMA SessionFrameStep ==
  ASSUME TypeOK, FrameInv, [Next]_vars
  PROVE  FrameInv'
  <1> USE DEF FrameInv, At
  <1>1. CASE UNCHANGED vars
    BY <1>1 DEF vars
  <1>2. ASSUME NEW t \in Threads, NEW b \in Buffers, Send(t, b) PROVE FrameInv'
    <2>1. b \notin accepted /\ accepted' = accepted /\ \A u \in Threads : frame[u].buffer # b
      BY <1>2 DEF Send, sendVars
    <2>2. frame'[t].buffer = b /\ Others(t)
      BY <1>2, SendFields
    <2>3. QED
      BY <2>1, <2>2 DEF Others
  <1>3. ASSUME NEW t \in Threads, SendPush(t) PROVE FrameInv'
    <2>1. frame[t].pc = "push" /\ accepted' = accepted \union {frame[t].buffer}
      BY <1>3 DEF SendPush
    <2>2. frame'[t].pc # "push" /\ Others(t)
      BY <1>3, SendPushFields
    <2>3. QED
      BY <2>1, <2>2 DEF Others
  <1>4. ASSUME NEW t \in Threads, Others(t), frame'[t].pc # "push", accepted' = accepted
        PROVE  FrameInv'
    BY <1>4 DEF Others
  <1>5. ASSUME NEW t \in Threads,
               \/ RegisterRefused(t) \/ RegisterOwner(t) \/ RegisterGather(t) \/ WSASend(t)
               \/ WSASendFails(t) \/ SendFailed(t) \/ Unregister(t) \/ SendCompletes(t)
               \/ SentNoMore(t) \/ SentMore(t)
        PROVE  FrameInv'
    <2>1. Others(t) /\ frame'[t].pc # "push"
      BY <1>5, GotoFields, CallFields, DisconnectingFields, SendReturnFields
      DEF RegisterRefused, RegisterOwner, RegisterGather, WSASend, WSASendFails, SendFailed,
          Unregister, SendCompletes, SentNoMore, SentMore
    <2>2. accepted' = accepted
      BY <1>5
      DEF RegisterRefused, RegisterOwner, RegisterGather, WSASend, WSASendFails, SendFailed,
          Unregister, SendCompletes, SentNoMore, SentMore, sendVars
    <2>3. QED
      BY <1>4, <2>1, <2>2
  <1>6. ASSUME NEW t \in Threads,
               \/ DisconnectExchange(t) \/ DisconnectEx(t) \/ UserDisconnect(t)
               \/ DisconnectCompletes(t) \/ ReleaseSession(t)
        PROVE  FrameInv'
    <2>1. Others(t) /\ frame'[t].pc # "push"
      BY <1>6, GotoFields, DisconnectingFields, DisconnectReturnFields
      DEF DisconnectExchange, DisconnectEx, UserDisconnect, DisconnectCompletes, ReleaseSession
    <2>2. accepted' = accepted
      BY <1>6
      DEF DisconnectExchange, DisconnectEx, UserDisconnect, DisconnectCompletes, ReleaseSession, sendVars
    <2>3. QED
      BY <1>4, <2>1, <2>2
  <1>7. ASSUME NEW t \in Threads,
               \/ ConnectCompletes(t) \/ AddSession(t) \/ CallbackReturns(t) \/ WSARecv(t)
               \/ WSARecvFails(t) \/ RecvFailed(t) \/ RecvCompletes(t) \/ RecvOverflow(t)
        PROVE  FrameInv'
    <2>1. Others(t) /\ frame'[t].pc # "push"
      BY <1>7, GotoFields, DisconnectingFields
      DEF ConnectCompletes, AddSession, CallbackReturns, WSARecv, WSARecvFails, RecvFailed,
          RecvCompletes, RecvOverflow
    <2>2. accepted' = accepted
      BY <1>7
      DEF ConnectCompletes, AddSession, CallbackReturns, WSARecv, WSARecvFails, RecvFailed,
          RecvCompletes, RecvOverflow, sendVars
    <2>3. QED
      BY <1>4, <2>1, <2>2
  <1>8. QED
    BY <1>1, <1>2, <1>3, <1>5, <1>6, <1>7 DEF Next, ThreadStep

-----------------------------------------------------------------------------
\* The owners of the events.  A thread that resets the owner of an event is the
\* one sender, or the one receiver: nobody else counts on it.
LEMMA SessionOwnerStep ==
  ASSUME TypeOK, OneSend, OneRecv, OwnerInv, [Next]_vars
  PROVE  OwnerInv'
  <1> USE DEF OwnerInv, CompletionsOwned, At
  <1>1. CASE UNCHANGED vars
    BY <1>1 DEF vars
  \* A step that leaves the owners alone.
  <1>2. ASSUME NEW t \in Threads, Others(t),
               frame'[t].pc \in {"gather", "wsaSend"} => sendEvent'.owner,
               frame'[t].pc = "wsaRecv" => recvEvent'.owner,
               UNCHANGED <<sendEvent, recvEvent, disconnectEvent>>
        PROVE  OwnerInv'
    BY <1>2 DEF Others
  <1>3. ASSUME NEW t \in Threads, SendPush(t) \/ \E b \in Buffers : Send(t, b) PROVE OwnerInv'
    <2>1. Others(t) /\ frame'[t].pc \notin {"gather", "wsaSend", "wsaRecv"}
      BY <1>3, SendFields, SendPushFields
    <2>2. UNCHANGED <<sendEvent, recvEvent, disconnectEvent>>
      BY <1>3 DEF SendPush, Send, sendVars
    <2>3. QED
      BY <1>2, <2>1, <2>2
  <1>4. ASSUME NEW t \in Threads, RegisterRefused(t) \/ Unregister(t) PROVE OwnerInv'
    <2>1. Others(t) /\ frame'[t].pc \notin {"gather", "wsaSend", "wsaRecv"}
      BY <1>4, SendReturnFields DEF RegisterRefused, Unregister
    <2>2. UNCHANGED <<sendEvent, recvEvent, disconnectEvent>>
      BY <1>4 DEF RegisterRefused, Unregister, sendVars
    <2>3. QED
      BY <1>2, <2>1, <2>2
  <1>5. ASSUME NEW t \in Threads, RegisterOwner(t) \/ RegisterGather(t) PROVE OwnerInv'
    <2>1. sendEvent'.owner /\ UNCHANGED <<recvEvent, disconnectEvent>>
      BY <1>5 DEF RegisterOwner, RegisterGather, TypeOK
    <2>2. Others(t) /\ frame'[t].pc # "wsaRecv"
      BY <1>5, GotoFields DEF RegisterOwner, RegisterGather
    <2>3. QED
      BY <2>1, <2>2 DEF Others
  <1>6. ASSUME NEW t \in Threads, WSASend(t) PROVE OwnerInv'
    <2>1. sendEvent'.owner /\ UNCHANGED <<recvEvent, disconnectEvent>>
      BY <1>6 DEF WSASend, TypeOK
    <2>2. Others(t) /\ frame'[t].pc # "wsaRecv"
      BY <1>6, SendReturnFields DEF WSASend
    <2>3. QED
      BY <2>1, <2>2 DEF Others
  <1>7. ASSUME NEW t \in Threads, WSASendFails(t) \/ SentNoMore(t) \/ SentMore(t) PROVE OwnerInv'
    <2>1. Others(t) /\ frame'[t].pc \notin {"gather", "wsaSend", "wsaRecv"}
      BY <1>7, GotoFields, DisconnectingFields, CallFields DEF WSASendFails, SentNoMore, SentMore
    <2>2. UNCHANGED <<sendEvent, recvEvent, disconnectEvent>>
      BY <1>7 DEF WSASendFails, SentNoMore, SentMore, sendVars
    <2>3. QED
      BY <1>2, <2>1, <2>2
  <1>8. ASSUME NEW t \in Threads, SendFailed(t) \/ SendCompletes(t) PROVE OwnerInv'
    <2>1. Others(t) /\ frame'[t].pc \notin {"gather", "wsaSend", "wsaRecv"}
      BY <1>8, GotoFields, DisconnectingFields DEF SendFailed, SendCompletes
    <2>2. \A u \in Threads \ {t} : ~ Sender(u)
      BY <1>8 DEF SendFailed, SendCompletes, OneSend, Sender
    <2>3. \A u \in Threads : frame'[u].pc \notin {"gather", "wsaSend"}
      BY <2>1, <2>2 DEF Others, Sender
    <2>4. ~ sendEvent'.pending
      <3>1. CASE SendFailed(t)
        <4>1. ~ sendEvent.pending
          BY <3>1 DEF SendFailed, OneSend, Sender
        <4>2. QED
          BY <3>1, <4>1 DEF SendFailed, TypeOK
      <3>2. CASE SendCompletes(t)
        BY <3>2 DEF SendCompletes
      <3>3. QED
        BY <1>8, <3>1, <3>2
    <2>5. UNCHANGED <<recvEvent, disconnectEvent>>
      BY <1>8 DEF SendFailed, SendCompletes
    <2>6. QED
      BY <2>1, <2>3, <2>4, <2>5 DEF Others
  <1>9. ASSUME NEW t \in Threads,
               \/ DisconnectExchange(t) \/ DisconnectEx(t) \/ UserDisconnect(t)
               \/ DisconnectCompletes(t) \/ ReleaseSession(t)
        PROVE  OwnerInv'
    <2>1. Others(t) /\ frame'[t].pc \notin {"gather", "wsaSend", "wsaRecv"}
      BY <1>9, GotoFields, DisconnectingFields, DisconnectReturnFields
      DEF DisconnectExchange, DisconnectEx, UserDisconnect, DisconnectCompletes, ReleaseSession
    <2>2. UNCHANGED <<sendEvent, recvEvent>>
      BY <1>9
      DEF DisconnectExchange, DisconnectEx, UserDisconnect, DisconnectCompletes, ReleaseSession, sendVars
    <2>3. disconnectEvent'.pending => disconnectEvent'.owner
      <3>1. CASE DisconnectEx(t)
        BY <3>1 DEF DisconnectEx
      <3>2. CASE ~ DisconnectEx(t)
        BY <1>9, <3>2 DEF DisconnectExchange, UserDisconnect, DisconnectCompletes, ReleaseSession, NoEvent
      <3>3. QED
        BY <3>1, <3>2
    <2>4. QED
      BY <2>1, <2>2, <2>3 DEF Others
  <1>10. ASSUME NEW t \in Threads,
                ConnectCompletes(t) \/ AddSession(t) \/ WSARecvFails(t) \/ RecvOverflow(t)
         PROVE  OwnerInv'
    <2>1. Others(t) /\ frame'[t].pc \notin {"gather", "wsaSend", "wsaRecv"}
      BY <1>10, GotoFields, DisconnectingFields
      DEF ConnectCompletes, AddSession, WSARecvFails, RecvOverflow
    <2>2. UNCHANGED <<sendEvent, recvEvent, disconnectEvent>>
      BY <1>10 DEF ConnectCompletes, AddSession, WSARecvFails, RecvOverflow, sendVars
    <2>3. QED
      BY <1>2, <2>1, <2>2
  <1>11. ASSUME NEW t \in Threads, CallbackReturns(t) \/ RecvFailed(t) \/ RecvCompletes(t)
         PROVE  OwnerInv'
    <2>1. Others(t) /\ frame'[t].pc \notin {"gather", "wsaSend"}
      BY <1>11, GotoFields, DisconnectingFields DEF CallbackReturns, RecvFailed, RecvCompletes
    <2>2. \A u \in Threads \ {t} : ~ Receiver(u)
      BY <1>11 DEF CallbackReturns, RecvFailed, RecvCompletes, OneRecv, Receiver
    <2>3. \A u \in Threads \ {t} : frame'[u].pc # "wsaRecv"
      BY <2>1, <2>2 DEF Others, Receiver
    <2>4. ~ recvEvent'.pending
      BY <1>11
      DEF CallbackReturns, RecvFailed, RecvCompletes, OneRecv, Receiver, TypeOK, Event, NoEvent
    <2>5. frame'[t].pc = "wsaRecv" => recvEvent'.owner
      BY <1>11, GotoFields, DisconnectingFields
      DEF CallbackReturns, RecvFailed, RecvCompletes, TypeOK, Event
    <2>6. UNCHANGED <<sendEvent, disconnectEvent>>
      BY <1>11 DEF CallbackReturns, RecvFailed, RecvCompletes, sendVars
    <2>7. QED
      BY <2>1, <2>3, <2>4, <2>5, <2>6 DEF Others
  <1>12. ASSUME NEW t \in Threads, WSARecv(t) PROVE OwnerInv'
    <2>1. Others(t) /\ frame'[t].pc \notin {"gather", "wsaSend", "wsaRecv"}
      BY <1>12, GotoFields DEF WSARecv
    <2>2. recvEvent'.owner /\ UNCHANGED <<sendEvent, disconnectEvent>>
      BY <1>12 DEF WSARecv, TypeOK, Event, sendVars
    <2>3. QED
      BY <2>1, <2>2 DEF Others
  <1>13. QED
    BY <1>1, <1>3, <1>4, <1>5, <1>6, <1>7, <1>8, <1>9, <1>10, <1>11, <1>12 DEF Next, ThreadStep

-----------------------------------------------------------------------------
\* Until the session is in the service nothing but ProcessConnect happens.
LEMMA SessionEarlyStep ==
  ASSUME TypeOK, EarlyInv, [Next]_vars
  PROVE  EarlyInv'
  <1> USE DEF EarlyInv, Early, At
  <1>1. CASE UNCHANGED vars
    BY <1>1 DEF vars
  <1>2. ASSUME NEW t \in Threads, ~ Early, Others(t), frame'[t].pc # "add", accepting' = accepting
        PROVE  EarlyInv'
    BY <1>2 DEF Others
  <1>3. ASSUME NEW t \in Threads,
               \/ \E b \in Buffers : Send(t, b)
               \/ SendPush(t) \/ RegisterRefused(t) \/ RegisterOwner(t) \/ RegisterGather(t)
               \/ WSASend(t) \/ WSASendFails(t) \/ SendFailed(t) \/ Unregister(t)
               \/ SendCompletes(t) \/ SentNoMore(t) \/ SentMore(t)
        PROVE  EarlyInv'
    <2>1. ~ Early
      BY <1>3
      DEF Send, SendPush, RegisterRefused, RegisterOwner, RegisterGather, WSASend, WSASendFails,
          SendFailed, Unregister, SendCompletes, SentNoMore, SentMore
    <2>2. Others(t) /\ frame'[t].pc # "add"
      BY <1>3, GotoFields, CallFields, DisconnectingFields, SendReturnFields, SendFields, SendPushFields
      DEF RegisterRefused, RegisterOwner, RegisterGather, WSASend, WSASendFails, SendFailed,
          Unregister, SendCompletes, SentNoMore, SentMore
    <2>3. accepting' = accepting
      BY <1>3
      DEF Send, SendPush, RegisterRefused, RegisterOwner, RegisterGather, WSASend, WSASendFails,
          SendFailed, Unregister, SendCompletes, SentNoMore, SentMore
    <2>4. QED
      BY <1>2, <2>1, <2>2, <2>3
  <1>4. ASSUME NEW t \in Threads,
               \/ DisconnectExchange(t) \/ DisconnectEx(t) \/ UserDisconnect(t)
               \/ DisconnectCompletes(t) \/ ReleaseSession(t)
        PROVE  EarlyInv'
    <2>1. ~ Early
      BY <1>4
      DEF DisconnectExchange, DisconnectEx, UserDisconnect, DisconnectCompletes, ReleaseSession
    <2>2. Others(t) /\ frame'[t].pc # "add"
      BY <1>4, GotoFields, DisconnectingFields, DisconnectReturnFields
      DEF DisconnectExchange, DisconnectEx, UserDisconnect, DisconnectCompletes, ReleaseSession
    <2>3. accepting' = accepting
      BY <1>4
      DEF DisconnectExchange, DisconnectEx, UserDisconnect, DisconnectCompletes, ReleaseSession
    <2>4. QED
      BY <1>2, <2>1, <2>2, <2>3
  <1>5. ASSUME NEW t \in Threads,
               \/ CallbackReturns(t) \/ WSARecv(t) \/ WSARecvFails(t) \/ RecvFailed(t)
               \/ RecvCompletes(t) \/ RecvOverflow(t)
        PROVE  EarlyInv'
    <2>1. ~ Early
      BY <1>5
      DEF CallbackReturns, WSARecv, WSARecvFails, RecvFailed, RecvCompletes, RecvOverflow
    <2>2. Others(t) /\ frame'[t].pc # "add"
      BY <1>5, GotoFields, DisconnectingFields
      DEF CallbackReturns, WSARecv, WSARecvFails, RecvFailed, RecvCompletes, RecvOverflow
    <2>3. accepting' = accepting
      BY <1>5
      DEF CallbackReturns, WSARecv, WSARecvFails, RecvFailed, RecvCompletes, RecvOverflow
    <2>4. QED
      BY <1>2, <2>1, <2>2, <2>3
  <1>6. ASSUME NEW t \in Threads, ConnectCompletes(t) PROVE EarlyInv'
    <2>1. /\ accepting /\ ~ accepting' /\ connected'
          /\ UNCHANGED <<sendEvent, recvEvent, disconnectEvent, inService, sendRegistered, sendQueue>>
      BY <1>6 DEF ConnectCompletes, sendVars
    <2>2. Others(t) /\ frame'[t].pc = "add"
      BY <1>6, GotoFields DEF ConnectCompletes
    <2>3. QED
      BY <2>1, <2>2 DEF Others
  <1>7. ASSUME NEW t \in Threads, AddSession(t) PROVE EarlyInv'
    <2>1. ~ accepting' /\ At(t, "add")
      BY <1>7 DEF AddSession
    <2>2. Others(t) /\ frame'[t].pc = "onConnected"
      BY <1>7, GotoFields DEF AddSession
    <2>3. QED
      BY <2>1, <2>2 DEF Others
  <1>8. QED
    BY <1>1, <1>3, <1>4, <1>5, <1>6, <1>7 DEF Next, ThreadStep

\* The session leaves once: the exchange of _connected lets one thread through.
LEMMA SessionLeaveStep ==
  ASSUME TypeOK, EarlyInv, LeaveInv, [Next]_vars
  PROVE  LeaveInv'
  <1> USE DEF LeaveInv, Leaving, Early, At
  <1>1. CASE UNCHANGED vars
    BY <1>1 DEF vars
  <1>2. ASSUME NEW t \in Threads, Others(t), frame[t].pc # "add",
               frame'[t].pc \notin {"disconnectEx", "release"},
               UNCHANGED <<connected, inService, accepting, disconnectEvent>>
        PROVE  LeaveInv'
    BY <1>2 DEF Others
  <1>3. ASSUME NEW t \in Threads,
               \/ \E b \in Buffers : Send(t, b)
               \/ SendPush(t) \/ RegisterRefused(t) \/ RegisterOwner(t) \/ RegisterGather(t)
               \/ WSASend(t) \/ WSASendFails(t) \/ SendFailed(t) \/ Unregister(t)
               \/ SendCompletes(t) \/ SentNoMore(t) \/ SentMore(t)
        PROVE  LeaveInv'
    <2>1. /\ frame[t].pc # "add"
          /\ UNCHANGED <<connected, inService, accepting, disconnectEvent>>
      <3>0. CASE SendPush(t)
        BY <3>0 DEF SendPush
      <3>1. ASSUME NEW b \in Buffers, Send(t, b)
            PROVE  /\ frame[t].pc # "add"
                   /\ UNCHANGED <<connected, inService, accepting, disconnectEvent>>
        BY <3>1 DEF Send
      <3>2. CASE RegisterRefused(t) \/ RegisterOwner(t) \/ RegisterGather(t) \/ WSASend(t)
        BY <3>2 DEF RegisterRefused, RegisterOwner, RegisterGather, WSASend
      <3>3. CASE WSASendFails(t) \/ SendFailed(t) \/ Unregister(t)
        BY <3>3 DEF WSASendFails, SendFailed, Unregister
      <3>4. CASE SendCompletes(t) \/ SentNoMore(t) \/ SentMore(t)
        BY <3>4 DEF SendCompletes, SentNoMore, SentMore
      <3>5. QED
        BY <1>3, <3>0, <3>1, <3>2, <3>3, <3>4
    <2>2. Others(t) /\ frame'[t].pc \notin {"disconnectEx", "release"}
      <3>1. CASE SendPush(t) \/ \E b \in Buffers : Send(t, b)
        BY <3>1, SendFields, SendPushFields
      <3>2. CASE RegisterRefused(t) \/ WSASend(t) \/ Unregister(t)
        BY <3>2, SendReturnFields DEF RegisterRefused, WSASend, Unregister
      <3>3. CASE RegisterOwner(t) \/ RegisterGather(t) \/ WSASendFails(t) \/ SendFailed(t)
        BY <3>3, GotoFields, DisconnectingFields
        DEF RegisterOwner, RegisterGather, WSASendFails, SendFailed
      <3>4. CASE SendCompletes(t) \/ SentNoMore(t) \/ SentMore(t)
        BY <3>4, GotoFields, CallFields, DisconnectingFields DEF SendCompletes, SentNoMore, SentMore
      <3>5. QED
        BY <1>3, <3>1, <3>2, <3>3, <3>4
    <2>3. QED
      BY <1>2, <2>1, <2>2
  <1>4. ASSUME NEW t \in Threads, UserDisconnect(t) \/ (DisconnectExchange(t) /\ ~ connected)
        PROVE  LeaveInv'
    <2>1. /\ frame[t].pc # "add"
          /\ UNCHANGED <<connected, inService, accepting, disconnectEvent>>
      BY <1>4 DEF UserDisconnect, DisconnectExchange, TypeOK
    <2>2. Others(t) /\ frame'[t].pc \notin {"disconnectEx", "release"}
      BY <1>4, DisconnectingFields, DisconnectReturnFields DEF UserDisconnect, DisconnectExchange
    <2>3. QED
      BY <1>2, <2>1, <2>2
  <1>5. ASSUME NEW t \in Threads, DisconnectExchange(t), connected PROVE LeaveInv'
    <2>1. inService /\ ~ disconnectEvent.pending /\ \A u \in Threads : ~ Leaving(u)
      BY <1>5 DEF DisconnectExchange, EarlyInv
    <2>2. ~ connected' /\ UNCHANGED <<inService, disconnectEvent>>
      BY <1>5 DEF DisconnectExchange
    <2>3. Others(t)
      BY <1>5, GotoFields DEF DisconnectExchange
    <2>4. QED
      BY <2>1, <2>2, <2>3 DEF Others
  <1>6. ASSUME NEW t \in Threads, DisconnectEx(t) PROVE LeaveInv'
    <2>1. Leaving(t) /\ UNCHANGED <<connected, inService>>
      BY <1>6 DEF DisconnectEx
    <2>2. Others(t) /\ frame'[t].pc \notin {"disconnectEx", "release"}
      BY <1>6, DisconnectReturnFields DEF DisconnectEx
    <2>3. \A u \in Threads : ~ Leaving(u)'
      BY <2>1, <2>2 DEF Others
    <2>4. QED
      BY <2>1, <2>3
  <1>7. ASSUME NEW t \in Threads, DisconnectCompletes(t) PROVE LeaveInv'
    <2>1. /\ disconnectEvent.pending /\ ~ disconnectEvent'.pending
          /\ UNCHANGED <<connected, inService>>
      BY <1>7 DEF DisconnectCompletes, NoEvent
    <2>2. Others(t)
      BY <1>7, GotoFields DEF DisconnectCompletes
    <2>3. QED
      BY <2>1, <2>2 DEF Others
  <1>8. ASSUME NEW t \in Threads, ReleaseSession(t) PROVE LeaveInv'
    <2>1. Leaving(t) /\ ~ connected' /\ UNCHANGED disconnectEvent
      BY <1>8 DEF ReleaseSession
    <2>2. Others(t) /\ frame'[t].pc = "idle"
      BY <1>8, GotoFields DEF ReleaseSession
    <2>3. ~ disconnectEvent'.pending /\ \A u \in Threads : ~ Leaving(u)'
      BY <2>1, <2>2 DEF Others
    <2>4. QED
      BY <2>1, <2>3
  <1>9. ASSUME NEW t \in Threads, ConnectCompletes(t) \/ AddSession(t) PROVE LeaveInv'
    <2>1. Early /\ disconnectEvent' = disconnectEvent
      BY <1>9 DEF ConnectCompletes, AddSession
    <2>2. Others(t) /\ frame'[t].pc \in {"add", "onConnected"}
      BY <1>9, GotoFields DEF ConnectCompletes, AddSession
    <2>3. ~ disconnectEvent'.pending /\ \A u \in Threads : ~ Leaving(u)'
      BY <2>1, <2>2 DEF EarlyInv, Others
    <2>4. inService' \/ frame'[t].pc = "add"
      BY <1>9, GotoFields DEF ConnectCompletes, AddSession
    <2>5. QED
      BY <2>3, <2>4
  <1>10. ASSUME NEW t \in Threads,
                \/ CallbackReturns(t) \/ WSARecv(t) \/ WSARecvFails(t) \/ RecvFailed(t)
                \/ RecvCompletes(t) \/ RecvOverflow(t)
         PROVE  LeaveInv'
    <2>1. /\ frame[t].pc # "add"
          /\ UNCHANGED <<connected, inService, accepting, disconnectEvent>>
      BY <1>10
      DEF CallbackReturns, WSARecv, WSARecvFails, RecvFailed, RecvCompletes, RecvOverflow
    <2>2. Others(t) /\ frame'[t].pc \notin {"disconnectEx", "release"}
      BY <1>10, GotoFields, DisconnectingFields
      DEF CallbackReturns, WSARecv, WSARecvFails, RecvFailed, RecvCompletes, RecvOverflow
    <2>3. QED
      BY <1>2, <2>1, <2>2
  <1>11. QED
    BY <1>1, <1>3, <1>4, <1>5, <1>6, <1>7, <1>8, <1>9, <1>10 DEF Next, ThreadStep

-----------------------------------------------------------------------------
\* As long as the session is connected, and no failed WSASend was passed over,
\* the queue is somebody's.
LEMMA SessionFlowStep ==
  ASSUME TypeOK, OneSend, EarlyInv, LeaveInv, FlowInv, [Next]_vars
  PROVE  FlowInv'
  <1> USE DEF FlowInv, Promises, At
  <1>1. CASE UNCHANGED vars
    BY <1>1 DEF vars, Sender, InDisconnect
  <1>2. CASE ~ connected' \/ stuck'
    BY <1>2
  \* A step after which thread t promises what it promised before, or more.
  <1>3. ASSUME NEW t \in Threads, Others(t), connected, ~ stuck,
               Promises(t) => Promises(t)' \/ sendEvent'.pending,
               frame'[t].pc \notin {"sendFailed", "unregister"},
               sendEvent.pending => sendEvent'.pending \/ Promises(t)',
               sendRegistered' => sendRegistered \/ Promises(t)',
               sendQueue' # <<>> => sendRegistered'
        PROVE  FlowInv'
    <2>1. \A u \in Threads \ {t} : Promises(u)' <=> Promises(u)
      BY <1>3 DEF Others, Sender, InDisconnect
    <2>2. \A u \in Threads : frame'[u].pc \notin {"sendFailed", "unregister"}
      BY <1>3 DEF Others
    <2>3. sendRegistered' => sendEvent'.pending \/ \E u \in Threads : Promises(u)'
      BY <1>3, <2>1
    <2>4. QED
      BY <1>3, <2>2, <2>3
  <1>4. ASSUME NEW t \in Threads, NEW b \in Buffers, Send(t, b), connected', ~ stuck' PROVE FlowInv'
    <2>1. /\ sendRegistered' = sendRegistered /\ sendQueue' = sendQueue /\ sendEvent' = sendEvent
          /\ connected /\ ~ stuck
      BY <1>4, SendVarsKept DEF Send
    <2>2. Others(t) /\ frame'[t].pc = "push" /\ ~ Promises(t)
      BY <1>4, SendFields DEF Send, Sender, InDisconnect
    <2>3. QED
      BY <1>3, <2>1, <2>2
  <1>5. ASSUME NEW t \in Threads, SendPush(t), connected', ~ stuck' PROVE FlowInv'
    <2>1. connected /\ ~ stuck /\ sendEvent' = sendEvent /\ sendRegistered'
      BY <1>5 DEF SendPush
    <2>2. Others(t) /\ frame'[t].pc \notin {"sendFailed", "unregister"} /\ ~ Promises(t)
      BY <1>5, SendPushFields DEF SendPush, Sender, InDisconnect
    <2>3. sendRegistered \/ Promises(t)'
      BY <1>5, SendPushFields DEF Sender
    <2>4. QED
      BY <1>3, <2>1, <2>2, <2>3
  <1>6. ASSUME NEW t \in Threads, RegisterOwner(t) \/ RegisterGather(t) \/ SentMore(t), connected', ~ stuck'
        PROVE  FlowInv'
    <2>1. connected /\ ~ stuck /\ sendRegistered' = sendRegistered /\ sendQueue' \in {sendQueue, <<>>}
      <3>1. CASE SentMore(t)
        BY <1>6, <3>1, SendVarsKept DEF SentMore
      <3>2. CASE RegisterOwner(t)
        BY <1>6, <3>2 DEF RegisterOwner
      <3>3. CASE RegisterGather(t)
        BY <1>6, <3>3 DEF RegisterGather
      <3>4. QED
        BY <1>6, <3>1, <3>2, <3>3
    <2>2. Others(t) /\ frame'[t].pc \in {"gather", "wsaSend", "register"}
      BY <1>6, GotoFields, CallFields DEF RegisterOwner, RegisterGather, SentMore
    <2>3. Promises(t)'
      BY <2>2 DEF Sender
    <2>4. QED
      BY <1>3, <2>1, <2>2, <2>3
  <1>7. ASSUME NEW t \in Threads, RegisterRefused(t) \/ SendFailed(t) \/ Unregister(t)
        PROVE  ~ connected' \/ stuck'
    BY <1>7 DEF RegisterRefused, SendFailed, Unregister, sendVars
  <1>8. ASSUME NEW t \in Threads, WSASend(t), connected', ~ stuck' PROVE FlowInv'
    <2>1. connected /\ ~ stuck /\ sendEvent'.pending /\ UNCHANGED <<sendRegistered, sendQueue>>
      BY <1>8 DEF WSASend, TypeOK
    <2>2. Others(t) /\ frame'[t].pc \notin {"sendFailed", "unregister"}
      BY <1>8, SendReturnFields DEF WSASend
    <2>3. QED
      BY <1>3, <2>1, <2>2
  <1>9. ASSUME NEW t \in Threads, WSASendFails(t) \/ SendCompletes(t), connected', ~ stuck'
        PROVE  FlowInv'
    <2>1. connected /\ UNCHANGED <<sendRegistered, sendQueue>>
      BY <1>9 DEF WSASendFails, SendCompletes
    <2>2. ~ stuck
      BY <1>9 DEF WSASendFails, SendCompletes
    <2>3. Others(t) /\ frame'[t].pc \in {"exchange", "sent"}
      BY <1>9, GotoFields, DisconnectingFields DEF WSASendFails, SendCompletes
    <2>4. Promises(t)'
      BY <2>3 DEF Sender
    <2>5. QED
      BY <1>3, <2>1, <2>2, <2>3, <2>4
  <1>10. ASSUME NEW t \in Threads, SentNoMore(t), connected', ~ stuck' PROVE FlowInv'
    <2>1. connected /\ ~ stuck /\ ~ sendRegistered' /\ sendQueue' = <<>>
      BY <1>10 DEF SentNoMore
    <2>2. Others(t) /\ frame'[t].pc = "idle"
      BY <1>10, GotoFields DEF SentNoMore
    <2>3. QED
      BY <2>1, <2>2 DEF Others
  <1>11. ASSUME NEW t \in Threads,
                DisconnectExchange(t) \/ DisconnectEx(t) \/ DisconnectCompletes(t) \/ ReleaseSession(t)
         PROVE  ~ connected'
    BY <1>11
    DEF DisconnectExchange, DisconnectEx, DisconnectCompletes, ReleaseSession, LeaveInv, Leaving
  <1>12. ASSUME NEW t \in Threads, ConnectCompletes(t) PROVE FlowInv'
    <2>1. ~ sendRegistered' /\ sendQueue' = <<>> /\ \A u \in Threads : At(u, "idle")
      BY <1>12 DEF ConnectCompletes, EarlyInv, Early, sendVars
    <2>2. Others(t) /\ frame'[t].pc = "add"
      BY <1>12, GotoFields DEF ConnectCompletes
    <2>3. QED
      BY <2>1, <2>2 DEF Others
  <1>13. ASSUME NEW t \in Threads,
                \/ UserDisconnect(t) \/ AddSession(t) \/ CallbackReturns(t) \/ WSARecv(t)
                \/ WSARecvFails(t) \/ RecvFailed(t) \/ RecvCompletes(t) \/ RecvOverflow(t),
                connected', ~ stuck'
         PROVE  FlowInv'
    <2>1. UNCHANGED <<connected, sendVars>>
      BY <1>13
      DEF UserDisconnect, AddSession, CallbackReturns, WSARecv, WSARecvFails, RecvFailed,
          RecvCompletes, RecvOverflow
    <2>2. ~ Promises(t)
      BY <1>13
      DEF UserDisconnect, AddSession, CallbackReturns, WSARecv, WSARecvFails, RecvFailed,
          RecvCompletes, RecvOverflow, Sender, InDisconnect
    <2>3. Others(t) /\ frame'[t].pc \notin {"sendFailed", "unregister"}
      <3>1. CASE CallbackReturns(t)
        BY <3>1, GotoFields DEF CallbackReturns
      <3>2. CASE UserDisconnect(t) \/ AddSession(t) \/ WSARecv(t) \/ RecvFailed(t)
        BY <3>2, GotoFields, DisconnectingFields DEF UserDisconnect, AddSession, WSARecv, RecvFailed
      <3>3. CASE WSARecvFails(t) \/ RecvCompletes(t) \/ RecvOverflow(t)
        BY <3>3, GotoFields, DisconnectingFields DEF WSARecvFails, RecvCompletes, RecvOverflow
      <3>4. QED
        BY <1>13, <3>1, <3>2, <3>3
    <2>4. QED
      BY <1>3, <1>13, <2>1, <2>2, <2>3 DEF sendVars
  <1>14. QED
    BY <1>1, <1>2, <1>4, <1>5, <1>6, <1>7, <1>8, <1>9, <1>10, <1>11, <1>12, <1>13
    DEF Next, ThreadStep

-----------------------------------------------------------------------------
\* What is registered is not empty, and what is not under way is.
LEMMA SessionStreamStep ==
  ASSUME TypeOK, OneSend, StreamInv, [Next]_vars
  PROVE  StreamInv'
  <1> USE DEF StreamInv, At
  <1>1. CASE UNCHANGED vars
    BY <1>1 DEF vars, Failing, InDisconnect
  \* A step that leaves the queue and the buffers of the event alone.
  <1>2. ASSUME NEW t \in Threads, Others(t), sendQueue' = sendQueue, sendEvent' = sendEvent,
               frame'[t].pc \notin {"register", "gather", "wsaSend"},
               At(t, "wsaSend") \/ Failing(t) => Failing(t)'
        PROVE  StreamInv'
    <2>1. \A u \in Threads \ {t} : Failing(u)' <=> Failing(u)
      BY <1>2 DEF Others, Failing, InDisconnect
    <2>2. QED
      BY <1>2, <2>1 DEF Others
  <1>3. ASSUME NEW t \in Threads, NEW b \in Buffers, Send(t, b) PROVE StreamInv'
    <2>1. sendQueue' = sendQueue /\ sendEvent' = sendEvent
      BY <1>3, SendVarsKept DEF Send
    <2>2. Others(t) /\ frame'[t].pc = "push" /\ ~ At(t, "wsaSend") /\ ~ Failing(t)
      BY <1>3, SendFields DEF Send, Failing, InDisconnect
    <2>3. QED
      BY <1>2, <2>1, <2>2
  <1>4. ASSUME NEW t \in Threads, SendPush(t) PROVE StreamInv'
    <2>1. sendQueue' # <<>> /\ sendEvent' = sendEvent /\ At(t, "push")
      BY <1>4 DEF SendPush, TypeOK
    <2>2. Others(t) /\ frame'[t].pc # "wsaSend"
      BY <1>4, SendPushFields
    <2>3. \A u \in Threads : Failing(u) => Failing(u)'
      BY <2>1, <2>2 DEF Others, Failing, InDisconnect
    <2>4. QED
      BY <2>1, <2>2, <2>3 DEF Others
  <1>5. ASSUME NEW t \in Threads, RegisterRefused(t) \/ Unregister(t) PROVE StreamInv'
    <2>1. sendQueue' = sendQueue /\ sendEvent' = sendEvent
      BY <1>5, SendVarsKept DEF RegisterRefused, Unregister
    <2>2. /\ Others(t) /\ frame'[t].pc \notin {"register", "gather", "wsaSend"}
          /\ frame[t].pc \in {"register", "unregister"}
      BY <1>5, SendReturnFields DEF RegisterRefused, Unregister
    <2>3. QED
      BY <1>2, <2>1, <2>2 DEF Failing, InDisconnect
  <1>6. ASSUME NEW t \in Threads, RegisterOwner(t) PROVE StreamInv'
    <2>1. /\ sendQueue' = sendQueue /\ sendEvent'.buffers = sendEvent.buffers
          /\ sendEvent'.pending = sendEvent.pending /\ At(t, "register")
      BY <1>6 DEF RegisterOwner, TypeOK
    <2>2. Others(t) /\ frame'[t].pc = "gather"
      BY <1>6, GotoFields DEF RegisterOwner
    <2>3. \A u \in Threads : Failing(u) => Failing(u)'
      BY <2>1, <2>2 DEF Others, Failing, InDisconnect
    <2>4. QED
      BY <2>1, <2>2, <2>3 DEF Others
  <1>7. ASSUME NEW t \in Threads, RegisterGather(t) PROVE StreamInv'
    <2>1. Sender(t) /\ sendQueue # <<>>
      BY <1>7 DEF RegisterGather, Sender
    <2>2. sendEvent'.buffers # <<>>
      <3>1. sendEvent'.buffers = sendEvent.buffers \o sendQueue
        BY <1>7 DEF RegisterGather, TypeOK
      <3>2. QED
        BY <2>1, <3>1, ConcatEqualIffEmpty DEF TypeOK
    <2>3. Others(t) /\ frame'[t].pc = "wsaSend"
      BY <1>7, GotoFields DEF RegisterGather
    <2>4. \A u \in Threads \ {t} : frame'[u].pc \notin {"register", "gather"}
      BY <2>1, <2>3 DEF Others, OneSend, Sender
    <2>5. QED
      BY <2>2, <2>3, <2>4
  <1>8. ASSUME NEW t \in Threads, WSASend(t) PROVE StreamInv'
    <2>1. /\ sendQueue' = sendQueue /\ sendEvent'.pending /\ sendEvent'.buffers = sendEvent.buffers
      BY <1>8 DEF WSASend, TypeOK
    <2>2. Others(t) /\ frame'[t].pc \notin {"register", "gather", "wsaSend"}
      BY <1>8, SendReturnFields DEF WSASend
    <2>3. QED
      BY <2>1, <2>2 DEF Others
  <1>9. ASSUME NEW t \in Threads, WSASendFails(t) PROVE StreamInv'
    <2>1. sendQueue' = sendQueue /\ sendEvent' = sendEvent
      BY <1>9 DEF WSASendFails
    <2>2. /\ Others(t) /\ frame'[t].pc \in {"exchange", "sendFailed"}
          /\ frame'[t].pc = "exchange" => frame'[t].next = "sendFailed"
      BY <1>9, GotoFields, DisconnectingFields DEF WSASendFails
    <2>3. QED
      BY <1>2, <2>1, <2>2 DEF Failing, InDisconnect
  <1>10. ASSUME NEW t \in Threads, SendFailed(t) PROVE StreamInv'
    <2>1. sendQueue' = sendQueue /\ sendEvent'.buffers = <<>> /\ Sender(t)
      BY <1>10 DEF SendFailed, TypeOK, Sender
    <2>2. Others(t) /\ frame'[t].pc = "unregister"
      BY <1>10, GotoFields DEF SendFailed
    <2>3. \A u \in Threads \ {t} : frame[u].pc # "wsaSend"
      BY <2>1 DEF OneSend, Sender
    <2>4. QED
      BY <2>1, <2>2, <2>3 DEF Others
  <1>11. ASSUME NEW t \in Threads, SendCompletes(t) PROVE StreamInv'
    <2>1. sendQueue' = sendQueue /\ sendEvent'.buffers = <<>> /\ sendEvent.pending
      BY <1>11 DEF SendCompletes
    <2>2. Others(t) /\ frame'[t].pc \in {"exchange", "sent"}
      BY <1>11, GotoFields, DisconnectingFields DEF SendCompletes
    <2>3. \A u \in Threads : frame[u].pc # "wsaSend"
      BY <2>1 DEF OneSend, Sender
    <2>4. QED
      BY <2>1, <2>2, <2>3 DEF Others
  <1>12. ASSUME NEW t \in Threads, SentNoMore(t) \/ SentMore(t) PROVE StreamInv'
    <2>1. sendQueue' = sendQueue /\ sendEvent' = sendEvent /\ At(t, "sent")
      BY <1>12, SendVarsKept DEF SentNoMore, SentMore
    <2>2. /\ Others(t) /\ frame'[t].pc \in {"idle", "register"}
          /\ frame'[t].pc = "register" => sendQueue # <<>>
      BY <1>12, GotoFields, CallFields DEF SentNoMore, SentMore
    <2>3. \A u \in Threads : Failing(u) => Failing(u)'
      BY <2>1, <2>2 DEF Others, Failing, InDisconnect
    <2>4. QED
      BY <2>1, <2>2, <2>3 DEF Others
  <1>13. ASSUME NEW t \in Threads, QuietStep(t) PROVE StreamInv'
    BY <1>2, <1>13, QuietStepKeeps
  <1>14. QED
    BY <1>1, <1>3, <1>4, <1>5, <1>6, <1>7, <1>8, <1>9, <1>10, <1>11, <1>12, <1>13
    DEF Next, ThreadStep, QuietStep

\* What holds of the elements of two sequences holds of their concatenation.
LEMMA ConcatWithin ==
  ASSUME NEW S, NEW A, NEW u \in Seq(S), NEW v \in Seq(S),
         \A i \in 1..Len(u) : u[i] \in A, \A i \in 1..Len(v) : v[i] \in A
  PROVE  \A i \in 1..Len(u \o v) : (u \o v)[i] \in A
  <1>1. Len(u) \in Nat /\ Len(v) \in Nat
    BY LenProperties
  <1>2. QED
    BY <1>1, ConcatProperties

\* Every buffer under way was accepted.
LEMMA SessionAcceptedStep ==
  ASSUME TypeOK, AcceptedInv, [Next]_vars
  PROVE  AcceptedInv'
  <1>0. sendEvent \in [owner : BOOLEAN, pending : BOOLEAN, buffers : Seq(Buffers)]
    BY DEF TypeOK
  <1> USE DEF AcceptedInv
  <1>1. CASE UNCHANGED vars
    BY <1>1 DEF vars
  <1>2. ASSUME sendQueue' = sendQueue, sendEvent'.buffers \in {sendEvent.buffers, <<>>},
               wire' = wire, accepted' = accepted
        PROVE  AcceptedInv'
    BY <1>2
  <1>3. ASSUME NEW t \in Threads, SendPush(t) PROVE AcceptedInv'
    <2>1. /\ sendQueue' = Append(sendQueue, frame[t].buffer)
          /\ accepted' = accepted \union {frame[t].buffer}
          /\ sendEvent' = sendEvent /\ wire' = wire
      BY <1>3 DEF SendPush
    <2>2. /\ Len(sendQueue') = Len(sendQueue) + 1 /\ Len(sendQueue) \in Nat
          /\ \A i \in 1..Len(sendQueue) : sendQueue'[i] = sendQueue[i]
          /\ sendQueue'[Len(sendQueue) + 1] = frame[t].buffer
      BY <2>1 DEF TypeOK
    <2>3. QED
      BY <2>1, <2>2
  <1>4. ASSUME NEW t \in Threads, RegisterGather(t) PROVE AcceptedInv'
    <2>1. /\ sendEvent'.buffers = sendEvent.buffers \o sendQueue /\ sendQueue' = <<>>
          /\ accepted' = accepted /\ wire' = wire
      BY <1>4 DEF RegisterGather, TypeOK
    <2>2. /\ sendEvent.buffers \in Seq(Buffers) /\ sendQueue \in Seq(Buffers)
          /\ Len(sendEvent.buffers) \in Nat /\ Len(sendQueue) \in Nat
      BY DEF TypeOK
    <2>3. \A i \in 1..Len(sendEvent.buffers \o sendQueue) :
            (sendEvent.buffers \o sendQueue)[i] \in accepted
      BY <2>2, ConcatWithin
    <2>4. QED
      BY <2>1, <2>3
  <1>5. ASSUME NEW t \in Threads, WSASend(t) PROVE AcceptedInv'
    <2>1. /\ sendEvent'.buffers = sendEvent.buffers /\ wire' = wire \o sendEvent.buffers
          /\ accepted' = accepted /\ sendQueue' = sendQueue
      BY <1>5 DEF WSASend, TypeOK
    <2>2. /\ sendEvent.buffers \in Seq(Buffers) /\ wire \in Seq(Buffers)
          /\ Len(sendEvent.buffers) \in Nat /\ Len(wire) \in Nat
      BY DEF TypeOK
    <2>3. \A i \in 1..Len(wire \o sendEvent.buffers) : (wire \o sendEvent.buffers)[i] \in accepted
      BY <2>2, ConcatWithin
    <2>4. QED
      BY <2>1, <2>3
  <1>6. ASSUME NEW t \in Threads,
               RegisterOwner(t) \/ SendFailed(t) \/ SendCompletes(t)
        PROVE  AcceptedInv'
    <2>1. sendEvent'.buffers \in {sendEvent.buffers, <<>>}
      <3>1. CASE RegisterOwner(t)
        BY <3>1 DEF RegisterOwner, TypeOK
      <3>2. CASE SendFailed(t)
        BY <1>0, <3>2 DEF SendFailed
      <3>3. CASE SendCompletes(t)
        BY <3>3 DEF SendCompletes
      <3>4. QED
        BY <1>6, <3>1, <3>2, <3>3
    <2>2. sendQueue' = sendQueue /\ wire' = wire /\ accepted' = accepted
      BY <1>6 DEF RegisterOwner, SendFailed, SendCompletes
    <2>3. QED
      BY <1>2, <2>1, <2>2
  <1>7. ASSUME NEW t \in Threads, WSASendFails(t) \/ Unregister(t) \/ SentNoMore(t) PROVE AcceptedInv'
    <2>1. sendQueue' = sendQueue /\ sendEvent' = sendEvent /\ wire' = wire /\ accepted' = accepted
      BY <1>7 DEF WSASendFails, Unregister, SentNoMore
    <2>2. QED
      BY <1>2, <2>1
  <1>8. ASSUME NEW t \in Threads,
               RegisterRefused(t) \/ SentMore(t) \/ \E b \in Buffers : Send(t, b)
        PROVE  AcceptedInv'
    <2>1. UNCHANGED sendVars
      BY <1>8 DEF RegisterRefused, SentMore, Send
    <2>2. QED
      BY <1>2, <2>1, SendVarsKept
  <1>9. ASSUME NEW t \in Threads, QuietStep(t) PROVE AcceptedInv'
    BY <1>2, <1>9, QuietStepKeeps
  <1>10. QED
    BY <1>1, <1>3, <1>4, <1>5, <1>6, <1>7, <1>8, <1>9 DEF Next, ThreadStep, QuietStep

-----------------------------------------------------------------------------
\* The invariant of the session.
THEOREM SessionIsInvariant == Spec => []SessionIInv
  <1>1. Init => SessionIInv
    <2> SUFFICES ASSUME Init PROVE SessionIInv
      OBVIOUS
    <2>1. TypeOK
      <3>1. NoFrame \in Frame
        BY DEF NoFrame, Frame
      <3>2. <<>> \in Seq(Buffers)
        OBVIOUS
      <3>3. sendEvent \in [owner : BOOLEAN, pending : BOOLEAN, buffers : Seq(Buffers)]
        BY <3>2 DEF Init
      <3>4. NoEvent \in Event
        BY DEF NoEvent, Event
      <3>5. QED
        BY <3>1, <3>2, <3>3, <3>4 DEF Init, TypeOK
    <2>2. \A t \in Threads : frame[t].pc = "idle"
      BY DEF Init, NoFrame
    <2>3. ~ sendEvent.pending /\ ~ recvEvent.pending /\ ~ disconnectEvent.pending
      BY DEF Init, NoEvent
    <2>4. OneSend /\ OneRecv
      BY <2>2, <2>3 DEF Init, OneSend, OneRecv, Sender, Receiver, InDisconnect
    <2>5. FrameInv /\ OwnerInv
      BY <2>2, <2>3 DEF FrameInv, OwnerInv, CompletionsOwned, At
    <2>6. EarlyInv
      BY <2>2, <2>3 DEF Init, EarlyInv, At
    <2>7. LeaveInv /\ FlowInv
      BY <2>2, <2>3 DEF Init, LeaveInv, Leaving, FlowInv
    <2>8. StreamInv /\ AcceptedInv
      BY <2>2 DEF Init, StreamInv, AcceptedInv, At
    <2>9. QED
      BY <2>1, <2>4, <2>5, <2>6, <2>7, <2>8 DEF SessionIInv, SessionInv
  <1>2. SessionIInv /\ [Next]_vars => SessionIInv'
    BY SessionTypeStep, OneSendStep, OneRecvStep, SessionFrameStep, SessionOwnerStep,
       SessionEarlyStep, SessionLeaveStep, SessionFlowStep, SessionStreamStep, SessionAcceptedStep
    DEF SessionIInv, SessionInv
  <1>3. QED
    BY <1>1, <1>2, PTL DEF Spec

\* At most one WSASend and one WSARecv are under way, whoever calls Send and
\* whichever thread completes them, and _sendRegistered says so.
THEOREM OneOperationEach == Spec => []SessionInv
  <1>1. SessionIInv => SessionInv
    BY DEF SessionIInv
  <1>2. QED
    BY <1>1, SessionIsInvariant, PTL

\* Dispatch never finds an event without its owner: the session lives as long as
\* the kernel has its buffers.
THEOREM DispatchFindsOwner == Spec => []CompletionsOwned
  <1>1. SessionIInv => CompletionsOwned
    BY DEF SessionIInv, OwnerInv
  <1>2. QED
    BY <1>1, SessionIsInvariant, PTL

\* The assertion in ReleaseSession cannot fail.
THEOREM SessionLeavesOnce == Spec => []ReleaseFindsSession
  <1>1. SessionIInv => ReleaseFindsSession
    BY DEF SessionIInv, LeaveInv, Leaving, ReleaseFindsSession, At
  <1>2. QED
    BY <1>1, SessionIsInvariant, PTL

\* A buffer in the queue of a connected session is somebody's to send.
THEOREM QueueIsAttended == Spec => []NoForgottenSend
  <1>1. SessionIInv => NoForgottenSend
    BY DEF SessionIInv, FlowInv, Promises, NoForgottenSend
  <1>2. QED
    BY <1>1, SessionIsInvariant, PTL

-----------------------------------------------------------------------------
\* What the stream holds, as the refinement has it.
Gone == sendEvent.pending \/ \E t \in Threads : Failing(t)
Held == (IF Gone THEN <<>> ELSE sendEvent.buffers) \o sendQueue

\* The steps of the stream, over Held.
HeldNext ==
  \/ \E b \in Buffers :
       /\ b \notin {Held[i] : i \in 1..Len(Held)} \union {wire[i] : i \in 1..Len(wire)}
       /\ Held' = Append(Held, b) /\ wire' = wire /\ failures' = failures
  \/ \E k \in 1..Len(Held) :
       \/ wire' = wire \o SubSeq(Held, 1, k) /\ failures' = failures
          /\ Held' = SubSeq(Held, k + 1, Len(Held))
       \/ failures' = failures + 1 /\ wire' = wire
          /\ Held' = SubSeq(Held, k + 1, Len(Held))

\* Or a step the stream does not see.
HeldStep == HeldNext \/ (Held' = Held /\ wire' = wire /\ failures' = failures)

\* The prefix that a WSASend takes, and the rest.
LEMMA Prefix ==
  ASSUME NEW S, NEW u \in Seq(S), NEW v \in Seq(S), u # <<>>
  PROVE  /\ Len(u) \in 1..Len(u \o v)
         /\ SubSeq(u \o v, 1, Len(u)) = u
         /\ SubSeq(u \o v, Len(u) + 1, Len(u \o v)) = v
  <1>1. /\ u \o v \in Seq(S) /\ Len(u \o v) = Len(u) + Len(v)
        /\ \A i \in 1..Len(u) + Len(v) : (u \o v)[i] = IF i <= Len(u) THEN u[i] ELSE v[i - Len(u)]
    BY ConcatProperties
  <1>2. Len(u) \in Nat \ {0} /\ Len(v) \in Nat
    BY EmptySeq
  <1>3. SubSeq(u \o v, 1, Len(u)) = u
    BY <1>1, <1>2, SubSeqOfConcat1, SubSeqFull
  <1>4. SubSeq(u \o v, Len(u) + 1, Len(u \o v)) = v
    <2>1. CASE v = <<>>
      BY <1>1, <1>2, <2>1, SubSeqEmpty
    <2>2. CASE v # <<>>
      BY <1>1, <1>2, <2>2, EmptySeq, SubSeqOfConcat2, SubSeqFull
    <2>3. QED
      BY <2>1, <2>2
  <1>5. QED
    BY <1>1, <1>2, <1>3, <1>4

\* Appending commutes with prefixing.
LEMMA AppendConcat ==
  ASSUME NEW S, NEW u \in Seq(S), NEW v \in Seq(S), NEW e \in S
  PROVE  u \o Append(v, e) = Append(u \o v, e)
  <1>1. Append(v, e) = v \o <<e>> /\ Append(u \o v, e) = (u \o v) \o <<e>> /\ <<e>> \in Seq(S)
    BY AppendIsConcat, ConcatProperties
  <1>2. QED
    BY <1>1, ConcatAssociative

\* Every step of the session is a step of the stream, or changes nothing of it.
LEMMA SessionStreams ==
  ASSUME SessionIInv, [Next]_vars
  PROVE  HeldStep
  <1> USE DEF SessionIInv, SessionInv
  <1>0. TypeOK /\ OneSend /\ FrameInv /\ StreamInv /\ AcceptedInv
    OBVIOUS
  <1>1. CASE UNCHANGED vars
    <2>1. Gone' = Gone
      BY <1>1 DEF vars, Gone, Failing, InDisconnect, At
    <2>2. QED
      BY <1>1, <2>1 DEF vars, HeldStep, Held
  \* A step after which the same sends are gone.
  <1>2. ASSUME NEW t \in Threads, Others(t), sendEvent'.pending = sendEvent.pending,
               Failing(t)' <=> Failing(t)
        PROVE  Gone' <=> Gone
    <2>1. \A u \in Threads : Failing(u)' <=> Failing(u)
      BY <1>2 DEF Others, Failing, InDisconnect, At
    <2>2. QED
      BY <1>2, <2>1 DEF Gone
  <1>3. ASSUME Gone' <=> Gone, sendEvent'.buffers = sendEvent.buffers, sendQueue' = sendQueue,
               wire' = wire, failures' = failures
        PROVE  HeldStep
    BY <1>3 DEF HeldStep, Held
  \* A thread at one of these is the only sender, and its send is not gone.
  <1>4. ASSUME NEW t \in Threads, Sender(t), ~ Failing(t) PROVE ~ Gone
    BY <1>0, <1>4 DEF Gone, OneSend, Failing, Sender, At
  <1>5. ASSUME NEW t \in Threads, NEW b \in Buffers, Send(t, b) PROVE HeldStep
    <2>1. UNCHANGED sendVars
      BY <1>5 DEF Send
    <2>2. Others(t) /\ ~ Failing(t) /\ ~ Failing(t)'
      BY <1>0, <1>5, SendFields DEF Send, Failing, InDisconnect, At
    <2>3. QED
      BY <1>2, <1>3, <2>1, <2>2, SendVarsKept
  <1>6. ASSUME NEW t \in Threads, SendPush(t) PROVE HeldStep
    <2>1. /\ frame[t].pc = "push" /\ sendQueue' = Append(sendQueue, frame[t].buffer)
          /\ sendEvent' = sendEvent /\ wire' = wire /\ failures' = failures
      BY <1>6 DEF SendPush, At
    <2>2. Others(t) /\ ~ Failing(t) /\ ~ Failing(t)'
      BY <1>0, <1>6, <2>1, SendPushFields DEF Failing, InDisconnect, At
    <2>3. Gone' <=> Gone
      BY <1>2, <2>1, <2>2
    <2>4. frame[t].buffer \in Buffers /\ frame[t].buffer \notin accepted
      BY <1>0, <2>1 DEF FrameInv, At
    <2> DEFINE h == IF Gone THEN <<>> ELSE sendEvent.buffers
    <2>5. h \in Seq(Buffers) /\ sendQueue \in Seq(Buffers) /\ \A i \in 1..Len(h) : h[i] \in accepted
      BY <1>0 DEF TypeOK, AcceptedInv
    <2>6. Held = h \o sendQueue /\ Held' = h \o Append(sendQueue, frame[t].buffer)
      BY <2>1, <2>3 DEF Held
    <2> HIDE DEF h
    <2>7. Held' = Append(Held, frame[t].buffer)
      BY <2>4, <2>5, <2>6, AppendConcat
    <2>8. \A i \in 1..Len(Held) : Held[i] \in accepted
      BY <1>0, <2>5, <2>6, ConcatWithin DEF AcceptedInv
    <2>9. frame[t].buffer \notin {Held[i] : i \in 1..Len(Held)} \union {wire[i] : i \in 1..Len(wire)}
      BY <1>0, <2>4, <2>8 DEF AcceptedInv
    <2>10. QED
      BY <2>1, <2>4, <2>7, <2>9 DEF HeldStep, HeldNext
  <1>7. ASSUME NEW t \in Threads, RegisterRefused(t) \/ Unregister(t) PROVE HeldStep
    <2>1. /\ sendQueue' = sendQueue /\ sendEvent' = sendEvent
          /\ wire' = wire /\ failures' = failures
      BY <1>7, SendVarsKept DEF RegisterRefused, Unregister
    <2>2. Others(t) /\ ~ Failing(t) /\ ~ Failing(t)'
      BY <1>0, <1>7, SendReturnFields DEF RegisterRefused, Unregister, Failing, InDisconnect, At
    <2>3. QED
      BY <1>2, <1>3, <2>1, <2>2
  <1>8. ASSUME NEW t \in Threads, RegisterOwner(t) PROVE HeldStep
    <2>1. /\ sendQueue' = sendQueue /\ sendEvent'.buffers = sendEvent.buffers
          /\ sendEvent'.pending = sendEvent.pending /\ wire' = wire /\ failures' = failures
      BY <1>0, <1>8 DEF RegisterOwner, TypeOK
    <2>2. Others(t) /\ ~ Failing(t) /\ ~ Failing(t)'
      BY <1>0, <1>8, GotoFields DEF RegisterOwner, Failing, InDisconnect, At
    <2>3. QED
      BY <1>2, <1>3, <2>1, <2>2
  <1>9. ASSUME NEW t \in Threads, RegisterGather(t) PROVE HeldStep
    <2>1. /\ sendQueue' = <<>> /\ sendEvent'.buffers = sendEvent.buffers \o sendQueue
          /\ sendEvent'.pending = sendEvent.pending /\ wire' = wire /\ failures' = failures
      BY <1>0, <1>9 DEF RegisterGather, TypeOK
    <2>2. Others(t) /\ Sender(t) /\ ~ Failing(t) /\ ~ Failing(t)'
      BY <1>0, <1>9, GotoFields DEF RegisterGather, Sender, Failing, InDisconnect, At
    <2>3. ~ Gone /\ ~ Gone'
      BY <1>2, <1>4, <2>1, <2>2
    <2>4. Held' = Held
      BY <1>0, <2>1, <2>3, ConcatProperties, ConcatEmptySeq DEF Held, TypeOK
    <2>5. QED
      BY <2>1, <2>4 DEF HeldStep
  <1>10. ASSUME NEW t \in Threads, At(t, "wsaSend"), sendQueue' = sendQueue, Gone'
         PROVE  /\ Len(sendEvent.buffers) \in 1..Len(Held)
                /\ SubSeq(Held, 1, Len(sendEvent.buffers)) = sendEvent.buffers
                /\ Held' = SubSeq(Held, Len(sendEvent.buffers) + 1, Len(Held))
    <2>1. ~ Gone
      BY <1>4, <1>10 DEF Sender, Failing, InDisconnect, At
    <2>2. Held = sendEvent.buffers \o sendQueue
      BY <2>1 DEF Held
    <2>3. Held' = sendQueue
      BY <1>0, <1>10, ConcatEmptySeq DEF Held, TypeOK
    <2>4. /\ sendEvent.buffers \in Seq(Buffers) /\ sendQueue \in Seq(Buffers)
          /\ sendEvent.buffers # <<>>
      BY <1>0, <1>10 DEF TypeOK, StreamInv
    <2> DEFINE u == sendEvent.buffers
               v == sendQueue
    <2> HIDE DEF u, v
    <2>5. Len(u) \in 1..Len(u \o v) /\ SubSeq(u \o v, 1, Len(u)) = u
          /\ SubSeq(u \o v, Len(u) + 1, Len(u \o v)) = v
      <3>1. u \in Seq(Buffers) /\ v \in Seq(Buffers) /\ u # <<>>
        BY <2>4 DEF u, v
      <3>2. QED
        BY <3>1, Prefix
    <2>6. QED
      BY <2>2, <2>3, <2>5 DEF u, v
  <1>11. ASSUME NEW t \in Threads, WSASend(t) PROVE HeldStep
    <2>1. /\ At(t, "wsaSend") /\ sendQueue' = sendQueue /\ sendEvent'.pending
          /\ wire' = wire \o sendEvent.buffers /\ failures' = failures
      BY <1>0, <1>11 DEF WSASend, TypeOK
    <2>2. Gone'
      BY <2>1 DEF Gone
    <2>3. QED
      BY <1>10, <2>1, <2>2 DEF HeldStep, HeldNext
  <1>12. ASSUME NEW t \in Threads, WSASendFails(t) PROVE HeldStep
    <2>1. /\ At(t, "wsaSend") /\ sendQueue' = sendQueue /\ wire' = wire /\ failures' = failures + 1
      BY <1>12 DEF WSASendFails
    <2>2. Failing(t)'
      BY <1>0, <1>12, GotoFields, DisconnectingFields DEF WSASendFails, Failing, InDisconnect, At
    <2>3. Gone'
      BY <2>2 DEF Gone
    <2>4. QED
      BY <1>10, <2>1, <2>3 DEF HeldStep, HeldNext
  \* The buffers of a send that is gone are dropped.
  <1>13. ASSUME Gone, sendQueue' = sendQueue, sendEvent'.buffers = <<>>, wire' = wire,
                failures' = failures
         PROVE  HeldStep
    <2>1. Held = <<>> \o sendQueue /\ Held' = <<>> \o sendQueue
      BY <1>13 DEF Held
    <2>2. QED
      BY <1>13, <2>1 DEF HeldStep
  <1>14. ASSUME NEW t \in Threads, SendFailed(t) PROVE HeldStep
    <2>1. /\ Gone /\ sendQueue' = sendQueue /\ sendEvent'.buffers = <<>>
          /\ wire' = wire /\ failures' = failures
      BY <1>0, <1>14 DEF SendFailed, TypeOK, Gone, Failing
    <2>2. QED
      BY <1>13, <2>1
  <1>15. ASSUME NEW t \in Threads, SendCompletes(t) PROVE HeldStep
    <2>1. /\ Gone /\ sendQueue' = sendQueue /\ sendEvent'.buffers = <<>>
          /\ wire' = wire /\ failures' = failures
      BY <1>15 DEF SendCompletes, Gone
    <2>2. QED
      BY <1>13, <2>1
  <1>16. ASSUME NEW t \in Threads, SentNoMore(t) \/ SentMore(t) PROVE HeldStep
    <2>1. /\ sendQueue' = sendQueue /\ sendEvent' = sendEvent
          /\ wire' = wire /\ failures' = failures
      BY <1>16, SendVarsKept DEF SentNoMore, SentMore
    <2>2. Others(t) /\ ~ Failing(t) /\ ~ Failing(t)'
      BY <1>0, <1>16, GotoFields, CallFields DEF SentNoMore, SentMore, Failing, InDisconnect, At
    <2>3. QED
      BY <1>2, <1>3, <2>1, <2>2
  <1>17. ASSUME NEW t \in Threads, QuietStep(t) PROVE HeldStep
    BY <1>0, <1>2, <1>3, <1>17, QuietStepKeeps
  <1>18. QED
    BY <1>1, <1>5, <1>6, <1>7, <1>8, <1>9, <1>11, <1>12, <1>14, <1>15, <1>16, <1>17
    DEF Next, ThreadStep, QuietStep

\* Send implements the stream: the buffers reach the socket in the order they
\* were accepted, none twice, none lost but by a failed WSASend.
THEOREM SendIsAStream == Spec => RefinesSendStream
  <1>1. Init => Stream!Init
    BY ConcatEmptySeq DEF Init, Stream!Init, NoFrame, At, InDisconnect
  <1>2. SessionIInv /\ [Next]_vars => [Stream!Next]_(Stream!svars)
    <2> SUFFICES ASSUME SessionIInv, [Next]_vars PROVE [Stream!Next]_(Stream!svars)
      OBVIOUS
    <2>1. HeldStep
      BY SessionStreams
    <2>2. QED
      BY <2>1 DEF HeldStep, HeldNext, Held, Gone, Failing, Stream!Next, Stream!svars, Stream!Accept,
                  Stream!Known, Stream!Transmit, Stream!Fail
  <1>3. QED
    BY <1>1, <1>2, SessionIsInvariant, PTL DEF Spec, RefinesSendStream, Stream!Spec

=============================================================================
