----------------------------- MODULE PacketPipe -----------------------------
(***************************************************************************)
(* A packet on its way from MakeSendBuffer at one end to its handler at    *)
(* the other: a buffer opened in the thread's chunk, filled and closed;    *)
(* the send queue of the session; the byte stream; the receive buffer; the *)
(* reassembly of packets; the handler's parse.  The server receives what   *)
(* the client sends, or the other way round.                               *)
(***************************************************************************)
EXTENDS Protocol, RecvBuffer

CONSTANTS
    Threads,        \* that send on the session
    ChunkSize,      \* SEND_BUFFER_CHUNK_SIZE, 6000 in the code
    plan,           \* by receiver and thread: the packets to send, in order
    Cuts            \* bound: a receive returns so many bytes, or all there are

Receivers == {"server", "client"}
HeaderSize == 4
PacketIds == 1000..1005

VARIABLES
    receiver,
    todo,           \* what each thread still has to send
    \* the sender
    chunk,          \* LSendBufferChunk of each thread, 0 is null
    used,           \* _usedSize of each chunk
    memory,         \* its bytes
    pool,           \* _sendBufferChunks
    making,         \* the SendBuffer a thread has made and not sent
    sendQueue,      \* _sendQueue
    sending,        \* those of the WSASend that is pending
    failed,         \* an ASSERT_CRASH failed
    \* the stream and the receiver
    wire,           \* sent and not yet received
    recvMemory,
    processLen,     \* of OnRecv
    handled         \* the packets given to their handlers

senderVars == <<todo, chunk, used, memory, pool, making, sendQueue, failed>>
receiverVars == <<recvMemory, readPos, writePos, processing, processLen, handled>>
vars == <<receiver, senderVars, sending, wire, receiverVars>>

NoBuffer == [chunk |-> 0, at |-> 0, size |-> 0]

Init ==
    /\ receiver \in Receivers
    /\ todo = plan[receiver]
    /\ chunk = [t \in Threads |-> 0]
    /\ used = <<>> /\ memory = <<>> /\ pool = <<>>
    /\ making = [t \in Threads |-> NoBuffer]
    /\ sendQueue = <<>> /\ sending = <<>> /\ failed = FALSE
    /\ wire = <<>>
    /\ recvMemory = [i \in 1..Capacity |-> 0]
    /\ CursorInit
    /\ processLen = 0 /\ handled = <<>>

-----------------------------------------------------------------------------
(* The messages by their ids: MakeSendBuffer and the table of handlers.    *)

ByteSizeLong(p) ==
    CASE p.id = 1000 -> C_LOGIN_ByteSize(p.msg)
      [] p.id = 1001 -> S_LOGIN_ByteSize(p.msg)
      [] p.id = 1002 -> C_ENTER_GAME_ByteSize(p.msg)
      [] p.id = 1003 -> S_ENTER_GAME_ByteSize(p.msg)
      [] p.id = 1004 -> C_CHAT_ByteSize(p.msg)
      [] p.id = 1005 -> S_CHAT_ByteSize(p.msg)

Serialize(p) ==
    CASE p.id = 1000 -> C_LOGIN_Serialize(p.msg)
      [] p.id = 1001 -> S_LOGIN_Serialize(p.msg)
      [] p.id = 1002 -> C_ENTER_GAME_Serialize(p.msg)
      [] p.id = 1003 -> S_ENTER_GAME_Serialize(p.msg)
      [] p.id = 1004 -> C_CHAT_Serialize(p.msg)
      [] p.id = 1005 -> S_CHAT_Serialize(p.msg)

\* GPacketHandler of each program; every other id is Handle_INVALID.
ServerParses(id, b) ==
    CASE id = 1000 -> C_LOGIN_Parse(b)
      [] id = 1002 -> C_ENTER_GAME_Parse(b)
      [] id = 1004 -> C_CHAT_Parse(b)
      [] OTHER -> <<>>

ClientParses(id, b) ==
    CASE id = 1001 -> S_LOGIN_Parse(b)
      [] id = 1003 -> S_ENTER_GAME_Parse(b)
      [] id = 1005 -> S_CHAT_Parse(b)
      [] OTHER -> <<>>

Parses(r, id, b) ==
    IF r = "server" THEN ServerParses(id, b) ELSE ClientParses(id, b)

\* A packet header is two uint16, the lower byte first.
Header(size, id) == <<size % 256, size \div 256, id % 256, id \div 256>>
HeaderOf(b, i) == [size |-> b[i] + 256 * b[i + 1], id |-> b[i + 2] + 256 * b[i + 3]]

PacketSize(p) == (ByteSizeLong(p) + HeaderSize) % 65536

MsgOf(id) ==
    CASE id = 1000 -> C_LOGIN
      [] id = 1001 -> S_LOGIN
      [] id = 1002 -> C_ENTER_GAME
      [] id = 1003 -> S_ENTER_GAME
      [] id = 1004 -> C_CHAT
      [] id = 1005 -> S_CHAT

\* What the packets that are to be sent must be: of a kind that the sender
\* has a MakeSendBuffer for, not larger than a chunk, a uint16 or the largest
\* packet of the receiver; and a message that parses is one of the same bytes.
SentTo(r) == IF r = "server" THEN {1000, 1002, 1004} ELSE {1001, 1003, 1005}

CanBeSent(r, p) ==
    /\ p.id \in SentTo(r)
    /\ Serialize(p) \in Seq(Nat) /\ Len(Serialize(p)) = ByteSizeLong(p)
    /\ ByteSizeLong(p) + HeaderSize <= ChunkSize
    /\ ByteSizeLong(p) + HeaderSize <= MaxPacket
    /\ ByteSizeLong(p) + HeaderSize < 65536

ParsesBack(r, p) ==
    LET parsed == Parses(r, p.id, Serialize(p)) IN
    parsed # <<>> => /\ parsed[1] \in MsgOf(p.id)
                     /\ Serialize([id |-> p.id, msg |-> parsed[1]]) = Serialize(p)

\* The packets that are to be sent to r.
Planned(r) == UNION {ToSet(plan[r][t]) : t \in Threads}

ASSUME PlanAssumption ==
    /\ ChunkSize \in Nat
    /\ \A r \in Receivers :
          /\ plan[r] \in [Threads -> Seq(Planned(r))]
          /\ \A p \in Planned(r) : CanBeSent(r, p) /\ ParsesBack(r, p)

-----------------------------------------------------------------------------
(* The sender.                                                             *)

InUse(c, chunks, bufs) == c \in chunks \/ \E b \in bufs : b.chunk = c
Buffers(qs, ms) == ToSet(qs) \cup ms

\* A bug for comparison: a SendBuffer holds no reference to its chunk.
RecycleUnheld(p, chunks, bufs) ==
    p \o SetToSeq({c \in 1..Len(used) : c \notin chunks \cup ToSet(p)})

\* Chunks that lose their last reference go back to the manager (PushGlobal).
Recycle(p, chunks, bufs) ==
    LET idle == {c \in 1..Len(used) : /\ ~InUse(c, chunks, bufs)
                                      /\ c \notin ToSet(p)}
    IN p \o SetToSeq(idle)

FreeIn(c) == ChunkSize - used[c]
Erased == [i \in 1..ChunkSize |-> 0]
Packet(p) == Header(PacketSize(p), p.id) \o Serialize(p)

\* SendBufferManager::Open: the current chunk, the last of the pool, or a new
\* one.  The old chunk is released after Pop, so it is never the one popped.
HasRoom(t, size) == chunk[t] # 0 /\ FreeIn(chunk[t]) >= size

CurrentChunk(t, size) ==
    IF HasRoom(t, size) THEN chunk[t]
    ELSE IF pool # <<>> THEN Last(pool) ELSE Len(used) + 1

Popped(t, size) == IF HasRoom(t, size) \/ pool = <<>> THEN pool ELSE Front(pool)

\* MakeSendBuffer: opens a buffer of the packet's size, writes the packet and
\* closes the buffer.  All of it but Pop and the release of a chunk is private
\* to the thread, and nothing in it opens a second buffer.
MakeSendBuffer(t) ==
    /\ ~failed
    /\ todo[t] # <<>> /\ making[t] = NoBuffer
    /\ LET size == PacketSize(Head(todo[t]))
           bytes == Packet(Head(todo[t]))
           c == CurrentChunk(t, size)
           at == IF c = chunk[t] THEN used[c] ELSE 0
           filled(m) == [i \in 1..ChunkSize |->
                            IF i - at \in 1..Len(bytes) THEN bytes[i - at] ELSE m[i]]
       IN /\ chunk' = [chunk EXCEPT ![t] = c]
          /\ used' = IF c > Len(used) THEN Append(used, size)
                     ELSE [used EXCEPT ![c] = at + size]
          /\ memory' = IF c > Len(memory) THEN Append(memory, filled(Erased))
                       ELSE [memory EXCEPT ![c] = filled(@)]
          /\ making' = [making EXCEPT ![t] = [chunk |-> c, at |-> at, size |-> size]]
          /\ failed' = (at + size > ChunkSize \/ Len(bytes) > size)
          /\ pool' = Recycle(Popped(t, size), {chunk'[u] : u \in Threads},
                             Buffers(sendQueue \o sending, {making'[u] : u \in Threads}))
    /\ UNCHANGED <<receiver, todo, sendQueue, sending, wire, receiverVars>>

\* A bug for comparison: what is queued overtakes what was queued before.
SendOvertaking(t) ==
    /\ ~failed
    /\ making[t] # NoBuffer
    /\ IF sending = <<>>
       THEN sending' = <<making[t]>> /\ UNCHANGED sendQueue
       ELSE sendQueue' = <<making[t]>> \o sendQueue /\ UNCHANGED sending
    /\ making' = [making EXCEPT ![t] = NoBuffer]
    /\ todo' = [todo EXCEPT ![t] = Tail(@)]
    /\ UNCHANGED <<receiver, chunk, used, memory, pool, failed, wire, receiverVars>>

\* Send queues the buffer, and sends it when nothing is being sent.
Send(t) ==
    /\ ~failed
    /\ making[t] # NoBuffer
    /\ IF sending = <<>>
       THEN sending' = <<making[t]>> /\ UNCHANGED sendQueue
       ELSE sendQueue' = Append(sendQueue, making[t]) /\ UNCHANGED sending
    /\ making' = [making EXCEPT ![t] = NoBuffer]
    /\ todo' = [todo EXCEPT ![t] = Tail(@)]
    /\ UNCHANGED <<receiver, chunk, used, memory, pool, failed, wire, receiverVars>>

\* The kernel has taken the bytes from where they lie; ProcessSend drops its
\* references and sends what was queued meanwhile.
BytesOf(b) == SubSeq(memory[b.chunk], b.at + 1, b.at + b.size)
Bytes(bufs) == FlattenSeq([i \in 1..Len(bufs) |-> BytesOf(bufs[i])])

ProcessSend ==
    /\ ~failed
    /\ sending # <<>>
    /\ wire' = wire \o Bytes(sending)
    /\ sending' = sendQueue /\ sendQueue' = <<>>
    /\ pool' = Recycle(pool, {chunk[u] : u \in Threads},
                       Buffers(sendQueue, {making[u] : u \in Threads}))
    /\ UNCHANGED <<receiver, todo, chunk, used, memory, making, failed, receiverVars>>

-----------------------------------------------------------------------------
(* The receiver.                                                           *)

\* A receive completes with some of the bytes that have arrived, at most as
\* many as are free.
ProcessRecv(n) ==
    /\ OnWrite(n)
    /\ recvMemory' = [i \in 1..Capacity |->
            IF i - writePos \in 1..n THEN wire[i - writePos] ELSE recvMemory[i]]
    /\ wire' = SubSeq(wire, n + 1, Len(wire))
    /\ UNCHANGED <<receiver, senderVars, sending, processLen, handled>>

HeaderAt(i) == HeaderOf(recvMemory, readPos + i + 1)

\* Bugs for comparison: a packet that ends with the data waits for more.
AssembledNotLast ==
    /\ DataSize - processLen >= HeaderSize
    /\ DataSize - processLen > HeaderAt(processLen).size

\* And one receive gives at most one packet.
AssembledOnce ==
    /\ processLen = 0
    /\ DataSize >= HeaderSize
    /\ DataSize >= HeaderAt(processLen).size

\* PacketSession::OnRecv has a whole packet.
Assembled ==
    /\ DataSize - processLen >= HeaderSize
    /\ DataSize - processLen >= HeaderAt(processLen).size

\* OnRecvPacket: one that does not parse is dropped, nobody asks.
OnRecvPacket ==
    /\ processing /\ Assembled
    /\ LET size == HeaderAt(processLen).size
           id == HeaderAt(processLen).id
           from == readPos + processLen
           parsed == Parses(receiver, id, SubSeq(recvMemory, from + HeaderSize + 1, from + size))
       IN /\ handled' = IF parsed = <<>> THEN handled
                        ELSE Append(handled, [id |-> id, msg |-> parsed[1]])
          /\ processLen' = processLen + size
    /\ UNCHANGED <<receiver, senderVars, sending, wire, recvMemory, readPos, writePos,
                   processing>>

\* OnRecv returns; OnRead and Clean, which moves the unread bytes.
EndRecv ==
    /\ ~Assembled
    /\ OnRead(processLen)
    /\ processLen' = 0
    /\ recvMemory' = IF Moves(readPos + processLen, writePos)
                     THEN [i \in 1..Capacity |->
                        IF i <= DataSize - processLen
                        THEN recvMemory[readPos + processLen + i] ELSE recvMemory[i]]
                     ELSE recvMemory
    /\ UNCHANGED <<receiver, senderVars, sending, wire, handled>>

-----------------------------------------------------------------------------
Sender(t) == MakeSendBuffer(t) \/ Send(t)
Available == Min({FreeSize, Len(wire)})
Receive == \E n \in Cuts \cup {Available} : n \in 1..Available /\ ProcessRecv(n)
Receiver == Receive \/ OnRecvPacket \/ EndRecv

Next ==
    \/ \E t \in Threads : Sender(t)
    \/ ProcessSend
    \/ Receiver

\* Every step is one of finitely many: it is enough that they do not all stop.
Fairness == WF_vars(Next)

Spec == Init /\ [][Next]_vars /\ Fairness

-----------------------------------------------------------------------------
Live == Buffers(sendQueue \o sending, {making[t] : t \in Threads} \ {NoBuffer})

TypeOK ==
    /\ Len(used) = Len(memory)
    /\ chunk \in [Threads -> 0..Len(memory)]
    /\ ToSet(pool) \subseteq 1..Len(memory)
    /\ processLen <= DataSize
    /\ \A i \in 1..Len(handled) : handled[i].msg \in MsgOf(handled[i].id)

\* No two buffers that are being filled or on their way share a byte, though
\* chunks are recycled; a chunk in the pool has no user and is there once, a
\* chunk is current for one thread, and no assertion of MakeSendBuffer, Open
\* and Close fails (ClientPacketHandler.h:65, SendBuffer.cpp:17-59).
BuffersDisjoint ==
    /\ \A a, b \in Live : a # b /\ a.chunk = b.chunk =>
            a.at + a.size <= b.at \/ b.at + b.size <= a.at
    /\ \A t, u \in Threads : t # u /\ chunk[t] # 0 => chunk[t] # chunk[u]
    /\ \A c \in ToSet(pool) : ~InUse(c, {chunk[t] : t \in Threads}, Live)
    /\ Cardinality(ToSet(pool)) = Len(pool)
    /\ ~failed

PipeInv == TypeOK /\ BuffersDisjoint /\ CursorInv

\* The receive buffer is used as RecvBuffer says: when OnRecv returns, less
\* than one packet is left unread (Session.cpp:318-326).
RefinesRecvBuffer == CursorSpec

\* The packets that are on their way, read from the bytes themselves: what the
\* receiver has not handled, the stream, and the buffers of the sender.
Unread == SubSeq(recvMemory, readPos + processLen + 1, writePos)
Underway == Unread \o wire \o Bytes(sending) \o Bytes(sendQueue)

WholeAt(b, i) == /\ i + HeaderSize <= Len(b) + 1
                 /\ HeaderOf(b, i).size \in HeaderSize..Len(b) + 1 - i
PacketAt(b, i) ==
    [id |-> HeaderOf(b, i).id,
     bytes |-> SubSeq(b, i + HeaderSize, i + HeaderOf(b, i).size - 1)]

PacketsIn(b) ==
    LET from[i \in 1..Len(b) + 1] ==
        IF WholeAt(b, i) THEN <<PacketAt(b, i)>> \o from[i + HeaderOf(b, i).size]
        ELSE <<>>
    IN from[1]

\* Every packet that was handed to Send is handled once, in order and with
\* its content, by the handler of its id at the other end; one without a
\* handler or with a text that is not UTF-8 is skipped.
AsHandled(p) == [id |-> p.id, bytes |-> Serialize(p)]
PlannedPackets == UNION {{AsHandled(p) : p \in Planned(r)} : r \in Receivers}
Accepted(p) == ServerParses(p.id, p.bytes) # <<>> \/ ClientParses(p.id, p.bytes) # <<>>

Channel == INSTANCE PacketChannel WITH
    Packets <- PlannedPackets,
    Acceptable <- Accepted,
    pending <- PacketsIn(Underway),
    delivered <- [i \in 1..Len(handled) |-> AsHandled(handled[i])]
RefinesPacketChannel == Channel!Spec

\* Every packet a thread has to send gets handled, or skipped if it must be.
EveryPacketHandled ==
    <>[](/\ \A t \in Threads : todo[t] = <<>>
         /\ sendQueue = <<>> /\ sending = <<>> /\ wire = <<>> /\ DataSize = 0)
=============================================================================
