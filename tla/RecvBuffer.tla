----------------------------- MODULE RecvBuffer -----------------------------
(***************************************************************************)
(* The cursors of a session's RecvBuffer under ProcessRecv: bytes are      *)
(* written, the content reads what it can, Clean makes room and the next   *)
(* receive is posted with all the free space.  Nothing is assumed of the   *)
(* content but that it leaves less than one packet unread.                 *)
(***************************************************************************)
EXTENDS Naturals

CONSTANTS
    BufferSize,     \* BUFFER_SIZE of Session, 65536 in the code
    BufferCount,    \* BUFFER_COUNT, 10 in the code
    MaxPacket       \* the largest packet: its size is a uint16

ASSUME RecvBufferAssumption ==
    /\ BufferSize \in Nat /\ MaxPacket \in 1..BufferSize
    /\ BufferCount \in Nat /\ BufferCount >= 3

VARIABLES readPos, writePos,
          processing    \* between OnWrite and Clean of one ProcessRecv

cursors == <<readPos, writePos, processing>>

Capacity == BufferSize * BufferCount
DataSize == writePos - readPos
FreeSize == Capacity - writePos

CursorInit == readPos = 0 /\ writePos = 0 /\ processing = FALSE

\* A receive of n bytes completes: OnWrite accepts what fits.
OnWrite(n) ==
    /\ ~processing /\ n <= FreeSize
    /\ writePos' = writePos + n
    /\ processing' = TRUE
    /\ UNCHANGED readPos

\* Clean, for cursors r and w: rewind, or move the unread bytes to the front
\* when less than one buffer is free.
Rewinds(r, w) == r = w
Moves(r, w) == r # w /\ Capacity - w < BufferSize

Clean(r, w) ==
    /\ readPos' = IF Rewinds(r, w) \/ Moves(r, w) THEN 0 ELSE r
    /\ writePos' = IF Rewinds(r, w) \/ Moves(r, w) THEN w - r ELSE w

\* OnRead of n bytes, then Clean.
OnRead(n) ==
    /\ processing /\ n <= DataSize
    /\ Clean(readPos + n, writePos)
    /\ processing' = FALSE

CursorNext ==
    \/ \E n \in 1..FreeSize : OnWrite(n)
    \/ \E n \in 0..DataSize : DataSize - n < MaxPacket /\ OnRead(n)

CursorSpec == CursorInit /\ [][CursorNext]_cursors

-----------------------------------------------------------------------------
CursorsOrdered ==
    /\ readPos \in Nat /\ writePos \in Nat /\ processing \in BOOLEAN
    /\ readPos <= writePos /\ writePos <= Capacity

RoomToReceive ==
    processing = FALSE => DataSize < MaxPacket /\ FreeSize >= BufferSize

MovesApart ==
    \A rest \in 0..MaxPacket - 1 :
        rest <= DataSize /\ Moves(writePos - rest, writePos) => rest <= writePos - rest

\* The cursors stay in order and in the buffer.  Whenever a receive is
\* posted a whole buffer is free: a receive of no bytes would complete at once
\* and be taken for the end of the connection (Session.cpp:236).  And when
\* Clean moves bytes by memcpy, the place they leave and the place they go to
\* do not overlap (RecvBuffer.cpp:31), however few or many were left unread.
CursorInv == CursorsOrdered /\ RoomToReceive /\ MovesApart
=============================================================================
