------------------------------ MODULE GameRoom ------------------------------
(***************************************************************************)
(* The game server's room with its sessions and their clients: accept,     *)
(* login, entering, chat and disconnecting.  The workers of the server     *)
(* handle the receives of different sessions, and a disconnect, at the     *)
(* same time; the room is a JobQueue, of which only what SerialQueue says  *)
(* is used.  A Session is used as module Session says: one receive at a    *)
(* time, one OnDisconnected, which may overlap with a receive.             *)
(***************************************************************************)
EXTENDS Naturals, Sequences, FiniteSets

CONSTANTS
    Sessions,       \* one of each DummyClient process
    MaxChats,       \* bound: C_CHAT packets of each client
    MaxBreaks       \* bound: connections that break

ASSUME GameRoomAssumption == MaxChats \in Nat /\ MaxBreaks \in Nat

NoPlayer == 0
NoJob == [do |-> "nothing", player |-> 0, from |-> 0, n |-> 0]
RoomQueue == "room"

VARIABLES
    \* the clients
    client,         \* "connecting", "added" to the service or "in", OnConnected done
    chats,          \* C_CHATs each has sent
    seen,           \* packets of toClient that were handled
    \* the connections
    toServer, toClient,     \* toClient keeps the packets that were read
    broken,
    \* the sessions of the server
    connected,      \* _connected
    posted,         \* a receive is pending
    batch,          \* the packets of the receive that is being handled
    step,           \* of the handler of the first of them
    closing,        \* OnDisconnected: "no", "leave", "clear" or "done"
    players,        \* _players
    current,        \* _currentPlayer
    inRoom,         \* _room is set
    raced,          \* a handler of the session ran with or after OnDisconnected
    \* the server
    serviceSessions, manager,   \* Service::_sessions, GSessionManager
    owner,          \* ownerSession of each player, by playerId from 1
    \* the room
    submitted, pending, active,
    roomPlayers,    \* Room::_players
    targets,        \* those the Broadcast that is running has not reached
    crashed

clientVars == <<client, chats, seen>>
sessionVars == <<connected, posted, batch, step, closing, players, current, inRoom, raced>>
serverVars == <<serviceSessions, manager, owner>>
queueVars == <<submitted, pending, active>>
roomVars == <<queueVars, roomPlayers, targets>>
vars == <<clientVars, toServer, toClient, broken, sessionVars, serverVars, roomVars, crashed>>

Chats == [name : {"C_CHAT"}, from : Sessions, n : 1..MaxChats]
Players == 0..2 * Cardinality(Sessions)

\* The jobs of the room; of a player only the id is kept.
EnterJob(s, p) == [do |-> "Enter", player |-> p, from |-> s, n |-> 0]
LeaveJob(s, p) == [do |-> "Leave", player |-> p, from |-> s, n |-> 0]
BroadcastJob(s, n) == [do |-> "Broadcast", player |-> NoPlayer, from |-> s, n |-> n]
Jobs == {EnterJob(s, p) : s \in Sessions, p \in Players}
        \cup {LeaveJob(s, p) : s \in Sessions, p \in Players}
        \cup {BroadcastJob(s, n) : s \in Sessions, n \in 1..MaxChats}

Queue == INSTANCE SerialQueue WITH Queues <- {RoomQueue}
DoAsync(job) == Queue!Submit(RoomQueue, job)

Packet(name) == [name |-> name, from |-> 0, n |-> 0]

Init ==
    /\ client = [s \in Sessions |-> "connecting"]
    /\ chats = [s \in Sessions |-> 0] /\ seen = [s \in Sessions |-> 0]
    /\ toServer = [s \in Sessions |-> <<>>] /\ toClient = [s \in Sessions |-> <<>>]
    /\ broken = {}
    /\ connected = [s \in Sessions |-> FALSE] /\ posted = [s \in Sessions |-> FALSE]
    /\ batch = [s \in Sessions |-> <<>>] /\ step = [s \in Sessions |-> 1]
    /\ closing = [s \in Sessions |-> "no"]
    /\ players = [s \in Sessions |-> <<>>]
    /\ current = [s \in Sessions |-> NoPlayer] /\ inRoom = [s \in Sessions |-> FALSE]
    /\ raced = [s \in Sessions |-> FALSE]
    /\ serviceSessions = {} /\ manager = {} /\ owner = <<>>
    /\ Queue!Init
    /\ roomPlayers = {} /\ targets = {}
    /\ crashed = FALSE

-----------------------------------------------------------------------------
(* The dummy client.                                                       *)

ToServer(s, p) ==
    toServer' = IF s \in broken THEN toServer ELSE [toServer EXCEPT ![s] = Append(@, p)]

clientFrame == <<toClient, broken, sessionVars, serverVars, roomVars, crashed>>

\* ProcessConnect adds the session to the service before it calls OnConnected.
ClientConnect(s) ==
    /\ client[s] = "connecting"
    /\ client' = [client EXCEPT ![s] = "added"]
    /\ UNCHANGED <<chats, seen, toServer, clientFrame>>

ClientOnConnected(s) ==
    /\ client[s] = "added"
    /\ client' = [client EXCEPT ![s] = "in"]
    /\ ToServer(s, Packet("C_LOGIN"))
    /\ UNCHANGED <<chats, seen, clientFrame>>

\* main broadcasts a chat again and again, to whoever is in the service.
ClientBroadcast(s) ==
    /\ client[s] \in {"added", "in"} /\ chats[s] < MaxChats
    /\ chats' = [chats EXCEPT ![s] = @ + 1]
    /\ ToServer(s, [name |-> "C_CHAT", from |-> s, n |-> chats'[s]])
    /\ UNCHANGED <<client, seen, clientFrame>>

\* OnRecvPacket: Handle_S_LOGIN enters with the first player; the other
\* handlers only look at the packet.
ClientRecv(s) ==
    /\ client[s] = "in" /\ seen[s] < Len(toClient[s])
    /\ seen' = [seen EXCEPT ![s] = @ + 1]
    /\ IF toClient[s][seen'[s]].name = "S_LOGIN"
       THEN ToServer(s, Packet("C_ENTER_GAME"))
       ELSE UNCHANGED toServer
    /\ UNCHANGED <<client, chats, clientFrame>>

\* The connection breaks; what has arrived can still be read.
Break(s) ==
    /\ client[s] # "connecting" /\ s \notin broken
    /\ Cardinality(broken) < MaxBreaks
    /\ broken' = broken \cup {s}
    /\ UNCHANGED <<clientVars, toServer, toClient, sessionVars, serverVars, roomVars, crashed>>

-----------------------------------------------------------------------------
(* Accepting and receiving.                                                *)

Unchanged == UNCHANGED <<clientVars, broken>>

\* ProcessAccept and ProcessConnect, which calls OnConnected and posts the
\* first receive; the accept event is registered again for another session.
ProcessAccept(s) ==
    /\ client[s] # "connecting" /\ s \notin serviceSessions /\ closing[s] = "no"
    /\ ~connected[s]
    /\ connected' = [connected EXCEPT ![s] = TRUE]
    /\ serviceSessions' = serviceSessions \cup {s}
    /\ manager' = manager \cup {s}
    /\ posted' = [posted EXCEPT ![s] = TRUE]
    /\ Unchanged /\ UNCHANGED <<toServer, toClient, batch, step, closing, players, current,
                     inRoom, raced, owner, roomVars>>

\* A receive completes with some of the packets that arrived.
ProcessRecv(s) ==
    /\ posted[s] /\ toServer[s] # <<>>
    /\ \E k \in 1..Len(toServer[s]) :
        /\ batch' = [batch EXCEPT ![s] = SubSeq(toServer[s], 1, k)]
        /\ toServer' = [toServer EXCEPT ![s] = SubSeq(@, k + 1, Len(@))]
    /\ posted' = [posted EXCEPT ![s] = FALSE]
    /\ raced' = [raced EXCEPT ![s] = @ \/ closing[s] # "no"]
    /\ Unchanged /\ UNCHANGED <<toClient, connected, step, closing, players, current, inRoom,
                     serverVars, roomVars>>

\* Nothing more will come: the receive ends with no bytes or with an error,
\* or a send of the session fails.
Disconnect(s) ==
    /\ s \in broken /\ connected[s]
    /\ connected' = [connected EXCEPT ![s] = FALSE]
    /\ closing' = [closing EXCEPT ![s] = "leave"]
    /\ Unchanged /\ UNCHANGED <<toServer, toClient, posted, batch, step, players, current,
                     inRoom, raced, serverVars, roomVars>>

Send(s, p) ==
    toClient' = IF connected[s] THEN [toClient EXCEPT ![s] = Append(@, p)] ELSE toClient

-----------------------------------------------------------------------------
(* The packet handlers; step counts the accesses of the session's members. *)

Handles(s, name, k) ==
    /\ batch[s] # <<>> /\ Head(batch[s]).name = name /\ step[s] = k

handlerFrame == <<posted, connected, closing, serviceSessions, manager, roomPlayers, targets>>

NextStep(s) == step' = [step EXCEPT ![s] = @ + 1] /\ UNCHANGED <<batch, toServer, posted>>

\* The handler returns; after the last packet of the batch the next receive is
\* posted, if the session is still connected.
Return(s) ==
    /\ step' = [step EXCEPT ![s] = 1]
    /\ batch' = [batch EXCEPT ![s] = Tail(@)]
    /\ posted' = [posted EXCEPT ![s] = Tail(batch[s]) = <<>> /\ connected[s]]
    /\ UNCHANGED toServer

Others == UNCHANGED <<connected, closing, serviceSessions, manager, roomPlayers, targets>>

\* Handle_C_LOGIN makes two players, whose ids come from one counter of all
\* sessions, and answers.
Handle_C_LOGIN_AddPlayer(s) ==
    /\ \E k \in 1..2 : Handles(s, "C_LOGIN", k)
    /\ owner' = Append(owner, s)
    /\ players' = [players EXCEPT ![s] = Append(@, Len(owner'))]
    /\ NextStep(s)
    /\ Unchanged /\ Others /\ UNCHANGED <<toClient, current, inRoom, raced, queueVars>>

Handle_C_LOGIN_Answer(s) ==
    /\ Handles(s, "C_LOGIN", 3)
    /\ Send(s, Packet("S_LOGIN"))
    /\ Return(s)
    /\ Unchanged /\ Others /\ UNCHANGED <<players, current, inRoom, raced, owner, queueVars>>

\* Handle_C_ENTER_GAME: the index is not validated, an index into an empty
\* vector is undefined.  It reads _currentPlayer twice after it has set it.
Handle_C_ENTER_GAME_Choose(s) ==
    /\ Handles(s, "C_ENTER_GAME", 1)
    /\ players[s] # <<>>
    /\ current' = [current EXCEPT ![s] = Head(players[s])]
    /\ inRoom' = [inRoom EXCEPT ![s] = TRUE]
    /\ NextStep(s)
    /\ Unchanged /\ Others /\ UNCHANGED <<toClient, players, raced, owner, queueVars>>

Handle_C_ENTER_GAME_Enter(s) ==
    /\ Handles(s, "C_ENTER_GAME", 2)
    /\ DoAsync(EnterJob(s, current[s]))
    /\ NextStep(s)
    /\ Unchanged /\ Others /\ UNCHANGED <<toClient, players, current, inRoom, raced, owner>>

Handle_C_ENTER_GAME_Answer(s) ==
    /\ Handles(s, "C_ENTER_GAME", 3)
    /\ current[s] # NoPlayer
    /\ Send(owner[current[s]], Packet("S_ENTER_GAME"))
    /\ Return(s)
    /\ Unchanged /\ Others /\ UNCHANGED <<players, current, inRoom, raced, owner, queueVars>>

\* Handle_C_CHAT does not ask whether the session has logged in.
Handle_C_CHAT(s) ==
    /\ Handles(s, "C_CHAT", 1)
    /\ DoAsync(BroadcastJob(s, Head(batch[s]).n))
    /\ Return(s)
    /\ Unchanged /\ Others /\ UNCHANGED <<toClient, players, current, inRoom, raced, owner>>

Handler(s) ==
    \/ Handle_C_LOGIN_AddPlayer(s) \/ Handle_C_LOGIN_Answer(s)
    \/ Handle_C_ENTER_GAME_Choose(s) \/ Handle_C_ENTER_GAME_Enter(s)
    \/ Handle_C_ENTER_GAME_Answer(s) \/ Handle_C_CHAT(s)

\* A mutant: the manager's lookup decides whether the player leaves, after the
\* session was removed from it.
OnDisconnected_LeaveForgotten(s) ==
    /\ closing[s] = "leave" /\ closing' = [closing EXCEPT ![s] = "clear"]
    /\ manager' = manager \ {s}
    /\ IF s \in manager' THEN DoAsync(LeaveJob(s, current[s])) ELSE UNCHANGED queueVars
    /\ raced' = [raced EXCEPT ![s] = @ \/ batch[s] # <<>>]
    /\ Unchanged /\ UNCHANGED <<toServer, toClient, connected, posted, batch, step, players,
                     current, inRoom, serviceSessions, owner, roomPlayers, targets>>

\* OnDisconnected, on whichever worker gets the completion: the manager
\* forgets the session, a player that is in the room is sent out of it ...
OnDisconnected_Leave(s) ==
    /\ closing[s] = "leave" /\ closing' = [closing EXCEPT ![s] = "clear"]
    /\ manager' = manager \ {s}
    /\ IF current[s] # NoPlayer /\ inRoom[s]
       THEN DoAsync(LeaveJob(s, current[s])) ELSE UNCHANGED queueVars
    /\ raced' = [raced EXCEPT ![s] = @ \/ batch[s] # <<>>]
    /\ Unchanged /\ UNCHANGED <<toServer, toClient, connected, posted, batch, step, players,
                     current, inRoom, serviceSessions, owner, roomPlayers, targets>>

\* ... and its players are dropped; then the service releases it.
OnDisconnected_Clear(s) ==
    /\ closing[s] = "clear" /\ closing' = [closing EXCEPT ![s] = "done"]
    /\ current' = [current EXCEPT ![s] = NoPlayer]
    /\ players' = [players EXCEPT ![s] = <<>>]
    /\ serviceSessions' = serviceSessions \ {s}
    /\ Unchanged /\ UNCHANGED <<toServer, toClient, connected, posted, batch, step, inRoom,
                     raced, manager, owner, roomVars>>

-----------------------------------------------------------------------------
(* The room.                                                               *)

roomFrame == <<clientVars, broken, toServer, sessionVars, serverVars>>

StartJob ==
    /\ Queue!Start(RoomQueue)
    /\ targets' = IF active'[RoomQueue].do = "Broadcast" THEN roomPlayers ELSE {}
    /\ UNCHANGED <<roomFrame, toClient, roomPlayers>>

Running(what) == active[RoomQueue].do = what
Job == active[RoomQueue]

Enter ==
    /\ Running("Enter") /\ Job.player # NoPlayer
    /\ roomPlayers' = roomPlayers \cup {Job.player}
    /\ Queue!Finish(RoomQueue)
    /\ UNCHANGED <<roomFrame, toClient, targets>>

Leave ==
    /\ Running("Leave")
    /\ roomPlayers' = roomPlayers \ {Job.player}
    /\ Queue!Finish(RoomQueue)
    /\ UNCHANGED <<roomFrame, toClient, targets>>

\* A mutant: the first session that is gone ends the broadcast.
BroadcastSendUntilGone ==
    /\ Running("Broadcast") /\ targets # {}
    /\ LET p == CHOOSE q \in targets : \A r \in targets : q <= r IN
       /\ Send(owner[p], [name |-> "S_CHAT", from |-> Job.from, n |-> Job.n])
       /\ targets' = IF connected[owner[p]] THEN targets \ {p} ELSE {}
    /\ UNCHANGED <<roomFrame, queueVars, roomPlayers>>

\* Broadcast goes through the map in the order of the ids.
BroadcastSend ==
    /\ Running("Broadcast") /\ targets # {}
    /\ LET p == CHOOSE q \in targets : \A r \in targets : q <= r IN
       /\ Send(owner[p], [name |-> "S_CHAT", from |-> Job.from, n |-> Job.n])
       /\ targets' = targets \ {p}
    /\ UNCHANGED <<roomFrame, queueVars, roomPlayers>>

BroadcastEnd ==
    /\ Running("Broadcast") /\ targets = {}
    /\ Queue!Finish(RoomQueue)
    /\ UNCHANGED <<roomFrame, toClient, roomPlayers, targets>>

Room == StartJob \/ Enter \/ Leave \/ BroadcastSend \/ BroadcastEnd

-----------------------------------------------------------------------------
\* What ends the server: an index into no players, a null player used by the
\* handler or by the room's Enter, and, as those members are not guarded, a
\* handler that uses them while OnDisconnected does.
MayCrash ==
    \/ \E s \in Sessions :
        \/ Handles(s, "C_ENTER_GAME", 1) /\ players[s] = <<>>
        \/ Handles(s, "C_ENTER_GAME", 3) /\ current[s] = NoPlayer
        \/ /\ closing[s] \in {"leave", "clear"} /\ batch[s] # <<>>
           /\ Head(batch[s]).name \in {"C_LOGIN", "C_ENTER_GAME"}
    \/ Running("Enter") /\ Job.player = NoPlayer

Crash ==
    /\ MayCrash /\ crashed' = TRUE
    /\ UNCHANGED <<clientVars, toServer, toClient, broken, sessionVars, serverVars, roomVars>>

Client(s) == ClientConnect(s) \/ ClientOnConnected(s) \/ ClientBroadcast(s) \/ ClientRecv(s)
Worker(s) ==
    \/ ProcessAccept(s) \/ ProcessRecv(s) \/ Disconnect(s) \/ Handler(s)
    \/ OnDisconnected_Leave(s) \/ OnDisconnected_Clear(s)

Next ==
    /\ ~crashed
    /\ \/ \E s \in Sessions : Client(s) \/ Break(s)
       \/ (\E s \in Sessions : Worker(s)) /\ UNCHANGED crashed
       \/ Room /\ UNCHANGED crashed
       \/ Crash

Spec == Init /\ [][Next]_vars

-----------------------------------------------------------------------------
TypeOK ==
    /\ current \in [Sessions -> 0..Len(owner)] /\ roomPlayers \subseteq 1..Len(owner)
    /\ targets \subseteq roomPlayers
    /\ \A s \in Sessions : seen[s] <= Len(toClient[s])
    /\ step \in [Sessions -> 1..3]
    /\ closing \in [Sessions -> {"no", "leave", "clear", "done"}]

RoomIdle == pending[RoomQueue] = <<>> /\ active[RoomQueue] = NoJob

\* When the room has done its jobs, the player of a session that is gone is
\* not in it any more, and one of a session that is not gone is, if it
\* entered; unless the disconnect overlapped with a handler of that session,
\* when Leave may be queued before Enter, or nobody may leave at all.
GoneSessionsLeave ==
    \A s \in Sessions :
        RoomIdle /\ ~raced[s] =>
            {p \in roomPlayers : owner[p] = s}
              = IF closing[s] \in {"no", "leave"} /\ current[s] # NoPlayer
                   /\ (batch[s] = <<>> \/ Head(batch[s]).name # "C_ENTER_GAME" \/ step[s] = 3)
                THEN {current[s]} ELSE {}

\* A client does not hear itself before it is told that it entered, although
\* its chats may be on their way before it has logged in.
OwnChatAfterEnter ==
    \A s \in Sessions : \A i \in 1..Len(toClient[s]) :
        toClient[s][i].name = "S_CHAT" /\ toClient[s][i].from = s =>
            \E j \in 1..i - 1 : toClient[s][j].name = "S_ENTER_GAME"

\* Nothing but such an overlap brings the server down.
OnlyRacesCrash == MayCrash => \E s \in Sessions : raced[s] \/ closing[s] = "leave"

RoomInv == TypeOK /\ GoneSessionsLeave /\ OwnChatAfterEnter /\ OnlyRacesCrash

\* The chats among the packets of q, in their order.
ChatsOf(q) ==
    LET f[i \in 0..Len(q)] ==
          IF i = 0 THEN <<>>
          ELSE IF q[i].name = "S_CHAT" THEN Append(f[i - 1], q[i]) ELSE f[i - 1]
    IN f[Len(q)]

\* The broadcast that is running has been said; a member it has not reached
\* hears it as soon as it is its turn.
HeardBy(s) ==
    ChatsOf(toClient[s])
      \o (IF \E p \in targets : owner[p] = s
          THEN <<[name |-> "S_CHAT", from |-> Job.from, n |-> Job.n]>> ELSE <<>>)

MembersNow == {owner[p] : p \in roomPlayers}
CutOff == {s \in Sessions : closing[s] # "no"}
HeardNow == [s \in Sessions |-> IF closing[s] # "no" THEN <<>> ELSE HeardBy(s)]

Chat == INSTANCE ChatRoom WITH
    Members <- Sessions,
    Messages <- [name : {"S_CHAT"}, from : Sessions, n : 1..MaxChats],
    members <- MembersNow, cut <- CutOff, heard <- HeardNow
RefinesChatRoom == Chat!Spec
=============================================================================
