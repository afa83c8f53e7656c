------------------------------ MODULE CotreeRpc ------------------------------
(***************************************************************************)
(* The boost.asio request/response client (test/Session, AsyncTcpClient),  *)
(* the loader that uses it (test/dataloading) and the data server          *)
(* (Acceptor, Service).  One session carries one request.  Its handlers    *)
(* are chained, so they never overlap each other; the read timer's handler *)
(* and do_cancel, which run on other threads, may fall between any two     *)
(* steps.  A handler therefore is several steps: it tests the flags, and   *)
(* later starts its next operation, or calls the user back and then leaves *)
(* the map.                                                                *)
(***************************************************************************)
EXTENDS CotreeMessages, Sequences, FiniteSets

CONSTANTS
    Sessions,      \* ids of the sessions, numbered in the order they are created
    shape,         \* the request of each session
    Peers,         \* who may be listening: "service", "cotree2", "coconut"
    MaxUpsets      \* bound on cancel calls, broken connections and server stops

ASSUME RpcAssumption ==
    /\ Sessions \subseteq Nat \ {0}
    /\ shape \in [Sessions -> RequestShape]
    /\ Peers \subseteq {"service", "cotree2", "coconut"}
    /\ MaxUpsets \in Nat

VARIABLES
    \* client: AsyncTcpClient and FirstDataLoader
    loader,        \* "sending", "joining" or "merged"
    active,        \* m_active_sessions
    cancelQ,       \* sessions a cancel call, holding m_active_sessions_guard, has left
    flagged,       \* of those, the one whose m_was_cancelled it has just set, or 0
    late,          \* history: sessions whose last handler had tested the flag before
    loaded,        \* sessions whose rows OnRequestSelectPolylineNew took over
    \* client: Session
    stage,         \* the operation pending, or what the handler does next
    ec,            \* how the pending operation ended, "none" while it has not;
                   \* once the last handler has run, what m_callback is told
    cancelled,     \* m_was_cancelled
    readTimeout,   \* m_read_timeout
    timer,         \* m_async_read_timer: "off", "armed", or "due" (its handler is queued)
    arming,        \* on_write_request has begun the read and not yet set the timer
    header,        \* m_response_header
    outcome,       \* the calls of m_callback, in order: whether without an error
    \* the connection and the server
    peer,          \* who listens at the client's endpoint
    up,            \* the server's io_service runs
    service,       \* where the Service of the connection is
    reply,         \* the id of its response, "Res_Other" for one of another server
    wire,          \* headers sent to the client and not read by it, NoHeader is its end
    sent,          \* sessions whose request has been written
    upsets

clientVars == <<loader, active, cancelQ, flagged, late, loaded>>
sessionVars == <<stage, ec, cancelled, readTimeout, timer, arming, header, outcome>>
serverVars == <<up, service, reply, wire, sent>>
peerVars == <<peer, serverVars, upsets>>
vars == <<clientVars, sessionVars, peerVars>>

Pending == {"connect", "write", "header", "body"}
NoHeader == [id |-> NONE, bodySize |-> 0]
Cotree2Header == [id |-> "Res_Other", bodySize |-> 1]

\* What MsgHeader::IsValid lets through: an id below eNetID::Max, with a class
\* of the client or without one, and a body of less than this many bytes.
NetIds == RequestIds \cup ResponseIds \cup {NONE, "Res_Unknown"}
MaxBodySize == 100 * 1024 * 1024

Init ==
    /\ loader = "sending" /\ active = {} /\ cancelQ = {} /\ flagged = 0
    /\ late = {} /\ loaded = {}
    /\ stage = [s \in Sessions |-> "new"]
    /\ ec = [s \in Sessions |-> "none"]
    /\ cancelled = [s \in Sessions |-> FALSE]
    /\ readTimeout = [s \in Sessions |-> FALSE]
    /\ timer = [s \in Sessions |-> "off"]
    /\ arming = [s \in Sessions |-> FALSE]
    /\ header = [s \in Sessions |-> NoHeader]
    /\ outcome = [s \in Sessions |-> <<>>]
    /\ peer \in Peers
    /\ up = TRUE
    /\ service = [s \in Sessions |-> "none"]
    /\ reply = [s \in Sessions |-> NONE]
    /\ wire = [s \in Sessions |-> <<>>]
    /\ sent = {}
    /\ upsets = 0

-----------------------------------------------------------------------------
(* The client's calls.                                                     *)

GuardFree == cancelQ = {}

\* send_request: the session enters the map before it connects.
SendRequest(s) ==
    /\ loader = "sending" /\ GuardFree
    /\ stage[s] = "new" /\ \A q \in Sessions : q < s => stage[q] # "new"
    /\ active' = active \cup {s}
    /\ stage' = [stage EXCEPT ![s] = "connect"]
    /\ UNCHANGED <<loader, cancelQ, flagged, late, loaded, ec, cancelled,
                   readTimeout, timer, arming, header, outcome, peerVars>>

\* A handler that tests m_was_cancelled is still to come.
Testable(s) == stage[s] \in Pending \cup {"startWrite", "startHeader", "startBody"}

\* cancel_request of one session, or cancel_all, takes the guard ...
Cancel(S) ==
    /\ upsets < MaxUpsets /\ upsets' = upsets + 1
    /\ GuardFree /\ S # {} /\ S \subseteq active
    /\ S = active \/ Cardinality(S) = 1
    /\ cancelQ' = S
    /\ UNCHANGED <<loader, active, flagged, late, loaded, sessionVars, peer, serverVars>>

\* ... and for each sets the flag, then cancels what is pending.
CancelFlag(s) ==
    /\ s \in cancelQ /\ flagged = 0
    /\ flagged' = s
    /\ cancelled' = [cancelled EXCEPT ![s] = TRUE]
    /\ late' = IF cancelled[s] \/ Testable(s) THEN late ELSE late \cup {s}
    /\ UNCHANGED <<loader, active, cancelQ, loaded, stage, ec, readTimeout,
                   timer, arming, header, outcome, peerVars>>

\* m_sock.cancel: what is pending ends with operation_aborted, except that a
\* connect may go on with the next endpoint.
SockCancel(s) ==
    IF stage[s] \in Pending /\ ec[s] = "none"
    THEN \/ ec' = [ec EXCEPT ![s] = "aborted"]
         \/ stage[s] = "connect" /\ UNCHANGED ec
    ELSE UNCHANGED ec

CancelSock(s) ==
    /\ flagged = s /\ flagged' = 0
    /\ cancelQ' = cancelQ \ {s}
    /\ SockCancel(s)
    /\ UNCHANGED <<loader, active, late, loaded, stage, cancelled, readTimeout,
                   timer, arming, header, outcome, peerVars>>

\* The loader has sent its last request and calls join_all, which deletes the
\* work object; the threads return when nothing is outstanding.
JoinAll ==
    /\ loader = "sending" /\ \A s \in Sessions : stage[s] # "new"
    /\ loader' = "joining"
    /\ UNCHANGED <<active, cancelQ, flagged, late, loaded, sessionVars, peerVars>>

Outstanding(s) == stage[s] # "done" \/ timer[s] # "off" \/ arming[s]

Merge ==
    /\ loader = "joining" /\ GuardFree
    /\ \A s \in Sessions : ~Outstanding(s)
    /\ loader' = "merged"
    /\ UNCHANGED <<active, cancelQ, flagged, late, loaded, sessionVars, peerVars>>

-----------------------------------------------------------------------------
(* The session's handlers.                                                 *)

\* The handler of operation op runs: it has the code of the operation.
Handler(s, op) ==
    /\ stage[s] = op /\ ec[s] # "none"
    /\ UNCHANGED <<clientVars, cancelled, readTimeout, arming, header, outcome, peerVars>>

Proceed(s, next) ==
    /\ stage' = [stage EXCEPT ![s] = next]
    /\ ec' = [ec EXCEPT ![s] = "none"]

\* The handler is the last one and has decided what to report; what it still
\* does, the response it makes and reads included, comes after its tests.
Complete(s, code) ==
    /\ stage' = [stage EXCEPT ![s] = "calling"]
    /\ ec' = [ec EXCEPT ![s] = code]

\* onRequsetComplete shuts the socket down (what is on its way is not read any
\* more) and calls the user back, who takes the rows of the one response he
\* knows.
Callback(s) ==
    /\ stage[s] = "calling"
    /\ stage' = [stage EXCEPT ![s] = "ending"]
    /\ ec' = [ec EXCEPT ![s] = "none"]
    /\ wire' = [wire EXCEPT ![s] = <<>>]
    /\ outcome' = [outcome EXCEPT ![s] = Append(@, ec[s] = "ok")]
    /\ loaded' = IF ec[s] = "ok" /\ header[s].id = ResponseOf(shape[s].id)
                 THEN loaded \cup {s} ELSE loaded
    /\ UNCHANGED <<loader, active, cancelQ, flagged, late, cancelled, readTimeout, timer,
                   arming, header, peer, up, service, reply, sent, upsets>>

\* on_end_session takes the guard; what the session read goes with it.
EndSession(s) ==
    /\ stage[s] = "ending" /\ GuardFree
    /\ active' = active \ {s}
    /\ stage' = [stage EXCEPT ![s] = "done"]
    /\ header' = [header EXCEPT ![s] = NoHeader]
    /\ UNCHANGED <<loader, cancelQ, flagged, late, loaded, ec, cancelled,
                   readTimeout, timer, arming, outcome, peerVars>>

\* on_connect tests only the error, do_process only the flag.
OnConnect(s) ==
    /\ Handler(s, "connect")
    /\ IF ec[s] # "ok" THEN Complete(s, ec[s])
       ELSE IF cancelled[s] THEN Complete(s, "UserCanceled")
       ELSE Proceed(s, "startWrite")
    /\ UNCHANGED timer

OnWriteRequest(s) ==
    /\ Handler(s, "write")
    /\ IF cancelled[s] THEN Complete(s, "UserCanceled")
       ELSE IF ec[s] # "ok" THEN Complete(s, ec[s])
       ELSE Proceed(s, "startHeader")
    /\ UNCHANGED timer

IsValid(h) == h.id \in NetIds /\ 0 < h.bodySize /\ h.bodySize < MaxBodySize

\* The timer is cancelled first; a handler of it that is queued still runs.
OnReadHeader(s) ==
    /\ Handler(s, "header")
    /\ timer' = IF timer[s] = "armed" THEN [timer EXCEPT ![s] = "off"] ELSE timer
    /\ IF readTimeout[s] THEN Complete(s, "ReadTimeOut")
       ELSE IF cancelled[s] THEN Complete(s, "UserCanceled")
       ELSE IF ec[s] # "ok" THEN Complete(s, ec[s])
       ELSE IF ~IsValid(header[s]) THEN Complete(s, "MsgHeaderInvalid")
       ELSE Proceed(s, "startBody")

\* A bug for comparison: the flags are tested only when the header is read.
OnReadBodyUnchecked(s) ==
    /\ Handler(s, "body")
    /\ IF ec[s] # "ok" THEN Complete(s, ec[s])
       ELSE IF header[s].id \notin ResponseIds THEN Complete(s, "ResponseCreateFail")
       ELSE Complete(s, "ok")
    /\ UNCHANGED timer

OnReadBody(s) ==
    /\ Handler(s, "body")
    /\ IF readTimeout[s] THEN Complete(s, "ReadTimeOut")
       ELSE IF cancelled[s] THEN Complete(s, "UserCanceled")
       ELSE IF ec[s] # "ok" THEN Complete(s, ec[s])
       ELSE IF header[s].id \notin ResponseIds THEN Complete(s, "ResponseCreateFail")
       ELSE Complete(s, "ok")
    /\ UNCHANGED timer

\* The flags have been tested; now the next operation is started.
Start(s, from, op) ==
    /\ stage[s] = from
    /\ stage' = [stage EXCEPT ![s] = op]
    /\ UNCHANGED <<clientVars, ec, cancelled, readTimeout, timer, header,
                   outcome, peerVars>>

StartWrite(s) == Start(s, "startWrite", "write") /\ UNCHANGED arming
StartBody(s) == Start(s, "startBody", "body") /\ UNCHANGED arming

\* on_write_request starts the read before it sets the timer.
StartHeader(s) ==
    /\ Start(s, "startHeader", "header")
    /\ arming' = [arming EXCEPT ![s] = TRUE]

ArmTimer(s) ==
    /\ arming[s]
    /\ arming' = [arming EXCEPT ![s] = FALSE]
    /\ timer' = [timer EXCEPT ![s] = "armed"]
    /\ UNCHANGED <<clientVars, stage, ec, cancelled, readTimeout, header,
                   outcome, peerVars>>

TimerExpires(s) ==
    /\ timer[s] = "armed"
    /\ timer' = [timer EXCEPT ![s] = "due"]
    /\ UNCHANGED <<clientVars, stage, ec, cancelled, readTimeout, arming,
                   header, outcome, peerVars>>

\* Bugs for comparison: the timer's handler reports to the user itself, and
\* it waits once more instead of cancelling the read.
OnReadTimeoutReporting(s) ==
    /\ timer[s] = "due"
    /\ timer' = [timer EXCEPT ![s] = "off"]
    /\ readTimeout' = [readTimeout EXCEPT ![s] = TRUE]
    /\ SockCancel(s)
    /\ outcome' = [outcome EXCEPT ![s] = Append(@, FALSE)]
    /\ UNCHANGED <<clientVars, stage, cancelled, arming, header, peerVars>>

OnReadTimeoutWaiting(s) ==
    /\ timer[s] = "due"
    /\ timer' = [timer EXCEPT ![s] = "armed"]
    /\ readTimeout' = [readTimeout EXCEPT ![s] = TRUE]
    /\ UNCHANGED <<clientVars, stage, ec, cancelled, arming, header, outcome, peerVars>>

OnReadTimeout(s) ==
    /\ timer[s] = "due"
    /\ timer' = [timer EXCEPT ![s] = "off"]
    /\ readTimeout' = [readTimeout EXCEPT ![s] = TRUE]
    /\ SockCancel(s)
    /\ UNCHANGED <<clientVars, stage, cancelled, arming, header, outcome, peerVars>>

-----------------------------------------------------------------------------
(* The connection.                                                         *)

Shut(s) == stage[s] \in {"ending", "done"}

\* The pending operation of s ends with code.
Ends(s, op, code) ==
    /\ stage[s] = op /\ ec[s] = "none"
    /\ ec' = [ec EXCEPT ![s] = code]
    /\ UNCHANGED <<clientVars, stage, cancelled, readTimeout, timer, arming,
                   outcome, peer, up, reply>>

Connected(s) ==
    /\ Ends(s, "connect", IF up THEN "ok" ELSE "error")
    /\ UNCHANGED <<header, service, wire, sent, upsets>>

Written(s) ==
    /\ Ends(s, "write", "ok")
    /\ sent' = sent \cup {s}
    /\ UNCHANGED <<header, service, wire, upsets>>

\* What the answer of the data server the loader is meant for may be: rows, an
\* error, an id the client has no class for, or more bytes than it takes.
Cotree2Headers(s) ==
    [id : {ResponseOf(shape[s].id), "Res_Error", "Res_Unknown"}, bodySize : {1}]
    \cup {[id |-> ResponseOf(shape[s].id), bodySize |-> MaxBodySize]}

\* A header is read; a connection that ended before it is end_of_file.
HeaderRead(s) ==
    /\ wire[s] # <<>>
    /\ LET h == Head(wire[s]) IN
       IF h = NoHeader
       THEN Ends(s, "header", "error") /\ UNCHANGED <<header, wire>>
       ELSE /\ Ends(s, "header", "ok")
            /\ \E hdr \in IF h = Cotree2Header THEN Cotree2Headers(s) ELSE {h} :
                header' = [header EXCEPT ![s] = hdr]
            /\ wire' = [wire EXCEPT ![s] = Tail(@)]
    /\ UNCHANGED <<service, sent, upsets>>

\* The body came with the header.
BodyRead(s) == Ends(s, "body", "ok") /\ UNCHANGED <<header, service, wire, sent, upsets>>

\* The connection breaks under an operation of the client.
Breaks(s) ==
    /\ upsets < MaxUpsets
    /\ \E op \in Pending : Ends(s, op, "error")
    /\ upsets' = upsets + 1
    /\ UNCHANGED <<header, service, wire, sent>>

-----------------------------------------------------------------------------
(* The server.                                                             *)

serverFrame == <<clientVars, sessionVars, peer, upsets>>

\* on_accept runs the service and accepts the next: m_isStopped is never set.
OnAccept(s) ==
    /\ up /\ peer = "service" /\ service[s] = "none"
    /\ stage[s] # "new" /\ ~(stage[s] = "connect" /\ ec[s] # "ok")
    /\ service' = [service EXCEPT ![s] = "header"]
    /\ UNCHANGED <<serverFrame, up, reply, wire, sent>>

\* The client left before it sent its request: on_read_request_header returns.
RequestNotRead(s) ==
    /\ up /\ service[s] = "header" /\ Shut(s) /\ s \notin sent
    /\ service' = [service EXCEPT ![s] = "gone"]
    /\ UNCHANGED <<serverFrame, up, reply, wire, sent>>

\* send_response does not serialise the response (save_to is commented out),
\* so its header announces no body; on_write_response shuts the socket down.
SendResponse(s, id) ==
    /\ reply' = [reply EXCEPT ![s] = id]
    /\ wire' = IF Shut(s) THEN wire
               ELSE [wire EXCEPT ![s] = <<[id |-> id, bodySize |-> 0], NoHeader>>]
    /\ service' = [service EXCEPT ![s] = "gone"]

\* Header and body of a request come together.  on_read_request_body: request,
\* worker and response are made in turn, and the first that cannot be is
\* answered with an error.
OnReadRequest(s, dbOk) ==
    /\ up /\ service[s] = "header" /\ s \in sent
    /\ LET id == CreateRequest(shape[s].id)
           worker == CreateWorker(id)
           response == Processing(shape[s], dbOk)
       IN IF id = NONE \/ worker = NONE
             \/ response = NONE
          THEN SendResponse(s, "Res_Error")
          ELSE SendResponse(s, response)
    /\ UNCHANGED <<serverFrame, up, sent>>

\* stop_server: the io_service stops, no handler runs any more, and with the
\* process every connection that was not answered ends.  A client that talks to
\* another server does not notice.
StopServer ==
    /\ up /\ peer = "service" /\ up' = FALSE
    /\ upsets < MaxUpsets /\ upsets' = upsets + 1
    /\ wire' = [s \in Sessions |-> IF service[s] # "gone" /\ ~Shut(s)
                                   THEN Append(wire[s], NoHeader) ELSE wire[s]]
    /\ UNCHANGED <<clientVars, sessionVars, peer, service, reply, sent>>

\* The data server the loader is meant for answers with a header and a whole
\* body (what is in them shows when they are read).  A coconut tree never answers.
Cotree2Answers(s) ==
    /\ peer = "cotree2" /\ s \in sent /\ reply[s] = NONE /\ ~Shut(s)
    /\ reply' = [reply EXCEPT ![s] = Cotree2Header.id]
    /\ wire' = [wire EXCEPT ![s] = <<Cotree2Header, NoHeader>>]
    /\ UNCHANGED <<serverFrame, up, service, sent>>

-----------------------------------------------------------------------------
ClientStep(s) ==
    \/ OnConnect(s) \/ StartWrite(s) \/ OnWriteRequest(s) \/ StartHeader(s)
    \/ ArmTimer(s) \/ OnReadHeader(s) \/ StartBody(s) \/ OnReadBody(s)
    \/ Callback(s) \/ EndSession(s)
    \/ OnReadTimeout(s) \/ CancelFlag(s) \/ CancelSock(s)

NetStep(s) == Connected(s) \/ Written(s) \/ HeaderRead(s) \/ BodyRead(s)

ServerStep(s) ==
    \/ OnAccept(s) \/ RequestNotRead(s)
    \/ \E dbOk \in BOOLEAN : OnReadRequest(s, dbOk)
    \/ Cotree2Answers(s)

Loader == (\E s \in Sessions : SendRequest(s)) \/ JoinAll \/ Merge

Done == loader = "merged" /\ UNCHANGED vars

Next ==
    \/ Loader
    \/ \E s \in Sessions :
        ClientStep(s) \/ NetStep(s) \/ ServerStep(s) \/ TimerExpires(s) \/ Breaks(s)
    \/ \E S \in SUBSET Sessions : Cancel(S)
    \/ StopServer
    \/ Done

\* Threads run their handlers, operations that can end do, the answering
\* servers answer, and time passes.  Nobody is made to cancel or to fail.
Fairness ==
    /\ WF_vars(Loader)
    /\ \A s \in Sessions :
        /\ WF_vars(ClientStep(s)) /\ WF_vars(NetStep(s))
        /\ WF_vars(ServerStep(s)) /\ WF_vars(TimerExpires(s))

Spec == Init /\ [][Next]_vars /\ Fairness

-----------------------------------------------------------------------------
TypeOK ==
    /\ loader \in {"sending", "joining", "merged"}
    /\ active \subseteq Sessions /\ cancelQ \subseteq Sessions
    /\ flagged \in cancelQ \cup {0}
    /\ late \subseteq Sessions /\ loaded \subseteq Sessions
    /\ stage \in [Sessions -> Pending \cup
            {"new", "startWrite", "startHeader", "startBody",
             "calling", "ending", "done"}]
    /\ ec \in [Sessions -> {"none", "ok", "aborted", "error", "UserCanceled",
            "ReadTimeOut", "MsgHeaderInvalid", "ResponseCreateFail"}]
    /\ timer \in [Sessions -> {"off", "armed", "due"}]
    /\ cancelled \in [Sessions -> BOOLEAN] /\ readTimeout \in [Sessions -> BOOLEAN]
    /\ arming \in [Sessions -> BOOLEAN]
    /\ upsets \in 0..MaxUpsets

\* Each request is called back exactly once, before its session leaves the
\* map: a session is in the map from send_request to on_end_session.
CalledBackOnce ==
    \A s \in Sessions :
        /\ Len(outcome[s]) = IF Shut(s) THEN 1 ELSE 0
        /\ s \in active <=> stage[s] \notin {"new", "done"}

\* The server answers with the rows of the table asked for, in the units of
\* the request's ellipsoid, or with an error.
ServerAnswers ==
    \A s \in Sessions :
        service[s] = "gone" /\ reply[s] \notin {NONE, "Res_Error"} =>
            /\ shape[s].id \notin {"Nodes_Area", "Nodes_Mapid",
                                   "PassInfos_Area", "PassInfos_Mapid"}
            /\ reply[s] = ResponseOf(shape[s].id)
            /\ LET query == WorkerQuery(shape[s]) IN
               /\ query.text = "real" => shape[s].grs80
               /\ query = NoQuery => shape[s].id = "Welcome"

\* Merging starts when every request was called back, and no handler that
\* could still use the loader or the client is left (test/dataloading.cpp:32).
RpcInv ==
    /\ TypeOK
    /\ CalledBackOnce
    /\ ServerAnswers
    /\ loader = "merged" =>
        active = {} /\ \A s \in Sessions : Len(outcome[s]) = 1 /\ timer[s] = "off"

\* A cancel that falls between a test of m_was_cancelled and the start of the
\* next operation finds nothing to abort, and still is not lost: as long as a
\* handler is to come, the request is never called back with success and its
\* rows are never taken.  After the last test (test/Session.cpp:154) a cancel
\* comes too late; the request may then be answered.
CancelInTime ==
    \A s \in Sessions :
        cancelled[s] /\ s \notin late => outcome[s] # <<TRUE>> /\ s \notin loaded

\* join_all returns: every request ends, by an answer, an error, or by the
\* read timer when a coconut tree is listening (test/Session.cpp:107).
LoadEnds == <>(loader = "merged")
=============================================================================
