---------------------------- MODULE LongCalcClient ----------------------------
(***************************************************************************)
(* The request client of the MFC programs, ASyncTCPClient: the user's      *)
(* thread starts and cancels requests and closes the client, one I/O       *)
(* thread runs the handlers, which take the cancel guard of their session  *)
(* and hold it until they return, the completion they call included.       *)
(***************************************************************************)
EXTENDS Naturals

CONSTANTS
    Requests,       \* the ids of the requests
    MaxCancels      \* bound: calls of cancelRequest

Nobody == "nobody"
Io == "io"
User == "user"

VARIABLES
    stage,          \* of each session: the operation that is pending, or the
                    \* part of its handler that runs
    result,         \* how the pending operation ended, "pending" before it has
    m_was_cancelled, m_ec, m_response,
    m_active_sessions,
    activeGuard,    \* who holds m_active_sessions_guard
    cancelGuard,    \* who holds the m_cancel_guard of each session
    cancelling,     \* the requests that cancelRequest is looking for
    cancels,
    closing,        \* close has destroyed the work object
    erred,          \* history: an operation of the session failed
    called          \* the calls of m_callback: [id, ec, response]

guards == <<activeGuard, cancelGuard>>
userVars == <<cancelling, cancels, closing>>
vars == <<stage, result, m_was_cancelled, m_ec, m_response, m_active_sessions,
          guards, userVars, erred, called>>

Init ==
    /\ stage = [s \in Requests |-> "new"] /\ result = [s \in Requests |-> "pending"]
    /\ m_was_cancelled = [s \in Requests |-> FALSE]
    /\ m_ec = [s \in Requests |-> "success"] /\ m_response = [s \in Requests |-> ""]
    /\ m_active_sessions = {}
    /\ activeGuard = Nobody /\ cancelGuard = [s \in Requests |-> Nobody]
    /\ cancelling = {} /\ cancels = 0 /\ closing = FALSE
    /\ erred = {} /\ called = {}

-----------------------------------------------------------------------------
(* The user's calls.                                                       *)

UserFree == cancelling = {} /\ ~closing

emulateLongComputationOp(s) ==
    /\ UserFree /\ stage[s] = "new" /\ activeGuard = Nobody
    /\ m_active_sessions' = m_active_sessions \cup {s}
    /\ stage' = [stage EXCEPT ![s] = "connect"]
    /\ UNCHANGED <<result, m_was_cancelled, m_ec, m_response, guards, userVars, erred, called>>

\* cancelRequest takes one guard; a session it finds has the other one.
cancelRequest_Find(s) ==
    /\ UserFree /\ activeGuard = Nobody /\ cancels < MaxCancels
    /\ cancels' = cancels + 1
    /\ IF s \in m_active_sessions
       THEN cancelling' = {s} /\ activeGuard' = User
       ELSE UNCHANGED <<cancelling, activeGuard>>
    /\ UNCHANGED <<stage, result, m_was_cancelled, m_ec, m_response, m_active_sessions,
                   cancelGuard, closing, erred, called>>

Operations == {"connect", "write", "read"}

cancelRequest_Cancel(s) ==
    /\ s \in cancelling /\ cancelGuard[s] = Nobody
    /\ m_was_cancelled' = [m_was_cancelled EXCEPT ![s] = TRUE]
    /\ IF stage[s] \in Operations /\ result[s] = "pending"
       THEN result' = [result EXCEPT ![s] = "aborted"] /\ erred' = erred \cup {s}
       ELSE UNCHANGED <<result, erred>>
    /\ cancelling' = {} /\ activeGuard' = Nobody
    /\ UNCHANGED <<stage, m_ec, m_response, m_active_sessions, cancelGuard, cancels,
                   closing, called>>

close ==
    /\ UserFree /\ closing' = TRUE
    /\ UNCHANGED <<stage, result, m_was_cancelled, m_ec, m_response, m_active_sessions,
                   guards, cancelling, cancels, erred, called>>

-----------------------------------------------------------------------------
(* The I/O thread: one handler at a time.                                  *)

InHandler == {"connected", "written", "complete", "callback"}
IoFree == \A s \in Requests : stage[s] \notin InHandler

\* The operation ends; a read that succeeds has left the line in m_response_buf.
Ends(s) ==
    /\ stage[s] \in Operations /\ result[s] = "pending"
    /\ \E code \in {"success", "error"} :
        /\ result' = [result EXCEPT ![s] = code]
        /\ erred' = IF code = "error" THEN erred \cup {s} ELSE erred
    /\ UNCHANGED <<stage, m_was_cancelled, m_ec, m_response, m_active_sessions, guards,
                   userVars, called>>

Goto(s, next) == stage' = [stage EXCEPT ![s] = next]
frame == <<m_was_cancelled, m_active_sessions, activeGuard, userVars, erred, called>>

\* The handlers of async_connect and async_write: an error completes the
\* request; else the cancel guard is taken.
OnOperation(s, op, next) ==
    /\ IoFree /\ stage[s] = op /\ result[s] # "pending"
    /\ IF result[s] # "success"
       THEN /\ m_ec' = [m_ec EXCEPT ![s] = result[s]]
            /\ Goto(s, "complete") /\ UNCHANGED <<result, cancelGuard>>
       ELSE /\ cancelGuard[s] = Nobody
            /\ cancelGuard' = [cancelGuard EXCEPT ![s] = Io]
            /\ result' = [result EXCEPT ![s] = "pending"]
            /\ Goto(s, next) /\ UNCHANGED m_ec
    /\ UNCHANGED <<m_response, frame>>

\* Under the guard: complete a cancelled request, or start the next operation.
Go(s, from, op) ==
    /\ stage[s] = from
    /\ IF m_was_cancelled[s] THEN Goto(s, "complete") /\ UNCHANGED cancelGuard
       ELSE Goto(s, op) /\ cancelGuard' = [cancelGuard EXCEPT ![s] = Nobody]
    /\ UNCHANGED <<result, m_ec, m_response, frame>>

\* The handler of async_read_until; what has arrived before an error is taken
\* for the line.
OnRead(s) ==
    /\ IoFree /\ stage[s] = "read" /\ result[s] # "pending"
    /\ IF result[s] = "success"
       THEN m_ec' = [m_ec EXCEPT ![s] = result[s]] /\ UNCHANGED m_response
       ELSE /\ \E text \in {"", "part"} : m_response' = [m_response EXCEPT ![s] = text]
            /\ UNCHANGED m_ec
    /\ Goto(s, "complete")
    /\ UNCHANGED <<result, cancelGuard, frame>>

\* onRequestComplete, and the return of the handler that called it.
onRequestComplete(s) ==
    /\ stage[s] = "complete" /\ activeGuard = Nobody
    /\ m_active_sessions' = m_active_sessions \ {s}
    /\ Goto(s, "callback")
    /\ UNCHANGED <<result, m_was_cancelled, m_ec, m_response, guards, userVars, erred, called>>

onRequestComplete_Callback(s) ==
    /\ stage[s] = "callback"
    /\ called' = called \cup {[id |-> s, response |-> m_response[s],
            ec |-> IF m_ec[s] # "success" /\ m_was_cancelled[s] THEN "aborted" ELSE m_ec[s]]}
    /\ cancelGuard' = [cancelGuard EXCEPT ![s] = Nobody]
    /\ Goto(s, "done")
    /\ UNCHANGED <<result, m_was_cancelled, m_ec, m_response, m_active_sessions,
                   activeGuard, userVars, erred>>

Next ==
    \/ close
    \/ \E s \in Requests :
        \/ emulateLongComputationOp(s) \/ cancelRequest_Find(s) \/ cancelRequest_Cancel(s)
        \/ Ends(s)
        \/ OnOperation(s, "connect", "connected") \/ Go(s, "connected", "write")
        \/ OnOperation(s, "write", "written") \/ Go(s, "written", "read")
        \/ OnRead(s) \/ onRequestComplete(s) \/ onRequestComplete_Callback(s)

Spec == Init /\ [][Next]_vars

-----------------------------------------------------------------------------
\* A request one of whose operations failed is called back with an error: m_ec
\* "contains the description of an error if one occurs during the request
\* life cycle" (ASyncTCPClient.h:53).
ErrorsReported == \A c \in called : c.id \in erred => c.ec # "success"
=============================================================================
