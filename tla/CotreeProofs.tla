----------------------------- MODULE CotreeProofs -----------------------------
(***************************************************************************)
(* Proofs about the data server's client and its messages.                 *)
(* CotreeRpc: for any sessions and any requests, whoever is listening,     *)
(* each request is called back exactly once while its session is in the    *)
(* map, the service answers with what was asked for, and nothing is        *)
(* outstanding when the loader merges; a request that was cancelled while  *)
(* a test of the flag was still to come is not called back with success.   *)
(* CotreeArchive: a message of any class with any number of rows and       *)
(* elements is read as it was written.  What the recursive functions give  *)
(* is shown by induction over the number of pieces of the archive.         *)
(***************************************************************************)
EXTENDS CotreeRpc, CotreeArchive, SequenceTheorems, WellFoundedInduction, TLAPS

USE RpcAssumption

Stages == Pending \cup {"new", "startWrite", "startHeader", "startBody",
                         "calling", "ending", "done"}
Codes == {"none", "ok", "aborted", "error", "UserCanceled",
          "ReadTimeOut", "MsgHeaderInvalid", "ResponseCreateFail"}

\* What TypeOK leaves open.
FieldInv ==
    /\ outcome \in [Sessions -> Seq(BOOLEAN)]
    /\ service \in [Sessions -> {"none", "header", "gone"}]
    /\ reply = [s \in Sessions |-> reply[s]]

\* Only the service of this program accepts, and it answers once.
ServiceInv ==
    \A s \in Sessions :
        /\ peer # "service" => service[s] = "none"
        /\ peer = "service" /\ service[s] # "gone" => reply[s] = NONE

\* The threads have returned: nothing is left that could run a handler.
MergedInv == loader = "merged" => \A s \in Sessions : ~Outstanding(s)

\* A request that was cancelled in time is on its way to a callback without
\* success, or has had it; rows are taken in a callback with success only.
CancelInv ==
    /\ \A s \in Sessions : cancelled[s] /\ s \notin late =>
            /\ stage[s] # "new"
            /\ stage[s] = "calling" => ec[s] # "ok"
            /\ outcome[s] # <<TRUE>>
    /\ \A s \in loaded : outcome[s] = <<TRUE>>

\* The inductive invariant.
RpcIInv ==
    /\ TypeOK /\ FieldInv /\ CalledBackOnce
    /\ ServerAnswers /\ ServiceInv /\ MergedInv /\ CancelInv

\* The steps by what they change.
HandlerStep(s) == OnConnect(s) \/ OnWriteRequest(s) \/ OnReadHeader(s) \/ OnReadBody(s)
StartStep(s) == StartWrite(s) \/ StartHeader(s) \/ StartBody(s)
TimerStep(s) == ArmTimer(s) \/ TimerExpires(s) \/ OnReadTimeout(s)
EndsStep(s) == NetStep(s) \/ Breaks(s)
LoaderStep == JoinAll \/ Merge

-----------------------------------------------------------------------------
\* The service asks the table that goes with the request, in the units of its
\* ellipsoid, and answers with the response that goes with it.
LEMMA WorkerAnswers ==
    ASSUME NEW r \in RequestShape, NEW dbOk \in BOOLEAN,
           CreateWorker(CreateRequest(r.id)) # NONE, Processing(r, dbOk) # NONE
    PROVE  /\ r.id \notin {"Nodes_Area", "Nodes_Mapid", "PassInfos_Area", "PassInfos_Mapid"}
           /\ Processing(r, dbOk) = ResponseOf(r.id)
           /\ WorkerQuery(r).text = "real" => r.grs80
           /\ WorkerQuery(r) = NoQuery => r.id = "Welcome"
  <1>1. r.id \in RequestIds
    BY DEF RequestShape
  <1>2. r.id \in {"Welcome", "Polylines_Area", "Polylines_Mapid", "Polygons_Area",
                  "Polygons_Mapid", "Links_Area", "Links_Mapid", "Polygon3DInfos",
                  "Height3DInfos"}
    BY <1>1 DEF CreateWorker, CreateRequest, NONE
  <1>3. Processing(r, dbOk) = WorkerResponse(r.id)
        /\ (WorkerQuery(r) = NoQuery => r.id = "Welcome")
    BY DEF Processing
  <1>4. WorkerResponse(r.id) = ResponseOf(r.id)
    BY <1>2 DEF WorkerResponse, ResponseOf
  <1>5. AreaText(r) = "real" => r.grs80
    BY DEF AreaText, RequestShape
  <1>6. WorkerQuery(r).text \in {AreaText(r), "mapid", NONE}
    BY <1>2 DEF WorkerQuery, PolylineAreaQuery, PolylineMapidQuery, PolygonAreaQuery,
        PolygonMapidQuery, LinkAreaQuery, LinkMapidQuery, PGInfoFor3DQuery,
        HeightInfoFor3DQuery, NoQuery, Query
  <1>7. QED
    BY <1>2, <1>3, <1>4, <1>5, <1>6 DEF NONE

-----------------------------------------------------------------------------
\* A handler either goes on with the next operation or has the callback still
\* to make, with success only when it found the request not cancelled.
LEMMA HandlerFields ==
    ASSUME TypeOK, NEW s \in Sessions, HandlerStep(s)
    PROVE  /\ stage[s] \in Pending
           /\ timer' \in {timer, [timer EXCEPT ![s] = "off"]}
           /\ \/ \E n \in {"startWrite", "startHeader", "startBody"} :
                    stage' = [stage EXCEPT ![s] = n] /\ ec' = [ec EXCEPT ![s] = "none"]
              \/ \E code \in Codes :
                    /\ stage' = [stage EXCEPT ![s] = "calling"]
                    /\ ec' = [ec EXCEPT ![s] = code]
                    /\ code = "ok" => ~cancelled[s]
           /\ UNCHANGED <<clientVars, cancelled, readTimeout, arming, outcome,
                          peer, up, service, reply, upsets>>
  <1> DEFINE Goes == \E n \in {"startWrite", "startHeader", "startBody"} : Proceed(s, n)
             Ends1 == \E code \in Codes : Complete(s, code) /\ (code = "ok" => ~cancelled[s])
  <1>1. ec[s] \in Codes
    BY DEF TypeOK, Codes
  <1>2. Goes \/ Ends1
    <2>1. CASE OnConnect(s)
      BY <1>1, <2>1 DEF OnConnect, Codes
    <2>2. CASE OnWriteRequest(s)
      BY <1>1, <2>2 DEF OnWriteRequest, Codes
    <2>3. CASE OnReadHeader(s)
      BY <1>1, <2>3 DEF OnReadHeader, Codes
    <2>4. CASE OnReadBody(s)
      BY <1>1, <2>4 DEF OnReadBody, Codes
    <2>5. QED
      BY <2>1, <2>2, <2>3, <2>4 DEF HandlerStep
  <1>3. /\ \E op \in Pending : Handler(s, op)
        /\ timer' \in {timer, [timer EXCEPT ![s] = "off"]}
    BY DEF HandlerStep, OnConnect, OnWriteRequest, OnReadHeader, OnReadBody, Pending
  <1>4. QED
    BY <1>2, <1>3 DEF Handler, Proceed, Complete, peerVars, serverVars

\* The user is called back: with success only if that is what was decided.
LEMMA CallbackFields ==
    ASSUME NEW s \in Sessions, Callback(s)
    PROVE  /\ stage[s] = "calling" /\ stage' = [stage EXCEPT ![s] = "ending"]
           /\ ec' = [ec EXCEPT ![s] = "none"]
           /\ outcome' = [outcome EXCEPT ![s] = Append(@, ec[s] = "ok")]
           /\ loaded' = loaded \/ (loaded' = loaded \cup {s} /\ ec[s] = "ok")
           /\ UNCHANGED <<loader, active, cancelQ, flagged, late, cancelled, readTimeout, timer,
                          arming, peer, up, service, reply, upsets>>
  BY DEF Callback

\* The start of the next operation.
LEMMA StartFields ==
    ASSUME NEW s \in Sessions, StartStep(s)
    PROVE  /\ stage[s] \in {"startWrite", "startHeader", "startBody"}
           /\ \E n \in {"write", "header", "body"} : stage' = [stage EXCEPT ![s] = n]
           /\ arming' \in {arming, [arming EXCEPT ![s] = TRUE]}
           /\ UNCHANGED <<clientVars, ec, cancelled, readTimeout, timer, outcome, peer, up,
                          service, reply, upsets>>
  BY DEF StartStep, StartWrite, StartHeader, StartBody, Start, peerVars, serverVars

\* The read timer: set, expired, or handled.
LEMMA TimerFields ==
    ASSUME NEW s \in Sessions, TimerStep(s)
    PROVE  /\ timer[s] # "off" \/ arming[s]
           /\ \E n \in {"off", "armed", "due"} : timer' = [timer EXCEPT ![s] = n]
           /\ arming' \in {arming, [arming EXCEPT ![s] = FALSE]}
           /\ readTimeout' \in {readTimeout, [readTimeout EXCEPT ![s] = TRUE]}
           /\ ec' \in {ec, [ec EXCEPT ![s] = "aborted"]}
           /\ UNCHANGED <<clientVars, stage, cancelled, outcome, peer, up, service, reply, upsets>>
  BY DEF TimerStep, ArmTimer, TimerExpires, OnReadTimeout, SockCancel, peerVars, serverVars

\* An operation of the client ends.
LEMMA EndsFields ==
    ASSUME TypeOK, NEW s \in Sessions, EndsStep(s)
    PROVE  /\ stage[s] \in Pending
           /\ \E code \in {"ok", "error"} : ec' = [ec EXCEPT ![s] = code]
           /\ upsets' \in 0..MaxUpsets
           /\ UNCHANGED <<clientVars, stage, cancelled, readTimeout, timer, arming, outcome,
                          peer, up, service, reply>>
  <1>1. CASE Connected(s) \/ Written(s) \/ HeaderRead(s) \/ BodyRead(s)
    BY <1>1 DEF Connected, Written, HeaderRead, BodyRead, Ends, Pending, TypeOK
  <1>2. CASE Breaks(s)
    BY <1>2 DEF Breaks, Ends, TypeOK
  <1>3. QED
    BY <1>1, <1>2 DEF EndsStep, NetStep

\* What a step of the server leaves alone.
LEMMA ServerFields ==
    ASSUME NEW s \in Sessions, ServerStep(s)
    PROVE  UNCHANGED <<clientVars, sessionVars, peer, up, upsets>>
  BY DEF ServerStep, OnAccept, RequestNotRead, OnReadRequest, Cotree2Answers, serverFrame

\* Every step is one of these.
LEMMA RpcSteps ==
    ASSUME [Next]_vars
    PROVE  \/ UNCHANGED vars
           \/ \E s \in Sessions :
                \/ HandlerStep(s) \/ StartStep(s) \/ TimerStep(s) \/ EndsStep(s)
                \/ ServerStep(s) \/ SendRequest(s) \/ Callback(s) \/ EndSession(s)
                \/ CancelFlag(s) \/ CancelSock(s)
           \/ \E S \in SUBSET Sessions : Cancel(S)
           \/ LoaderStep \/ StopServer
  BY DEF Next, Loader, Done, ClientStep, HandlerStep, StartStep, TimerStep, EndsStep, LoaderStep

-----------------------------------------------------------------------------
\* Type correctness of every step.
LEMMA RpcTypeStep ==
    ASSUME TypeOK, FieldInv, [Next]_vars
    PROVE  TypeOK' /\ FieldInv'
  <1> USE DEF TypeOK, FieldInv
  <1> DEFINE Goal == TypeOK' /\ FieldInv'
  <1>1. CASE UNCHANGED vars
    BY <1>1 DEF vars, clientVars, sessionVars, peerVars, serverVars
  <1>2. ASSUME NEW s \in Sessions, HandlerStep(s) PROVE Goal
    <2>1. stage' \in [Sessions -> Stages] /\ ec' \in [Sessions -> Codes]
      <3>1. \/ \E n \in {"startWrite", "startHeader", "startBody"} :
                    stage' = [stage EXCEPT ![s] = n] /\ ec' = [ec EXCEPT ![s] = "none"]
            \/ \E code \in Codes :
                    stage' = [stage EXCEPT ![s] = "calling"] /\ ec' = [ec EXCEPT ![s] = code]
        BY <1>2, HandlerFields
      <3>2. stage' \in [Sessions -> Stages]
        BY <3>1 DEF Stages
      <3>3. ec' \in [Sessions -> Codes]
        BY <3>1 DEF Codes
      <3>4. QED
        BY <3>2, <3>3
    <2>2. timer' \in [Sessions -> {"off", "armed", "due"}]
      BY <1>2, HandlerFields
    <2>3. UNCHANGED <<clientVars, cancelled, readTimeout, arming, outcome,
                      service, reply, upsets>>
      BY <1>2, HandlerFields
    <2>4. QED
      BY <2>1, <2>2, <2>3 DEF Stages, Codes, clientVars
  <1>3. ASSUME NEW s \in Sessions, StartStep(s) PROVE Goal
    <2>1. stage' \in [Sessions -> Stages] /\ arming' \in [Sessions -> BOOLEAN]
      <3>1. /\ \E n \in {"write", "header", "body"} : stage' = [stage EXCEPT ![s] = n]
            /\ arming' \in {arming, [arming EXCEPT ![s] = TRUE]}
        BY <1>3, StartFields
      <3>2. stage' \in [Sessions -> Stages]
        BY <3>1 DEF Stages, Pending
      <3>3. arming' \in [Sessions -> BOOLEAN]
        BY <3>1
      <3>4. QED
        BY <3>2, <3>3
    <2>2. UNCHANGED <<loader, active, cancelQ, flagged, late, loaded, ec, cancelled, readTimeout,
                      timer, outcome, service, reply, upsets>>
      BY <1>3, StartFields DEF clientVars
    <2>3. QED
      BY <2>1, <2>2 DEF Stages
  <1>4. ASSUME NEW s \in Sessions, TimerStep(s) PROVE Goal
    <2>1. /\ timer' \in [Sessions -> {"off", "armed", "due"}]
          /\ arming' \in [Sessions -> BOOLEAN] /\ readTimeout' \in [Sessions -> BOOLEAN]
          /\ ec' \in [Sessions -> Codes]
      <3>1. /\ \E n \in {"off", "armed", "due"} : timer' = [timer EXCEPT ![s] = n]
            /\ arming' \in {arming, [arming EXCEPT ![s] = FALSE]}
            /\ readTimeout' \in {readTimeout, [readTimeout EXCEPT ![s] = TRUE]}
            /\ ec' \in {ec, [ec EXCEPT ![s] = "aborted"]}
        BY <1>4, TimerFields
      <3>2. timer' \in [Sessions -> {"off", "armed", "due"}]
        BY <3>1
      <3>3. arming' \in [Sessions -> BOOLEAN] /\ readTimeout' \in [Sessions -> BOOLEAN]
        <4>1. arming' \in [Sessions -> BOOLEAN]
          BY <3>1, ZenonT(30)
        <4>2. readTimeout' \in [Sessions -> BOOLEAN]
          BY <3>1, ZenonT(30)
        <4> QED BY <4>1, <4>2
      <3>4. ec' \in [Sessions -> Codes]
        BY <3>1 DEF Codes
      <3>5. QED
        BY <3>2, <3>3, <3>4
    <2>2. UNCHANGED <<loader, active, cancelQ, flagged, late, loaded, stage, cancelled, outcome,
                      service, reply, upsets>>
      BY <1>4, TimerFields DEF clientVars
    <2>3. QED
      BY <2>1, <2>2 DEF Codes
  <1>5. ASSUME NEW s \in Sessions, EndsStep(s) PROVE Goal
    <2>1. ec' \in [Sessions -> Codes]
      <3>1. \E code \in {"ok", "error"} : ec' = [ec EXCEPT ![s] = code]
        BY <1>5, EndsFields
      <3>2. QED
        BY <3>1 DEF Codes
    <2>2. UNCHANGED <<loader, active, cancelQ, flagged, late, loaded, stage, cancelled, readTimeout,
                      timer, arming, outcome, service, reply>>
          /\ upsets' \in 0..MaxUpsets
      BY <1>5, EndsFields DEF clientVars
    <2>3. QED
      BY <2>1, <2>2 DEF Codes
  <1>6. ASSUME NEW s \in Sessions, ServerStep(s) PROVE Goal
    <2>1. service' \in [Sessions -> {"none", "header", "gone"}] /\ reply' = [q \in Sessions |-> reply'[q]]
      <3>1. /\ service' = service \/ \E n \in {"header", "gone"} : service' = [service EXCEPT ![s] = n]
            /\ reply' = reply \/ \E mid : reply' = [reply EXCEPT ![s] = mid]
        <4>1. CASE OnAccept(s) \/ RequestNotRead(s)
          BY <4>1 DEF OnAccept, RequestNotRead
        <4>2. ASSUME NEW dbOk, OnReadRequest(s, dbOk)
              PROVE  /\ service' = [service EXCEPT ![s] = "gone"]
                     /\ \E mid : reply' = [reply EXCEPT ![s] = mid]
          <5>1. \E mid : SendResponse(s, mid)
            BY <4>2 DEF OnReadRequest
          <5>2. QED
            BY <5>1 DEF SendResponse
        <4>3. CASE Cotree2Answers(s)
          BY <4>3 DEF Cotree2Answers
        <4>4. QED
          BY <1>6, <4>1, <4>2, <4>3 DEF ServerStep
      <3>2. service' \in [Sessions -> {"none", "header", "gone"}]
        BY <3>1
      <3>3. reply' = [q \in Sessions |-> reply'[q]]
        BY <3>1
      <3>4. QED
        BY <3>2, <3>3
    <2>2. QED
      BY <1>6, <2>1, ServerFields DEF clientVars, sessionVars
  <1>7. ASSUME NEW s \in Sessions, SendRequest(s) PROVE Goal
    BY <1>7 DEF SendRequest, peerVars, serverVars, Pending
  <1>8. ASSUME NEW s \in Sessions, EndSession(s) PROVE Goal
    BY <1>8 DEF EndSession, peerVars, serverVars
  <1>9. ASSUME NEW s \in Sessions, CancelFlag(s) PROVE Goal
    BY <1>9 DEF CancelFlag, peerVars, serverVars
  <1>10. ASSUME NEW s \in Sessions, CancelSock(s) PROVE Goal
    BY <1>10 DEF CancelSock, SockCancel, peerVars, serverVars
  <1>11. ASSUME NEW S \in SUBSET Sessions, Cancel(S) PROVE Goal
    BY <1>11 DEF Cancel, GuardFree, sessionVars, serverVars
  <1>12. CASE LoaderStep
    BY <1>12 DEF LoaderStep, JoinAll, Merge, sessionVars, peerVars, serverVars
  <1>13. CASE StopServer
    BY <1>13 DEF StopServer, clientVars, sessionVars
  <1>14. ASSUME NEW s \in Sessions, Callback(s) PROVE Goal
    <2>1. PICK ok \in BOOLEAN : outcome' = [outcome EXCEPT ![s] = Append(@, ok)]
      <3>1. (ec[s] = "ok") \in BOOLEAN
        BY Zenon
      <3>2. outcome' = [outcome EXCEPT ![s] = Append(@, ec[s] = "ok")]
        BY <1>14, CallbackFields
      <3>3. QED
        BY <3>1, <3>2, Zenon
    <2>2. outcome' \in [Sessions -> Seq(BOOLEAN)]
      <3>1. Append(outcome[s], ok) \in Seq(BOOLEAN)
        OBVIOUS
      <3>2. QED
        BY <2>1, <3>1
    <2>3. stage' \in [Sessions -> Stages] /\ ec' \in [Sessions -> Codes] /\ loaded' \subseteq Sessions
      <3>1. /\ stage' = [stage EXCEPT ![s] = "ending"] /\ ec' = [ec EXCEPT ![s] = "none"]
            /\ loaded' \in {loaded, loaded \cup {s}}
        BY <1>14, CallbackFields
      <3>2. QED
        BY <3>1 DEF Stages, Codes
    <2>4. UNCHANGED <<loader, active, cancelQ, flagged, late, cancelled, readTimeout, timer,
                      arming, service, reply, upsets>>
      BY <1>14, CallbackFields
    <2>5. QED
      BY <2>2, <2>3, <2>4 DEF Stages, Codes
  <1>15. QED
    BY <1>1, <1>2, <1>3, <1>4, <1>5, <1>6, <1>7, <1>8, <1>9, <1>10, <1>11, <1>12, <1>13, <1>14,
       RpcSteps

-----------------------------------------------------------------------------
\* A session that moves to a stage on the same side of new, ending and done,
\* and whose callback is not called, stays accounted for.
LEMMA CalledStays ==
    ASSUME CalledBackOnce, active' = active, outcome' = outcome,
           \A q \in Sessions : \/ stage'[q] = stage[q]
                               \/ /\ stage[q] \notin {"new", "ending", "done"}
                                  /\ stage'[q] \notin {"new", "ending", "done"}
    PROVE  CalledBackOnce'
  BY DEF CalledBackOnce, Shut

\* Every step calls a request back at most once, on its way to leaving the map.
LEMMA CalledStep ==
    ASSUME TypeOK, FieldInv, CalledBackOnce, [Next]_vars
    PROVE  CalledBackOnce'
  <1>0. /\ stage \in [Sessions -> Stages] /\ outcome \in [Sessions -> Seq(BOOLEAN)]
        /\ active \subseteq Sessions
    BY DEF TypeOK, FieldInv, Stages
  <1>1. CASE UNCHANGED vars
    BY <1>1, CalledStays DEF vars, clientVars, sessionVars
  <1>2. ASSUME NEW s \in Sessions, HandlerStep(s) PROVE CalledBackOnce'
    <2>1. stage[s] \in Pending /\ active' = active /\ outcome' = outcome
      BY <1>2, HandlerFields DEF clientVars
    <2>2. \E n \in {"startWrite", "startHeader", "startBody", "calling"} :
              stage' = [stage EXCEPT ![s] = n]
      BY <1>2, HandlerFields
    <2>3. QED
      BY <1>0, <2>1, <2>2, CalledStays DEF Pending
  <1>3. ASSUME NEW s \in Sessions, StartStep(s) PROVE CalledBackOnce'
    BY <1>0, <1>3, StartFields, CalledStays DEF clientVars
  <1>4. ASSUME NEW s \in Sessions, TimerStep(s) PROVE CalledBackOnce'
    BY <1>4, TimerFields, CalledStays DEF clientVars
  <1>5. ASSUME NEW s \in Sessions, EndsStep(s) PROVE CalledBackOnce'
    BY <1>5, EndsFields, CalledStays DEF clientVars
  <1>6. ASSUME NEW s \in Sessions, ServerStep(s) PROVE CalledBackOnce'
    BY <1>6, ServerFields, CalledStays DEF clientVars, sessionVars
  <1>7. ASSUME NEW s \in Sessions, SendRequest(s) PROVE CalledBackOnce'
    BY <1>0, <1>7 DEF SendRequest, CalledBackOnce, Shut
  <1>8. ASSUME NEW s \in Sessions, EndSession(s) PROVE CalledBackOnce'
    BY <1>0, <1>8 DEF EndSession, CalledBackOnce, Shut
  <1>9. ASSUME NEW s \in Sessions, CancelFlag(s) \/ CancelSock(s) PROVE CalledBackOnce'
    BY <1>9, CalledStays DEF CancelFlag, CancelSock
  <1>10. ASSUME NEW S \in SUBSET Sessions, Cancel(S) PROVE CalledBackOnce'
    BY <1>10, CalledStays DEF Cancel, sessionVars
  <1>11. CASE LoaderStep \/ StopServer
    BY <1>11, CalledStays DEF LoaderStep, JoinAll, Merge, StopServer, clientVars, sessionVars
  <1>12. ASSUME NEW s \in Sessions, Callback(s) PROVE CalledBackOnce'
    <2>1. /\ stage[s] = "calling" /\ stage' = [stage EXCEPT ![s] = "ending"] /\ active' = active
          /\ outcome' = [outcome EXCEPT ![s] = Append(@, ec[s] = "ok")]
      BY <1>12, CallbackFields
    <2>2. Len(outcome[s]) = 0 /\ s \in active
      BY <2>1 DEF CalledBackOnce, Shut
    <2>3. Len(outcome'[s]) = 1
      BY <1>0, <2>1, <2>2
    <2>4. /\ stage'[s] = "ending"
          /\ \A q \in Sessions : q # s => stage'[q] = stage[q] /\ outcome'[q] = outcome[q]
      BY <1>0, <2>1
    <2>5. QED
      BY <2>1, <2>2, <2>3, <2>4 DEF CalledBackOnce, Shut
  <1>13. QED
    BY <1>1, <1>2, <1>3, <1>4, <1>5, <1>6, <1>7, <1>8, <1>9, <1>10, <1>11, <1>12, RpcSteps

-----------------------------------------------------------------------------
\* Every step of the server that answers answers what was asked.
LEMMA AnswersStep ==
    ASSUME TypeOK, FieldInv, ServerAnswers, ServiceInv, [Next]_vars
    PROVE  ServerAnswers' /\ ServiceInv'
  <1> DEFINE Goal == ServerAnswers' /\ ServiceInv'
  <1>1. ASSUME peer' = peer, service' = service, reply' = reply PROVE Goal
    BY <1>1 DEF ServerAnswers, ServiceInv
  <1>2. ASSUME NEW s \in Sessions, ServerStep(s) PROVE Goal
    <2>0. peer' = peer
      BY <1>2, ServerFields
    <2>1. CASE OnAccept(s) \/ RequestNotRead(s)
      BY <2>0, <2>1 DEF OnAccept, RequestNotRead, ServerAnswers, ServiceInv, FieldInv
    <2>2. ASSUME NEW dbOk \in BOOLEAN, OnReadRequest(s, dbOk) PROVE Goal
      <3>1. PICK mid : SendResponse(s, mid) /\
                      \/ mid = "Res_Error"
                      \/ /\ mid = Processing(shape[s], dbOk) /\ mid # NONE
                         /\ CreateWorker(CreateRequest(shape[s].id)) # NONE
        BY <2>2 DEF OnReadRequest
      <3>2. shape[s] \in RequestShape
        OBVIOUS
      <3>3. mid \notin {NONE, "Res_Error"} =>
              /\ shape[s].id \notin {"Nodes_Area", "Nodes_Mapid", "PassInfos_Area", "PassInfos_Mapid"}
              /\ mid = ResponseOf(shape[s].id)
              /\ WorkerQuery(shape[s]).text = "real" => shape[s].grs80
              /\ WorkerQuery(shape[s]) = NoQuery => shape[s].id = "Welcome"
        BY <3>1, <3>2, WorkerAnswers
      <3>4. /\ reply'[s] = mid /\ service'[s] = "gone" /\ service[s] = "header"
            /\ \A q \in Sessions : q # s => reply'[q] = reply[q] /\ service'[q] = service[q]
        BY <2>2, <3>1 DEF OnReadRequest, SendResponse, FieldInv
      <3>5. QED
        BY <2>0, <3>3, <3>4 DEF ServerAnswers, ServiceInv
    <2>3. CASE Cotree2Answers(s)
      BY <2>0, <2>3 DEF Cotree2Answers, ServerAnswers, ServiceInv, FieldInv
    <2>4. QED
      BY <1>2, <2>1, <2>2, <2>3 DEF ServerStep
  <1>3. ASSUME NEW s \in Sessions, HandlerStep(s) PROVE Goal
    BY <1>1, <1>3, HandlerFields
  <1>4. ASSUME NEW s \in Sessions,
               StartStep(s) \/ TimerStep(s)
        PROVE  Goal
    BY <1>1, <1>4, StartFields, TimerFields
  <1>5. ASSUME NEW s \in Sessions, EndsStep(s) PROVE Goal
    BY <1>1, <1>5 DEF EndsStep, NetStep, Connected, Written, HeaderRead, BodyRead, Breaks, Ends
  <1>6. ASSUME NEW s \in Sessions,
               SendRequest(s) \/ Callback(s) \/ EndSession(s) \/ CancelFlag(s) \/ CancelSock(s)
        PROVE  Goal
    BY <1>1, <1>6 DEF SendRequest, Callback, EndSession, CancelFlag, CancelSock, peerVars, serverVars
  <1>7. CASE UNCHANGED vars \/ LoaderStep \/ StopServer \/ \E S \in SUBSET Sessions : Cancel(S)
    BY <1>1, <1>7 DEF vars, LoaderStep, JoinAll, Merge, StopServer, Cancel, peerVars, serverVars
  <1>8. QED
    BY <1>2, <1>3, <1>4, <1>5, <1>6, <1>7, RpcSteps

-----------------------------------------------------------------------------
\* After the merge nothing is left that could take a step.
LEMMA MergedStep ==
    ASSUME TypeOK, FieldInv, CalledBackOnce, MergedInv, [Next]_vars
    PROVE  MergedInv'
  <1> DEFINE Same == loader' = loader /\ stage' = stage /\ timer' = timer /\ arming' = arming
  <1>1. ASSUME Same PROVE MergedInv'
    BY <1>1 DEF MergedInv, Outstanding
  \* A step of a session that is outstanding: the loader has not merged.
  <1>2. ASSUME NEW s \in Sessions, Outstanding(s), loader' = loader PROVE MergedInv'
    BY <1>2 DEF MergedInv
  <1>3. ASSUME NEW s \in Sessions, HandlerStep(s) PROVE MergedInv'
    BY <1>2, <1>3, HandlerFields DEF Outstanding, Pending, clientVars
  <1>4. ASSUME NEW s \in Sessions, StartStep(s) PROVE MergedInv'
    BY <1>2, <1>4, StartFields DEF Outstanding, clientVars
  <1>5. ASSUME NEW s \in Sessions, TimerStep(s) PROVE MergedInv'
    BY <1>2, <1>5, TimerFields DEF Outstanding, clientVars
  <1>6. ASSUME NEW s \in Sessions, EndsStep(s) PROVE MergedInv'
    BY <1>2, <1>6, EndsFields DEF Outstanding, Pending, clientVars
  <1>7. ASSUME NEW s \in Sessions, ServerStep(s) PROVE MergedInv'
    BY <1>1, <1>7, ServerFields DEF clientVars, sessionVars
  <1>8. ASSUME NEW s \in Sessions, SendRequest(s) \/ Callback(s) \/ EndSession(s) PROVE MergedInv'
    BY <1>2, <1>8 DEF SendRequest, Callback, EndSession, Outstanding
  <1>9. ASSUME NEW s \in Sessions, CancelFlag(s) \/ CancelSock(s) PROVE MergedInv'
    BY <1>1, <1>9 DEF CancelFlag, CancelSock
  <1>10. CASE UNCHANGED vars \/ StopServer \/ \E S \in SUBSET Sessions : Cancel(S)
    BY <1>1, <1>10 DEF vars, StopServer, Cancel, clientVars, sessionVars
  <1>11. CASE LoaderStep
    BY <1>11 DEF LoaderStep, JoinAll, Merge, MergedInv, Outstanding, sessionVars
  <1>12. QED
    BY <1>3, <1>4, <1>5, <1>6, <1>7, <1>8, <1>9, <1>10, <1>11, RpcSteps

-----------------------------------------------------------------------------
\* Nothing changes for a session whose flag stays, that is not called back, and
\* that is about to be with the same code or is not about to be.
LEMMA CancelStays ==
    ASSUME CancelInv, cancelled' = cancelled, late' = late, loaded' = loaded, outcome' = outcome,
           \A q \in Sessions : stage[q] # "new" => stage'[q] # "new",
           \A q \in Sessions : stage'[q] = "calling" /\ ec'[q] = "ok" /\ cancelled[q] =>
                                   stage[q] = "calling" /\ ec[q] = "ok"
    PROVE  CancelInv'
  BY DEF CancelInv

\* Every step keeps a request that was cancelled in time from its rows.
LEMMA CancelStep ==
    ASSUME TypeOK, FieldInv, CalledBackOnce, CancelInv, [Next]_vars
    PROVE  CancelInv'
  <1>0. /\ stage \in [Sessions -> Stages] /\ ec \in [Sessions -> Codes]
        /\ outcome \in [Sessions -> Seq(BOOLEAN)] /\ cancelled \in [Sessions -> BOOLEAN]
        /\ loaded \subseteq Sessions /\ late \subseteq Sessions
    BY DEF TypeOK, FieldInv, Stages, Codes
  <1>1. CASE UNCHANGED vars
    BY <1>1, CancelStays DEF vars, clientVars, sessionVars
  <1>2. ASSUME NEW s \in Sessions, HandlerStep(s) PROVE CancelInv'
    <2>1. /\ UNCHANGED <<cancelled, late, loaded, outcome>>
          /\ \/ \E n \in {"startWrite", "startHeader", "startBody"} :
                    stage' = [stage EXCEPT ![s] = n] /\ ec' = [ec EXCEPT ![s] = "none"]
             \/ \E code \in Codes :
                    /\ stage' = [stage EXCEPT ![s] = "calling"]
                    /\ ec' = [ec EXCEPT ![s] = code]
                    /\ code = "ok" => ~cancelled[s]
      BY <1>2, HandlerFields DEF clientVars
    <2>2. \A q \in Sessions : stage[q] # "new" => stage'[q] # "new"
      BY <1>0, <2>1
    <2>3. \A q \in Sessions : stage'[q] = "calling" /\ ec'[q] = "ok" /\ cancelled[q] =>
                                  stage[q] = "calling" /\ ec[q] = "ok"
      BY <1>0, <2>1
    <2>4. QED
      BY <2>1, <2>2, <2>3, CancelStays
  <1>3. ASSUME NEW s \in Sessions, StartStep(s) PROVE CancelInv'
    BY <1>0, <1>3, StartFields, CancelStays DEF clientVars
  <1>4. ASSUME NEW s \in Sessions, TimerStep(s) PROVE CancelInv'
    <2>1. /\ UNCHANGED <<cancelled, late, loaded, outcome, stage>>
          /\ ec' \in {ec, [ec EXCEPT ![s] = "aborted"]}
      BY <1>4, TimerFields DEF clientVars
    <2>2. \A q \in Sessions : ec'[q] = "ok" => ec[q] = "ok"
      BY <1>0, <2>1
    <2>3. QED
      BY <2>1, <2>2, CancelStays
  <1>5. ASSUME NEW s \in Sessions, EndsStep(s) PROVE CancelInv'
    <2>1. /\ UNCHANGED <<cancelled, late, loaded, outcome, stage>> /\ stage[s] # "calling"
          /\ \E code \in {"ok", "error"} : ec' = [ec EXCEPT ![s] = code]
      BY <1>5, EndsFields DEF clientVars, Pending
    <2>2. \A q \in Sessions : q # s => ec'[q] = ec[q]
      BY <1>0, <2>1
    <2>3. QED
      BY <2>1, <2>2, CancelStays
  <1>6. ASSUME NEW s \in Sessions, ServerStep(s) PROVE CancelInv'
    BY <1>6, ServerFields, CancelStays DEF clientVars, sessionVars
  <1>7. ASSUME NEW s \in Sessions, SendRequest(s) \/ EndSession(s) PROVE CancelInv'
    BY <1>0, <1>7, CancelStays DEF SendRequest, EndSession
  <1>8. ASSUME NEW s \in Sessions, CancelFlag(s) PROVE CancelInv'
    <2>1. /\ UNCHANGED <<stage, ec, loaded, outcome>>
          /\ cancelled' = [cancelled EXCEPT ![s] = TRUE]
          /\ late' = IF cancelled[s] \/ Testable(s) THEN late ELSE late \cup {s}
      BY <1>8 DEF CancelFlag
    <2>2. ASSUME NEW q \in Sessions, cancelled'[q], q \notin late'
          PROVE  /\ stage[q] # "new"
                 /\ stage[q] = "calling" => ec[q] # "ok"
                 /\ outcome[q] # <<TRUE>>
      <3>1. CASE cancelled[q]
        BY <2>1, <2>2, <3>1 DEF CancelInv
      <3>2. CASE ~cancelled[q]
        <4>0. q = s
          BY <1>0, <2>1, <2>2, <3>2
        <4>1. Testable(q)
          <5>1. ~cancelled[s] /\ s \notin late'
            BY <2>2, <3>2, <4>0
          <5>2. ASSUME ~Testable(s) PROVE FALSE
            <6>1. late' = late \cup {s}
              BY <2>1, <5>1, <5>2, Zenon
            <6>2. QED
              BY <5>1, <6>1
          <5>3. QED
            BY <4>0, <5>2
        <4>2. stage[q] \notin {"new", "calling", "ending", "done"}
          BY <4>1 DEF Testable, Pending
        <4>3. outcome[q] = <<>>
          BY <1>0, <4>2, EmptySeq DEF CalledBackOnce, Shut
        <4>4. <<>> # <<TRUE>>
          OBVIOUS
        <4>5. QED
          BY <4>2, <4>3, <4>4
      <3>3. QED
        BY <3>1, <3>2
    <2>3. QED
      BY <2>1, <2>2 DEF CancelInv
  <1>9. ASSUME NEW s \in Sessions, CancelSock(s) PROVE CancelInv'
    BY <1>0, <1>9, CancelStays DEF CancelSock, SockCancel, Pending
  <1>10. ASSUME NEW s \in Sessions, Callback(s) PROVE CancelInv'
    <2>1. /\ stage[s] = "calling" /\ stage' = [stage EXCEPT ![s] = "ending"]
          /\ ec' = [ec EXCEPT ![s] = "none"]
          /\ outcome' = [outcome EXCEPT ![s] = Append(@, ec[s] = "ok")]
          /\ loaded' = loaded \/ (loaded' = loaded \cup {s} /\ ec[s] = "ok")
          /\ UNCHANGED <<cancelled, late>>
      BY <1>10, CallbackFields
    <2>2. outcome[s] = <<>>
      BY <1>0, <2>1, EmptySeq DEF CalledBackOnce, Shut
    <2>3. /\ outcome'[s] = <<ec[s] = "ok">>
          /\ \A q \in Sessions : q # s => /\ outcome'[q] = outcome[q] /\ stage'[q] = stage[q]
                                          /\ ec'[q] = ec[q]
          /\ stage'[s] = "ending"
      BY <1>0, <2>1, <2>2
    <2>4. <<FALSE>> # <<TRUE>> /\ <<>> # <<TRUE>>
      OBVIOUS
    <2>5. s \notin loaded
      BY <2>2, <2>4 DEF CancelInv
    <2>6. ec[s] # "ok" => outcome'[s] # <<TRUE>>
      BY <2>3, <2>4
    <2>7. ec[s] = "ok" => outcome'[s] = <<TRUE>>
      BY <2>3
    <2>8. QED
      BY <1>0, <2>1, <2>3, <2>5, <2>6, <2>7 DEF CancelInv
  <1>11. ASSUME NEW S \in SUBSET Sessions, Cancel(S) PROVE CancelInv'
    BY <1>11, CancelStays DEF Cancel, sessionVars
  <1>12. CASE LoaderStep \/ StopServer
    BY <1>12, CancelStays DEF LoaderStep, JoinAll, Merge, StopServer, clientVars, sessionVars
  <1>13. QED
    BY <1>1, <1>2, <1>3, <1>4, <1>5, <1>6, <1>7, <1>8, <1>9, <1>10, <1>11, <1>12, RpcSteps

-----------------------------------------------------------------------------
\* RpcIInv is inductive.
THEOREM RpcIsInvariant == Spec => []RpcIInv
  <1>1. Init => RpcIInv
    <2> SUFFICES ASSUME Init PROVE RpcIInv
      OBVIOUS
    <2>1. TypeOK
      BY DEF Init, TypeOK
    <2>2. FieldInv
      BY DEF Init, FieldInv
    <2>3. CalledBackOnce
      BY DEF Init, CalledBackOnce, Shut
    <2>4. ServerAnswers /\ ServiceInv /\ MergedInv /\ CancelInv
      BY DEF Init, ServerAnswers, ServiceInv, MergedInv, CancelInv
    <2>5. QED
      BY <2>1, <2>2, <2>3, <2>4 DEF RpcIInv
  <1>2. RpcIInv /\ [Next]_vars => RpcIInv'
    BY RpcTypeStep, CalledStep, AnswersStep, MergedStep, CancelStep DEF RpcIInv
  <1>3. QED
    BY <1>1, <1>2, PTL DEF Spec

\* Each request is called back once, before its session leaves the map; the
\* service answers with what was asked for; when the loader merges nothing is
\* left that could use it.
THEOREM RpcIsSound == Spec => []RpcInv
  <1>1. RpcIInv => RpcInv
    BY DEF RpcIInv, RpcInv, MergedInv, Outstanding, CalledBackOnce, Shut, TypeOK
  <1>2. QED
    BY <1>1, RpcIsInvariant, PTL

\* A request cancelled while a handler that tests the flag is still to come is
\* never called back with success and its rows are never taken, whether or not
\* the cancel found an operation to abort.
THEOREM CancelWins == Spec => []CancelInTime
  <1>1. RpcIInv => CancelInTime
    BY DEF RpcIInv, CancelInv, CancelInTime
  <1>2. QED
    BY <1>1, RpcIsInvariant, PTL

HIDE RpcAssumption

-----------------------------------------------------------------------------
(* Induction over a set of numbers.                                        *)

\* A set of numbers that is not empty has a least one.
LEMMA LeastNumber ==
  ASSUME NEW T \in SUBSET Nat, T # {}
  PROVE  \E n \in T : \A m \in T : n <= m
  <1> DEFINE R == {ss \in Nat \X Nat : ss[1] < ss[2]}
  <1>1. IsWellFoundedOn(R, Nat)
    BY NatLessThanWellFounded, Zenon DEF OpToRel
  <1>2. \A i, j \in Nat : i < j => <<i, j>> \in R
    OBVIOUS
  <1> HIDE DEF R
  <1>3. PICK n \in T : \A m \in T : ~(<<m, n>> \in R)
    BY <1>1, WFMin, Zenon
  <1>4. \A m \in T : n <= m
    <2> TAKE m \in T
    <2>1. m \in Nat /\ n \in Nat /\ ~(<<m, n>> \in R)
      BY <1>3
    <2>2. ~(m < n)
      BY <1>2, <2>1
    <2>3. QED
      BY <2>1, <2>2
  <1> QED BY <1>4

\* The induction the recursive functions of the model need.
LEMMA Induction ==
  ASSUME NEW T \in SUBSET Nat, 0 \in T, \A n \in T : n + 1 \in T
  PROVE  T = Nat
  <1> SUFFICES ASSUME Nat \ T # {} PROVE FALSE
    OBVIOUS
  <1>1. PICK n \in Nat \ T : \A m \in Nat \ T : n <= m
    BY LeastNumber
  <1>2. n # 0 /\ n - 1 \in Nat /\ n - 1 \in T
    BY <1>1
  <1> QED BY <1>1, <1>2

-----------------------------------------------------------------------------
(* What an archive is: pieces, one after the other.                        *)

\* h glues the first n of q, step by step.
GlueStep(q, h, i) == IF i = 1 THEN q[i] ELSE h[i - 1] \o q[i]
Glues(q, n, h) == h = [i \in 1..n |-> GlueStep(q, h, i)]

\* Two functions that glue the same sequence agree.
LEMMA GluesUnique ==
  ASSUME NEW q, NEW n \in Nat, NEW m \in Nat, NEW g, NEW h,
         Glues(q, n, g), Glues(q, m, h), n <= m
  PROVE  \A i \in 1..n : g[i] = h[i]
  <1>1. /\ g = [i \in 1..n |-> GlueStep(q, g, i)]
        /\ h = [i \in 1..m |-> GlueStep(q, h, i)]
    BY DEF Glues
  <1> DEFINE T == {k \in Nat : k \in 1..n => g[k] = h[k]}
  <1>2. 0 \in T
    OBVIOUS
  <1>3. ASSUME NEW k \in T PROVE k + 1 \in T
    <2> SUFFICES ASSUME k + 1 \in 1..n PROVE g[k + 1] = h[k + 1]
      OBVIOUS
    <2>1. k \in Nat /\ k + 1 \in 1..m /\ (k + 1) - 1 = k
      OBVIOUS
    <2>2. g[k + 1] = GlueStep(q, g, k + 1) /\ h[k + 1] = GlueStep(q, h, k + 1)
      BY <1>1, <2>1
    <2>3. k + 1 = 1 \/ g[k] = h[k]
      BY <2>1
    <2> QED BY <2>1, <2>2, <2>3 DEF GlueStep
  <1>4. T = Nat
    <2> HIDE DEF T
    <2>1. T \in SUBSET Nat
      BY DEF T
    <2> QED BY <1>2, <1>3, <2>1, Induction
  <1> QED BY <1>4

\* There is one for every length.
LEMMA GluesExists ==
  ASSUME NEW S, NEW q \in Seq(Seq(S)), NEW n \in 0..Len(q)
  PROVE  \E h \in [1..n -> Seq(S)] : Glues(q, n, h)
  <1> DEFINE T == {k \in Nat : k \in 0..Len(q) => \E h \in [1..k -> Seq(S)] : Glues(q, k, h)}
  <1>0. Len(q) \in Nat
    BY LenProperties
  <1>1. 0 \in T
    <2> DEFINE h == [i \in 1..0 |-> <<>>]
    <2>1. h \in [1..0 -> Seq(S)]
      OBVIOUS
    <2>2. h = [i \in 1..0 |-> GlueStep(q, h, i)]
      OBVIOUS
    <2> HIDE DEF h
    <2> QED BY <2>1, <2>2 DEF Glues
  <1>2. ASSUME NEW k \in T PROVE k + 1 \in T
    <2> SUFFICES ASSUME k + 1 \in 0..Len(q)
                 PROVE  \E h \in [1..k + 1 -> Seq(S)] : Glues(q, k + 1, h)
      OBVIOUS
    <2>1. k \in Nat /\ k \in 0..Len(q) /\ k + 1 \in 1..Len(q)
      BY <1>0
    <2>2. PICK h \in [1..k -> Seq(S)] : Glues(q, k, h)
      BY <2>1
    <2> DEFINE g == [i \in 1..k + 1 |-> IF i = k + 1 THEN GlueStep(q, h, k + 1) ELSE h[i]]
    <2>3. q[k + 1] \in Seq(S)
      BY <2>1, ElementOfSeq
    <2>4. GlueStep(q, h, k + 1) \in Seq(S)
      <3>1. CASE k = 0
        BY <2>3, <3>1 DEF GlueStep
      <3>2. CASE k # 0
        <4>1. k \in 1..k /\ k + 1 # 1 /\ (k + 1) - 1 = k
          BY <2>1, <3>2
        <4>2. h[k] \in Seq(S)
          BY <2>2, <4>1
        <4>3. h[k] \o q[k + 1] \in Seq(S)
          BY <2>3, <4>2, ConcatProperties
        <4> QED BY <4>1, <4>3 DEF GlueStep
      <3> QED BY <3>1, <3>2
    <2>5. g \in [1..k + 1 -> Seq(S)]
      BY <2>2, <2>4, <2>1
    <2>6. h = [i \in 1..k |-> GlueStep(q, h, i)]
      BY <2>2 DEF Glues
    <2>7. ASSUME NEW i \in 1..k + 1 PROVE g[i] = GlueStep(q, g, i)
      <3>1. i = 1 \/ (i - 1 \in 1..k /\ i - 1 \in 1..k + 1 /\ i - 1 # k + 1)
        BY <2>1
      <3>2. i = 1 \/ g[i - 1] = h[i - 1]
        BY <3>1
      <3>3. GlueStep(q, g, i) = GlueStep(q, h, i)
        <4> HIDE DEF g
        <4> QED BY <3>2 DEF GlueStep
      <3>4. CASE i = k + 1
        BY <3>3, <3>4
      <3>5. CASE i # k + 1
        <4>1. i \in 1..k
          BY <3>5, <2>1
        <4> QED BY <3>3, <3>5, <4>1, <2>6
      <3> QED BY <3>4, <3>5
    <2>8. g = [i \in 1..k + 1 |-> g[i]]
      OBVIOUS
    <2> HIDE DEF g
    <2>9. Glues(q, k + 1, g)
      BY <2>7, <2>8 DEF Glues
    <2> QED BY <2>5, <2>9
  <1>3. T = Nat
    <2> HIDE DEF T
    <2>1. T \in SUBSET Nat
      BY DEF T
    <2> QED BY <1>1, <1>2, <2>1, Induction
  <1> QED BY <1>0, <1>3

\* FlattenSeq is the glue of all its sequences.
LEMMA FlattenComputes ==
  ASSUME NEW S, NEW q \in Seq(Seq(S)), q # <<>>
  PROVE  \E h \in [1..Len(q) -> Seq(S)] : Glues(q, Len(q), h) /\ FlattenSeq(q) = h[Len(q)]
  <1> DEFINE P(h) == Glues(q, Len(q), h)
  <1>0. Len(q) \in Nat /\ Len(q) # 0
    <2>1. Len(q) \in Nat \ {0}
      BY EmptySeq, Zenon
    <2> QED BY <2>1
  <1>1. FlattenSeq(q) = (CHOOSE h : P(h))[Len(q)]
    BY <1>0, Zenon DEF FlattenSeq, Glues, GlueStep
  <1>2. PICK h \in [1..Len(q) -> Seq(S)] : P(h)
    <2>1. Len(q) \in 0..Len(q)
      BY <1>0
    <2>2. \E h \in [1..Len(q) -> Seq(S)] : Glues(q, Len(q), h)
      BY <2>1, GluesExists
    <2> QED BY <2>2, Zenon DEF P
  <1> DEFINE g == CHOOSE f : P(f)
  <1>3. P(g)
    <2> HIDE DEF P
    <2> QED BY <1>2
  <1>4. \A i \in 1..Len(q) : g[i] = h[i]
    <2> HIDE DEF g
    <2> QED BY <1>0, <1>2, <1>3, GluesUnique
  <1>5. Len(q) \in 1..Len(q)
    BY <1>0
  <1> HIDE DEF P
  <1> QED BY <1>1, <1>2, <1>4, <1>5 DEF P

\* Nothing glued is nothing.
LEMMA FlattenEmpty == FlattenSeq(<<>>) = <<>>
  BY DEF FlattenSeq

\* One more sequence is glued to the end: the last field or row.
LEMMA FlattenAppend ==
  ASSUME NEW S, NEW q \in Seq(Seq(S)), NEW e \in Seq(S)
  PROVE  /\ FlattenSeq(q) \in Seq(S)
         /\ FlattenSeq(Append(q, e)) = FlattenSeq(q) \o e
  <1> DEFINE a == Append(q, e)
  <1>1. /\ a \in Seq(Seq(S)) /\ a # <<>> /\ Len(a) = Len(q) + 1 /\ Len(q) \in Nat
        /\ \A i \in 1..Len(q) : a[i] = q[i]
        /\ a[Len(q) + 1] = e
    BY AppendProperties, LenProperties
  <1> HIDE DEF a
  <1>2. PICK g \in [1..Len(a) -> Seq(S)] : Glues(a, Len(a), g) /\ FlattenSeq(a) = g[Len(a)]
    BY <1>1, FlattenComputes
  <1>3. g = [i \in 1..Len(q) + 1 |-> GlueStep(a, g, i)]
    BY <1>1, <1>2 DEF Glues
  <1>4. Len(q) + 1 \in 1..Len(q) + 1
    BY <1>1
  <1>5. g[Len(q) + 1] = GlueStep(a, g, Len(q) + 1)
    BY <1>3, <1>4
  <1>6. CASE q = <<>>
    <2>1. Len(q) = 0 /\ FlattenSeq(q) = <<>> /\ <<>> \in Seq(S)
      BY <1>6, FlattenEmpty, EmptySeq
    <2>2. FlattenSeq(a) = e
      BY <1>1, <1>2, <1>5, <2>1 DEF GlueStep
    <2> QED BY <2>1, <2>2, ConcatEmptySeq DEF a
  <1>7. CASE q # <<>>
    <2>1. PICK h \in [1..Len(q) -> Seq(S)] : Glues(q, Len(q), h) /\ FlattenSeq(q) = h[Len(q)]
      BY <1>7, FlattenComputes
    <2>2. Len(q) # 0 /\ Len(q) \in 1..Len(q)
      BY <1>1, <1>7, EmptySeq
    <2>3. h = [i \in 1..Len(q) |-> GlueStep(a, h, i)]
      <3>1. h = [i \in 1..Len(q) |-> GlueStep(q, h, i)]
        BY <2>1 DEF Glues
      <3>2. \A i \in 1..Len(q) : GlueStep(q, h, i) = GlueStep(a, h, i)
        BY <1>1 DEF GlueStep
      <3> QED BY <3>1, <3>2
    <2>4. Glues(a, Len(q), h)
      BY <2>3 DEF Glues
    <2>5. \A i \in 1..Len(q) : h[i] = g[i]
      <3>1. Len(a) \in Nat /\ Len(q) \in Nat /\ Len(q) <= Len(a) /\ Glues(a, Len(a), g)
        BY <1>1, <1>2
      <3> QED BY <3>1, <2>4, GluesUnique
    <2>6. g[Len(q)] = FlattenSeq(q) /\ FlattenSeq(q) \in Seq(S)
      BY <2>1, <2>2, <2>5
    <2>7. GlueStep(a, g, Len(q) + 1) = g[Len(q)] \o e
      <3>1. Len(q) + 1 # 1 /\ (Len(q) + 1) - 1 = Len(q)
        BY <1>1, <2>2
      <3> QED BY <1>1, <3>1 DEF GlueStep
    <2> QED BY <1>1, <1>2, <1>5, <2>6, <2>7 DEF a
  <1> QED BY <1>6, <1>7

\* Concatenation is associative.
LEMMA Associative ==
  \A S : \A a, b, c \in Seq(S) : (a \o b) \o c = a \o (b \o c)
  BY ConcatAssociative

\* What is written first is followed by the rest.
LEMMA Regroup ==
  ASSUME NEW S, NEW a \in Seq(S), NEW b \in Seq(S), NEW c \in Seq(S), NEW x, x = a \o b
  PROVE  x \o c = a \o (b \o c)
  BY Associative

\* FlattenSeq can be taken from the front as well: what reading does.
LEMMA FlattenCons ==
  ASSUME NEW S, NEW q \in Seq(Seq(S)), q # <<>>
  PROVE  FlattenSeq(q) = Head(q) \o FlattenSeq(Tail(q))
  <1> DEFINE Fits(p) == FlattenSeq(p) = Head(p) \o FlattenSeq(Tail(p))
             T == {n \in Nat : \A p \in Seq(Seq(S)) : Len(p) = n + 1 => Fits(p)}
  <1>1. ASSUME NEW n \in Nat, NEW p \in Seq(Seq(S)), Len(p) = n + 1,
               n = 0 \/ n - 1 \in T
        PROVE  Fits(p)
    <2> DEFINE f == SubSeq(p, 1, n)
               e == p[n + 1]
    <2>1. p # <<>> /\ f \in Seq(Seq(S)) /\ e \in Seq(S) /\ Append(f, e) = p /\ Len(f) = n
          /\ Head(p) \in Seq(S) /\ Tail(p) \in Seq(Seq(S)) /\ Head(p) = p[1] /\ Len(Tail(p)) = n
          /\ e = p[n + 1] /\ \A i \in 1..n : f[i] = p[i]
      BY <1>1, EmptySeq
    <2> HIDE DEF f, e
    <2>2. FlattenSeq(p) = FlattenSeq(f) \o e
      BY <2>1, FlattenAppend
    <2>3. CASE n = 0
      <3>1. f = <<>> /\ Tail(p) = <<>>
        BY <2>1, <2>3, EmptySeq
      <3>2. e = p[1]
        BY <2>1, <2>3
      <3>3. FlattenSeq(p) = e /\ FlattenSeq(Tail(p)) = <<>> /\ Head(p) = e
        BY <2>1, <2>2, <3>1, <3>2, FlattenEmpty, ConcatEmptySeq
      <3> QED BY <2>1, <3>3, ConcatEmptySeq
    <2>4. CASE n # 0
      <3>1. n - 1 \in T /\ Len(f) = (n - 1) + 1
        BY <1>1, <2>1, <2>4
      <3>2. Fits(f)
        <4> HIDE DEF f, Fits
        <4> QED BY <2>1, <3>1
      <3>3. f # <<>> /\ Head(f) \in Seq(S) /\ Tail(f) \in Seq(Seq(S)) /\ Head(f) = f[1]
        BY <2>1, <2>4, HeadTailProperties, EmptySeq
      <3>4. Head(f) = Head(p)
        <4>1. 1 \in 1..n
          BY <2>4
        <4>2. f[1] = p[1]
          BY <2>1, <4>1
        <4> QED BY <2>1, <3>3, <4>2
      <3>5. Tail(p) = Append(Tail(f), e)
        <4>1. /\ Tail(p) \in Seq(Seq(S)) /\ Len(Tail(p)) = n
              /\ \A i \in 1..n : Tail(p)[i] = p[i + 1]
          BY <1>1, <2>1, HeadTailProperties
        <4>2. /\ Tail(f) \in Seq(Seq(S)) /\ Len(Tail(f)) = n - 1
              /\ \A i \in 1..n - 1 : Tail(f)[i] = f[i + 1]
          BY <2>1, <3>3, HeadTailProperties
        <4>3. \A i \in 1..n : f[i] = p[i]
          BY <2>1
        <4>4. /\ Append(Tail(f), e) \in Seq(Seq(S)) /\ Len(Append(Tail(f), e)) = n
              /\ \A i \in 1..n - 1 : Append(Tail(f), e)[i] = Tail(f)[i]
              /\ Append(Tail(f), e)[n] = e
          BY <2>1, <4>2, AppendProperties
        <4> DEFINE a == Append(Tail(f), e)
                   b == Tail(p)
        <4>5. ASSUME NEW i \in 1..n PROVE a[i] = b[i]
          <5>1. CASE i = n
            BY <2>1, <4>1, <4>4, <5>1
          <5>2. CASE i # n
            <6>1. i \in 1..n - 1 /\ i + 1 \in 1..n
              BY <1>1, <5>2
            <6> QED BY <4>1, <4>2, <4>3, <4>4, <6>1
          <5> QED BY <5>1, <5>2
        <4>6. a \in Seq(Seq(S)) /\ b \in Seq(Seq(S)) /\ Len(a) = n /\ Len(b) = n
          BY <4>1, <4>4
        <4> HIDE DEF a, b
        <4>7. a = b
          BY <4>5, <4>6, SeqEqual
        <4> QED BY <4>7 DEF a, b
      <3>6. FlattenSeq(Tail(f)) \in Seq(S) /\ FlattenSeq(Tail(p)) = FlattenSeq(Tail(f)) \o e
        BY <2>1, <3>3, <3>5, FlattenAppend
      <3>7. FlattenSeq(p) = (Head(p) \o FlattenSeq(Tail(f))) \o e
        BY <2>2, <3>2, <3>4
      <3> DEFINE c == FlattenSeq(Tail(f))
                 d == Head(p)
      <3>8. c \in Seq(S) /\ d \in Seq(S) /\ e \in Seq(S)
        BY <2>1, <3>6
      <3>9. (d \o c) \o e = d \o (c \o e)
        <4> DEFINE x == d \o c
        <4>1. x = d \o c
          OBVIOUS
        <4> HIDE DEF c, d, x, Fits, T
        <4>2. x \o e = d \o (c \o e)
          BY <3>8, <4>1, Regroup, SMTT(30)
        <4> QED BY <4>2 DEF x
      <3> QED BY <3>6, <3>7, <3>9
    <2> QED BY <2>3, <2>4
  <1> HIDE DEF Fits
  <1>2. 0 \in T
    BY <1>1
  <1>3. ASSUME NEW n \in T PROVE n + 1 \in T
    <2>1. n + 1 \in Nat /\ (n + 1) - 1 = n
      OBVIOUS
    <2> QED BY <1>1, <1>3, <2>1
  <1>4. T = Nat
    <2> HIDE DEF T
    <2>1. T \in SUBSET Nat
      BY DEF T
    <2> QED BY <1>2, <1>3, <2>1, Induction
  <1>5. Len(q) - 1 \in Nat /\ Len(q) = (Len(q) - 1) + 1
    BY EmptySeq, LenProperties
  <1> QED BY <1>4, <1>5 DEF Fits

\* What is left when the first k pieces are taken.
Left(q, k) == FlattenSeq(SubSeq(q, k + 1, Len(q)))

\* The pieces are left one by one.
LEMMA LeftStep ==
  ASSUME NEW S, NEW q \in Seq(Seq(S)), NEW k \in 0..Len(q)
  PROVE  /\ Left(q, k) \in Seq(S)
         /\ Left(q, 0) = FlattenSeq(q)
         /\ Left(q, Len(q)) = <<>>
         /\ k < Len(q) => Left(q, k) = q[k + 1] \o Left(q, k + 1)
  <1> DEFINE p == SubSeq(q, k + 1, Len(q))
  <1>0. Len(q) \in Nat /\ k \in Nat /\ p \in Seq(Seq(S)) /\ Len(p) = Len(q) - k
    BY LenProperties
  <1>1. Left(q, k) \in Seq(S)
    <2>1. <<>> \in Seq(S)
      BY EmptySeq
    <2> HIDE DEF p
    <2> QED BY <1>0, <2>1, FlattenAppend DEF Left, p
  <1>2. Left(q, 0) = FlattenSeq(q)
    <2>1. SubSeq(q, 0 + 1, Len(q)) = q
      BY <1>0
    <2> QED BY <2>1 DEF Left
  <1>3. Left(q, Len(q)) = <<>>
    <2>1. SubSeq(q, Len(q) + 1, Len(q)) = <<>>
      BY <1>0
    <2> QED BY <2>1, FlattenEmpty DEF Left
  <1>4. ASSUME k < Len(q) PROVE Left(q, k) = q[k + 1] \o Left(q, k + 1)
    <2>1. p # <<>> /\ Head(p) = q[k + 1]
      <3>1. Len(p) \in Nat /\ Len(p) # 0 /\ p[1] = q[k + 1]
        BY <1>0, <1>4
      <3> HIDE DEF p
      <3>2. p # <<>>
        BY <3>1
      <3> QED BY <1>0, <3>1, <3>2, HeadTailProperties
    <2>2. Tail(p) = SubSeq(q, (k + 1) + 1, Len(q))
      BY <1>0, <1>4
    <2> HIDE DEF p
    <2>3. FlattenSeq(p) = Head(p) \o FlattenSeq(Tail(p))
      BY <1>0, <2>1, FlattenCons
    <2> QED BY <2>1, <2>2, <2>3 DEF Left, p
  <1> QED BY <1>1, <1>2, <1>3, <1>4

-----------------------------------------------------------------------------
(* Reading what was written.                                               *)

\* What a cell of a field of these names, and a field, may be.
Cells(names) == [of : names \cup {"count"}, row : Nat, n : Nat]
FieldsOf(names) == [name : names, size : Nat, counted : BOOLEAN]

\* stream_read finds what stream_write wrote first, and leaves the rest.
LEMMA TakeRest ==
  ASSUME NEW S, NEW a \in Seq(S), NEW b \in Seq(S), NEW n, n = Len(a)
  PROVE  Take(a \o b, n) = a /\ Rest(a \o b, n) = b
  <1> DEFINE s == a \o b
  <1>1. /\ s \in Seq(S) /\ Len(s) = Len(a) + Len(b) /\ Len(a) \in Nat /\ Len(b) \in Nat
        /\ \A i \in 1..Len(a) : s[i] = a[i]
        /\ \A i \in 1..Len(b) : s[Len(a) + i] = b[i]
    BY ConcatProperties, LenProperties
  <1> HIDE DEF s
  <1> DEFINE x == SubSeq(s, 1, n)
             y == SubSeq(s, n + 1, Len(s))
  <1>2. x \in Seq(S) /\ Len(x) = n /\ \A i \in 1..n : x[i] = s[i]
    BY <1>1
  <1>3. y \in Seq(S) /\ Len(y) = Len(b) /\ \A i \in 1..Len(b) : y[i] = s[n + i]
    BY <1>1
  <1> HIDE DEF x, y
  <1>4. x = a
    BY <1>1, <1>2, SeqEqual
  <1>5. y = b
    BY <1>1, <1>3, SeqEqual
  <1>6. Take(s, n) = x
    BY <1>1 DEF Take, x
  <1>7. Rest(s, n) = y
    BY DEF Rest, y
  <1> QED BY <1>4, <1>5, <1>6, <1>7 DEF s

\* A count is four cells.
LEMMA CountWritten ==
  ASSUME NEW names, NEW len \in Nat
  PROVE  /\ CountCells(len) \in Seq(Cells(names)) /\ Len(CountCells(len)) = 4
         /\ IsCount(CountCells(len)) /\ CountCells(len)[1].n = len
  <1> DEFINE c == CountCells(len)
  <1>1. c = [i \in 1..4 |-> Cell("count", 0, IF i = 1 THEN len ELSE 0)]
    BY DEF CountCells
  <1> HIDE DEF c
  <1>2. c \in Seq(Cells(names)) /\ Len(c) = 4
    <2>1. \A i \in 1..4 : Cell("count", 0, IF i = 1 THEN len ELSE 0) \in Cells(names)
      BY DEF Cell, Cells
    <2> QED BY <1>1, <2>1
  <1>3. (\A i \in 1..4 : c[i].of = "count") /\ c[1].n = len
    BY <1>1 DEF Cell
  <1> QED BY <1>2, <1>3 DEF IsCount, c

\* The bytes of a field, as they are written, are cells.
LEMMA FieldWritten ==
  ASSUME NEW names, NEW field \in FieldsOf(names), NEW row \in Nat, NEW len \in Nat
  PROVE  /\ Bytes(field, row, len) \in Seq(Cells(names))
         /\ Len(Bytes(field, row, len)) = field.size * (IF field.counted THEN len ELSE 1)
         /\ WriteField(field, row, len) \in Seq(Cells(names))
  <1> DEFINE k == field.size * (IF field.counted THEN len ELSE 1)
             c == CountCells(len)
             b == Bytes(field, row, len)
  <1>1. field.name \in names /\ k \in Nat /\ field.counted \in BOOLEAN
    BY DEF FieldsOf
  <1>2. b = [i \in 1..k |-> Cell(field.name, row, i)]
    BY DEF Bytes
  <1> HIDE DEF k, c, b
  <1>3. b \in Seq(Cells(names)) /\ Len(b) = k
    <2>1. \A i \in 1..k : Cell(field.name, row, i) \in Cells(names)
      BY <1>1 DEF Cell, Cells
    <2> QED BY <1>1, <1>2, <2>1
  <1>4. c \in Seq(Cells(names))
    BY CountWritten DEF c
  <1>5. c \o b \in Seq(Cells(names))
    BY <1>3, <1>4, ConcatProperties
  <1>6. WriteField(field, row, len) = IF field.counted THEN c \o b ELSE b
    BY DEF WriteField, c, b
  <1> QED BY <1>3, <1>5, <1>6 DEF b, k

\* A count that was written is read back.
LEMMA CountReads ==
  ASSUME NEW names, NEW len \in Nat, NEW t \in Seq(Cells(names))
  PROVE  /\ ReadCount(CountCells(len) \o t) = len
         /\ Rest(CountCells(len) \o t, 4) = t
  <1> DEFINE c == CountCells(len)
             s == c \o t
  <1>2. c \in Seq(Cells(names)) /\ Len(c) = 4 /\ IsCount(c) /\ c[1].n = len
    BY CountWritten
  <1> HIDE DEF c
  <1>3. Take(s, 4) = c /\ Rest(s, 4) = t
    BY <1>2, TakeRest
  <1>4. s[1] = c[1]
    BY <1>2, ConcatProperties
  <1> HIDE DEF s
  <1>5. ReadCount(s) = len
    BY <1>2, <1>3, <1>4 DEF ReadCount
  <1> QED BY <1>3, <1>5 DEF s, c

\* A field is read back, whatever follows.
LEMMA FieldReads ==
  ASSUME NEW names, NEW field \in FieldsOf(names), NEW row \in Nat, NEW len \in Nat,
         NEW t \in Seq(Cells(names))
  PROVE  ReadField(field, WriteField(field, row, len) \o t)
           = [value |-> Bytes(field, row, len), rest |-> t]
  <1> DEFINE b == Bytes(field, row, len)
             c == CountCells(len)
             s == WriteField(field, row, len) \o t
             k == field.size * (IF field.counted THEN len ELSE 1)
             from == IF field.counted THEN Rest(s, 4) ELSE s
             n == field.size * (IF field.counted THEN ReadCount(s) ELSE 1)
  <1>1. /\ c \in Seq(Cells(names)) /\ b \in Seq(Cells(names)) /\ Len(b) = k
    BY FieldWritten, CountWritten
  <1> HIDE DEF b, c
  <1>2. WriteField(field, row, len) = IF field.counted THEN c \o b ELSE b
    BY DEF WriteField, b, c
  <1>3. from = b \o t /\ n = k
    <2>1. CASE field.counted
      <3>1. s = c \o (b \o t)
        <4> DEFINE w == WriteField(field, row, len)
        <4>1. w = c \o b /\ s = w \o t
          BY <1>2, <2>1
        <4>2. c \in Seq(Cells(names)) /\ b \in Seq(Cells(names))
          BY <1>1
        <4> HIDE DEF w, s, k, from, n
        <4> QED BY <4>1, <4>2, Regroup, SMTT(30)
      <3>2. b \o t \in Seq(Cells(names))
        BY <1>1, ConcatProperties
      <3> DEFINE u == b \o t
      <3> HIDE DEF s, u
      <3>3. ReadCount(s) = len /\ Rest(s, 4) = u
        BY <3>1, <3>2, CountReads DEF c, u
      <3> QED BY <2>1, <3>3 DEF u
    <2>2. CASE ~field.counted
      BY <1>2, <2>2
    <2> QED BY <2>1, <2>2
  <1>4. ReadField(field, s) = [value |-> Take(from, n), rest |-> Rest(from, n)]
    BY DEF ReadField
  <1> HIDE DEF from, n, k, s
  <1>5. Take(b \o t, k) = b /\ Rest(b \o t, k) = t
    BY <1>1, TakeRest
  <1> QED BY <1>3, <1>4, <1>5 DEF b, s

\* h reads the fields of schema from s, one after the other.
ReadStep(schema, s, h, i) ==
  IF i = 0 THEN [fields |-> {}, rest |-> s] ELSE ReadFields(h[i - 1], schema[i])
Reads(schema, s, n, h) == h = [i \in 0..n |-> ReadStep(schema, s, h, i)]

\* There is such a reading of any number of fields.
LEMMA ReadsExists ==
  ASSUME NEW schema, NEW s, NEW n \in Nat
  PROVE  \E h : Reads(schema, s, n, h)
  <1> DEFINE T == {k \in Nat : \E h : Reads(schema, s, k, h)}
  <1>1. 0 \in T
    <2> DEFINE h == [i \in 0..0 |-> [fields |-> {}, rest |-> s]]
    <2>1. h = [i \in 0..0 |-> ReadStep(schema, s, h, i)]
      BY DEF ReadStep
    <2> HIDE DEF h
    <2> QED BY <2>1 DEF Reads
  <1>2. ASSUME NEW k \in T PROVE k + 1 \in T
    <2>1. k \in Nat
      OBVIOUS
    <2>2. PICK h : Reads(schema, s, k, h)
      OBVIOUS
    <2>3. h = [i \in 0..k |-> ReadStep(schema, s, h, i)]
      BY <2>2 DEF Reads
    <2> DEFINE g == [i \in 0..k + 1 |->
                       IF i = k + 1 THEN ReadStep(schema, s, h, k + 1) ELSE h[i]]
    <2>4. ASSUME NEW i \in 0..k + 1 PROVE g[i] = ReadStep(schema, s, g, i)
      <3>1. i = 0 \/ (i - 1 \in 0..k /\ i - 1 \in 0..k + 1 /\ i - 1 # k + 1)
        BY <2>1
      <3>2. i = 0 \/ g[i - 1] = h[i - 1]
        BY <3>1
      <3>3. ReadStep(schema, s, g, i) = ReadStep(schema, s, h, i)
        <4> HIDE DEF g
        <4> QED BY <3>2 DEF ReadStep
      <3>4. CASE i = k + 1
        BY <3>3, <3>4
      <3>5. CASE i # k + 1
        <4>1. i \in 0..k
          BY <2>1, <3>5
        <4> QED BY <2>3, <3>3, <3>5, <4>1
      <3> QED BY <3>4, <3>5
    <2>5. g = [i \in 0..k + 1 |-> g[i]]
      OBVIOUS
    <2> HIDE DEF g
    <2>6. Reads(schema, s, k + 1, g)
      BY <2>4, <2>5 DEF Reads
    <2> QED BY <2>1, <2>6
  <1>3. T = Nat
    <2> HIDE DEF T
    <2>1. T \in SUBSET Nat
      BY DEF T
    <2> QED BY <1>1, <1>2, <2>1, Induction
  <1> QED BY <1>3

\* ReadRow is the reading of all fields.
LEMMA ReadRowReads ==
  ASSUME NEW schema, NEW s, Len(schema) \in Nat
  PROVE  \E h : Reads(schema, s, Len(schema), h) /\ ReadRow(schema, s) = h[Len(schema)]
  <1> DEFINE P(h) == Reads(schema, s, Len(schema), h)
  <1>1. ReadRow(schema, s) = (CHOOSE h : P(h))[Len(schema)]
    BY Zenon DEF ReadRow, Reads, ReadStep
  <1>2. \E h : P(h)
    BY ReadsExists
  <1> HIDE DEF P
  <1>3. P(CHOOSE h : P(h))
    BY <1>2
  <1> QED BY <1>1, <1>3, Zenon DEF P

\* What an object of a class is: as many elements of each field as there are.
Fits(schema, lens) == \A i \in 1..Len(schema) : lens[schema[i].name] \in Nat

\* What is read of an object: each field with its bytes.
Expected(schema, row, lens) ==
  {<<f.name, Bytes(f, row, lens[f.name])>> : f \in ToSet(schema)}

\* The fields of a row, as they are written.
Pieces(schema, row, lens) ==
  [i \in 1..Len(schema) |-> WriteField(schema[i], row, lens[schema[i].name])]

\* A row is its fields, one after the other.
LEMMA PiecesWritten ==
  ASSUME NEW names, NEW schema \in Seq(FieldsOf(names)), NEW row \in Nat, NEW lens,
         Fits(schema, lens)
  PROVE  /\ Pieces(schema, row, lens) \in Seq(Seq(Cells(names)))
         /\ Len(Pieces(schema, row, lens)) = Len(schema)
         /\ WriteRow(schema, row, lens) = Left(Pieces(schema, row, lens), 0)
         /\ WriteRow(schema, row, lens) \in Seq(Cells(names))
  <1> DEFINE q == Pieces(schema, row, lens)
  <1>1. Len(schema) \in Nat
    BY LenProperties
  <1>2. \A i \in 1..Len(schema) :
          WriteField(schema[i], row, lens[schema[i].name]) \in Seq(Cells(names))
    <2> TAKE i \in 1..Len(schema)
    <2>1. schema[i] \in FieldsOf(names) /\ lens[schema[i].name] \in Nat
      BY ElementOfSeq DEF Fits
    <2> QED BY <2>1, FieldWritten
  <1>3. q \in Seq(Seq(Cells(names))) /\ Len(q) = Len(schema)
    BY <1>1, <1>2 DEF Pieces
  <1>4. WriteRow(schema, row, lens) = FlattenSeq(q)
    BY DEF WriteRow, Pieces
  <1> HIDE DEF q
  <1>5. 0 \in 0..Len(q)
    BY <1>1, <1>3
  <1>6. FlattenSeq(q) = Left(q, 0) /\ Left(q, 0) \in Seq(Cells(names))
    BY <1>3, <1>5, LeftStep
  <1> QED BY <1>3, <1>4, <1>6 DEF q

\* An object is read back, whatever follows: every field gets its bytes.
LEMMA RowReads ==
  ASSUME NEW names, NEW schema \in Seq(FieldsOf(names)), NEW row \in Nat, NEW lens,
         Fits(schema, lens), NEW t \in Seq(Cells(names))
  PROVE  ReadRow(schema, WriteRow(schema, row, lens) \o t)
           = [fields |-> Expected(schema, row, lens), rest |-> t]
  <1> DEFINE q == Pieces(schema, row, lens)
             n == Len(schema)
             s == WriteRow(schema, row, lens) \o t
             Value(i) == <<schema[i].name, Bytes(schema[i], row, lens[schema[i].name])>>
             State(k) == [fields |-> {Value(i) : i \in 1..k}, rest |-> Left(q, k) \o t]
  <1>1. /\ q \in Seq(Seq(Cells(names))) /\ Len(q) = n /\ n \in Nat
        /\ WriteRow(schema, row, lens) = Left(q, 0)
    BY PiecesWritten, LenProperties
  <1>2. \A i \in 1..n : /\ schema[i] \in FieldsOf(names) /\ lens[schema[i].name] \in Nat
                        /\ q[i] = WriteField(schema[i], row, lens[schema[i].name])
    BY ElementOfSeq DEF Fits, Pieces
  <1> HIDE DEF q
  <1>3. \A k \in 0..n : /\ Left(q, k) \in Seq(Cells(names))
                        /\ k < n => Left(q, k) = q[k + 1] \o Left(q, k + 1)
    BY <1>1, LeftStep
  <1>4. Left(q, n) = <<>>
    <2>1. n \in 0..Len(q)
      BY <1>1
    <2> QED BY <1>1, <2>1, LeftStep
  <1>5. PICK h : Reads(schema, s, n, h) /\ ReadRow(schema, s) = h[n]
    <2> HIDE DEF s
    <2> QED BY <1>1, ReadRowReads
  <1>6. \A i \in 0..n : h[i] = ReadStep(schema, s, h, i)
    <2>1. h = [i \in 0..n |-> ReadStep(schema, s, h, i)]
      BY <1>5 DEF Reads
    <2> QED BY <2>1
  <1> DEFINE T == {k \in Nat : k <= n => h[k] = State(k)}
  <1>7. 0 \in T
    <2>1. h[0] = [fields |-> {}, rest |-> s]
      <3> HIDE DEF s
      <3>1. 0 \in 0..n
        BY <1>1
      <3> QED BY <1>6, <3>1 DEF ReadStep
    <2>2. {Value(i) : i \in 1..0} = {}
      OBVIOUS
    <2> QED BY <1>1, <2>1, <2>2
  <1>8. ASSUME NEW k \in T PROVE k + 1 \in T
    <2> SUFFICES ASSUME k + 1 <= n PROVE h[k + 1] = State(k + 1)
      OBVIOUS
    <2> DEFINE f == schema[k + 1]
               len == lens[f.name]
               u == Left(q, k + 1) \o t
    <2>1. k \in Nat /\ k \in 0..n /\ k + 1 \in 0..n /\ k + 1 \in 1..n /\ k < n
      BY <1>1
    <2>2. f \in FieldsOf(names) /\ len \in Nat /\ q[k + 1] = WriteField(f, row, len)
      BY <1>2, <2>1
    <2>3. WriteField(f, row, len) \in Seq(Cells(names)) /\ u \in Seq(Cells(names))
      BY <1>3, <2>1, <2>2, FieldWritten, ConcatProperties
    <2>4. Left(q, k) \o t = WriteField(f, row, len) \o u
      <3>1. Left(q, k + 1) \in Seq(Cells(names))
        BY <1>3, <2>1
      <3> DEFINE w == WriteField(f, row, len)
                 rest == Left(q, k + 1)
      <3>2. Left(q, k) = w \o rest
        BY <1>3, <2>1, <2>2
      <3>3. w \in Seq(Cells(names)) /\ rest \in Seq(Cells(names))
        BY <2>3, <3>1
      <3> HIDE DEF w, rest, T, State, Value, s, f, len, u
      <3>4. Left(q, k) \o t = w \o (rest \o t)
        BY <3>2, <3>3, Regroup, SMTT(30)
      <3> QED BY <3>4 DEF w, rest, u
    <2>5. ReadField(f, Left(q, k) \o t) = [value |-> Bytes(f, row, len), rest |-> u]
      <3> HIDE DEF u, f, len
      <3> QED BY <2>2, <2>3, <2>4, FieldReads
    <2>6. h[k] = State(k)
      BY <2>1
    <2>7. h[k + 1] = ReadFields(h[k], f)
      <3>1. k + 1 # 0 /\ (k + 1) - 1 = k
        BY <2>1
      <3> QED BY <1>6, <2>1, <3>1 DEF ReadStep
    <2>8. h[k + 1] = [fields |-> {Value(i) : i \in 1..k} \cup {Value(k + 1)}, rest |-> u]
      <3>1. State(k).fields = {Value(i) : i \in 1..k} /\ State(k).rest = Left(q, k) \o t
        OBVIOUS
      <3> DEFINE v == Bytes(f, row, len)
                 old == {Value(i) : i \in 1..k}
      <3>2. Value(k + 1) = <<f.name, v>>
        OBVIOUS
      <3> HIDE DEF State, u, f, v, old
      <3>3. h[k].fields = old /\ ReadField(f, h[k].rest) = [value |-> v, rest |-> u]
        BY <2>5, <2>6, <3>1 DEF old, v
      <3>4. ReadFields(h[k], f) = [fields |-> old \cup {<<f.name, v>>}, rest |-> u]
        BY <3>3 DEF ReadFields
      <3> QED BY <2>7, <3>2, <3>4 DEF old
    <2>9. {Value(i) : i \in 1..k} \cup {Value(k + 1)} = {Value(i) : i \in 1..k + 1}
      <3>1. 1..k + 1 = 1..k \cup {k + 1}
        BY <2>1
      <3> HIDE DEF Value
      <3> QED BY <3>1
    <2> QED BY <2>8, <2>9
  <1>9. T = Nat
    <2> HIDE DEF T
    <2>1. T \in SUBSET Nat
      BY DEF T
    <2> QED BY <1>7, <1>8, <2>1, Induction
  <1>10. h[n] = State(n)
    <2> HIDE DEF State, n
    <2> QED BY <1>1, <1>9
  <1>11. Left(q, n) \o t = t
    BY <1>4, ConcatEmptySeq
  <1>12. {Value(i) : i \in 1..n} = Expected(schema, row, lens)
    <2>1. ToSet(schema) = {schema[i] : i \in 1..n}
      <3>1. DOMAIN schema = 1..n
        BY <1>1
      <3> QED BY <3>1, Zenon DEF ToSet
    <2> QED BY <2>1 DEF Expected
  <1> HIDE DEF s, Value
  <1> QED BY <1>5, <1>10, <1>11, <1>12 DEF s

-----------------------------------------------------------------------------
(* The classes of the messages.                                            *)

\* A class is a sequence of fields.
IsSchema(q) == \E names : q \in Seq(FieldsOf(names))

\* Fixed and Dump are classes of as many fields as there are names.
LEMMA FieldsSchema ==
  ASSUME NEW size \in Nat, NEW q, Len(q) \in Nat
  PROVE  IsSchema(Fixed(size, q)) /\ IsSchema(Dump(size, q))
  <1> DEFINE n == Len(q)
             names == {q[i] : i \in 1..n}
             a == Fixed(size, q)
             b == Dump(size, q)
  <1>1. a = [i \in 1..n |-> Field(q[i], size, FALSE)]
    BY DEF Fixed
  <1>2. b = [i \in 1..n |-> Field(q[i], size, TRUE)]
    BY DEF Dump
  <1>3. \A i \in 1..n : /\ Field(q[i], size, FALSE) \in FieldsOf(names)
                        /\ Field(q[i], size, TRUE) \in FieldsOf(names)
    BY DEF Field, FieldsOf
  <1>4. n \in Nat
    OBVIOUS
  <1> HIDE DEF names, a, b, n
  <1>5. a \in Seq(FieldsOf(names)) /\ b \in Seq(FieldsOf(names))
    <2> DEFINE F == FieldsOf(names)
               f(i) == Field(q[i], size, FALSE)
               g(i) == Field(q[i], size, TRUE)
    <2>1. \A i \in 1..n : f(i) \in F /\ g(i) \in F
      BY <1>3
    <2>2. a = [i \in 1..n |-> f(i)] /\ b = [i \in 1..n |-> g(i)]
      BY <1>1, <1>2
    <2> HIDE DEF F, f, g
    <2>3. a \in Seq(F) /\ b \in Seq(F)
      BY <1>4, <2>1, <2>2
    <2> QED BY <2>3 DEF F
  <1> QED BY <1>5 DEF IsSchema, a, b

\* The fields of one class after those of another are a class.
LEMMA ConcatSchema ==
  ASSUME NEW a, NEW b, IsSchema(a), IsSchema(b)
  PROVE  IsSchema(a \o b)
  <1>1. PICK na : a \in Seq(FieldsOf(na))
    BY DEF IsSchema
  <1>2. PICK nb : b \in Seq(FieldsOf(nb))
    BY DEF IsSchema
  <1> DEFINE names == na \cup nb
  <1>3. FieldsOf(na) \subseteq FieldsOf(names) /\ FieldsOf(nb) \subseteq FieldsOf(names)
    BY DEF FieldsOf
  <1> HIDE DEF names
  <1>4. a \in Seq(FieldsOf(names))
    <2>1. Len(a) \in Nat /\ a = [i \in 1..Len(a) |-> a[i]]
          /\ \A i \in 1..Len(a) : a[i] \in FieldsOf(na)
      BY <1>1, ElementOfSeq, LenProperties
    <2> QED BY <1>3, <2>1
  <1>5. b \in Seq(FieldsOf(names))
    <2>1. Len(b) \in Nat /\ b = [i \in 1..Len(b) |-> b[i]]
          /\ \A i \in 1..Len(b) : b[i] \in FieldsOf(nb)
      BY <1>2, ElementOfSeq, LenProperties
    <2> QED BY <1>3, <2>1
  <1>6. a \o b \in Seq(FieldsOf(names))
    BY <1>4, <1>5, ConcatProperties
  <1> QED BY <1>6 DEF IsSchema

\* Every response is read as it is written.
LEMMA ResponsesAgree ==
  /\ IsSchema(PolylineSave) /\ PolylineLoad = PolylineSave
  /\ IsSchema(PolygonSave) /\ PolygonLoad = PolygonSave
  /\ IsSchema(LinkSave) /\ LinkLoad = LinkSave
  /\ IsSchema(NodeSave) /\ NodeLoad = NodeSave
  /\ IsSchema(PassInfoSave) /\ PassInfoLoad = PassInfoSave
  /\ IsSchema(Polygon3DInfoSave) /\ Polygon3DInfoLoad = Polygon3DInfoSave
  /\ IsSchema(Height3DInfoSave) /\ Height3DInfoLoad = Height3DInfoSave
  /\ IsSchema(ResTextSave) /\ ResTextLoad = ResTextSave
  <1> USE DEF Byte, Short, Long, GeoHeightSize
  <1>1. IsSchema(PolylineSave)
    BY FieldsSchema, ConcatSchema DEF PolylineSave
  <1>2. IsSchema(PolygonSave)
    BY FieldsSchema, ConcatSchema DEF PolygonSave
  <1>3. IsSchema(LinkSave)
    BY FieldsSchema, ConcatSchema DEF LinkSave
  <1>4. IsSchema(NodeSave)
    BY FieldsSchema, ConcatSchema DEF NodeSave
  <1>5. IsSchema(PassInfoSave)
    BY FieldsSchema, ConcatSchema DEF PassInfoSave
  <1>6. IsSchema(Polygon3DInfoSave)
    BY FieldsSchema, ConcatSchema DEF Polygon3DInfoSave
  <1>7. IsSchema(Height3DInfoSave)
    BY FieldsSchema, ConcatSchema DEF Height3DInfoSave
  <1>8. IsSchema(ResTextSave)
    BY FieldsSchema DEF ResTextSave
  <1>9. PolylineLoad = PolylineSave /\ PolygonLoad = PolygonSave /\ LinkLoad = LinkSave
    BY Zenon DEF PolylineSave, PolylineLoad, PolygonSave, PolygonLoad, LinkSave, LinkLoad
  <1>10. NodeLoad = NodeSave /\ PassInfoLoad = PassInfoSave
    BY Zenon DEF NodeSave, NodeLoad, PassInfoSave, PassInfoLoad
  <1>11. /\ Polygon3DInfoLoad = Polygon3DInfoSave /\ Height3DInfoLoad = Height3DInfoSave
         /\ ResTextLoad = ResTextSave
    BY Zenon DEF Polygon3DInfoSave, Polygon3DInfoLoad, Height3DInfoSave, Height3DInfoLoad,
       ResTextSave, ResTextLoad
  <1> QED BY <1>1, <1>2, <1>3, <1>4, <1>5, <1>6, <1>7, <1>8, <1>9, <1>10, <1>11

\* So is every request.
LEMMA RequestsAgree ==
  /\ IsSchema(ReqIntSave) /\ ReqIntLoad = ReqIntSave
  /\ IsSchema(ReqEllipseAreaSave) /\ ReqEllipseAreaLoad = ReqEllipseAreaSave
  /\ IsSchema(ReqEllipseLoadtypeAreaSave)
  /\ ReqEllipseLoadtypeAreaLoad = ReqEllipseLoadtypeAreaSave
  /\ IsSchema(ReqMapidSave) /\ ReqMapidLoad = ReqMapidSave
  /\ IsSchema(ReqLoadtypeMapidSave) /\ ReqLoadtypeMapidLoad = ReqLoadtypeMapidSave
  <1> USE DEF Short, AreaSize
  <1>1. IsSchema(ReqIntSave) /\ IsSchema(ReqMapidSave)
    BY FieldsSchema DEF ReqIntSave, ReqMapidSave
  <1>2. IsSchema(ReqEllipseAreaSave)
    BY FieldsSchema, ConcatSchema DEF ReqEllipseAreaSave
  <1>3. IsSchema(ReqEllipseLoadtypeAreaSave)
    BY FieldsSchema, ConcatSchema DEF ReqEllipseLoadtypeAreaSave
  <1>4. IsSchema(ReqLoadtypeMapidSave)
    BY FieldsSchema, ConcatSchema DEF ReqLoadtypeMapidSave
  <1>5. /\ ReqIntLoad = ReqIntSave /\ ReqEllipseAreaLoad = ReqEllipseAreaSave
        /\ ReqEllipseLoadtypeAreaLoad = ReqEllipseLoadtypeAreaSave
        /\ ReqMapidLoad = ReqMapidSave /\ ReqLoadtypeMapidLoad = ReqLoadtypeMapidSave
    BY Zenon DEF ReqIntSave, ReqIntLoad, ReqEllipseAreaSave, ReqEllipseAreaLoad,
       ReqEllipseLoadtypeAreaSave, ReqEllipseLoadtypeAreaLoad, ReqMapidSave, ReqMapidLoad,
       ReqLoadtypeMapidSave, ReqLoadtypeMapidLoad
  <1> QED BY <1>1, <1>2, <1>3, <1>4, <1>5

\* Both ends agree on the class of every id.
LEMMA Schemas ==
  ASSUME NEW m \in RequestIds \cup ResponseIds
  PROVE  IsSchema(SaveSchema(m)) /\ LoadSchema(m) = SaveSchema(m)
  BY ResponsesAgree, RequestsAgree DEF SaveSchema, LoadSchema, RequestIds, ResponseIds

-----------------------------------------------------------------------------
(* The message on its way.                                                 *)

\* The rows as they are written.
RowsWritten == [i \in 1..Len(rows) |-> WriteRow(SaveSchema(id), i, rows[i])]

\* A message has objects of its class, and one unless it is a vector of rows.
MessageOK ==
  /\ id \in RequestIds \cup ResponseIds
  /\ Len(rows) \in Nat
  /\ \A i \in 1..Len(rows) : Fits(SaveSchema(id), rows[i])
  /\ id \notin Vectors => Len(rows) = 1

\* What has been read is what was written.
LoadedOK ==
  /\ Len(loadedRows) \in 0..expected /\ expected \in Nat
  /\ loadedRows = [i \in 1..Len(loadedRows) |-> Expected(SaveSchema(id), i, rows[i])]

\* What the archive still holds: the rows that have not been read.
StreamOK ==
  /\ phase \in {"made", "sent"} => expected = 0
  /\ phase = "sent" =>
       stream = (IF id \in Vectors THEN CountCells(Len(rows)) ELSE <<>>)
                \o FlattenSeq(RowsWritten)
  /\ phase \in {"loading", "loaded"} =>
       expected = Len(rows) /\ stream = Left(RowsWritten, Len(loadedRows))
  /\ phase = "loaded" => Len(loadedRows) = Len(rows)

\* The inductive invariant.
ArchiveIInv ==
  /\ MessageOK /\ LoadedOK /\ StreamOK
  /\ phase \in {"made", "sent", "loading", "loaded"}
  /\ tag \in {NONE, "N", "Z", "L"}

\* The rows are written as sequences of cells.
LEMMA RowsAreCells ==
  ASSUME MessageOK
  PROVE  \E names : /\ SaveSchema(id) \in Seq(FieldsOf(names))
                    /\ RowsWritten \in Seq(Seq(Cells(names)))
                    /\ Len(RowsWritten) = Len(rows)
  <1>1. PICK names : SaveSchema(id) \in Seq(FieldsOf(names))
    BY Schemas DEF MessageOK, IsSchema
  <1>2. \A i \in 1..Len(rows) : WriteRow(SaveSchema(id), i, rows[i]) \in Seq(Cells(names))
    <2> TAKE i \in 1..Len(rows)
    <2>1. i \in Nat /\ Fits(SaveSchema(id), rows[i])
      BY DEF MessageOK
    <2> QED BY <1>1, <2>1, PiecesWritten
  <1> DEFINE S == Seq(Cells(names))
             w(i) == WriteRow(SaveSchema(id), i, rows[i])
  <1>3. RowsWritten = [i \in 1..Len(rows) |-> w(i)] /\ Len(rows) \in Nat
        /\ \A i \in 1..Len(rows) : w(i) \in S
    BY <1>2 DEF RowsWritten, MessageOK
  <1> HIDE DEF S, w
  <1>4. RowsWritten \in Seq(S) /\ Len(RowsWritten) = Len(rows)
    BY <1>3
  <1> QED BY <1>1, <1>4 DEF S

\* The bounds on counts are natural numbers.
LEMMA BoundsAreNat == MaxRows \in Nat /\ Lengths \subseteq Nat
  <1>1. IntMax \in Int
    BY SMT DEF IntMax
  <1> QED BY <1>1, ArchiveAssumption

\* An object of a class has a number of elements for each field.
LEMMA ObjectsFit ==
  ASSUME NEW schema, IsSchema(schema), NEW object \in Objects(schema)
  PROVE  Fits(schema, object)
  <1>1. PICK names : schema \in Seq(FieldsOf(names))
    BY DEF IsSchema
  <1>2. PICK lens \in [Counted(schema) -> Lengths] :
          object = [f \in Names(schema) |-> IF f \in Counted(schema) THEN lens[f] ELSE 1]
    BY DEF Objects
  <1>3. \A i \in 1..Len(schema) : schema[i].name \in Names(schema)
    <2>1. DOMAIN schema = 1..Len(schema)
      BY <1>1
    <2> QED BY <2>1, Zenon DEF Names, ToSet
  <1>4. \A f \in Counted(schema) : lens[f] \in Nat
    BY <1>2, BoundsAreNat
  <1> QED BY <1>2, <1>3, <1>4 DEF Fits

\* The invariant holds at the start.
LEMMA ArchiveStart == ArchiveInit => ArchiveIInv
  <1> SUFFICES ASSUME ArchiveInit PROVE ArchiveIInv
    OBVIOUS
  <1>1. id \in RequestIds \cup ResponseIds
    BY DEF ArchiveInit
  <1>2. PICK object \in Objects(SaveSchema(id)), n \in 0..MaxRows :
          (id \notin Vectors => n = 1) /\ rows = [i \in 1..n |-> object]
    BY DEF ArchiveInit
  <1>3. n \in Nat /\ Len(rows) = n /\ \A i \in 1..n : rows[i] = object
    BY <1>2, BoundsAreNat
  <1>4. MessageOK
    BY <1>1, <1>2, <1>3, Schemas, ObjectsFit DEF MessageOK
  <1>5. phase = "made" /\ tag = NONE /\ expected = 0 /\ loadedRows = <<>>
    BY DEF ArchiveInit
  <1>6. LoadedOK
    <2>1. Len(loadedRows) = 0
      BY <1>5
    <2>2. <<>> = [i \in 1..0 |-> Expected(SaveSchema(id), i, rows[i])]
      OBVIOUS
    <2> QED BY <1>5, <2>1, <2>2 DEF LoadedOK
  <1>7. StreamOK
    BY <1>5 DEF StreamOK
  <1> QED BY <1>4, <1>5, <1>6, <1>7 DEF ArchiveIInv

\* What is read of a message goes where it was, if nothing is read.
LEMMA LoadedKept ==
  ASSUME LoadedOK, UNCHANGED <<id, rows, loadedRows>>, expected' \in Nat,
         Len(loadedRows) <= expected'
  PROVE  LoadedOK'
  BY DEF LoadedOK

\* The other end reads one more row, and it is the next one.
LEMMA RowLoaded ==
  ASSUME ArchiveIInv, LoadRow
  PROVE  ArchiveIInv'
  <1> DEFINE k == Len(loadedRows)
             schema == SaveSchema(id)
             lens == rows[k + 1]
             t == Left(RowsWritten, k + 1)
             E(i) == Expected(SaveSchema(id), i, rows[i])
  <1>1. /\ phase = "loading" /\ k < expected /\ expected = Len(rows)
        /\ stream = Left(RowsWritten, k) /\ MessageOK
        /\ k \in Nat /\ expected \in Nat /\ LoadSchema(id) = schema
    BY Schemas DEF ArchiveIInv, LoadRow, StreamOK, LoadedOK, MessageOK
  <1>2. /\ loadedRows' = Append(loadedRows, ReadRow(schema, stream).fields)
        /\ stream' = ReadRow(schema, stream).rest
        /\ UNCHANGED <<id, rows, phase, tag, expected>>
    BY <1>1 DEF LoadRow
  <1>3. PICK names : /\ schema \in Seq(FieldsOf(names))
                     /\ RowsWritten \in Seq(Seq(Cells(names)))
                     /\ Len(RowsWritten) = Len(rows)
    BY <1>1, RowsAreCells
  <1>4. /\ t \in Seq(Cells(names))
        /\ Left(RowsWritten, k) = RowsWritten[k + 1] \o t
    <2>1. k \in 0..Len(RowsWritten) /\ k + 1 \in 0..Len(RowsWritten) /\ k < Len(RowsWritten)
      BY <1>1, <1>3
    <2> QED BY <1>3, <2>1, LeftStep
  <1>5. k + 1 \in 1..Len(rows) /\ k + 1 \in Nat
    BY <1>1
  <1>6. RowsWritten[k + 1] = WriteRow(schema, k + 1, lens) /\ Fits(schema, lens)
    BY <1>1, <1>5 DEF RowsWritten, MessageOK
  <1>7. ReadRow(schema, stream) = [fields |-> E(k + 1), rest |-> t]
    <2> DEFINE s == WriteRow(schema, k + 1, lens) \o t
    <2>1. stream = s
      BY <1>1, <1>4, <1>6
    <2>2. ReadRow(schema, s) = [fields |-> Expected(schema, k + 1, lens), rest |-> t]
      <3> HIDE DEF k, schema, lens, t
      <3> QED BY <1>3, <1>4, <1>5, <1>6, RowReads
    <2> HIDE DEF s, t
    <2> QED BY <2>1, <2>2
  <1>8. loadedRows' = Append(loadedRows, E(k + 1)) /\ stream' = t
    <2> HIDE DEF E, t
    <2> QED BY <1>2, <1>7
  <1>9. loadedRows' = [i \in 1..k + 1 |-> E(i)] /\ Len(loadedRows') = k + 1
    <2>1. loadedRows = [i \in 1..k |-> E(i)]
      BY DEF ArchiveIInv, LoadedOK
    <2> HIDE DEF E
    <2> DEFINE X == {E(i) : i \in 1..k + 1}
               l == Append(loadedRows, E(k + 1))
    <2>2. loadedRows \in Seq(X) /\ E(k + 1) \in X
      BY <1>1, <2>1
    <2> HIDE DEF X, k
    <2>3. /\ l \in Seq(X) /\ Len(l) = k + 1 /\ l[k + 1] = E(k + 1)
          /\ \A i \in 1..k : l[i] = loadedRows[i]
      BY <2>2, AppendProperties DEF k
    <2> HIDE DEF l
    <2>4. \A i \in 1..k + 1 : l[i] = E(i)
      BY <1>1, <2>1, <2>3
    <2>5. l = [i \in 1..Len(l) |-> l[i]]
      BY <2>3
    <2>6. l = [i \in 1..k + 1 |-> E(i)]
      BY <2>3, <2>4, <2>5
    <2> QED BY <1>8, <2>3, <2>6 DEF l
  <1>10. MessageOK'
    BY <1>1, <1>2 DEF MessageOK
  <1>11. RowsWritten' = RowsWritten
    BY <1>2 DEF RowsWritten
  <1>12. LoadedOK'
    <2>1. Len(loadedRows') \in 0..expected' /\ expected' \in Nat
      BY <1>1, <1>2, <1>9
    <2>2. loadedRows' = [i \in 1..Len(loadedRows') |-> Expected(SaveSchema(id'), i, rows'[i])]
      BY <1>2, <1>9
    <2> QED BY <2>1, <2>2 DEF LoadedOK
  <1>13. StreamOK'
    <2>1. stream' = Left(RowsWritten, Len(loadedRows'))
      BY <1>8, <1>9
    <2> QED BY <1>1, <1>2, <1>11, <2>1 DEF StreamOK
  <1> QED BY <1>2, <1>10, <1>12, <1>13 DEF ArchiveIInv

\* Every step of a message on its way keeps the invariant.
LEMMA ArchiveStep == ArchiveIInv /\ [ArchiveNext]_archiveVars => ArchiveIInv'
  <1> SUFFICES ASSUME ArchiveIInv, [ArchiveNext]_archiveVars PROVE ArchiveIInv'
    OBVIOUS
  <1>1. CASE Save
    <2>1. /\ phase = "made" /\ phase' = "sent" /\ tag' \in {NONE, "N", "Z", "L"}
          /\ stream' = (IF id \in Vectors THEN CountCells(Len(rows)) ELSE <<>>)
                       \o FlattenSeq(RowsWritten)
          /\ UNCHANGED <<id, rows, expected, loadedRows>>
      BY <1>1 DEF Save, RowsWritten
    <2>2. MessageOK' /\ RowsWritten' = RowsWritten
      BY <2>1 DEF ArchiveIInv, MessageOK, RowsWritten
    <2>3. LoadedOK'
      BY <2>1 DEF ArchiveIInv, LoadedOK
    <2>4. StreamOK'
      BY <2>1, <2>2 DEF ArchiveIInv, StreamOK
    <2> QED BY <2>1, <2>2, <2>3, <2>4 DEF ArchiveIInv
  <1>2. CASE LoadFrom
    <2> DEFINE all == FlattenSeq(RowsWritten)
    <2>1. /\ phase = "sent" /\ phase' = "loading"
          /\ expected' = IF id \in Vectors THEN ReadCount(stream) ELSE 1
          /\ stream' = IF id \in Vectors THEN Rest(stream, 4) ELSE stream
          /\ UNCHANGED <<id, rows, tag, loadedRows>>
      BY <1>2 DEF LoadFrom
    <2>2. /\ stream = (IF id \in Vectors THEN CountCells(Len(rows)) ELSE <<>>) \o all
          /\ expected = 0 /\ Len(loadedRows) = 0 /\ MessageOK /\ LoadedOK /\ Len(rows) \in Nat
      BY <2>1 DEF ArchiveIInv, StreamOK, LoadedOK, MessageOK
    <2>3. PICK names : RowsWritten \in Seq(Seq(Cells(names)))
                       /\ Len(RowsWritten) = Len(rows)
      BY <2>2, RowsAreCells
    <2>4. all = Left(RowsWritten, 0) /\ all \in Seq(Cells(names))
      <3>1. 0 \in 0..Len(RowsWritten)
        BY <2>2, <2>3
      <3> QED BY <2>3, <3>1, LeftStep
    <2>5. expected' = Len(rows) /\ stream' = all
      <3> HIDE DEF all
      <3>1. CASE id \in Vectors
        <4>1. stream = CountCells(Len(rows)) \o all
          BY <2>2, <3>1
        <4>2. ReadCount(stream) = Len(rows) /\ Rest(stream, 4) = all
          BY <2>2, <2>4, <4>1, CountReads
        <4> QED BY <2>1, <3>1, <4>2
      <3>2. CASE id \notin Vectors
        <4>1. Len(rows) = 1 /\ stream = <<>> \o all
          BY <2>2, <3>2 DEF MessageOK
        <4>2. <<>> \o all = all
          BY <2>4, ConcatEmptySeq
        <4> QED BY <2>1, <3>2, <4>1, <4>2
      <3> QED BY <3>1, <3>2
    <2>6. MessageOK' /\ RowsWritten' = RowsWritten
      BY <2>1, <2>2 DEF MessageOK, RowsWritten
    <2>7. LoadedOK'
      BY <2>1, <2>2, <2>5, LoadedKept
    <2>8. StreamOK'
      BY <2>1, <2>2, <2>4, <2>5, <2>6 DEF StreamOK
    <2> QED BY <2>1, <2>6, <2>7, <2>8 DEF ArchiveIInv
  <1>3. CASE LoadRow
    BY <1>3, RowLoaded
  <1>4. CASE EndLoad
    <2>1. /\ phase = "loading" /\ Len(loadedRows) = expected /\ phase' = "loaded"
          /\ UNCHANGED <<id, rows, tag, stream, expected, loadedRows>>
      BY <1>4 DEF EndLoad
    <2>2. MessageOK' /\ RowsWritten' = RowsWritten
      BY <2>1 DEF ArchiveIInv, MessageOK, RowsWritten
    <2>3. LoadedOK'
      BY <2>1 DEF ArchiveIInv, LoadedOK
    <2>4. StreamOK'
      BY <2>1, <2>2 DEF ArchiveIInv, StreamOK
    <2> QED BY <2>1, <2>2, <2>3, <2>4 DEF ArchiveIInv
  <1>5. CASE UNCHANGED archiveVars
    <2>1. UNCHANGED <<id, rows, phase, tag, stream, expected, loadedRows>>
      BY <1>5 DEF archiveVars
    <2>2. MessageOK' /\ RowsWritten' = RowsWritten
      BY <2>1 DEF ArchiveIInv, MessageOK, RowsWritten
    <2>3. LoadedOK'
      BY <2>1 DEF ArchiveIInv, LoadedOK
    <2>4. StreamOK'
      BY <2>1, <2>2 DEF ArchiveIInv, StreamOK
    <2> QED BY <2>1, <2>2, <2>3, <2>4 DEF ArchiveIInv
  <1> QED BY <1>1, <1>2, <1>3, <1>4, <1>5 DEF ArchiveNext

\* The invariant is what was wanted: the archive is empty at the end.
LEMMA ArchiveSound == ArchiveIInv => ArchiveInv
  <1> SUFFICES ASSUME ArchiveIInv PROVE ArchiveInv
    OBVIOUS
  <1>1. ArchiveTypeOK
    BY DEF ArchiveIInv, MessageOK, LoadedOK, ArchiveTypeOK
  <1>2. \A i \in 1..Len(loadedRows) : loadedRows[i] = Expected(SaveSchema(id), i, rows[i])
    BY DEF ArchiveIInv, LoadedOK
  <1>3. ASSUME phase = "loaded" PROVE Len(loadedRows) = Len(rows) /\ stream = <<>>
    <2>1. /\ Len(loadedRows) = Len(rows) /\ stream = Left(RowsWritten, Len(rows))
          /\ MessageOK /\ Len(rows) \in Nat
      BY <1>3 DEF ArchiveIInv, StreamOK, MessageOK
    <2>2. PICK names : RowsWritten \in Seq(Seq(Cells(names)))
                       /\ Len(RowsWritten) = Len(rows)
      BY <2>1, RowsAreCells
    <2>3. Len(RowsWritten) \in 0..Len(RowsWritten)
      BY <2>1, <2>2
    <2>4. Left(RowsWritten, Len(RowsWritten)) = <<>>
      BY <2>2, <2>3, LeftStep
    <2> QED BY <2>1, <2>2, <2>4
  <1>4. LoadsWhatWasSaved
    BY <1>2, <1>3 DEF LoadsWhatWasSaved, Expected
  <1> QED BY <1>1, <1>4 DEF ArchiveInv

\* The invariant of a message on its way holds throughout.
THEOREM ArchiveIsInvariant == ArchiveSpec => []ArchiveIInv
  BY ArchiveStart, ArchiveStep, PTL DEF ArchiveSpec

\* Both ends agree on every field of all 22 messages: whatever number of rows and of
\* elements there is, every member gets the bytes it had and nothing is left over
\* (ae_binary_oarchive.h:12-72, ae_binary_iarchive.h:11-68).
THEOREM ArchiveRoundTrip == ArchiveSpec => []ArchiveInv
  BY ArchiveIsInvariant, ArchiveSound, PTL
===============================================================================
