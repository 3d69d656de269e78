-------------------------- MODULE UdsExchangeProofs --------------------------
(***************************************************************************)
(* Proofs about UdsExchange for every set of callers and calls, every      *)
(* bound on the number of calls and every choice of faults.                *)
(***************************************************************************)
EXTENDS UdsExchange, UdsProtocolProofs, SequenceTheorems, TLAPS

(* What a call is made of: set_session names a session. *)
LEMMA CallType ==
  ASSUME NEW made \in Calls \union {NoCall}
  PROVE  /\ made.op \in Operations
         /\ made.request \in Requests
         /\ made.op = "set_session" => made.request.args[1] \in SessionBytes
<1>1. CASE made = NoCall
  BY <1>1 DEF NoCall, Operations, EmptyRequest, Requests, Services, NoService,
              SessionControl
<1>2. CASE made \in Calls
  <2>1. made.op \in Operations /\ made.request \in Requests
    BY <1>2, ClientAssumption DEF CallRecords
  <2>2. ASSUME made.op = "set_session"
        PROVE  made.request.args[1] \in SessionBytes
    <3>1. made.request.sid = SessionControl /\ Len(made.request.args) = 1
      BY <1>2, <2>2, ClientAssumption
    <3>2. made.request.args \in Seq(SessionBytes)
      BY <2>1, <3>1 DEF Requests, Services
    <3> QED BY <3>1, <3>2
  <2> QED BY <2>1, <2>2
<1> QED BY <1>1, <1>2

(* Whatever response a call reads, it returns a result. *)
LEMMA ResultType ==
  ASSUME NEW made, NEW response \in Responses
  PROVE  ResultOf(made, response) \in Results
<1>1. \A nrc \in NRCs : Failure(nrc) \in Results
  BY DEF Failure, Results
<1>2. response.nrc \in NRCs /\ response.args \in Seq(Items)
  BY DEF Responses
<1>3. "NO_ERROR" \in NRCs /\ "GENERAL_REJECT" \in NRCs
  BY DEF NRCs
<1>4. SetSessionResult(made.request, response) \in Results
  <2>1. [success |-> TRUE, nrc |-> "NO_ERROR", args |-> <<>>] \in Results
    BY <1>3 DEF Results
  <2> QED BY <1>1, <1>2, <1>3, <2>1 DEF SetSessionResult
<1>5. SendRequestResult(made.request, response) \in Results
  <2>1. [success |-> TRUE, nrc |-> "NO_ERROR", args |-> response.args]
          \in Results
    BY <1>2, <1>3 DEF Results
  <2> QED BY <1>1, <1>2, <1>3, <2>1 DEF SendRequestResult
<1> QED BY <1>4, <1>5 DEF ResultOf

(* The responder of the instance and the one of UdsProtocol are the same.  *)
LEMMA ServerProtocol ==
  ASSUME NEW request, NEW session
  PROVE  /\ Server!HandleRequest(request, session) = HandleRequest(request, session)
         /\ Server!SessionAfter(request, session) = SessionAfter(request, session)
BY DEF Server!HandleRequest, Server!SessionAfter, Server!HandleSessionControl,
       Server!ReadDataHandler, Server!Positive, Server!Negative,
       Server!AllowedSessions, Server!SessionControl, Server!ReadData,
       Server!EcuReset, Server!NoService,
       HandleRequest, SessionAfter, HandleSessionControl, ReadDataHandler,
       Positive, Negative, AllowedSessions, SessionControl, ReadData, EcuReset,
       NoService

(* The state has its type at the start ... *)
LEMMA TypeInitially == Init => TypeOK
<1> SUFFICES ASSUME Init PROVE TypeOK
  OBVIOUS
<1> USE DEF Init, ClientInit
<1>1. NoResult \in Results
  BY DEF NoResult, Results, NRCs
<1>2. "DEFAULT" \in SessionBytes
  BY DEF SessionBytes, SupportedSessions
<1>3. /\ pc \in [Callers -> {"idle", "lock", "send", "receive"}]
      /\ call \in [Callers -> Calls \union {NoCall}]
      /\ result \in [Callers -> Results]
  BY <1>1
<1>4. toServer \in Seq(Requests) /\ toClient \in Seq(Responses)
  OBVIOUS
<1>5. outOfStep \in BOOLEAN
  OBVIOUS
<1> QED BY <1>2, <1>3, <1>4, <1>5 DEF TypeOK, ClientTypeOK

(* ... and keeps it in every step of a caller, the server and the link. *)
LEMMA TypeStep == TypeOK /\ [Next]_exchangeVars => TypeOK'
<1> SUFFICES ASSUME TypeOK, [Next]_exchangeVars
             PROVE  TypeOK'
  OBVIOUS
<1> USE DEF TypeOK, ClientTypeOK
<1>1. ASSUME NEW c \in Callers, Begin(c), UNCHANGED serverSession
      PROVE  TypeOK'
  <2>1. NoResult \in Results
    BY DEF NoResult, Results, NRCs
  <2> QED BY <1>1, <2>1 DEF Begin
<1>2. ASSUME NEW c \in Callers, Lock(c), UNCHANGED serverSession
      PROVE  TypeOK'
  BY <1>2 DEF Lock
<1>3. ASSUME NEW c \in Callers, Write(call[c].request)
      PROVE  toServer' \in Seq(Requests) /\ lost' \subseteq Losses
  <2>1. toServer' \in Seq(Requests)
    BY <1>3, CallType DEF Write
  <2>2. lost' = lost \/ lost' = lost \union {"request"}
    BY <1>3 DEF Write
  <2> QED BY <2>1, <2>2 DEF Losses
<1>4. ASSUME NEW c \in Callers, Send(c), UNCHANGED serverSession
      PROVE  TypeOK'
  BY <1>3, <1>4 DEF Send
<1>5. ASSUME NEW c \in Callers, NEW value \in Results, Return(c, value)
      PROVE  /\ pc' \in [Callers -> {"idle", "lock", "send", "receive"}]
             /\ call' \in [Callers -> Calls \union {NoCall}]
             /\ result' \in [Callers -> Results]
             /\ tx_mutex' \in Callers \union {"free"}
             /\ begun' \in Nat
  BY <1>5 DEF Return
<1>6. \A nrc \in NRCs : Failure(nrc) \in Results
  BY DEF Failure, Results
<1>7. "TIMEOUT" \in NRCs /\ "GENERAL_REJECT" \in NRCs /\ NoResult \in Results
  BY DEF NRCs, NoResult, Results
<1>8. ASSUME NEW c \in Callers, SendNoResponse(c), UNCHANGED serverSession
      PROVE  TypeOK'
  BY <1>3, <1>5, <1>7, <1>8 DEF SendNoResponse, GiveUp
<1>9. ASSUME NEW c \in Callers, SetTimeoutFails(c), UNCHANGED serverSession
      PROVE  TypeOK'
  BY <1>5, <1>6, <1>7, <1>9 DEF SetTimeoutFails
<1>10. ASSUME NEW c \in Callers, Receive(c), UNCHANGED serverSession
       PROVE  TypeOK'
  <2>1. Head(toClient) \in Responses /\ Tail(toClient) \in Seq(Responses)
    BY <1>10 DEF Receive
  <2>2. ResultOf(call[c], Head(toClient)) \in Results
    BY <2>1, ResultType
  <2>3. currentSession' \in SessionBytes
    BY <1>10, CallType DEF Receive
  <2> QED BY <1>5, <1>10, <2>1, <2>2, <2>3 DEF Receive
<1>11. ASSUME NEW c \in Callers, Timeout(c), UNCHANGED serverSession
       PROVE  TypeOK'
  BY <1>5, <1>6, <1>7, <1>11 DEF Timeout, GiveUp
<1>12. ASSUME NEW c \in Callers, ReceiveFails(c), UNCHANGED serverSession
       PROVE  TypeOK'
  BY <1>5, <1>6, <1>7, <1>12 DEF ReceiveFails, GiveUp
<1>13. ASSUME Server!Consume
       PROVE  /\ Head(toServer) \in Requests
              /\ toServer' \in Seq(Requests)
              /\ serverSession' \in SessionBytes
  <2>1. Head(toServer) \in Requests
    BY <1>13 DEF Server!Consume
  <2> QED BY <1>13, <2>1, AnswerType, ServerProtocol DEF Server!Consume
<1>14. CASE ServerAnswers
  <2>1. HandleRequest(Head(toServer), serverSession) \in Responses
    BY <1>13, <1>14, AnswerType DEF ServerAnswers, Server!Answer
  <2> QED BY <1>13, <1>14, <2>1, ServerProtocol
          DEF ServerAnswers, Server!Answer, callerVars
<1>15. CASE ResponseIsLost
  BY <1>13, <1>15 DEF ResponseIsLost, Server!Lose, callerVars, Losses
<1>16. CASE ServerRestarts
  <2>1. toServer' \in Seq(Requests) /\ serverSession' \in SessionBytes
    BY <1>16 DEF ServerRestarts, Server!Forget, SessionBytes, SupportedSessions
  <2> QED BY <1>16, <2>1 DEF ServerRestarts, Server!Forget, callerVars, Losses
<1>17. CASE UNCHANGED exchangeVars
  BY <1>17 DEF exchangeVars, clientVars, callerVars
<1> QED
  BY <1>1, <1>2, <1>4, <1>8, <1>9, <1>10, <1>11, <1>12, <1>14, <1>15, <1>16,
     <1>17
  DEF Next, ClientNext, CallStep

(* The types of the state hold in every reachable state: in particular     *)
(* every call returns a result and both sessions are session bytes.        *)
THEOREM TypeCorrect == Spec => []TypeOK
BY TypeInitially, TypeStep, PTL DEF Spec

-----------------------------------------------------------------------------
(* A call holds the lock from its write to its read. *)
LockHeld ==
  \A c \in Callers : tx_mutex = c <=> pc[c] \in {"send", "receive"}

(* What is under way while caller c, and nobody before it, waits: nothing, *)
(* its request, or the response to its request.                            *)
OnlyFor(c) ==
  \/ toServer = <<>> /\ toClient = <<>>
  \/ toServer = <<call[c].request>> /\ toClient = <<>>
  \/ /\ toServer = <<>>
     /\ \E s \in SessionBytes :
          toClient = <<HandleRequest(call[c].request, s)>>

InStep ==
  ~outOfStep =>
    /\ \A c \in Callers : pc[c] = "receive" => OnlyFor(c)
    /\ Waiting = {} => toServer = <<>> /\ toClient = <<>>

(* The inductive invariant: the response a call reads is its own because   *)
(* nothing else is under way, which holds because the lock is held.        *)
IInv ==
  /\ TypeOK
  /\ LockHeld
  /\ InStep
  /\ AnswersOwnCall

(* All callers idle and nothing written: the invariant holds at the start. *)
LEMMA InitIInv == Init => IInv
<1> SUFFICES ASSUME Init PROVE IInv
  OBVIOUS
<1>1. TypeOK
  BY TypeInitially
<1>2. LockHeld
  BY ClientAssumption DEF Init, ClientInit, LockHeld
<1>3. InStep
  BY DEF Init, ClientInit, InStep
<1>4. AnswersOwnCall
  BY DEF Init, ClientInit, AnswersOwnCall
<1> QED BY <1>1, <1>2, <1>3, <1>4 DEF IInv

(* Only the holder of tx_mutex is between Lock and Return. *)
LEMMA LockStep ==
  ASSUME TypeOK, LockHeld, [Next]_exchangeVars
  PROVE  LockHeld'
<1> USE DEF TypeOK, ClientTypeOK, LockHeld
<1>1. ASSUME NEW c \in Callers, Begin(c)
      PROVE  LockHeld'
  BY <1>1 DEF Begin
<1>2. ASSUME NEW c \in Callers, Lock(c)
      PROVE  LockHeld'
  BY <1>2, ClientAssumption DEF Lock
<1>3. ASSUME NEW c \in Callers, Send(c)
      PROVE  LockHeld'
  BY <1>3 DEF Send
<1>4. ASSUME NEW c \in Callers, NEW value, Return(c, value),
             pc[c] \in {"send", "receive"}
      PROVE  LockHeld'
  BY <1>4, ClientAssumption DEF Return
<1>5. ASSUME NEW c \in Callers,
             \/ SendNoResponse(c) \/ SetTimeoutFails(c) \/ Receive(c)
             \/ Timeout(c) \/ ReceiveFails(c)
      PROVE  LockHeld'
  BY <1>4, <1>5
  DEF SendNoResponse, SetTimeoutFails, Receive, Timeout, ReceiveFails
<1>6. CASE UNCHANGED <<pc, tx_mutex>>
  BY <1>6
<1>7. CASE ServerAnswers \/ ResponseIsLost \/ ServerRestarts
  BY <1>6, <1>7 DEF ServerAnswers, ResponseIsLost, ServerRestarts, callerVars
<1>8. CASE UNCHANGED exchangeVars
  BY <1>6, <1>8 DEF exchangeVars, clientVars, callerVars
<1> QED
  BY <1>1, <1>2, <1>3, <1>5, <1>7, <1>8 DEF Next, ClientNext, CallStep

(* One caller waits at a time. *)
LEMMA OneWaits ==
  ASSUME LockHeld, NEW c \in Callers, pc[c] \in {"send", "receive"}
  PROVE  \A d \in Callers : d # c => pc[d] \notin {"send", "receive"}
BY DEF LockHeld

(* The steps of a call keep the link to one message, its own, unless they  *)
(* give up with the message under way.                                     *)
LEMMA InStepStep ==
  ASSUME TypeOK, LockHeld, InStep, [Next]_exchangeVars
  PROVE  InStep'
<1> USE DEF TypeOK, ClientTypeOK
<1>1. ASSUME NEW c \in Callers, Begin(c)
      PROVE  InStep'
  <2>1. \A d \in Callers : pc'[d] = "receive" <=> pc[d] = "receive"
    BY <1>1 DEF Begin
  <2>2. \A d \in Callers : pc[d] = "receive" => call'[d] = call[d]
    BY <1>1 DEF Begin
  <2>3. UNCHANGED <<toServer, toClient, outOfStep>>
    BY <1>1 DEF Begin
  <2> QED BY <2>1, <2>2, <2>3 DEF InStep, OnlyFor, Waiting
<1>2. ASSUME NEW c \in Callers, Lock(c)
      PROVE  InStep'
  <2>1. \A d \in Callers : pc'[d] = "receive" <=> pc[d] = "receive"
    BY <1>2 DEF Lock
  <2>2. UNCHANGED <<call, toServer, toClient, outOfStep>>
    BY <1>2 DEF Lock
  <2> QED BY <2>1, <2>2 DEF InStep, OnlyFor, Waiting
<1>3. ASSUME NEW c \in Callers, pc[c] \in {"send", "receive"}
      PROVE  /\ Waiting \subseteq {c}
             /\ pc[c] = "send" => Waiting = {}
  BY <1>3, OneWaits DEF Waiting
<1>4. ASSUME NEW c \in Callers, Send(c)
      PROVE  InStep'
  <2>1. Waiting = {} /\ Waiting' = {c}
    BY <1>3, <1>4 DEF Send, Waiting
  <2>2. UNCHANGED <<call, toClient, outOfStep>>
    BY <1>4 DEF Send
  <2>3. ASSUME ~outOfStep PROVE OnlyFor(c)'
    <3>1. toServer = <<>> /\ toClient = <<>>
      BY <2>1, <2>3 DEF InStep
    <3>2. toServer' = <<>> \/ toServer' = <<call[c].request>>
      BY <1>4, <3>1 DEF Send, Write
    <3> QED BY <2>2, <3>1, <3>2 DEF OnlyFor
  <2> QED BY <2>1, <2>2, <2>3 DEF InStep, Waiting
<1>5. ASSUME NEW c \in Callers, pc[c] \in {"send", "receive"},
             NEW value, Return(c, value)
      PROVE  Waiting' = {}
  BY <1>3, <1>5 DEF Return, Waiting
<1>6. ASSUME Waiting' = {}, GiveUp
      PROVE  InStep'
  BY <1>6 DEF InStep, GiveUp, Waiting
<1>7. ASSUME NEW c \in Callers,
             SendNoResponse(c) \/ Timeout(c) \/ ReceiveFails(c)
      PROVE  InStep'
  BY <1>5, <1>6, <1>7 DEF SendNoResponse, Timeout, ReceiveFails
<1>8. ASSUME NEW c \in Callers, SetTimeoutFails(c)
      PROVE  InStep'
  <2>1. Waiting = {} /\ Waiting' = {}
    BY <1>3, <1>5, <1>8 DEF SetTimeoutFails
  <2>2. UNCHANGED <<toServer, toClient, outOfStep>>
    BY <1>8 DEF SetTimeoutFails
  <2> QED BY <2>1, <2>2 DEF InStep, Waiting
<1>9. ASSUME NEW c \in Callers, Receive(c)
      PROVE  InStep'
  <2>1. Waiting' = {}
    BY <1>5, <1>9 DEF Receive
  <2>2. UNCHANGED <<toServer, outOfStep>> /\ toClient' = Tail(toClient)
    BY <1>9 DEF Receive
  <2>3. ASSUME ~outOfStep
        PROVE  toServer' = <<>> /\ toClient' = <<>>
    <3>1. OnlyFor(c) /\ toClient # <<>>
      BY <1>9, <2>3 DEF InStep, Receive
    <3>2. PICK s \in SessionBytes :
            toServer = <<>> /\ toClient = <<HandleRequest(call[c].request, s)>>
      BY <3>1 DEF OnlyFor
    <3> QED BY <2>2, <3>2
  <2> QED BY <2>1, <2>2, <2>3 DEF InStep, Waiting
<1>10. ASSUME Server!Consume, ~outOfStep,
              UNCHANGED <<callerVars, outOfStep>>
       PROVE  \E c \in Callers :
                /\ Waiting = {c} /\ Waiting' = {c} /\ toClient = <<>>
                /\ toServer = <<call[c].request>> /\ toServer' = <<>>
  <2>1. toServer # <<>> /\ toServer' = Tail(toServer)
    BY <1>10 DEF Server!Consume
  <2>2. PICK c \in Callers : pc[c] = "receive"
    BY <1>10, <2>1 DEF InStep, Waiting
  <2>3. OnlyFor(c)
    BY <1>10, <2>2 DEF InStep
  <2>4. toServer = <<call[c].request>> /\ toClient = <<>>
    BY <2>1, <2>3 DEF OnlyFor
  <2>5. Waiting = {c} /\ Waiting' = {c}
    BY <1>3, <1>10, <2>2 DEF Waiting, callerVars
  <2> QED BY <2>1, <2>4, <2>5
<1>11. CASE ServerAnswers
  <2>1. UNCHANGED <<callerVars, outOfStep>> /\ Server!Consume
    BY <1>11 DEF ServerAnswers, Server!Answer
  <2>2. ASSUME ~outOfStep PROVE InStep'
    <3>1. PICK c \in Callers :
            /\ Waiting = {c} /\ Waiting' = {c} /\ toClient = <<>>
            /\ toServer = <<call[c].request>> /\ toServer' = <<>>
      BY <1>10, <2>1, <2>2
    <3>2. toClient' = <<HandleRequest(call[c].request, serverSession)>>
      BY <1>11, <3>1, ServerProtocol DEF ServerAnswers, Server!Answer
    <3>3. OnlyFor(c)'
      BY <2>1, <3>1, <3>2 DEF OnlyFor, callerVars
    <3> QED BY <3>1, <3>3 DEF InStep, Waiting
  <2> QED BY <2>1, <2>2 DEF InStep
<1>12. CASE ResponseIsLost
  <2>1. /\ UNCHANGED <<callerVars, outOfStep, toClient>>
        /\ Server!Consume
    BY <1>12 DEF ResponseIsLost, Server!Lose
  <2>2. ASSUME ~outOfStep PROVE InStep'
    <3>1. PICK c \in Callers :
            /\ Waiting = {c} /\ Waiting' = {c} /\ toClient = <<>>
            /\ toServer = <<call[c].request>> /\ toServer' = <<>>
      BY <1>10, <2>1, <2>2
    <3>2. OnlyFor(c)'
      BY <2>1, <3>1 DEF OnlyFor
    <3> QED BY <3>1, <3>2 DEF InStep, Waiting
  <2> QED BY <2>1, <2>2 DEF InStep
<1>13. CASE ServerRestarts
  <2>1. /\ UNCHANGED <<callerVars, outOfStep, toClient>>
        /\ toServer' = <<>>
    BY <1>13 DEF ServerRestarts, Server!Forget
  <2>2. ASSUME ~outOfStep, NEW c \in Callers, pc[c] = "receive"
        PROVE  OnlyFor(c)'
    <3>1. OnlyFor(c)
      BY <2>2 DEF InStep
    <3> QED BY <2>1, <3>1 DEF OnlyFor, callerVars
  <2> QED BY <2>1, <2>2 DEF InStep, Waiting, callerVars
<1>14. CASE UNCHANGED exchangeVars
  BY <1>14 DEF exchangeVars, clientVars, callerVars, InStep, OnlyFor, Waiting
<1> QED
  BY <1>1, <1>2, <1>4, <1>7, <1>8, <1>9, <1>11, <1>12, <1>13, <1>14
  DEF Next, ClientNext, CallStep

(* What caller c may have to show for its last call. *)
OwnResult(c) ==
  \/ result[c] \in {NoResult, Failure("TIMEOUT")} \union OwnResults(call[c])
  \/ result[c] = Failure("GENERAL_REJECT") /\ "socket_error" \in Faults

(* A call in step reads the response to its own request, so what it        *)
(* returns is its own result; nobody else's result or call changes.        *)
LEMMA AnswerStep ==
  ASSUME TypeOK, InStep, AnswersOwnCall, [Next]_exchangeVars
  PROVE  AnswersOwnCall'
<1> USE DEF TypeOK, ClientTypeOK
<1>1. ~outOfStep => \A c \in Callers : OwnResult(c)
  BY DEF AnswersOwnCall, OwnResult
<1>2. ~outOfStep' => ~outOfStep
  BY DEF Next, ClientNext, CallStep, Begin, Lock, Send, SendNoResponse,
         SetTimeoutFails, Receive, Timeout, ReceiveFails, GiveUp,
         ServerAnswers, ResponseIsLost, ServerRestarts, exchangeVars,
         clientVars
<1>3. ASSUME NEW c \in Callers, NEW value, Return(c, value),
             ~outOfStep =>
               \/ value \in {NoResult, Failure("TIMEOUT")}
                            \union OwnResults(call[c])
               \/ value = Failure("GENERAL_REJECT") /\ "socket_error" \in Faults
      PROVE  AnswersOwnCall'
  <2>1. call' = call /\ result' = [result EXCEPT ![c] = value]
    BY <1>3 DEF Return
  <2>2. ASSUME ~outOfStep', NEW d \in Callers
        PROVE  OwnResult(d)'
    <3>1. CASE d = c
      BY <1>2, <1>3, <2>1, <2>2, <3>1 DEF OwnResult, OwnResults
    <3>2. CASE d # c
      BY <1>1, <1>2, <2>1, <2>2, <3>2 DEF OwnResult, OwnResults
    <3> QED BY <3>1, <3>2
  <2> QED BY <2>2 DEF AnswersOwnCall, OwnResult
<1>4. ASSUME NEW c \in Callers, Begin(c)
      PROVE  AnswersOwnCall'
  <2>1. result'[c] = NoResult
    BY <1>4 DEF Begin
  <2>2. \A d \in Callers \ {c} : result'[d] = result[d] /\ call'[d] = call[d]
    BY <1>4 DEF Begin
  <2>3. ASSUME ~outOfStep', NEW d \in Callers
        PROVE  OwnResult(d)'
    BY <1>1, <1>2, <2>1, <2>2, <2>3 DEF OwnResult, OwnResults
  <2> QED BY <2>3 DEF AnswersOwnCall, OwnResult
<1>5. CASE UNCHANGED <<call, result>>
  BY <1>1, <1>2, <1>5 DEF AnswersOwnCall, OwnResult, OwnResults
<1>6. ASSUME NEW c \in Callers, Lock(c) \/ Send(c)
      PROVE  AnswersOwnCall'
  BY <1>5, <1>6 DEF Lock, Send
<1>7. ASSUME NEW c \in Callers,
             \/ SendNoResponse(c) \/ SetTimeoutFails(c)
             \/ Timeout(c) \/ ReceiveFails(c)
      PROVE  AnswersOwnCall'
  BY <1>3, <1>7 DEF SendNoResponse, SetTimeoutFails, Timeout, ReceiveFails
<1>8. ASSUME NEW c \in Callers, Receive(c)
      PROVE  AnswersOwnCall'
  <2>1. ASSUME ~outOfStep
        PROVE  ResultOf(call[c], Head(toClient)) \in OwnResults(call[c])
    <3>1. PICK s \in SessionBytes :
            toClient = <<HandleRequest(call[c].request, s)>>
      BY <1>8, <2>1 DEF InStep, OnlyFor, Receive
    <3> QED BY <3>1 DEF OwnResults
  <2> QED BY <1>3, <1>8, <2>1 DEF Receive
<1>9. CASE ServerAnswers \/ ResponseIsLost \/ ServerRestarts
  BY <1>5, <1>9 DEF ServerAnswers, ResponseIsLost, ServerRestarts, callerVars
<1>10. CASE UNCHANGED exchangeVars
  BY <1>5, <1>10 DEF exchangeVars, clientVars, callerVars
<1> QED
  BY <1>4, <1>6, <1>7, <1>8, <1>9, <1>10 DEF Next, ClientNext, CallStep

(* The invariant of the exchange, for any number of callers. *)
THEOREM Invariance == Spec => []IInv
<1>1. IInv /\ [Next]_exchangeVars => IInv'
  BY TypeStep, LockStep, InStepStep, AnswerStep DEF IInv
<1> QED BY InitIInv, <1>1, PTL DEF Spec

(* Threads may share a client: as long as no call has given up on a        *)
(* response that is still to come, every call returns the server's answer  *)
(* to its own request.                                                     *)
THEOREM CallsGetTheirOwnAnswers == Spec => []AnswersOwnCall
<1>1. IInv => AnswersOwnCall
  BY DEF IInv
<1> QED BY Invariance, <1>1, PTL

(* Nor is there ever more under way than the one call in progress asked    *)
(* for, and nothing at all between calls.                                  *)
THEOREM NothingIsLeftOver == Spec => []NothingLeftOver
<1>1. ASSUME IInv PROVE NothingLeftOver
  <2>1. \A c, d \in Waiting : c = d
    BY <1>1 DEF IInv, LockHeld, Waiting
  <2>2. ASSUME ~outOfStep, Waiting = {}
        PROVE  UnderWay = 0
    BY <1>1, <2>2 DEF IInv, InStep, UnderWay
  <2>3. ASSUME ~outOfStep, NEW c \in Waiting
        PROVE  UnderWay <= 1
    <3>1. OnlyFor(c)
      BY <1>1, <2>3 DEF IInv, InStep, Waiting
    <3>2. \/ Len(toServer) = 0 /\ Len(toClient) = 0
          \/ Len(toServer) = 1 /\ Len(toClient) = 0
          \/ Len(toServer) = 0 /\ Len(toClient) = 1
      BY <3>1 DEF OnlyFor
    <3>3. UnderWay \in {0, 1}
      BY <3>2 DEF UnderWay
    <3> QED BY <3>3
  <2> QED BY <2>1, <2>2, <2>3 DEF NothingLeftOver
<1> QED BY Invariance, <1>1, PTL

-----------------------------------------------------------------------------
(* How many responses the callers are waiting for. *)
Expected == IF Waiting = {} THEN 0 ELSE 1

(* One more message under way than anybody waits for, and a link that has  *)
(* lost nothing: no step of a call takes away more than it has put there.  *)
LEMMA OutOfStepStep ==
  ASSUME TypeOK, LockHeld, OutOfStepForGood, [Next]_exchangeVars
  PROVE  OutOfStepForGood'
<1> USE DEF TypeOK, ClientTypeOK
<1>1. lost = {} /\ outOfStep => UnderWay > Expected
  BY DEF OutOfStepForGood, Expected
<1>2. SUFFICES ASSUME lost' = {}, outOfStep'
               PROVE  UnderWay' > Expected'
  BY DEF OutOfStepForGood, Expected
<1>3. /\ UnderWay \in Nat
      /\ (toServer # <<>> \/ toClient # <<>>) => UnderWay > 0
  <2>1. Len(toServer) \in Nat /\ Len(toClient) \in Nat
    OBVIOUS
  <2>2. toServer # <<>> => Len(toServer) > 0
    OBVIOUS
  <2>3. toClient # <<>> => Len(toClient) > 0
    OBVIOUS
  <2> QED BY <2>1, <2>2, <2>3 DEF UnderWay
<1>4. CASE UNCHANGED <<pc, toServer, toClient, outOfStep, lost>>
  BY <1>1, <1>2, <1>4 DEF UnderWay, Expected, Waiting
<1>5. ASSUME NEW c \in Callers, Begin(c) \/ Lock(c)
      PROVE  UnderWay' > Expected'
  <2>1. Waiting' = Waiting
    BY <1>5 DEF Begin, Lock, Waiting
  <2>2. UNCHANGED <<toServer, toClient, outOfStep, lost>>
    BY <1>5 DEF Begin, Lock
  <2> QED BY <1>1, <1>2, <2>1, <2>2 DEF UnderWay, Expected
<1>6. ASSUME NEW c \in Callers, pc[c] \in {"send", "receive"}
      PROVE  /\ Waiting \subseteq {c}
             /\ pc[c] = "send" => Waiting = {}
             /\ pc[c] = "receive" => Expected = 1
  BY <1>6, OneWaits DEF Waiting, Expected
<1>7. ASSUME NEW c \in Callers, pc[c] \in {"send", "receive"},
             NEW value, Return(c, value)
      PROVE  Expected' = 0
  <2>1. Waiting' = {}
    BY <1>6, <1>7 DEF Return, Waiting
  <2> QED BY <2>1 DEF Expected
<1>8. ASSUME NEW c \in Callers, Write(call[c].request), UNCHANGED toClient
      PROVE  lost = {} /\ UnderWay' = UnderWay + 1
  <2>1. toServer' = Append(toServer, call[c].request) /\ lost' = lost
    BY <1>2, <1>8 DEF Write
  <2>2. call[c].request \in Requests
    BY CallType
  <2>3. Len(toServer') = Len(toServer) + 1
    BY <2>1, <2>2
  <2> QED BY <1>2, <1>8, <2>1, <2>3 DEF UnderWay
<1>9. ASSUME NEW c \in Callers, Send(c)
      PROVE  UnderWay' > Expected'
  <2>1. Expected = 0 /\ Expected' \in {0, 1}
    BY <1>6, <1>9 DEF Send, Expected
  <2>2. lost = {} /\ UnderWay' = UnderWay + 1 /\ outOfStep
    BY <1>2, <1>8, <1>9 DEF Send
  <2> QED BY <1>1, <1>3, <2>1, <2>2
<1>10. ASSUME NEW c \in Callers, SendNoResponse(c)
       PROVE  UnderWay' > Expected'
  <2>1. Expected' = 0
    BY <1>7, <1>10 DEF SendNoResponse
  <2>2. UnderWay' = UnderWay + 1
    BY <1>8, <1>10 DEF SendNoResponse
  <2> QED BY <1>3, <2>1, <2>2
<1>11. ASSUME NEW c \in Callers, SetTimeoutFails(c)
       PROVE  UnderWay' > Expected'
  <2>1. Expected = 0 /\ Expected' = 0
    BY <1>6, <1>7, <1>11 DEF SetTimeoutFails, Expected
  <2>2. UNCHANGED <<toServer, toClient, outOfStep, lost>>
    BY <1>11 DEF SetTimeoutFails
  <2> QED BY <1>1, <1>2, <2>1, <2>2 DEF UnderWay
<1>12. ASSUME NEW c \in Callers, Receive(c)
       PROVE  UnderWay' > Expected'
  <2>1. Expected = 1 /\ Expected' = 0
    BY <1>6, <1>7, <1>12 DEF Receive
  <2>2. UnderWay' = UnderWay - 1
    <3>1. Len(toClient') = Len(toClient) - 1
      BY <1>12 DEF Receive
    <3>2. Len(toServer) \in Nat /\ Len(toClient) \in Nat
      OBVIOUS
    <3> QED BY <1>12, <3>1, <3>2 DEF Receive, UnderWay
  <2>3. UnderWay > 1
    BY <1>1, <1>2, <1>12, <2>1 DEF Receive
  <2> QED BY <1>3, <2>1, <2>2, <2>3
<1>13. ASSUME NEW c \in Callers, Timeout(c) \/ ReceiveFails(c)
       PROVE  UnderWay' > Expected'
  <2>1. Expected = 1 /\ Expected' = 0
    BY <1>6, <1>7, <1>13 DEF Timeout, ReceiveFails
  <2>2. UNCHANGED <<toServer, toClient, lost>> /\ GiveUp
    BY <1>13 DEF Timeout, ReceiveFails
  <2>3. outOfStep \/ toServer # <<>> \/ toClient # <<>>
    BY <1>2, <2>2 DEF GiveUp
  <2>4. UnderWay > 0
    BY <1>1, <1>2, <1>3, <2>1, <2>2, <2>3
  <2> QED BY <2>1, <2>2, <2>4 DEF UnderWay
<1>14. ASSUME ServerAnswers
       PROVE  UnderWay' > Expected'
  <2>1. UNCHANGED <<callerVars, outOfStep, lost>> /\ Server!Answer
    BY <1>14 DEF ServerAnswers
  <2>2. Len(toServer') = Len(toServer) - 1
    BY <2>1 DEF Server!Answer, Server!Consume
  <2>3. Len(toClient') = Len(toClient) + 1
    <3>1. Head(toServer) \in Requests
      BY <2>1 DEF Server!Answer, Server!Consume
    <3>2. HandleRequest(Head(toServer), serverSession) \in Responses
      BY <3>1, AnswerType
    <3> QED BY <2>1, <3>2, ServerProtocol DEF Server!Answer
  <2>4. Len(toServer) \in Nat /\ Len(toClient) \in Nat
    OBVIOUS
  <2>5. UnderWay' = UnderWay
    BY <2>2, <2>3, <2>4 DEF UnderWay
  <2>6. Expected' = Expected
    BY <2>1 DEF Expected, Waiting, callerVars
  <2> QED BY <1>1, <1>2, <2>1, <2>5, <2>6
<1>15. ~ResponseIsLost /\ ~ServerRestarts
  BY <1>2 DEF ResponseIsLost, ServerRestarts
<1>16. CASE UNCHANGED exchangeVars
  BY <1>4, <1>16 DEF exchangeVars, clientVars, callerVars
<1> QED
  BY <1>5, <1>9, <1>10, <1>11, <1>12, <1>13, <1>14, <1>15, <1>16
  DEF Next, ClientNext, CallStep

(* A call that returned with its response still to come puts the client    *)
(* out of step for good: on a link that loses nothing, every later call    *)
(* writes one request and reads one response, and the one too many stays.  *)
THEOREM StaysOutOfStep == Spec => []OutOfStepForGood
<1>1. Init => OutOfStepForGood
  BY DEF Init, ClientInit, OutOfStepForGood
<1>2. IInv /\ OutOfStepForGood /\ [Next]_exchangeVars => OutOfStepForGood'
  BY OutOfStepStep DEF IInv
<1> QED BY Invariance, <1>1, <1>2, PTL DEF Spec

-----------------------------------------------------------------------------
(* What SessionAgreement supposes of the link and of the calls. *)
SessionKept ==
  /\ lost \intersect {"response", "session"} = {}
  /\ \A made \in Calls :
       made.request.sid = SessionControl => made.op = "set_session"
  /\ ~outOfStep

(* The inductive form of SessionAgreement: the client and the server agree *)
(* unless the answer to a call is in the socket, and then the server is    *)
(* where that call's request takes the client's session.                   *)
Agreement ==
  SessionKept =>
    /\ toClient = <<>> => currentSession = serverSession
    /\ \A c \in Waiting : toClient # <<>> =>
         serverSession = SessionAfter(call[c].request, currentSession)

(* A sequence of one item. *)
LEMMA OneItem ==
  ASSUME NEW S, NEW items \in Seq(S), Len(items) = 1
  PROVE  items # <<>> /\ Head(items) = items[1]
<1>1. items # <<>>
  BY EmptySeq
<1>2. Head(items) = items[1]
  OBVIOUS
<1> QED BY <1>1, <1>2

(* The answer to a call that the server has served takes the client to the *)
(* server's session: only set_session asks for another one, and its answer *)
(* confirms the very byte the server has taken.                            *)
LEMMA AnswerTellsSession ==
  ASSUME NEW made \in Calls \union {NoCall},
         made.request.sid = SessionControl => made.op = "set_session",
         NEW s \in SessionBytes, NEW mine \in SessionBytes
  PROVE  SessionAfter(made.request, mine) =
           IF /\ made.op = "set_session"
              /\ ResultOf(made, HandleRequest(made.request, s)).success
           THEN made.request.args[1] ELSE mine
<1>1. CASE made.op = "set_session"
  <2>1. made \in Calls
    BY <1>1 DEF NoCall
  <2>2. made.request.sid = SessionControl /\ Len(made.request.args) = 1
    BY <1>1, <2>1, ClientAssumption
  <2>3. made.request.args \in Seq(SessionBytes)
    BY <2>2, CallType DEF Requests, Services
  <2>4. made.request.args # <<>> /\ Head(made.request.args) = made.request.args[1]
    BY <2>2, <2>3, OneItem
  <2>5. HandleRequest(made.request, s)
          = Positive(SessionControl, <<made.request.args[1]>>)
    <3>1. HandleRequest(made.request, s) = HandleSessionControl(made.request)
      BY <2>2 DEF HandleRequest, SessionControl, NoService, ReadData, EcuReset
    <3> QED BY <2>4, <3>1 DEF HandleSessionControl
  <2>6. ResultOf(made, HandleRequest(made.request, s)).success
    BY <1>1, <2>5
    DEF ResultOf, SetSessionResult, Positive, IsPositive
  <2> QED BY <1>1, <2>2, <2>4, <2>6 DEF SessionAfter
<1>2. CASE made.op # "set_session"
  BY <1>2 DEF SessionAfter
<1> QED BY <1>1, <1>2

(* No step of a call, of the server or of the link breaks the agreement.   *)
LEMMA AgreementStep ==
  ASSUME TypeOK, LockHeld, InStep, Agreement, [Next]_exchangeVars
  PROVE  Agreement'
<1> USE DEF TypeOK, ClientTypeOK
<1>1. SUFFICES ASSUME SessionKept' PROVE Agreement'
  BY DEF Agreement
<1>2. SessionKept
  <2>1. lost \subseteq lost' /\ (outOfStep => outOfStep')
    BY DEF Next, ClientNext, CallStep, Begin, Lock, Send, SendNoResponse,
           SetTimeoutFails, Receive, Timeout, ReceiveFails, GiveUp, Write,
           ServerAnswers, ResponseIsLost, ServerRestarts, exchangeVars,
           clientVars
  <2> QED BY <1>1, <2>1 DEF SessionKept
<1>3. /\ toClient = <<>> => currentSession = serverSession
      /\ \A c \in Waiting : toClient # <<>> =>
           serverSession = SessionAfter(call[c].request, currentSession)
  BY <1>2 DEF Agreement
<1>4. ASSUME NEW c \in Callers, pc[c] \in {"send", "receive"}
      PROVE  /\ Waiting \subseteq {c}
             /\ pc[c] = "send" => Waiting = {}
  BY <1>4, OneWaits DEF Waiting
<1>5. ASSUME NEW c \in Callers, pc[c] \in {"send", "receive"},
             NEW value, Return(c, value)
      PROVE  Waiting' = {}
  BY <1>4, <1>5 DEF Return, Waiting
<1>6. ASSUME NEW c \in Callers, pc[c] = "send"
      PROVE  toClient = <<>> /\ currentSession = serverSession
  BY <1>2, <1>3, <1>4, <1>6 DEF SessionKept, InStep
<1>7. CASE UNCHANGED exchangeVars
  BY <1>3, <1>7 DEF exchangeVars, clientVars, callerVars, Agreement, Waiting
<1>8. ASSUME NEW c \in Callers, Begin(c) \/ Lock(c), UNCHANGED serverSession
      PROVE  Agreement'
  <2>1. Waiting' = Waiting /\ \A d \in Waiting : call'[d] = call[d]
    BY <1>8 DEF Begin, Lock, Waiting
  <2>2. UNCHANGED <<toClient, currentSession>>
    BY <1>8 DEF Begin, Lock
  <2> QED BY <1>3, <1>8, <2>1, <2>2 DEF Agreement
<1>9. ASSUME NEW c \in Callers,
             Send(c) \/ SendNoResponse(c) \/ SetTimeoutFails(c),
             UNCHANGED serverSession
      PROVE  Agreement'
  <2>1. UNCHANGED <<toClient, currentSession>> /\ pc[c] = "send"
    BY <1>9 DEF Send, SendNoResponse, SetTimeoutFails
  <2> QED BY <1>6, <1>9, <2>1 DEF Agreement
<1>10. ASSUME NEW c \in Callers, Receive(c), UNCHANGED serverSession
       PROVE  Agreement'
  <2>1. Waiting' = {}
    BY <1>5, <1>10 DEF Receive
  <2>2. PICK s \in SessionBytes :
          toClient = <<HandleRequest(call[c].request, s)>>
    BY <1>2, <1>10 DEF SessionKept, InStep, OnlyFor, Receive
  <2>3. serverSession = SessionAfter(call[c].request, currentSession)
    BY <1>3, <1>10 DEF Receive, Waiting
  <2>4. call[c].request.sid = SessionControl => call[c].op = "set_session"
    BY <1>2 DEF SessionKept, NoCall, EmptyRequest, NoService, SessionControl
  <2>5. Head(toClient) = HandleRequest(call[c].request, s)
    BY <2>2
  <2>6. currentSession' = SessionAfter(call[c].request, currentSession)
    BY <1>10, <2>4, <2>5, AnswerTellsSession DEF Receive
  <2> QED BY <1>10, <2>1, <2>3, <2>6 DEF Agreement
<1>11. ASSUME NEW c \in Callers, Timeout(c) \/ ReceiveFails(c),
              UNCHANGED serverSession
       PROVE  Agreement'
  <2>1. UNCHANGED <<toClient, currentSession>> /\ GiveUp
    BY <1>11 DEF Timeout, ReceiveFails
  <2>2. toClient = <<>>
    BY <1>1, <2>1 DEF SessionKept, GiveUp
  <2> QED BY <1>3, <1>11, <2>1, <2>2 DEF Agreement
<1>12. ASSUME ServerAnswers
       PROVE  Agreement'
  <2>1. UNCHANGED <<callerVars, currentSession, outOfStep>>
    BY <1>12 DEF ServerAnswers
  <2>2. /\ toServer # <<>>
        /\ serverSession' = SessionAfter(Head(toServer), serverSession)
        /\ toClient' # <<>>
    <3>1. Server!Consume
      BY <1>12 DEF ServerAnswers, Server!Answer
    <3>2. toServer # <<>> /\ Head(toServer) \in Requests
      BY <3>1 DEF Server!Consume
    <3>3. HandleRequest(Head(toServer), serverSession) \in Responses
      BY <3>2, AnswerType
    <3>4. toClient' # <<>>
      BY <1>12, <3>3, ServerProtocol DEF ServerAnswers, Server!Answer
    <3> QED BY <3>1, <3>2, <3>4, ServerProtocol DEF Server!Consume
  <2>3. ASSUME NEW c \in Waiting'
        PROVE  serverSession' = SessionAfter(call'[c].request, currentSession')
    <3>1. c \in Callers /\ pc[c] = "receive" /\ OnlyFor(c)
      BY <1>2, <2>1, <2>3 DEF Waiting, callerVars, SessionKept, InStep
    <3>2. toServer = <<call[c].request>> /\ toClient = <<>>
      BY <2>2, <3>1 DEF OnlyFor
    <3>3. Head(toServer) = call[c].request /\ currentSession = serverSession
      BY <1>3, <3>2
    <3> QED BY <2>1, <2>2, <3>3 DEF callerVars
  <2> QED BY <2>2, <2>3 DEF Agreement
<1>13. ~ResponseIsLost /\ ~ServerRestarts
  BY <1>1 DEF ResponseIsLost, ServerRestarts, SessionKept
<1> QED
  BY <1>7, <1>8, <1>9, <1>10, <1>11, <1>12, <1>13
  DEF Next, ClientNext, CallStep

(* Between calls the client's session is the server's, for any number of   *)
(* callers, as long as sessions are changed by set_session, no response is *)
(* lost, no call gives up too early and the server goes on running.        *)
THEOREM SessionsAgree == Spec => []SessionAgreement
<1>1. Init => Agreement
  BY DEF Init, ClientInit, Agreement, Waiting
<1>2. IInv /\ Agreement /\ [Next]_exchangeVars => Agreement'
  BY AgreementStep DEF IInv
<1>3. ASSUME IInv, Agreement PROVE SessionAgreement
  <2>1. SUFFICES ASSUME SessionKept, tx_mutex = "free"
                 PROVE  currentSession = serverSession
    BY DEF SessionAgreement, SessionKept
  <2>2. Waiting = {}
    BY <1>3, <2>1, ClientAssumption DEF IInv, LockHeld, Waiting
  <2>3. toClient = <<>>
    BY <1>3, <2>1, <2>2 DEF IInv, InStep, SessionKept
  <2> QED BY <1>3, <2>1, <2>3 DEF Agreement
<1> QED BY Invariance, <1>1, <1>2, <1>3, PTL DEF Spec

-----------------------------------------------------------------------------
(* The answer that waits for a call is the one in the client's session.    *)
AnswerInStep ==
  SessionKept =>
    \A c \in Waiting : toClient # <<>> =>
      Head(toClient) = HandleRequest(call[c].request, currentSession)

LEMMA AnswerInStepStep ==
  ASSUME TypeOK, LockHeld, InStep, Agreement, AnswerInStep,
         [Next]_exchangeVars
  PROVE  AnswerInStep'
<1> USE DEF TypeOK, ClientTypeOK
<1>1. SUFFICES ASSUME SessionKept', NEW c \in Waiting', toClient' # <<>>
               PROVE  Head(toClient') =
                        HandleRequest(call'[c].request, currentSession')
  BY DEF AnswerInStep
<1>2. SessionKept
  <2>1. lost \subseteq lost' /\ (outOfStep => outOfStep')
    BY DEF Next, ClientNext, CallStep, Begin, Lock, Send, SendNoResponse,
           SetTimeoutFails, Receive, Timeout, ReceiveFails, GiveUp, Write,
           ServerAnswers, ResponseIsLost, ServerRestarts, exchangeVars,
           clientVars
  <2> QED BY <1>1, <2>1 DEF SessionKept
<1>3. c \in Callers /\ pc'[c] = "receive"
  BY <1>1 DEF Waiting
<1>4. ASSUME c \in Waiting, UNCHANGED <<toClient, currentSession>>,
             call'[c] = call[c]
      PROVE  Head(toClient') =
               HandleRequest(call'[c].request, currentSession')
  BY <1>1, <1>2, <1>4 DEF AnswerInStep
<1>5. CASE UNCHANGED exchangeVars
  BY <1>1, <1>4, <1>5 DEF exchangeVars, clientVars, callerVars, Waiting
<1>6. ASSUME NEW d \in Callers, Begin(d) \/ Lock(d)
      PROVE  Head(toClient') =
               HandleRequest(call'[c].request, currentSession')
  <2>1. /\ c \in Waiting /\ call'[c] = call[c]
        /\ UNCHANGED <<toClient, currentSession>>
    BY <1>3, <1>6 DEF Begin, Lock, Waiting
  <2> QED BY <1>4, <2>1
<1>7. ASSUME NEW d \in Callers, pc[d] \in {"send", "receive"}, c # d,
             \A e \in Callers : e # d => pc'[e] = pc[e]
      PROVE  FALSE
  <2>1. pc[c] = "receive"
    BY <1>3, <1>7
  <2> QED BY <1>3, <1>7, <2>1, OneWaits
<1>8. ASSUME NEW d \in Callers, Send(d)
      PROVE  FALSE
  <2>1. pc[d] = "send" /\ toClient' = toClient
    BY <1>8 DEF Send
  <2>2. Waiting = {}
    BY <2>1, OneWaits DEF Waiting
  <2>3. toClient = <<>>
    BY <1>2, <2>2 DEF SessionKept, InStep
  <2> QED BY <1>1, <2>1, <2>3
<1>9. ASSUME NEW d \in Callers,
             \/ SendNoResponse(d) \/ SetTimeoutFails(d)
             \/ Receive(d) \/ Timeout(d) \/ ReceiveFails(d)
      PROVE  FALSE
  <2>1. /\ pc[d] \in {"send", "receive"}
        /\ pc' = [pc EXCEPT ![d] = "idle"]
    BY <1>9 DEF SendNoResponse, SetTimeoutFails, Receive, Timeout,
                ReceiveFails, Return
  <2>2. c # d
    BY <1>3, <2>1
  <2> QED BY <1>7, <2>1, <2>2
<1>10. CASE ServerAnswers
  <2>1. UNCHANGED <<callerVars, currentSession>>
    BY <1>10 DEF ServerAnswers
  <2>2. /\ toServer # <<>>
        /\ toClient' = Append(toClient, HandleRequest(Head(toServer),
                                                      serverSession))
    BY <1>10, ServerProtocol DEF ServerAnswers, Server!Answer, Server!Consume
  <2>3. OnlyFor(c)
    BY <1>2, <1>3, <2>1 DEF SessionKept, InStep, callerVars
  <2>4. toServer = <<call[c].request>> /\ toClient = <<>>
    BY <2>2, <2>3 DEF OnlyFor
  <2>5. Head(toServer) = call[c].request /\ currentSession = serverSession
    BY <1>2, <2>4 DEF Agreement
  <2>6. Head(toClient') = HandleRequest(call[c].request, currentSession)
    BY <2>2, <2>4, <2>5
  <2> QED BY <2>1, <2>6 DEF callerVars
<1>11. ~ResponseIsLost /\ ~ServerRestarts
  BY <1>1 DEF ResponseIsLost, ServerRestarts, SessionKept
<1> QED
  BY <1>5, <1>6, <1>8, <1>9, <1>10, <1>11 DEF Next, ClientNext, CallStep

(* What the answer to a read says about the session. *)
LEMMA ReadTellsSession ==
  ASSUME NEW made \in Calls \union {NoCall}, made.request.sid = ReadData,
         NEW session \in SessionBytes
  PROVE  LET value == ResultOf(made, HandleRequest(made.request, session))
         IN /\ value.success => session \in AllowedSessions[ReadData]
            /\ value.nrc = "SERVICE_NOT_SUPPORTED_IN_ACTIVE_SESSION"
                 => session \notin AllowedSessions[ReadData]
<1> DEFINE answer == HandleRequest(made.request, session)
<1>1. ResultOf(made, answer) = SendRequestResult(made.request, answer)
  BY ClientAssumption
  DEF ResultOf, NoCall, SessionControl, ReadData
<1>2. CASE session \in AllowedSessions[ReadData]
  <2>1. answer = ReadDataHandler(made.request)
    BY <1>2 DEF HandleRequest, ReadData, SessionControl, NoService, EcuReset
  <2>2. answer.nrc # "SERVICE_NOT_SUPPORTED_IN_ACTIVE_SESSION"
    BY <2>1 DEF ReadDataHandler, Positive, Negative
  <2>3. SendRequestResult(made.request, answer).nrc
          # "SERVICE_NOT_SUPPORTED_IN_ACTIVE_SESSION"
    BY <2>2 DEF SendRequestResult, Failure
  <2> QED BY <1>1, <1>2, <2>3
<1>3. CASE session \notin AllowedSessions[ReadData]
  <2>1. answer = Negative(ReadData, "SERVICE_NOT_SUPPORTED_IN_ACTIVE_SESSION")
    BY <1>3 DEF HandleRequest, ReadData, SessionControl, NoService, EcuReset
  <2>2. ~SendRequestResult(made.request, answer).success
    BY <2>1 DEF SendRequestResult, Negative, IsPositive, Failure
  <2> QED BY <1>1, <1>3, <2>2
<1> QED BY <1>2, <1>3

(* What a read gets is decided by the session its client keeps. *)
ReadsFollowSession ==
  [][\A c \in Callers :
       /\ SessionKept
       /\ pc[c] = "receive" /\ pc'[c] = "idle"
       /\ call[c].request.sid = ReadData
       => /\ result'[c].success => currentSession \in AllowedSessions[ReadData]
          /\ result'[c].nrc = "SERVICE_NOT_SUPPORTED_IN_ACTIVE_SESSION"
               => currentSession \notin AllowedSessions[ReadData]]_exchangeVars

(* As long as the client and the server can agree on the session, a read   *)
(* is answered or refused as the session that the client keeps says.       *)
THEOREM ReadsAsKept == Spec => ReadsFollowSession
<1>1. Init => Agreement /\ AnswerInStep
  BY DEF Init, ClientInit, Agreement, AnswerInStep, Waiting
<1>2. IInv /\ Agreement /\ [Next]_exchangeVars => Agreement'
  BY AgreementStep DEF IInv
<1>3. IInv /\ Agreement /\ AnswerInStep /\ [Next]_exchangeVars
        => AnswerInStep'
  BY AnswerInStepStep DEF IInv
<1>4. ASSUME IInv, AnswerInStep, [Next]_exchangeVars, SessionKept,
             NEW c \in Callers, pc[c] = "receive", pc'[c] = "idle",
             call[c].request.sid = ReadData
      PROVE  /\ result'[c].success
                  => currentSession \in AllowedSessions[ReadData]
             /\ result'[c].nrc = "SERVICE_NOT_SUPPORTED_IN_ACTIVE_SESSION"
                  => currentSession \notin AllowedSessions[ReadData]
  <2>1. TypeOK
    BY <1>4 DEF IInv
  <2>2. Receive(c) \/ Timeout(c) \/ ReceiveFails(c)
    <3>1. PICK d \in Callers : Begin(d) \/ CallStep(d)
      BY <1>4 DEF Next, ClientNext, exchangeVars, clientVars, callerVars,
                  ServerAnswers, ResponseIsLost, ServerRestarts
    <3>2. \E step : pc' = [pc EXCEPT ![d] = step]
      BY <3>1 DEF Begin, CallStep, Lock, Send, SendNoResponse,
                  SetTimeoutFails, Receive, Timeout, ReceiveFails, Return
    <3>3. d = c
      BY <1>4, <2>1, <3>2 DEF TypeOK, ClientTypeOK
    <3> QED BY <1>4, <3>1, <3>3 DEF Begin, CallStep, Lock, Send,
                                    SendNoResponse, SetTimeoutFails
  <2>3. CASE Timeout(c) \/ ReceiveFails(c)
    <3>1. result'[c] \in {Failure("TIMEOUT"), Failure("GENERAL_REJECT")}
      BY <2>1, <2>3 DEF Timeout, ReceiveFails, Return, TypeOK, ClientTypeOK
    <3> QED BY <3>1 DEF Failure
  <2>4. CASE Receive(c)
    <3>1. result'[c] = ResultOf(call[c], Head(toClient)) /\ toClient # <<>>
      BY <2>1, <2>4 DEF Receive, Return, TypeOK, ClientTypeOK
    <3>2. Head(toClient) = HandleRequest(call[c].request, currentSession)
      BY <1>4, <3>1 DEF AnswerInStep, Waiting
    <3>3. call[c] \in Calls \union {NoCall} /\ currentSession \in SessionBytes
      BY <2>1 DEF TypeOK, ClientTypeOK
    <3> QED BY <1>4, <3>1, <3>2, <3>3, ReadTellsSession
  <2> QED BY <2>2, <2>3, <2>4
<1>5. IInv /\ AnswerInStep /\ [Next]_exchangeVars =>
        [\A c \in Callers :
           /\ SessionKept
           /\ pc[c] = "receive" /\ pc'[c] = "idle"
           /\ call[c].request.sid = ReadData
           => /\ result'[c].success
                   => currentSession \in AllowedSessions[ReadData]
              /\ result'[c].nrc = "SERVICE_NOT_SUPPORTED_IN_ACTIVE_SESSION"
                   => currentSession \notin AllowedSessions[ReadData]]_exchangeVars
  BY <1>4
<1> QED
  BY Invariance, <1>1, <1>2, <1>3, <1>5, PTL DEF Spec, ReadsFollowSession
=============================================================================
