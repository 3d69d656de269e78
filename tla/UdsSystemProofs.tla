--------------------------- MODULE UdsSystemProofs ---------------------------
(***************************************************************************)
(* Proof that the client and the threaded server together implement        *)
(* UdsExchange, for every set of callers, calls and faults, whatever the   *)
(* server process is doing when it is told to stop, is killed or starts    *)
(* again.                                                                  *)
(***************************************************************************)
EXTENDS UdsSystem, UdsServerProofs

(* The calls of the client are calls. *)
CallTypes == call \in [Callers -> Calls \union {Client!NoCall}]

(* The invariant: that of the server, the answer it is about to send, and  *)
(* the calls the requests come from.                                       *)
SystemInv ==
  /\ IInv
  /\ AnswerInHand
  /\ CallTypes

LEMMA SystemInitially == SystemInit => SystemInv
<1> SUFFICES ASSUME SystemInit PROVE SystemInv
  OBVIOUS
<1>1. IInv
  BY InitIInv DEF SystemInit
<1>2. AnswerInHand
  BY DEF SystemInit, Init, AnswerInHand
<1>3. CallTypes
  BY DEF SystemInit, Client!ClientInit, CallTypes
<1> QED BY <1>1, <1>2, <1>3 DEF SystemInv

(* What a call writes is a request. *)
LEMMA CallRequest ==
  ASSUME CallTypes, NEW c \in Callers
  PROVE  call[c].request \in Requests
<1>1. call[c] \in Calls \/ call[c] = Client!NoCall
  BY DEF CallTypes
<1>2. CASE call[c] \in Calls
  BY <1>2, SystemAssumption, ServerAssumption
<1>3. CASE call[c] = Client!NoCall
  <2>1. call[c].request = EmptyRequest
    BY <1>3 DEF Client!NoCall, Client!EmptyRequest, EmptyRequest,
                Client!NoService, NoService
  <2>2. EmptyRequest \in Requests
    BY DEF EmptyRequest, Requests, Services, SessionControl, NoService
  <2> QED BY <2>1, <2>2
<1> QED BY <1>1, <1>2, <1>3

(* A step of a client leaves the server where it is. *)
LEMMA ClientKeepsServer ==
  ASSUME SystemInv, NEW c \in Callers, ClientSide(c)
  PROVE  IInv' /\ AnswerInHand'
<1> USE DEF flagVars, queueVars
<1>1. TypeOK
  BY DEF SystemInv, IInv
<1>2. TypeOK'
  <2>1. call[c].request \in Requests
    BY CallRequest DEF SystemInv
  <2>2. rx' \in Seq(Requests)
    <3>1. rx' = rx \/ rx' = Append(rx, call[c].request)
      BY DEF ClientSide
    <3>2. rx \in Seq(Requests)
      BY <1>1 DEF TypeOK
    <3>3. Append(rx, call[c].request) \in Seq(Requests)
      BY <2>1, <3>2, AppendProperties
    <3> QED BY <3>1, <3>2, <3>3
  <2>3. tx' \in Seq(Responses)
    <3>1. tx' = tx \/ (tx # <<>> /\ tx' = Tail(tx))
      BY DEF ClientSide
    <3>2. tx \in Seq(Responses)
      BY <1>1 DEF TypeOK
    <3>3. tx # <<>> => Tail(tx) \in Seq(Responses)
      BY <3>2, HeadTailProperties
    <3> QED BY <3>1, <3>2, <3>3
  <2> QED BY <1>1, <2>2, <2>3 DEF ClientSide, TypeOK
<1>3. QueueIsGuarded' /\ ThreadOrder' /\ NoLostWakeup' /\ FifoService'
  BY DEF ClientSide, SystemInv, IInv, QueueIsGuarded, ThreadOrder,
         NoLostWakeup, FifoService, Gone, HeldByMain, HeldByReceiver
<1>4. AnswerInHand'
  BY DEF ClientSide, SystemInv, AnswerInHand, SessionGiven
<1> QED BY <1>2, <1>3, <1>4 DEF IInv

(* A process that ends, or starts, has nothing in its queue or its hands.  *)
LEMMA AfreshKeepsInv ==
  ASSUME SystemInv, NEW where \in {"start", "done"}, Afresh(where)
  PROVE  IInv' /\ AnswerInHand'
<1>1. EmptyRequest \in Requests
  BY DEF EmptyRequest, Requests, Services, SessionControl, NoService
<1>2. NoResponse \in Responses
  BY DEF NoResponse, Negative, Responses, Services, NRCs, NoService
<1>3. "DEFAULT" \in SessionBytes
  BY DEF SessionBytes, SupportedSessions
<1>4. TypeOK'
  <2>1. tx \in Seq(Responses)
    BY DEF SystemInv, IInv, TypeOK
  <2>2. /\ request_queue' \in Seq(Requests) /\ rx' \in Seq(Requests)
        /\ taken' \in Seq(Requests) /\ served' \in Seq(ServedRecords)
        /\ tx' \in Seq(Responses)
    BY <2>1 DEF Afresh
  <2>3. mainPc' \in {"start", "done"} /\ rcvPc' \in {"none", "exited"}
    BY DEF Afresh
  <2> QED BY <1>1, <1>2, <1>3, <2>2, <2>3 DEF Afresh, TypeOK
<1>5. QueueIsGuarded' /\ ThreadOrder' /\ NoLostWakeup'
  BY DEF Afresh, QueueIsGuarded, ThreadOrder, NoLostWakeup
<1>6. FifoService'
  <2>1. /\ taken' = <<>> /\ served' = <<>> /\ request_queue' = <<>>
        /\ mainPc' # "handle" /\ rcvPc' \notin {"lock", "push"}
    BY DEF Afresh
  <2>2. HeldByMain' = 0 /\ HeldByReceiver' = 0
    BY <2>1 DEF HeldByMain, HeldByReceiver
  <2>3. Gone' = 0
    BY <2>1, <2>2 DEF Gone
  <2> QED BY <2>1, <2>2, <2>3 DEF FifoService
<1>7. AnswerInHand'
  BY DEF Afresh, AnswerInHand
<1> QED BY <1>4, <1>5, <1>6, <1>7 DEF IInv

(* The steps of the server in the system are its steps alone. *)
LEMMA ServerKeepsInv ==
  ASSUME SystemInv, MainThread \/ ReceiverThread \/ Surroundings
  PROVE  [Next]_vars /\ IInv' /\ AnswerInHand'
<1>1. [Next]_vars
  BY DEF MainThread, ReceiverThread, Surroundings, Next, Environment
<1>2. IInv'
  BY <1>1, TypeStep, ControlStep, FifoStep DEF SystemInv, IInv
<1>3. AnswerInHand'
  BY <1>1, AnswerStep DEF SystemInv, IInv
<1> QED BY <1>1, <1>2, <1>3

LEMMA CallTypesStep ==
  ASSUME CallTypes, [SystemNext]_systemVars
  PROVE  CallTypes'
<1> USE DEF CallTypes, callerVars
<1>1. ASSUME NEW c \in Callers, Begins(c) PROVE CallTypes'
  BY <1>1 DEF Begins, Client!Begin
<1>2. ASSUME NEW c \in Callers, Proceeds(c) PROVE CallTypes'
  BY <1>2
  DEF Proceeds, Client!CallStep, Client!Lock, Client!Send,
      Client!SendNoResponse, Client!SetTimeoutFails, Client!Receive,
      Client!Timeout, Client!ReceiveFails, Client!Return
<1>3. CASE MainThread \/ ReceiverThread \/ Surroundings
  BY <1>3 DEF MainThread, ReceiverThread, Surroundings, ServerSide
<1>4. CASE Killed \/ StartsAgain
  BY <1>4 DEF Killed, StartsAgain, Afresh
<1>5. CASE UNCHANGED systemVars
  BY <1>5 DEF systemVars
<1> QED BY <1>1, <1>2, <1>3, <1>4, <1>5 DEF SystemNext

LEMMA SystemStep ==
  ASSUME SystemInv, [SystemNext]_systemVars
  PROVE  SystemInv'
<1>1. CallTypes'
  BY CallTypesStep DEF SystemInv
<1>2. ASSUME NEW c \in Callers, Begins(c) \/ Proceeds(c)
      PROVE  IInv' /\ AnswerInHand'
  BY <1>2, ClientKeepsServer DEF Begins, Proceeds
<1>3. CASE Killed \/ StartsAgain
  <2>1. Afresh("done") \/ Afresh("start")
    BY <1>3 DEF Killed, StartsAgain
  <2>2. IInv' /\ AnswerInHand'
    BY <2>1, AfreshKeepsInv
  <2> QED BY <1>1, <2>2 DEF SystemInv
<1>4. CASE UNCHANGED systemVars
  <2>1. UNCHANGED vars
    BY <1>4 DEF systemVars
  <2>2. IInv'
    BY <2>1, TypeStep, ControlStep, FifoStep DEF SystemInv, IInv
  <2>3. AnswerInHand'
    BY <2>1, AnswerStep DEF SystemInv, IInv
  <2> QED BY <1>1, <2>2, <2>3 DEF SystemInv
<1> QED BY <1>1, <1>2, <1>3, <1>4, ServerKeepsInv DEF SystemNext, SystemInv

-----------------------------------------------------------------------------
(* The steps of the system as steps of the exchange.                       *)

(* What a call makes of a response is the same on both sides. *)
LEMMA SameResults ==
  ASSUME NEW made, NEW answer
  PROVE  Exchange!ResultOf(made, answer) = Client!ResultOf(made, answer)
BY DEF Exchange!ResultOf, Client!ResultOf,
       Exchange!SetSessionResult, Client!SetSessionResult,
       Exchange!SendRequestResult, Client!SendRequestResult,
       Exchange!IsPositive, Client!IsPositive,
       Exchange!SessionControl, Client!SessionControl,
       Exchange!Failure, Client!Failure

(* A step of a client is that step of the exchange: what may go wrong at a *)
(* client may go wrong in the exchange.                                    *)
LEMMA RefinesClient ==
  ASSUME NEW c \in Callers, Begins(c) \/ Proceeds(c)
  PROVE  Exchange!ClientNext /\ UNCHANGED ServerSession
<1>1. ClientSide(c) /\ (Client!Begin(c) \/ Client!CallStep(c))
  BY DEF Begins, Proceeds
<1>2. UNCHANGED ServerSession
  BY <1>1 DEF ClientSide, ServerSession, SessionGiven
<1>3. ClientFaults \subseteq ClientFaults \union {"lose", "restart"}
  OBVIOUS
<1>4. ASSUME Client!Begin(c) PROVE Exchange!Begin(c)
  BY <1>4 DEF Client!Begin, Exchange!Begin,
              Client!NoResult, Exchange!NoResult
<1>5. ASSUME Client!CallStep(c) PROVE Exchange!CallStep(c)
  <2>1. ASSUME Client!Lock(c) PROVE Exchange!CallStep(c)
    BY <2>1 DEF Client!Lock, Exchange!Lock, Exchange!CallStep
  <2>2. ASSUME Client!Send(c) PROVE Exchange!CallStep(c)
    BY <1>3, <2>2 DEF Client!Send, Exchange!Send, Exchange!CallStep,
                      Client!Write, Exchange!Write
  <2>3. ASSUME Client!SendNoResponse(c) PROVE Exchange!CallStep(c)
    BY <1>3, <2>3
    DEF Client!SendNoResponse, Exchange!SendNoResponse, Exchange!CallStep,
        Client!Write, Exchange!Write, Client!Return, Exchange!Return,
        Client!NoResult, Exchange!NoResult, Client!GiveUp, Exchange!GiveUp
  <2>4. ASSUME Client!SetTimeoutFails(c) PROVE Exchange!CallStep(c)
    BY <1>3, <2>4
    DEF Client!SetTimeoutFails, Exchange!SetTimeoutFails, Exchange!CallStep,
        Client!Return, Exchange!Return, Client!Failure, Exchange!Failure
  <2>5. ASSUME Client!Receive(c) PROVE Exchange!CallStep(c)
    <3>1. Exchange!ResultOf(call[c], Head(tx)) =
            Client!ResultOf(call[c], Head(tx))
      BY SameResults
    <3> QED BY <2>5, <3>1
            DEF Client!Receive, Exchange!Receive, Exchange!CallStep,
                Client!Return, Exchange!Return
  <2>6. ASSUME Client!Timeout(c) PROVE Exchange!CallStep(c)
    BY <1>3, <2>6
    DEF Client!Timeout, Exchange!Timeout, Exchange!CallStep,
        Client!Return, Exchange!Return, Client!Failure, Exchange!Failure,
        Client!GiveUp, Exchange!GiveUp
  <2>7. ASSUME Client!ReceiveFails(c) PROVE Exchange!CallStep(c)
    BY <1>3, <2>7
    DEF Client!ReceiveFails, Exchange!ReceiveFails, Exchange!CallStep,
        Client!Return, Exchange!Return, Client!Failure, Exchange!Failure,
        Client!GiveUp, Exchange!GiveUp
  <2> QED
    BY <1>5, <2>1, <2>2, <2>3, <2>4, <2>5, <2>6, <2>7 DEF Client!CallStep
<1> QED BY <1>1, <1>2, <1>4, <1>5 DEF Exchange!ClientNext

(* The abstract server of the exchange answers as UdsProtocol does. *)
LEMMA SameProtocol ==
  ASSUME NEW message, NEW session
  PROVE  /\ Exchange!Server!HandleRequest(message, session) =
              Responder!HandleRequest(message, session)
         /\ Exchange!Server!SessionAfter(message, session) =
              Responder!SessionAfter(message, session)
BY DEF Exchange!Server!HandleRequest, Responder!HandleRequest,
       Exchange!Server!SessionAfter, Responder!SessionAfter,
       Exchange!Server!HandleSessionControl, Responder!HandleSessionControl,
       Exchange!Server!ReadDataHandler, Responder!ReadDataHandler,
       Exchange!Server!Positive, Responder!Positive,
       Exchange!Server!Negative, Responder!Negative,
       Exchange!Server!AllowedSessions, Responder!AllowedSessions,
       Exchange!Server!SessionControl, Responder!SessionControl,
       Exchange!Server!ReadData, Responder!ReadData,
       Exchange!Server!EcuReset, Responder!EcuReset,
       Exchange!Server!NoService, Responder!NoService

(* What is pending and what waits in the socket, one behind the other.     *)
LEMMA FirstOfTwo ==
  ASSUME NEW S, NEW s \in Seq(S), NEW t \in Seq(S), s # <<>>
  PROVE  /\ s \o t # <<>> /\ s \o t \in Seq(S)
         /\ Head(s \o t) = Head(s)
         /\ Tail(s \o t) = Tail(s) \o t
<1>1. Head(s) \in S /\ Tail(s) \in Seq(S)
  BY HeadTailProperties
<1>2. <<Head(s)>> \o Tail(s) = s
  BY HeadAndTail
<1>3. <<Head(s)>> \in Seq(S)
  BY <1>1
<1>4. s \o t = <<Head(s)>> \o (Tail(s) \o t)
  BY <1>1, <1>2, <1>3, ConcatAssociative
<1>5. Tail(s) \o t \in Seq(S)
  BY <1>1, ConcatProperties
<1>6. s \o t \in Seq(S)
  BY ConcatProperties
<1> QED BY <1>1, <1>4, <1>5, <1>6, FirstAndRest

(* Every step of the server's threads and of what surrounds them is an     *)
(* answer, a loss, the end of the process, or nothing to the exchange.     *)
LEMMA RefinesServer ==
  ASSUME SystemInv, MainThread \/ ReceiverThread \/ Surroundings
  PROVE  \/ Exchange!ServerAnswers
         \/ Exchange!ResponseIsLost
         \/ Exchange!ServerRestarts
         \/ UNCHANGED Exchange!exchangeVars
<1>1. IInv /\ AnswerInHand /\ [Next]_vars /\ IInv' /\ ServerSide
  BY ServerKeepsInv DEF SystemInv, MainThread, ReceiverThread, Surroundings
<1>2. TypeOK /\ TypeOK' /\ ThreadOrder
  BY <1>1 DEF IInv
<1>3. UNCHANGED <<callerVars, starts>>
  BY <1>1 DEF ServerSide
<1>4. mainPc # "done"
  BY <1>2
  DEF MainThread, ReceiverThread, Surroundings, MainStep, ReceiverStep,
      ThreadOrder, Start, CheckKeepRunning, LockQueue, TakeRequest, Wait,
      Handle, HandlerThrows, Send, Stop, Join, Destroy, CheckRunning,
      ReadRequest, ReadTimeout, LockToPush, Push, Notify, Interrupt,
      ReadError, SpuriousWakeup
<1>5. /\ rx \in Seq(Requests) /\ rx' \in Seq(Requests)
      /\ Pending \in Seq(Requests) /\ Pending' \in Seq(Requests)
  <2>1. rx \in Seq(Requests) /\ rx' \in Seq(Requests)
    BY <1>2 DEF TypeOK
  <2>2. Pending \in Seq(Requests)
    <3>1. /\ MainHand \in Seq(Requests) /\ ReceiverHand \in Seq(Requests)
          /\ request_queue \in Seq(Requests)
          /\ Pending = (MainHand \o request_queue) \o ReceiverHand
      BY <1>2, PendingInHands
    <3>2. MainHand \o request_queue \in Seq(Requests)
      BY <3>1, ConcatProperties
    <3> QED BY <3>1, <3>2, ConcatProperties
  <2>3. Pending' \in Seq(Requests)
    <3>1. /\ MainHand' \in Seq(Requests) /\ ReceiverHand' \in Seq(Requests)
          /\ request_queue' \in Seq(Requests)
      BY <1>2 DEF MainHand, ReceiverHand, TypeOK
    <3>2. Pending' = (MainHand' \o request_queue') \o ReceiverHand'
      BY DEF Pending, MainHand, ReceiverHand
    <3> QED BY <3>1, <3>2, ConcatProperties
  <2> QED BY <2>1, <2>2, <2>3
<1>6. Unanswered = Pending \o rx /\ ServerSession = SessionGiven
  BY <1>4 DEF Unanswered, ServerSession
<1>7. ASSUME mainPc' # "done"
      PROVE  Unanswered' = Pending' \o rx' /\ ServerSession' = SessionGiven'
  BY <1>7 DEF Unanswered, ServerSession
<1>8. ASSUME mainPc' # "done", Unanswered' = Unanswered,
             SessionGiven' = SessionGiven, tx' = tx
      PROVE  UNCHANGED Exchange!exchangeVars
  <2>1. lost' = lost
    <3>1. ~(Len(Unanswered') < Len(Unanswered))
      BY <1>5, <1>6, <1>8, ConcatProperties, LenProperties
    <3>2. lost' = lost \union {}
      BY <1>1, <1>4, <1>8, <3>1 DEF ServerSide
    <3> QED BY <3>2
  <2> QED BY <1>3, <1>6, <1>7, <1>8, <2>1
          DEF Exchange!exchangeVars, Exchange!clientVars, Exchange!callerVars,
              callerVars
<1>9. CASE mainPc' = "done"
  <2>1. Unanswered' = <<>> /\ ServerSession' = "DEFAULT"
    BY <1>9 DEF Unanswered, ServerSession
  <2>2. lost' = lost \union {"session"}
    BY <1>1, <1>4, <1>9 DEF ServerSide
  <2>3. tx' = tx
    BY <1>4, <1>9
    DEF MainThread, ReceiverThread, Surroundings, MainStep, ReceiverStep,
        Start, CheckKeepRunning, LockQueue, TakeRequest, Wait,
        Handle, HandlerThrows, Send, Stop, Join, Destroy, CheckRunning,
        ReadRequest, ReadTimeout, LockToPush, Push, Notify, Interrupt,
        ReadError, SpuriousWakeup, mainVars
  <2>4. Exchange!ServerRestarts
    BY <1>3, <2>1, <2>2, <2>3
    DEF Exchange!ServerRestarts, Exchange!Server!Forget,
        Exchange!callerVars, callerVars
  <2> QED BY <2>4
<1>10. CASE ReadRequest
  <2>1. /\ mainPc' # "done" /\ rx # <<>> /\ rx' = Tail(rx)
        /\ Pending' = Append(Pending, Head(rx))
        /\ SessionGiven' = SessionGiven /\ tx' = tx
    BY <1>1, <1>4, <1>10, RefinesRead DEF ReadRequest, Responder!Accept
  <2>2. Unanswered' = Unanswered
    <3>1. Head(rx) \in Requests /\ Tail(rx) \in Seq(Requests)
      BY <1>5, <2>1, HeadTailProperties
    <3>2. Pending' = Pending \o <<Head(rx)>>
      BY <1>5, <2>1, <3>1, AppendIsConcat
    <3>3. <<Head(rx)>> \in Seq(Requests)
      BY <3>1
    <3>4. (Pending \o <<Head(rx)>>) \o Tail(rx)
            = Pending \o (<<Head(rx)>> \o Tail(rx))
      BY <1>5, <3>1, <3>3, ConcatAssociative
    <3>5. <<Head(rx)>> \o Tail(rx) = rx
      BY <1>5, <2>1, HeadAndTail
    <3> QED BY <1>6, <1>7, <2>1, <3>2, <3>4, <3>5
  <2> QED BY <1>8, <2>1, <2>2
<1>11. CASE ~ReadRequest /\ mainPc' # "done"
  <2>1. rx' = rx
    BY <1>11
    DEF MainThread, ReceiverThread, Surroundings, MainStep, ReceiverStep,
        Start, CheckKeepRunning, LockQueue, TakeRequest, Wait,
        Handle, HandlerThrows, Send, Stop, Join, Destroy, CheckRunning,
        ReadTimeout, LockToPush, Push, Notify, Interrupt,
        ReadError, SpuriousWakeup, receiverVars
  <2>2. Responder!Answer \/ Responder!Lose \/ UNCHANGED Responder!vars
    BY <1>1, <1>11, RefinesOther
  <2>3. CASE UNCHANGED Responder!vars
    BY <1>6, <1>7, <1>8, <1>11, <2>1, <2>3 DEF Responder!vars
  <2>4. ASSUME Responder!Consume
        PROVE  /\ Exchange!Server!Consume
               /\ Head(Unanswered) = Head(Pending)
               /\ Len(Unanswered') < Len(Unanswered)
    <3>1. /\ Pending # <<>> /\ Pending' = Tail(Pending)
          /\ SessionGiven' =
               Responder!SessionAfter(Head(Pending), SessionGiven)
      BY <2>4 DEF Responder!Consume
    <3>2. /\ Unanswered # <<>> /\ Unanswered \in Seq(Requests)
          /\ Head(Unanswered) = Head(Pending)
          /\ Unanswered' = Tail(Unanswered)
      BY <1>5, <1>6, <1>7, <1>11, <2>1, <3>1, FirstOfTwo
    <3>3. Len(Unanswered') < Len(Unanswered)
      BY <3>2, HeadTailProperties, LenProperties, EmptySeq
    <3>4. ServerSession' = Exchange!Server!SessionAfter(Head(Unanswered),
                                                        ServerSession)
      BY <1>6, <1>7, <1>11, <3>1, <3>2, SameProtocol
    <3> QED BY <3>2, <3>3, <3>4 DEF Exchange!Server!Consume
  <2>5. CASE Responder!Answer
    <3>1. tx' = Append(tx, Responder!HandleRequest(Head(Pending),
                                                   SessionGiven))
      BY <2>5 DEF Responder!Answer
    <3>2. Exchange!Server!Answer
      BY <1>6, <2>4, <2>5, <3>1, SameProtocol
      DEF Responder!Answer, Exchange!Server!Answer
    <3>3. tx' # tx
      BY <1>2, <3>1, AppendProperties DEF TypeOK
    <3>4. lost' = lost \union {}
      BY <1>1, <1>4, <1>11, <3>3 DEF ServerSide
    <3>5. Exchange!ServerAnswers
      BY <1>3, <3>2, <3>4
      DEF Exchange!ServerAnswers, Exchange!callerVars, callerVars
    <3> QED BY <3>5
  <2>6. CASE Responder!Lose
    <3>1. Responder!Consume /\ tx' = tx
      BY <2>6 DEF Responder!Lose
    <3>2. Exchange!Server!Lose
      BY <2>4, <3>1 DEF Exchange!Server!Lose
    <3>3. lost' = lost \union {"response"}
      BY <1>1, <1>4, <1>11, <2>4, <3>1 DEF ServerSide
    <3>4. Exchange!ResponseIsLost
      BY <1>3, <3>2, <3>3
      DEF Exchange!ResponseIsLost, Exchange!callerVars, callerVars
    <3> QED BY <3>4
  <2> QED BY <2>2, <2>3, <2>5, <2>6
<1> QED BY <1>9, <1>10, <1>11

(* A process that ends takes with it what it has not answered; one that    *)
(* starts has nothing yet.                                                 *)
LEMMA RefinesEnds ==
  ASSUME Killed \/ StartsAgain
  PROVE  Exchange!ServerRestarts \/ UNCHANGED Exchange!exchangeVars
<1>1. CASE Killed
  <2>1. Unanswered' = <<>> /\ ServerSession' = "DEFAULT"
    BY <1>1 DEF Killed, Afresh, Unanswered, ServerSession
  <2>2. /\ lost' = lost \union {"session"}
        /\ UNCHANGED <<tx, callerVars>>
    BY <1>1 DEF Killed, Afresh
  <2> QED BY <2>1, <2>2
          DEF Exchange!ServerRestarts, Exchange!Server!Forget,
              Exchange!callerVars, callerVars
<1>2. CASE StartsAgain
  <2>1. Unanswered = <<>> /\ ServerSession = "DEFAULT"
    BY <1>2 DEF StartsAgain, Unanswered, ServerSession
  <2>2. /\ mainPc' = "start" /\ rcvPc' = "none" /\ request_queue' = <<>>
        /\ rx' = <<>> /\ current_session' = "DEFAULT"
        /\ UNCHANGED <<tx, callerVars, lost>>
    BY <1>2 DEF StartsAgain, Afresh
  <2>3. Pending' = (<<>> \o <<>>) \o <<>>
    BY <2>2 DEF Pending
  <2>4. Unanswered' = <<>>
    BY <2>2, <2>3, ConcatEmptySeq, EmptySeq DEF Unanswered
  <2>5. ServerSession' = "DEFAULT"
    BY <2>2 DEF ServerSession, SessionGiven
  <2> QED BY <2>1, <2>2, <2>4, <2>5
          DEF Exchange!exchangeVars, Exchange!clientVars, Exchange!callerVars,
              callerVars
<1> QED BY <1>1, <1>2

(* Client and server together are an exchange: for any number of callers   *)
(* and calls, with the two threads of the server, its queue and its lock   *)
(* in the place of the abstract responder, and wherever the process ends.  *)
THEOREM SystemRefinement == SystemSpec => ImplementsExchange
<1>1. SystemInit => Exchange!Init
  <2> SUFFICES ASSUME SystemInit PROVE Exchange!Init
    OBVIOUS
  <2>1. Responder!Init /\ rx = <<>> /\ mainPc = "start"
    BY RefinesInit DEF SystemInit, Init
  <2>2. Client!ClientInit
    BY DEF SystemInit
  <2>3. ServerSession = "DEFAULT"
    BY <2>1 DEF Responder!Init, ServerSession
  <2> QED BY <2>2, <2>3
          DEF Client!ClientInit, Exchange!Init, Exchange!ClientInit,
              Client!NoCall, Exchange!NoCall, Client!NoResult,
              Exchange!NoResult, Client!EmptyRequest, Exchange!EmptyRequest,
              Client!NoService, Exchange!NoService
<1>2. SystemInv /\ [SystemNext]_systemVars => SystemInv'
  BY SystemStep
<1>3. SystemInv /\ [SystemNext]_systemVars
        => [Exchange!Next]_(Exchange!exchangeVars)
  <2> SUFFICES ASSUME SystemInv, [SystemNext]_systemVars
               PROVE  Exchange!Next \/ UNCHANGED Exchange!exchangeVars
    OBVIOUS
  <2>1. ASSUME NEW c \in Callers, Begins(c) \/ Proceeds(c)
        PROVE  Exchange!Next
    BY <2>1, RefinesClient DEF Exchange!Next
  <2>2. CASE MainThread \/ ReceiverThread \/ Surroundings
    BY <2>2, RefinesServer DEF Exchange!Next
  <2>3. CASE Killed \/ StartsAgain
    BY <2>3, RefinesEnds DEF Exchange!Next
  <2>4. CASE UNCHANGED systemVars
    BY <2>4
    DEF systemVars, vars, mainVars, queueVars, receiverVars, flagVars,
        callerVars, Unanswered, ServerSession, Pending, SessionGiven,
        Exchange!exchangeVars, Exchange!clientVars, Exchange!callerVars
  <2> QED BY <2>1, <2>2, <2>3, <2>4 DEF SystemNext
<1> QED
  BY SystemInitially, <1>1, <1>2, <1>3, PTL
  DEF SystemSpec, ImplementsExchange, Exchange!Spec

-----------------------------------------------------------------------------
(* What is proved of the exchange holds of the whole connection.           *)
Facts == INSTANCE UdsExchangeProofs
           WITH toServer <- Unanswered, toClient <- tx,
                serverSession <- ServerSession,
                Faults <- ClientFaults \union {"lose", "restart"}

(* What the exchange assumes of its constants holds of those it gets here. *)
LEMMA FactsAssumption == Facts!ProtocolAssumption /\ Facts!ClientAssumption
<1>1. Facts!ProtocolAssumption
  BY ProtocolAssumption
  DEF Facts!ProtocolAssumption, SupportedSessions, Facts!SupportedSessions
<1>2. Client!ClientAssumption
  BY SystemAssumption
<1>3. Calls \subseteq Facts!CallRecords
  BY <1>2
  DEF Client!ClientAssumption, Client!CallRecords, Facts!CallRecords,
      Client!Operations, Facts!Operations, Client!Requests, Facts!Requests,
      Client!Services, Facts!Services, Client!SessionControl,
      Facts!SessionControl, Client!ReadData, Facts!ReadData,
      Client!EcuReset, Facts!EcuReset, Client!NoService, Facts!NoService,
      Client!Items, Facts!Items, Client!SessionBytes, Facts!SessionBytes,
      Client!SupportedSessions, Facts!SupportedSessions
<1>4. ClientFaults \union {"lose", "restart"} \subseteq Facts!FaultKinds
  BY <1>2 DEF Client!ClientAssumption, Client!FaultKinds, Facts!FaultKinds
<1>5. \A made \in Calls :
        made.op = "set_session" => /\ made.request.sid = Facts!SessionControl
                                   /\ Len(made.request.args) = 1
  BY <1>2 DEF Client!ClientAssumption, Client!SessionControl,
              Facts!SessionControl
<1> QED BY <1>1, <1>2, <1>3, <1>4, <1>5
        DEF Client!ClientAssumption, Facts!ClientAssumption

(* The exchange the proofs are about is the one that is implemented. *)
LEMMA SystemIsExchange == SystemSpec => Facts!Spec
<1>1. Exchange!Init => Facts!Init
  BY DEF Exchange!Init, Facts!Init, Exchange!ClientInit,
         Facts!ClientInit, Exchange!NoCall, Facts!NoCall,
         Exchange!NoResult, Facts!NoResult, Exchange!EmptyRequest,
         Facts!EmptyRequest, Exchange!NoService, Facts!NoService
<1>2. Exchange!Next => Facts!Next
  BY DEF Exchange!Next, Facts!Next, Exchange!ClientNext,
         Facts!ClientNext, Exchange!Begin, Facts!Begin,
         Exchange!CallStep, Facts!CallStep, Exchange!Lock, Facts!Lock,
         Exchange!Send, Facts!Send, Exchange!SendNoResponse,
         Facts!SendNoResponse, Exchange!SetTimeoutFails,
         Facts!SetTimeoutFails, Exchange!Receive, Facts!Receive,
         Exchange!Timeout, Facts!Timeout, Exchange!ReceiveFails,
         Facts!ReceiveFails, Exchange!Write, Facts!Write,
         Exchange!Return, Facts!Return, Exchange!GiveUp, Facts!GiveUp,
         Exchange!Failure, Facts!Failure, Exchange!NoResult,
         Facts!NoResult, Exchange!ResultOf, Facts!ResultOf,
         Exchange!SetSessionResult, Facts!SetSessionResult,
         Exchange!SendRequestResult, Facts!SendRequestResult,
         Exchange!IsPositive, Facts!IsPositive, Exchange!SessionControl,
         Facts!SessionControl, Exchange!ServerAnswers,
         Facts!ServerAnswers, Exchange!ResponseIsLost,
         Facts!ResponseIsLost, Exchange!ServerRestarts,
         Facts!ServerRestarts, Exchange!callerVars, Facts!callerVars,
         Exchange!Server!Answer, Facts!Server!Answer,
         Exchange!Server!Lose, Facts!Server!Lose,
         Exchange!Server!Forget, Facts!Server!Forget,
         Exchange!Server!Consume, Facts!Server!Consume,
         Exchange!Server!HandleRequest, Facts!Server!HandleRequest,
         Exchange!Server!SessionAfter, Facts!Server!SessionAfter,
         Exchange!Server!HandleSessionControl,
         Facts!Server!HandleSessionControl,
         Exchange!Server!ReadDataHandler, Facts!Server!ReadDataHandler,
         Exchange!Server!Positive, Facts!Server!Positive,
         Exchange!Server!Negative, Facts!Server!Negative,
         Exchange!Server!AllowedSessions, Facts!Server!AllowedSessions,
         Exchange!Server!SessionControl, Facts!Server!SessionControl,
         Exchange!Server!ReadData, Facts!Server!ReadData,
         Exchange!Server!EcuReset, Facts!Server!EcuReset,
         Exchange!Server!NoService, Facts!Server!NoService
<1>3. [Exchange!Next]_(Exchange!exchangeVars) => [Facts!Next]_(Facts!exchangeVars)
  BY <1>2
  DEF Exchange!exchangeVars, Facts!exchangeVars, Exchange!clientVars,
      Facts!clientVars, Exchange!callerVars, Facts!callerVars
<1> QED
  BY SystemRefinement, <1>1, <1>3, PTL
  DEF ImplementsExchange, Exchange!Spec, Facts!Spec

(* As long as no call gives up on an answer still to come, a call to the   *)
(* threaded server gets its own answer, with any number of callers,        *)
(* whatever else goes wrong and wherever the server process ends.          *)
THEOREM SystemCallsGetTheirOwnAnswers ==
  SystemSpec => []Exchange!AnswersOwnCall
<1>1. Facts!Spec => []Facts!AnswersOwnCall
  BY Facts!CallsGetTheirOwnAnswers, FactsAssumption
<1>2. Facts!AnswersOwnCall => Exchange!AnswersOwnCall
  BY DEF Facts!AnswersOwnCall, Exchange!AnswersOwnCall, Facts!OwnResults,
         Exchange!OwnResults, Facts!NoResult, Exchange!NoResult,
         Facts!Failure, Exchange!Failure, Facts!ResultOf,
         Exchange!ResultOf, Facts!SetSessionResult,
         Exchange!SetSessionResult, Facts!SendRequestResult,
         Exchange!SendRequestResult, Facts!IsPositive, Exchange!IsPositive,
         Facts!SessionBytes, Exchange!SessionBytes,
         Facts!SupportedSessions, Exchange!SupportedSessions,
         Facts!HandleRequest, Exchange!HandleRequest,
         Facts!HandleSessionControl, Exchange!HandleSessionControl,
         Facts!ReadDataHandler, Exchange!ReadDataHandler, Facts!Positive,
         Exchange!Positive, Facts!Negative, Exchange!Negative,
         Facts!AllowedSessions, Exchange!AllowedSessions,
         Facts!SessionControl, Exchange!SessionControl, Facts!ReadData,
         Exchange!ReadData, Facts!EcuReset, Exchange!EcuReset,
         Facts!NoService, Exchange!NoService
<1> QED BY SystemIsExchange, <1>1, <1>2, PTL

(* Between calls the session the client keeps is the one the threaded      *)
(* server is in, or will be in once it has sent what it is about to send.  *)
THEOREM SystemSessionsAgree == SystemSpec => []Exchange!SessionAgreement
<1>1. Facts!Spec => []Facts!SessionAgreement
  BY Facts!SessionsAgree, FactsAssumption
<1>2. Facts!SessionAgreement => Exchange!SessionAgreement
  BY DEF Facts!SessionAgreement, Exchange!SessionAgreement,
         Facts!SessionControl, Exchange!SessionControl
<1> QED BY SystemIsExchange, <1>1, <1>2, PTL

(* The session the client keeps decides what its reads get, if no caller   *)
(* changes it with anything but set_session.                               *)
THEOREM SystemReadsAsKept ==
  ASSUME \A made \in Calls :
           made.request.sid = SessionControl => made.op = "set_session"
  PROVE  SystemSpec => SessionDecidesReads
<1>1. Facts!Spec => Facts!ReadsFollowSession
  BY Facts!ReadsAsKept, FactsAssumption
<1>2. [\A c \in Callers :
         /\ Facts!SessionKept
         /\ pc[c] = "receive" /\ pc'[c] = "idle"
         /\ call[c].request.sid = Facts!ReadData
         => /\ result'[c].success
                 => currentSession \in Facts!AllowedSessions[Facts!ReadData]
            /\ result'[c].nrc = "SERVICE_NOT_SUPPORTED_IN_ACTIVE_SESSION"
                 => currentSession \notin Facts!AllowedSessions[Facts!ReadData]]_(Facts!exchangeVars)
      => [\A c \in Callers :
            /\ pc[c] = "receive" /\ pc'[c] = "idle"
            /\ call[c].request.sid = ReadData
            /\ lost \intersect {"response", "session"} = {}
            /\ ~outOfStep
            => /\ result'[c].success
                    => currentSession \in AllowedSessions[ReadData]
               /\ result'[c].nrc = "SERVICE_NOT_SUPPORTED_IN_ACTIVE_SESSION"
                    => currentSession \notin AllowedSessions[ReadData]]_systemVars
  BY DEF Facts!SessionKept, Facts!ReadData, Facts!AllowedSessions,
         Facts!SessionControl, ReadData, AllowedSessions, SessionControl,
         Facts!exchangeVars, Facts!clientVars, Facts!callerVars
<1> QED
  BY SystemIsExchange, <1>1, <1>2, PTL
  DEF Facts!ReadsFollowSession, SessionDecidesReads
=============================================================================
