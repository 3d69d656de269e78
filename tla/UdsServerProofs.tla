--------------------------- MODULE UdsServerProofs ---------------------------
(***************************************************************************)
(* Proofs about UdsServer for every set of requests, every bound on their  *)
(* number and every choice of faults.                                      *)
(***************************************************************************)
EXTENDS UdsServer, UdsProtocolProofs, SequenceTheorems, TLAPS

LEMMA TypeInitially == Init => TypeOK
<1>1. EmptyRequest \in Requests
  BY DEF EmptyRequest, Requests, Services, SessionControl, NoService
<1>2. NoResponse \in Responses
  BY DEF NoResponse, Negative, Responses, Services, NRCs, NoService
<1>3. "DEFAULT" \in SessionBytes
  BY DEF SessionBytes, SupportedSessions
<1>4. <<>> \in Seq(Requests) /\ <<>> \in Seq(Responses)
      /\ <<>> \in Seq(ServedRecords)
  OBVIOUS
<1>5. ASSUME Init PROVE TypeOK
  <2>1. running \in BOOLEAN /\ keep_running \in BOOLEAN
    BY <1>5 DEF Init
  <2>2. /\ request_queue \in Seq(Requests) /\ rx \in Seq(Requests)
        /\ taken \in Seq(Requests) /\ tx \in Seq(Responses)
        /\ served \in Seq(ServedRecords)
    BY <1>4, <1>5 DEF Init
  <2>3. /\ buffer \in Requests /\ request \in Requests
        /\ response \in Responses /\ current_session \in SessionBytes
    BY <1>1, <1>2, <1>3, <1>5 DEF Init
  <2> QED BY <1>5, <2>1, <2>2, <2>3 DEF Init, TypeOK
<1> QED BY <1>5

LEMMA TypeStep == TypeOK /\ [Next]_vars => TypeOK'
<1> SUFFICES ASSUME TypeOK, [Next]_vars
             PROVE  TypeOK'
  OBVIOUS
<1> USE DEF TypeOK, flagVars, queueVars, receiverVars, mainVars
<1>1. CASE Start        BY <1>1 DEF Start
<1>2. CASE CheckKeepRunning BY <1>2 DEF CheckKeepRunning
<1>3. CASE LockQueue    BY <1>3 DEF LockQueue
<1>4. CASE TakeRequest  BY <1>4 DEF TakeRequest
<1>5. CASE Wait         BY <1>5 DEF Wait
<1>6. CASE Handle
  <2>1. response' \in Responses /\ current_session' \in SessionBytes
    BY <1>6, AnswerType DEF Handle
  <2>2. [request |-> request, session |-> current_session,
         response |-> response'] \in ServedRecords
    BY <2>1 DEF ServedRecords
  <2>3. served' \in Seq(ServedRecords)
    BY <1>6, <2>2 DEF Handle, Record
  <2> QED BY <1>6, <2>1, <2>3 DEF Handle
<1>7. CASE HandlerThrows
  <2>1. NoResponse \in Responses
    BY DEF NoResponse, Negative, Responses, Services, NRCs, NoService
  <2>2. [request |-> request, session |-> current_session,
         response |-> NoResponse] \in ServedRecords
    BY <2>1 DEF ServedRecords
  <2>3. served' \in Seq(ServedRecords)
    BY <1>7, <2>2 DEF HandlerThrows, Record
  <2> QED BY <1>7, <2>3 DEF HandlerThrows
<1>8. CASE Send         BY <1>8 DEF Send
<1>9. CASE Stop         BY <1>9 DEF Stop
<1>10. CASE Join        BY <1>10 DEF Join
<1>11. CASE Destroy     BY <1>11 DEF Destroy
<1>12. CASE CheckRunning BY <1>12 DEF CheckRunning
<1>13. CASE ReadRequest BY <1>13 DEF ReadRequest
<1>14. CASE ReadTimeout BY <1>14 DEF ReadTimeout
<1>15. CASE LockToPush  BY <1>15 DEF LockToPush
<1>16. CASE Push        BY <1>16 DEF Push
<1>17. CASE Notify      BY <1>17 DEF Notify
<1>18. CASE Arrive
  BY <1>18, ServerAssumption DEF Arrive
<1>19. CASE Interrupt   BY <1>19 DEF Interrupt
<1>20. CASE ReadError   BY <1>20 DEF ReadError
<1>21. CASE SpuriousWakeup BY <1>21 DEF SpuriousWakeup
<1>22. CASE UNCHANGED vars BY <1>22 DEF vars
<1> QED
  BY <1>1, <1>2, <1>3, <1>4, <1>5, <1>6, <1>7, <1>8, <1>9, <1>10, <1>11,
     <1>12, <1>13, <1>14, <1>15, <1>16, <1>17, <1>18, <1>19, <1>20, <1>21,
     <1>22
  DEF Next, MainStep, ReceiverStep, Environment

(* The state of the server has its type in every reachable state, whatever *)
(* arrives and whatever fails: in particular current_session is always a   *)
(* session byte.                                                           *)
THEOREM TypeCorrect == Spec => []TypeOK
BY TypeInitially, TypeStep, PTL DEF Spec

-----------------------------------------------------------------------------
(* The threads and the order in which they start and end: the receiver     *)
(* thread exists from start() on, and has exited once it has been joined.  *)
ThreadOrder ==
  /\ mainPc = "start" <=> rcvPc = "none"
  /\ mainPc \in {"destroy", "done"} => rcvPc = "exited"

(* The inductive invariant.  Each part needs the ones before it: a request *)
(* can be taken out of order only if a queue operation runs without the    *)
(* lock, and the end of the process is in order only if the thread is      *)
(* joined once.                                                            *)
IInv ==
  /\ TypeOK
  /\ QueueIsGuarded
  /\ ThreadOrder
  /\ NoLostWakeup
  /\ FifoService

LEMMA InitIInv == Init => IInv
<1> SUFFICES ASSUME Init PROVE IInv
  OBVIOUS
<1>1. TypeOK
  BY TypeInitially
<1>2. QueueIsGuarded /\ ThreadOrder /\ NoLostWakeup
  BY DEF Init, QueueIsGuarded, ThreadOrder, NoLostWakeup
<1>3. FifoService
  BY DEF Init, FifoService, Gone, HeldByMain, HeldByReceiver
<1> QED BY <1>1, <1>2, <1>3 DEF IInv

(* The lock and the program counters go together in every step. *)
LEMMA ControlStep ==
  ASSUME TypeOK, QueueIsGuarded, ThreadOrder, NoLostWakeup, [Next]_vars
  PROVE  QueueIsGuarded' /\ ThreadOrder' /\ NoLostWakeup'
<1> USE DEF QueueIsGuarded, ThreadOrder, NoLostWakeup,
            flagVars, queueVars, receiverVars, mainVars
<1>1. CASE MainStep
  BY <1>1
  DEF TypeOK, MainStep, Start, CheckKeepRunning, LockQueue, TakeRequest, Wait,
      Handle, HandlerThrows, Send, Stop, Join, Destroy
<1>2. CASE ReceiverStep
  BY <1>2
  DEF TypeOK, ReceiverStep, CheckRunning, ReadRequest, ReadTimeout, LockToPush,
      Push, Notify
<1>3. CASE Environment
  BY <1>3
  DEF TypeOK, Environment, Arrive, Interrupt, ReadError, SpuriousWakeup
<1>4. CASE UNCHANGED vars
  BY <1>4 DEF vars
<1> QED BY <1>1, <1>2, <1>3, <1>4 DEF Next

(* A request moves from the socket to the receiver thread, to the queue,   *)
(* to the main thread and to the handled ones, one place at a time; every  *)
(* other step leaves all of them where they are.                           *)
LEMMA FifoStep ==
  ASSUME TypeOK, ThreadOrder, FifoService, [Next]_vars
  PROVE  FifoService'
<1> USE DEF flagVars, queueVars, receiverVars, mainVars
<1>0. /\ taken \in Seq(Requests) /\ request_queue \in Seq(Requests)
      /\ rx \in Seq(Requests) /\ served \in Seq(ServedRecords)
      /\ buffer \in Requests
      /\ Len(taken) \in Nat /\ Len(request_queue) \in Nat
      /\ Len(served) \in Nat /\ Gone \in Nat /\ HeldByReceiver \in Nat
  BY DEF TypeOK, Gone, HeldByMain, HeldByReceiver
<1>1. CASE ReadRequest
  <2>1. taken' = Append(taken, buffer') /\ buffer' \in Requests
    BY <1>0, <1>1 DEF ReadRequest
  <2>2. /\ Len(taken') = Len(taken) + 1
        /\ \A i \in 1..Len(taken) : taken'[i] = taken[i]
        /\ taken'[Len(taken) + 1] = buffer'
    BY <1>0, <2>1, AppendProperties
  <2>3. HeldByReceiver = 0 /\ HeldByReceiver' = 1 /\ Gone' = Gone
    BY <1>1 DEF ReadRequest, HeldByMain, HeldByReceiver, Gone
  <2>4. Len(served) <= Gone /\ (mainPc = "handle" => Gone >= 1)
    BY <1>0 DEF Gone, HeldByMain
  <2>5. UNCHANGED <<served, mainPc, request, request_queue>>
    BY <1>1 DEF ReadRequest
  <2>6. Len(taken) = Gone + Len(request_queue)
    BY <1>0, <2>3 DEF FifoService
  <2>7. \A i \in 1..Len(served) : served[i].request = taken'[i]
    BY <1>0, <2>2, <2>4, <2>6 DEF FifoService
  <2>8. mainPc = "handle" => request = taken'[Gone]
    BY <1>0, <2>2, <2>4, <2>6 DEF FifoService
  <2>9. ASSUME NEW i \in 1..Len(request_queue)
        PROVE  request_queue[i] = taken'[Gone + i]
    <3>1. Gone + i \in 1..Len(taken)
      BY <1>0, <2>6
    <3> QED BY <2>2, <3>1 DEF FifoService
  <2> QED BY <1>0, <2>2, <2>3, <2>5, <2>6, <2>7, <2>8, <2>9 DEF FifoService
<1>2. CASE Push
  <2>1. /\ Len(request_queue') = Len(request_queue) + 1
        /\ \A i \in 1..Len(request_queue) : request_queue'[i] = request_queue[i]
        /\ request_queue'[Len(request_queue) + 1] = buffer
    BY <1>0, <1>2, AppendProperties DEF Push
  <2>2. HeldByReceiver = 1 /\ HeldByReceiver' = 0 /\ Gone' = Gone
    BY <1>2 DEF Push, HeldByMain, HeldByReceiver, Gone
  <2>3. /\ Len(taken) = Gone + (Len(request_queue) + 1)
        /\ buffer = taken[Len(taken)]
    BY <1>0, <1>2, <2>2 DEF FifoService, Push
  <2>4. ASSUME NEW i \in 1..Len(request_queue')
        PROVE  request_queue'[i] = taken[Gone + i]
    <3>1. CASE i \in 1..Len(request_queue)
      BY <2>1, <3>1 DEF FifoService
    <3>2. CASE i = Len(request_queue) + 1
      BY <2>1, <2>3, <3>2
    <3> QED BY <1>0, <2>1, <3>1, <3>2
  <2>5. UNCHANGED <<taken, served, mainPc, request>> /\ rcvPc' = "notify"
    BY <1>2 DEF Push
  <2> QED BY <1>0, <2>1, <2>2, <2>3, <2>4, <2>5 DEF FifoService
<1>3. CASE TakeRequest
  <2>1. /\ request' = request_queue[1]
        /\ Len(request_queue') = Len(request_queue) - 1
        /\ Len(request_queue) >= 1
        /\ \A i \in 1..Len(request_queue') :
             request_queue'[i] = request_queue[i + 1]
    BY <1>0, <1>3 DEF TakeRequest
  <2>2. Gone' = Gone + 1 /\ HeldByReceiver' = HeldByReceiver
    BY <1>0, <1>3 DEF TakeRequest, HeldByMain, HeldByReceiver, Gone
  <2>3. request' = taken[Gone + 1]
    BY <1>0, <2>1 DEF FifoService
  <2>4. ASSUME NEW i \in 1..Len(request_queue')
        PROVE  request_queue'[i] = taken[Gone' + i]
    <3>1. i + 1 \in 1..Len(request_queue) /\ Gone + (i + 1) = Gone' + i
      BY <1>0, <2>1, <2>2
    <3> QED BY <2>1, <3>1 DEF FifoService
  <2>5. UNCHANGED <<taken, served, rcvPc, buffer>>
    BY <1>3 DEF TakeRequest
  <2>6. Len(taken) = Gone' + Len(request_queue') + HeldByReceiver'
    BY <1>0, <2>1, <2>2 DEF FifoService
  <2>7. /\ \A i \in 1..Len(served) : served[i].request = taken[i]
        /\ rcvPc \in {"lock", "push"} => buffer = taken[Len(taken)]
    BY DEF FifoService
  <2> QED BY <2>2, <2>3, <2>4, <2>5, <2>6, <2>7 DEF FifoService
<1>4. ASSUME NEW answer, Record(answer),
             [request |-> request, session |-> current_session,
              response |-> answer] \in ServedRecords,
             mainPc = "handle", mainPc' # "handle",
             UNCHANGED <<taken, request_queue, rcvPc, buffer>>
      PROVE  FifoService'
  <2>1. /\ Len(served') = Len(served) + 1
        /\ \A i \in 1..Len(served) : served'[i] = served[i]
        /\ served'[Len(served) + 1].request = request
    BY <1>0, <1>4, AppendProperties DEF Record
  <2>2. /\ Gone' = Gone /\ Gone = Len(served) + 1
        /\ HeldByReceiver' = HeldByReceiver
    BY <1>0, <1>4, <2>1 DEF HeldByMain, HeldByReceiver, Gone
  <2>3. ASSUME NEW i \in 1..Len(served')
        PROVE  served'[i].request = taken[i]
    <3>1. CASE i \in 1..Len(served)
      BY <2>1, <3>1 DEF FifoService
    <3>2. CASE i = Len(served) + 1
      BY <1>4, <2>1, <2>2, <3>2 DEF FifoService
    <3> QED BY <1>0, <2>1, <3>1, <3>2
  <2> QED BY <1>0, <1>4, <2>1, <2>2, <2>3 DEF FifoService
<1>5. CASE Handle
  <2>1. response' \in Responses
    BY <1>5, AnswerType DEF Handle, TypeOK
  <2>2. [request |-> request, session |-> current_session,
         response |-> response'] \in ServedRecords
    BY <2>1 DEF TypeOK, ServedRecords
  <2> QED BY <1>4, <1>5, <2>2 DEF Handle
<1>6. CASE HandlerThrows
  <2>1. [request |-> request, session |-> current_session,
         response |-> NoResponse] \in ServedRecords
    BY DEF TypeOK, ServedRecords, NoResponse, Negative, Responses, Services,
           NRCs, NoService
  <2> QED BY <1>4, <1>6, <2>1 DEF HandlerThrows
<1>7. ASSUME UNCHANGED <<taken, served, request, request_queue, buffer>>,
             mainPc' = "handle" <=> mainPc = "handle",
             rcvPc' \in {"lock", "push"} <=> rcvPc \in {"lock", "push"}
      PROVE  FifoService'
  <2>1. Gone' = Gone /\ HeldByReceiver' = HeldByReceiver
    BY <1>7 DEF HeldByMain, HeldByReceiver, Gone
  <2> QED BY <1>7, <2>1 DEF FifoService
<1>8. CASE Start \/ CheckKeepRunning \/ LockQueue \/ Wait
  BY <1>7, <1>8 DEF ThreadOrder, Start, CheckKeepRunning, LockQueue, Wait
<1>9. CASE Send \/ Stop \/ Join \/ Destroy
  BY <1>7, <1>9 DEF Send, Stop, Join, Destroy
<1>10. CASE CheckRunning \/ ReadTimeout \/ LockToPush \/ Notify
  BY <1>7, <1>10 DEF CheckRunning, ReadTimeout, LockToPush, Notify
<1>11. CASE Environment
  BY <1>7, <1>11 DEF Environment, Arrive, Interrupt, ReadError, SpuriousWakeup
<1>12. CASE UNCHANGED vars
  BY <1>7, <1>12 DEF vars
<1> QED
  BY <1>1, <1>2, <1>3, <1>5, <1>6, <1>8, <1>9, <1>10, <1>11, <1>12
  DEF Next, MainStep, ReceiverStep

(* The invariant of the server, for every interleaving of the two threads  *)
(* and of the environment.                                                 *)
THEOREM Invariance == Spec => []IInv
<1>1. IInv /\ [Next]_vars => IInv'
  BY TypeStep, ControlStep, FifoStep DEF IInv
<1> QED BY InitIInv, <1>1, PTL DEF Spec

(* receiver_loop, request_queue and receive_request keep every request     *)
(* that is read, once each and in order, for every number of requests.     *)
THEOREM RequestsInOrder == Spec => []FifoService
<1>1. IInv => FifoService
  BY DEF IInv
<1> QED BY Invariance, <1>1, PTL

(* notify_one after the unlock and the predicate tested under the lock     *)
(* never leave the main thread asleep with a request in the queue and      *)
(* nobody about to wake it.                                                *)
THEOREM WakeupsAreNotLost == Spec => []NoLostWakeup
<1>1. IInv => NoLostWakeup
  BY DEF IInv
<1> QED BY Invariance, <1>1, PTL

(* The queue is only touched under its mutex, by one thread at a time.     *)
THEOREM MutualExclusion ==
  Spec => [](QueueIsGuarded /\ ~(rcvPc = "push" /\ mainPc = "test"))
<1>1. IInv => QueueIsGuarded /\ ~(rcvPc = "push" /\ mainPc = "test")
  BY DEF IInv, QueueIsGuarded
<1> QED BY Invariance, <1>1, PTL

(* When the process is over the receiver thread is too, the mutex is free, *)
(* and what was read and not handled is all in the queue.                  *)
THEOREM OrderlyEnd == Spec => []NoThreadOutlivesServer
<1>1. ASSUME IInv PROVE NoThreadOutlivesServer
  <2>1. CASE mainPc = "done"
    <3>1. rcvPc = "exited"
      BY <1>1, <2>1 DEF IInv, ThreadOrder
    <3>2. queue_mutex = "free"
      BY <1>1, <2>1, <3>1 DEF IInv, TypeOK, QueueIsGuarded
    <3>3. HeldByReceiver = 0 /\ HeldByMain = 0
      BY <2>1, <3>1 DEF HeldByReceiver, HeldByMain
    <3>4. Len(served) \in Nat /\ Len(request_queue) \in Nat
      BY <1>1 DEF IInv, TypeOK
    <3>5. Len(taken) = Len(served) + Len(request_queue)
      BY <1>1, <3>3, <3>4 DEF IInv, FifoService, Gone
    <3> QED BY <3>1, <3>2, <3>5 DEF NoThreadOutlivesServer
  <2> QED BY <2>1 DEF NoThreadOutlivesServer
<1> QED BY Invariance, <1>1, PTL

-----------------------------------------------------------------------------
(* Facts about sequences that the refinement needs. *)

(* One item and the rest. *)
LEMMA FirstAndRest ==
  ASSUME NEW S, NEW x \in S, NEW rest \in Seq(S)
  PROVE  /\ <<x>> \o rest # <<>>
         /\ Head(<<x>> \o rest) = x
         /\ Tail(<<x>> \o rest) = rest
<1>1. <<x>> \in Seq(S) /\ Len(<<x>>) = 1 /\ <<x>>[1] = x
  OBVIOUS
<1> DEFINE whole == <<x>> \o rest
<1>2. /\ whole \in Seq(S) /\ Len(whole) = 1 + Len(rest)
      /\ \A i \in 1..(1 + Len(rest)) :
           whole[i] = IF i <= 1 THEN <<x>>[i] ELSE rest[i - 1]
  BY <1>1, ConcatProperties
<1>3. Len(rest) \in Nat
  OBVIOUS
<1> HIDE DEF whole
<1>4. whole # <<>>
  BY <1>2, <1>3, EmptySeq
<1>5. whole[1] = x
  BY <1>1, <1>2, <1>3
<1>6. Head(whole) = x
  BY <1>2, <1>4, <1>5
<1>7. /\ Tail(whole) \in Seq(S) /\ Len(Tail(whole)) = Len(rest)
      /\ \A i \in 1..Len(rest) : Tail(whole)[i] = whole[i + 1]
  BY <1>2, <1>3, <1>4, HeadTailProperties
<1>8. ASSUME NEW i \in 1..Len(rest)
      PROVE  Tail(whole)[i] = rest[i]
  <2>1. whole[i + 1] = rest[(i + 1) - 1]
    BY <1>2, <1>3
  <2> QED BY <1>3, <1>7, <2>1
<1>9. Tail(whole) = rest
  BY <1>7, <1>8, SeqEqual
<1> QED BY <1>4, <1>6, <1>9 DEF whole

(* The first item taken off and put in front again. *)
LEMMA HeadAndTail ==
  ASSUME NEW S, NEW s \in Seq(S), s # <<>>
  PROVE  <<Head(s)>> \o Tail(s) = s
<1>1. /\ Head(s) \in S /\ Tail(s) \in Seq(S) /\ Len(Tail(s)) = Len(s) - 1
      /\ \A i \in 1..Len(Tail(s)) : Tail(s)[i] = s[i + 1]
  BY HeadTailProperties
<1>2. <<Head(s)>> \in Seq(S) /\ Len(<<Head(s)>>) = 1
      /\ <<Head(s)>>[1] = s[1]
  BY <1>1
<1> DEFINE whole == <<Head(s)>> \o Tail(s)
<1>3. /\ whole \in Seq(S) /\ Len(whole) = 1 + Len(Tail(s))
      /\ \A i \in 1..(1 + Len(Tail(s))) :
           whole[i] = IF i <= 1 THEN <<Head(s)>>[i] ELSE Tail(s)[i - 1]
  BY <1>1, <1>2, ConcatProperties
<1> HIDE DEF whole
<1>4. Len(s) \in Nat /\ Len(s) >= 1
  BY EmptySeq
<1>5. ASSUME NEW i \in 1..Len(whole)
      PROVE  whole[i] = s[i]
  <2>1. CASE i = 1
    BY <1>2, <1>3, <1>1, <1>4, <2>1
  <2>2. CASE i # 1
    <3>1. i - 1 \in 1..Len(Tail(s)) /\ (i - 1) + 1 = i
      BY <1>1, <1>3, <1>4, <2>2
    <3>2. whole[i] = Tail(s)[i - 1]
      BY <1>1, <1>3, <1>4, <2>2
    <3> QED BY <1>1, <3>1, <3>2
  <2> QED BY <2>1, <2>2
<1>6. Len(whole) = Len(s)
  BY <1>1, <1>3, <1>4
<1>7. whole = s
  BY <1>3, <1>5, <1>6, SeqEqual
<1> QED BY <1>7 DEF whole

-----------------------------------------------------------------------------
(* The server implements the abstract responder.                           *)

(* The response about to be sent is the one to the request in hand, in the *)
(* session that the history keeps for it.                                  *)
AnswerInHand ==
  mainPc = "send" =>
    /\ response = HandleRequest(request, SessionGiven)
    /\ current_session = SessionAfter(request, SessionGiven)

(* The requests of the socket are those that may come. *)
LEMMA ArrivalsStep ==
  ASSUME rx \in Seq(Arrivals), [Next]_vars
  PROVE  rx' \in Seq(Arrivals)
<1> USE DEF flagVars, queueVars, receiverVars, mainVars
<1>1. CASE ReadRequest
  BY <1>1 DEF ReadRequest
<1>2. CASE Arrive
  BY <1>2 DEF Arrive
<1>3. CASE UNCHANGED rx
  BY <1>3
<1> QED
  BY <1>1, <1>2, <1>3
  DEF Next, MainStep, ReceiverStep, Environment, Start, CheckKeepRunning,
      LockQueue, TakeRequest, Wait, Handle, HandlerThrows, Send, Stop, Join,
      Destroy, CheckRunning, ReadTimeout, LockToPush, Push, Notify, Interrupt,
      ReadError, SpuriousWakeup, vars

LEMMA AnswerStep ==
  ASSUME TypeOK, AnswerInHand, [Next]_vars
  PROVE  AnswerInHand'
<1> USE DEF flagVars, queueVars, receiverVars, mainVars
<1>2. CASE Handle
  <2>1. response' \in Responses
    BY <1>2, AnswerType DEF Handle, TypeOK
  <2>2. [request |-> request, session |-> current_session,
         response |-> response'] \in ServedRecords
    BY <2>1 DEF TypeOK, ServedRecords
  <2>3. served'[Len(served')].session = current_session
    BY <1>2, <2>2, AppendProperties DEF Handle, Record, TypeOK
  <2>4. SessionGiven' = current_session
    BY <1>2, <2>3 DEF Handle, SessionGiven
  <2> QED BY <1>2, <2>4 DEF Handle, AnswerInHand
<1>3. CASE mainPc' # "send"
  BY <1>3 DEF AnswerInHand
<1>4. CASE UNCHANGED <<mainPc, request, response, current_session, served>>
  BY <1>4 DEF AnswerInHand, SessionGiven
<1> QED
  BY <1>2, <1>3, <1>4
  DEF Next, MainStep, ReceiverStep, Environment, Start, CheckKeepRunning,
      LockQueue, TakeRequest, Wait, HandlerThrows, Send, Stop, Join, Destroy,
      CheckRunning, ReadRequest, ReadTimeout, LockToPush, Push, Notify, Arrive,
      Interrupt, ReadError, SpuriousWakeup, vars

(* Pending, in the hands it is in. *)
MainHand     == IF mainPc \in {"handle", "send"} THEN <<request>> ELSE <<>>
ReceiverHand == IF rcvPc \in {"lock", "push"} THEN <<buffer>> ELSE <<>>

LEMMA PendingInHands ==
  ASSUME TypeOK
  PROVE  /\ Pending = (MainHand \o request_queue) \o ReceiverHand
         /\ MainHand \in Seq(Requests)
         /\ ReceiverHand \in Seq(Requests)
         /\ request_queue \in Seq(Requests)
BY DEF Pending, MainHand, ReceiverHand, TypeOK

(* The responder of the instance and the one of UdsProtocol are the same.  *)
LEMMA ResponderProtocol ==
  ASSUME NEW message, NEW session
  PROVE  /\ Responder!HandleRequest(message, session) = HandleRequest(message, session)
         /\ Responder!SessionAfter(message, session) = SessionAfter(message, session)
BY DEF Responder!HandleRequest, Responder!SessionAfter,
       Responder!HandleSessionControl, Responder!ReadDataHandler,
       Responder!Positive, Responder!Negative, Responder!AllowedSessions,
       Responder!SessionControl, Responder!ReadData, Responder!EcuReset,
       Responder!NoService,
       HandleRequest, SessionAfter, HandleSessionControl, ReadDataHandler,
       Positive, Negative, AllowedSessions, SessionControl, ReadData, EcuReset,
       NoService

(* The process starts as the responder does, with nothing pending. *)
LEMMA RefinesInit == Init => Responder!Init
<1> SUFFICES ASSUME Init PROVE Responder!Init
  OBVIOUS
<1>1. Pending = <<>>
  <2>1. TypeOK
    BY TypeInitially
  <2>2. MainHand = <<>> /\ ReceiverHand = <<>> /\ request_queue = <<>>
    BY DEF Init, MainHand, ReceiverHand
  <2> QED BY <2>1, <2>2, PendingInHands, ConcatEmptySeq
<1>2. SessionGiven = "DEFAULT" /\ tx = <<>>
  BY DEF Init, SessionGiven
<1> QED BY <1>1, <1>2 DEF Responder!Init

(* Reading a request accepts it. *)
LEMMA RefinesRead ==
  ASSUME IInv, IInv', ReadRequest
  PROVE  Responder!Accept(Head(rx))
<1> USE DEF flagVars, queueVars, receiverVars, mainVars
<1>0. TypeOK /\ TypeOK'
  BY DEF IInv
<1>1. Head(rx) \in Requests
  BY <1>0 DEF ReadRequest, TypeOK
<1>2. /\ MainHand' = MainHand /\ request_queue' = request_queue
      /\ ReceiverHand = <<>> /\ ReceiverHand' = <<Head(rx)>>
  BY DEF ReadRequest, MainHand, ReceiverHand
<1>3. /\ Pending = MainHand \o request_queue
      /\ Pending' = (MainHand \o request_queue) \o <<Head(rx)>>
      /\ MainHand \o request_queue \in Seq(Requests)
  <2>1. /\ Pending = (MainHand \o request_queue) \o ReceiverHand
        /\ MainHand \o request_queue \in Seq(Requests)
    BY <1>0, PendingInHands, ConcatProperties
  <2>2. Pending' = (MainHand' \o request_queue') \o ReceiverHand'
    BY <1>0 DEF Pending, MainHand, ReceiverHand
  <2> QED BY <1>2, <2>1, <2>2, ConcatEmptySeq
<1>4. Pending' = Append(Pending, Head(rx))
  BY <1>1, <1>3, AppendIsConcat
<1>5. UNCHANGED <<SessionGiven, tx>>
  BY DEF ReadRequest, SessionGiven
<1> QED BY <1>4, <1>5 DEF Responder!Accept

(* Sending a response, or failing to, and a handler that throws consume    *)
(* the request; the other steps are the server's own.                      *)
LEMMA RefinesOther ==
  ASSUME IInv, IInv', AnswerInHand, [Next]_vars, ~ReadRequest
  PROVE  Responder!Answer \/ Responder!Lose \/ UNCHANGED Responder!vars
<1> USE DEF flagVars, queueVars, receiverVars, mainVars
<1>0. TypeOK /\ TypeOK'
  BY DEF IInv
<1>1. ASSUME Pending' = Pending, SessionGiven' = SessionGiven, tx' = tx
      PROVE  UNCHANGED Responder!vars
  BY <1>1 DEF Responder!vars
<1>3. CASE Push
  <2>1. /\ MainHand' = MainHand /\ request_queue' = Append(request_queue, buffer)
        /\ ReceiverHand = <<buffer>> /\ ReceiverHand' = <<>>
    BY <1>3 DEF Push, MainHand, ReceiverHand
  <2>2. request_queue' = request_queue \o <<buffer>>
    BY <1>0, <2>1, AppendIsConcat DEF TypeOK
  <2>3. Pending = (MainHand \o request_queue) \o <<buffer>>
    BY <1>0, <2>1, PendingInHands
  <2>4. Pending' = (MainHand \o (request_queue \o <<buffer>>)) \o <<>>
    BY <2>1, <2>2 DEF Pending, MainHand, ReceiverHand
  <2>5. /\ MainHand \in Seq(Requests) /\ request_queue \in Seq(Requests)
        /\ <<buffer>> \in Seq(Requests)
    BY <1>0, PendingInHands DEF TypeOK
  <2>6. request_queue \o <<buffer>> \in Seq(Requests)
    BY <2>5, ConcatProperties
  <2>7. MainHand \o (request_queue \o <<buffer>>) \in Seq(Requests)
    BY <2>5, <2>6, ConcatProperties
  <2>8. Pending' = Pending
    BY <2>3, <2>4, <2>5, <2>7, ConcatAssociative, ConcatEmptySeq
  <2>9. UNCHANGED <<SessionGiven, tx>>
    BY <1>3 DEF Push, SessionGiven
  <2> QED BY <1>1, <2>8, <2>9
<1>4. CASE TakeRequest
  <2>1. /\ MainHand = <<>> /\ MainHand' = <<Head(request_queue)>>
        /\ request_queue # <<>> /\ request_queue' = Tail(request_queue)
        /\ ReceiverHand' = ReceiverHand
    BY <1>4 DEF TakeRequest, MainHand, ReceiverHand
  <2>2. MainHand' \o request_queue' = request_queue
    BY <1>0, <2>1, HeadAndTail DEF TypeOK
  <2>3. MainHand \o request_queue = request_queue
    BY <1>0, <2>1, ConcatEmptySeq DEF TypeOK
  <2>4. Pending' = (MainHand' \o request_queue') \o ReceiverHand'
    BY DEF Pending, MainHand, ReceiverHand
  <2>5. Pending' = Pending
    BY <1>0, <2>1, <2>2, <2>3, <2>4, PendingInHands
  <2>6. UNCHANGED <<SessionGiven, tx>>
    BY <1>4 DEF TakeRequest, SessionGiven
  <2> QED BY <1>1, <2>5, <2>6
<1>5. CASE Handle
  <2>1. Pending' = Pending /\ tx' = tx
    BY <1>5 DEF Handle, Pending
  <2>2. response' \in Responses
    BY <1>0 DEF TypeOK
  <2>3. [request |-> request, session |-> current_session,
         response |-> response'] \in ServedRecords
    BY <1>0, <2>2 DEF TypeOK, ServedRecords
  <2>4. served'[Len(served')].session = current_session
    BY <1>0, <1>5, <2>3, AppendProperties DEF Handle, Record, TypeOK
  <2>5. SessionGiven' = SessionGiven
    BY <1>5, <2>4 DEF Handle, SessionGiven
  <2> QED BY <1>1, <2>1, <2>5
<1>6. ASSUME mainPc \in {"handle", "send"}, mainPc' = "loop",
             UNCHANGED <<rcvPc, request_queue, buffer>>
      PROVE  /\ Pending # <<>>
             /\ Head(Pending) = request
             /\ Pending' = Tail(Pending)
  <2>1. /\ MainHand = <<request>> /\ MainHand' = <<>>
        /\ request_queue' = request_queue /\ ReceiverHand' = ReceiverHand
    BY <1>6 DEF MainHand, ReceiverHand
  <2>2. /\ Pending = (<<request>> \o request_queue) \o ReceiverHand
        /\ <<request>> \in Seq(Requests) /\ request \in Requests
        /\ request_queue \in Seq(Requests) /\ ReceiverHand \in Seq(Requests)
    BY <1>0, <2>1, PendingInHands DEF TypeOK
  <2>3. Pending = <<request>> \o (request_queue \o ReceiverHand)
    BY <2>2, ConcatAssociative
  <2>4. Pending' = (<<>> \o request_queue) \o ReceiverHand
    BY <2>1 DEF Pending, MainHand, ReceiverHand
  <2>5. Pending' = request_queue \o ReceiverHand
    BY <2>2, <2>4, ConcatEmptySeq
  <2>6. request_queue \o ReceiverHand \in Seq(Requests)
    BY <2>2, ConcatProperties
  <2> QED BY <2>2, <2>3, <2>5, <2>6, FirstAndRest
<1>7. CASE HandlerThrows
  <2>1. Pending # <<>> /\ Head(Pending) = request /\ Pending' = Tail(Pending)
    BY <1>6, <1>7 DEF HandlerThrows
  <2>2. SessionGiven = current_session /\ SessionGiven' = current_session
    BY <1>7 DEF HandlerThrows, SessionGiven
  <2>3. SessionAfter(request, SessionGiven) = SessionGiven
    BY <1>7 DEF HandlerThrows, SessionAfter, SessionControl, ReadData
  <2>4. Responder!Consume
    BY <2>1, <2>2, <2>3, ResponderProtocol DEF Responder!Consume
  <2>5. Responder!Lose
    BY <1>7, <2>4 DEF HandlerThrows, Responder!Lose
  <2> QED BY <2>5
<1>8. CASE Send
  <2>1. Pending # <<>> /\ Head(Pending) = request /\ Pending' = Tail(Pending)
    BY <1>6, <1>8 DEF Send
  <2>2. /\ response = HandleRequest(request, SessionGiven)
        /\ current_session = SessionAfter(request, SessionGiven)
    BY <1>8 DEF Send, AnswerInHand
  <2>3. SessionGiven' = current_session
    BY <1>8 DEF Send, SessionGiven
  <2>4. Responder!Consume
    BY <2>1, <2>2, <2>3, ResponderProtocol DEF Responder!Consume
  <2>5. CASE tx' = Append(tx, response)
    BY <2>1, <2>2, <2>4, <2>5, ResponderProtocol DEF Responder!Answer
  <2>6. CASE tx' = tx
    BY <2>4, <2>6 DEF Responder!Lose
  <2> QED BY <1>8, <2>5, <2>6 DEF Send
<1>9. ASSUME UNCHANGED <<request, request_queue, buffer, current_session,
                         served, tx>>,
             mainPc' \in {"handle", "send"} <=> mainPc \in {"handle", "send"},
             mainPc' = "send" <=> mainPc = "send",
             rcvPc' \in {"lock", "push"} <=> rcvPc \in {"lock", "push"}
      PROVE  UNCHANGED Responder!vars
  <2>1. MainHand' = MainHand /\ ReceiverHand' = ReceiverHand
    BY <1>9 DEF MainHand, ReceiverHand
  <2>2. Pending' = (MainHand' \o request_queue') \o ReceiverHand'
    BY DEF Pending, MainHand, ReceiverHand
  <2>3. Pending' = Pending
    BY <1>0, <1>9, <2>1, <2>2, PendingInHands
  <2>4. SessionGiven' = SessionGiven
    BY <1>9 DEF SessionGiven
  <2> QED BY <1>1, <1>9, <2>3, <2>4
<1>10. CASE Start \/ CheckKeepRunning \/ LockQueue \/ Wait
  BY <1>9, <1>10
  DEF IInv, ThreadOrder, Start, CheckKeepRunning, LockQueue, Wait
<1>11. CASE Stop \/ Join \/ Destroy
  BY <1>9, <1>11 DEF Stop, Join, Destroy
<1>12. CASE CheckRunning \/ ReadTimeout \/ LockToPush \/ Notify
  BY <1>9, <1>12 DEF CheckRunning, ReadTimeout, LockToPush, Notify
<1>13. CASE Environment
  BY <1>9, <1>13 DEF Environment, Arrive, Interrupt, ReadError, SpuriousWakeup
<1>14. CASE UNCHANGED vars
  BY <1>9, <1>14 DEF vars
<1> QED
  BY <1>3, <1>4, <1>5, <1>7, <1>8, <1>10, <1>11, <1>12, <1>13, <1>14
  DEF Next, MainStep, ReceiverStep

(* The two threads, the queue, its lock and its condition variable come to *)
(* a server that answers the requests it reads one at a time, in their     *)
(* order, at most once each and each in the session the ones before it     *)
(* left: for every set of requests and every choice of faults.             *)
THEOREM Refinement == Spec => ImplementsResponder
<1>1. Init => AnswerInHand /\ rx \in Seq(Arrivals)
  BY DEF Init, AnswerInHand
<1>2. IInv /\ AnswerInHand /\ [Next]_vars => AnswerInHand'
  BY AnswerStep DEF IInv
<1>3. rx \in Seq(Arrivals) /\ [Next]_vars => (rx \in Seq(Arrivals))'
  BY ArrivalsStep
<1>4. IInv /\ IInv' /\ AnswerInHand /\ rx \in Seq(Arrivals) /\ [Next]_vars
        => [Responder!Next]_(Responder!vars)
  <2> SUFFICES ASSUME IInv, IInv', AnswerInHand, rx \in Seq(Arrivals),
                      [Next]_vars
               PROVE  [Responder!Next]_(Responder!vars)
    OBVIOUS
  <2>1. CASE ReadRequest
    <3>1. Head(rx) \in Arrivals
      BY <2>1 DEF ReadRequest
    <3>2. Responder!Accept(Head(rx))
      BY <2>1, RefinesRead
    <3> QED BY <3>1, <3>2 DEF Responder!Next
  <2>2. CASE ~ReadRequest
    BY <2>2, RefinesOther DEF Responder!Next
  <2> QED BY <2>1, <2>2
<1> QED
  BY Invariance, RefinesInit, <1>1, <1>2, <1>3, <1>4, PTL
  DEF Spec, ImplementsResponder, Responder!Spec

-----------------------------------------------------------------------------
(* The session as the responses of a history tell it.  The switches before *)
(* the i-th are the positive answers to session control requests.          *)
Switches(history, i) ==
  {j \in 1..(i - 1) : /\ history[j].response.sid = SessionControl
                      /\ IsPositive(history[j].response)}

(* s is what the last switch before i confirmed, DEFAULT before the first. *)
ToldSession(history, i, s) ==
  IF Switches(history, i) = {}
  THEN s = "DEFAULT"
  ELSE \E j \in Switches(history, i) :
         /\ \A k \in Switches(history, i) : k <= j
         /\ history[j].response.args[1] = s

(* The record of a request handled in the session the responses before it  *)
(* tell, reading out data in allowed sessions only.                        *)
HandledAsTold(history, i) ==
  /\ ToldSession(history, i, history[i].session)
  /\ history[i].response.sid = ReadData /\ IsPositive(history[i].response)
       => history[i].session \in AllowedSessions[ReadData]

(* The inductive form of ReadsOnlyInAllowedSession: the next request will  *)
(* be handled in the session the responses tell as well.                   *)
HandledInToldSession ==
  /\ \A i \in 1..Len(served) : HandledAsTold(served, i)
  /\ ToldSession(served, Len(served) + 1, current_session)

(* An answer is about the session exactly if the request was. *)
LEMMA AnswerTellsSession ==
  ASSUME NEW message \in Requests, NEW session \in SessionBytes
  PROVE  LET answer == HandleRequest(message, session)
         IN /\ IF answer.sid = SessionControl /\ IsPositive(answer)
               THEN answer.args[1] = SessionAfter(message, session)
               ELSE SessionAfter(message, session) = session
            /\ answer.sid = ReadData /\ IsPositive(answer)
                 => session \in AllowedSessions[ReadData]
<1> USE DEF SessionControl, ReadData, EcuReset, NoService
<1> DEFINE answer == HandleRequest(message, session)
<1>1. CASE message.sid = SessionControl
  <2>1. answer = HandleSessionControl(message)
    BY <1>1 DEF HandleRequest
  <2>2. CASE message.args = <<>>
    BY <1>1, <2>1, <2>2
    DEF HandleSessionControl, Negative, IsPositive, SessionAfter
  <2>3. CASE message.args # <<>>
    BY <1>1, <2>1, <2>3
    DEF HandleSessionControl, Positive, IsPositive, SessionAfter
  <2> QED BY <2>2, <2>3
<1>2. CASE message.sid = ReadData
  <2>1. ReadDataHandler(message).sid = ReadData
    BY DEF ReadDataHandler, Negative, Positive
  <2>2. /\ answer.sid = ReadData
        /\ IsPositive(answer) => session \in AllowedSessions[ReadData]
    <3>1. CASE session \in AllowedSessions[ReadData]
      <4>1. answer = ReadDataHandler(message)
        BY <1>2, <3>1 DEF HandleRequest
      <4> QED BY <2>1, <3>1, <4>1
    <3>2. CASE session \notin AllowedSessions[ReadData]
      <4>1. answer = Negative(ReadData, "SERVICE_NOT_SUPPORTED_IN_ACTIVE_SESSION")
        BY <1>2, <3>2 DEF HandleRequest
      <4> QED BY <4>1 DEF Negative, IsPositive
    <3> QED BY <3>1, <3>2
  <2>3. SessionAfter(message, session) = session
    BY <1>2 DEF SessionAfter
  <2> QED BY <2>2, <2>3
<1>3. CASE message.sid \in {NoService, EcuReset}
  <2>1. answer.sid \in {NoService, EcuReset}
    BY <1>3 DEF HandleRequest, Negative
  <2>2. SessionAfter(message, session) = session
    BY <1>3 DEF SessionAfter
  <2> QED BY <2>1, <2>2
<1>4. message.sid \in {NoService, EcuReset, SessionControl, ReadData}
  BY DEF Requests, Services
<1> QED BY <1>1, <1>2, <1>3, <1>4

(* One more record in the history tells the session the server is then in. *)
LEMMA RecordTellsSession ==
  ASSUME TypeOK, HandledInToldSession,
         NEW answer \in Responses, Record(answer),
         IF answer.sid = SessionControl /\ IsPositive(answer)
         THEN answer.args[1] = current_session'
         ELSE current_session' = current_session,
         answer.sid = ReadData /\ IsPositive(answer)
           => current_session \in AllowedSessions[ReadData]
  PROVE  HandledInToldSession'
<1> DEFINE n == Len(served)
<1>1. /\ n \in Nat /\ Len(served') = n + 1
      /\ \A i \in 1..n : served'[i] = served[i]
      /\ served'[n + 1].session = current_session
      /\ served'[n + 1].response = answer
  <2>1. [request |-> request, session |-> current_session,
         response |-> answer] \in ServedRecords
    BY DEF TypeOK, ServedRecords
  <2> QED BY <2>1, AppendProperties DEF TypeOK, Record
<1> HIDE DEF n
<1>2. ASSUME NEW i \in 1..(n + 1)
      PROVE  /\ Switches(served', i) = Switches(served, i)
             /\ Switches(served, i) \subseteq 1..n
  <2>1. \A j \in 1..(i - 1) : j \in 1..n /\ served'[j] = served[j]
    BY <1>1
  <2> QED BY <2>1 DEF Switches
<1>3. ASSUME NEW i \in 1..(n + 1), NEW s, ToldSession(served, i, s)
      PROVE  ToldSession(served', i, s)
  <2>1. \A j \in Switches(served, i) : served'[j] = served[j]
    BY <1>1, <1>2
  <2> QED BY <1>2, <1>3, <2>1 DEF ToldSession
<1>4. ASSUME NEW i \in 1..(n + 1)
      PROVE  HandledAsTold(served', i)
  <2>1. CASE i \in 1..n
    <3>1. HandledAsTold(served, i) /\ served'[i] = served[i]
      BY <1>1, <2>1 DEF HandledInToldSession, n
    <3> QED BY <1>3, <3>1 DEF HandledAsTold
  <2>2. CASE i = n + 1
    <3>1. ToldSession(served, n + 1, current_session)
      BY DEF HandledInToldSession, n
    <3>2. ToldSession(served', n + 1, current_session)
      BY <1>1, <1>3, <3>1
    <3> QED BY <1>1, <2>2, <3>2 DEF HandledAsTold
  <2> QED BY <1>1, <2>1, <2>2
<1>5. ToldSession(served', n + 1, current_session)
  BY <1>1, <1>4 DEF HandledAsTold
<1>6. ToldSession(served', n + 2, current_session')
  <2>1. CASE answer.sid = SessionControl /\ IsPositive(answer)
    <3>1. n + 1 \in Switches(served', n + 2)
      BY <1>1, <2>1 DEF Switches
    <3>2. \A k \in Switches(served', n + 2) : k <= n + 1
      BY <1>1 DEF Switches
    <3>3. served'[n + 1].response.args[1] = current_session'
      BY <1>1, <2>1
    <3> QED BY <3>1, <3>2, <3>3 DEF ToldSession
  <2>2. CASE ~(answer.sid = SessionControl /\ IsPositive(answer))
    <3>1. n + 1 \notin Switches(served', n + 2)
      BY <1>1, <2>2 DEF Switches
    <3>2. \A j : j \in 1..((n + 2) - 1) <=> j = n + 1 \/ j \in 1..((n + 1) - 1)
      BY <1>1
    <3>3. Switches(served', n + 2) = Switches(served', n + 1)
      BY <3>1, <3>2 DEF Switches
    <3> QED BY <1>5, <2>2, <3>3 DEF ToldSession
  <2> QED BY <2>1, <2>2
<1>7. Len(served') + 1 = n + 2
  BY <1>1
<1> QED BY <1>1, <1>4, <1>6, <1>7 DEF HandledInToldSession

(* Only the main thread's handling of a request touches the history or the *)
(* session.                                                                *)
LEMMA ToldSessionStep ==
  ASSUME TypeOK, HandledInToldSession, [Next]_vars
  PROVE  HandledInToldSession'
<1> USE DEF flagVars, queueVars, receiverVars, mainVars
<1>1. CASE Handle
  <2>1. /\ response' = HandleRequest(request, current_session)
        /\ current_session' = SessionAfter(request, current_session)
        /\ Record(response')
    BY <1>1 DEF Handle
  <2>2. response' \in Responses
    BY <2>1, AnswerType DEF TypeOK
  <2>3. /\ IF response'.sid = SessionControl /\ IsPositive(response')
           THEN response'.args[1] = current_session'
           ELSE current_session' = current_session
        /\ response'.sid = ReadData /\ IsPositive(response')
             => current_session \in AllowedSessions[ReadData]
    BY <2>1, AnswerTellsSession DEF TypeOK
  <2> QED BY <2>1, <2>2, <2>3, RecordTellsSession
<1>2. CASE HandlerThrows
  <2>1. NoResponse \in Responses /\ NoResponse.sid = NoService
    BY DEF NoResponse, Negative, Responses, Services, NRCs, NoService
  <2>2. NoService # SessionControl /\ NoService # ReadData
    BY DEF NoService, SessionControl, ReadData
  <2> QED BY <1>2, <2>1, <2>2, RecordTellsSession DEF HandlerThrows
<1>3. CASE UNCHANGED <<served, current_session>>
  BY <1>3 DEF HandledInToldSession
<1> QED
  BY <1>1, <1>2, <1>3
  DEF Next, MainStep, ReceiverStep, Environment, Start, CheckKeepRunning,
      LockQueue, TakeRequest, Wait, Send, Stop, Join, Destroy, CheckRunning,
      ReadRequest, ReadTimeout, LockToPush, Push, Notify, Arrive, Interrupt,
      ReadError, SpuriousWakeup, vars

(* Data is read out only while the last session a client was confirmed is  *)
(* one reading is allowed in, for every sequence of requests of any length *)
(* and whatever the threads do between them.                               *)
THEOREM ReadsAreAllowed == Spec => []ReadsOnlyInAllowedSession
<1>1. Init => HandledInToldSession
  <2> SUFFICES ASSUME Init PROVE HandledInToldSession
    OBVIOUS
  <2>1. served = <<>> /\ Len(served) = 0 /\ current_session = "DEFAULT"
    BY DEF Init
  <2>2. Switches(served, 1) = {}
    BY DEF Switches
  <2> QED BY <2>1, <2>2 DEF HandledInToldSession, ToldSession
<1>2. IInv /\ HandledInToldSession /\ [Next]_vars => HandledInToldSession'
  BY ToldSessionStep DEF IInv
<1>3. ASSUME HandledInToldSession PROVE ReadsOnlyInAllowedSession
  <2>1. SUFFICES ASSUME NEW i \in 1..Len(served),
                        served[i].response.sid = ReadData,
                        IsPositive(served[i].response)
                 PROVE  IF Switches(served, i) = {}
                        THEN "DEFAULT" \in AllowedSessions[ReadData]
                        ELSE \E j \in Switches(served, i) :
                               /\ \A k \in Switches(served, i) : k <= j
                               /\ served[j].response.args[1]
                                    \in AllowedSessions[ReadData]
    BY DEF ReadsOnlyInAllowedSession, Switches
  <2>2. /\ ToldSession(served, i, served[i].session)
        /\ served[i].session \in AllowedSessions[ReadData]
    BY <1>3, <2>1 DEF HandledInToldSession, HandledAsTold
  <2> QED BY <2>2 DEF ToldSession
<1> QED BY Invariance, <1>1, <1>2, <1>3, PTL DEF Spec
=============================================================================
