------------------------------ MODULE UdsSystem ------------------------------
(***************************************************************************)
(* The whole diagnostic connection: the threads of a client that share one *)
(* CAN_UDS_client, and the server process with its two threads, its queue  *)
(* and its lock.  What a client writes is what the receiver thread reads,  *)
(* what the main thread writes is what a client reads.  The server process *)
(* may end, of its own accord or killed, and start again: its socket, its  *)
(* queue and its session are then gone, the client's are not.              *)
(***************************************************************************)
EXTENDS UdsServer

CONSTANTS
  Callers,        \* the threads that call the client
  Calls,          \* the calls they may make
  MaxCalls,       \* bound: how many calls are ever begun
  ClientFaults,   \* what may go wrong at the client
  MaxStarts       \* bound: how often the server process starts again

VARIABLES
  pc, call, result, tx_mutex, currentSession, begun, outOfStep, lost,
                  \* those of UdsClient
  starts          \* how often the server process started again

callerVars == <<pc, call, result, tx_mutex, currentSession, begun, outOfStep>>
systemVars == <<vars, callerVars, lost, starts>>

(* The requests a client has written and the server has not answered: a    *)
(* process that ends takes those of its socket and its queue with it.      *)
Unanswered == IF mainPc = "done" THEN <<>> ELSE Pending \o rx

ServerSession == IF mainPc = "done" THEN "DEFAULT" ELSE SessionGiven

Client == INSTANCE UdsClient
            WITH toServer <- Unanswered, toClient <- tx, Faults <- ClientFaults

Exchange == INSTANCE UdsExchange
              WITH toServer <- Unanswered, toClient <- tx,
                   serverSession <- ServerSession,
                   Faults <- ClientFaults \union {"lose", "restart"}

ASSUME SystemAssumption ==
  /\ Client!ClientAssumption
  /\ \A made \in Calls : made.request \in Arrivals
  /\ MaxStarts \in Nat

SystemInit ==
  /\ Init
  /\ Client!ClientInit
  /\ starts = 0

-----------------------------------------------------------------------------
(* A client writes to the server's socket, if there is one, and reads from *)
(* its own.  A single frame nobody is there to receive is lost unnoticed.  *)
ClientSide(c) ==
  /\ rx' \in {rx} \union IF mainPc = "done" THEN {}
                         ELSE {Append(rx, call[c].request)}
  /\ tx' \in {tx} \union IF tx = <<>> THEN {} ELSE {Tail(tx)}
  /\ UNCHANGED <<rcvPc, mainPc, flagVars, queueVars, buffer, taken, request,
                 response, current_session, served, starts>>

Begins(c) == ClientSide(c) /\ Client!Begin(c)
Acquires(c) == ClientSide(c) /\ Client!Lock(c)
Proceeds(c) == ClientSide(c) /\ Client!CallStep(c)

(* What a step of the server makes of the history of losses: a response    *)
(* that is not written is lost, and so is the session of a process that    *)
(* has ended.                                                              *)
ServerSide ==
  /\ lost' = lost \union
       CASE mainPc # "done" /\ mainPc' = "done" -> {"session"}
         [] mainPc # "done" /\ mainPc' # "done"
              /\ Len(Unanswered') < Len(Unanswered) /\ tx' = tx -> {"response"}
         [] OTHER -> {}
  /\ UNCHANGED <<callerVars, starts>>

MainThread     == MainStep /\ ServerSide
ReceiverThread == ReceiverStep /\ ServerSide
Surroundings   == (Interrupt \/ ReadError \/ SpuriousWakeup) /\ ServerSide

(* No more than tx and the counters outlives the process. *)
Afresh(where) ==
  /\ running' = FALSE
  /\ keep_running' = TRUE
  /\ rcvPc' = IF where = "done" THEN "exited" ELSE "none"
  /\ buffer' = EmptyRequest
  /\ mainPc' = where
  /\ request' = EmptyRequest
  /\ response' = NoResponse
  /\ request_queue' = <<>>
  /\ queue_mutex' = "free"
  /\ current_session' = "DEFAULT"
  /\ rx' = <<>>
  /\ taken' = <<>>
  /\ served' = <<>>
  /\ UNCHANGED <<tx, callerVars>>

(* Any signal but SIGINT ends the process wherever its threads are. *)
Killed ==
  /\ "signal" \in Faults
  /\ mainPc # "done"
  /\ Afresh("done")
  /\ lost' = lost \union {"session"}
  /\ UNCHANGED starts

StartsAgain ==
  /\ mainPc = "done"
  /\ starts < MaxStarts
  /\ starts' = starts + 1
  /\ Afresh("start")
  /\ UNCHANGED lost

SystemNext ==
  \/ \E c \in Callers : Begins(c) \/ Proceeds(c)
  \/ MainThread
  \/ ReceiverThread
  \/ Surroundings
  \/ Killed
  \/ StartsAgain

SystemSpec == SystemInit /\ [][SystemNext]_systemVars

(* The fairness of UdsServer and of UdsExchange: threads are scheduled, on *)
(* both sides, and get a mutex that is free again and again.               *)
FairSystemSpec ==
  /\ SystemSpec
  /\ WF_systemVars(MainThread)
  /\ WF_systemVars(ReceiverThread)
  /\ SF_systemVars(LockToPush /\ ServerSide)
  /\ \A c \in Callers : /\ WF_systemVars(Proceeds(c))
                        /\ SF_systemVars(Acquires(c))

-----------------------------------------------------------------------------
(* Client and server together do nothing the exchange does not: what is    *)
(* shown of calls and sessions there holds with the server's two threads,  *)
(* queue, lock and shutdown in the place of the abstract responder.        *)
ImplementsExchange == Exchange!Spec

(* What the client believes decides what it gets: while no response and no *)
(* session is lost and no call is out of step, a read is refused for the   *)
(* session when, and only when, the session the client keeps is one that   *)
(* does not allow it.                                                      *)
SessionDecidesReads ==
  [][\A c \in Callers :
       /\ pc[c] = "receive" /\ pc'[c] = "idle"
       /\ call[c].request.sid = ReadData
       /\ lost \intersect {"response", "session"} = {}
       /\ ~outOfStep
       => /\ result'[c].success => currentSession \in AllowedSessions[ReadData]
          /\ result'[c].nrc = "SERVICE_NOT_SUPPORTED_IN_ACTIVE_SESSION"
               => currentSession \notin AllowedSessions[ReadData]]_systemVars

(* Its receiver thread has ended while its main thread sleeps. *)
ServerIsDeaf == rcvPc = "exited" /\ mainPc = "waiting"

(* With timeouts longer than the server takes, every call returns: it is   *)
(* answered, or the server has ended with its request.  Only a server that *)
(* no longer reads its socket, and does not end either, keeps it waiting.  *)
EveryCallIsServed ==
  \A c \in Callers : pc[c] = "lock" ~> pc[c] = "idle" \/ ServerIsDeaf
=============================================================================
