----------------------------- MODULE UdsExchange -----------------------------
(***************************************************************************)
(* The client and the server over an ISO-TP link.  The server is the       *)
(* abstract responder that UdsServer implements: it answers the requests   *)
(* of the link one at a time, in their order, each in the session its      *)
(* predecessors left.  A response can be lost on its way; a request that   *)
(* does not arrive is one whose write failed.  The server process may end  *)
(* and start again.                                                        *)
(***************************************************************************)
EXTENDS UdsClient

VARIABLE serverSession      \* the active session of the server

exchangeVars == <<clientVars, serverSession>>

Server == INSTANCE SerialResponder
            WITH Arrivals <- {made.request : made \in Calls},
                 pending  <- toServer,
                 session  <- serverSession,
                 replies  <- toClient

TypeOK ==
  /\ ClientTypeOK
  /\ serverSession \in SessionBytes

Init ==
  /\ ClientInit
  /\ serverSession = "DEFAULT"

ServerAnswers ==
  /\ Server!Answer
  /\ UNCHANGED <<callerVars, tx_mutex, currentSession, begun, outOfStep,
                 lost>>

ResponseIsLost ==
  /\ "lose" \in Faults
  /\ Server!Lose
  /\ lost' = lost \union {"response"}
  /\ UNCHANGED <<callerVars, tx_mutex, currentSession, begun, outOfStep>>

(* A new process knows neither the session nor the requests of the old one. *)
ServerRestarts ==
  /\ "restart" \in Faults
  /\ Server!Forget
  /\ lost' = lost \union {"session"}
  /\ UNCHANGED <<callerVars, tx_mutex, currentSession, begun, outOfStep>>

Next ==
  \/ ClientNext /\ UNCHANGED serverSession
  \/ ServerAnswers
  \/ ResponseIsLost
  \/ ServerRestarts

Spec == Init /\ [][Next]_exchangeVars

(* Every caller is scheduled and gets the mutex if it is free again and    *)
(* again, a blocked read ends by a response or by its timeout, and the     *)
(* server answers.  No thread has to begin another call.                   *)
FairSpec ==
  /\ Spec
  /\ \A c \in Callers : /\ WF_exchangeVars(CallStep(c) /\ UNCHANGED serverSession)
                        /\ SF_exchangeVars(Lock(c) /\ UNCHANGED serverSession)
  /\ WF_exchangeVars(ServerAnswers)

-----------------------------------------------------------------------------
(* Requests and responses under way, and those a call is waiting for.      *)
UnderWay == Len(toServer) + Len(toClient)
Waiting  == {c \in Callers : pc[c] = "receive"}

(* What a call can return if the response it reads is to its own request.  *)
OwnResults(made) ==
  {ResultOf(made, HandleRequest(made.request, s)) : s \in SessionBytes}

(* As long as no call has returned with something still to come, a success *)
(* or a refusal is the server's answer to that very call: the lock, held   *)
(* from the write to the read, and a server that answers in order are      *)
(* enough, for any number of threads that share the client.                *)
AnswersOwnCall ==
  ~outOfStep =>
    \A c \in Callers :
      \/ result[c] \in {NoResult, Failure("TIMEOUT")} \union OwnResults(call[c])
      \/ result[c] = Failure("GENERAL_REJECT") /\ "socket_error" \in Faults

(* Without such a call nothing is under way but what a caller waits for:   *)
(* one request or one response, never two, and none when no caller waits.  *)
NothingLeftOver ==
  /\ \A c, d \in Waiting : c = d
  /\ ~outOfStep => /\ UnderWay <= 1
                   /\ Waiting = {} => UnderWay = 0

(* One response that nobody read stays for good: every call reads one      *)
(* response for the request it writes and nothing drains the socket, so    *)
(* each later call is answered with the response to an earlier one, until  *)
(* the link loses something.                                               *)
OutOfStepForGood ==
  lost = {} /\ outOfStep =>
    UnderWay > IF Waiting = {} THEN 0 ELSE 1

(* The client and the server agree on the session between calls, where the *)
(* session is changed by set_session, no call is out of step, no response  *)
(* is lost and the server goes on running.                                 *)
SessionAgreement ==
  /\ lost \intersect {"response", "session"} = {}
  /\ \A made \in Calls :
       made.request.sid = SessionControl => made.op = "set_session"
  /\ ~outOfStep
  /\ tx_mutex = "free"
  => currentSession = serverSession

(* A caller that asks for a call returns from it: neither the lock nor the *)
(* read blocks for ever.                                                   *)
EveryCallReturns ==
  \A c \in Callers : pc[c] = "lock" ~> pc[c] = "idle"

=============================================================================
