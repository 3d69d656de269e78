--------------------------- MODULE SerialResponder ---------------------------
(***************************************************************************)
(* What the diagnostic server promises its clients: the requests it        *)
(* accepts are answered one at a time, in the order they came, each in the *)
(* session its predecessors left, and each once at most.  Threads, queue   *)
(* and lock are absent; module UdsServer is shown to implement this one.   *)
(***************************************************************************)
EXTENDS UdsProtocol

CONSTANT Arrivals      \* the requests that may come

VARIABLES
  pending,             \* accepted and not yet answered, oldest first
  session,             \* the active diagnostic session
  replies              \* the responses given and not yet taken away

vars == <<pending, session, replies>>

Init ==
  /\ pending = <<>>
  /\ session = "DEFAULT"
  /\ replies = <<>>

Accept(request) ==
  /\ pending' = Append(pending, request)
  /\ UNCHANGED <<session, replies>>

(* The oldest request leaves pending, with its effect on the session. *)
Consume ==
  /\ pending # <<>>
  /\ pending' = Tail(pending)
  /\ session' = SessionAfter(Head(pending), session)

Answer ==
  /\ Consume
  /\ replies' = Append(replies, HandleRequest(Head(pending), session))

(* The response is lost: nobody looks at what write() returned, and an     *)
(* exception of the handler only skips the rest of the round.              *)
Lose ==
  /\ Consume
  /\ UNCHANGED replies

(* The process ends and another one starts. *)
Forget ==
  /\ pending' = <<>>
  /\ session' = "DEFAULT"
  /\ UNCHANGED replies

Next ==
  \/ \E request \in Arrivals : Accept(request)
  \/ Answer
  \/ Lose

Spec == Init /\ [][Next]_vars
=============================================================================
