------------------------------ MODULE TestBench ------------------------------
(***************************************************************************)
(* The programs that use the two libraries, on one CAN interface: a server *)
(* (server_test or service_handler) and a client that comes and goes       *)
(* (client_test, which runs through its tests, or a reader that asks the   *)
(* service for data).  Messages are bytes, and connections what the two    *)
(* ends made of their sockets.                                             *)
(*                                                                         *)
(* The server serves one request at a time, which is what its threads come *)
(* to (module UdsServer).                                                  *)
(***************************************************************************)
EXTENDS CanTp, UdsBytes

CONSTANTS
  ReaderRequests,   \* the requests a reader makes
  MaxRuns           \* bound: how many clients are ever started

(* A reader asks what one message can hold.  The identifiers the abstract  *)
(* protocol knows are those service_handler has a value for; the half of   *)
(* one is none, and some byte names no session.                            *)
ASSUME BenchAssumption ==
  /\ ReaderRequests \subseteq Seq(0..255) \ {<<>>}
  /\ \A request \in ReaderRequests : Len(request) <= MaxPdu
  /\ KnownDids = DOMAIN ServiceValue
  /\ HalfDid \notin Nat
  /\ ForeignSessions # {}
  /\ MaxRuns \in Nat

VARIABLES
  serverProgram,    \* the program that serves
  session,          \* its current_session, a byte
  exchange,         \* history: what it served last
  client,           \* the client that runs: its program, or "none"
  step,             \* the test client_test is at; 1 and then 2 for a reader
  asking,           \* the request that waits for its response, or NoRequest
  results,          \* what the calls of this client returned
  fresh,            \* history: the client found the server up and idle
  runs              \* how many clients were started

benchVars ==
  <<tpVars, serverProgram, session, exchange, client, step, asking, results,
    fresh, runs>>

(* The identifiers the programs make their sockets with. *)
TxOf == [server_test |-> \h7E8, service_handler |-> \h7E8,
         client_test |-> \h7E0, reader |-> \h7DF]
RxOf == [server_test |-> \h7E0, service_handler |-> \h7DF,
         client_test |-> \h7E8, reader |-> \h7E8]

Call(op, request) == [op |-> op, request |-> request]
NoRequest == Call("none", <<>>)

(* The tests of client_test, from test 2 on. *)
Script ==
  <<Call("set_session", <<\h10, \h03>>),
    Call("send_request", <<\h22, \hF1, \h90>>),
    Call("send_request", <<\h22, \h12, \h34>>),
    Call("send_request", <<\h22, \h56, \h78>>),
    Call("send_request", <<\h22, \h99, \h88>>),
    Call("send_request", <<\h10, \h99>>),
    Call("send_request_no_response", <<\h11, \h01, \h02, \h03>>)>>

CallsAt(k) ==
  IF client = "client_test" THEN {Script[k] : j \in {k} \intersect DOMAIN Script}
  ELSE IF k = 1 THEN {Call("send_request", r) : r \in ReaderRequests} ELSE {}

BenchTypeOK ==
  /\ TpTypeOK
  /\ serverProgram \in {"server_test", "service_handler"}
  /\ session \in 0..255
  /\ exchange.request \in Seq(0..255) /\ exchange.response \in Seq(0..255)
  /\ client \in {"none", "client_test", "reader"}
  /\ step \in 1..(Len(Script) + 1)
  /\ asking.request \in Seq(0..255)
  /\ \A k \in DOMAIN results : results[k].payload \in Seq(0..255)
  /\ fresh \in BOOLEAN
  /\ runs \in 0..MaxRuns

BenchInit ==
  /\ TpInit
  /\ serverProgram \in {"server_test", "service_handler"}
  /\ session = 1
  /\ exchange = [request |-> <<>>, session |-> 1, response |-> <<>>]
  /\ client = "none"
  /\ step = 1
  /\ asking = NoRequest
  /\ results = <<>>
  /\ fresh = FALSE
  /\ runs = 0

-----------------------------------------------------------------------------
clientVars == <<client, step, asking, results, fresh, runs>>
serverVars == <<serverProgram, session, exchange>>

(* main of a server; service_handler alone sets flow control. *)
ServerStarts ==
  /\ ~sock["server"].made
  /\ \E socket \in NewSockets(TxOf[serverProgram], RxOf[serverProgram]) :
       sock' = [sock EXCEPT !["server"] =
                  IF serverProgram = "service_handler"
                  THEN SetFlowControl(socket, 16, 20) ELSE socket]
  /\ UNCHANGED <<present, inbox, serverVars, clientVars>>

(* Mutated form of Serve: a service that is not known gets no answer. *)
ServeKnownServices ==
  /\ inbox["server"] # <<>>
  /\ LET request  == Received(Head(inbox["server"]))
         response == HandleBytes(serverProgram, request, session)
         rest     == [inbox EXCEPT !["server"] = Tail(@)]
     IN /\ inbox' = IF request[1] \in {SidOf[SessionControl], SidOf[ReadData]}
                    THEN Sent(rest, "server", response) ELSE rest
        /\ session' = SessionByteAfter(request, session)
        /\ exchange' = [request |-> request, session |-> session,
                        response |-> response]
  /\ UNCHANGED <<present, sock, serverProgram, clientVars>>

(* One round of its loop. *)
Serve ==
  /\ inbox["server"] # <<>>
  /\ LET request  == Received(Head(inbox["server"]))
         response == HandleBytes(serverProgram, request, session)
     IN /\ inbox' = Sent([inbox EXCEPT !["server"] = Tail(@)], "server", response)
        /\ session' = SessionByteAfter(request, session)
        /\ exchange' = [request |-> request, session |-> session,
                        response |-> response]
  /\ UNCHANGED <<present, sock, serverProgram, clientVars>>

(* A client is started: client_test sets flow control, a reader does not.  *)
ClientStarts ==
  /\ client = "none"
  /\ runs < MaxRuns
  /\ runs' = runs + 1
  /\ \E program \in {"client_test", "reader"} :
       /\ client' = program
       /\ \E socket \in NewSockets(TxOf[program], RxOf[program]) :
            sock' = [sock EXCEPT !["client"] =
                       IF program = "client_test"
                       THEN SetFlowControl(socket, 16, 20) ELSE socket]
  /\ step' = 1
  /\ results' = <<>>
  /\ fresh' = (sock["server"].made /\ inbox["server"] = <<>>)
  /\ UNCHANGED <<present, inbox, asking, serverVars>>

Returns(outcome) ==
  /\ results' = Append(results, outcome)
  /\ step' = step + 1
  /\ asking' = NoRequest

(* A call sets its timeout, which takes a socket, and writes its request.  *)
Ask ==
  /\ asking = NoRequest
  /\ sock["client"].open
  /\ \E call \in CallsAt(step) :
       /\ inbox' = Sent(inbox, "client", call.request)
       /\ IF call.op = "send_request_no_response"
          THEN Returns(Outcome(TRUE, NrcOf.NO_ERROR, <<>>))
          ELSE asking' = call /\ UNCHANGED <<results, step>>
  /\ UNCHANGED <<present, sock, serverVars, client, fresh, runs>>

(* Mutated form of AskInVain: what a call on no socket throws is taken for *)
(* the end of a session change.                                            *)
AskInVainTold ==
  /\ asking = NoRequest
  /\ client # "none" /\ ~sock["client"].open
  /\ \E call \in CallsAt(step) :
       Returns(IF call.op = "send_request"
               THEN Rejected ELSE Outcome(TRUE, NrcOf.NO_ERROR, <<>>))
  /\ UNCHANGED <<tpVars, serverVars, client, fresh, runs>>

(* Without a socket setting the timeout throws, but for a call that sets   *)
(* none.                                                                   *)
AskInVain ==
  /\ asking = NoRequest
  /\ client # "none" /\ ~sock["client"].open
  /\ \E call \in CallsAt(step) :
       Returns(IF call.op = "send_request_no_response"
               THEN Outcome(TRUE, NrcOf.NO_ERROR, <<>>) ELSE Rejected)
  /\ UNCHANGED <<tpVars, serverVars, client, fresh, runs>>

Answered ==
  /\ asking # NoRequest
  /\ inbox["client"] # <<>>
  /\ inbox' = [inbox EXCEPT !["client"] = Tail(@)]
  /\ Returns(OutcomeOf(asking.op, asking.request,
                       Received(Head(inbox["client"]))))
  /\ UNCHANGED <<present, sock, serverVars, client, fresh, runs>>

(* The timeout of a second is longer than the server takes.  A socket that *)
(* is not bound may time out or fail, with the version of the kernel.      *)
Unanswered ==
  /\ asking # NoRequest
  /\ inbox["client"] = <<>> /\ inbox["server"] = <<>>
  /\ \/ Returns(TimedOut)
     \/ sock["client"].at = Nowhere /\ Returns(Rejected)
  /\ UNCHANGED <<tpVars, serverVars, client, fresh, runs>>

ClientEnds ==
  /\ client # "none" /\ asking = NoRequest /\ CallsAt(step) = {}
  /\ client' = "none"
  /\ Close("client")
  /\ UNCHANGED <<present, serverVars, step, asking, results, fresh, runs>>

BenchNext ==
  \/ InterfaceComesUp /\ UNCHANGED <<serverVars, clientVars>>
  \/ ServerStarts \/ Serve
  \/ ClientStarts \/ Ask \/ AskInVain \/ Answered \/ Unanswered \/ ClientEnds

BenchSpec == BenchInit /\ [][BenchNext]_benchVars

-----------------------------------------------------------------------------
(* A client that met an idle server it is connected to. *)
InTouch(program) == client = program /\ fresh /\ Connected

(* What client_test says of its tests 2 to 4: the session is changed, the  *)
(* valid identifiers "should return" 4, 2 and 3 bytes, the invalid one is  *)
(* not read.  It is so in every run, whatever an earlier run left behind:  *)
(* the session no service is allowed in, and a response nobody waited for. *)
FirstTestsPass ==
  InTouch("client_test") /\ serverProgram = "server_test" =>
    \A k \in DOMAIN results :
      LET bytes == Len(results[k].payload) - 2
      IN CASE k = 1 -> results[k].success
           [] k \in 2..4 -> results[k].success /\ bytes = <<0, 4, 2, 3>>[k]
           [] k = 5 -> results[k].nrc = NrcOf.REQUEST_OUT_OF_RANGE
           [] OTHER -> TRUE

(* Nobody looks at what became of socket(), ioctl() and bind(), but a      *)
(* client is told of success, if its call waits for a response at all, by  *)
(* a server on its own interface only: never on a socket that is not       *)
(* bound, or is bound to what the memory of ifr held.                      *)
SuccessComesOverTheBus ==
  client # "none" =>
    \A k \in DOMAIN results :
      results[k].success /\ ~(client = "client_test" /\ k = 7) =>
        /\ sock["client"].at # Nowhere
        /\ sock["client"].at = sock["server"].at

(* A reader that is told of success has the value of every identifier it   *)
(* asked for, in their order, unless they do not fit what receive() has    *)
(* room for: then it has as many bytes as do.                              *)
ReadsAreWhole ==
  InTouch("reader") /\ results # <<>> /\ results[1].success
    /\ exchange.request[1] = SidOf[ReadData] =>
    LET whole == ValuesRead(Decode(exchange.request).args)
    IN IF Len(whole) < BufferSize THEN results[1].payload = whole
       ELSE results[1].payload = SubSeq(whole, 1, BufferSize - 1)

(* A client that is in touch with the server is answered, but for one      *)
(* thing: a response the kernel does not take is dropped, for nobody looks *)
(* at what write() returned or answers RESPONSE_TOO_LONG.                  *)
OnlyLongResponsesVanish ==
  \A program \in {"client_test", "reader"} :
    InTouch(program) =>
      \A k \in DOMAIN results :
        results[k] = TimedOut => k = 1 /\ Len(exchange.response) > MaxPdu

(* service_handler, byte by byte, is the server of the abstract protocol:  *)
(* only the oldest request that waits is ever served, as much of it as was *)
(* received is answered as HandleRequest answers it in the session those   *)
(* before it left, and the session becomes what SessionAfter says.  Cut    *)
(* off and malformed requests and unheard-of sessions are no exception.    *)
BytesFollowProtocol ==
  [][serverProgram = "service_handler" =>
       \/ /\ \E asked \in {<<>>} \union {<<call.request>> : call \in CallsAt(step)} :
               inbox'["server"] = inbox["server"] \o asked
          /\ UNCHANGED <<session, exchange>>
       \/ /\ inbox["server"] # <<>>
          /\ inbox'["server"] = Tail(inbox["server"])
          /\ LET request == Received(Head(inbox["server"]))
                 now     == SessionOf(session)
             IN /\ SessionOf(session') = SessionAfter(Decode(request), now)
                /\ exchange'.response =
                     Encode(HandleRequest(Decode(request), now), request)]_benchVars

(* "BS=16, STmin=20ms": the socket has the flow control it was given.     *)
FlowControlIsSet ==
  sock["client"].fc = [bs |-> 16, stmin |-> 20, wftmax |-> 0]

(* Test 5, "Invalid subfunction": a session that is none is refused.       *)
InvalidSubfunctionIsRefused == ~results[6].success

(* Test 6, "no response expected": behind the reset no response waits.     *)
NoResponseIsSent == inbox["client"] = <<>>

(* A client_test that went through all its tests, in touch with a server   *)
(* that has served all it was sent, found what its comments and messages   *)
(* say of the flow control it sets and of its last two tests.  None of the *)
(* three comes true: the flow control goes to another option of a socket   *)
(* that is bound already, any byte becomes the session and is confirmed,   *)
(* and the server answers whatever it takes from its queue.                *)
ClientTestAsAnnounced ==
  InTouch("client_test") /\ step = 8 /\ inbox["server"] = <<>> =>
    FlowControlIsSet /\ InvalidSubfunctionIsRefused /\ NoResponseIsSent
=============================================================================
