-------------------------- MODULE UdsProtocolProofs --------------------------
(* Facts about the protocol operators that the proofs of the modules which *)
(* use them rest on.                                                       *)
EXTENDS UdsProtocol, TLAPS

(* The handler of session control and the read handler answer with         *)
(* responses, and a session control request leaves a session byte: what    *)
(* handle_request does to the state keeps the types of the state.          *)
LEMMA AnswerType ==
  ASSUME NEW message \in Requests, NEW session \in SessionBytes
  PROVE  /\ HandleRequest(message, session) \in Responses
         /\ SessionAfter(message, session) \in SessionBytes
<1> USE DEF Requests, Responses, Services, Items, NRCs, Positive, Negative,
            SessionControl, ReadData, EcuReset, NoService
<1>1. CASE message.sid = SessionControl
  <2>1. message.args \in Seq(SessionBytes)
    BY <1>1
  <2>2. CASE message.args = <<>>
    BY <1>1, <2>2 DEF HandleRequest, HandleSessionControl, SessionAfter
  <2>3. CASE message.args # <<>>
    <3>1. Head(message.args) \in SessionBytes
      BY <2>1, <2>3
    <3>2. <<Head(message.args)>> \in Seq(Items)
      BY <3>1
    <3> QED
      BY <1>1, <2>3, <3>1, <3>2
      DEF HandleRequest, HandleSessionControl, SessionAfter
  <2> QED BY <2>2, <2>3
<1>2. CASE message.sid # SessionControl
  <2>1. message.args \in Seq(Items)
    BY <1>2
  <2>2. ReadDataHandler(message) \in Responses
    BY <2>1 DEF ReadDataHandler
  <2>3. SessionAfter(message, session) = session
    BY <1>2 DEF SessionAfter
  <2>4. HandleRequest(message, session) \in Responses
    BY <1>2, <2>2 DEF HandleRequest
  <2> QED BY <2>3, <2>4
<1> QED BY <1>1, <1>2
=============================================================================
