------------------------------ MODULE UdsFrame ------------------------------
(***************************************************************************)
(* The single-frame UDS stack, class UDS_, over the driver of the CAN      *)
(* controller.  A message goes into one frame: the length, the service     *)
(* identifier and the parameters.  A frame that is received is taken apart *)
(* and handed to the callback for requests or to the one for responses.    *)
(*                                                                         *)
(* Every node has one UDS_ object and both callbacks registered; it does   *)
(* not use the callbacks of the driver.                                    *)
(***************************************************************************)
EXTENDS Mcp251x

CONSTANTS
  Requests,    \* the messages given to sendRequest
  Answers,     \* what sendPositiveResponse is given: a service and data
  Refusals     \* what sendNegativeResponse is given: a service and an NRC

NegativeResponse == 127     \* SID::NEGATIVE_RESPONSE, 0x7F
ClientId         == 2016    \* CAN_ID::CLIENT_ID, 0x7E0
ServerId         == 2024    \* CAN_ID::SERVER_ID, 0x7E8
FirstResponse    == 64      \* 0x40, which a service adds to answer

(* UDS__Msg; length is req_params_length. *)
Messages == [sid : Bytes, params : Seq(Bytes), length : Bytes]

Message(sid, params) ==
  [sid |-> sid, params |-> params, length |-> Len(params) % 256]

ASSUME MessageAssumption ==
  /\ \A m \in Requests :
       /\ m \in Messages /\ m.sid < FirstResponse
       /\ m.length = Len(m.params) % 256
  /\ \A a \in Answers :
       /\ a.sid \in 0..(FirstResponse - 1)
       /\ a.data \in Seq(Bytes)
  /\ \A r \in Refusals :
       r.sid \in 0..(FirstResponse - 1) /\ r.nrc \in Bytes

VARIABLES
  asked,       \* history: the messages a node has put into a frame
  handled      \* history: the messages its callbacks got, and which callback

udsVars  == <<asked, handled>>
frameVars == <<vars, udsVars>>

UdsInit ==
  /\ Init
  /\ asked = [n \in Nodes |-> {}]
  /\ handled = [n \in Nodes |-> <<>>]

-----------------------------------------------------------------------------
(* Messages in frames.                                                     *)

StandardFrame(id, data) == [id |-> id, extended |-> FALSE, data |-> data]

(* sendSingleFrame; the caller has seen that the message is short enough.  *)
SingleFrame(message, id) ==
  StandardFrame(id, <<1 + message.length, message.sid>>
                      \o SubSeq(message.params, 1, message.length))

(* What a negative response is to the node that gets it. *)
NegativeMessage(sid, nrc) == Message(NegativeResponse, <<sid, nrc>>)

(* The high half of the first byte is zero in a single frame. *)
IsSingleFrame(data) == data # <<>> /\ data[1] \div 16 = 0

(* Mutated form of ParsedMessage: the length taken to count the parameters *)
(* alone.                                                                  *)
ParsedMessageTooLong(data) ==
  [sid    |-> data[2],
   params |-> SubSeq(data, 3, (data[1] % 16) + 2),
   length |-> data[1] % 16]

(* handleSingleFrame: the length counts the service identifier, and the    *)
(* parameters end with the frame, whatever the length says.                *)
ParsedMessage(data) ==
  LET length == data[1] % 16
      last   == IF length + 1 <= Len(data) THEN length + 1 ELSE Len(data)
  IN [sid    |-> data[2],
      params |-> SubSeq(data, 3, last),
      length |-> (length - 1) % 256]

(* processMessage *)
CallbackFor(message) ==
  IF message.sid < FirstResponse THEN "request" ELSE "response"

-----------------------------------------------------------------------------
(* The operations of UDS_.                                                 *)

Send(n, message, f) ==
  /\ pc[n] = "idle"
  /\ Transmit(n, f)
  /\ asked' = [asked EXCEPT ![n] = @ \union {message}]
  /\ UNCHANGED handled

(* Mutated form of SendRequest: sendSingleFrame alone judges the length.   *)
SendRequestUnguarded(n, message) ==
  /\ 1 + message.length <= 7
  /\ Send(n, message, SingleFrame(message, ClientId))

(* sendRequest refuses more than five parameters: false is returned.       *)
SendRequest(n, message) ==
  /\ message.length + 2 <= 7
  /\ Send(n, message, SingleFrame(message, ClientId))

(* A response goes the way of a request, with the identifier of one.  What *)
(* sendRequest returns is dropped.                                         *)
SendPositiveResponse(n, sid, data) ==
  SendRequest(n, Message(sid + FirstResponse, data))

SendNegativeResponse(n, sid, nrc) ==
  Send(n, NegativeMessage(sid, nrc),
       StandardFrame(ServerId, <<3, NegativeResponse, sid, nrc>>))

(* checkReceived begins with receive() ... *)
CheckReceived(n) == Receive(n) /\ UNCHANGED udsVars

(* ... and what receive() returns is taken apart and handed on. *)
ProcessReceived(n) ==
  /\ ClearFlag(n)
  /\ LET data    == received'[n][Len(received'[n])].frame.data
         message == ParsedMessage(data)
     IN handled' =
          IF IsSingleFrame(data)
          THEN [handled EXCEPT ![n] =
                  Append(@, [message |-> message,
                             callback |-> CallbackFor(message)])]
          ELSE handled
  /\ UNCHANGED asked

DriverStep(n) ==
  /\ \/ Reset(n)
     \/ SetNormalMode(n)
     \/ Load(n)
     \/ RequestToSend(n)
     \/ ReadStatus(n)
     \/ ReadBuffer(n)
     \/ SendOnBus(n)
     \/ SpiFails(n)
  /\ UNCHANGED udsVars

UdsNext ==
  \E n \in Nodes :
    \/ \E m \in Requests : SendRequest(n, m)
    \/ \E a \in Answers : SendPositiveResponse(n, a.sid, a.data)
    \/ \E r \in Refusals : SendNegativeResponse(n, r.sid, r.nrc)
    \/ CheckReceived(n)
    \/ ProcessReceived(n)
    \/ DriverStep(n)

UdsSpec == UdsInit /\ [][UdsNext]_frameVars

-----------------------------------------------------------------------------
(* What the byte req_params_length counts of a message's parameters. *)
Counted(message) ==
  [message EXCEPT !.params = SubSeq(@, 1, message.length)]

(* What a callback gets is a message that another node was asked to send,  *)
(* and of the kind the callback is for, although the driver drops the      *)
(* eighth byte of a frame: no message fills one.  It is whole if it has    *)
(* less than 256 parameters, and what the length counts of them otherwise. *)
(* Only a load that fails over a pending frame mixes two messages.         *)
MessagesArriveWhole ==
  \A n \in Nodes : \A i \in 1..Len(handled[n]) :
    LET entry == handled[n][i]
    IN /\ entry.callback = "request" <=> entry.message.sid < FirstResponse
       /\ \E m \in Nodes \ {n} :
            \/ torn[m]
            \/ \E message \in asked[m] : entry.message = Counted(message)
=============================================================================
