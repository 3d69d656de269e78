-------------------------------- MODULE CanTp --------------------------------
(***************************************************************************)
(* CAN_TP, the wrapper of an ISO-TP socket, as the two ends of a           *)
(* connection use it, with what the kernel does of a call.  No call looks  *)
(* at the result of socket(), ioctl(), bind(), write() or of the option    *)
(* for flow control.                                                       *)
(***************************************************************************)
EXTENDS Integers, Sequences

CONSTANTS
  Interfaces,   \* the CAN interfaces the system may have
  Can0,         \* the one both ends name
  BufferSize,   \* the bytes receive() has room for: 4095
  MaxPdu,       \* bound of the kernel on the bytes of a message
  Faults        \* "no_isotp": socket() may fail

(* Where a socket is that is bound to no interface. *)
Nowhere == "nowhere"

(* There is room for what fits in a frame, at both ends and in between. *)
ASSUME CanTpAssumption ==
  /\ Can0 \in Interfaces /\ Nowhere \notin Interfaces
  /\ BufferSize \in Nat /\ BufferSize > 7
  /\ MaxPdu \in Nat /\ MaxPdu > 7
  /\ Faults \subseteq {"no_isotp"}

Ends == {"client", "server"}

(* struct can_isotp_fc_options. *)
FlowControls == [bs : 0..255, stmin : 0..255, wftmax : 0..255]

DefaultFlowControl == [bs |-> 0, stmin |-> 0, wftmax |-> 0]

VARIABLES
  present,      \* the interfaces that are up
  sock,         \* sock[e]: the CAN_TP of end e
  inbox         \* inbox[e]: the messages that wait in its socket

tpVars == <<present, sock, inbox>>

NoSocket == [made |-> FALSE, open |-> FALSE, at |-> Nowhere, tx |-> 0, rx |-> 0,
             fc |-> DefaultFlowControl]

Other(e) == CHOOSE d \in Ends : d # e

TpTypeOK ==
  /\ present \subseteq Interfaces
  /\ sock \in [Ends -> [made : BOOLEAN, open : BOOLEAN,
                        at : Interfaces \union {Nowhere},
                        tx : 0..2047, rx : 0..2047, fc : FlowControls]]
  /\ inbox \in [Ends -> Seq(Seq(0..255))]

TpInit ==
  /\ present \in SUBSET Interfaces
  /\ sock = [e \in Ends |-> NoSocket]
  /\ inbox = [e \in Ends |-> <<>>]

-----------------------------------------------------------------------------
(* The sockets CAN_TP(interface, tx, rx) may make.  When socket() or       *)
(* ioctl() fails the index of the interface is whatever ifr holds; with an *)
(* index of no interface that is up, or without a socket, bind() fails.    *)
NewSockets(tx, rx) ==
  {socket \in [made : {TRUE},
               open : {TRUE} \union IF "no_isotp" \in Faults THEN {FALSE} ELSE {},
               at   : Interfaces \union {Nowhere},
               tx   : {tx}, rx : {rx}, fc : {DefaultFlowControl}] :
     /\ socket.at # Nowhere => socket.open /\ socket.at \in present
     /\ socket.open /\ Can0 \in present => socket.at = Can0}

(* The size of the structure an option is passed in, in bytes. *)
OptionSize(option) ==
  CASE option = "CAN_ISOTP_OPTS"    -> 4 + 4 + 1 + 1 + 1 + 1
    [] option = "CAN_ISOTP_RECV_FC" -> 1 + 1 + 1

(* setsockopt() for flow control: the kernel takes an option in the size   *)
(* it has, and only before the socket is bound.                            *)
SetFlowControlOption(socket, option, fc) ==
  IF socket.open /\ socket.at = Nowhere /\ OptionSize(option) = 3
  THEN [socket EXCEPT !.fc = fc]
  ELSE socket

(* set_flow_control passes the three bytes under the other option. *)
SetFlowControl(socket, bs, stmin) ==
  SetFlowControlOption(socket, "CAN_ISOTP_OPTS",
    [bs |-> bs % 256, stmin |-> stmin % 256, wftmax |-> 0])

(* Whether what end e sends comes to the other end: it does on the same    *)
(* interface under the right identifier, and if it takes more than one     *)
(* frame there must be a way back for flow control.                        *)
Reaches(e, message) ==
  LET from == sock[e]
      to   == sock[Other(e)]
  IN /\ from.at # Nowhere /\ from.at = to.at
     /\ from.tx = to.rx
     /\ Len(message) > 7 => to.tx = from.rx
     /\ Len(message) \in 1..MaxPdu

Connected == /\ sock["client"].at # Nowhere
             /\ sock["client"].at = sock["server"].at
             /\ sock["client"].tx = sock["server"].rx
             /\ sock["server"].tx = sock["client"].rx

(* send(): what does not get through is gone. *)
Sent(boxes, e, message) ==
  IF Reaches(e, message)
  THEN [boxes EXCEPT ![Other(e)] = Append(@, message)]
  ELSE boxes

(* Mutated form of Received: one byte of room too few. *)
ReceivedShort(message) ==
  SubSeq(message, 1, IF Len(message) < BufferSize THEN Len(message)
                                                  ELSE BufferSize - 1)

(* receive(): what does not fit is cut off. *)
Received(message) ==
  SubSeq(message, 1, IF Len(message) < BufferSize THEN Len(message)
                                                  ELSE BufferSize)

(* A system brings its interfaces up in its own time. *)
InterfaceComesUp ==
  /\ \E i \in Interfaces \ present : present' = present \union {i}
  /\ UNCHANGED <<sock, inbox>>

(* ~CAN_TP: what waited in the socket is gone with it. *)
Close(e) ==
  /\ sock' = [sock EXCEPT ![e] = NoSocket]
  /\ inbox' = [inbox EXCEPT ![e] = <<>>]
=============================================================================
