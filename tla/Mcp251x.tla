------------------------------ MODULE Mcp251x ------------------------------
(***************************************************************************)
(* The driver of the MCP251x CAN controller, class MCP251x, on the nodes   *)
(* of a CAN bus.                                                           *)
(*                                                                         *)
(* Every SPI transaction of the driver is a step, so the controller, which *)
(* sends and receives on its own, may act between any two of them.  A node *)
(* uses one transmit buffer, with the bit TXREQ, and one receive buffer,   *)
(* with the flag RX0IF.  What the controller does is taken from how the    *)
(* driver uses it.                                                         *)
(***************************************************************************)
EXTENDS Integers, Sequences, FiniteSets

CONSTANTS
  Nodes,         \* the nodes of the bus, each running one program
  Frames,        \* the frames programs transmit
  StrayBytes,    \* what may be found behind the end of a vector
  MaxTransmits,  \* bound: how many calls of transmit() there are
  MaxFailures    \* bound: how many SPI transactions of a node fail

Bytes == 0..255

(* Identifiers of eleven and of twenty-nine bits. *)
StandardIds == {id \in Nat : id < 2048}
ExtendedIds == {id \in Nat : id < 536870912}

FrameRecords ==
  {f \in [id : ExtendedIds, extended : BOOLEAN, data : Seq(Bytes)] :
     f.id \in StandardIds \/ f.extended}

ASSUME FrameAssumption ==
  /\ Frames \subseteq FrameRecords
  /\ StrayBytes \subseteq Bytes /\ StrayBytes # {}
  /\ MaxTransmits \in Nat
  /\ MaxFailures \in [Nodes -> Nat]

NoFrame == [id |-> 0, extended |-> FALSE, data |-> <<>>]

VARIABLES
  pc,           \* pc[n]: where the program of node n is in the driver
  mode,         \* mode[n]: the mode of the controller
  frame,        \* the frame the program is transmitting
  txbuf,        \* the frame in the transmit buffer
  txreq,        \* TXREQ: the transmit buffer waits to be sent
  rxbuf,        \* the place in bus of the frame in the receive buffer
  rx0if,        \* RX0IF: the receive buffer holds a frame
  got,          \* the place in bus of the frame receive() has read
  txCallback,   \* txCallback_ is set
  rxCallback,   \* rxCallback_ is set
  inCallback,   \* poll() is calling txCallback_
  bus,          \* history: every frame sent, in the order of the bus
  requested,    \* history: the frames the controller was told to send
  sent,         \* history: what became of them, sent or lost
  overrun,      \* history: transmit() has written over a pending frame
  torn,         \* history: and has failed while it did
  stored,       \* history: the places of the frames the controller kept
  received,     \* history: what became of them, delivered or lost
  transmits,    \* how many calls of transmit() there were
  failures      \* how many SPI transactions of a node failed

driverVars     == <<pc, frame, got, txCallback, rxCallback, inCallback>>
controllerVars == <<mode, txbuf, txreq, rxbuf, rx0if>>
historyVars    == <<bus, requested, sent, overrun, torn, stored, received>>
countVars      == <<transmits, failures>>

vars == <<driverVars, controllerVars, historyVars, countVars>>

Steps == {"off", "setup", "idle", "load", "rts", "status", "read", "clear",
          "poll", "callback", "poll_status"}

(* What becomes of a frame that is to be sent, and of one that was kept. *)
SentRecords     == [frame : FrameRecords, lost : BOOLEAN]
ReceivedRecords == [place : Nat, frame : FrameRecords, lost : BOOLEAN]

TypeOK ==
  /\ pc \in [Nodes -> Steps]
  /\ mode \in [Nodes -> {"config", "normal"}]
  /\ frame \in [Nodes -> FrameRecords]
  /\ txbuf \in [Nodes -> FrameRecords]
  /\ rxbuf \in [Nodes -> Nat] /\ got \in [Nodes -> Nat]
  /\ txreq \in [Nodes -> BOOLEAN] /\ rx0if \in [Nodes -> BOOLEAN]
  /\ txCallback \in [Nodes -> BOOLEAN] /\ rxCallback \in [Nodes -> BOOLEAN]
  /\ inCallback \in [Nodes -> BOOLEAN]
  /\ overrun \in [Nodes -> BOOLEAN] /\ torn \in [Nodes -> BOOLEAN]
  /\ bus \in Seq(FrameRecords)
  /\ requested \in [Nodes -> Seq(FrameRecords)]
  /\ sent \in [Nodes -> Seq(SentRecords)]
  /\ stored \in [Nodes -> Seq(Nat)]
  /\ received \in [Nodes -> Seq(ReceivedRecords)]
  /\ transmits \in Nat /\ failures \in [Nodes -> Nat]

-----------------------------------------------------------------------------
(* Frames as the registers hold them.                                      *)

(* The bits of an identifier transmit() puts into each register. *)
IdRegisters(id, extended) ==
  IF extended
  THEN [sidh |-> (id \div 2097152) % 256,
        sidl |-> ((id \div 65536) % 4) * 32 + 8 + ((id \div 262144) % 8),
        eid8 |-> (id \div 256) % 256,
        eid0 |-> id % 256]
  ELSE [sidh |-> (id \div 8) % 256, sidl |-> (id % 8) * 32,
        eid8 |-> 0, eid0 |-> 0]

(* Bit 3 of SIDL tells receive() that the identifier is an extended one. *)
IsExtended(registers) == (registers.sidl \div 8) % 2 = 1

(* Mutated form of IdOf: the high register shifted by five bits, not three. *)
IdOfWrongShift(registers) == registers.sidh * 32 + (registers.sidl \div 32)

IdOf(registers) ==
  IF IsExtended(registers)
  THEN registers.sidh * 2097152 + (registers.sidl \div 32) * 262144
       + (registers.sidl % 4) * 65536 + registers.eid8 * 256 + registers.eid0
  ELSE registers.sidh * 8 + (registers.sidl \div 32)

RegistersOf(f) ==
  LET id == IdRegisters(f.id, f.extended)
  IN [sidh |-> id.sidh, sidl |-> id.sidl, eid8 |-> id.eid8, eid0 |-> id.eid0,
      dlc |-> Len(f.data), data |-> f.data]

(* Mutated form of Transferred: a vector of thirteen bytes. *)
TransferredTooFew == 6

(* receive() transfers fourteen bytes, two of them the instruction and     *)
(* five the registers before the data: the eighth byte of the data lies    *)
(* behind the end of what was transferred.                                 *)
Transferred == 7

FrameOf(registers, stray) ==
  [id |-> IdOf(registers), extended |-> IsExtended(registers),
   data |-> [i \in 1..registers.dlc |->
               IF i <= Transferred THEN registers.data[i] ELSE stray]]

-----------------------------------------------------------------------------
(* Programs start, and fail.                                               *)

Init ==
  /\ pc = [n \in Nodes |-> "off"]
  /\ mode = [n \in Nodes |-> "config"]
  /\ frame = [n \in Nodes |-> NoFrame]
  /\ txbuf = [n \in Nodes |-> NoFrame]
  /\ rxbuf = [n \in Nodes |-> 0]
  /\ got = [n \in Nodes |-> 0]
  /\ txreq = [n \in Nodes |-> FALSE]
  /\ rx0if = [n \in Nodes |-> FALSE]
  /\ txCallback = [n \in Nodes |-> FALSE]
  /\ rxCallback = [n \in Nodes |-> FALSE]
  /\ inCallback = [n \in Nodes |-> FALSE]
  /\ overrun = [n \in Nodes |-> FALSE]
  /\ torn = [n \in Nodes |-> FALSE]
  /\ bus = <<>>
  /\ requested = [n \in Nodes |-> <<>>]
  /\ sent = [n \in Nodes |-> <<>>]
  /\ stored = [n \in Nodes |-> <<>>]
  /\ received = [n \in Nodes |-> <<>>]
  /\ transmits = 0
  /\ failures = [n \in Nodes |-> 0]

Goto(n, step) == pc' = [pc EXCEPT ![n] = step]

(* The frame that waits in a buffer of node n is lost. *)
LoseKept(n) ==
  received' = [received EXCEPT ![n] =
    Append(@, [place |-> rxbuf[n], frame |-> NoFrame, lost |-> TRUE])]

LosePending(n) ==
  sent' = [sent EXCEPT ![n] = Append(@, [frame |-> txbuf[n], lost |-> TRUE])]

(* reset(), configure() and setBitrate().  Whatever the controller still   *)
(* held is gone.                                                           *)
Reset(n) ==
  /\ pc[n] = "off"
  /\ Goto(n, "setup")
  /\ mode' = [mode EXCEPT ![n] = "config"]
  /\ txreq' = [txreq EXCEPT ![n] = FALSE]
  /\ rx0if' = [rx0if EXCEPT ![n] = FALSE]
  /\ txCallback' = [txCallback EXCEPT ![n] = FALSE]
  /\ rxCallback' = [rxCallback EXCEPT ![n] = FALSE]
  /\ IF txreq[n] THEN LosePending(n) ELSE sent' = sent
  /\ IF rx0if[n] THEN LoseKept(n) ELSE received' = received
  /\ UNCHANGED <<frame, txbuf, rxbuf, got, inCallback, bus, requested, overrun,
                 torn, stored, countVars>>

SetNormalMode(n) ==
  /\ pc[n] = "setup"
  /\ Goto(n, "idle")
  /\ mode' = [mode EXCEPT ![n] = "normal"]
  /\ UNCHANGED <<frame, got, txCallback, rxCallback, inCallback, txbuf, txreq,
                 rxbuf, rx0if, historyVars, countVars>>

(* The transmit buffer is sent for. *)
AskToSend(n) ==
  /\ txreq' = [txreq EXCEPT ![n] = TRUE]
  /\ requested' = [requested EXCEPT ![n] = Append(@, frame[n])]
  /\ UNCHANGED <<mode, txbuf, rxbuf, rx0if, bus, sent, overrun, torn, stored,
                 received>>

(* What a load that stops half way makes of the frame in the buffer: the   *)
(* identifier comes first, then the length, then the data byte for byte;   *)
(* behind the data of the old frame lie those of earlier ones.             *)
PartlyLoaded(old, new) ==
  LET WithData(data) == [new EXCEPT !.data = data]
      Mixed(k, stray) == [i \in 1..Len(new.data) |->
                            IF i <= k THEN new.data[i]
                            ELSE IF i <= Len(old.data) THEN old.data[i]
                            ELSE stray]
  IN {WithData(old.data)}
     \union {WithData(Mixed(k, stray)) :
                k \in 0..Len(new.data), stray \in StrayBytes}

(* What the controller may have taken of a transaction that fails.  A      *)
(* buffer that does not wait to be sent is loaded again before it does.    *)
TakenAnyway(n) ==
  \/ /\ pc[n] = "setup"
     /\ mode' = [mode EXCEPT ![n] = "normal"]
     /\ UNCHANGED <<txbuf, txreq, rxbuf, rx0if, historyVars>>
  \/ /\ pc[n] = "load" /\ txreq[n]
     /\ \E f \in PartlyLoaded(txbuf[n], frame[n]) :
          txbuf' = [txbuf EXCEPT ![n] = f]
     /\ overrun' = [overrun EXCEPT ![n] = TRUE]
     /\ torn' = [torn EXCEPT ![n] = TRUE]
     /\ UNCHANGED <<mode, txreq, rxbuf, rx0if, bus, requested, sent, stored,
                    received>>
  \/ pc[n] = "rts" /\ AskToSend(n)
  \/ /\ pc[n] = "clear"
     /\ rx0if' = [rx0if EXCEPT ![n] = FALSE]
     /\ LoseKept(n)
     /\ UNCHANGED <<mode, txbuf, txreq, rxbuf, bus, requested, sent, overrun,
                    torn, stored>>

(* An SPI transaction fails, and nobody knows what the controller has      *)
(* taken of it.  Nobody catches what it throws, and the program ends, to   *)
(* be started again some time.  The controller goes on.                    *)
SpiFails(n) ==
  /\ failures[n] < MaxFailures[n]
  /\ pc[n] \notin {"off", "idle", "callback"}
  /\ Goto(n, "off")
  /\ inCallback' = [inCallback EXCEPT ![n] = FALSE]
  /\ failures' = [failures EXCEPT ![n] = @ + 1]
  /\ TakenAnyway(n) \/ UNCHANGED <<controllerVars, historyVars>>
  /\ UNCHANGED <<frame, got, txCallback, rxCallback, transmits>>

-----------------------------------------------------------------------------
(* Mutated steps: steps of the driver with one plausible bug each.  No     *)
(* specification uses them; each of them, in the place of the step it is   *)
(* named after, violates a property stated at the end.                     *)

RequestToSendForgotten(n) ==
  /\ pc[n] = "rts"
  /\ Goto(n, IF inCallback[n] THEN "callback" ELSE "idle")
  /\ requested' = [requested EXCEPT ![n] = Append(@, frame[n])]
  /\ UNCHANGED <<frame, got, txCallback, rxCallback, inCallback,
                 controllerVars, bus, sent, overrun, torn, stored, received,
                 countVars>>

ReadStatusAndClear(n) ==
  /\ pc[n] = "status"
  /\ Goto(n, IF rx0if[n] THEN "read" ELSE "idle")
  /\ rx0if' = [rx0if EXCEPT ![n] = FALSE]
  /\ UNCHANGED <<frame, got, txCallback, rxCallback, inCallback, mode, txbuf,
                 txreq, rxbuf, historyVars, countVars>>

PollControlUnchecked(n) ==
  /\ pc[n] = "poll"
  /\ Goto(n, IF txCallback[n] THEN "callback" ELSE "poll_status")
  /\ inCallback' = [inCallback EXCEPT ![n] = txCallback[n]]
  /\ UNCHANGED <<frame, got, txCallback, rxCallback, controllerVars,
                 historyVars, countVars>>

PollControlInverted(n) ==
  /\ pc[n] = "poll"
  /\ LET calls == txreq[n] /\ txCallback[n]
     IN /\ Goto(n, IF calls THEN "callback" ELSE "poll_status")
        /\ inCallback' = [inCallback EXCEPT ![n] = calls]
  /\ UNCHANGED <<frame, got, txCallback, rxCallback, controllerVars,
                 historyVars, countVars>>

-----------------------------------------------------------------------------
(* transmit(): the buffer is loaded in one transaction and sent for in the *)
(* next.  It may be called from txCallback_.                               *)

Transmit(n, f) ==
  /\ pc[n] \in {"idle", "callback"}
  /\ transmits < MaxTransmits
  /\ Len(f.data) <= 8
  /\ Goto(n, "load")
  /\ frame' = [frame EXCEPT ![n] = f]
  /\ transmits' = transmits + 1
  /\ UNCHANGED <<got, txCallback, rxCallback, inCallback, controllerVars,
                 historyVars, failures>>

(* Nobody looks at TXREQ first.  What the controller makes of a buffer     *)
(* written while the last frame still waits in it is its own affair.       *)
Load(n) ==
  /\ pc[n] = "load"
  /\ Goto(n, "rts")
  /\ \/ txbuf' = [txbuf EXCEPT ![n] = frame[n]]
     \/ txreq[n] /\ txbuf' = txbuf
  /\ overrun' = [overrun EXCEPT ![n] = @ \/ txreq[n]]
  /\ UNCHANGED <<frame, got, txCallback, rxCallback, inCallback, mode, txreq,
                 rxbuf, rx0if, bus, requested, sent, torn, stored, received,
                 countVars>>

RequestToSend(n) ==
  /\ pc[n] = "rts"
  /\ Goto(n, IF inCallback[n] THEN "callback" ELSE "idle")
  /\ AskToSend(n)
  /\ UNCHANGED <<frame, got, txCallback, rxCallback, inCallback, countVars>>

-----------------------------------------------------------------------------
(* receive(): look at RX0IF, read the buffer, clear RX0IF.                 *)

Receive(n) ==
  /\ pc[n] = "idle"
  /\ Goto(n, "status")
  /\ UNCHANGED <<frame, got, txCallback, rxCallback, inCallback,
                 controllerVars, historyVars, countVars>>

ReadStatus(n) ==
  /\ pc[n] = "status"
  /\ Goto(n, IF rx0if[n] THEN "read" ELSE "idle")
  /\ UNCHANGED <<frame, got, txCallback, rxCallback, inCallback,
                 controllerVars, historyVars, countVars>>

ReadBuffer(n) ==
  /\ pc[n] = "read"
  /\ Goto(n, "clear")
  /\ got' = [got EXCEPT ![n] = rxbuf[n]]
  /\ UNCHANGED <<frame, txCallback, rxCallback, inCallback, controllerVars,
                 historyVars, countVars>>

(* The last transaction; then receive() returns, or poll() hands the frame *)
(* to rxCallback_.                                                         *)
ClearFlag(n) ==
  /\ pc[n] = "clear"
  /\ Goto(n, "idle")
  /\ rx0if' = [rx0if EXCEPT ![n] = FALSE]
  /\ \E stray \in StrayBytes :
       received' = [received EXCEPT ![n] =
         Append(@, [place |-> got[n],
                    frame |-> FrameOf(RegistersOf(bus[got[n]]), stray),
                    lost  |-> FALSE])]
  /\ UNCHANGED <<frame, got, txCallback, rxCallback, inCallback, mode, txbuf,
                 txreq, rxbuf, bus, requested, sent, overrun, torn, stored,
                 countVars>>

-----------------------------------------------------------------------------
(* The callbacks, and poll(), which calls them.                            *)

OnTransmitComplete(n) ==
  /\ pc[n] \in {"idle", "callback"}
  /\ txCallback' = [txCallback EXCEPT ![n] = TRUE]
  /\ UNCHANGED <<pc, frame, got, rxCallback, inCallback, controllerVars,
                 historyVars, countVars>>

OnReceive(n) ==
  /\ pc[n] = "idle"
  /\ rxCallback' = [rxCallback EXCEPT ![n] = TRUE]
  /\ UNCHANGED <<pc, frame, got, txCallback, inCallback, controllerVars,
                 historyVars, countVars>>

Poll(n) ==
  /\ pc[n] = "idle"
  /\ Goto(n, "poll")
  /\ UNCHANGED <<frame, got, txCallback, rxCallback, inCallback,
                 controllerVars, historyVars, countVars>>

(* TXREQ is clear and a callback is set: call it. *)
PollControl(n) ==
  /\ pc[n] = "poll"
  /\ LET calls == ~txreq[n] /\ txCallback[n]
     IN /\ Goto(n, IF calls THEN "callback" ELSE "poll_status")
        /\ inCallback' = [inCallback EXCEPT ![n] = calls]
  /\ UNCHANGED <<frame, got, txCallback, rxCallback, controllerVars,
                 historyVars, countVars>>

(* The callback has returned and is forgotten, and with it one that it may *)
(* have set itself.                                                        *)
EndCallback(n) ==
  /\ pc[n] = "callback"
  /\ Goto(n, "poll_status")
  /\ txCallback' = [txCallback EXCEPT ![n] = FALSE]
  /\ inCallback' = [inCallback EXCEPT ![n] = FALSE]
  /\ UNCHANGED <<frame, got, rxCallback, controllerVars, historyVars,
                 countVars>>

PollStatus(n) ==
  /\ pc[n] = "poll_status"
  /\ Goto(n, IF rx0if[n] /\ rxCallback[n] THEN "status" ELSE "idle")
  /\ UNCHANGED <<frame, got, txCallback, rxCallback, inCallback,
                 controllerVars, historyVars, countVars>>

-----------------------------------------------------------------------------
(* The controllers: a pending frame is sent as soon as the bus and a node  *)
(* that acknowledges it allow, and every other node keeps it whose receive *)
(* buffer is free.                                                         *)

SendOnBus(n) ==
  LET keeps(m) == m # n /\ mode[m] = "normal" /\ ~rx0if[m]
      place    == Len(bus) + 1
  IN /\ txreq[n] /\ mode[n] = "normal"
     /\ \E m \in Nodes \ {n} : mode[m] = "normal"
     /\ txreq' = [txreq EXCEPT ![n] = FALSE]
     /\ bus' = Append(bus, txbuf[n])
     /\ sent' = [sent EXCEPT ![n] =
                   Append(@, [frame |-> txbuf[n], lost |-> FALSE])]
     /\ rxbuf' = [m \in Nodes |-> IF keeps(m) THEN place ELSE rxbuf[m]]
     /\ rx0if' = [m \in Nodes |-> keeps(m) \/ rx0if[m]]
     /\ stored' = [m \in Nodes |->
                     IF keeps(m) THEN Append(stored[m], place) ELSE stored[m]]
     /\ UNCHANGED <<driverVars, mode, txbuf, requested, overrun, torn, received,
                    countVars>>

-----------------------------------------------------------------------------
(* What a program does between two calls is its own choice. *)
ProgramStep(n) ==
  \/ Reset(n)
  \/ SetNormalMode(n)
  \/ Load(n)
  \/ RequestToSend(n)
  \/ ReadStatus(n)
  \/ ReadBuffer(n)
  \/ ClearFlag(n)
  \/ PollControl(n)
  \/ EndCallback(n)
  \/ PollStatus(n)

Choice(n) ==
  \/ \E f \in Frames : Transmit(n, f)
  \/ Receive(n)
  \/ OnTransmitComplete(n)
  \/ OnReceive(n)
  \/ Poll(n)

Next ==
  \E n \in Nodes :
    \/ ProgramStep(n)
    \/ Choice(n)
    \/ SendOnBus(n)
    \/ SpiFails(n)

Spec == Init /\ [][Next]_vars

(* Programs start and their calls return; the bus sends what is pending    *)
(* while a node acknowledges it; a program that waits for its callback     *)
(* polls again and again.                                                  *)
FairSpec ==
  /\ Spec
  /\ \A n \in Nodes : /\ WF_vars(ProgramStep(n))
                      /\ WF_vars(SendOnBus(n))
                      /\ SF_vars(Poll(n))

-----------------------------------------------------------------------------
(* How many frames of a history were lost. *)
Losses(history) == Cardinality({i \in DOMAIN history : history[i].lost})

(* The frames the controller has kept are delivered or lost in the order   *)
(* of the bus, none twice.  RX0IF is cleared last, so the buffer cannot    *)
(* change between the look at the flag and the end of the read.            *)
KeptInOrder(n) ==
  /\ Len(stored[n]) = Len(received[n]) + IF rx0if[n] THEN 1 ELSE 0
  /\ \A i \in 1..Len(received[n]) : received[n][i].place = stored[n][i]
  /\ rx0if[n] => rxbuf[n] = stored[n][Len(stored[n])]
  /\ pc[n] \in {"read", "clear"} => rx0if[n]
  /\ pc[n] = "clear" => got[n] = rxbuf[n]

(* Nothing the controller has kept is doubled or overtaken, and nothing is *)
(* lost but by a failed transaction, which costs two frames at most: the   *)
(* one whose flag it cleared, and the one the controller holds when the    *)
(* program starts again.                                                   *)
NothingReceivedIsLost ==
  \A n \in Nodes :
    KeptInOrder(n) /\ Losses(received[n]) <= 2 * failures[n]

(* The frames transmit() has asked for become what it asked for, in this   *)
(* order, the last one perhaps still pending, unless the program has       *)
(* called transmit() too early.                                            *)
SentInOrder(n) ==
  ~overrun[n] =>
    /\ Len(requested[n]) = Len(sent[n]) + IF txreq[n] THEN 1 ELSE 0
    /\ \A i \in 1..Len(sent[n]) : requested[n][i] = sent[n][i].frame
    /\ txreq[n] => txbuf[n] = requested[n][Len(requested[n])]

(* Frames are sent as and in the order transmit() asked for them, and a    *)
(* failed transaction costs one of them at most, the one that is pending   *)
(* when the program starts again.                                          *)
SentAsAccepted ==
  \A n \in Nodes : SentInOrder(n) /\ Losses(sent[n]) <= failures[n]

(* When poll() calls txCallback_, nothing transmit() has asked for waits   *)
(* to be sent: a program that transmits there, once, is never too early.   *)
CompletionMeansSent ==
  [][\A n \in Nodes :
       pc[n] = "poll" /\ pc'[n] = "callback" /\ ~overrun[n] =>
         ~txreq[n] /\ Len(requested[n]) = Len(sent[n])]_vars

(* The same standard frame but for the eighth byte of its data, the last   *)
(* one, which is read behind the end of what receive() has transferred.    *)
SameButEighth(f, g) ==
  /\ f.id = g.id /\ ~f.extended /\ ~g.extended
  /\ Len(f.data) = Len(g.data)
  /\ \A k \in 1..Len(f.data) : k < 8 => f.data[k] = g.data[k]

(* What receive() returns is the frame that was on the bus, if that is a   *)
(* standard frame: its identifier, its length, and all of its data but an  *)
(* eighth byte.                                                            *)
ArrivesIntact ==
  \A n \in Nodes : \A i \in 1..Len(received[n]) :
    LET original == bus[received[n][i].place]
    IN ~received[n][i].lost /\ ~original.extended =>
         SameButEighth(received[n][i].frame, original)

(* A callback set outside of callbacks is called, or its program ends. *)
CompletionIsReported ==
  \A n \in Nodes :
    txCallback[n] /\ pc[n] = "idle" ~> ~txCallback[n] \/ pc[n] = "off"

=============================================================================
