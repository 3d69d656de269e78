--------------------------- MODULE UdsFrameProofs ---------------------------
(***************************************************************************)
(* Proofs about the driver of the CAN controller, for every set of nodes   *)
(* and frames, every bound and whatever lies behind the end of a vector;   *)
(* and about the single-frame UDS stack over it, for every set of requests *)
(* and answers.                                                            *)
(*                                                                         *)
(* Of the driver: a frame that arrives is kept until it is delivered, as   *)
(* it was on the bus.  Of the stack: a frame carries its message from      *)
(* transmit() over the transmit buffer and the bus to the receive buffer   *)
(* of another node, and what is proved of the driver says that the node    *)
(* then reads that buffer and no other.                                    *)
(***************************************************************************)
EXTENDS UdsFrame, SequenceTheorems, FiniteSetTheorems, TLAPS

-----------------------------------------------------------------------------
(* Identifiers and frames in registers.                                    *)

(* A standard identifier survives being taken apart and put together. *)
LEMMA StandardId ==
  ASSUME NEW id \in StandardIds
  PROVE  /\ ~IsExtended(IdRegisters(id, FALSE))
         /\ IdOf(IdRegisters(id, FALSE)) = id
<1>1. ((id % 8) * 32) \div 32 = id % 8
  BY DEF StandardIds
<1>2. (((id % 8) * 32) \div 8) % 2 = 0
  BY DEF StandardIds
<1>3. ((id \div 8) % 256) * 8 + (id % 8) = id
  BY DEF StandardIds
<1> QED BY <1>1, <1>2, <1>3 DEF IsExtended, IdOf, IdRegisters

(* An extended identifier does not, but it stays an extended identifier. *)
LEMMA ExtendedId ==
  ASSUME NEW id \in ExtendedIds
  PROVE  /\ IsExtended(IdRegisters(id, TRUE))
         /\ IdOf(IdRegisters(id, TRUE)) \in ExtendedIds
<1>1. id \in Nat
  BY SMT DEF ExtendedIds
<1>2. ASSUME NEW k \in Nat
      PROVE  k % 256 \in 0..255 /\ k % 4 \in 0..3 /\ k % 8 \in 0..7
  BY SMT
<1>3. /\ id \div 2097152 \in Nat /\ id \div 65536 \in Nat
      /\ id \div 262144 \in Nat /\ id \div 256 \in Nat
  BY <1>1, SMT
<1> DEFINE registers == IdRegisters(id, TRUE)
<1>4. registers.sidh \in 0..255 /\ registers.eid8 \in 0..255
      /\ registers.eid0 \in 0..255
  BY <1>1, <1>2, <1>3, SMT DEF IdRegisters
<1>5. PICK a \in 0..3, b \in 0..7 : registers.sidl = a * 32 + 8 + b
  <2>1. (id \div 65536) % 4 \in 0..3 /\ (id \div 262144) % 8 \in 0..7
    BY <1>2, <1>3
  <2> QED BY <2>1, SMT DEF IdRegisters
<1> HIDE DEF registers
<1>6. registers.sidl \div 32 \in 0..3 /\ registers.sidl % 4 \in 0..3
  <2>1. a * 32 + 8 + b \in 0..111
    OBVIOUS
  <2>2. \A k \in 0..111 : k \div 32 \in 0..3 /\ k % 4 \in 0..3
    BY SMT
  <2> QED BY <1>5, <2>1, <2>2
<1>7. IsExtended(registers)
  <2>1. ((a * 32 + 8 + b) \div 8) % 2 = 1
    BY SMT
  <2> QED BY <1>5, <2>1 DEF IsExtended
<1>8. IdOf(registers) \in ExtendedIds
  <2> DEFINE value == registers.sidh * 2097152
                      + (registers.sidl \div 32) * 262144
                      + (registers.sidl % 4) * 65536
                      + registers.eid8 * 256 + registers.eid0
  <2>1. IdOf(registers) = value
    BY <1>7, SMT DEF IdOf
  <2>2. PICK h \in 0..255, q \in 0..3, r \in 0..3, e \in 0..255, f \in 0..255 :
          /\ h = registers.sidh
          /\ q = registers.sidl \div 32 /\ r = registers.sidl % 4
          /\ e = registers.eid8 /\ f = registers.eid0
    BY <1>4, <1>6
  <2>3. h * 2097152 + q * 262144 + r * 65536 + e * 256 + f \in ExtendedIds
    BY SMT DEF ExtendedIds
  <2>4. value \in ExtendedIds
    BY <2>2, <2>3, SMT
  <2> QED BY <2>1, <2>4, SMT
<1> QED BY <1>7, <1>8 DEF registers

(* What makes a frame. *)
LEMMA FrameIsRecord ==
  ASSUME NEW id \in ExtendedIds, NEW e \in BOOLEAN, NEW d \in Seq(Bytes),
         id \in StandardIds \/ e = TRUE
  PROVE  [id |-> id, extended |-> e, data |-> d] \in FrameRecords
<1> DEFINE g == [id |-> id, extended |-> e, data |-> d]
<1>1. g \in [id : ExtendedIds, extended : BOOLEAN, data : Seq(Bytes)]
  BY SMT
<1>2. g.id = id /\ g.extended = e
  BY SMT
<1> HIDE DEF g
<1>3. g \in FrameRecords
  BY <1>1, <1>2, Zenon DEF FrameRecords
<1> QED BY <1>3 DEF g

LEMMA RecordIsFrame ==
  ASSUME NEW f \in FrameRecords
  PROVE  /\ f.id \in ExtendedIds /\ f.extended \in BOOLEAN
         /\ f.data \in Seq(Bytes)
         /\ f = [id |-> f.id, extended |-> f.extended, data |-> f.data]
         /\ f.id \in StandardIds \/ f.extended
<1>1. f \in [id : ExtendedIds, extended : BOOLEAN, data : Seq(Bytes)]
  BY Zenon DEF FrameRecords
<1>2. f.id \in StandardIds \/ f.extended
  BY Zenon DEF FrameRecords
<1> QED BY <1>1, <1>2, SMT

(* What receive() makes of a frame is a frame, and if it is a standard one *)
(* it is that frame but for the eighth byte.                               *)
LEMMA FrameArrives ==
  ASSUME NEW f \in FrameRecords, NEW stray \in Bytes
  PROVE  /\ FrameOf(RegistersOf(f), stray) \in FrameRecords
         /\ ~f.extended /\ Len(f.data) <= 7 =>
              FrameOf(RegistersOf(f), stray) = f
         /\ ~f.extended => SameButEighth(FrameOf(RegistersOf(f), stray), f)
<1> DEFINE registers == RegistersOf(f)
           data == [i \in 1..Len(f.data) |->
                      IF i <= Transferred THEN f.data[i] ELSE stray]
<1>1. f.data \in Seq(Bytes) /\ Len(f.data) \in Nat /\ f.extended \in BOOLEAN
  BY RecordIsFrame, SMT
<1>2. \A i \in 1..Len(f.data) : f.data[i] \in Bytes
  BY <1>1, ElementOfSeq
<1>3. data \in Seq(Bytes)
  <2>1. data \in [1..Len(f.data) -> Bytes]
    BY <1>2, SMT
  <2> QED BY <1>1, <2>1, SeqDef
<1>4. registers.dlc = Len(f.data) /\ registers.data = f.data
  BY SMT DEF RegistersOf
<1>5. /\ IdOf(registers) = IdOf(IdRegisters(f.id, f.extended))
      /\ IsExtended(registers) = IsExtended(IdRegisters(f.id, f.extended))
  BY SMT DEF RegistersOf, IdOf, IsExtended
<1>6. FrameOf(registers, stray) =
        [id |-> IdOf(registers), extended |-> IsExtended(registers),
         data |-> data]
  BY <1>4, SMT DEF FrameOf
<1>7. Len(f.data) <= 7 => data = f.data
  <2> SUFFICES ASSUME Len(f.data) <= 7
               PROVE  data = f.data
    OBVIOUS
  <2>1. \A i \in 1..Len(f.data) : i <= Transferred
    BY <1>1, SMT DEF Transferred
  <2>2. data = [i \in 1..Len(f.data) |-> f.data[i]]
    BY <2>1, Zenon
  <2>3. f.data = [i \in 1..Len(f.data) |-> f.data[i]]
    BY <1>1, SMT
  <2> QED BY <2>2, <2>3
<1>8. IsExtended(registers) \in BOOLEAN
  BY Zenon DEF IsExtended
<1>9. /\ Len(data) = Len(f.data)
      /\ \A k \in 1..Len(data) : k < 8 => data[k] = f.data[k]
  BY <1>1, SMT DEF Transferred
<1> HIDE DEF registers, data
<1>10. CASE f.extended
  <2>1. f.extended = TRUE /\ f.id \in ExtendedIds
    BY <1>1, <1>10, RecordIsFrame
  <2>2. IsExtended(registers) /\ IdOf(registers) \in ExtendedIds
    BY <1>5, <2>1, ExtendedId, Zenon
  <2>3. IsExtended(registers) = TRUE
    BY <1>8, <2>2
  <2> QED BY <1>3, <1>6, <1>8, <1>10, <2>2, <2>3, FrameIsRecord DEF registers
<1>11. CASE ~f.extended
  <2>1. f.extended = FALSE /\ f.id \in StandardIds
    BY <1>1, <1>11, RecordIsFrame
  <2>2. ~IsExtended(registers) /\ IdOf(registers) = f.id
    BY <1>5, <2>1, StandardId, Zenon
  <2>3. IsExtended(registers) = FALSE
    BY <1>8, <2>2
  <2>4. FrameOf(registers, stray) \in FrameRecords
    <3>1. f.id \in ExtendedIds
      BY RecordIsFrame
    <3>2. [id |-> f.id, extended |-> IsExtended(registers), data |-> data]
            \in FrameRecords
      BY <1>3, <1>8, <2>1, <3>1, FrameIsRecord
    <3> QED BY <1>6, <2>2, <3>2
  <2>5. ASSUME Len(f.data) <= 7
        PROVE  FrameOf(registers, stray) = f
    BY <1>6, <1>7, <2>1, <2>2, <2>3, <2>5, RecordIsFrame
  <2>6. SameButEighth(FrameOf(registers, stray), f)
    <3>1. FrameOf(registers, stray) =
            [id |-> f.id, extended |-> FALSE, data |-> data]
      BY <1>6, <2>2, <2>3
    <3> QED BY <1>9, <1>11, <3>1 DEF SameButEighth
  <2> QED BY <1>11, <2>4, <2>5, <2>6 DEF registers
<1> QED BY <1>1, <1>10, <1>11

-----------------------------------------------------------------------------
(* Types.                                                                  *)

(* A frame in the receive buffer, and every frame that was in it, has a    *)
(* place on the bus.                                                       *)
Places ==
  \A n \in Nodes :
    /\ rx0if[n] => rxbuf[n] \in 1..Len(bus)
    /\ \A i \in 1..Len(received[n]) :
         received[n][i].place \in 1..Len(bus)

LEMMA NoFrameIsFrame == NoFrame \in FrameRecords
<1>1. 0 \in StandardIds /\ 0 \in ExtendedIds
  BY SMT DEF StandardIds, ExtendedIds
<1>2. <<>> \in Seq(Bytes)
  BY EmptySeq
<1> QED BY <1>1, <1>2, FrameIsRecord DEF NoFrame

LEMMA TypeInitially == Init => TypeOK
BY NoFrameIsFrame DEF Init, TypeOK, Steps

(* What is appended to the histories. *)
LEMMA ReceivedIsTyped ==
  ASSUME TypeOK, NEW n \in Nodes, NEW p \in Nat, NEW f \in FrameRecords,
         NEW b \in BOOLEAN,
         received' = [received EXCEPT ![n] =
           Append(@, [place |-> p, frame |-> f, lost |-> b])]
  PROVE  received' \in [Nodes -> Seq(ReceivedRecords)]
<1>1. [place |-> p, frame |-> f, lost |-> b] \in ReceivedRecords
  BY DEF ReceivedRecords
<1>2. received[n] \in Seq(ReceivedRecords)
  BY DEF TypeOK
<1>3. Append(received[n], [place |-> p, frame |-> f, lost |-> b])
        \in Seq(ReceivedRecords)
  BY <1>1, <1>2, AppendProperties
<1> QED BY <1>3 DEF TypeOK

LEMMA SentIsTyped ==
  ASSUME TypeOK, NEW n \in Nodes, NEW f \in FrameRecords, NEW b \in BOOLEAN,
         sent' = [sent EXCEPT ![n] = Append(@, [frame |-> f, lost |-> b])]
  PROVE  sent' \in [Nodes -> Seq(SentRecords)]
<1>1. [frame |-> f, lost |-> b] \in SentRecords
  BY DEF SentRecords
<1>2. sent[n] \in Seq(SentRecords)
  BY DEF TypeOK
<1>3. Append(sent[n], [frame |-> f, lost |-> b]) \in Seq(SentRecords)
  BY <1>1, <1>2, AppendProperties
<1> QED BY <1>3 DEF TypeOK

LEMMA LostIsTyped ==
  ASSUME TypeOK, NEW n \in Nodes
  PROVE  /\ LoseKept(n) => received' \in [Nodes -> Seq(ReceivedRecords)]
         /\ LosePending(n) => sent' \in [Nodes -> Seq(SentRecords)]
<1>1. rxbuf[n] \in Nat /\ txbuf[n] \in FrameRecords
  BY DEF TypeOK
<1>2. ASSUME LoseKept(n)
      PROVE  received' \in [Nodes -> Seq(ReceivedRecords)]
  BY <1>1, <1>2, ReceivedIsTyped, NoFrameIsFrame DEF LoseKept
<1>3. ASSUME LosePending(n)
      PROVE  sent' \in [Nodes -> Seq(SentRecords)]
  BY <1>1, <1>3, SentIsTyped DEF LosePending
<1> QED BY <1>2, <1>3

LEMMA AskedIsTyped ==
  ASSUME TypeOK, NEW n \in Nodes, AskToSend(n)
  PROVE  /\ txreq' \in [Nodes -> BOOLEAN]
         /\ requested' \in [Nodes -> Seq(FrameRecords)]
BY DEF AskToSend, TypeOK

(* A frame that is loaded in part is still one: with the identifier of the *)
(* new one, and the data and the length of either.                         *)
LEMMA PartsAreFrames ==
  ASSUME NEW old \in FrameRecords, NEW new \in FrameRecords,
         NEW f \in PartlyLoaded(old, new)
  PROVE  /\ f \in FrameRecords
         /\ f.extended = new.extended
         /\ Len(f.data) \in {Len(old.data), Len(new.data)}
<1> DEFINE WithData(data) == [new EXCEPT !.data = data]
           Mixed(k, stray) == [i \in 1..Len(new.data) |->
                                 IF i <= k THEN new.data[i]
                                 ELSE IF i <= Len(old.data) THEN old.data[i]
                                 ELSE stray]
<1>1. /\ old.data \in Seq(Bytes) /\ new.data \in Seq(Bytes)
      /\ Len(old.data) \in Nat /\ Len(new.data) \in Nat
  BY RecordIsFrame, LenProperties
<1>2. ASSUME NEW data \in Seq(Bytes)
      PROVE  /\ WithData(data) \in FrameRecords
             /\ WithData(data).extended = new.extended
             /\ WithData(data).data = data
  <2>1. /\ new.id \in ExtendedIds /\ new.extended \in BOOLEAN
        /\ new.id \in StandardIds \/ new.extended = TRUE
        /\ new = [id |-> new.id, extended |-> new.extended, data |-> new.data]
    BY RecordIsFrame
  <2>2. WithData(data)
          = [id |-> new.id, extended |-> new.extended, data |-> data]
    BY <2>1
  <2>3. WithData(data) \in FrameRecords
    <3>1. [id |-> new.id, extended |-> new.extended, data |-> data]
            \in FrameRecords
      BY <2>1, FrameIsRecord
    <3> QED BY <2>2, <3>1
  <2> QED BY <2>2, <2>3
<1>3. ASSUME NEW k \in Nat, NEW stray \in StrayBytes
      PROVE  /\ Mixed(k, stray) \in Seq(Bytes)
             /\ Len(Mixed(k, stray)) = Len(new.data)
  <2>1. /\ \A i \in 1..Len(new.data) : new.data[i] \in Bytes
        /\ \A i \in 1..Len(old.data) : old.data[i] \in Bytes
        /\ stray \in Bytes
    BY <1>1, ElementOfSeq, FrameAssumption
  <2>2. Mixed(k, stray) \in [1..Len(new.data) -> Bytes]
    BY <1>1, <2>1
  <2>3. Mixed(k, stray) \in Seq(Bytes)
    BY <1>1, <2>2, SeqDef
  <2>4. Len(Mixed(k, stray)) = Len(new.data)
    BY <1>1, <2>2, <2>3, LenProperties
  <2> QED BY <2>3, <2>4
<1>4. \/ f = WithData(old.data)
      \/ \E k \in 0..Len(new.data), stray \in StrayBytes :
           f = WithData(Mixed(k, stray))
  BY DEF PartlyLoaded
<1> HIDE DEF WithData, Mixed
<1>5. \E data \in Seq(Bytes) :
        /\ f = WithData(data)
        /\ Len(data) \in {Len(old.data), Len(new.data)}
  <2>1. CASE f = WithData(old.data)
    BY <1>1, <2>1
  <2>2. CASE \E k \in 0..Len(new.data), stray \in StrayBytes :
               f = WithData(Mixed(k, stray))
    <3>1. PICK k \in 0..Len(new.data), stray \in StrayBytes :
            f = WithData(Mixed(k, stray))
      BY <2>2
    <3>2. k \in Nat
      BY <1>1
    <3> QED BY <1>3, <3>1, <3>2
  <2> QED BY <1>4, <2>1, <2>2
<1> QED BY <1>2, <1>5

(* What the controllers have kept is let go in order. *)
Kept == \A n \in Nodes : KeptInOrder(n)

(* What clearing the flag hands to the program is a frame. *)
LEMMA DeliveredIsFrame ==
  ASSUME TypeOK, Places, Kept, NEW n \in Nodes,
         pc[n] = "clear", NEW stray \in StrayBytes
  PROVE  /\ got[n] \in 1..Len(bus) /\ bus[got[n]] \in FrameRecords
         /\ FrameOf(RegistersOf(bus[got[n]]), stray) \in FrameRecords
<1>1. got[n] \in 1..Len(bus)
  BY DEF Places, Kept, KeptInOrder
<1>2. bus[got[n]] \in FrameRecords
  BY <1>1, ElementOfSeq DEF TypeOK
<1>3. stray \in Bytes
  BY FrameAssumption
<1> QED BY <1>1, <1>2, <1>3, FrameArrives

(* A step of the driver with any frame whatever, not only those of Frames: *)
(* a program may make its own.                                             *)
AnyNext ==
  \E n \in Nodes :
    \/ ProgramStep(n)
    \/ \E f \in FrameRecords : Transmit(n, f)
    \/ Choice(n)
    \/ SendOnBus(n)
    \/ SpiFails(n)

LEMMA NextIsAny == Next => AnyNext
BY DEF Next, AnyNext

(* Every step keeps the types. *)
LEMMA TypeStep ==
  ASSUME TypeOK, Places, Kept, [AnyNext]_vars
  PROVE  TypeOK'
<1> USE DEF TypeOK, Steps, Goto, driverVars, controllerVars, historyVars,
            countVars
<1>1. ASSUME NEW n \in Nodes, Reset(n) PROVE TypeOK'
  <2>1. sent' \in [Nodes -> Seq(SentRecords)]
    BY <1>1, LostIsTyped DEF Reset
  <2>2. received' \in [Nodes -> Seq(ReceivedRecords)]
    BY <1>1, LostIsTyped DEF Reset
  <2>3. /\ pc' \in [Nodes -> Steps] /\ mode' \in [Nodes -> {"config", "normal"}]
        /\ txreq' \in [Nodes -> BOOLEAN] /\ rx0if' \in [Nodes -> BOOLEAN]
        /\ txCallback' \in [Nodes -> BOOLEAN]
        /\ rxCallback' \in [Nodes -> BOOLEAN]
    BY <1>1 DEF Reset
  <2> QED BY <1>1, <2>1, <2>2, <2>3 DEF Reset
<1>2. ASSUME NEW n \in Nodes, SetNormalMode(n) PROVE TypeOK'
  BY <1>2 DEF SetNormalMode
<1>3. ASSUME NEW n \in Nodes, SpiFails(n) PROVE TypeOK'
  <2>1. failures' \in [Nodes -> Nat]
    BY <1>3 DEF SpiFails
  <2>2. pc' \in [Nodes -> Steps] /\ inCallback' \in [Nodes -> BOOLEAN]
    BY <1>3 DEF SpiFails
  <2>3. UNCHANGED <<frame, got, txCallback, rxCallback, transmits>>
    BY <1>3 DEF SpiFails
  <2>4. CASE UNCHANGED <<controllerVars, historyVars>>
    BY <2>1, <2>2, <2>3, <2>4
  <2>5. CASE /\ pc[n] = "setup"
             /\ mode' = [mode EXCEPT ![n] = "normal"]
             /\ UNCHANGED <<txbuf, txreq, rxbuf, rx0if, historyVars>>
    BY <2>1, <2>2, <2>3, <2>5
  <2>6. CASE /\ \E f \in PartlyLoaded(txbuf[n], frame[n]) :
                  txbuf' = [txbuf EXCEPT ![n] = f]
             /\ overrun' = [overrun EXCEPT ![n] = TRUE]
             /\ torn' = [torn EXCEPT ![n] = TRUE]
             /\ UNCHANGED <<mode, txreq, rxbuf, rx0if, bus, requested, sent,
                            stored, received>>
    <3>1. txbuf' \in [Nodes -> FrameRecords]
      BY <2>6, PartsAreFrames
    <3>2. overrun' \in [Nodes -> BOOLEAN] /\ torn' \in [Nodes -> BOOLEAN]
      BY <2>6
    <3> QED BY <2>1, <2>2, <2>3, <2>6, <3>1, <3>2
  <2>7. CASE AskToSend(n)
    <3>1. UNCHANGED <<mode, txbuf, rxbuf, rx0if, bus, sent, overrun, torn,
                      stored, received>>
      BY <2>7 DEF AskToSend
    <3> QED BY <2>1, <2>2, <2>3, <2>7, <3>1, AskedIsTyped
  <2>8. CASE /\ rx0if' = [rx0if EXCEPT ![n] = FALSE]
             /\ LoseKept(n)
             /\ UNCHANGED <<mode, txbuf, txreq, rxbuf, bus, requested, sent,
                            overrun, torn, stored>>
    <3>1. rx0if' \in [Nodes -> BOOLEAN]
      BY <2>8
    <3> QED BY <2>1, <2>2, <2>3, <2>8, <3>1, LostIsTyped
  <2> QED BY <1>3, <2>4, <2>5, <2>6, <2>7, <2>8 DEF SpiFails, TakenAnyway
<1>4. ASSUME NEW n \in Nodes, NEW f \in FrameRecords, Transmit(n, f)
      PROVE  TypeOK'
  <2>1. transmits' \in Nat
    BY <1>4 DEF Transmit
  <2>2. pc' \in [Nodes -> Steps] /\ frame' \in [Nodes -> FrameRecords]
    BY <1>4 DEF Transmit
  <2> QED BY <1>4, <2>1, <2>2 DEF Transmit
<1>5. ASSUME NEW n \in Nodes, Load(n) PROVE TypeOK'
  BY <1>5 DEF Load
<1>6. ASSUME NEW n \in Nodes, RequestToSend(n) PROVE TypeOK'
  <2>1. pc' \in [Nodes -> Steps]
    BY <1>6 DEF RequestToSend
  <2>2. AskToSend(n)
    BY <1>6 DEF RequestToSend
  <2>3. UNCHANGED <<frame, got, txCallback, rxCallback, inCallback, countVars,
                    mode, txbuf, rxbuf, rx0if, bus, sent, overrun, torn,
                    stored, received>>
    BY <1>6 DEF RequestToSend, AskToSend
  <2> QED BY <2>1, <2>2, <2>3, AskedIsTyped
<1>7. ASSUME NEW n \in Nodes, Receive(n) PROVE TypeOK'
  BY <1>7 DEF Receive
<1>8. ASSUME NEW n \in Nodes, ReadStatus(n) PROVE TypeOK'
  BY <1>8 DEF ReadStatus
<1>9. ASSUME NEW n \in Nodes, ReadBuffer(n) PROVE TypeOK'
  BY <1>9 DEF ReadBuffer
<1>10. ASSUME NEW n \in Nodes, ClearFlag(n) PROVE TypeOK'
  <2>1. PICK stray \in StrayBytes :
          received' = [received EXCEPT ![n] =
            Append(@, [place |-> got[n],
                       frame |-> FrameOf(RegistersOf(bus[got[n]]), stray),
                       lost  |-> FALSE])]
    BY <1>10 DEF ClearFlag
  <2>2. FrameOf(RegistersOf(bus[got[n]]), stray) \in FrameRecords
    BY <1>10, DeliveredIsFrame DEF ClearFlag
  <2>3. received' \in [Nodes -> Seq(ReceivedRecords)]
    BY <2>1, <2>2, ReceivedIsTyped
  <2>4. pc' \in [Nodes -> Steps] /\ rx0if' \in [Nodes -> BOOLEAN]
    BY <1>10 DEF ClearFlag
  <2> QED BY <1>10, <2>3, <2>4 DEF ClearFlag
<1>11. ASSUME NEW n \in Nodes, OnTransmitComplete(n) PROVE TypeOK'
  BY <1>11 DEF OnTransmitComplete
<1>12. ASSUME NEW n \in Nodes, OnReceive(n) PROVE TypeOK'
  BY <1>12 DEF OnReceive
<1>13. ASSUME NEW n \in Nodes, Poll(n) PROVE TypeOK'
  BY <1>13 DEF Poll
<1>14. ASSUME NEW n \in Nodes, PollControl(n) PROVE TypeOK'
  BY <1>14 DEF PollControl
<1>15. ASSUME NEW n \in Nodes, EndCallback(n) PROVE TypeOK'
  BY <1>15 DEF EndCallback
<1>16. ASSUME NEW n \in Nodes, PollStatus(n) PROVE TypeOK'
  BY <1>16 DEF PollStatus
<1>17. ASSUME NEW n \in Nodes, SendOnBus(n) PROVE TypeOK'
  <2>1. Len(bus) + 1 \in Nat
    OBVIOUS
  <2>2. bus' \in Seq(FrameRecords)
    BY <1>17 DEF SendOnBus
  <2>6. sent' \in [Nodes -> Seq(SentRecords)]
    BY <1>17, SentIsTyped DEF SendOnBus
  <2>3. rxbuf' \in [Nodes -> Nat]
    BY <1>17, <2>1 DEF SendOnBus
  <2>4. txreq' \in [Nodes -> BOOLEAN] /\ rx0if' \in [Nodes -> BOOLEAN]
    BY <1>17 DEF SendOnBus
  <2>5. stored' \in [Nodes -> Seq(Nat)]
    BY <1>17, <2>1 DEF SendOnBus
  <2> QED BY <1>17, <2>2, <2>3, <2>4, <2>5, <2>6 DEF SendOnBus
<1>18. CASE UNCHANGED vars
  BY <1>18 DEF vars
<1>19. Frames \subseteq FrameRecords
  BY FrameAssumption
<1> QED
  BY <1>1, <1>2, <1>3, <1>4, <1>5, <1>6, <1>7, <1>8, <1>9, <1>10, <1>11,
     <1>12, <1>13, <1>14, <1>15, <1>16, <1>17, <1>18, <1>19
  DEF AnyNext, ProgramStep, Choice

-----------------------------------------------------------------------------
(* Receiving.                                                              *)

Received == Kept /\ Places /\ ArrivesIntact

(* Steps that have nothing to do with receive() keep what holds of it.     *)
LEMMA ReceivedQuietly ==
  ASSUME Received,
         UNCHANGED <<got, rxbuf, rx0if, bus, stored, received>>,
         \A m \in Nodes : pc'[m] \in {"read", "clear"} => pc'[m] = pc[m]
  PROVE  Received'
<1>1. Kept'
  BY DEF Received, Kept, KeptInOrder
<1>2. Places'
  BY DEF Received, Places
<1>3. ArrivesIntact'
  BY DEF Received, ArrivesIntact
<1> QED BY <1>1, <1>2, <1>3 DEF Received

(* A node lets go of the frame it has kept: delivered, as it was on the    *)
(* bus, or lost.                                                           *)
LEMMA ReceivedLetGo ==
  ASSUME TypeOK, Received, NEW n \in Nodes, rx0if[n],
         NEW f \in FrameRecords, NEW b \in BOOLEAN,
         received' = [received EXCEPT ![n] =
           Append(@, [place |-> rxbuf[n], frame |-> f, lost |-> b])],
         \/ b
         \/ ~bus[rxbuf[n]].extended => SameButEighth(f, bus[rxbuf[n]]),
         rx0if' = [rx0if EXCEPT ![n] = FALSE],
         pc'[n] \notin {"read", "clear"},
         \A m \in Nodes \ {n} : pc'[m] = pc[m],
         UNCHANGED <<got, rxbuf, bus, stored>>
  PROVE  Received'
<1> DEFINE entry == [place |-> rxbuf[n], frame |-> f, lost |-> b]
<1>1. entry.place = rxbuf[n] /\ entry.frame = f /\ entry.lost = b
  OBVIOUS
<1>2. entry \in ReceivedRecords
  BY DEF TypeOK, ReceivedRecords
<1> HIDE DEF entry
<1>3. rxbuf[n] \in 1..Len(bus)
  BY DEF Received, Places
<1>4. /\ received'[n] = Append(received[n], entry)
      /\ \A m \in Nodes : m # n => received'[m] = received[m]
      /\ ~rx0if'[n] /\ \A m \in Nodes : m # n => rx0if'[m] = rx0if[m]
  BY DEF TypeOK, entry
<1>5. received[n] \in Seq(ReceivedRecords)
  BY DEF TypeOK
<1>6. /\ Len(received[n]) \in Nat
      /\ Len(received'[n]) = Len(received[n]) + 1
      /\ \A i \in 1..Len(received[n]) : received'[n][i] = received[n][i]
      /\ received'[n][Len(received[n]) + 1] = entry
  BY <1>2, <1>4, <1>5, AppendProperties, LenProperties
<1>7. \A i \in 1..Len(received'[n]) :
        \/ i \in 1..Len(received[n]) /\ received'[n][i] = received[n][i]
        \/ i = Len(received[n]) + 1 /\ received'[n][i] = entry
  BY <1>6
<1>8. \A m \in Nodes : KeptInOrder(m)
  BY DEF Received, Kept
<1>9. ASSUME NEW m \in Nodes PROVE KeptInOrder(m)'
  <2>1. CASE m = n
    <3>1. Len(stored[n]) = Len(received[n]) + 1
      BY <1>8 DEF KeptInOrder
    <3>2. rxbuf[n] = stored[n][Len(received[n]) + 1]
      BY <1>8, <3>1 DEF KeptInOrder
    <3>3. ASSUME NEW i \in 1..Len(received'[n])
          PROVE  received'[n][i].place = stored[n][i]
      <4>1. \A k \in 1..Len(received[n]) : received[n][k].place = stored[n][k]
        BY <1>8 DEF KeptInOrder
      <4>2. CASE i \in 1..Len(received[n]) /\ received'[n][i] = received[n][i]
        BY <4>1, <4>2
      <4>3. CASE i = Len(received[n]) + 1 /\ received'[n][i] = entry
        BY <1>1, <3>2, <4>3
      <4> QED BY <1>7, <4>2, <4>3
    <3> QED BY <1>4, <1>6, <2>1, <3>1, <3>3 DEF KeptInOrder
  <2>2. CASE m # n
    <3>1. /\ pc'[m] = pc[m] /\ rx0if'[m] = rx0if[m]
          /\ received'[m] = received[m]
          /\ got' = got /\ rxbuf' = rxbuf /\ stored' = stored
      BY <1>4, <2>2
    <3>2. KeptInOrder(m)
      BY <1>8
    <3> QED BY <3>1, <3>2 DEF KeptInOrder
  <2> QED BY <2>1, <2>2
<1>10. Places'
  <2> SUFFICES ASSUME NEW m \in Nodes
               PROVE  /\ rx0if'[m] => rxbuf'[m] \in 1..Len(bus)
                      /\ \A i \in 1..Len(received'[m]) :
                           received'[m][i].place \in 1..Len(bus)
    BY DEF Places
  <2>1. /\ rx0if[m] => rxbuf[m] \in 1..Len(bus)
        /\ \A i \in 1..Len(received[m]) :
             received[m][i].place \in 1..Len(bus)
    BY DEF Received, Places
  <2>2. CASE m = n
    <3>1. \A i \in 1..Len(received'[n]) :
            received'[n][i].place \in 1..Len(bus)
      BY <1>1, <1>3, <1>7, <2>1, <2>2
    <3> QED BY <1>4, <2>2, <3>1
  <2>3. CASE m # n
    BY <1>4, <2>1, <2>3
  <2> QED BY <2>2, <2>3
<1>11. ArrivesIntact'
  <2> SUFFICES ASSUME NEW m \in Nodes, NEW i \in 1..Len(received'[m]),
                      ~received'[m][i].lost,
                      ~bus[received'[m][i].place].extended
               PROVE  SameButEighth(received'[m][i].frame,
                                    bus[received'[m][i].place])
    <3>1. bus' = bus
      OBVIOUS
    <3> QED BY <3>1 DEF ArrivesIntact
  <2>1. CASE m = n
    BY <1>1, <1>7, <2>1 DEF Received, ArrivesIntact
  <2>2. CASE m # n
    <3>1. received'[m] = received[m]
      BY <1>4, <2>2
    <3> QED BY <3>1 DEF Received, ArrivesIntact
  <2> QED BY <2>1, <2>2
<1> QED BY <1>9, <1>10, <1>11 DEF Received, Kept

(* A restart loses the frame that is kept. *)
LEMMA ReceivedReset ==
  ASSUME TypeOK, Received, NEW n \in Nodes, Reset(n)
  PROVE  Received'
<1>1. /\ pc' = [pc EXCEPT ![n] = "setup"]
      /\ rx0if' = [rx0if EXCEPT ![n] = FALSE]
      /\ UNCHANGED <<got, rxbuf, bus, stored>>
  BY DEF Reset, Goto
<1>2. pc'[n] = "setup" /\ \A m \in Nodes \ {n} : pc'[m] = pc[m]
  BY <1>1 DEF TypeOK
<1>3. CASE rx0if[n]
  <2>1. received' = [received EXCEPT ![n] =
          Append(@, [place |-> rxbuf[n], frame |-> NoFrame, lost |-> TRUE])]
    BY <1>3 DEF Reset, LoseKept
  <2> QED BY <1>1, <1>2, <1>3, <2>1, NoFrameIsFrame, ReceivedLetGo
<1>4. CASE ~rx0if[n]
  <2>1. received' = received /\ rx0if' = rx0if
    BY <1>1, <1>4 DEF Reset, TypeOK
  <2>2. \A m \in Nodes : pc'[m] \in {"read", "clear"} => pc'[m] = pc[m]
    BY <1>2
  <2> QED BY <1>1, <2>1, <2>2, ReceivedQuietly
<1> QED BY <1>3, <1>4

(* A failed transaction may have cleared the flag of a frame that is then  *)
(* not delivered.                                                          *)
LEMMA ReceivedSpiFails ==
  ASSUME TypeOK, Received, NEW n \in Nodes, SpiFails(n)
  PROVE  Received'
<1>1. /\ pc' = [pc EXCEPT ![n] = "off"]
      /\ got' = got
      /\ TakenAnyway(n) \/ UNCHANGED <<controllerVars, historyVars>>
  BY DEF SpiFails, Goto
<1>2. pc'[n] = "off" /\ \A m \in Nodes \ {n} : pc'[m] = pc[m]
  BY <1>1 DEF TypeOK
<1>3. CASE UNCHANGED <<rxbuf, rx0if, bus, stored, received>>
  <2>1. \A m \in Nodes : pc'[m] \in {"read", "clear"} => pc'[m] = pc[m]
    BY <1>2
  <2> QED BY <1>1, <1>3, <2>1, ReceivedQuietly
<1>4. CASE /\ pc[n] = "clear"
           /\ rx0if' = [rx0if EXCEPT ![n] = FALSE]
           /\ LoseKept(n)
           /\ UNCHANGED <<mode, txbuf, txreq, rxbuf, bus, requested, sent,
                          overrun, torn, stored>>
  <2>1. rx0if[n]
    BY <1>4 DEF Received, Kept, KeptInOrder
  <2> QED BY <1>1, <1>2, <1>4, <2>1, NoFrameIsFrame, ReceivedLetGo DEF LoseKept
<1> QED
  BY <1>1, <1>3, <1>4 DEF TakenAnyway, AskToSend, controllerVars, historyVars

(* The flag is cleared, and what was read is delivered. *)
LEMMA ReceivedClearFlag ==
  ASSUME TypeOK, Received, NEW n \in Nodes, ClearFlag(n)
  PROVE  Received'
<1>1. PICK stray \in StrayBytes :
        received' = [received EXCEPT ![n] =
          Append(@, [place |-> got[n],
                     frame |-> FrameOf(RegistersOf(bus[got[n]]), stray),
                     lost  |-> FALSE])]
  BY DEF ClearFlag
<1> DEFINE result == FrameOf(RegistersOf(bus[got[n]]), stray)
<1>2. pc[n] = "clear" /\ rx0if[n] /\ got[n] = rxbuf[n]
  BY DEF ClearFlag, Received, Kept, KeptInOrder
<1>3. bus[got[n]] \in FrameRecords /\ result \in FrameRecords
  BY <1>2, DeliveredIsFrame DEF Received
<1>4. ~bus[got[n]].extended => SameButEighth(result, bus[got[n]])
  <2>1. stray \in Bytes
    BY FrameAssumption
  <2> QED BY <1>3, <2>1, FrameArrives
<1> HIDE DEF result
<1>5. /\ pc' = [pc EXCEPT ![n] = "idle"]
      /\ rx0if' = [rx0if EXCEPT ![n] = FALSE]
      /\ UNCHANGED <<got, rxbuf, bus, stored>>
  BY DEF ClearFlag, Goto
<1>6. pc'[n] = "idle" /\ \A m \in Nodes \ {n} : pc'[m] = pc[m]
  BY <1>5 DEF TypeOK
<1>7. received' = [received EXCEPT ![n] =
        Append(@, [place |-> rxbuf[n], frame |-> result, lost |-> FALSE])]
  BY <1>1, <1>2 DEF result
<1> QED BY <1>2, <1>3, <1>4, <1>5, <1>6, <1>7, ReceivedLetGo

(* Every other controller may keep a frame that is sent. *)
LEMMA ReceivedSendOnBus ==
  ASSUME TypeOK, Received, NEW n \in Nodes, SendOnBus(n)
  PROVE  Received'
<1> DEFINE keeps(m) == m # n /\ mode[m] = "normal" /\ ~rx0if[m]
           place == Len(bus) + 1
<1>1. /\ bus' = Append(bus, txbuf[n])
      /\ rxbuf' = [m \in Nodes |-> IF keeps(m) THEN place ELSE rxbuf[m]]
      /\ rx0if' = [m \in Nodes |-> keeps(m) \/ rx0if[m]]
      /\ stored' = [m \in Nodes |->
                      IF keeps(m) THEN Append(stored[m], place) ELSE stored[m]]
      /\ UNCHANGED <<pc, got, received>>
  BY DEF SendOnBus, driverVars
<1>2. bus \in Seq(FrameRecords) /\ txbuf[n] \in FrameRecords
  BY DEF TypeOK
<1>3. /\ Len(bus) \in Nat /\ Len(bus') = Len(bus) + 1
      /\ \A i \in 1..Len(bus) : bus'[i] = bus[i]
  BY <1>1, <1>2, AppendProperties, LenProperties
<1>4. ASSUME NEW m \in Nodes PROVE KeptInOrder(m)'
  <2>0. KeptInOrder(m)
    BY DEF Received, Kept
  <2>1. CASE keeps(m)
    <3>1. /\ rx0if'[m] /\ rxbuf'[m] = place
          /\ stored'[m] = Append(stored[m], place)
      BY <1>1, <2>1
    <3>2. stored[m] \in Seq(Nat) /\ place \in Nat
      BY <1>3 DEF TypeOK
    <3>3. /\ Len(stored[m]) \in Nat
          /\ Len(stored'[m]) = Len(stored[m]) + 1
          /\ \A i \in 1..Len(stored[m]) : stored'[m][i] = stored[m][i]
          /\ stored'[m][Len(stored'[m])] = place
      BY <3>1, <3>2, AppendProperties, LenProperties
    <3>4. Len(stored[m]) = Len(received[m])
      BY <2>0, <2>1, <3>3 DEF KeptInOrder, TypeOK
    <3>5. pc[m] \notin {"read", "clear"}
      BY <2>0, <2>1 DEF KeptInOrder
    <3>6. \A i \in 1..Len(received[m]) : received[m][i].place = stored[m][i]
      BY <2>0 DEF KeptInOrder
    <3>7. /\ Len(stored'[m]) = Len(received'[m]) + 1
          /\ \A i \in 1..Len(received'[m]) :
               received'[m][i].place = stored'[m][i]
      BY <1>1, <3>3, <3>4, <3>6
    <3> QED BY <1>1, <3>1, <3>3, <3>5, <3>7 DEF KeptInOrder
  <2>2. CASE ~keeps(m)
    <3>1. /\ rx0if'[m] = rx0if[m] /\ rxbuf'[m] = rxbuf[m]
          /\ stored'[m] = stored[m]
      BY <1>1, <2>2 DEF TypeOK
    <3> QED BY <1>1, <2>0, <3>1 DEF KeptInOrder
  <2> QED BY <2>1, <2>2
<1>5. Places'
  <2> SUFFICES ASSUME NEW m \in Nodes
               PROVE  /\ rx0if'[m] => rxbuf'[m] \in 1..Len(bus')
                      /\ \A i \in 1..Len(received'[m]) :
                           received'[m][i].place \in 1..Len(bus')
    BY DEF Places
  <2>1. /\ keeps(m) => rxbuf'[m] = Len(bus) + 1
        /\ ~keeps(m) => rxbuf'[m] = rxbuf[m] /\ rx0if'[m] = rx0if[m]
    BY <1>1 DEF TypeOK
  <2>2. rx0if[m] => rxbuf[m] \in 1..Len(bus)
    BY DEF Received, Places
  <2>3. \A i \in 1..Len(received[m]) :
          received[m][i].place \in 1..Len(bus)
    BY DEF Received, Places
  <2> HIDE DEF keeps
  <2> QED BY <1>1, <1>3, <2>1, <2>2, <2>3
<1>6. ArrivesIntact'
  BY <1>1, <1>3 DEF Received, Places, ArrivesIntact
<1> QED BY <1>4, <1>5, <1>6 DEF Received, Kept

-----------------------------------------------------------------------------
(* Sending.                                                                *)

(* Between its two transactions transmit() finds the buffer as it has      *)
(* loaded it, unless it was called too early.                              *)
Loaded ==
  \A n \in Nodes :
    pc[n] = "rts" /\ ~overrun[n] => ~txreq[n] /\ txbuf[n] = frame[n]

Sent == (\A n \in Nodes : SentInOrder(n)) /\ Loaded

(* Steps that have nothing to do with transmit() keep what holds of it.    *)
LEMMA SentQuietly ==
  ASSUME Sent, UNCHANGED <<frame, txbuf, txreq, sent, requested, overrun>>,
         \A m \in Nodes : pc'[m] = "rts" => pc'[m] = pc[m]
  PROVE  Sent'
BY DEF Sent, SentInOrder, Loaded

(* What was pending is sent, or lost. *)
LEMMA SentLetGo ==
  ASSUME TypeOK, Sent, NEW n \in Nodes, txreq[n], NEW b \in BOOLEAN,
         sent' = [sent EXCEPT ![n] =
           Append(@, [frame |-> txbuf[n], lost |-> b])],
         txreq' = [txreq EXCEPT ![n] = FALSE],
         \A m \in Nodes : pc'[m] = "rts" => pc'[m] = pc[m],
         UNCHANGED <<frame, txbuf, requested, overrun>>
  PROVE  Sent'
<1> DEFINE entry == [frame |-> txbuf[n], lost |-> b]
<1>1. entry.frame = txbuf[n] /\ entry \in SentRecords
  BY DEF TypeOK, SentRecords
<1> HIDE DEF entry
<1>2. /\ sent'[n] = Append(sent[n], entry) /\ ~txreq'[n]
      /\ \A m \in Nodes : m # n =>
           sent'[m] = sent[m] /\ txreq'[m] = txreq[m]
      /\ \A m \in Nodes : txreq'[m] => txreq[m]
  BY DEF TypeOK, entry
<1>3. sent[n] \in Seq(SentRecords)
  BY DEF TypeOK
<1>4. /\ Len(sent[n]) \in Nat /\ Len(sent'[n]) = Len(sent[n]) + 1
      /\ \A i \in 1..Len(sent[n]) : sent'[n][i] = sent[n][i]
      /\ sent'[n][Len(sent[n]) + 1] = entry
  BY <1>1, <1>2, <1>3, AppendProperties, LenProperties
<1>5. ASSUME NEW m \in Nodes, ~overrun[m] PROVE SentInOrder(m)'
  <2>1. CASE m = n
    <3>1. /\ Len(requested[n]) = Len(sent[n]) + 1
          /\ \A i \in 1..Len(sent[n]) : requested[n][i] = sent[n][i].frame
          /\ txbuf[n] = requested[n][Len(sent[n]) + 1]
      BY <1>5, <2>1 DEF Sent, SentInOrder
    <3>2. ASSUME NEW i \in 1..Len(sent'[n])
          PROVE  requested[n][i] = sent'[n][i].frame
      <4>1. i \in 1..Len(sent[n]) \/ i = Len(sent[n]) + 1
        BY <1>4
      <4> QED BY <1>1, <1>4, <3>1, <4>1
    <3> QED BY <1>2, <1>4, <2>1, <3>1, <3>2 DEF SentInOrder
  <2>2. CASE m # n
    <3>1. /\ sent'[m] = sent[m] /\ txreq'[m] = txreq[m]
          /\ txbuf' = txbuf /\ requested' = requested /\ overrun' = overrun
      BY <1>2, <2>2
    <3>2. SentInOrder(m)
      BY DEF Sent
    <3> QED BY <3>1, <3>2 DEF SentInOrder
  <2> QED BY <2>1, <2>2
<1>6. \A m \in Nodes : SentInOrder(m)'
  BY <1>5 DEF SentInOrder
<1>7. Loaded'
  BY <1>2 DEF Sent, Loaded
<1> QED BY <1>6, <1>7 DEF Sent

(* A restart loses the frame that is pending. *)
LEMMA SentReset ==
  ASSUME TypeOK, Sent, NEW n \in Nodes, Reset(n)
  PROVE  Sent'
<1>1. /\ txreq' = [txreq EXCEPT ![n] = FALSE]
      /\ UNCHANGED <<frame, txbuf, requested, overrun>>
  BY DEF Reset
<1>2. \A m \in Nodes : pc'[m] = "rts" => pc'[m] = pc[m]
  BY DEF Reset, Goto, TypeOK
<1>3. CASE txreq[n]
  BY <1>1, <1>2, <1>3, SentLetGo DEF Reset, LosePending
<1>4. CASE ~txreq[n]
  <2>1. sent' = sent /\ txreq' = txreq
    BY <1>1, <1>4 DEF Reset, TypeOK
  <2> QED BY <1>1, <1>2, <2>1, SentQuietly
<1> QED BY <1>3, <1>4

LEMMA SentTransmit ==
  ASSUME TypeOK, Sent, NEW n \in Nodes, NEW f, Transmit(n, f)
  PROVE  Sent'
<1>1. \A m \in Nodes : SentInOrder(m)'
  BY DEF Transmit, controllerVars, historyVars, Sent, SentInOrder
<1>2. Loaded'
  BY DEF Transmit, Goto, controllerVars, historyVars, TypeOK, Sent, Loaded
<1> QED BY <1>1, <1>2 DEF Sent

(* Nothing is promised of a buffer that is written over. *)
LEMMA SentWrites ==
  ASSUME TypeOK, Sent, NEW n \in Nodes,
         \A m \in Nodes : m # n =>
           /\ overrun'[m] = overrun[m] /\ txbuf'[m] = txbuf[m]
           /\ pc'[m] = pc[m],
         overrun[n] \/ txreq[n] => overrun'[n],
         ~txreq[n] => txbuf'[n] = frame[n],
         UNCHANGED <<frame, txreq, sent, requested>>
  PROVE  Sent'
<1>1. \A m \in Nodes : SentInOrder(m)'
  BY DEF Sent, SentInOrder
<1>2. Loaded'
  BY DEF Sent, Loaded
<1> QED BY <1>1, <1>2 DEF Sent

(* A load while the last frame is pending counts as an overrun. *)
LEMMA SentLoad ==
  ASSUME TypeOK, Sent, NEW n \in Nodes, Load(n)
  PROVE  Sent'
<1>1. /\ overrun' = [overrun EXCEPT ![n] = overrun[n] \/ txreq[n]]
      /\ pc' = [pc EXCEPT ![n] = "rts"]
      /\ \/ txbuf' = [txbuf EXCEPT ![n] = frame[n]]
         \/ txreq[n] /\ txbuf' = txbuf
      /\ UNCHANGED <<frame, txreq, sent, requested>>
  BY DEF Load, Goto
<1>2. \A m \in Nodes : m # n =>
        /\ overrun'[m] = overrun[m] /\ txbuf'[m] = txbuf[m] /\ pc'[m] = pc[m]
  BY <1>1 DEF TypeOK
<1>3. /\ overrun'[n] = (overrun[n] \/ txreq[n])
      /\ ~txreq[n] => txbuf'[n] = frame[n]
  BY <1>1 DEF TypeOK
<1> QED BY <1>1, <1>2, <1>3, SentWrites

(* The frame that is sent for is the one in the buffer. *)
LEMMA SentAsks ==
  ASSUME TypeOK, Sent, NEW n \in Nodes, pc[n] = "rts", AskToSend(n),
         pc'[n] # "rts", \A m \in Nodes \ {n} : pc'[m] = pc[m],
         frame' = frame
  PROVE  Sent'
<1>1. /\ txreq'[n] /\ requested'[n] = Append(requested[n], frame[n])
      /\ UNCHANGED <<txbuf, sent, overrun>>
      /\ \A m \in Nodes : m # n =>
           txreq'[m] = txreq[m] /\ requested'[m] = requested[m]
  BY DEF AskToSend, TypeOK
<1>2. ASSUME NEW m \in Nodes, ~overrun[m] PROVE SentInOrder(m)'
  <2>1. CASE m = n
    <3>1. ~txreq[n] /\ txbuf[n] = frame[n]
      BY <1>2, <2>1 DEF Sent, Loaded
    <3>2. /\ Len(requested[n]) = Len(sent[n])
          /\ \A i \in 1..Len(sent[n]) : requested[n][i] = sent[n][i].frame
      BY <1>2, <2>1, <3>1 DEF Sent, SentInOrder, TypeOK
    <3>3. requested[n] \in Seq(FrameRecords) /\ frame[n] \in FrameRecords
      BY DEF TypeOK
    <3>4. /\ Len(requested'[n]) = Len(requested[n]) + 1
          /\ requested'[n][Len(requested'[n])] = frame[n]
          /\ \A i \in 1..Len(requested[n]) : requested'[n][i] = requested[n][i]
      BY <1>1, <3>3, AppendProperties
    <3> QED BY <1>1, <2>1, <3>1, <3>2, <3>4 DEF SentInOrder
  <2>2. CASE m # n
    <3>1. /\ requested'[m] = requested[m] /\ txreq'[m] = txreq[m]
          /\ txbuf' = txbuf /\ sent' = sent /\ overrun' = overrun
      BY <1>1, <2>2
    <3>2. SentInOrder(m)
      BY DEF Sent
    <3> QED BY <3>1, <3>2 DEF SentInOrder
  <2> QED BY <2>1, <2>2
<1>3. \A m \in Nodes : SentInOrder(m)'
  BY <1>1, <1>2 DEF SentInOrder
<1>4. Loaded'
  BY <1>1 DEF Sent, Loaded
<1> QED BY <1>3, <1>4 DEF Sent

LEMMA SentRequestToSend ==
  ASSUME TypeOK, Sent, NEW n \in Nodes, RequestToSend(n)
  PROVE  Sent'
<1>1. pc[n] = "rts" /\ AskToSend(n) /\ frame' = frame
  BY DEF RequestToSend
<1>2. pc'[n] # "rts" /\ \A m \in Nodes \ {n} : pc'[m] = pc[m]
  BY DEF RequestToSend, Goto, TypeOK
<1> QED BY <1>1, <1>2, SentAsks

(* A transaction that fails may have written over the buffer, or sent for  *)
(* it.                                                                     *)
LEMMA SentSpiFails ==
  ASSUME TypeOK, Sent, NEW n \in Nodes, SpiFails(n)
  PROVE  Sent'
<1>1. /\ pc' = [pc EXCEPT ![n] = "off"]
      /\ frame' = frame
      /\ TakenAnyway(n) \/ UNCHANGED <<controllerVars, historyVars>>
  BY DEF SpiFails, Goto
<1>2. pc'[n] = "off" /\ \A m \in Nodes \ {n} : pc'[m] = pc[m]
  BY <1>1 DEF TypeOK
<1>3. CASE UNCHANGED <<txbuf, txreq, sent, requested, overrun>>
  <2>1. \A m \in Nodes : pc'[m] = "rts" => pc'[m] = pc[m]
    BY <1>2
  <2> QED BY <1>1, <1>3, <2>1, SentQuietly
<1>4. CASE /\ pc[n] = "load" /\ txreq[n]
           /\ \E f \in PartlyLoaded(txbuf[n], frame[n]) :
                txbuf' = [txbuf EXCEPT ![n] = f]
           /\ overrun' = [overrun EXCEPT ![n] = TRUE]
           /\ torn' = [torn EXCEPT ![n] = TRUE]
           /\ UNCHANGED <<mode, txreq, rxbuf, rx0if, bus, requested, sent,
                          stored, received>>
  <2>1. /\ overrun'[n]
        /\ \A m \in Nodes : m # n =>
             overrun'[m] = overrun[m] /\ txbuf'[m] = txbuf[m]
    BY <1>4 DEF TypeOK
  <2> QED BY <1>1, <1>2, <1>4, <2>1, SentWrites
<1>5. CASE pc[n] = "rts" /\ AskToSend(n)
  BY <1>1, <1>2, <1>5, SentAsks
<1> QED
  BY <1>1, <1>3, <1>4, <1>5
  DEF TakenAnyway, LoseKept, controllerVars, historyVars

(* The frame that was pending is on the bus. *)
LEMMA SentSendOnBus ==
  ASSUME TypeOK, Sent, NEW n \in Nodes, SendOnBus(n)
  PROVE  Sent'
BY SentLetGo DEF SendOnBus, driverVars

-----------------------------------------------------------------------------
(* Losses.                                                                 *)

(* A history in which one more frame is lost, or is not. *)
LEMMA LossesOfAppend ==
  ASSUME NEW S, NEW history \in Seq(S), NEW e \in S, e.lost \in BOOLEAN
  PROVE  /\ Losses(history) \in Nat
         /\ Losses(Append(history, e))
              = Losses(history) + IF e.lost THEN 1 ELSE 0
<1> DEFINE k       == Len(history)
           lost    == {i \in 1..k : history[i].lost}
           longer  == Append(history, e)
           lostNow == {i \in 1..(k + 1) : longer[i].lost}
<1>1. /\ k \in Nat /\ longer \in Seq(S) /\ Len(longer) = k + 1
      /\ \A i \in 1..k : longer[i] = history[i]
      /\ longer[k + 1] = e
  BY AppendProperties, LenProperties
<1>2. DOMAIN history = 1..k /\ DOMAIN longer = 1..(k + 1)
  BY <1>1, LenProperties
<1>3. Losses(history) = Cardinality(lost)
      /\ Losses(longer) = Cardinality(lostNow)
  BY <1>2 DEF Losses
<1> HIDE DEF longer
<1>4. IsFiniteSet(lost)
  <2>1. IsFiniteSet(1..k)
    BY <1>1, FS_Interval
  <2>2. lost \in SUBSET (1..k)
    OBVIOUS
  <2> QED BY <2>1, <2>2, FS_Subset
<1>5. Cardinality(lost) \in Nat
  BY <1>4, FS_CardinalityType
<1>6. k + 1 \notin lost
  BY <1>1
<1>7. lostNow = IF e.lost THEN lost \cup {k + 1} ELSE lost
  <2>1. \A i : i \in 1..(k + 1) <=> i \in 1..k \/ i = k + 1
    BY <1>1
  <2>2. \A i \in 1..k : longer[i].lost <=> history[i].lost
    BY <1>1
  <2>3. longer[k + 1].lost <=> e.lost
    BY <1>1
  <2> HIDE DEF k
  <2> QED BY <2>1, <2>2, <2>3
<1>8. CASE e.lost
  <2>1. Cardinality(lostNow) = Cardinality(lost) + 1
    BY <1>4, <1>6, <1>7, <1>8, FS_AddElement
  <2> QED BY <1>3, <1>5, <1>8, <2>1 DEF longer
<1>9. CASE ~e.lost
  <2>1. Cardinality(lostNow) = Cardinality(lost)
    BY <1>7, <1>9
  <2>2. Losses(longer) = Losses(history) /\ Losses(history) \in Nat
    BY <1>3, <1>5, <2>1
  <2> QED BY <1>9, <2>2 DEF longer
<1> QED BY <1>8, <1>9

LEMMA LossesAreNumbers ==
  ASSUME TypeOK, NEW n \in Nodes
  PROVE  Losses(received[n]) \in Nat /\ Losses(sent[n]) \in Nat
<1>1. [place |-> 0, frame |-> NoFrame, lost |-> FALSE] \in ReceivedRecords
      /\ [frame |-> NoFrame, lost |-> FALSE] \in SentRecords
  BY NoFrameIsFrame DEF ReceivedRecords, SentRecords
<1>2. received[n] \in Seq(ReceivedRecords) /\ sent[n] \in Seq(SentRecords)
  BY DEF TypeOK
<1>3. Losses(received[n]) \in Nat
  BY <1>1, <1>2, LossesOfAppend
<1>4. Losses(sent[n]) \in Nat
  BY <1>1, <1>2, LossesOfAppend
<1> QED BY <1>3, <1>4

(* One frame more let go on either side. *)
LEMMA LossesOfReceived ==
  ASSUME TypeOK, NEW n \in Nodes, NEW p \in Nat, NEW f \in FrameRecords,
         NEW b \in BOOLEAN,
         received' = [received EXCEPT ![n] =
           Append(@, [place |-> p, frame |-> f, lost |-> b])]
  PROVE  /\ Losses(received'[n]) = Losses(received[n]) + IF b THEN 1 ELSE 0
         /\ \A m \in Nodes : m # n => received'[m] = received[m]
<1> DEFINE e == [place |-> p, frame |-> f, lost |-> b]
<1>1. e \in ReceivedRecords /\ e.lost = b
  BY DEF ReceivedRecords
<1>2. received[n] \in Seq(ReceivedRecords)
  BY DEF TypeOK
<1>3. /\ received'[n] = Append(received[n], e)
      /\ \A m \in Nodes : m # n => received'[m] = received[m]
  BY DEF TypeOK
<1> HIDE DEF e
<1>4. Losses(Append(received[n], e))
        = Losses(received[n]) + IF e.lost THEN 1 ELSE 0
  BY <1>1, <1>2, LossesOfAppend
<1> QED BY <1>1, <1>3, <1>4

LEMMA LossesOfSent ==
  ASSUME TypeOK, NEW n \in Nodes, NEW f \in FrameRecords, NEW b \in BOOLEAN,
         sent' = [sent EXCEPT ![n] = Append(@, [frame |-> f, lost |-> b])]
  PROVE  /\ Losses(sent'[n]) = Losses(sent[n]) + IF b THEN 1 ELSE 0
         /\ \A m \in Nodes : m # n => sent'[m] = sent[m]
<1> DEFINE e == [frame |-> f, lost |-> b]
<1>1. e \in SentRecords /\ e.lost = b
  BY DEF SentRecords
<1>2. sent[n] \in Seq(SentRecords)
  BY DEF TypeOK
<1>3. /\ sent'[n] = Append(sent[n], e)
      /\ \A m \in Nodes : m # n => sent'[m] = sent[m]
  BY DEF TypeOK
<1> HIDE DEF e
<1>4. Losses(Append(sent[n], e)) = Losses(sent[n]) + IF e.lost THEN 1 ELSE 0
  BY <1>1, <1>2, LossesOfAppend
<1> QED BY <1>1, <1>3, <1>4

(* A program that has failed has yet to lose what the controller holds     *)
(* when it starts again; before its first start there is nothing to lose.  *)
Due(n) == IF pc[n] = "off" /\ mode[n] = "normal" THEN 1 ELSE 0

Budget(n) ==
  /\ Losses(received[n]) + Due(n) <= 2 * failures[n]
  /\ Losses(sent[n]) + Due(n) <= failures[n]

(* A controller that is being configured holds nothing. *)
Configured(n) ==
  mode[n] = "config" =>
    ~rx0if[n] /\ ~txreq[n] /\ pc[n] \in {"off", "setup"}

Bounded == \A n \in Nodes : Configured(n) /\ Budget(n)

(* Steps in which nothing is lost and no program ends. *)
LEMMA BoundedQuietly ==
  ASSUME TypeOK, Bounded, UNCHANGED failures,
         \A m \in Nodes :
           /\ Losses(received'[m]) = Losses(received[m])
           /\ Losses(sent'[m]) = Losses(sent[m])
           /\ pc'[m] = "off" => pc[m] = "off" /\ mode'[m] = mode[m]
           /\ mode'[m] = "config" =>
                /\ mode[m] = "config"
                /\ pc'[m] \in {"off", "setup"}
                /\ rx0if'[m] => rx0if[m]
                /\ txreq'[m] => txreq[m]
  PROVE  Bounded'
<1> SUFFICES ASSUME NEW m \in Nodes PROVE Configured(m)' /\ Budget(m)'
  BY DEF Bounded
<1>1. Configured(m) /\ Budget(m)
  BY DEF Bounded
<1>2. Configured(m)'
  BY <1>1 DEF Configured
<1>3. /\ Losses(received[m]) \in Nat /\ Losses(sent[m]) \in Nat
      /\ failures[m] \in Nat
  BY LossesAreNumbers DEF TypeOK
<1>4. Due(m)' <= Due(m) /\ Due(m) \in Nat /\ Due(m)' \in Nat
  BY DEF Due
<1>5. Budget(m)'
  BY <1>1, <1>3, <1>4 DEF Budget
<1> QED BY <1>2, <1>5

(* A node whose failure is paid for by what it has lost. *)
LEMMA BoundedBy ==
  ASSUME TypeOK, Bounded, NEW n \in Nodes, Configured(n)', Budget(n)',
         \A m \in Nodes : m # n =>
           /\ received'[m] = received[m] /\ sent'[m] = sent[m]
           /\ pc'[m] = pc[m] /\ mode'[m] = mode[m]
           /\ failures'[m] = failures[m]
           /\ rx0if'[m] = rx0if[m] /\ txreq'[m] = txreq[m]
  PROVE  Bounded'
<1> SUFFICES ASSUME NEW m \in Nodes, m # n
             PROVE  Configured(m)' /\ Budget(m)'
  BY DEF Bounded
<1> QED BY DEF Bounded, Configured, Budget, Due

(* A start costs the frames that the failure before it has yet to cost. *)
LEMMA BoundedReset ==
  ASSUME TypeOK, Bounded, NEW n \in Nodes, Reset(n)
  PROVE  Bounded'
<1>1. /\ pc[n] = "off" /\ pc'[n] = "setup"
      /\ mode'[n] = "config" /\ ~txreq'[n] /\ ~rx0if'[n]
      /\ failures' = failures
      /\ \A m \in Nodes : m # n =>
           /\ pc'[m] = pc[m] /\ mode'[m] = mode[m]
           /\ rx0if'[m] = rx0if[m] /\ txreq'[m] = txreq[m]
  BY DEF Reset, Goto, TypeOK, countVars
<1>2. Configured(n) /\ Budget(n)
  BY DEF Bounded
<1>3. /\ Losses(received[n]) \in Nat /\ Losses(sent[n]) \in Nat
      /\ failures[n] \in Nat
  BY LossesAreNumbers DEF TypeOK
<1>4. /\ Losses(received'[n]) = Losses(received[n]) + IF rx0if[n] THEN 1 ELSE 0
      /\ \A m \in Nodes : m # n => received'[m] = received[m]
  <2>1. CASE rx0if[n]
    <3>1. rxbuf[n] \in Nat /\ LoseKept(n)
      BY <2>1 DEF TypeOK, Reset
    <3> QED BY <2>1, <3>1, NoFrameIsFrame, LossesOfReceived DEF LoseKept
  <2>2. CASE ~rx0if[n]
    <3>1. received' = received
      BY <2>2 DEF Reset
    <3> QED BY <1>3, <2>2, <3>1
  <2> QED BY <2>1, <2>2
<1>5. /\ Losses(sent'[n]) = Losses(sent[n]) + IF txreq[n] THEN 1 ELSE 0
      /\ \A m \in Nodes : m # n => sent'[m] = sent[m]
  <2>1. CASE txreq[n]
    <3>1. txbuf[n] \in FrameRecords /\ LosePending(n)
      BY <2>1 DEF TypeOK, Reset
    <3> QED BY <2>1, <3>1, LossesOfSent DEF LosePending
  <2>2. CASE ~txreq[n]
    <3>1. sent' = sent
      BY <2>2 DEF Reset
    <3> QED BY <1>3, <2>2, <3>1
  <2> QED BY <2>1, <2>2
<1>6. rx0if[n] \/ txreq[n] => Due(n) = 1
  BY <1>1, <1>2 DEF Configured, Due, TypeOK
<1>7. Due(n) \in {0, 1} /\ Due(n)' = 0
  BY <1>1 DEF Due
<1>8. Budget(n)'
  BY <1>1, <1>2, <1>3, <1>4, <1>5, <1>6, <1>7 DEF Budget
<1>9. Configured(n)'
  BY <1>1 DEF Configured
<1> QED BY <1>1, <1>4, <1>5, <1>8, <1>9, BoundedBy

(* A failure may cost a frame at once and one at the next start. *)
LEMMA BoundedSpiFails ==
  ASSUME TypeOK, Bounded, NEW n \in Nodes, SpiFails(n)
  PROVE  Bounded'
<1>1. /\ pc[n] # "off" /\ pc'[n] = "off" /\ failures'[n] = failures[n] + 1
      /\ TakenAnyway(n) \/ UNCHANGED <<controllerVars, historyVars>>
      /\ \A m \in Nodes : m # n =>
           pc'[m] = pc[m] /\ failures'[m] = failures[m]
  BY DEF SpiFails, Goto, TypeOK
<1>2. Configured(n) /\ Budget(n)
  BY DEF Bounded
<1>3. /\ Losses(received[n]) \in Nat /\ Losses(sent[n]) \in Nat
      /\ failures[n] \in Nat
  BY LossesAreNumbers DEF TypeOK
<1>4. sent' = sent
  BY <1>1
  DEF TakenAnyway, AskToSend, LoseKept, controllerVars, historyVars
<1>5. /\ \/ Losses(received'[n]) = Losses(received[n])
         \/ Losses(received'[n]) = Losses(received[n]) + 1
      /\ \A m \in Nodes : m # n => received'[m] = received[m]
  <2>1. CASE received' = received
    BY <2>1
  <2>2. CASE LoseKept(n)
    <3>1. rxbuf[n] \in Nat
      BY DEF TypeOK
    <3> QED BY <1>3, <2>2, <3>1, NoFrameIsFrame, LossesOfReceived DEF LoseKept
  <2> QED
    BY <1>1, <2>1, <2>2
    DEF TakenAnyway, AskToSend, controllerVars, historyVars
<1>6. Due(n) = 0 /\ Due(n)' \in {0, 1}
  BY <1>1 DEF Due
<1>7. Budget(n)'
  BY <1>1, <1>2, <1>3, <1>4, <1>5, <1>6 DEF Budget
<1>8. /\ Configured(n)'
      /\ \A m \in Nodes : m # n =>
           /\ mode'[m] = mode[m]
           /\ rx0if'[m] = rx0if[m] /\ txreq'[m] = txreq[m]
  <2>1. CASE UNCHANGED <<controllerVars, historyVars>>
    BY <1>1, <1>2, <2>1 DEF controllerVars, Configured
  <2>2. CASE /\ pc[n] = "setup"
             /\ mode' = [mode EXCEPT ![n] = "normal"]
             /\ UNCHANGED <<txbuf, txreq, rxbuf, rx0if, historyVars>>
    BY <2>2 DEF Configured, TypeOK
  <2>3. CASE UNCHANGED <<mode, txreq, rx0if>>
    BY <1>1, <1>2, <2>3 DEF Configured
  <2>4. CASE pc[n] = "rts" /\ AskToSend(n)
    <3>1. mode[n] # "config"
      BY <1>2, <2>4 DEF Configured
    <3> QED BY <2>4, <3>1 DEF AskToSend, Configured, TypeOK
  <2>5. CASE /\ pc[n] = "clear"
             /\ rx0if' = [rx0if EXCEPT ![n] = FALSE]
             /\ LoseKept(n)
             /\ UNCHANGED <<mode, txbuf, txreq, rxbuf, bus, requested, sent,
                            overrun, torn, stored>>
    <3>1. mode[n] # "config"
      BY <1>2, <2>5 DEF Configured
    <3> QED BY <2>5, <3>1 DEF Configured, TypeOK
  <2> QED BY <1>1, <2>1, <2>2, <2>3, <2>4, <2>5 DEF TakenAnyway
<1> QED BY <1>1, <1>4, <1>5, <1>7, <1>8, BoundedBy

(* What is sent or delivered is not lost. *)
LEMMA BoundedClearFlag ==
  ASSUME TypeOK, Received, Bounded, NEW n \in Nodes, ClearFlag(n)
  PROVE  Bounded'
<1>1. PICK stray \in StrayBytes :
        received' = [received EXCEPT ![n] =
          Append(@, [place |-> got[n],
                     frame |-> FrameOf(RegistersOf(bus[got[n]]), stray),
                     lost  |-> FALSE])]
  BY DEF ClearFlag
<1>2. got[n] \in Nat
      /\ FrameOf(RegistersOf(bus[got[n]]), stray) \in FrameRecords
  BY DeliveredIsFrame DEF ClearFlag, Received, TypeOK
<1>3. /\ Losses(received'[n]) = Losses(received[n]) + IF FALSE THEN 1 ELSE 0
      /\ \A m \in Nodes : m # n => received'[m] = received[m]
  BY <1>1, <1>2, LossesOfReceived
<1>4. \A m \in Nodes : Losses(received[m]) \in Nat
  BY LossesAreNumbers
<1>5. \A m \in Nodes : Losses(received'[m]) = Losses(received[m])
  BY <1>3, <1>4
<1>6. /\ pc[n] = "clear" /\ pc' = [pc EXCEPT ![n] = "idle"]
      /\ rx0if' = [rx0if EXCEPT ![n] = FALSE]
      /\ UNCHANGED <<sent, mode, txreq, failures>>
  BY DEF ClearFlag, Goto, countVars
<1>7. mode[n] # "config"
  BY <1>6 DEF Bounded, Configured
<1>8. \A m \in Nodes :
        /\ pc'[m] = "off" => pc[m] = "off"
        /\ rx0if'[m] => rx0if[m]
        /\ mode[m] = "config" => pc'[m] = pc[m]
  BY <1>6, <1>7 DEF TypeOK
<1>9. \A m \in Nodes : mode[m] = "config" => pc[m] \in {"off", "setup"}
  BY DEF Bounded, Configured
<1> QED BY <1>5, <1>6, <1>8, <1>9, BoundedQuietly

LEMMA BoundedSendOnBus ==
  ASSUME TypeOK, Bounded, NEW n \in Nodes, SendOnBus(n)
  PROVE  Bounded'
<1>1. /\ sent' = [sent EXCEPT ![n] =
                    Append(@, [frame |-> txbuf[n], lost |-> FALSE])]
      /\ UNCHANGED <<pc, mode, received, failures>>
  BY DEF SendOnBus, driverVars, countVars
<1>2. txbuf[n] \in FrameRecords
  BY DEF TypeOK
<1>3. /\ Losses(sent'[n]) = Losses(sent[n]) + IF FALSE THEN 1 ELSE 0
      /\ \A m \in Nodes : m # n => sent'[m] = sent[m]
  BY <1>1, <1>2, LossesOfSent
<1>4. \A m \in Nodes : Losses(sent[m]) \in Nat
  BY LossesAreNumbers
<1>5. \A m \in Nodes : Losses(sent'[m]) = Losses(sent[m])
  BY <1>3, <1>4
<1>6. \A m \in Nodes : /\ txreq'[m] => txreq[m]
                       /\ mode[m] = "config" => rx0if'[m] = rx0if[m]
  BY DEF SendOnBus, TypeOK
<1>7. \A m \in Nodes : mode[m] = "config" => pc[m] \in {"off", "setup"}
  BY DEF Bounded, Configured
<1> QED BY <1>1, <1>5, <1>6, <1>7, BoundedQuietly

-----------------------------------------------------------------------------
(* The inductive invariant.  That a delivered frame is one needs that it   *)
(* was read from a place on the bus, and that needs RX0IF to be cleared    *)
(* last; that frames are sent as accepted needs the buffer to hold what    *)
(* transmit() has loaded when it asks for it to be sent; and that failures *)
(* cost no more than they do needs a count of what the last one may still  *)
(* cost.                                                                   *)
IInv == TypeOK /\ Received /\ Sent /\ Bounded

LEMMA InitIInv == Init => IInv
<1> SUFFICES ASSUME Init PROVE IInv
  OBVIOUS
<1>1. TypeOK
  BY TypeInitially
<1>2. Received
  <2>1. Kept
    BY DEF Init, Kept, KeptInOrder
  <2> QED BY <2>1 DEF Init, Received, Places, ArrivesIntact
<1>3. Sent
  BY DEF Init, Sent, SentInOrder, Loaded
<1>4. Bounded
  <2> SUFFICES ASSUME NEW n \in Nodes PROVE Configured(n) /\ Budget(n)
    BY DEF Bounded
  <2>1. Configured(n)
    BY DEF Init, Configured
  <2>2. Losses(<<>>) = 0
    <3>1. {i \in DOMAIN <<>> : <<>>[i].lost} = {}
      BY EmptySeq, LenProperties
    <3> QED BY <3>1, FS_EmptySet DEF Losses
  <2>3. Due(n) = 0
    BY DEF Init, Due
  <2>4. received[n] = <<>> /\ sent[n] = <<>> /\ failures[n] = 0
    BY DEF Init
  <2> QED BY <2>1, <2>2, <2>3, <2>4 DEF Budget
<1> QED BY <1>1, <1>2, <1>3, <1>4 DEF IInv

LEMMA ReceivedStep ==
  ASSUME TypeOK, Received, [AnyNext]_vars
  PROVE  Received'
<1> USE DEF TypeOK, Goto, driverVars, controllerVars, historyVars, countVars
<1>1. ASSUME NEW n \in Nodes, SetNormalMode(n) PROVE Received'
  BY <1>1, ReceivedQuietly DEF SetNormalMode
<1>2. ASSUME NEW n \in Nodes, SpiFails(n) PROVE Received'
  BY <1>2, ReceivedSpiFails
<1>3. ASSUME NEW n \in Nodes, NEW f, Transmit(n, f)
      PROVE  Received'
  BY <1>3, ReceivedQuietly DEF Transmit
<1>4. ASSUME NEW n \in Nodes, Load(n) PROVE Received'
  BY <1>4, ReceivedQuietly DEF Load
<1>5. ASSUME NEW n \in Nodes, RequestToSend(n) PROVE Received'
  BY <1>5, ReceivedQuietly DEF RequestToSend, AskToSend
<1>6. ASSUME NEW n \in Nodes, Receive(n) PROVE Received'
  BY <1>6, ReceivedQuietly DEF Receive
<1>7. ASSUME NEW n \in Nodes, ReadStatus(n) PROVE Received'
  <2>1. /\ UNCHANGED <<got, rxbuf, rx0if, bus, stored, received>>
        /\ pc' = [pc EXCEPT ![n] = IF rx0if[n] THEN "read" ELSE "idle"]
    BY <1>7 DEF ReadStatus
  <2>2. \A m \in Nodes : /\ pc'[m] = "read" => pc[m] = "read" \/ rx0if[m]
                         /\ pc'[m] = "clear" => pc[m] = "clear"
    BY <2>1
  <2>3. Kept'
    BY <2>1, <2>2 DEF Received, Kept, KeptInOrder
  <2>4. Places' /\ ArrivesIntact'
    BY <2>1 DEF Received, Places, ArrivesIntact
  <2> QED BY <2>3, <2>4 DEF Received
<1>8. ASSUME NEW n \in Nodes, ReadBuffer(n) PROVE Received'
  BY <1>8
  DEF ReadBuffer, Received, Kept, KeptInOrder, Places, ArrivesIntact
<1>9. ASSUME NEW n \in Nodes, OnTransmitComplete(n) PROVE Received'
  BY <1>9, ReceivedQuietly DEF OnTransmitComplete
<1>10. ASSUME NEW n \in Nodes, OnReceive(n) PROVE Received'
  BY <1>10, ReceivedQuietly DEF OnReceive
<1>11. ASSUME NEW n \in Nodes, Poll(n) PROVE Received'
  BY <1>11, ReceivedQuietly DEF Poll
<1>12. ASSUME NEW n \in Nodes, PollControl(n) PROVE Received'
  BY <1>12, ReceivedQuietly DEF PollControl
<1>13. ASSUME NEW n \in Nodes, EndCallback(n) PROVE Received'
  BY <1>13, ReceivedQuietly DEF EndCallback
<1>14. ASSUME NEW n \in Nodes, PollStatus(n) PROVE Received'
  BY <1>14, ReceivedQuietly DEF PollStatus
<1>15. CASE UNCHANGED vars
  BY <1>15, ReceivedQuietly DEF vars
<1> QED
  BY <1>1, <1>2, <1>3, <1>4, <1>5, <1>6, <1>7, <1>8, <1>9, <1>10, <1>11,
     <1>12, <1>13, <1>14, <1>15, ReceivedReset, ReceivedClearFlag,
     ReceivedSendOnBus
  DEF AnyNext, ProgramStep, Choice

LEMMA SentStep ==
  ASSUME TypeOK, Sent, [Next]_vars
  PROVE  Sent'
<1> USE DEF TypeOK, Goto, driverVars, controllerVars, historyVars, countVars
<1>1. ASSUME NEW n \in Nodes, SetNormalMode(n) PROVE Sent'
  BY <1>1, SentQuietly DEF SetNormalMode
<1>2. ASSUME NEW n \in Nodes, SpiFails(n) PROVE Sent'
  BY <1>2, SentSpiFails
<1>3. ASSUME NEW n \in Nodes, Receive(n) PROVE Sent'
  BY <1>3, SentQuietly DEF Receive
<1>4. ASSUME NEW n \in Nodes, ReadStatus(n) PROVE Sent'
  BY <1>4, SentQuietly DEF ReadStatus
<1>5. ASSUME NEW n \in Nodes, ReadBuffer(n) PROVE Sent'
  BY <1>5, SentQuietly DEF ReadBuffer
<1>6. ASSUME NEW n \in Nodes, ClearFlag(n) PROVE Sent'
  BY <1>6, SentQuietly DEF ClearFlag
<1>7. ASSUME NEW n \in Nodes, OnTransmitComplete(n) PROVE Sent'
  BY <1>7, SentQuietly DEF OnTransmitComplete
<1>8. ASSUME NEW n \in Nodes, OnReceive(n) PROVE Sent'
  BY <1>8, SentQuietly DEF OnReceive
<1>9. ASSUME NEW n \in Nodes, Poll(n) PROVE Sent'
  BY <1>9, SentQuietly DEF Poll
<1>10. ASSUME NEW n \in Nodes, PollControl(n) PROVE Sent'
  BY <1>10, SentQuietly DEF PollControl
<1>11. ASSUME NEW n \in Nodes, EndCallback(n) PROVE Sent'
  BY <1>11, SentQuietly DEF EndCallback
<1>12. ASSUME NEW n \in Nodes, PollStatus(n) PROVE Sent'
  BY <1>12, SentQuietly DEF PollStatus
<1>13. CASE UNCHANGED vars
  BY <1>13, SentQuietly DEF vars
<1> QED
  BY <1>1, <1>2, <1>3, <1>4, <1>5, <1>6, <1>7, <1>8, <1>9, <1>10, <1>11,
     <1>12, <1>13, SentReset, SentTransmit, SentLoad, SentRequestToSend,
     SentSendOnBus
  DEF Next, ProgramStep, Choice

LEMMA BoundedStep ==
  ASSUME TypeOK, Received, Bounded, [AnyNext]_vars
  PROVE  Bounded'
<1> USE DEF Goto, driverVars, controllerVars, historyVars, countVars
<1>0. \A m \in Nodes : mode[m] = "config" => pc[m] \in {"off", "setup"}
  BY DEF Bounded, Configured
(* Steps of a running program that touch neither histories nor flags. *)
<1>1. ASSUME NEW n \in Nodes, NEW step,
             pc[n] \notin {"off", "setup"}, step # "off",
             pc' = [pc EXCEPT ![n] = step],
             UNCHANGED <<received, sent, failures, mode, rx0if>>,
             \A m \in Nodes : m # n => txreq'[m] = txreq[m]
      PROVE  Bounded'
  <2>1. mode[n] # "config"
    BY <1>0, <1>1
  <2>2. \A m \in Nodes : /\ pc'[m] = "off" => pc[m] = "off"
                         /\ mode[m] = "config" =>
                              pc'[m] = pc[m] /\ txreq'[m] = txreq[m]
    BY <1>1, <2>1 DEF TypeOK
  <2> QED BY <1>0, <1>1, <2>2, BoundedQuietly
<1>2. ASSUME NEW n \in Nodes, SetNormalMode(n) PROVE Bounded'
  <2>1. /\ pc' = [pc EXCEPT ![n] = "idle"]
        /\ mode' = [mode EXCEPT ![n] = "normal"]
        /\ UNCHANGED <<received, sent, failures, rx0if, txreq>>
    BY <1>2 DEF SetNormalMode
  <2>2. \A m \in Nodes :
          /\ pc'[m] = "off" => pc[m] = "off" /\ mode'[m] = mode[m]
          /\ mode'[m] = "config" => mode[m] = "config" /\ pc'[m] = pc[m]
    BY <2>1 DEF TypeOK
  <2> QED BY <1>0, <2>1, <2>2, BoundedQuietly
<1>3. ASSUME NEW n \in Nodes, NEW f, Transmit(n, f) PROVE Bounded'
  BY <1>1, <1>3 DEF Transmit
<1>4. ASSUME NEW n \in Nodes, Load(n) PROVE Bounded'
  BY <1>1, <1>4 DEF Load
<1>5. ASSUME NEW n \in Nodes, RequestToSend(n) PROVE Bounded'
  <2>1. \A m \in Nodes : m # n => txreq'[m] = txreq[m]
    BY <1>5 DEF RequestToSend, AskToSend, TypeOK
  <2> DEFINE step == IF inCallback[n] THEN "callback" ELSE "idle"
  <2>2. /\ pc[n] = "rts" /\ pc' = [pc EXCEPT ![n] = step] /\ step # "off"
        /\ UNCHANGED <<received, sent, failures, mode, rx0if>>
    BY <1>5 DEF RequestToSend, AskToSend
  <2> HIDE DEF step
  <2> QED BY <1>1, <2>1, <2>2
<1>6. ASSUME NEW n \in Nodes, Receive(n) PROVE Bounded'
  BY <1>1, <1>6 DEF Receive
<1>7. ASSUME NEW n \in Nodes, ReadStatus(n) PROVE Bounded'
  BY <1>1, <1>7 DEF ReadStatus
<1>8. ASSUME NEW n \in Nodes, ReadBuffer(n) PROVE Bounded'
  BY <1>1, <1>8 DEF ReadBuffer
<1>9. ASSUME NEW n \in Nodes, OnTransmitComplete(n) \/ OnReceive(n)
      PROVE  Bounded'
  <2>1. UNCHANGED <<pc, received, sent, failures, mode, rx0if, txreq>>
    BY <1>9 DEF OnTransmitComplete, OnReceive
  <2> QED BY <1>0, <2>1, BoundedQuietly
<1>10. ASSUME NEW n \in Nodes, Poll(n) PROVE Bounded'
  BY <1>1, <1>10 DEF Poll
<1>11. ASSUME NEW n \in Nodes, PollControl(n) PROVE Bounded'
  BY <1>1, <1>11 DEF PollControl
<1>12. ASSUME NEW n \in Nodes, EndCallback(n) PROVE Bounded'
  BY <1>1, <1>12 DEF EndCallback
<1>13. ASSUME NEW n \in Nodes, PollStatus(n) PROVE Bounded'
  BY <1>1, <1>13 DEF PollStatus
<1>14. CASE UNCHANGED vars
  <2>1. UNCHANGED <<pc, received, sent, failures, mode, rx0if, txreq>>
    BY <1>14 DEF vars
  <2> QED BY <1>0, <2>1, BoundedQuietly
<1> QED
  BY <1>2, <1>3, <1>4, <1>5, <1>6, <1>7, <1>8, <1>9, <1>10, <1>11, <1>12,
     <1>13, <1>14, BoundedReset, BoundedSpiFails, BoundedClearFlag,
     BoundedSendOnBus
  DEF AnyNext, ProgramStep, Choice

(* The invariant of the nodes, for any number of them and any frames. *)
THEOREM Invariance == Spec => []IInv
<1>1. IInv /\ [Next]_vars => IInv'
  BY TypeStep, ReceivedStep, SentStep, BoundedStep, NextIsAny
  DEF IInv, Received
<1> QED BY InitIInv, <1>1, PTL DEF Spec

(* Buffers hold frames, and frames bytes, with identifiers that fit: an    *)
(* extended identifier spread over four registers comes out of them within *)
(* its bounds again, whatever it was.                                      *)
THEOREM TypeCorrect == Spec => []TypeOK
<1>1. IInv => TypeOK
  BY DEF IInv
<1> QED BY Invariance, <1>1, PTL

(* Whatever the controllers do between the transactions of a driver, and   *)
(* wherever programs fail and start again, frames a controller has kept    *)
(* are let go in the order of the bus, none twice; and a node loses none   *)
(* of them but by its own failures, at most two by each.                   *)
THEOREM FramesAreNotLost == Spec => []NothingReceivedIsLost
<1>1. ASSUME IInv, NEW n \in Nodes
      PROVE  KeptInOrder(n) /\ Losses(received[n]) <= 2 * failures[n]
  <2>1. /\ Losses(received[n]) \in Nat /\ failures[n] \in Nat
        /\ Due(n) \in Nat
    BY <1>1, LossesAreNumbers DEF IInv, TypeOK, Due
  <2>2. Losses(received[n]) + Due(n) <= 2 * failures[n]
    BY <1>1 DEF IInv, Bounded, Budget
  <2>3. KeptInOrder(n)
    BY <1>1 DEF IInv, Received, Kept
  <2> QED BY <2>1, <2>2, <2>3
<1>2. IInv => NothingReceivedIsLost
  BY <1>1 DEF NothingReceivedIsLost
<1> QED BY Invariance, <1>2, PTL

(* A standard frame is delivered as it was on the bus but for an eighth    *)
(* byte, whatever its identifier and its data are.                         *)
THEOREM FramesArriveIntact == Spec => []ArrivesIntact
<1>1. IInv => ArrivesIntact
  BY DEF IInv, Received
<1> QED BY Invariance, <1>1, PTL

(* Frames are sent as and in the order transmit() asked for them, until it *)
(* is called too early, and a node loses none of them but by its own       *)
(* failures, at most one by each.                                          *)
THEOREM FramesAreSentInOrder == Spec => []SentAsAccepted
<1>1. ASSUME IInv, NEW n \in Nodes
      PROVE  SentInOrder(n) /\ Losses(sent[n]) <= failures[n]
  <2>1. /\ Losses(sent[n]) \in Nat /\ failures[n] \in Nat
        /\ Due(n) \in Nat
    BY <1>1, LossesAreNumbers DEF IInv, TypeOK, Due
  <2>2. Losses(sent[n]) + Due(n) <= failures[n]
    BY <1>1 DEF IInv, Bounded, Budget
  <2>3. SentInOrder(n)
    BY <1>1 DEF IInv, Sent
  <2> QED BY <2>1, <2>2, <2>3
<1>2. IInv => SentAsAccepted
  BY <1>1 DEF SentAsAccepted
<1> QED BY Invariance, <1>2, PTL

(* A program enters its callback from the poll of the control register.    *)
LEMMA PollControlCalls ==
  ASSUME TypeOK, Next, NEW n \in Nodes, pc[n] = "poll", pc'[n] = "callback"
  PROVE  PollControl(n)
<1> USE DEF Goto
<1>1. PICK m \in Nodes :
        ProgramStep(m) \/ Choice(m) \/ SendOnBus(m) \/ SpiFails(m)
  BY DEF Next
<1>2. ~SendOnBus(m) /\ ~OnTransmitComplete(m) /\ ~OnReceive(m)
  BY DEF SendOnBus, driverVars, OnTransmitComplete, OnReceive
<1>3. \E step : Goto(m, step)
  <2>1. CASE ProgramStep(m)
    BY <2>1
    DEF ProgramStep, Reset, SetNormalMode, Load, RequestToSend, ReadStatus,
        ReadBuffer, ClearFlag, PollControl, EndCallback, PollStatus
  <2>2. CASE Choice(m)
    BY <1>2, <2>2 DEF Choice, Transmit, Receive, Poll
  <2>3. CASE SpiFails(m)
    BY <2>3 DEF SpiFails
  <2> QED BY <1>1, <1>2, <2>1, <2>2, <2>3
<1>4. m = n
  BY <1>3 DEF TypeOK
<1>5. CASE ProgramStep(n)
  BY <1>5
  DEF ProgramStep, Reset, SetNormalMode, Load, RequestToSend, ReadStatus,
      ReadBuffer, ClearFlag, EndCallback, PollStatus
<1>6. ~Choice(n)
  BY <1>2, <1>4 DEF Choice, Transmit, Receive, Poll
<1>7. ~SpiFails(n)
  BY DEF SpiFails, TypeOK
<1> QED BY <1>1, <1>2, <1>4, <1>5, <1>6, <1>7

(* txCallback_ is called when nothing asked for waits to be sent any more. *)
THEOREM CallbackAfterSending == Spec => CompletionMeansSent
<1>1. ASSUME IInv, [Next]_vars, NEW n \in Nodes,
             pc[n] = "poll", pc'[n] = "callback", ~overrun[n]
      PROVE  ~txreq[n] /\ Len(requested[n]) = Len(sent[n])
  <2>1. ~txreq[n]
    <3>1. Next
      BY <1>1 DEF vars, driverVars
    <3>2. PollControl(n)
      BY <1>1, <3>1, PollControlCalls DEF IInv
    <3> QED BY <1>1, <3>2 DEF PollControl, Goto, IInv, TypeOK
  <2>2. Len(requested[n]) = Len(sent[n]) + 0
    BY <1>1, <2>1 DEF IInv, Sent, SentInOrder
  <2>3. Len(sent[n]) \in Nat
    BY <1>1, LenProperties DEF IInv, TypeOK
  <2> QED BY <2>1, <2>2, <2>3
<1>2. IInv /\ [Next]_vars =>
        [\A n \in Nodes :
           pc[n] = "poll" /\ pc'[n] = "callback" /\ ~overrun[n] =>
             ~txreq[n] /\ Len(requested[n]) = Len(sent[n])]_vars
  BY <1>1
<1> QED BY Invariance, <1>2, PTL DEF Spec, CompletionMeansSent

-----------------------------------------------------------------------------
(* Messages in frames.                                                     *)

(* The bytes of a frame with a service and n parameters. *)
Holds(data, sid, params, n) ==
  /\ data \in Seq(Bytes) /\ Len(data) = 2 + n
  /\ data[1] = 1 + n /\ data[2] = sid
  /\ \A i \in 1..n : data[i + 2] = params[i]

(* A message as the bytes of a frame: its length, its service and its      *)
(* parameters.                                                             *)
LEMMA BytesOfMessage ==
  ASSUME NEW sid \in Bytes, NEW n \in 0..5,
         NEW params \in Seq(Bytes), Len(params) = n
  PROVE  Holds(<<1 + n, sid>> \o params, sid, params, n)
<1> DEFINE head == <<1 + n, sid>>
           data == head \o params
<1>2. head \in Seq(Bytes) /\ Len(head) = 2 /\ head[1] = 1 + n /\ head[2] = sid
  <2>1. 1 + n \in Bytes
    BY DEF Bytes
  <2> QED BY <2>1
<1> HIDE DEF head
<1>3. /\ head \o params \in Seq(Bytes)
      /\ Len(head \o params) = Len(head) + Len(params)
      /\ \A i \in 1..(Len(head) + Len(params)) :
           (head \o params)[i] = IF i <= Len(head) THEN head[i]
                                 ELSE params[i - Len(head)]
  BY <1>2, ConcatProperties
<1>4. /\ data \in Seq(Bytes) /\ Len(data) = 2 + n
      /\ \A i \in 1..(2 + n) :
           data[i] = IF i <= 2 THEN head[i] ELSE params[i - 2]
  BY <1>2, <1>3
<1> HIDE DEF data
<1>5. \A i \in 1..n : i + 2 \in 1..(2 + n) /\ ~(i + 2 <= 2) /\ (i + 2) - 2 = i
  OBVIOUS
<1>6. \A i \in 1..n : data[i + 2] = params[i]
  BY <1>4, <1>5
<1>7. data[1] = 1 + n /\ data[2] = sid
  BY <1>2, <1>4
<1> QED BY <1>4, <1>6, <1>7 DEF data, head, Holds

(* Bytes that hold a message are taken apart into it. *)
LEMMA MessageOfBytes ==
  ASSUME NEW sid \in Bytes, NEW n \in 0..5,
         NEW params \in Seq(Bytes), Len(params) = n,
         NEW data, Holds(data, sid, params, n)
  PROVE  /\ IsSingleFrame(data)
         /\ ParsedMessage(data) = [sid |-> sid, params |-> params, length |-> n]
<1>0. /\ data \in Seq(Bytes) /\ Len(data) = 2 + n
      /\ data[1] = 1 + n /\ data[2] = sid
      /\ \A i \in 1..n : data[i + 2] = params[i]
  BY DEF Holds
<1>1. /\ (1 + n) % 16 = 1 + n /\ (1 + n) \div 16 = 0
      /\ n % 256 = n /\ ((1 + n) - 1) % 256 = n
      /\ (1 + n) + 1 <= 2 + n /\ (1 + n) + 1 = 2 + n
      /\ 2 + n # 0
  OBVIOUS
<1>2. data # <<>>
  BY <1>0, <1>1, EmptySeq
<1>3. SubSeq(data, 3, 2 + n) = params
  <2>1. \A i \in 3..(2 + n) : data[i] \in Bytes
    BY <1>0, ElementOfSeq
  <2>2. /\ 3 \in Int /\ 2 + n \in Int
        /\ (2 + n) - 3 + 1 = n
        /\ (IF 3 <= 2 + n THEN (2 + n) - 3 + 1 ELSE 0) = n
        /\ \A i \in 1..n : (3 + i) - 1 = i + 2
    OBVIOUS
  <2>3. /\ SubSeq(data, 3, 2 + n) \in Seq(Bytes)
        /\ Len(SubSeq(data, 3, 2 + n)) = n
        /\ \A i \in 1..n : SubSeq(data, 3, 2 + n)[i] = data[(3 + i) - 1]
    BY <2>1, <2>2, SubSeqProperties
  <2>4. \A i \in 1..n : SubSeq(data, 3, 2 + n)[i] = params[i]
    BY <1>0, <2>2, <2>3
  <2> QED BY <2>3, <2>4, SeqEqual
<1>4. ParsedMessage(data) = [sid |-> sid, params |-> params, length |-> n]
  BY <1>0, <1>1, <1>3 DEF ParsedMessage
<1> QED BY <1>0, <1>1, <1>2, <1>4 DEF IsSingleFrame

(* Frame f has a service at least, and no eighth byte. *)
Fits(f) == f \in FrameRecords /\ ~f.extended /\ Len(f.data) \in 2..7

(* It holds what the length counts of one of these messages. *)
Carries(f, messages) ==
  /\ IsSingleFrame(f.data)
  /\ \E message \in messages : ParsedMessage(f.data) = Counted(message)

(* What the length counts of a message is part of it, and all of it if the *)
(* length of its parameters fits into a byte.                              *)
LEMMA CountedIsMessage ==
  ASSUME NEW sid \in Bytes, NEW params \in Seq(Bytes)
  PROVE  /\ Message(sid, params) \in Messages
         /\ Message(sid, params).length \in 0..Len(params)
         /\ SubSeq(params, 1, Message(sid, params).length) \in Seq(Bytes)
         /\ Len(SubSeq(params, 1, Message(sid, params).length))
              = Message(sid, params).length
         /\ Counted(Message(sid, params))
              = [sid |-> sid,
                 params |-> SubSeq(params, 1, Message(sid, params).length),
                 length |-> Message(sid, params).length]
         /\ Len(params) < 256 =>
              Counted(Message(sid, params)) = Message(sid, params)
<1> DEFINE n == Len(params) % 256
<1>1. Len(params) \in Nat
  BY LenProperties
<1>2. n \in 0..255 /\ n <= Len(params)
  <2>1. ASSUME NEW k \in Nat PROVE k % 256 \in 0..255 /\ k % 256 <= k
    <3>1. k % 256 \in 0..255
      OBVIOUS
    <3>2. CASE k < 256
      <4>1. k % 256 = k
        BY <3>2
      <4> QED BY <3>1, <4>1
    <3>3. CASE k >= 256
      BY <3>1, <3>3
    <3> QED BY <3>2, <3>3
  <2> QED BY <1>1, <2>1
<1>3. Len(params) < 256 => n = Len(params)
  <2>1. ASSUME NEW k \in Nat, k < 256 PROVE k % 256 = k
    BY <2>1
  <2> QED BY <1>1, <2>1
<1> HIDE DEF n
<1>4. Message(sid, params) = [sid |-> sid, params |-> params, length |-> n]
  BY DEF Message, n
<1>5. SubSeq(params, 1, n) \in Seq(Bytes) /\ Len(SubSeq(params, 1, n)) = n
  <2>1. \A i \in 1..n : params[i] \in Bytes
    <3>1. \A i \in 1..Len(params) : params[i] \in Bytes
      BY ElementOfSeq
    <3> QED BY <1>1, <1>2, <3>1
  <2>2. n \in Int /\ (IF 1 <= n THEN n - 1 + 1 ELSE 0) = n
    BY <1>2
  <2> QED BY <2>1, <2>2, SubSeqProperties
<1>6. n = Len(params) => SubSeq(params, 1, n) = params
  BY SubSeqFull
<1>7. Message(sid, params) \in Messages
  BY <1>2, <1>4 DEF Messages, Bytes
<1>8. Counted(Message(sid, params))
        = [sid |-> sid, params |-> SubSeq(params, 1, n), length |-> n]
  <2>1. Counted(Message(sid, params))
          = [Message(sid, params) EXCEPT
               !.params = SubSeq(Message(sid, params).params, 1,
                                 Message(sid, params).length)]
    BY DEF Counted
  <2>2. Message(sid, params).params = params
        /\ Message(sid, params).length = n
    BY <1>4
  <2>3. Counted(Message(sid, params))
          = [Message(sid, params) EXCEPT !.params = SubSeq(params, 1, n)]
    BY <2>1, <2>2
  <2>4. ASSUME NEW x, NEW y
        PROVE  [[sid |-> sid, params |-> x, length |-> n] EXCEPT !.params = y]
                 = [sid |-> sid, params |-> y, length |-> n]
    OBVIOUS
  <2> QED BY <1>4, <2>3, <2>4
<1>9. Message(sid, params).length = n
  BY <1>4
<1>10. Len(params) < 256 => Counted(Message(sid, params)) = Message(sid, params)
  BY <1>3, <1>4, <1>6, <1>8
<1> QED BY <1>1, <1>2, <1>5, <1>7, <1>8, <1>9, <1>10

LEMMA FrameCarries ==
  ASSUME NEW sid \in Bytes, NEW n \in 0..5,
         NEW params \in Seq(Bytes), Len(params) = n,
         NEW data, Holds(data, sid, params, n),
         NEW id \in StandardIds, NEW message,
         Counted(message) = [sid |-> sid, params |-> params, length |-> n]
  PROVE  /\ Fits(StandardFrame(id, data))
         /\ Carries(StandardFrame(id, data), {message})
<1>1. id \in ExtendedIds
  BY DEF StandardIds, ExtendedIds
<1>2. StandardFrame(id, data) \in FrameRecords
  BY <1>1, FrameIsRecord DEF Holds, StandardFrame
<1>3. StandardFrame(id, data).data = data /\ ~StandardFrame(id, data).extended
  BY DEF StandardFrame
<1>4. IsSingleFrame(data) /\ ParsedMessage(data) = Counted(message)
  BY MessageOfBytes
<1>5. Len(data) \in 2..7
  BY DEF Holds
<1> QED BY <1>2, <1>3, <1>4, <1>5 DEF Fits, Carries

(* sendSingleFrame puts a message that sendRequest lets through into a     *)
(* frame of at most seven bytes.                                           *)
LEMMA SingleFrameCarries ==
  ASSUME NEW sid \in Bytes, NEW params \in Seq(Bytes),
         Message(sid, params).length + 2 <= 7
  PROVE  /\ Fits(SingleFrame(Message(sid, params), ClientId))
         /\ Carries(SingleFrame(Message(sid, params), ClientId),
                    {Message(sid, params)})
<1> DEFINE message == Message(sid, params)
           n       == message.length
           counted == SubSeq(params, 1, n)
           data    == <<1 + n, sid>> \o counted
<1>1. /\ n \in Nat /\ counted \in Seq(Bytes) /\ Len(counted) = n
      /\ Counted(message) = [sid |-> sid, params |-> counted, length |-> n]
  BY CountedIsMessage
<1>2. n \in 0..5
  <2>1. n \in Nat /\ n + 2 <= 7
    BY <1>1
  <2> HIDE DEF n
  <2> QED BY <2>1
<1>3. message.sid = sid /\ message.params = params
  BY DEF Message
<1>4. SingleFrame(message, ClientId) = StandardFrame(ClientId, data)
  BY <1>3 DEF SingleFrame
<1> HIDE DEF message, n, counted
<1>5. Holds(data, sid, counted, n)
  BY <1>1, <1>2, BytesOfMessage
<1> HIDE DEF data
<1>6. ClientId \in StandardIds
  BY DEF ClientId, StandardIds
<1>7. /\ Fits(SingleFrame(message, ClientId))
      /\ Carries(SingleFrame(message, ClientId), {message})
  BY <1>1, <1>2, <1>4, <1>5, <1>6, FrameCarries
<1> QED BY <1>7 DEF message

LEMMA NegativeFrameCarries ==
  ASSUME NEW sid \in Bytes, NEW nrc \in Bytes
  PROVE  LET f == StandardFrame(ServerId, <<3, NegativeResponse, sid, nrc>>)
         IN Fits(f) /\ Carries(f, {NegativeMessage(sid, nrc)})
<1> DEFINE params == <<sid, nrc>>
           data   == <<3, NegativeResponse, sid, nrc>>
<1>1. params \in Seq(Bytes) /\ Len(params) = 2
      /\ params[1] = sid /\ params[2] = nrc
  OBVIOUS
<1>2. /\ data \in Seq(Bytes) /\ Len(data) = 2 + 2
      /\ data[1] = 1 + 2 /\ data[2] = NegativeResponse
      /\ data[3] = sid /\ data[4] = nrc
  BY DEF NegativeResponse, Bytes
<1>3. NegativeResponse \in Bytes /\ ServerId \in StandardIds /\ 2 \in 0..5
  BY DEF NegativeResponse, ServerId, Bytes, StandardIds
<1>4. NegativeMessage(sid, nrc) = Message(NegativeResponse, params)
  BY DEF NegativeMessage
<1> HIDE DEF params, data
<1>5. Holds(data, NegativeResponse, params, 2)
  BY <1>1, <1>2 DEF Holds
<1>6. Message(NegativeResponse, params)
        = [sid |-> NegativeResponse, params |-> params, length |-> 2]
  BY <1>1 DEF Message
<1>7. Counted(Message(NegativeResponse, params))
        = Message(NegativeResponse, params)
  <2>1. Len(params) < 256
    BY <1>1
  <2> QED BY <1>1, <1>3, <2>1, CountedIsMessage
<1>8. /\ Fits(StandardFrame(ServerId, data))
      /\ Carries(StandardFrame(ServerId, data),
                 {Message(NegativeResponse, params)})
  BY <1>1, <1>3, <1>5, <1>6, <1>7, FrameCarries
<1> QED BY <1>4, <1>8 DEF data

(* Whatever a frame holds, it is taken apart into something like a message. *)
LEMMA ParsedIsMessage ==
  ASSUME NEW data \in Seq(Bytes), Len(data) \in 2..7
  PROVE  ParsedMessage(data) \in Messages
<1> DEFINE length == data[1] % 16
           last   == IF length + 1 <= Len(data) THEN length + 1 ELSE Len(data)
<1>1. \A i \in 1..Len(data) : data[i] \in Bytes
  BY ElementOfSeq
<1>2. data[1] \in Bytes /\ data[2] \in Bytes
  BY <1>1
<1>3. length \in 0..15 /\ (length - 1) % 256 \in 0..255
  <2>1. ASSUME NEW k \in 0..255 PROVE k % 16 \in 0..15
    OBVIOUS
  <2>2. ASSUME NEW k \in 0..15 PROVE (k - 1) % 256 \in 0..255
    OBVIOUS
  <2> QED BY <1>2, <2>1, <2>2 DEF Bytes
<1> HIDE DEF length
<1>4. last \in Int /\ last <= Len(data)
  BY <1>3
<1> HIDE DEF last
<1>5. SubSeq(data, 3, last) \in Seq(Bytes)
  <2>1. \A i \in 3..last : data[i] \in Bytes
    BY <1>1, <1>4
  <2> QED BY <1>4, <2>1, SubSeqProperties
<1>6. ParsedMessage(data) = [sid |-> data[2], params |-> SubSeq(data, 3, last),
                             length |-> (length - 1) % 256]
  BY DEF ParsedMessage, length, last
<1> QED BY <1>2, <1>3, <1>5, <1>6 DEF Messages, Bytes

-----------------------------------------------------------------------------
(* The steps of the stack are steps of the driver.                         *)

(* Messages do not depend on the bytes they are put into being read back.  *)
LEMMA CarriesMore ==
  ASSUME NEW f, NEW few, NEW many, few \subseteq many, Carries(f, few)
  PROVE  Carries(f, many)
BY DEF Carries

(* The three ways to send, as one. *)
Sends(n) ==
  \E message \in Messages, f \in FrameRecords :
    Send(n, message, f) /\ Fits(f) /\ Carries(f, {message})

(* What sendRequest lets through is a message, and the frame holds it. *)
LEMMA RequestSends ==
  ASSUME NEW n \in Nodes, NEW sid \in Bytes, NEW params \in Seq(Bytes),
         SendRequest(n, Message(sid, params))
  PROVE  Sends(n)
<1> DEFINE message == Message(sid, params)
           f == SingleFrame(message, ClientId)
<1>1. Send(n, message, f) /\ message.length + 2 <= 7
  BY DEF SendRequest
<1>2. message \in Messages
  BY CountedIsMessage
<1>3. Fits(f) /\ Carries(f, {message})
  BY <1>1, SingleFrameCarries
<1> QED BY <1>1, <1>2, <1>3 DEF Sends, Fits

LEMMA UdsSteps ==
  ASSUME UdsNext
  PROVE  \E n \in Nodes :
           \/ Sends(n)
           \/ CheckReceived(n)
           \/ ProcessReceived(n)
           \/ DriverStep(n)
<1>1. PICK n \in Nodes :
        \/ \E m \in Requests : SendRequest(n, m)
        \/ \E a \in Answers : SendPositiveResponse(n, a.sid, a.data)
        \/ \E r \in Refusals : SendNegativeResponse(n, r.sid, r.nrc)
        \/ CheckReceived(n)
        \/ ProcessReceived(n)
        \/ DriverStep(n)
  BY DEF UdsNext
<1>2. ASSUME NEW m \in Requests, SendRequest(n, m) PROVE Sends(n)
  <2>1. m \in Messages /\ m.length = Len(m.params) % 256
    BY MessageAssumption
  <2>2. m.sid \in Bytes /\ m.params \in Seq(Bytes)
        /\ m = Message(m.sid, m.params)
    BY <2>1 DEF Messages, Message
  <2> QED BY <1>2, <2>2, RequestSends
<1>3. ASSUME NEW a \in Answers, SendPositiveResponse(n, a.sid, a.data)
      PROVE  Sends(n)
  <2>1. a.sid \in 0..63 /\ a.data \in Seq(Bytes)
    BY MessageAssumption DEF FirstResponse
  <2>2. a.sid + FirstResponse \in Bytes
    <3>1. ASSUME NEW x \in 0..63 PROVE x + 64 \in 0..255
      OBVIOUS
    <3> QED BY <2>1, <3>1 DEF FirstResponse, Bytes
  <2> QED BY <1>3, <2>1, <2>2, RequestSends DEF SendPositiveResponse
<1>4. ASSUME NEW r \in Refusals, SendNegativeResponse(n, r.sid, r.nrc)
      PROVE  Sends(n)
  <2> DEFINE message == NegativeMessage(r.sid, r.nrc)
             f == StandardFrame(ServerId,
                                <<3, NegativeResponse, r.sid, r.nrc>>)
  <2>1. Send(n, message, f)
    BY <1>4 DEF SendNegativeResponse
  <2>2. r.sid \in Bytes /\ r.nrc \in Bytes /\ NegativeResponse \in Bytes
    <3>1. r.sid \in 0..63 /\ r.nrc \in Bytes
      BY MessageAssumption DEF FirstResponse
    <3> QED BY <3>1 DEF NegativeResponse, Bytes
  <2>3. message \in Messages
    <3>1. <<r.sid, r.nrc>> \in Seq(Bytes)
      BY <2>2
    <3> QED BY <2>2, <3>1, CountedIsMessage DEF NegativeMessage
  <2>4. Fits(f) /\ Carries(f, {message})
    BY <2>2, NegativeFrameCarries
  <2> QED BY <2>1, <2>3, <2>4 DEF Sends, Fits
<1> QED BY <1>1, <1>2, <1>3, <1>4

LEMMA StepOfDriver ==
  ASSUME [UdsNext]_frameVars
  PROVE  [AnyNext]_vars
<1>1. ASSUME NEW n \in Nodes, Sends(n) PROVE AnyNext
  BY <1>1 DEF Sends, Send, AnyNext
<1>2. ASSUME NEW n \in Nodes, CheckReceived(n) PROVE AnyNext
  BY <1>2 DEF CheckReceived, AnyNext, Choice
<1>3. ASSUME NEW n \in Nodes, ProcessReceived(n) PROVE AnyNext
  BY <1>3 DEF ProcessReceived, AnyNext, ProgramStep
<1>4. ASSUME NEW n \in Nodes, DriverStep(n) PROVE AnyNext
  BY <1>4 DEF DriverStep, AnyNext, ProgramStep
<1>5. CASE UNCHANGED frameVars
  BY <1>5 DEF frameVars
<1>6. CASE UdsNext
  <2>1. PICK n \in Nodes : \/ Sends(n) \/ CheckReceived(n)
                           \/ ProcessReceived(n) \/ DriverStep(n)
    BY <1>6, UdsSteps
  <2> QED BY <1>1, <1>2, <1>3, <1>4, <2>1
<1> QED BY <1>5, <1>6

-----------------------------------------------------------------------------
(* From transmit() to the callback.                                        *)

(* Frame f is one that node k has made of a message. *)
Brings(k, f) == torn[k] \/ Carries(f, asked[k])

(* Buffers that will be sent or read hold messages that nodes were asked   *)
(* to send; what a receive buffer holds is another node's.                 *)
FramesCarry ==
  \A n \in Nodes :
    /\ pc[n] = "load" => Fits(frame[n]) /\ Carries(frame[n], asked[n])
    /\ pc[n] = "rts" \/ txreq[n] => Fits(txbuf[n]) /\ Brings(n, txbuf[n])
    /\ rx0if[n] => /\ Fits(bus[rxbuf[n]])
                   /\ \E k \in Nodes \ {n} : Brings(k, bus[rxbuf[n]])

Entries == [message : Messages, callback : {"request", "response"}]

HistoryTypes ==
  /\ asked \in [Nodes -> SUBSET Messages]
  /\ handled \in [Nodes -> Seq(Entries)]

(* The inductive invariant of the stack. *)
StackInv ==
  /\ TypeOK /\ Received
  /\ HistoryTypes /\ FramesCarry /\ MessagesArriveWhole

LEMMA StackInitially == UdsInit => StackInv
<1> SUFFICES ASSUME UdsInit PROVE StackInv
  OBVIOUS
<1>1. TypeOK /\ Received
  BY InitIInv DEF UdsInit, IInv
<1>2. HistoryTypes
  BY DEF UdsInit, HistoryTypes
<1>3. FramesCarry
  BY DEF UdsInit, Init, FramesCarry
<1>4. MessagesArriveWhole
  BY DEF UdsInit, MessagesArriveWhole
<1> QED BY <1>1, <1>2, <1>3, <1>4 DEF StackInv

(* A message is put into a frame and the frame is to be loaded. *)
LEMMA StackSends ==
  ASSUME StackInv, NEW n \in Nodes, Sends(n)
  PROVE  HistoryTypes' /\ FramesCarry' /\ MessagesArriveWhole'
<1>1. PICK message \in Messages, f \in FrameRecords :
        Send(n, message, f) /\ Fits(f) /\ Carries(f, {message})
  BY DEF Sends
<1>2. /\ pc' = [pc EXCEPT ![n] = "load"]
      /\ frame' = [frame EXCEPT ![n] = f]
      /\ UNCHANGED <<txbuf, txreq, rxbuf, rx0if, bus, torn, handled>>
      /\ asked' = [asked EXCEPT ![n] = @ \union {message}]
  BY <1>1 DEF Send, Transmit, Goto, controllerVars, historyVars
<1>3. HistoryTypes'
  BY <1>2 DEF StackInv, HistoryTypes
<1>4. \A m \in Nodes : asked[m] \subseteq asked'[m]
  BY <1>2 DEF StackInv, HistoryTypes
<1>5. \A g : \A m \in Nodes : Carries(g, asked[m]) => Carries(g, asked'[m])
  BY <1>4, CarriesMore
<1>12. \A g : \A m \in Nodes : Brings(m, g) => torn'[m] \/ Carries(g, asked'[m])
  BY <1>2, <1>5 DEF Brings
<1>6. Carries(f, asked'[n])
  <2>1. {message} \subseteq asked'[n]
    BY <1>2 DEF StackInv, HistoryTypes
  <2> QED BY <1>1, <2>1, CarriesMore
<1>7. ASSUME NEW m \in Nodes, pc'[m] = "load"
      PROVE  Fits(frame'[m]) /\ Carries(frame'[m], asked'[m])
  <2>1. CASE m = n
    BY <1>1, <1>2, <1>6, <2>1 DEF StackInv, TypeOK
  <2>2. CASE m # n
    <3>1. pc[m] = "load" /\ frame'[m] = frame[m]
      BY <1>2, <1>7, <2>2 DEF StackInv, TypeOK
    <3> QED BY <1>5, <3>1 DEF StackInv, FramesCarry
  <2> QED BY <2>1, <2>2
<1>8. ASSUME NEW m \in Nodes, pc'[m] = "rts" \/ txreq'[m]
      PROVE  /\ Fits(txbuf'[m])
             /\ torn'[m] \/ Carries(txbuf'[m], asked'[m])
  <2>1. pc[m] = "rts" \/ txreq[m]
    BY <1>2, <1>8 DEF StackInv, TypeOK
  <2>2. txbuf' = txbuf /\ Fits(txbuf[m]) /\ Brings(m, txbuf[m])
    BY <1>2, <2>1 DEF StackInv, FramesCarry
  <2> QED BY <1>12, <2>2
<1>9. ASSUME NEW m \in Nodes, rx0if'[m]
      PROVE  /\ Fits(bus'[rxbuf'[m]])
             /\ \E k \in Nodes \ {m} :
                  torn'[k] \/ Carries(bus'[rxbuf'[m]], asked'[k])
  <2>1. bus' = bus /\ rxbuf' = rxbuf /\ rx0if[m]
    BY <1>2, <1>9
  <2>2. PICK k \in Nodes \ {m} : Brings(k, bus[rxbuf[m]])
    BY <2>1 DEF StackInv, FramesCarry
  <2>3. Fits(bus[rxbuf[m]])
    BY <2>1 DEF StackInv, FramesCarry
  <2> QED BY <1>12, <2>1, <2>2, <2>3
<1>10. FramesCarry'
  BY <1>7, <1>8, <1>9 DEF FramesCarry, Brings
<1>11. MessagesArriveWhole'
  <2>1. \A m \in Nodes : \A i \in 1..Len(handled'[m]) :
          handled'[m][i] = handled[m][i]
    BY <1>2
  <2> QED BY <1>2, <1>4 DEF StackInv, MessagesArriveWhole
<1> QED BY <1>3, <1>10, <1>11

(* The frame that ProcessReceived takes apart is the one of the bus. *)
LEMMA ReadsWhatWasSent ==
  ASSUME StackInv, NEW n \in Nodes, ProcessReceived(n)
  PROVE  LET f == received'[n][Len(received'[n])].frame
         IN Fits(f) /\ \E k \in Nodes \ {n} : Brings(k, f)
<1>1. PICK stray \in StrayBytes :
        received' = [received EXCEPT ![n] =
          Append(@, [place |-> got[n],
                     frame |-> FrameOf(RegistersOf(bus[got[n]]), stray),
                     lost  |-> FALSE])]
  BY DEF ProcessReceived, ClearFlag
<1>2. pc[n] = "clear" /\ rx0if[n] /\ got[n] = rxbuf[n]
  BY DEF ProcessReceived, ClearFlag, StackInv, Received, Kept, KeptInOrder
<1>3. Fits(bus[got[n]])
  BY <1>2 DEF StackInv, FramesCarry
<1>10. \E k \in Nodes \ {n} : Brings(k, bus[got[n]])
  BY <1>2 DEF StackInv, FramesCarry
<1>4. FrameOf(RegistersOf(bus[got[n]]), stray) = bus[got[n]]
  <2>1. stray \in Bytes
    BY FrameAssumption
  <2>2. /\ bus[got[n]] \in FrameRecords /\ ~bus[got[n]].extended
        /\ Len(bus[got[n]].data) \in 2..7
    BY <1>3, Zenon DEF Fits
  <2>3. Len(bus[got[n]].data) <= 7
    <3>1. \A k \in 2..7 : k <= 7
      OBVIOUS
    <3> QED BY <2>2, <3>1, Zenon
  <2> QED BY <2>1, <2>2, <2>3, FrameArrives
<1> DEFINE d == received[n]
           e == [place |-> got[n], frame |-> bus[got[n]], lost |-> FALSE]
<1>5. d \in Seq(ReceivedRecords) /\ received'[n] = Append(d, e)
  BY <1>1, <1>4 DEF StackInv, TypeOK
<1>6. e \in ReceivedRecords
  BY <1>3 DEF StackInv, TypeOK, Fits, ReceivedRecords
<1>7. e.frame = bus[got[n]]
  OBVIOUS
<1> HIDE DEF d, e
<1>8. Len(Append(d, e)) = Len(d) + 1 /\ Append(d, e)[Len(d) + 1] = e
  BY <1>5, <1>6, AppendProperties
<1>9. received'[n][Len(received'[n])] = e
  BY <1>5, <1>8
<1> QED BY <1>3, <1>7, <1>9, <1>10

(* What MessagesArriveWhole says of one entry. *)
Whole(n, entry) ==
  /\ entry.callback = "request" <=> entry.message.sid < FirstResponse
  /\ \E m \in Nodes \ {n} :
       \/ torn[m]
       \/ \E message \in asked[m] : entry.message = Counted(message)

LEMMA StackIsWhole ==
  ASSUME StackInv, NEW n \in Nodes, NEW i \in 1..Len(handled[n])
  PROVE  Whole(n, handled[n][i])
BY DEF StackInv, MessagesArriveWhole, Whole

(* The message goes to its callback. *)
LEMMA StackProcesses ==
  ASSUME StackInv, NEW n \in Nodes, ProcessReceived(n)
  PROVE  HistoryTypes' /\ FramesCarry' /\ MessagesArriveWhole'
<1> DEFINE data    == received'[n][Len(received'[n])].frame.data
           message == ParsedMessage(data)
           entry   == [message |-> message, callback |-> CallbackFor(message)]
<1>1. PICK k \in Nodes \ {n} :
        Brings(k, received'[n][Len(received'[n])].frame)
  BY ReadsWhatWasSent
<1>2. torn[k] \/ \E m \in asked[k] : message = Counted(m)
  BY <1>1 DEF Brings, Carries
<1>3. /\ pc' = [pc EXCEPT ![n] = "idle"]
      /\ rx0if' = [rx0if EXCEPT ![n] = FALSE]
      /\ UNCHANGED <<frame, txbuf, txreq, rxbuf, bus, torn, asked>>
  BY DEF ProcessReceived, ClearFlag, Goto
<1>4. \/ handled' = [handled EXCEPT ![n] = Append(@, entry)]
      \/ handled' = handled
  BY DEF ProcessReceived
<1>5. message \in Messages
  <2>1. data \in Seq(Bytes) /\ Len(data) \in 2..7
    BY ReadsWhatWasSent, RecordIsFrame DEF Fits
  <2> QED BY <2>1, ParsedIsMessage
<1> HIDE DEF data
<1>6. /\ entry \in Entries
      /\ entry.message = message
      /\ entry.callback = "request" <=> message.sid < FirstResponse
  BY <1>5 DEF Entries, CallbackFor
<1> HIDE DEF message, entry
<1>7. HistoryTypes'
  <2>1. handled \in [Nodes -> Seq(Entries)] /\ asked \in [Nodes -> SUBSET Messages]
    BY DEF StackInv, HistoryTypes
  <2>2. Append(handled[n], entry) \in Seq(Entries)
    BY <1>6, <2>1, AppendProperties
  <2>3. handled' \in [Nodes -> Seq(Entries)]
    BY <1>4, <2>1, <2>2
  <2> QED BY <1>3, <2>1, <2>3 DEF HistoryTypes
<1>8. FramesCarry'
  <2>1. \A m \in Nodes : /\ pc'[m] = "load" => pc[m] = "load"
                         /\ pc'[m] = "rts" => pc[m] = "rts"
                         /\ rx0if'[m] => rx0if[m]
    BY <1>3 DEF StackInv, TypeOK
  <2> QED BY <1>3, <2>1 DEF StackInv, FramesCarry, Brings
<1>9. ASSUME NEW m \in Nodes, NEW i \in 1..Len(handled'[m])
      PROVE  Whole(m, handled'[m][i])
  <2>1. handled[m] \in Seq(Entries) /\ Len(handled[m]) \in Nat
    BY LenProperties DEF StackInv, HistoryTypes
  <2>2. CASE handled'[m] = handled[m]
    BY <2>2, StackIsWhole
  <2>3. CASE m = n /\ handled' = [handled EXCEPT ![n] = Append(@, entry)]
    <3>1. handled'[m] = Append(handled[m], entry)
      BY <2>3 DEF StackInv, HistoryTypes
    <3>2. /\ Len(handled'[m]) = Len(handled[m]) + 1
          /\ handled'[m][Len(handled[m]) + 1] = entry
          /\ \A j \in 1..Len(handled[m]) : handled'[m][j] = handled[m][j]
      BY <1>6, <2>1, <3>1, AppendProperties
    <3>3. CASE i \in 1..Len(handled[m])
      BY <3>2, <3>3, StackIsWhole
    <3>4. CASE i = Len(handled[m]) + 1
      <4>1. handled'[m][i] = entry
        BY <3>2, <3>4
      <4> QED BY <1>2, <1>6, <2>3, <4>1 DEF Whole
    <3> QED BY <2>1, <3>2, <3>3, <3>4
  <2>4. m # n => handled'[m] = handled[m]
    BY <1>4 DEF StackInv, HistoryTypes
  <2>5. handled' = handled => handled'[m] = handled[m]
    OBVIOUS
  <2> QED BY <1>4, <2>2, <2>3, <2>4, <2>5
<1>10. MessagesArriveWhole'
  <2>1. ASSUME NEW m \in Nodes, NEW i \in 1..Len(handled'[m])
        PROVE  /\ handled'[m][i].callback = "request"
                    <=> handled'[m][i].message.sid < FirstResponse
               /\ \E j \in Nodes \ {m} :
                    \/ torn'[j]
                    \/ \E asking \in asked'[j] :
                         handled'[m][i].message = Counted(asking)
    BY <1>3, <1>9 DEF Whole
  <2> QED BY <2>1 DEF MessagesArriveWhole
<1> QED BY <1>7, <1>8, <1>10

(* A buffer that is loaded or sent holds what it held before. *)
LEMMA StackDrives ==
  ASSUME StackInv, NEW n \in Nodes, DriverStep(n) \/ CheckReceived(n)
  PROVE  FramesCarry'
<1> USE DEF StackInv, TypeOK, Goto
<1>0. UNCHANGED asked
  BY DEF DriverStep, CheckReceived, udsVars
<1>1. ASSUME NEW step \in Steps \ {"load", "rts"},
             pc' = [pc EXCEPT ![n] = step],
             UNCHANGED <<frame, txbuf, rxbuf, bus, torn>>,
             \A m \in Nodes : txreq'[m] => txreq[m] \/ pc[m] = "rts",
             \A m \in Nodes : rx0if'[m] => rx0if[m]
      PROVE  FramesCarry'
  <2>1. \A m \in Nodes : /\ pc'[m] = "load" => pc[m] = "load"
                         /\ pc'[m] = "rts" => pc[m] = "rts"
    BY <1>1
  <2> QED BY <1>0, <1>1, <2>1 DEF FramesCarry, Brings
<1> USE DEF Steps, controllerVars, historyVars
<1>2. CASE Reset(n)
  <2>1. /\ pc' = [pc EXCEPT ![n] = "setup"]
        /\ UNCHANGED <<frame, txbuf, rxbuf, bus, torn>>
    BY <1>2 DEF Reset
  <2>2. /\ \A m \in Nodes : txreq'[m] => txreq[m]
        /\ \A m \in Nodes : rx0if'[m] => rx0if[m]
    BY <1>2 DEF Reset
  <2> QED BY <1>1, <2>1, <2>2
<1>3. CASE SetNormalMode(n)
  <2>1. /\ pc' = [pc EXCEPT ![n] = "idle"]
        /\ UNCHANGED <<frame, txbuf, rxbuf, bus, torn, txreq, rx0if>>
    BY <1>3 DEF SetNormalMode
  <2> QED BY <1>1, <2>1
<1>4. CASE Load(n)
  <2>1. /\ pc[n] = "load" /\ pc' = [pc EXCEPT ![n] = "rts"]
        /\ \/ txbuf' = [txbuf EXCEPT ![n] = frame[n]]
           \/ txreq[n] /\ txbuf' = txbuf
        /\ UNCHANGED <<frame, txreq, rxbuf, rx0if, bus, torn>>
    BY <1>4 DEF Load
  <2>2. Fits(txbuf'[n]) /\ Brings(n, txbuf'[n])
    BY <2>1 DEF FramesCarry, Brings
  <2>3. \A m \in Nodes \ {n} : txbuf'[m] = txbuf[m] /\ pc'[m] = pc[m]
    BY <2>1
  <2>4. pc'[n] = "rts"
    BY <2>1
  <2> QED BY <1>0, <2>1, <2>2, <2>3, <2>4 DEF FramesCarry, Brings
<1>5. CASE RequestToSend(n)
  <2>1. \A m \in Nodes : txreq'[m] => txreq[m] \/ pc[m] = "rts"
    BY <1>5 DEF RequestToSend, AskToSend
  <2>2. /\ pc' = [pc EXCEPT ![n] =
                    IF inCallback[n] THEN "callback" ELSE "idle"]
        /\ UNCHANGED <<frame, txbuf, rxbuf, bus, torn, rx0if>>
    BY <1>5 DEF RequestToSend, AskToSend
  <2> DEFINE step == IF inCallback[n] THEN "callback" ELSE "idle"
  <2>3. step \in Steps \ {"load", "rts"}
    OBVIOUS
  <2> QED BY <1>1, <2>1, <2>2, <2>3
<1>6. CASE ReadStatus(n)
  <2> DEFINE step == IF rx0if[n] THEN "read" ELSE "idle"
  <2>1. /\ pc' = [pc EXCEPT ![n] = step]
        /\ UNCHANGED <<frame, txbuf, rxbuf, bus, torn, txreq, rx0if>>
    BY <1>6 DEF ReadStatus
  <2>2. step \in Steps \ {"load", "rts"}
    OBVIOUS
  <2> QED BY <1>1, <2>1, <2>2
<1>7. CASE ReadBuffer(n)
  <2>1. /\ pc' = [pc EXCEPT ![n] = "clear"]
        /\ UNCHANGED <<frame, txbuf, rxbuf, bus, torn, txreq, rx0if>>
    BY <1>7 DEF ReadBuffer
  <2> QED BY <1>1, <2>1
<1>8. CASE SpiFails(n)
  <2>1. /\ pc' = [pc EXCEPT ![n] = "off"] /\ frame' = frame
        /\ TakenAnyway(n) \/ UNCHANGED <<controllerVars, historyVars>>
    BY <1>8 DEF SpiFails
  <2>2. CASE /\ UNCHANGED <<txbuf, rxbuf, bus, torn>>
             /\ \A m \in Nodes : txreq'[m] => txreq[m] \/ pc[m] = "rts"
             /\ \A m \in Nodes : rx0if'[m] => rx0if[m]
    BY <1>1, <2>1, <2>2
  <2>3. CASE /\ pc[n] = "load" /\ txreq[n]
             /\ \E f \in PartlyLoaded(txbuf[n], frame[n]) :
                  txbuf' = [txbuf EXCEPT ![n] = f]
             /\ overrun' = [overrun EXCEPT ![n] = TRUE]
             /\ torn' = [torn EXCEPT ![n] = TRUE]
             /\ UNCHANGED <<mode, txreq, rxbuf, rx0if, bus, requested, sent,
                            stored, received>>
    <3>1. PICK f \in PartlyLoaded(txbuf[n], frame[n]) :
            txbuf' = [txbuf EXCEPT ![n] = f]
      BY <2>3
    <3>2. Fits(txbuf[n]) /\ Fits(frame[n])
      BY <2>3 DEF FramesCarry
    <3>3. Fits(f)
      <4>1. txbuf[n] \in FrameRecords /\ frame[n] \in FrameRecords
        BY <3>2 DEF Fits
      <4>2. /\ f \in FrameRecords /\ f.extended = frame[n].extended
            /\ Len(f.data) \in {Len(txbuf[n].data), Len(frame[n].data)}
        BY <3>1, <4>1, PartsAreFrames
      <4>3. /\ ~frame[n].extended
            /\ Len(txbuf[n].data) \in 2..7 /\ Len(frame[n].data) \in 2..7
        BY <3>2 DEF Fits
      <4> QED BY <4>2, <4>3 DEF Fits
    <3>4. txbuf'[n] = f /\ torn'[n]
      BY <2>3, <3>1
    <3>5. \A m \in Nodes : /\ torn[m] => torn'[m]
                           /\ m # n => txbuf'[m] = txbuf[m]
                           /\ pc'[m] = "load" => pc[m] = "load"
                           /\ pc'[m] = "rts" => pc[m] = "rts"
      BY <2>1, <2>3, <3>1
    <3>6. rxbuf' = rxbuf /\ bus' = bus /\ txreq' = txreq /\ rx0if' = rx0if
      BY <2>3
    <3>7. ASSUME NEW m \in Nodes, pc'[m] = "rts" \/ txreq'[m]
          PROVE  /\ Fits(txbuf'[m])
                 /\ torn'[m] \/ Carries(txbuf'[m], asked'[m])
      <4>1. CASE m = n
        BY <3>3, <3>4, <4>1
      <4>2. CASE m # n
        BY <1>0, <3>5, <3>6, <3>7, <4>2 DEF FramesCarry, Brings
      <4> QED BY <4>1, <4>2
    <3>8. ASSUME NEW m \in Nodes, rx0if'[m]
          PROVE  /\ Fits(bus'[rxbuf'[m]])
                 /\ \E k \in Nodes \ {m} :
                      torn'[k] \/ Carries(bus'[rxbuf'[m]], asked'[k])
      BY <1>0, <3>5, <3>6, <3>8 DEF FramesCarry, Brings
    <3>9. \A m \in Nodes : pc'[m] = "load" =>
            Fits(frame'[m]) /\ Carries(frame'[m], asked'[m])
      BY <1>0, <2>1, <3>5 DEF FramesCarry
    <3> QED BY <3>7, <3>8, <3>9 DEF FramesCarry, Brings
  <2>4. CASE UNCHANGED <<controllerVars, historyVars>>
    BY <2>2, <2>4
  <2>5. CASE /\ pc[n] = "setup"
             /\ mode' = [mode EXCEPT ![n] = "normal"]
             /\ UNCHANGED <<txbuf, txreq, rxbuf, rx0if, historyVars>>
    BY <2>2, <2>5
  <2>6. CASE pc[n] = "rts" /\ AskToSend(n)
    BY <2>2, <2>6 DEF AskToSend
  <2>7. CASE /\ pc[n] = "clear"
             /\ rx0if' = [rx0if EXCEPT ![n] = FALSE]
             /\ LoseKept(n)
             /\ UNCHANGED <<mode, txbuf, txreq, rxbuf, bus, requested, sent,
                            overrun, torn, stored>>
    BY <2>2, <2>7
  <2> QED BY <2>1, <2>3, <2>4, <2>5, <2>6, <2>7 DEF TakenAnyway
<1>9. CASE CheckReceived(n)
  <2>1. /\ pc' = [pc EXCEPT ![n] = "status"]
        /\ UNCHANGED <<frame, txbuf, rxbuf, bus, torn, txreq, rx0if>>
    BY <1>9 DEF CheckReceived, Receive
  <2> QED BY <1>1, <2>1
<1>10. CASE SendOnBus(n)
  <2> DEFINE keeps(m) == m # n /\ mode[m] = "normal" /\ ~rx0if[m]
             place    == Len(bus) + 1
  <2>1. /\ txreq[n] /\ txreq' = [txreq EXCEPT ![n] = FALSE]
        /\ bus' = Append(bus, txbuf[n])
        /\ rxbuf' = [m \in Nodes |-> IF keeps(m) THEN place ELSE rxbuf[m]]
        /\ rx0if' = [m \in Nodes |-> keeps(m) \/ rx0if[m]]
        /\ UNCHANGED <<pc, frame, txbuf, torn>>
    BY <1>10 DEF SendOnBus, driverVars
  <2>2. Fits(txbuf[n]) /\ Brings(n, txbuf[n])
    BY <2>1 DEF FramesCarry
  <2>3. /\ bus'[place] = txbuf[n]
        /\ \A i \in 1..Len(bus) : bus'[i] = bus[i]
    BY <2>1, AppendProperties
  <2>4. ASSUME NEW m \in Nodes, rx0if'[m]
        PROVE  /\ Fits(bus'[rxbuf'[m]])
               /\ \E k \in Nodes \ {m} : Brings(k, bus'[rxbuf'[m]])
    <3>1. CASE keeps(m)
      <4>1. rxbuf'[m] = place /\ n \in Nodes \ {m}
        BY <2>1, <3>1
      <4> QED BY <2>2, <2>3, <4>1
    <3>2. CASE ~keeps(m)
      <4>1. rx0if[m] /\ rxbuf'[m] = rxbuf[m]
        BY <2>1, <2>4, <3>2
      <4>2. rxbuf[m] \in 1..Len(bus)
        BY <4>1 DEF Received, Places
      <4> QED BY <2>3, <4>1, <4>2 DEF FramesCarry
    <3> QED BY <3>1, <3>2
  <2>5. ASSUME NEW m \in Nodes
        PROVE  /\ pc'[m] = "load" =>
                    Fits(frame'[m]) /\ Carries(frame'[m], asked'[m])
               /\ pc'[m] = "rts" \/ txreq'[m] =>
                    Fits(txbuf'[m]) /\ Brings(m, txbuf'[m])
    <3>1. txreq'[m] => txreq[m]
      BY <2>1
    <3> QED BY <1>0, <2>1, <3>1 DEF FramesCarry
  <2>6. torn' = torn /\ asked' = asked
    BY <1>0, <2>1
  <2> QED BY <2>4, <2>5, <2>6 DEF FramesCarry, Brings
<1> QED
  BY <1>2, <1>3, <1>4, <1>5, <1>6, <1>7, <1>8, <1>9, <1>10 DEF DriverStep

(* Once a load has failed half way nothing is promised of its node. *)
LEMMA TornStays ==
  ASSUME TypeOK, NEW n \in Nodes, DriverStep(n) \/ CheckReceived(n)
  PROVE  \A m \in Nodes : torn[m] => torn'[m]
<1>1. ASSUME SpiFails(n) PROVE \A m \in Nodes : torn[m] => torn'[m]
  BY <1>1
  DEF SpiFails, TakenAnyway, AskToSend, LoseKept, historyVars, TypeOK
<1>2. ASSUME ~SpiFails(n) PROVE torn' = torn
  BY <1>2
  DEF DriverStep, CheckReceived, Receive, Reset, SetNormalMode, Load,
      RequestToSend, AskToSend, ReadStatus, ReadBuffer, SendOnBus,
      historyVars
<1> QED BY <1>1, <1>2

LEMMA StackStep ==
  ASSUME StackInv, [UdsNext]_frameVars
  PROVE  StackInv'
<1>1. TypeOK' /\ Received'
  BY StepOfDriver, TypeStep, ReceivedStep DEF StackInv, Received
<1>2. HistoryTypes' /\ FramesCarry' /\ MessagesArriveWhole'
  <2>1. CASE UNCHANGED frameVars
    BY <2>1
    DEF frameVars, vars, udsVars, driverVars, controllerVars, historyVars,
        StackInv, HistoryTypes, FramesCarry, Brings, MessagesArriveWhole
  <2>2. ASSUME NEW n \in Nodes, DriverStep(n) \/ CheckReceived(n)
        PROVE  HistoryTypes' /\ FramesCarry' /\ MessagesArriveWhole'
    <3>1. UNCHANGED udsVars
      BY <2>2 DEF DriverStep, CheckReceived
    <3>2. FramesCarry'
      BY <2>2, StackDrives
    <3>3. \A m \in Nodes : torn[m] => torn'[m]
      BY <2>2, TornStays DEF StackInv
    <3> QED
      BY <3>1, <3>2, <3>3
      DEF udsVars, StackInv, HistoryTypes, MessagesArriveWhole
  <2>3. CASE UdsNext
    <3>1. PICK n \in Nodes : \/ Sends(n) \/ CheckReceived(n)
                             \/ ProcessReceived(n) \/ DriverStep(n)
      BY <2>3, UdsSteps
    <3> QED BY <2>2, <3>1, StackSends, StackProcesses
  <2> QED BY <2>1, <2>3
<1> QED BY <1>1, <1>2 DEF StackInv

(* Whatever the nodes send, refuse and answer, however their drivers and   *)
(* the bus interleave, and wherever a program fails and starts again, a    *)
(* callback gets a message that another node was asked to send, of its     *)
(* kind, and all of it that the length in a byte counts; only a load that  *)
(* failed over a pending frame may have mixed two.                         *)
THEOREM MessagesAreWhole == UdsSpec => []MessagesArriveWhole
<1>1. StackInv /\ [UdsNext]_frameVars => StackInv'
  BY StackStep
<1>2. StackInv => MessagesArriveWhole
  BY DEF StackInv
<1> QED BY StackInitially, <1>1, <1>2, PTL DEF UdsSpec
=============================================================================
