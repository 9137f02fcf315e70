----------------------------- MODULE RadioProofs -----------------------------
(***************************************************************************)
(* Proofs about Radio for any buffer size, lengths, fifo and timeouts: what *)
(* the interrupt handler, the main loop, the timer and the chip do to each  *)
(* other's state between any two of their steps.                           *)
(***************************************************************************)
EXTENDS Radio, TLAPS

Receiving == ctrl.state \in {"RX_IDLE", "RX_ACTIVE"}

ModesInv ==
  /\ chip.mode \in {"rx", "tx"}
  /\ pc = "reset" => Receiving
  /\ ModesAgree

(* The frame in the transmit buffer and how much of it the chip has got. *)
SendInv ==
  /\ ctrl.txstate = "occupied" => tx_len \in Lengths
  /\ ~Receiving => ctrl.txstate = "occupied" /\ ctrl.num_bytes = TxBytes(tx_len)
  /\ ctrl.state = "TX" => sent = ctrl.bytecount /\ ctrl.bytecount <= ctrl.num_bytes
  /\ ctrl.state = "TX_END" => sent = ctrl.num_bytes
  /\ pc \in {"sense", "sensed", "start"} => ctrl.txstate = "occupied" /\ Receiving

(* The watchdog finds a transmission only when the handler will not run. *)
WatchInv ==
  /\ last > Timeout /\ ~occurred =>
       /\ isr = "off" /\ pc \notin {"sense", "sensed", "start", "started"}
       /\ chip.mode = "rx" \/ (chip.ready /\ ~pcif)
       /\ ctrl.state # "RX_IDLE" \/ pc = "reset"
  /\ last > Timeout /\ occurred => Receiving \/ pc = "started" \/ holdoff > 0
  /\ pc = "reset" /\ chip.mode = "tx" => isr = "off" /\ ~pcif /\ chip.ready

(* The frames in the buffers: those of the chip, older ones first. *)
Held(i) == rx[i].occupied
FramesInv ==
  /\ chip.fifo # <<>> => chip.synced
  /\ chip.synced => chip.mode = "rx" /\ taken < chip.frame
  /\ taken <= chip.frame
  /\ \A i \in 0 .. 1 : Held(i) =>
       /\ rx[i].frame <= chip.frame
       /\ chip.synced => rx[i].frame < chip.frame
       /\ IF pc = "clear" /\ i = ctrl.out THEN rx[i].frame = taken
                                          ELSE rx[i].frame > taken
  /\ Held(0) /\ Held(1) => rx[NextOut].frame < rx[1 - NextOut].frame

Inv == TypeOK /\ ModesInv /\ SendInv /\ WatchInv /\ RxRing /\ FramesInv

-----------------------------------------------------------------------------
(* Records *)

LEMMA Sizes ==
  /\ RFM12_TRX_FRAME_SIZE \in Nat /\ RFM12_TRX_OVERHEAD = 3 /\ SyncBytes = 2
  /\ FifoSize \in Nat \ {0} /\ Timeout \in Nat \ {0} /\ Holdoff \in Nat \ {0}
  /\ MaxFrames \in Nat
  /\ \A len \in Lengths : len \in Nat /\ 1 <= len /\ len <= RFM12_TRX_FRAME_SIZE
  /\ \A len \in NoiseLengths : len \in Nat
BY RadioAssumption DEF RFM12_TRX_OVERHEAD, SyncBytes

LEMMA CtrlSet ==
  /\ Ctrl = [state : State, txstate : BuffState, num_bytes : Nat,
             bytecount : 0 .. RFM12_TRX_FRAME_SIZE + 5, in : 0 .. 1, out : 0 .. 1]
  /\ 0 \in 0 .. RFM12_TRX_FRAME_SIZE + 5
<1>1. 0 .. SyncBytes + RFM12_TRX_OVERHEAD + RFM12_TRX_FRAME_SIZE
        = 0 .. RFM12_TRX_FRAME_SIZE + 5
  BY Sizes
<1>2. 0 \in 0 .. RFM12_TRX_FRAME_SIZE + 5
  BY Sizes
<1> QED
  BY <1>1, <1>2 DEF Ctrl

LEMMA CtrlParts ==
  ASSUME NEW c \in Ctrl
  PROVE  /\ c.state \in State /\ c.txstate \in BuffState /\ c.num_bytes \in Nat
         /\ c.bytecount \in 0 .. RFM12_TRX_FRAME_SIZE + 5 /\ c.bytecount \in Int
         /\ c.in \in 0 .. 1 /\ c.out \in 0 .. 1
<1>1. /\ c.state \in State /\ c.txstate \in BuffState /\ c.num_bytes \in Nat
      /\ c.bytecount \in 0 .. RFM12_TRX_FRAME_SIZE + 5
      /\ c.in \in 0 .. 1 /\ c.out \in 0 .. 1
  BY CtrlSet
<1>2. c.bytecount \in Int
  BY <1>1, Sizes
<1> QED
  BY <1>1, <1>2

LEMMA ChipParts ==
  ASSUME NEW c \in Chip
  PROVE  /\ c.mode \in {"rx", "off", "tx"} /\ c.synced \in BOOLEAN
         /\ c.frame \in 0 .. MaxFrames /\ c.frame \in Nat /\ c.len \in Nat
         /\ c.pos \in Nat /\ c.fifo \in Seq(Nat) /\ c.ready \in BOOLEAN
BY Sizes DEF Chip

LEMMA BufferParts ==
  ASSUME NEW b \in RxBuffer
  PROVE  /\ b.occupied \in BOOLEAN /\ b.frame \in 0 .. MaxFrames /\ b.frame \in Nat
         /\ b.len \in 0 .. RFM12_TRX_FRAME_SIZE + 3 /\ b.len \in Nat
BY Sizes DEF RxBuffer

LEMMA IdleParts ==
  ASSUME NEW c \in Ctrl
  PROVE  /\ Idle(c) \in Ctrl /\ Idle(c).state = "RX_IDLE"
         /\ Idle(c).txstate = c.txstate /\ Idle(c).in = c.in /\ Idle(c).out = c.out
BY CtrlSet DEF Idle, State

LEMMA HandOverParts ==
  ASSUME NEW c \in Ctrl
  PROVE  /\ HandOver(c) \in Ctrl /\ HandOver(c).state = "RX_IDLE"
         /\ HandOver(c).txstate = c.txstate
         /\ HandOver(c).in = 1 - c.in /\ HandOver(c).out = c.out
<1> DEFINE d == Idle(c)
<1>1. d \in Ctrl /\ d.state = "RX_IDLE" /\ d.txstate = c.txstate
      /\ d.in = c.in /\ d.out = c.out
  BY IdleParts
<1> DEFINE h == [d EXCEPT !.in = 1 - d.in]
<1>2. HandOver(c) = h
  BY DEF HandOver
<1> HIDE DEF d
<1>3. 1 - d.in \in 0 .. 1
  BY <1>1, CtrlParts
<1>4. h \in Ctrl /\ h.state = d.state /\ h.txstate = d.txstate
      /\ h.in = 1 - d.in /\ h.out = d.out
  BY <1>1, <1>3, CtrlSet
<1> QED
  BY <1>1, <1>2, <1>4

LEMMA FifoResetParts ==
  ASSUME NEW c \in Chip
  PROVE  /\ FifoReset(c) \in Chip /\ FifoReset(c).mode = c.mode
         /\ FifoReset(c).frame = c.frame /\ FifoReset(c).ready = c.ready
         /\ FifoReset(c).fifo = <<>> /\ FifoReset(c).synced = FALSE
<1>1. <<>> \in Seq(Nat)
  OBVIOUS
<1> QED
  BY <1>1 DEF FifoReset, Chip

LEMMA LoadByteParts ==
  ASSUME NEW c \in Chip
  PROVE  /\ LoadByte(c) \in Chip /\ LoadByte(c).mode = c.mode
         /\ LoadByte(c).frame = c.frame /\ LoadByte(c).ready = FALSE
         /\ LoadByte(c).fifo = c.fifo /\ LoadByte(c).synced = c.synced
BY DEF LoadByte, Chip

LEMMA ModeParts ==
  ASSUME NEW c \in Chip
  PROVE  /\ Receiver(c) \in Chip /\ Receiver(c).mode = "rx"
         /\ Receiver(c).frame = c.frame /\ Receiver(c).ready = c.ready
         /\ Receiver(c).fifo = c.fifo /\ Receiver(c).synced = c.synced
         /\ Transmitter(c) \in Chip /\ Transmitter(c).mode = "tx"
         /\ Transmitter(c).frame = c.frame /\ Transmitter(c).ready = c.ready
         /\ Transmitter(c).fifo = c.fifo /\ Transmitter(c).synced = c.synced
BY DEF Receiver, Transmitter, Chip

LEMMA InitInv ==
  ASSUME Init
  PROVE  Inv
<1>1. TypeOK
  <2>1. ctrl \in Ctrl
    BY CtrlSet DEF Init, State, BuffState
  <2>2. rx \in [0 .. 1 -> RxBuffer]
    BY Sizes DEF Init, RxBuffer
  <2>3. chip \in Chip
    <3>1. <<>> \in Seq(Nat)
      OBVIOUS
    <3> QED
      BY <3>1, Sizes DEF Init, Chip
  <2> QED
    <3>1. /\ checksum = 0 /\ tx_len = 0 /\ sent = 0 /\ mask = TRUE /\ pcif = FALSE
          /\ isr = "off" /\ occurred = FALSE /\ pc = "tx" /\ holdoff = 0
          /\ last = 0 /\ taken = 0
      BY DEF Init
    <3>2. /\ 0 \in -1 .. RFM12_TRX_OVERHEAD /\ 0 \in 0 .. Holdoff
          /\ 0 \in 0 .. Timeout + 1 /\ 0 \in 0 .. MaxFrames
      BY Sizes
    <3>3. mask \in BOOLEAN /\ pcif \in BOOLEAN /\ occurred \in BOOLEAN
      BY <3>1
    <3> QED
      BY <2>1, <2>2, <2>3, <3>1, <3>2, <3>3 DEF TypeOK
<1>2. ModesInv /\ SendInv
  BY DEF Init, ModesInv, ModesAgree, SendInv, Receiving
<1>3. WatchInv
  BY Sizes DEF Init, WatchInv
<1>4. RxRing /\ FramesInv
  BY DEF Init, RxRing, FramesInv, NextOut, Held
<1> QED
  BY <1>1, <1>2, <1>3, <1>4 DEF Inv

-----------------------------------------------------------------------------
(* The invariant says what it says of every variable but the mask. *)

LEMMA Parts ==
  ASSUME TypeOK
  PROVE  /\ ctrl \in Ctrl /\ rx \in [0 .. 1 -> RxBuffer] /\ chip \in Chip
         /\ rx[ctrl.in] \in RxBuffer /\ rx[ctrl.out] \in RxBuffer
         /\ tx_len \in Nat /\ sent \in Int
         /\ last \in Int /\ holdoff \in Int /\ taken \in Nat
BY CtrlParts, Sizes DEF TypeOK

LEMMA Stutter ==
  ASSUME Inv, UNCHANGED vars
  PROVE  Inv'
<1> USE DEF vars, driverVars, intVars, loopVars
<1>1. TypeOK'
  BY DEF Inv, TypeOK
<1>2. ModesInv' /\ SendInv'
  BY DEF Inv, ModesInv, ModesAgree, SendInv, Receiving
<1>3. WatchInv'
  BY DEF Inv, WatchInv, Receiving
<1>4. RxRing' /\ FramesInv'
  BY DEF Inv, RxRing, FramesInv, NextOut, Held
<1> QED
  BY <1>1, <1>2, <1>3, <1>4 DEF Inv

LEMMA FrameStartsStep ==
  ASSUME Inv, FrameStarts
  PROVE  Inv'
<1> USE DEF driverVars, intVars, loopVars
<1>1. /\ chip' \in Chip /\ chip'.mode = chip.mode /\ chip.mode = "rx"
      /\ chip'.ready = chip.ready /\ chip'.synced /\ ~chip.synced
      /\ chip'.frame = chip.frame + 1
      /\ chip.frame \in Nat
  <2>1. PICK len \in Lengths : chip' = [chip EXCEPT !.synced = TRUE,
                                 !.frame = chip.frame + 1, !.len = len, !.pos = 0]
    BY DEF FrameStarts
  <2>2. chip \in Chip /\ len \in Nat /\ chip.frame + 1 \in 0 .. MaxFrames
    <3>1. chip \in Chip
      BY DEF Inv, TypeOK
    <3>2. chip.frame \in Nat /\ chip.frame < MaxFrames /\ MaxFrames \in Nat
      BY <3>1, Sizes, ChipParts DEF FrameStarts
    <3>3. len \in Nat
      BY Sizes
    <3> QED
      BY <3>1, <3>2, <3>3
  <2> QED
    BY <2>1, <2>2, ChipParts DEF FrameStarts, Chip
<1>2. TypeOK'
  BY <1>1 DEF Inv, TypeOK, FrameStarts
<1>3. ModesInv' /\ SendInv'
  BY <1>1 DEF Inv, ModesInv, ModesAgree, SendInv, Receiving, FrameStarts
<1>4. WatchInv'
  BY <1>1 DEF Inv, WatchInv, Receiving, FrameStarts
<1>5. RxRing'
  BY DEF FrameStarts, Inv, RxRing, NextOut
<1>6. FramesInv'
  <2>1. \A i \in 0 .. 1 : rx[i].frame \in Nat
    BY Parts, BufferParts DEF Inv
  <2> QED
    BY <1>1, <2>1, Parts DEF Inv, FramesInv, NextOut, Held, FrameStarts
<1> QED
  BY <1>2, <1>3, <1>4, <1>5, <1>6 DEF Inv

LEMMA ByteInStep ==
  ASSUME Inv, ByteIn
  PROVE  Inv'
<1> USE DEF driverVars, loopVars
<1>1. /\ chip' \in Chip /\ chip'.mode = chip.mode /\ chip.mode = "rx"
      /\ chip'.ready = chip.ready /\ chip'.synced /\ chip.synced
      /\ chip'.frame = chip.frame
  <2>1. PICK noise \in {TRUE, chip.pos = FrameBytes(chip.len)} :
          chip' = [chip EXCEPT
            !.pos  = IF noise THEN FrameBytes(chip.len) ELSE chip.pos + 1,
            !.fifo = IF Len(chip.fifo) = FifoSize THEN chip.fifo
                     ELSE Append(chip.fifo, IF noise THEN 0 ELSE chip.pos + 1)]
    BY DEF ByteIn
  <2> DEFINE pos == IF noise THEN FrameBytes(chip.len) ELSE chip.pos + 1
             fifo == IF Len(chip.fifo) = FifoSize THEN chip.fifo
                     ELSE Append(chip.fifo, IF noise THEN 0 ELSE chip.pos + 1)
  <2>2. chip \in Chip /\ pos \in Nat /\ fifo \in Seq(Nat)
    BY Sizes, ChipParts DEF Inv, TypeOK, FrameBytes
  <2>3. chip' = [chip EXCEPT !.pos = pos, !.fifo = fifo]
    BY <2>1
  <2> HIDE DEF pos, fifo
  <2> QED
    BY <2>2, <2>3, ChipParts DEF ByteIn, Chip
<1>2. pcif' \in BOOLEAN
  BY DEF ByteIn, Notice, Inv, TypeOK
<1>3. TypeOK'
  BY <1>1, <1>2 DEF Inv, TypeOK, ByteIn
<1>4. ModesInv' /\ SendInv'
  BY <1>1 DEF Inv, ModesInv, ModesAgree, SendInv, Receiving, ByteIn
<1>5. WatchInv'
  BY <1>1 DEF Inv, WatchInv, Receiving, ByteIn
<1>6. RxRing'
  BY DEF ByteIn, Inv, RxRing, NextOut
<1>7. FramesInv'
  BY <1>1 DEF Inv, FramesInv, NextOut, Held, ByteIn
<1> QED
  BY <1>3, <1>4, <1>5, <1>6, <1>7 DEF Inv

LEMMA ByteOutStep ==
  ASSUME Inv, ByteOut
  PROVE  Inv'
<1> USE DEF driverVars, loopVars
<1>1. /\ chip' \in Chip /\ chip'.mode = chip.mode /\ chip.mode = "tx"
      /\ chip'.ready /\ ~chip.ready /\ chip'.synced = chip.synced
      /\ chip'.frame = chip.frame /\ chip'.fifo = chip.fifo
  BY Parts, ChipParts DEF Inv, ByteOut, Chip
<1>2. pcif' \in BOOLEAN
  BY DEF ByteOut, Notice, Inv, TypeOK
<1>3. TypeOK'
  BY <1>1, <1>2 DEF Inv, TypeOK, ByteOut
<1>4. ModesInv' /\ SendInv'
  BY <1>1 DEF Inv, ModesInv, ModesAgree, SendInv, Receiving, ByteOut
<1>5. WatchInv'
  BY <1>1 DEF Inv, WatchInv, Receiving, ByteOut
<1>6. RxRing'
  BY DEF ByteOut, Inv, RxRing, NextOut
<1>7. FramesInv'
  BY <1>1 DEF Inv, FramesInv, NextOut, Held, ByteOut
<1> QED
  BY <1>3, <1>4, <1>5, <1>6, <1>7 DEF Inv

-----------------------------------------------------------------------------
(* The interrupt handler *)

LEMMA IsrEnterStep ==
  ASSUME Inv, IsrEnter
  PROVE  Inv'
<1> USE DEF driverVars, loopVars
<1>1. TypeOK'
  <2>1. mask' \in BOOLEAN /\ pcif' \in BOOLEAN /\ occurred' \in BOOLEAN
        /\ isr' \in {"off", "loop", "leave"}
    BY DEF Inv, TypeOK, IsrEnter
  <2> QED
    BY <2>1 DEF Inv, TypeOK, IsrEnter
<1>2. ModesInv' /\ SendInv'
  BY DEF Inv, ModesInv, ModesAgree, SendInv, Receiving, IsrEnter
<1>3. WatchInv'
  <2>1. ctrl.state \in State
    BY Parts, CtrlParts DEF Inv
  <2>2. last > Timeout => Receiving \/ pc = "started" \/ holdoff > 0
    BY <2>1 DEF Inv, WatchInv, ModesInv, ModesAgree, Receiving, State, IsrEnter
  <2> QED
    BY <2>2 DEF Inv, WatchInv, Receiving, IsrEnter
<1>4. RxRing' /\ FramesInv'
  BY DEF Inv, RxRing, FramesInv, NextOut, Held, IsrEnter
<1> QED
  BY <1>1, <1>2, <1>3, <1>4 DEF Inv

(* In the handler's loop the timer has seen the interrupt or will. *)
LEMMA InLoop ==
  ASSUME Inv, isr = "loop"
  PROVE  /\ last > Timeout => occurred
         /\ pc = "reset" => chip.mode = "rx"
BY DEF Inv, WatchInv, ModesInv

(* What is left to show of a turn that ends up receiving or idle. *)
LEMMA TurnWatch ==
  ASSUME Inv, NEW s, Turn(s), Receiving' \/ ~Receiving, chip'.mode \in {chip.mode, "rx"}
  PROVE  WatchInv'
<1>1. isr = "loop" /\ UNCHANGED <<isr, occurred, pc, holdoff, last>>
  BY DEF Turn, loopVars
<1>2. last > Timeout => occurred
  BY <1>1, InLoop
<1>3. pc = "reset" => chip'.mode = "rx"
  BY <1>1, InLoop
<1> QED
  BY <1>1, <1>2, <1>3 DEF Inv, WatchInv, Receiving

LEMMA StoredLenType ==
  ASSUME Inv, NEW b, NEW len \in LengthsIn(b)
  PROVE  StoredLen(len) \in 0 .. RFM12_TRX_FRAME_SIZE + 3
<1>1. len \in Nat
  BY Parts, ChipParts, Sizes DEF LengthsIn, Inv
<1>2. Clipped(len) \in 0 .. RFM12_TRX_FRAME_SIZE + 3
  BY <1>1, Sizes DEF Clipped, Least
<1>3. rx[ctrl.in].len \in 0 .. RFM12_TRX_FRAME_SIZE + 3
  BY Parts, BufferParts DEF Inv
<1> QED
  BY <1>2, <1>3 DEF StoredLen

LEMMA IsrReceiveStep ==
  ASSUME Inv, IsrReceive
  PROVE  Inv'
<1> USE DEF driverVars, loopVars
<1> DEFINE b == IF chip.mode = "rx" THEN Head(chip.fifo) ELSE 0
           c == IF chip.mode = "rx" THEN [chip EXCEPT !.fifo = Tail(chip.fifo)]
                ELSE chip
<1>1. /\ isr = "loop" /\ Request(chip) /\ ~rx[ctrl.in].occupied /\ Receiving
      /\ pcif' = FALSE
      /\ UNCHANGED <<tx_len, mask, isr, occurred, pc, holdoff, last, taken, sent>>
  BY DEF IsrReceive, Turn, NextState, Receiving, Inv, TypeOK, Ctrl, State
<1>2. chip.mode = "rx" /\ chip.fifo # <<>> /\ chip.synced
  BY <1>1, InLoop DEF Inv, ModesInv, ModesAgree, FramesInv, Request, Receiving
<1>3. /\ c \in Chip /\ c.mode = "rx" /\ c.synced /\ c.frame = chip.frame
      /\ c.ready = chip.ready
  <2>1. chip \in Chip /\ Tail(chip.fifo) \in Seq(Nat)
    BY <1>2, Parts, ChipParts DEF Inv
  <2> QED
    BY <1>2, <2>1 DEF Chip
<1>4. SumWith(b) \in -1 .. RFM12_TRX_OVERHEAD /\ 0 \in -1 .. RFM12_TRX_OVERHEAD
  BY Sizes DEF SumWith
<1>5. PICK len \in LengthsIn(b) :
        IF Complete(StoredLen(len))
          THEN /\ rx' = [rx EXCEPT ![ctrl.in] = [occupied |-> TRUE,
                           len |-> StoredLen(len), frame |-> chip.frame]]
               /\ ctrl' = HandOver(ctrl)
               /\ checksum' = 0
               /\ chip' = FifoReset(c)
          ELSE /\ rx' = [rx EXCEPT ![ctrl.in].len = StoredLen(len)]
               /\ ctrl' = [ctrl EXCEPT !.state = "RX_ACTIVE",
                                       !.bytecount = ctrl.bytecount + 1]
               /\ checksum' = SumWith(b)
               /\ chip' = c
  BY DEF IsrReceive
<1> DEFINE l == StoredLen(len)
<1>6. l \in 0 .. RFM12_TRX_FRAME_SIZE + 3 /\ l \in Nat
  BY StoredLenType, Sizes
<1> HIDE DEF b, c, l
<1>7. /\ ctrl \in Ctrl /\ rx \in [0 .. 1 -> RxBuffer] /\ chip \in Chip
      /\ ctrl.in \in 0 .. 1 /\ ctrl.out \in 0 .. 1
      /\ chip.frame \in 0 .. MaxFrames /\ chip.frame \in Nat
  BY Parts, CtrlParts, ChipParts DEF Inv
<1>8. CASE Complete(l)
  <2> DEFINE e == [occupied |-> TRUE, len |-> l, frame |-> chip.frame]
  <2>1. rx' = [rx EXCEPT ![ctrl.in] = e] /\ checksum' = 0
        /\ ctrl' = HandOver(ctrl) /\ chip' = FifoReset(c)
    BY <1>5, <1>8 DEF l
  <2>2. e \in RxBuffer /\ e.occupied /\ e.frame = chip.frame
    BY <1>6, <1>7, Sizes DEF RxBuffer
  <2> HIDE DEF e
  <2>3. /\ ctrl' \in Ctrl /\ ctrl'.state = "RX_IDLE" /\ ctrl'.txstate = ctrl.txstate
        /\ ctrl'.in = 1 - ctrl.in /\ ctrl'.out = ctrl.out
    BY <1>7, <2>1, HandOverParts
  <2>4. /\ chip' \in Chip /\ chip'.mode = "rx" /\ chip'.frame = chip.frame
        /\ chip'.fifo = <<>> /\ ~chip'.synced
    BY <1>3, <2>1, FifoResetParts
  <2>5. /\ rx' \in [0 .. 1 -> RxBuffer] /\ rx'[ctrl.in] = e
        /\ rx'[1 - ctrl.in] = rx[1 - ctrl.in]
    BY <1>7, <2>1, <2>2
  <2>6. TypeOK'
    BY <1>1, <1>4, <2>1, <2>3, <2>4, <2>5 DEF Inv, TypeOK
  <2>7. ModesInv' /\ SendInv'
    BY <1>1, <1>2, <2>3, <2>4 DEF Inv, ModesInv, ModesAgree, SendInv, Receiving
  <2>8. WatchInv'
    BY <2>3, <2>4, TurnWatch DEF IsrReceive, Receiving
  <2>9. RxRing' /\ FramesInv'
    <3>1. \A i \in 0 .. 1 : i = ctrl.in \/ i = 1 - ctrl.in
      BY <1>7
    <3>2. NextOut \in 0 .. 1 /\ NextOut' = NextOut /\ 1 - ctrl.in \in 0 .. 1
          /\ (NextOut = ctrl.in \/ NextOut = 1 - ctrl.in)
      BY <1>1, <1>7, <2>3 DEF NextOut
    <3>3. \A i \in 0 .. 1 : rx[i].occupied \in BOOLEAN /\ rx[i].frame \in Nat
      BY <1>7, BufferParts
    <3>4. taken < chip.frame /\ taken \in Nat
      BY <1>2, Parts DEF Inv, FramesInv
    <3>5. RxRing'
      <4>1. ctrl.in = NextOut => ~rx[1 - ctrl.in].occupied
        BY <1>1, <1>7, <3>2, <3>3 DEF Inv, RxRing
      <4>2. ctrl.in # NextOut => rx[NextOut].occupied /\ NextOut = 1 - ctrl.in
        BY <3>2 DEF Inv, RxRing
      <4>3. pc = "clear" => ctrl.out # ctrl.in /\ NextOut = ctrl.out
        BY <1>1 DEF Inv, RxRing, NextOut
      <4>4. IF (1 - ctrl.in) = NextOut
              THEN rx'[0].occupied = rx'[1].occupied
              ELSE rx'[NextOut].occupied /\ ~rx'[1 - ctrl.in].occupied
        <5>1. CASE ctrl.in = NextOut
          BY <1>7, <2>2, <2>5, <4>1, <5>1
        <5>2. CASE ctrl.in # NextOut
          <6>1. rx'[0].occupied = TRUE /\ rx'[1].occupied = TRUE
            BY <1>7, <2>2, <2>5, <3>1, <3>3, <4>2, <5>2
          <6> QED
            BY <4>2, <5>2, <6>1
        <5> QED
          BY <5>1, <5>2
      <4>5. pc' = "clear" => rx'[ctrl'.out].occupied /\ rx'[ctrl'.out].frame = taken'
        BY <1>1, <1>7, <2>3, <2>5, <3>1, <4>3 DEF Inv, RxRing
      <4> QED
        BY <2>3, <3>2, <4>4, <4>5 DEF RxRing
    <3>6. FramesInv'
      <4>1. ASSUME NEW i \in 0 .. 1, Held(i)'
            PROVE  /\ rx'[i].frame <= chip.frame
                   /\ IF pc = "clear" /\ i = ctrl.out THEN rx'[i].frame = taken
                                                      ELSE rx'[i].frame > taken
        <5>1. CASE i = ctrl.in
          <6>1. ~(pc = "clear" /\ i = ctrl.out)
            BY <1>1, <5>1 DEF Inv, RxRing
          <6> QED
            BY <1>7, <2>2, <2>5, <3>4, <5>1, <6>1
        <5>2. CASE i = 1 - ctrl.in
          BY <2>5, <4>1, <5>2 DEF Inv, FramesInv, Held
        <5> QED
          BY <3>1, <5>1, <5>2
      <4>2. Held(0)' /\ Held(1)' => rx'[NextOut].frame < rx'[1 - NextOut].frame
        <5>1. ASSUME Held(0)', Held(1)'
              PROVE  rx'[NextOut].frame < rx'[1 - NextOut].frame
          <6>1. Held(1 - ctrl.in)
            BY <1>7, <2>5, <5>1 DEF Held
          <6>2. NextOut = 1 - ctrl.in /\ 1 - NextOut = ctrl.in
            BY <1>1, <1>7, <3>2, <3>3, <6>1 DEF Inv, RxRing, Held
          <6>3. rx[1 - ctrl.in].frame < chip.frame
            BY <1>2, <3>2, <6>1 DEF Inv, FramesInv
          <6> QED
            BY <2>2, <2>5, <6>2, <6>3
        <5> QED
          BY <5>1
      <4>3. /\ chip'.fifo # <<>> => chip'.synced
            /\ chip'.synced => chip'.mode = "rx" /\ taken' < chip'.frame
            /\ taken' <= chip'.frame
        BY <1>1, <1>7, <2>4, <3>4
      <4>4. \A i \in 0 .. 1 : Held(i)' =>
              /\ rx'[i].frame <= chip'.frame
              /\ chip'.synced => rx'[i].frame < chip'.frame
              /\ IF pc' = "clear" /\ i = ctrl'.out THEN rx'[i].frame = taken'
                                                   ELSE rx'[i].frame > taken'
        BY <1>1, <2>3, <2>4, <4>1
      <4>5. Held(0)' /\ Held(1)' => rx'[NextOut'].frame < rx'[1 - NextOut'].frame
        BY <3>2, <4>2
      <4> QED
        BY <4>3, <4>4, <4>5 DEF FramesInv
    <3> QED
      BY <3>5, <3>6
  <2> QED
    BY <2>6, <2>7, <2>8, <2>9 DEF Inv
<1>9. CASE ~Complete(l)
  <2>1. /\ rx' = [rx EXCEPT ![ctrl.in].len = l] /\ checksum' = SumWith(b)
        /\ ctrl' = [ctrl EXCEPT !.state = "RX_ACTIVE",
                                !.bytecount = ctrl.bytecount + 1]
        /\ chip' = c
    BY <1>5, <1>9 DEF l
  <2>2. /\ ctrl' \in Ctrl /\ ctrl'.state = "RX_ACTIVE"
        /\ ctrl'.txstate = ctrl.txstate
        /\ ctrl'.in = ctrl.in /\ ctrl'.out = ctrl.out
    <3>1. ctrl.bytecount + 1 \in 0 .. RFM12_TRX_FRAME_SIZE + 5
      <4>1. ctrl.bytecount \in 0 .. RFM12_TRX_FRAME_SIZE + 5 /\ ctrl.bytecount \in Int
        BY <1>7, CtrlParts
      <4>2. ctrl.bytecount + 1 < 3 + l
        BY <1>6, <1>9, <4>1, Sizes DEF Complete, FrameBytes
      <4> QED
        BY <1>6, <4>1, <4>2, Sizes
    <3> QED
      BY <1>7, <2>1, <3>1, CtrlSet DEF State
  <2>3. /\ rx' \in [0 .. 1 -> RxBuffer]
        /\ \A i \in 0 .. 1 : rx'[i].occupied = rx[i].occupied
                             /\ rx'[i].frame = rx[i].frame
    <3>1. [rx[ctrl.in] EXCEPT !.len = l] \in RxBuffer
          /\ [rx[ctrl.in] EXCEPT !.len = l].occupied = rx[ctrl.in].occupied
          /\ [rx[ctrl.in] EXCEPT !.len = l].frame = rx[ctrl.in].frame
      BY <1>6, <1>7, Sizes DEF RxBuffer
    <3> QED
      BY <1>7, <2>1, <3>1
  <2>4. TypeOK'
    BY <1>1, <1>3, <1>4, <2>1, <2>2, <2>3 DEF Inv, TypeOK
  <2>5. ModesInv' /\ SendInv'
    BY <1>1, <1>2, <1>3, <2>1, <2>2 DEF Inv, ModesInv, ModesAgree, SendInv, Receiving
  <2>6. WatchInv'
    BY <1>3, <2>1, <2>2, TurnWatch DEF IsrReceive, Receiving
  <2>7. RxRing'
    BY <1>1, <1>7, <2>2, <2>3 DEF Inv, RxRing, NextOut
  <2>8. FramesInv'
    <3>1. NextOut' = NextOut /\ NextOut \in 0 .. 1 /\ 1 - NextOut \in 0 .. 1
      BY <1>1, <1>7, <2>2 DEF NextOut
    <3> QED
      BY <1>1, <1>2, <1>3, <2>1, <2>2, <2>3, <3>1 DEF Inv, FramesInv, Held
  <2> QED
    BY <2>4, <2>5, <2>6, <2>7, <2>8 DEF Inv
<1> QED
  BY <1>8, <1>9

LEMMA IsrDropStep ==
  ASSUME Inv, IsrDrop
  PROVE  Inv'
<1> USE DEF driverVars, loopVars
<1>1. /\ isr = "loop" /\ Receiving /\ pcif' = FALSE /\ checksum' = 0
      /\ ctrl' = Idle(ctrl) /\ chip' = FifoReset(chip)
      /\ UNCHANGED <<rx, tx_len, mask, isr, occurred, pc, holdoff, last, taken, sent>>
  BY DEF IsrDrop, Turn, NextState, Receiving, Inv, TypeOK, Ctrl, State
<1>2. /\ ctrl' \in Ctrl /\ ctrl'.state = "RX_IDLE" /\ ctrl'.txstate = ctrl.txstate
      /\ ctrl'.in = ctrl.in /\ ctrl'.out = ctrl.out
  BY <1>1, Parts, IdleParts DEF Inv
<1>3. /\ chip' \in Chip /\ chip'.mode = chip.mode /\ chip'.frame = chip.frame
      /\ chip'.fifo = <<>> /\ ~chip'.synced
  BY <1>1, Parts, FifoResetParts DEF Inv
<1>4. TypeOK'
  <2>1. checksum' \in -1 .. RFM12_TRX_OVERHEAD
    BY <1>1, Sizes
  <2> QED
    BY <1>1, <1>2, <1>3, <2>1 DEF Inv, TypeOK
<1>5. ModesInv' /\ SendInv'
  BY <1>1, <1>2, <1>3 DEF Inv, ModesInv, ModesAgree, SendInv, Receiving
<1>6. WatchInv'
  BY <1>2, <1>3, TurnWatch DEF IsrDrop, Receiving
<1>7. RxRing' /\ FramesInv'
  BY <1>1, <1>2, <1>3 DEF Inv, RxRing, FramesInv, NextOut, Held
<1> QED
  BY <1>4, <1>5, <1>6, <1>7 DEF Inv

(* A turn that sends: the loop does not wait for the watchdog's reset. *)
LEMMA Sending ==
  ASSUME Inv, NEW s \in {"TX", "TX_END", "TX_RESET"}, Turn(s)
  PROVE  /\ isr = "loop" /\ pcif' = FALSE /\ pc # "reset"
         /\ UNCHANGED <<tx_len, mask, isr, occurred, pc, holdoff, last, taken>>
         /\ chip.mode = "tx" /\ ctrl.txstate = "occupied"
         /\ ctrl.num_bytes = TxBytes(tx_len)
         /\ ctrl.num_bytes <= RFM12_TRX_FRAME_SIZE + 5
         /\ ctrl.num_bytes \in Nat /\ ctrl.bytecount \in Nat
         /\ s = "TX" => /\ ctrl.state = "TX" /\ ctrl.bytecount < ctrl.num_bytes
         /\ s = "TX_END" => /\ ctrl.state = "TX" /\ ctrl.bytecount = ctrl.num_bytes
         /\ s = "TX_RESET" => ctrl.state = "TX_END"
<1> USE DEF loopVars
<1>1. /\ isr = "loop" /\ pcif' = FALSE /\ NextState = s
      /\ UNCHANGED <<tx_len, mask, isr, occurred, pc, holdoff, last, taken>>
  BY DEF Turn
<1>2. /\ ctrl \in Ctrl /\ ctrl.state \in State /\ ctrl.num_bytes \in Nat
      /\ ctrl.bytecount \in 0 .. RFM12_TRX_FRAME_SIZE + 5 /\ ctrl.bytecount \in Nat
  BY Parts, CtrlParts, Sizes DEF Inv
<1>3. /\ s = "TX" => /\ ctrl.state = "TX" /\ ctrl.bytecount < ctrl.num_bytes
      /\ s = "TX_END" => /\ ctrl.state = "TX"
                         /\ ~(ctrl.bytecount < ctrl.num_bytes
                              /\ ctrl.bytecount < RFM12_TRX_FRAME_SIZE + 5)
      /\ s = "TX_RESET" => ctrl.state = "TX_END"
      /\ ctrl.state \in {"TX", "TX_END"}
  <2>1. RFM12_TRX_FRAME_SIZE + SyncBytes + RFM12_TRX_OVERHEAD
          = RFM12_TRX_FRAME_SIZE + 5
    BY Sizes
  <2> QED
    BY <1>1, <1>2, <2>1 DEF NextState, State
<1>4. pc # "reset" /\ chip.mode = "tx" /\ ~Receiving
  BY <1>3 DEF Inv, ModesInv, ModesAgree, Receiving
<1>5. /\ ctrl.txstate = "occupied" /\ ctrl.num_bytes = TxBytes(tx_len)
      /\ tx_len \in Lengths
      /\ ctrl.state = "TX" => ctrl.bytecount <= ctrl.num_bytes
  BY <1>4 DEF Inv, SendInv
<1>6. ctrl.num_bytes <= RFM12_TRX_FRAME_SIZE + 5
  BY <1>5, Sizes DEF TxBytes, FrameBytes
<1> QED
  BY <1>1, <1>2, <1>3, <1>4, <1>5, <1>6, Sizes

LEMMA IsrSendStep ==
  ASSUME Inv, IsrSend
  PROVE  Inv'
<1> USE DEF driverVars, loopVars
<1>1. Turn("TX")
  BY DEF IsrSend
<1>2. /\ ctrl' = [ctrl EXCEPT !.bytecount = ctrl.bytecount + 1]
      /\ chip' = LoadByte(chip) /\ UNCHANGED <<rx, checksum>>
      /\ sent' = IF sent = ctrl.bytecount THEN sent + 1 ELSE -1
  BY DEF IsrSend
<1>3. /\ ctrl.state = "TX" /\ sent = ctrl.bytecount /\ sent' = ctrl.bytecount + 1
      /\ sent' \in Int
  <2>1. ctrl.state = "TX" /\ ctrl.bytecount \in Nat
    BY <1>1, Sending
  <2>2. sent = ctrl.bytecount
    BY <2>1 DEF Inv, SendInv
  <2> QED
    BY <1>2, <2>1, <2>2
<1>4. /\ ctrl' \in Ctrl /\ ctrl'.state = "TX" /\ ctrl'.txstate = ctrl.txstate
      /\ ctrl'.bytecount = ctrl.bytecount + 1 /\ ctrl'.num_bytes = ctrl.num_bytes
      /\ ctrl'.in = ctrl.in /\ ctrl'.out = ctrl.out
  <2>1. ctrl.bytecount + 1 \in 0 .. RFM12_TRX_FRAME_SIZE + 5
    BY <1>1, Sending, Sizes
  <2> QED
    BY <1>2, <1>3, <2>1, Parts, CtrlSet DEF Inv
<1>5. /\ chip' \in Chip /\ chip'.mode = chip.mode /\ chip'.frame = chip.frame
      /\ chip'.fifo = chip.fifo /\ chip'.synced = chip.synced
  BY <1>2, Parts, LoadByteParts DEF Inv
<1>6. TypeOK'
  BY <1>1, <1>2, <1>3, <1>4, <1>5, Sending DEF Inv, TypeOK
<1>7. ModesInv'
  BY <1>1, <1>4, <1>5, Sending DEF Inv, ModesInv, ModesAgree, Receiving
<1>8. SendInv'
  <2>1. /\ ctrl.txstate = "occupied" /\ ctrl.num_bytes = TxBytes(tx_len)
        /\ ctrl.bytecount + 1 <= ctrl.num_bytes
        /\ UNCHANGED <<tx_len, pc>>
    BY <1>1, Sending
  <2>2. pc \notin {"sense", "sensed", "start"}
    BY <1>3 DEF Inv, SendInv, Receiving
  <2> QED
    BY <1>3, <1>4, <2>1, <2>2 DEF Inv, SendInv, Receiving, TxBytes, FrameBytes
<1>9. WatchInv'
  BY <1>1, <1>3, <1>4, <1>5, Sending DEF Inv, WatchInv, Receiving
<1>10. RxRing' /\ FramesInv'
  <2>1. UNCHANGED <<rx, pc, taken>>
    BY <1>1, <1>2, Sending
  <2>2. RxRing'
    BY <1>4, <2>1 DEF Inv, RxRing, NextOut
  <2>3. FramesInv'
    BY <1>1, <1>4, <1>5, <2>1, Sending DEF Inv, FramesInv, NextOut, Held
  <2> QED
    BY <2>2, <2>3
<1> QED
  BY <1>6, <1>7, <1>8, <1>9, <1>10 DEF Inv

LEMMA IsrSendEndStep ==
  ASSUME Inv, IsrSendEnd
  PROVE  Inv'
<1> USE DEF driverVars, loopVars
<1>1. Turn("TX_END")
  BY DEF IsrSendEnd
<1>2. /\ ctrl' = [ctrl EXCEPT !.state = "TX_END"]
      /\ chip' = LoadByte(chip) /\ UNCHANGED <<rx, checksum, sent>>
  BY DEF IsrSendEnd
<1>3. ctrl.state = "TX" /\ sent = ctrl.num_bytes
  BY <1>1, Sending DEF Inv, SendInv
<1>4. /\ ctrl' \in Ctrl /\ ctrl'.state = "TX_END" /\ ctrl'.txstate = ctrl.txstate
      /\ ctrl'.num_bytes = ctrl.num_bytes
      /\ ctrl'.in = ctrl.in /\ ctrl'.out = ctrl.out
  BY <1>2, Parts, CtrlSet DEF Inv, State
<1>5. /\ chip' \in Chip /\ chip'.mode = chip.mode /\ chip'.frame = chip.frame
      /\ chip'.fifo = chip.fifo /\ chip'.synced = chip.synced
  BY <1>2, Parts, LoadByteParts DEF Inv
<1>6. TypeOK'
  BY <1>1, <1>2, <1>4, <1>5, Sending DEF Inv, TypeOK
<1>7. ModesInv'
  BY <1>1, <1>4, <1>5, Sending DEF Inv, ModesInv, ModesAgree, Receiving
<1>8. SendInv'
  BY <1>1, <1>2, <1>3, <1>4, Sending DEF Inv, SendInv, Receiving
<1>9. WatchInv'
  BY <1>1, <1>3, <1>4, <1>5, Sending DEF Inv, WatchInv, Receiving
<1>10. RxRing' /\ FramesInv'
  <2>1. UNCHANGED <<rx, pc, taken>>
    BY <1>1, <1>2, Sending
  <2>2. RxRing'
    BY <1>4, <2>1 DEF Inv, RxRing, NextOut
  <2>3. FramesInv'
    BY <1>1, <1>4, <1>5, <2>1, Sending DEF Inv, FramesInv, NextOut, Held
  <2> QED
    BY <2>2, <2>3
<1> QED
  BY <1>6, <1>7, <1>8, <1>9, <1>10 DEF Inv

LEMMA IsrSendResetStep ==
  ASSUME Inv, IsrSendReset
  PROVE  Inv'
<1> USE DEF driverVars, loopVars
<1> DEFINE d == Idle(ctrl)
<1>1. Turn("TX_RESET")
  BY DEF IsrSendReset
<1>2. /\ ctrl' = [d EXCEPT !.txstate = "free"]
      /\ chip' = FifoReset(LoadByte(Receiver(chip)))
      /\ checksum' = 0 /\ sent' = 0 /\ UNCHANGED rx
  BY DEF IsrSendReset
<1>3. /\ d \in Ctrl /\ d.state = "RX_IDLE" /\ d.in = ctrl.in /\ d.out = ctrl.out
  BY Parts, IdleParts DEF Inv
<1> HIDE DEF d
<1>4. /\ ctrl' \in Ctrl /\ ctrl'.state = "RX_IDLE" /\ ctrl'.txstate = "free"
      /\ ctrl'.in = ctrl.in /\ ctrl'.out = ctrl.out
  BY <1>2, <1>3, CtrlSet DEF BuffState
<1>5. /\ chip' \in Chip /\ chip'.mode = "rx" /\ chip'.frame = chip.frame
      /\ chip'.fifo = <<>> /\ ~chip'.synced
  <2> DEFINE r == Receiver(chip)
             l == LoadByte(r)
  <2>1. r \in Chip /\ r.mode = "rx" /\ r.frame = chip.frame
    BY Parts, ModeParts DEF Inv
  <2> HIDE DEF r
  <2>2. l \in Chip /\ l.mode = "rx" /\ l.frame = chip.frame
    BY <2>1, LoadByteParts
  <2> HIDE DEF l
  <2>3. chip' = FifoReset(l)
    BY <1>2 DEF r, l
  <2> QED
    BY <2>2, <2>3, FifoResetParts
<1>6. TypeOK'
  <2>1. checksum' \in -1 .. RFM12_TRX_OVERHEAD /\ sent' \in Int
    BY <1>2, Sizes
  <2> QED
    BY <1>1, <1>2, <1>4, <1>5, <2>1, Sending DEF Inv, TypeOK
<1>7. ModesInv'
  BY <1>1, <1>4, <1>5, Sending DEF Inv, ModesInv, ModesAgree, Receiving
<1>8. SendInv'
  <2>1. pc \notin {"sense", "sensed", "start"}
    BY <1>1, Sending DEF Inv, SendInv, Receiving
  <2> QED
    BY <1>1, <1>4, <2>1, Sending DEF SendInv, Receiving
<1>9. WatchInv'
  BY <1>1, <1>4, <1>5, TurnWatch DEF Receiving
<1>10. RxRing' /\ FramesInv'
  <2>1. UNCHANGED <<rx, pc, taken>>
    BY <1>1, <1>2, Sending
  <2>2. RxRing'
    BY <1>4, <2>1 DEF Inv, RxRing, NextOut
  <2>3. FramesInv'
    BY <1>1, <1>4, <1>5, <2>1, Sending DEF Inv, FramesInv, NextOut, Held
  <2> QED
    BY <2>2, <2>3
<1> QED
  BY <1>6, <1>7, <1>8, <1>9, <1>10 DEF Inv

LEMMA IsrLeaveStep ==
  ASSUME Inv, IsrLeave
  PROVE  Inv'
<1> USE DEF driverVars, loopVars
<1>1. TypeOK'
  BY DEF Inv, TypeOK, IsrLeave
<1>2. ModesInv' /\ SendInv'
  BY DEF Inv, ModesInv, ModesAgree, SendInv, Receiving, IsrLeave
<1>3. WatchInv'
  BY DEF Inv, WatchInv, Receiving, IsrLeave
<1>4. RxRing' /\ FramesInv'
  BY DEF Inv, RxRing, FramesInv, NextOut, Held, IsrLeave
<1> QED
  BY <1>1, <1>2, <1>3, <1>4 DEF Inv

LEMMA IsrReturnStep ==
  ASSUME Inv, IsrReturn
  PROVE  Inv'
<1> USE DEF driverVars, loopVars
<1>1. TypeOK'
  BY DEF Inv, TypeOK, IsrReturn
<1>2. ModesInv' /\ SendInv'
  BY DEF Inv, ModesInv, ModesAgree, SendInv, Receiving, IsrReturn
<1>3. WatchInv'
  BY DEF Inv, WatchInv, Receiving, IsrReturn
<1>4. RxRing' /\ FramesInv'
  BY DEF Inv, RxRing, FramesInv, NextOut, Held, IsrReturn
<1> QED
  BY <1>1, <1>2, <1>3, <1>4 DEF Inv

-----------------------------------------------------------------------------
(* The main loop and the timer *)

(* A step of the loop that changes no more than pc, from and to states that *)
(* the invariant does not single out, and the mask.                        *)
LEMMA Moves ==
  ASSUME Inv, NEW from, NEW to, Goto(from, to),
         from \notin {"clear", "switch", "reset"},
         to \in {"tx", "rx", "tick", "csma"},
         UNCHANGED <<driverVars, chip, pcif, isr, occurred, holdoff, last, taken>>,
         mask' \in BOOLEAN,
         from = "started" /\ last > Timeout => holdoff > 0 \/ Receiving
  PROVE  Inv'
<1> USE DEF driverVars, Goto
<1>1. TypeOK'
  BY DEF Inv, TypeOK
<1>2. ModesInv' /\ SendInv'
  BY DEF Inv, ModesInv, ModesAgree, SendInv, Receiving
<1>3. WatchInv'
  BY DEF Inv, WatchInv, Receiving
<1>4. RxRing' /\ FramesInv'
  BY DEF Inv, RxRing, FramesInv, NextOut, Held
<1> QED
  BY <1>1, <1>2, <1>3, <1>4 DEF Inv

LEMMA MovingSteps ==
  ASSUME Inv, \/ NothingToSend \/ NothingReceived \/ HoldOff \/ Responding \/ NotNow
  PROVE  Inv'
BY Moves DEF NothingToSend, NothingReceived, HoldOff, Responding, NotNow, intVars,
   Inv, TypeOK

LEMMA dll_rf_tx_Step ==
  ASSUME Inv, dll_rf_tx
  PROVE  Inv'
<1> USE DEF intVars, Goto
<1>1. /\ ctrl' = [ctrl EXCEPT !.txstate = "occupied"] /\ tx_len' \in Lengths
      /\ ctrl.txstate = "free"
      /\ pc = "tx" /\ pc' = "rx"
      /\ UNCHANGED <<rx, checksum, sent, chip, mask, pcif, isr, occurred, holdoff,
                     last, taken>>
  BY DEF dll_rf_tx, dll_rf_can_tx
<1>2. /\ ctrl' \in Ctrl /\ ctrl'.state = ctrl.state /\ ctrl'.txstate = "occupied"
      /\ ctrl'.in = ctrl.in /\ ctrl'.out = ctrl.out
  BY <1>1, Parts, CtrlSet DEF Inv, BuffState
<1>3. Receiving /\ Receiving'
  <2>1. Receiving
    BY <1>1 DEF Inv, SendInv
  <2> QED
    BY <1>2, <2>1 DEF Receiving
<1>4. TypeOK'
  BY <1>1, <1>2, Sizes DEF Inv, TypeOK
<1>5. ModesInv' /\ SendInv'
  BY <1>1, <1>2, <1>3 DEF Inv, ModesInv, ModesAgree, SendInv, Receiving
<1>6. WatchInv'
  BY <1>1, <1>2, <1>3 DEF Inv, WatchInv
<1>7. RxRing' /\ FramesInv'
  BY <1>1, <1>2 DEF Inv, RxRing, FramesInv, NextOut, Held
<1> QED
  BY <1>4, <1>5, <1>6, <1>7 DEF Inv

LEMMA CopyFrameStep ==
  ASSUME Inv, CopyFrame
  PROVE  Inv'
<1> USE DEF driverVars, intVars, Goto
<1>1. /\ pc = "rx" /\ pc' = "clear" /\ ctrl.state = "RX_IDLE"
      /\ rx[ctrl.out].occupied /\ taken' = rx[ctrl.out].frame
      /\ UNCHANGED <<ctrl, rx, checksum, tx_len, sent, chip, mask, pcif, isr,
                     occurred, holdoff, last>>
  BY DEF CopyFrame, CanRead
<1>2. /\ ctrl.in \in 0 .. 1 /\ ctrl.out \in 0 .. 1
      /\ \A i \in 0 .. 1 : rx[i].occupied \in BOOLEAN /\ rx[i].frame \in Nat
      /\ rx[ctrl.out].frame \in 0 .. MaxFrames
  BY Parts, CtrlParts, BufferParts DEF Inv
<1>3. TypeOK'
  BY <1>1, <1>2 DEF Inv, TypeOK
<1>4. ModesInv' /\ SendInv'
  BY <1>1 DEF Inv, ModesInv, ModesAgree, SendInv, Receiving
<1>5. WatchInv'
  BY <1>1 DEF Inv, WatchInv, Receiving
<1>6. RxRing'
  BY <1>1, <1>2 DEF Inv, RxRing, NextOut
<1>7. FramesInv'
  <2>1. NextOut = ctrl.out /\ NextOut' = ctrl.out
    BY <1>1 DEF NextOut
  <2>2. /\ rx[ctrl.out].frame <= chip.frame
        /\ chip.synced => rx[ctrl.out].frame < chip.frame
    BY <1>1, <1>2 DEF Inv, FramesInv, Held
  <2>3. ASSUME NEW i \in 0 .. 1, Held(i)
        PROVE  IF i = ctrl.out THEN rx[i].frame = taken' ELSE rx[i].frame > taken'
    <3>1. CASE i # ctrl.out
      <4>1. i = 1 - ctrl.out /\ Held(0) /\ Held(1)
        BY <1>1, <1>2, <2>3, <3>1 DEF Held
      <4> QED
        BY <1>1, <1>2, <2>1, <3>1, <4>1 DEF Inv, FramesInv
    <3> QED
      BY <1>1, <3>1
  <2> QED
    BY <1>1, <2>1, <2>2, <2>3 DEF Inv, FramesInv, Held
<1> QED
  BY <1>3, <1>4, <1>5, <1>6, <1>7 DEF Inv

LEMMA rfm12_rx_clear_Step ==
  ASSUME Inv, rfm12_rx_clear
  PROVE  Inv'
<1> USE DEF intVars, Goto
<1> DEFINE e == [rx[ctrl.out] EXCEPT !.occupied = FALSE, !.frame = 0]
<1>1. /\ pc = "clear" /\ pc' = "switch" /\ rx' = [rx EXCEPT ![ctrl.out] = e]
      /\ UNCHANGED <<ctrl, checksum, tx_len, sent, chip, mask, pcif, isr, occurred,
                     holdoff, last, taken>>
  BY DEF rfm12_rx_clear
<1>2. /\ ctrl.in \in 0 .. 1 /\ ctrl.out \in 0 .. 1
      /\ rx \in [0 .. 1 -> RxBuffer] /\ rx[ctrl.out] \in RxBuffer
      /\ \A i \in 0 .. 1 : rx[i].occupied \in BOOLEAN /\ rx[i].frame \in Nat
  BY Parts, CtrlParts, BufferParts DEF Inv
<1>3. e \in RxBuffer /\ ~e.occupied
  <2>1. FALSE \in BOOLEAN /\ 0 \in 0 .. MaxFrames
    BY Sizes
  <2> QED
    BY <1>2, <2>1 DEF RxBuffer
<1> HIDE DEF e
<1>4. /\ rx' \in [0 .. 1 -> RxBuffer] /\ rx'[ctrl.out] = e
      /\ \A i \in 0 .. 1 : i # ctrl.out => rx'[i] = rx[i]
  BY <1>1, <1>2, <1>3
<1>5. TypeOK'
  BY <1>1, <1>4 DEF Inv, TypeOK
<1>6. ModesInv' /\ SendInv'
  BY <1>1 DEF Inv, ModesInv, ModesAgree, SendInv, Receiving
<1>7. WatchInv'
  BY <1>1 DEF Inv, WatchInv, Receiving
<1>8. NextOut = ctrl.out /\ NextOut' = 1 - ctrl.out
  BY <1>1 DEF NextOut
<1>9. RxRing'
  <2>1. rx[ctrl.out].occupied /\ 1 - ctrl.out \in 0 .. 1
    BY <1>1, <1>2 DEF Inv, RxRing
  <2>2. CASE ctrl.in = ctrl.out
    <3>1. rx[1 - ctrl.out].occupied
      BY <1>2, <1>8, <2>1, <2>2 DEF Inv, RxRing
    <3>2. rx'[1 - ctrl.out].occupied /\ ~rx'[ctrl.in].occupied
          /\ ctrl.in # 1 - ctrl.out
      BY <1>2, <1>3, <1>4, <2>1, <2>2, <3>1
    <3> QED
      BY <1>1, <1>8, <3>2 DEF RxRing
  <2>3. CASE ctrl.in # ctrl.out
    <3>1. ctrl.in = 1 - ctrl.out /\ ~rx[ctrl.in].occupied
      BY <1>2, <1>8, <2>3 DEF Inv, RxRing
    <3>2. rx'[0].occupied = FALSE /\ rx'[1].occupied = FALSE
      <4>1. rx'[ctrl.in] = rx[ctrl.in] /\ rx[ctrl.in].occupied = FALSE
        BY <1>2, <1>4, <2>3, <3>1
      <4>2. e.occupied = FALSE
        BY <1>3 DEF RxBuffer
      <4> QED
        BY <1>2, <1>4, <3>1, <4>1, <4>2
    <3> QED
      BY <1>1, <1>8, <3>1, <3>2 DEF RxRing
  <2> QED
    BY <2>2, <2>3
<1>10. FramesInv'
  <2>1. \A i \in 0 .. 1 : Held(i)' => i # ctrl.out /\ Held(i) /\ rx'[i] = rx[i]
    BY <1>3, <1>4 DEF Held
  <2>2. ~(Held(0)' /\ Held(1)')
    BY <1>2, <2>1
  <2> QED
    BY <1>1, <2>1, <2>2 DEF Inv, FramesInv
<1> QED
  BY <1>5, <1>6, <1>7, <1>9, <1>10 DEF Inv

LEMMA SwitchBufferStep ==
  ASSUME Inv, SwitchBuffer
  PROVE  Inv'
<1> USE DEF intVars, Goto
<1>1. /\ pc = "switch" /\ pc' = "tick" /\ ctrl' = [ctrl EXCEPT !.out = 1 - ctrl.out]
      /\ UNCHANGED <<rx, checksum, tx_len, sent, chip, mask, pcif, isr, occurred,
                     holdoff, last, taken>>
  BY DEF SwitchBuffer
<1>2. /\ ctrl' \in Ctrl /\ ctrl'.state = ctrl.state /\ ctrl'.txstate = ctrl.txstate
      /\ ctrl'.num_bytes = ctrl.num_bytes /\ ctrl'.bytecount = ctrl.bytecount
      /\ ctrl'.in = ctrl.in /\ ctrl'.out = 1 - ctrl.out
  <2>1. ctrl \in Ctrl /\ 1 - ctrl.out \in 0 .. 1
    BY Parts, CtrlParts DEF Inv
  <2> QED
    BY <1>1, <2>1, CtrlSet
<1>3. NextOut' = NextOut
  BY <1>1, <1>2 DEF NextOut
<1>4. TypeOK'
  BY <1>1, <1>2 DEF Inv, TypeOK
<1>5. ModesInv' /\ SendInv'
  BY <1>1, <1>2 DEF Inv, ModesInv, ModesAgree, SendInv, Receiving
<1>6. WatchInv'
  BY <1>1, <1>2 DEF Inv, WatchInv, Receiving
<1>7. RxRing'
  BY <1>1, <1>2, <1>3 DEF Inv, RxRing
<1>8. FramesInv'
  BY <1>1, <1>2, <1>3 DEF Inv, FramesInv, Held
<1> QED
  BY <1>4, <1>5, <1>6, <1>7, <1>8 DEF Inv

LEMMA WatchdogStep ==
  ASSUME Inv, Watchdog
  PROVE  Inv'
<1> USE DEF intVars, Goto
<1>1. /\ pc = "tick" /\ pc' = "reset" /\ isr = "off" /\ ~pcif
      /\ holdoff = 0 /\ last > Timeout
      /\ ctrl' = [ctrl EXCEPT !.state = "RX_IDLE"]
      /\ UNCHANGED <<rx, checksum, tx_len, sent, chip, mask, pcif, isr, occurred,
                     holdoff, last, taken>>
  BY DEF Watchdog
<1>2. /\ ctrl' \in Ctrl /\ ctrl'.state = "RX_IDLE" /\ ctrl'.txstate = ctrl.txstate
      /\ ctrl'.in = ctrl.in /\ ctrl'.out = ctrl.out /\ ctrl.state \in State
  BY <1>1, Parts, CtrlParts, CtrlSet DEF Inv, State
<1>3. TypeOK'
  BY <1>1, <1>2 DEF Inv, TypeOK
<1>4. ModesInv' /\ SendInv'
  BY <1>1, <1>2 DEF Inv, ModesInv, ModesAgree, SendInv, Receiving
<1>5. WatchInv'
  <2>1. chip.mode = "tx" => chip.ready
    BY <1>1, <1>2 DEF Inv, WatchInv, ModesInv, ModesAgree, Receiving, TypeOK
  <2> QED
    BY <1>1, <1>2, <2>1 DEF Inv, WatchInv, ModesInv, Receiving
<1>6. RxRing' /\ FramesInv'
  BY <1>1, <1>2 DEF Inv, RxRing, FramesInv, NextOut, Held
<1> QED
  BY <1>3, <1>4, <1>5, <1>6 DEF Inv

LEMMA rfm12_reset_Step ==
  ASSUME Inv, rfm12_reset
  PROVE  Inv'
<1> USE DEF Goto
<1>1. /\ pc = "reset" /\ pc' = "csma" /\ mask' = TRUE
      /\ chip' = Initialised(chip) /\ last' = 0 /\ sent' = 0
      /\ UNCHANGED <<ctrl, rx, checksum, tx_len, pcif, isr, occurred, holdoff, taken>>
  BY DEF rfm12_reset, Unmask
<1>2. /\ chip' \in Chip /\ chip'.mode = "rx" /\ chip'.frame = chip.frame
      /\ chip'.fifo = <<>> /\ ~chip'.synced
  <2> DEFINE r == Receiver(chip)
             l == LoadByte(r)
  <2>1. r \in Chip /\ r.mode = "rx" /\ r.frame = chip.frame
    BY Parts, ModeParts DEF Inv
  <2> HIDE DEF r
  <2>2. l \in Chip /\ l.mode = "rx" /\ l.frame = chip.frame
    BY <2>1, LoadByteParts
  <2> HIDE DEF l
  <2>3. chip' = FifoReset(l)
    BY <1>1 DEF Initialised, r, l
  <2> QED
    BY <2>2, <2>3, FifoResetParts
<1>3. Receiving
  BY <1>1 DEF Inv, ModesInv
<1>4. ~(last' > Timeout) /\ last' \in 0 .. Timeout + 1
  BY <1>1, Sizes
<1>5. TypeOK'
  <2>1. mask' \in BOOLEAN /\ sent' \in Int
    BY <1>1
  <2> QED
    BY <1>1, <1>2, <1>4, <2>1 DEF Inv, TypeOK
<1>6. ModesInv' /\ SendInv'
  BY <1>1, <1>2, <1>3 DEF Inv, ModesInv, ModesAgree, SendInv, Receiving
<1>7. WatchInv'
  BY <1>1, <1>4 DEF WatchInv
<1>8. RxRing' /\ FramesInv'
  BY <1>1, <1>2 DEF Inv, RxRing, FramesInv, NextOut, Held
<1> QED
  BY <1>5, <1>6, <1>7, <1>8 DEF Inv

(* The carrier is sensed with a frame to send and the driver idle; what the *)
(* handler does meanwhile leaves the frame where it is.                    *)
LEMMA SensingSteps ==
  ASSUME Inv, SenseCarrier \/ SenseAgain
  PROVE  Inv'
<1> USE DEF driverVars, Goto, Mask, Unmask
<1>1. /\ pc \in {"csma", "sense", "sensed"} /\ pc' \in {"sensed", "sense"}
      /\ pc = "csma" => MaySend
      /\ isr = "off"
      /\ UNCHANGED <<ctrl, rx, checksum, tx_len, sent, chip, pcif, isr, occurred,
                     holdoff, last, taken>>
      /\ mask' \in BOOLEAN
  BY DEF SenseCarrier, SenseAgain
<1>2. ctrl.txstate = "occupied" /\ Receiving
  <2>1. ctrl.txstate \in BuffState
    BY Parts, CtrlParts DEF Inv
  <2> QED
    BY <1>1, <2>1 DEF Inv, SendInv, MaySend, dll_rf_can_tx, BuffState, Receiving
<1>3. TypeOK'
  BY <1>1 DEF Inv, TypeOK
<1>4. ModesInv' /\ SendInv'
  BY <1>1, <1>2 DEF Inv, ModesInv, ModesAgree, SendInv, Receiving
<1>5. WatchInv'
  BY <1>1, <1>2 DEF Inv, WatchInv, Receiving, MaySend
<1>6. RxRing' /\ FramesInv'
  BY <1>1 DEF Inv, RxRing, FramesInv, NextOut, Held
<1> QED
  BY <1>3, <1>4, <1>5, <1>6 DEF Inv

LEMMA SensedStep ==
  ASSUME Inv, Sensed
  PROVE  Inv'
<1> USE DEF driverVars, Goto, Unmask
<1>1. /\ pc = "sensed" /\ pc' \in {"tx", "start"}
      /\ UNCHANGED <<ctrl, rx, checksum, tx_len, sent, chip, pcif, isr, occurred,
                     holdoff, last, taken>>
      /\ mask' \in BOOLEAN
  BY DEF Sensed
<1>2. TypeOK'
  BY <1>1 DEF Inv, TypeOK
<1>3. ModesInv' /\ SendInv'
  BY <1>1 DEF Inv, ModesInv, ModesAgree, SendInv, Receiving
<1>4. WatchInv'
  BY <1>1 DEF Inv, WatchInv, Receiving
<1>5. RxRing' /\ FramesInv'
  BY <1>1 DEF Inv, RxRing, FramesInv, NextOut, Held
<1> QED
  BY <1>2, <1>3, <1>4, <1>5 DEF Inv

LEMMA rfm12_start_tx_Step ==
  ASSUME Inv, rfm12_start_tx
  PROVE  Inv'
<1> USE DEF Goto, Mask
<1>1. /\ pc = "start" /\ pc' = "started" /\ mask' = FALSE /\ sent' = 0
      /\ ctrl' = [ctrl EXCEPT !.state = "TX", !.bytecount = 0,
                              !.num_bytes = TxBytes(tx_len)]
      /\ chip' = LoadByte(Transmitter(FifoReset(chip)))
      /\ UNCHANGED <<rx, checksum, tx_len, pcif, isr, occurred, holdoff, last, taken>>
  BY DEF rfm12_start_tx
<1>2. ctrl.txstate = "occupied" /\ tx_len \in Lengths /\ TxBytes(tx_len) \in Nat
  <2>1. ctrl.txstate = "occupied" /\ tx_len \in Lengths
    BY <1>1 DEF Inv, SendInv
  <2> QED
    BY <2>1, Sizes DEF TxBytes, FrameBytes
<1>3. /\ ctrl' \in Ctrl /\ ctrl'.state = "TX" /\ ctrl'.txstate = "occupied"
      /\ ctrl'.bytecount = 0 /\ ctrl'.num_bytes = TxBytes(tx_len)
      /\ ctrl'.in = ctrl.in /\ ctrl'.out = ctrl.out
  BY <1>1, <1>2, Parts, CtrlSet DEF Inv, State
<1>4. /\ chip' \in Chip /\ chip'.mode = "tx" /\ chip'.frame = chip.frame
      /\ chip'.fifo = <<>> /\ ~chip'.synced
  <2> DEFINE f == FifoReset(chip)
             t == Transmitter(f)
  <2>1. f \in Chip /\ f.frame = chip.frame /\ f.fifo = <<>> /\ ~f.synced
    BY Parts, FifoResetParts DEF Inv
  <2> HIDE DEF f
  <2>2. t \in Chip /\ t.mode = "tx" /\ t.frame = chip.frame /\ t.fifo = <<>>
        /\ ~t.synced
    BY <2>1, ModeParts
  <2> HIDE DEF t
  <2>3. chip' = LoadByte(t)
    BY <1>1 DEF f, t
  <2> QED
    BY <2>2, <2>3, LoadByteParts
<1>5. last > Timeout => occurred
  BY <1>1 DEF Inv, WatchInv
<1>6. TypeOK'
  <2>1. mask' \in BOOLEAN
    BY <1>1
  <2>2. sent' \in Int
    BY <1>1
  <2> QED
    BY <1>1, <1>3, <1>4, <2>1, <2>2 DEF Inv, TypeOK
<1>7. ModesInv' /\ SendInv'
  BY <1>1, <1>2, <1>3, <1>4 DEF Inv, ModesInv, ModesAgree, SendInv, Receiving
<1>8. WatchInv'
  BY <1>1, <1>5 DEF WatchInv
<1>9. RxRing' /\ FramesInv'
  BY <1>1, <1>3, <1>4 DEF Inv, RxRing, FramesInv, NextOut, Held
<1> QED
  BY <1>6, <1>7, <1>8, <1>9 DEF Inv

LEMMA StartedStep ==
  ASSUME Inv, Started
  PROVE  Inv'
<1> USE DEF driverVars, Goto, Unmask
<1>1. /\ pc = "started" /\ pc' = "tx" /\ holdoff' = Holdoff
      /\ UNCHANGED <<ctrl, rx, checksum, tx_len, sent, chip, pcif, isr, occurred,
                     last, taken>>
      /\ mask' \in BOOLEAN
  BY DEF Started
<1>2. holdoff' \in 0 .. Holdoff /\ holdoff' > 0
  BY <1>1, Sizes
<1>3. TypeOK'
  BY <1>1, <1>2 DEF Inv, TypeOK
<1>4. ModesInv' /\ SendInv'
  BY <1>1 DEF Inv, ModesInv, ModesAgree, SendInv, Receiving
<1>5. WatchInv'
  BY <1>1, <1>2 DEF Inv, WatchInv, Receiving
<1>6. RxRing' /\ FramesInv'
  BY <1>1 DEF Inv, RxRing, FramesInv, NextOut, Held
<1> QED
  BY <1>3, <1>4, <1>5, <1>6 DEF Inv

LEMMA TickStep ==
  ASSUME Inv, Tick
  PROVE  Inv'
<1> USE DEF driverVars
<1>1. UNCHANGED <<ctrl, rx, checksum, tx_len, sent, chip, mask, pcif, isr, pc, taken>>
  BY DEF Tick
<1>2. /\ holdoff' \in 0 .. Holdoff /\ last' \in 0 .. Timeout + 1
      /\ occurred' \in BOOLEAN
  <2>1. holdoff \in 0 .. Holdoff /\ last \in 0 .. Timeout + 1 /\ occurred \in BOOLEAN
    BY DEF Inv, TypeOK
  <2>2. holdoff' \in 0 .. Holdoff
    BY <2>1, Sizes DEF Tick
  <2>3. last' \in 0 .. Timeout + 1
    BY <2>1, Sizes DEF Tick, Least
  <2>4. occurred' \in BOOLEAN
    BY <2>1 DEF Tick
  <2> QED
    BY <2>2, <2>3, <2>4
<1>3. TypeOK'
  BY <1>1, <1>2 DEF Inv, TypeOK
<1>4. ModesInv' /\ SendInv'
  BY <1>1 DEF Inv, ModesInv, ModesAgree, SendInv, Receiving
<1>5. WatchInv'
  <2>1. CASE occurred \/ ctrl.state = "RX_IDLE"
    <3>1. ~(last' > Timeout)
      BY <2>1, Sizes DEF Tick
    <3> QED
      BY <1>1, <3>1 DEF Inv, WatchInv
  <2>2. CASE ~occurred /\ ctrl.state # "RX_IDLE"
    <3>1. ~occurred' /\ (last' > Timeout => last > Timeout \/ last = Timeout)
      BY <2>2, Sizes DEF Tick, Inv, TypeOK, Least
    <3>2. CASE last > Timeout
      BY <1>1, <2>2, <3>1, <3>2 DEF Inv, WatchInv
    <3>3. CASE last = Timeout
      <4>1. Silent
        BY <2>2, <3>3 DEF Tick
      <4>2. chip.mode = "rx" \/ (chip.ready /\ ~pcif)
        BY <4>1 DEF Silent, Request
      <4> QED
        BY <1>1, <2>2, <3>1, <4>1, <4>2 DEF Inv, WatchInv, Silent
    <3> QED
      BY <1>1, <3>1, <3>2, <3>3 DEF Inv, WatchInv
  <2> QED
    BY <2>1, <2>2
<1>6. RxRing' /\ FramesInv'
  BY <1>1 DEF Inv, RxRing, FramesInv, NextOut, Held
<1> QED
  BY <1>3, <1>4, <1>5, <1>6 DEF Inv

LEMMA NextInv ==
  ASSUME Inv, [Next]_vars
  PROVE  Inv'
<1>1. CASE ChipStep
  BY <1>1, FrameStartsStep, ByteInStep, ByteOutStep DEF ChipStep
<1>2. CASE Isr
  BY <1>2, IsrEnterStep, IsrReceiveStep, IsrDropStep, IsrSendStep, IsrSendEndStep,
     IsrSendResetStep, IsrLeaveStep, IsrReturnStep DEF Isr
<1>3. CASE Main
  BY <1>3, MovingSteps, dll_rf_tx_Step, CopyFrameStep, rfm12_rx_clear_Step,
     SwitchBufferStep, WatchdogStep, rfm12_reset_Step, SensingSteps, SensedStep,
     rfm12_start_tx_Step, StartedStep DEF Main
<1> QED
  BY <1>1, <1>2, <1>3, TickStep, Stutter DEF Next

-----------------------------------------------------------------------------
(* Theorems *)

(* What holds between any two steps of the handler, the loop, the timer and *)
(* the chip, for buffers of any size and any timeouts.                     *)
THEOREM Invariance == Spec => []Inv
BY InitInv, NextInv, PTL DEF Spec

(* The counters keep their ranges: also a count left over by the watchdog   *)
(* ends the reception before it passes the size of a frame sent.           *)
THEOREM TypeCorrect == Spec => []TypeOK
BY Invariance, PTL DEF Inv

(* The two receive buffers are a ring, wherever handler and loop are        *)
(* (rfm12.c:221, 288-290, 611-618).                                        *)
THEOREM Ring == Spec => []RxRing
BY Invariance, PTL DEF Inv

(* Driver and chip agree on who is sending, but while the watchdog resets   *)
(* them (datalink_phy_interface.c:53-57).                                  *)
THEOREM Modes == Spec => []ModesAgree
<1>1. Inv => ModesAgree
  BY DEF Inv, ModesInv
<1> QED
  BY <1>1, Invariance, PTL

(* A transmit buffer is free again only when the chip has got every byte of *)
(* its frame in order, whatever the watchdog interrupted before.           *)
THEOREM Whole == Spec => SentWhole
<1>1. ASSUME Inv, Next, ctrl.txstate = "occupied", ctrl'.txstate = "free"
      PROVE  sent = TxBytes(tx_len)
  <2>1. CASE IsrSendReset
    BY <1>1, <2>1, Sending DEF IsrSendReset, Inv, SendInv
  <2>2. CASE ~IsrSendReset
    <3>1. ctrl \in Ctrl
      BY <1>1, Parts DEF Inv
    <3>2. ctrl'.txstate = ctrl.txstate \/ ctrl'.txstate = "occupied"
      <4>1. CASE ChipStep
        BY <4>1 DEF ChipStep, FrameStarts, ByteIn, ByteOut, driverVars
      <4>2. CASE Isr
        <5>1. CASE IsrEnter \/ IsrLeave \/ IsrReturn
          BY <5>1 DEF IsrEnter, IsrLeave, IsrReturn, driverVars
        <5>2. CASE IsrReceive
          BY <3>1, <5>2, CtrlSet, HandOverParts DEF IsrReceive
        <5>3. CASE IsrDrop
          BY <3>1, <5>3, IdleParts DEF IsrDrop
        <5>4. CASE IsrSend \/ IsrSendEnd
          BY <3>1, <5>4, CtrlSet DEF IsrSend, IsrSendEnd
        <5> QED
          BY <2>2, <4>2, <5>1, <5>2, <5>3, <5>4 DEF Isr
      <4>3. CASE Main
        BY <3>1, <4>3, CtrlSet
        DEF Main, NothingToSend, dll_rf_tx, NothingReceived, CopyFrame,
            rfm12_rx_clear, SwitchBuffer, HoldOff, Watchdog, rfm12_reset, Responding,
            NotNow, SenseCarrier, SenseAgain, Sensed, rfm12_start_tx, Started,
            driverVars
      <4>4. CASE Tick
        BY <4>4 DEF Tick, driverVars
      <4> QED
        BY <1>1, <4>1, <4>2, <4>3, <4>4 DEF Next
    <3> QED
      BY <1>1, <3>2
  <2> QED
    BY <2>1, <2>2
<1>2. Inv /\ [Next]_vars
        => [ctrl.txstate = "occupied" /\ ctrl'.txstate = "free"
              => sent = TxBytes(tx_len)]_vars
  BY <1>1
<1> QED
  BY <1>2, Invariance, PTL DEF Spec, SentWhole

-----------------------------------------------------------------------------
(* The receiver implements LossyFifo *)

Pending == Arriving \ {taken}

LEMMA ArrivingFrames ==
  ASSUME Inv
  PROVE  /\ \A f \in Arriving : f \in Nat
         /\ chip.frame \in Nat /\ taken \in Nat
         /\ \A f \in Pending : f > taken
<1>1. /\ chip.frame \in Nat /\ taken \in Nat
      /\ \A i \in 0 .. 1 : rx[i].frame \in Nat
  BY Parts, BufferParts, ChipParts DEF Inv
<1>2. \A f \in Arriving : f \in Nat
  BY <1>1 DEF Arriving
<1>3. \A f \in Pending : f > taken
  BY <1>1 DEF Pending, Arriving, Inv, FramesInv, Held
<1> QED
  BY <1>1, <1>2, <1>3

(* A step by which no frame but new ones comes to be pending. *)
LEMMA Accepts ==
  ASSUME Inv, UNCHANGED taken, chip'.frame \in Nat, chip'.frame >= chip.frame,
         \A f \in Arriving' : f \in Arriving \/ f \in chip.frame + 1 .. chip'.frame
  PROVE  Received!Next
<1>1. Pending' \subseteq Pending \cup (chip.frame + 1 .. chip'.frame)
  BY DEF Pending
<1> QED
  BY <1>1 DEF Received!Next, Received!Accept, Received!Keeps, Pending

LEMMA ChipAccepts ==
  ASSUME Inv, ChipStep
  PROVE  Received!Next
<1> USE DEF driverVars, loopVars
<1>1. chip.frame \in Nat /\ chip \in Chip
  BY Parts, ChipParts DEF Inv
<1>2. CASE FrameStarts
  <2>1. /\ chip'.frame = chip.frame + 1 /\ chip'.synced
        /\ UNCHANGED <<rx, taken>>
    BY <1>1, <1>2 DEF FrameStarts, Chip
  <2>2. \A f \in Arriving' : f \in Arriving \/ f = chip.frame + 1
    BY <2>1 DEF Arriving
  <2> QED
    BY <1>1, <2>1, <2>2, Accepts
<1>3. CASE ByteIn \/ ByteOut
  <2>1. /\ chip'.frame = chip.frame /\ chip'.synced = chip.synced
        /\ UNCHANGED <<rx, taken>>
    BY <1>1, <1>3 DEF ByteIn, ByteOut, Chip
  <2>2. Arriving' = Arriving
    BY <2>1 DEF Arriving
  <2> QED
    BY <1>1, <2>1, <2>2, Accepts
<1> QED
  BY <1>2, <1>3 DEF ChipStep

(* A chip that hears nothing new and buffers that keep their frames. *)
LEMMA KeepsFrames ==
  ASSUME Inv, UNCHANGED taken, chip'.frame = chip.frame, chip'.synced => chip.synced,
         \A i \in 0 .. 1 : rx'[i].occupied => rx[i].occupied /\ rx'[i].frame = rx[i].frame
  PROVE  Received!Next
<1>1. chip.frame \in Nat
  BY ArrivingFrames
<1>2. \A f \in Arriving' : f \in Arriving
  BY DEF Arriving
<1> QED
  BY <1>1, <1>2, Accepts

LEMMA ReceiveAccepts ==
  ASSUME Inv, IsrReceive
  PROVE  Received!Next
<1> USE DEF loopVars
<1> DEFINE c == IF chip.mode = "rx" THEN [chip EXCEPT !.fifo = Tail(chip.fifo)]
                ELSE chip
<1>1. chip \in Chip /\ c.frame = chip.frame /\ c.synced = chip.synced
  BY Parts DEF Inv, Chip
<1>2. c \in Chip
  <2>1. CASE chip.mode = "rx"
    <3>1. chip.fifo # <<>> /\ chip.fifo \in Seq(Nat)
      BY <1>1, <2>1, ChipParts DEF IsrReceive, Turn, Request
    <3>2. Tail(chip.fifo) \in Seq(Nat)
      BY <3>1
    <3> QED
      BY <1>1, <2>1, <3>2 DEF Chip
  <2>2. CASE chip.mode # "rx"
    BY <1>1, <2>2
  <2> QED
    BY <2>1, <2>2
<1>3. chip.synced
  BY InLoop DEF IsrReceive, Turn, NextState, Inv, ModesInv, ModesAgree, FramesInv,
     Request, TypeOK, Ctrl, State
<1>4. UNCHANGED taken
  BY DEF IsrReceive, Turn
<1>5. /\ chip' = FifoReset(c) \/ chip' = c
      /\ \E len \in Nat :
           \/ rx' = [rx EXCEPT ![ctrl.in] =
                       [occupied |-> TRUE, len |-> len, frame |-> chip.frame]]
           \/ rx' = [rx EXCEPT ![ctrl.in].len = len]
  <2>1. PICK len \in LengthsIn(IF chip.mode = "rx" THEN Head(chip.fifo) ELSE 0) :
          /\ chip' = FifoReset(c) \/ chip' = c
          /\ \/ rx' = [rx EXCEPT ![ctrl.in] = [occupied |-> TRUE,
                         len |-> StoredLen(len), frame |-> chip.frame]]
             \/ rx' = [rx EXCEPT ![ctrl.in].len = StoredLen(len)]
    BY DEF IsrReceive
  <2>2. StoredLen(len) \in Nat
    BY StoredLenType, Sizes
  <2> QED
    BY <2>1, <2>2
<1> HIDE DEF c
<1>6. chip'.frame = chip.frame /\ chip.frame \in Nat
  BY <1>1, <1>2, <1>5, FifoResetParts, ChipParts
<1>7. \A i \in 0 .. 1 : rx'[i].occupied =>
        \/ rx'[i].frame = chip.frame
        \/ rx[i].occupied /\ rx'[i].frame = rx[i].frame
  <2>1. rx \in [0 .. 1 -> RxBuffer] /\ ctrl.in \in 0 .. 1
    BY Parts, CtrlParts DEF Inv
  <2> QED
    BY <1>5, <2>1 DEF RxBuffer
<1>8. chip.frame \in Arriving
  BY <1>3 DEF Arriving
<1>9. \A f \in Arriving' : f \in Arriving
  <2>1. ASSUME NEW f \in Arriving'
        PROVE  f \in Arriving
    <3>1. \/ f = chip'.frame
          \/ \E i \in 0 .. 1 : rx'[i].occupied /\ f = rx'[i].frame
      BY <2>1 DEF Arriving
    <3>2. ASSUME NEW i \in 0 .. 1, rx'[i].occupied, f = rx'[i].frame
          PROVE  f \in Arriving
      <4>1. CASE rx'[i].frame = chip.frame
        BY <1>8, <3>2, <4>1
      <4>2. CASE rx[i].occupied /\ rx'[i].frame = rx[i].frame
        BY <3>2, <4>2 DEF Arriving
      <4> QED
        BY <1>7, <3>2, <4>1, <4>2
    <3> QED
      BY <1>6, <1>8, <3>1, <3>2
  <2> QED
    BY <2>1
<1> QED
  BY <1>4, <1>6, <1>9, Accepts

LEMMA CopyServes ==
  ASSUME Inv, CopyFrame
  PROVE  Received!Next
<1>1. /\ pc = "rx" /\ rx[ctrl.out].occupied /\ taken' = rx[ctrl.out].frame
      /\ UNCHANGED <<ctrl, rx, chip>>
  BY DEF CopyFrame, CanRead, Goto, driverVars
<1>2. /\ ctrl.out \in 0 .. 1 /\ rx[ctrl.out].frame \in Nat /\ chip.frame \in Nat
      /\ \A i \in 0 .. 1 : rx[i].frame \in Nat /\ rx[i].occupied \in BOOLEAN
  BY Parts, CtrlParts, BufferParts, ChipParts DEF Inv
<1> DEFINE p == rx[ctrl.out].frame
<1>3. p \in Arriving
  BY <1>1, <1>2 DEF Arriving
<1>4. p > taken /\ taken \in Nat
  BY <1>1, <1>2, ArrivingFrames DEF Inv, FramesInv, Held
<1>5. p \in Pending
  BY <1>2, <1>3, <1>4 DEF Pending
<1>6. \A f \in Arriving : p <= f
  <2>1. ASSUME NEW i \in 0 .. 1, rx[i].occupied
        PROVE  p <= rx[i].frame
    <3>1. CASE i = ctrl.out
      BY <1>2, <3>1
    <3>2. CASE i # ctrl.out
      <4>1. i = 1 - ctrl.out /\ Held(0) /\ Held(1) /\ NextOut = ctrl.out
        BY <1>1, <1>2, <2>1, <3>2 DEF Held, NextOut
      <4> QED
        BY <1>2, <4>1 DEF Inv, FramesInv
    <3> QED
      BY <3>1, <3>2
  <2>2. chip.synced => p <= chip.frame
    BY <1>1, <1>2 DEF Inv, FramesInv, Held
  <2> QED
    BY <2>1, <2>2 DEF Arriving
<1>7. Arriving' = Arriving
  BY <1>1 DEF Arriving
<1>8. Pending' \subseteq (Pending \ {p}) \cup (chip.frame + 1 .. chip'.frame)
  <2>1. taken \notin Arriving
    BY <1>2, <1>4, <1>6
  <2>2. Pending' = Arriving \ {p}
    BY <1>1, <1>7 DEF Pending
  <2>3. Pending = Arriving
    BY <2>1 DEF Pending
  <2> QED
    BY <2>2, <2>3
<1>9. \A other \in Pending : p <= other
  BY <1>6 DEF Pending
<1>10. chip'.frame >= chip.frame
  BY <1>1, <1>2
<1> HIDE DEF p
<1>11. taken' = p
  BY <1>1 DEF p
<1> QED
  BY <1>5, <1>8, <1>9, <1>10, <1>11
  DEF Received!Next, Received!Serve, Received!Keeps, Pending

LEMMA OtherAccepts ==
  ASSUME Inv, Next, ~ChipStep, ~IsrReceive, ~CopyFrame
  PROVE  Received!Next
<1>1. chip \in Chip /\ rx \in [0 .. 1 -> RxBuffer] /\ ctrl.out \in 0 .. 1
  BY Parts, CtrlParts DEF Inv
<1>2. UNCHANGED taken
  BY DEF Next, Isr, IsrEnter, IsrDrop, IsrSend, IsrSendEnd, IsrSendReset, IsrLeave,
     IsrReturn, Turn, Main, NothingToSend, dll_rf_tx, NothingReceived, rfm12_rx_clear,
     SwitchBuffer, HoldOff, Watchdog, rfm12_reset, Responding, NotNow, SenseCarrier,
     SenseAgain, Sensed, rfm12_start_tx, Started, Tick, loopVars
<1>3. chip'.frame = chip.frame /\ (chip'.synced => chip.synced)
  <2>1. CASE IsrSendReset \/ rfm12_reset \/ rfm12_start_tx
    <3>1. \E c \in Chip :
            /\ c.frame = chip.frame
            /\ \/ chip' = FifoReset(c)
               \/ \E d \in Chip : /\ d.frame = c.frame /\ ~d.synced
                                 /\ chip' = LoadByte(d)
      <4> DEFINE r == Receiver(chip)
                 l == LoadByte(r)
                 f == FifoReset(chip)
                 t == Transmitter(f)
      <4>1. /\ r \in Chip /\ r.frame = chip.frame
            /\ f \in Chip /\ f.frame = chip.frame /\ ~f.synced
        BY <1>1, ModeParts, FifoResetParts
      <4>2. chip' = FifoReset(l) \/ chip' = LoadByte(t)
        BY <2>1 DEF IsrSendReset, rfm12_reset, Initialised, rfm12_start_tx
      <4> HIDE DEF r, f
      <4>3. l \in Chip /\ l.frame = chip.frame
        BY <4>1, LoadByteParts
      <4>4. t \in Chip /\ t.frame = chip.frame /\ ~t.synced
        BY <4>1, ModeParts
      <4> HIDE DEF l, t
      <4> QED
        BY <1>1, <4>2, <4>3, <4>4
    <3>2. PICK c \in Chip :
            /\ c.frame = chip.frame
            /\ \/ chip' = FifoReset(c)
               \/ \E d \in Chip : /\ d.frame = c.frame /\ ~d.synced
                                 /\ chip' = LoadByte(d)
      BY <3>1
    <3>3. CASE chip' = FifoReset(c)
      <4>1. FifoReset(c).frame = c.frame /\ FifoReset(c).synced = FALSE
        BY FifoResetParts
      <4> QED
        BY <3>2, <3>3, <4>1
    <3>4. ASSUME NEW d \in Chip, d.frame = c.frame, ~d.synced, chip' = LoadByte(d)
          PROVE  chip'.frame = chip.frame /\ ~chip'.synced
      <4>1. LoadByte(d).frame = d.frame /\ LoadByte(d).synced = d.synced
        BY LoadByteParts
      <4> QED
        BY <3>2, <3>4, <4>1
    <3> QED
      BY <3>2, <3>3, <3>4
  <2>2. CASE ~(IsrSendReset \/ rfm12_reset \/ rfm12_start_tx)
    <3>1. chip' \in {chip, FifoReset(chip), LoadByte(chip)}
      BY <2>2 DEF Next, Isr, IsrEnter, IsrDrop, IsrSend, IsrSendEnd, IsrLeave,
         IsrReturn, Main, NothingToSend, dll_rf_tx, NothingReceived, rfm12_rx_clear,
         SwitchBuffer, HoldOff, Watchdog, Responding, NotNow, SenseCarrier,
         SenseAgain, Sensed, Started, Tick
    <3> QED
      <4>1. CASE chip' = FifoReset(chip)
        BY <1>1, <4>1, FifoResetParts
      <4>2. CASE chip' = LoadByte(chip)
        BY <1>1, <4>2, LoadByteParts
      <4> QED
        BY <3>1, <4>1, <4>2
  <2> QED
    BY <2>1, <2>2
<1>4. \A i \in 0 .. 1 : rx'[i].occupied => rx[i].occupied /\ rx'[i].frame = rx[i].frame
  <2>1. CASE rfm12_rx_clear
    BY <1>1, <2>1 DEF rfm12_rx_clear, RxBuffer
  <2>2. CASE ~rfm12_rx_clear
    <3>1. UNCHANGED rx
      BY <2>2 DEF Next, Isr, IsrEnter, IsrDrop, IsrSend, IsrSendEnd, IsrSendReset,
         IsrLeave, IsrReturn, Main, NothingToSend, dll_rf_tx, NothingReceived,
         SwitchBuffer, HoldOff, Watchdog, rfm12_reset, Responding, NotNow,
         SenseCarrier, SenseAgain, Sensed, rfm12_start_tx, Started, Tick, driverVars
    <3> QED
      BY <3>1
  <2> QED
    BY <2>1, <2>2
<1> QED
  BY <1>2, <1>3, <1>4, KeepsFrames

(* Frames are handed over in their order, each at most once, while handler  *)
(* and loop work on one buffer each (rfm12.c:283-292, 611-618): the driver  *)
(* implements LossyFifo, and DataLink's receiver gets what that promises.  *)
THEOREM IsLossyFifo == Spec => IsReceiver
<1>1. Init => Received!Init
  BY DEF Init, Received!Init, Arriving
<1>2. Inv /\ Next => Received!Next
  BY ChipAccepts, ReceiveAccepts, CopyServes, OtherAccepts
<1>3. UNCHANGED vars => UNCHANGED Received!fifoVars
  BY DEF vars, driverVars, intVars, loopVars, Received!fifoVars, Arriving
<1>4. Inv /\ [Next]_vars => [Received!Next]_(Received!fifoVars)
  BY <1>2, <1>3
<1> QED
  BY <1>1, <1>4, Invariance, PTL DEF Spec, IsReceiver, Received!Spec

=============================================================================
