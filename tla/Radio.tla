-------------------------------- MODULE Radio --------------------------------
(***************************************************************************)
(* One node's radio: the driver's interrupt handler and transmit functions  *)
(* (lib/librfm12/src/rfm12.c), the interface above it with its watchdog     *)
(* (src/datalink_phy_interface.c), and the RFM12B chip as they use it.      *)
(*                                                                         *)
(* The handler interrupts the main loop between any two of its steps, never *)
(* the other way round; the chip works beside both.  The handler is called  *)
(* for a change of the chip's request pin, but a change is only noticed     *)
(* while the pin is not masked.                                            *)
(*                                                                         *)
(* A byte received is its position in its frame, 0 for noise; frames are    *)
(* numbered as the chip hears their sync pattern.                          *)
(***************************************************************************)
EXTENDS Integers, Sequences

CONSTANTS
  RFM12_TRX_FRAME_SIZE,  \* payload bytes of a buffer
  Lengths,               \* lengths of the frames on the air, without header
  NoiseLengths,          \* lengths that noise is taken for
  FifoSize,              \* bytes the chip's receiver keeps
  Timeout,               \* RFM12B_INTERRUPT_TIMEOUT_MS
  Holdoff,               \* RFM12B_TRANSMIT_HOLDOFF_MS
  MaxFrames              \* bound: frames heard

RFM12_TRX_OVERHEAD == 3
SyncBytes == 2

ASSUME RadioAssumption ==
  /\ RFM12_TRX_FRAME_SIZE \in Nat
  /\ Lengths \subseteq 1 .. RFM12_TRX_FRAME_SIZE
  /\ NoiseLengths # {} /\ NoiseLengths \subseteq Nat
  /\ {FifoSize, Timeout, Holdoff} \subseteq Nat \ {0}
  /\ MaxFrames \in Nat

VARIABLES
  ctrl,      \* the driver's state, transmit status, counters, buffer numbers
  rx,        \* the two receive buffers: occupied, len, and the frame that an
             \*   occupied one came from
  checksum,  \* header bytes it was taken over since its reset, -1 if others
  tx_len,    \* length of the frame in the transmit buffer
  chip,      \* mode, receiver's fifo, frame on the air, transmitter ready
  sent,      \* history: bytes of the frame transmitted in order, -1 if not
  mask,      \* the pin's interrupt is on
  pcif,      \* a change of the pin was noticed
  isr,       \* the interrupt handler's step
  occurred,  \* rf_interrupt_occurred
  pc,        \* the main loop's step
  holdoff,   \* rfm12b_transmit_holdoff
  last,      \* rfm12b_last_interrupt
  taken      \* history: the frame handed to the data link layer last

driverVars == <<ctrl, rx, checksum, tx_len, sent>>
intVars == <<mask, pcif, isr, occurred>>
loopVars == <<pc, holdoff, last, taken>>
vars == <<driverVars, chip, intVars, loopVars>>

State == {"RX_IDLE", "RX_ACTIVE", "TX", "TX_END"}
BuffState == {"free", "occupied"}
Ctrl == [state : State, txstate : BuffState, num_bytes : Nat,
         bytecount : 0 .. SyncBytes + RFM12_TRX_OVERHEAD + RFM12_TRX_FRAME_SIZE,
         in : 0 .. 1, out : 0 .. 1]
RxBuffer == [occupied : BOOLEAN, frame : 0 .. MaxFrames,
             len : 0 .. RFM12_TRX_FRAME_SIZE + RFM12_TRX_OVERHEAD]
Chip == [mode : {"rx", "off", "tx"}, synced : BOOLEAN, frame : 0 .. MaxFrames,
         len : Nat, pos : Nat, fifo : Seq(Nat), ready : BOOLEAN]

Least(a, b) == IF a < b THEN a ELSE b
FrameBytes(len) == RFM12_TRX_OVERHEAD + len
TxBytes(len) == SyncBytes + FrameBytes(len)

-----------------------------------------------------------------------------
(* The chip *)

(* One status bit tells that the receiver has a byte and that the          *)
(* transmitter wants one; the request pin is low while it is set.          *)
Request(c) == \/ c.mode = "rx" /\ c.fifo # <<>>
              \/ c.mode = "tx" /\ c.ready

(* A change of a masked pin is not noticed, then or later. *)
Notice(c) == pcif' = (pcif \/ (mask /\ Request(c) # Request(chip)))

(* CLEAR_FIFO, ACCEPT_DATA: the receiver waits for a sync pattern. *)
FifoReset(c) == [c EXCEPT !.fifo = <<>>, !.synced = FALSE, !.len = 0, !.pos = 0]
Receiver(c) == [c EXCEPT !.mode = "rx"]
Transmitter(c) == [c EXCEPT !.mode = "tx"]
LoadByte(c) == [c EXCEPT !.ready = FALSE]

(* After all commands of init_cmds the receiver waits for a frame. *)
Initialised(c) == FifoReset(LoadByte(Receiver(c)))

(* The chip hears a sync pattern. *)
FrameStarts ==
  /\ chip.mode = "rx" /\ ~chip.synced
  /\ chip.frame < MaxFrames
  /\ \E len \in Lengths :
       chip' = [chip EXCEPT !.synced = TRUE, !.frame = @ + 1, !.len = len, !.pos = 0]
  /\ UNCHANGED <<driverVars, intVars, loopVars>>

(* A byte of the frame comes in, or noise when it is over or disturbed; a  *)
(* full fifo loses it.                                                     *)
ByteIn ==
  /\ chip.mode = "rx" /\ chip.synced
  /\ \E noise \in {TRUE, chip.pos = FrameBytes(chip.len)} :
       chip' = [chip EXCEPT
         !.pos  = IF noise THEN FrameBytes(chip.len) ELSE @ + 1,
         !.fifo = IF Len(@) = FifoSize THEN @
                  ELSE Append(@, IF noise THEN 0 ELSE chip.pos + 1)]
  /\ Notice(chip')
  /\ UNCHANGED <<driverVars, mask, isr, occurred, loopVars>>

ByteOut ==
  /\ chip.mode = "tx" /\ ~chip.ready
  /\ chip' = [chip EXCEPT !.ready = TRUE]
  /\ Notice(chip')
  /\ UNCHANGED <<driverVars, mask, isr, occurred, loopVars>>

ChipStep == FrameStarts \/ ByteIn \/ ByteOut

-----------------------------------------------------------------------------
(* The interrupt handler *)

(* The handler returns at once if the pin is high. *)
IsrEnter ==
  /\ pcif /\ isr = "off"
  /\ pcif' = FALSE
  /\ IF Request(chip)
       THEN isr' = "loop" /\ mask' = FALSE /\ occurred' = TRUE
       ELSE UNCHANGED <<isr, mask, occurred>>
  /\ UNCHANGED <<driverVars, chip, loopVars>>

(* The header's checksum, tested only before the first byte after it. *)
ChecksumFail == ctrl.bytecount = RFM12_TRX_OVERHEAD /\ checksum # RFM12_TRX_OVERHEAD

(* Next state logic. *)
NextState ==
  CASE ctrl.state \in {"RX_IDLE", "RX_ACTIVE"} ->
         IF ~rx[ctrl.in].occupied /\ ~ChecksumFail THEN "RX_ACTIVE" ELSE "RX_IDLE"
    [] ctrl.state = "TX" ->
         IF ctrl.bytecount < ctrl.num_bytes
            /\ ctrl.bytecount < RFM12_TRX_FRAME_SIZE + SyncBytes + RFM12_TRX_OVERHEAD
         THEN "TX" ELSE "TX_END"
    [] ctrl.state = "TX_END" -> "TX_RESET"

(* One turn of the handler's loop, which goes on while the chip requests.  *)
Turn(state) ==
  /\ isr = "loop" /\ Request(chip)
  /\ NextState = state
  /\ pcif' = FALSE
  /\ UNCHANGED <<tx_len, mask, isr, occurred, loopVars>>

(* What every turn that ends in RX_IDLE does. *)
Idle(c) == [c EXCEPT !.state = "RX_IDLE", !.bytecount = 0, !.num_bytes = 0]

(* A length byte is clipped to the size of the buffer with its header. *)
Clipped(len) == Least(len, RFM12_TRX_FRAME_SIZE + RFM12_TRX_OVERHEAD)

(* The lengths that byte b at the beginning of a frame may stand for. *)
LengthsIn(b) == IF b = 1 THEN {chip.len} ELSE NoiseLengths

(* The length kept with the buffer after a byte was written to it. *)
StoredLen(len) == IF ctrl.bytecount = 0 THEN Clipped(len) ELSE rx[ctrl.in].len

(* Mutant: a frame longer than it says never ends. *)
CompleteExactly(len) == FrameBytes(len) = ctrl.bytecount + 1

(* The byte being read is the last one of a frame of that length. *)
Complete(len) == FrameBytes(len) <= ctrl.bytecount + 1

(* The checksum is right after the three header bytes of a frame, and only *)
(* then.                                                                   *)
SumWith(b) == IF b \in 1 .. RFM12_TRX_OVERHEAD /\ checksum = b - 1 THEN b ELSE -1

(* Mutant: the receive buffers are not switched. *)
HandOverSame(c) == Idle(c)

(* The counters and the buffer number when a buffer is full. *)
HandOver(c) == [Idle(c) EXCEPT !.in = 1 - @]

(* A byte is read and stored; after the last one the buffer is handed over *)
(* and the receiver waits for the next frame.                              *)
IsrReceive ==
  /\ Turn("RX_ACTIVE")
  /\ LET b == IF chip.mode = "rx" THEN Head(chip.fifo) ELSE 0
         c == IF chip.mode = "rx" THEN [chip EXCEPT !.fifo = Tail(@)] ELSE chip
     IN \E len \in LengthsIn(b) :
          IF Complete(StoredLen(len))
            THEN /\ rx' = [rx EXCEPT ![ctrl.in] = [occupied |-> TRUE,
                             len |-> StoredLen(len), frame |-> chip.frame]]
                 /\ ctrl' = HandOver(ctrl)
                 /\ checksum' = 0
                 /\ chip' = FifoReset(c)
            ELSE /\ rx' = [rx EXCEPT ![ctrl.in].len = StoredLen(len)]
                 /\ ctrl' = [ctrl EXCEPT !.state = "RX_ACTIVE", !.bytecount = @ + 1]
                 /\ checksum' = SumWith(b)
                 /\ chip' = c
  /\ UNCHANGED sent

(* No free buffer, or a bad header: the rest of the frame is given up. *)
IsrDrop ==
  /\ Turn("RX_IDLE")
  /\ ctrl' = Idle(ctrl)
  /\ checksum' = 0
  /\ chip' = FifoReset(chip)
  /\ UNCHANGED <<rx, sent>>

IsrSend ==
  /\ Turn("TX")
  /\ ctrl' = [ctrl EXCEPT !.bytecount = @ + 1]
  /\ sent' = IF sent = ctrl.bytecount THEN sent + 1 ELSE -1
  /\ chip' = LoadByte(chip)
  /\ UNCHANGED <<rx, checksum>>

(* A dummy byte pushes the last one out. *)
IsrSendEnd ==
  /\ Turn("TX_END")
  /\ ctrl' = [ctrl EXCEPT !.state = "TX_END"]
  /\ chip' = LoadByte(chip)
  /\ UNCHANGED <<rx, checksum, sent>>

(* Mutant: the receiver stays off. *)
IsrSendResetOff ==
  /\ Turn("TX_RESET")
  /\ ctrl' = [Idle(ctrl) EXCEPT !.txstate = "free"]
  /\ checksum' = 0
  /\ chip' = FifoReset(LoadByte(chip))
  /\ sent' = 0
  /\ UNCHANGED rx

(* The transmit buffer is free and the receiver on. *)
IsrSendReset ==
  /\ Turn("TX_RESET")
  /\ ctrl' = [Idle(ctrl) EXCEPT !.txstate = "free"]
  /\ checksum' = 0
  /\ chip' = FifoReset(LoadByte(Receiver(chip)))
  /\ sent' = 0
  /\ UNCHANGED rx

(* The status shows no request: the loop ends, and only then the pin is    *)
(* watched again.                                                          *)
IsrLeave ==
  /\ isr = "loop" /\ ~Request(chip)
  /\ isr' = "leave" /\ pcif' = FALSE
  /\ UNCHANGED <<driverVars, chip, mask, occurred, loopVars>>

IsrReturn ==
  /\ isr = "leave"
  /\ isr' = "off" /\ mask' = TRUE
  /\ UNCHANGED <<driverVars, chip, pcif, occurred, loopVars>>

Isr ==
  \/ IsrEnter \/ IsrReceive \/ IsrDrop \/ IsrSend \/ IsrSendEnd
  \/ IsrSendReset \/ IsrLeave \/ IsrReturn

-----------------------------------------------------------------------------
(* The main loop *)

(* A step of the loop, which does not go on before a noticed change of the *)
(* pin has been handled.                                                   *)
Goto(from, to) ==
  /\ isr = "off" /\ ~pcif
  /\ pc = from /\ pc' = to

Unmask == mask' = TRUE /\ UNCHANGED <<pcif, isr, occurred>>
Mask == mask' = FALSE /\ UNCHANGED <<pcif, isr, occurred>>

dll_rf_can_tx == ctrl.txstate = "free"

NothingToSend ==
  /\ Goto("tx", "rx")
  /\ UNCHANGED <<driverVars, chip, intVars, holdoff, last, taken>>

(* rfm12_tx and rfm12_queue_tx. *)
dll_rf_tx ==
  /\ Goto("tx", "rx")
  /\ dll_rf_can_tx
  /\ tx_len' \in Lengths
  /\ ctrl' = [ctrl EXCEPT !.txstate = "occupied"]
  /\ UNCHANGED <<rx, checksum, sent, chip, intVars, holdoff, last, taken>>

CanRead == ctrl.state = "RX_IDLE" /\ rx[ctrl.out].occupied

NothingReceived ==
  /\ Goto("rx", "tick")
  /\ ~CanRead
  /\ UNCHANGED <<driverVars, chip, intVars, holdoff, last, taken>>

(* dll_rf_rx copies the buffer; rfm12_rx_clear then frees it and switches. *)
CopyFrame ==
  /\ Goto("rx", "clear")
  /\ CanRead
  /\ taken' = rx[ctrl.out].frame
  /\ UNCHANGED <<driverVars, chip, intVars, holdoff, last>>

(* Mutant: the buffer stays occupied. *)
RxClearKeeps ==
  /\ Goto("clear", "switch")
  /\ UNCHANGED <<driverVars, chip, intVars, holdoff, last, taken>>

rfm12_rx_clear ==
  /\ Goto("clear", "switch")
  /\ rx' = [rx EXCEPT ![ctrl.out].occupied = FALSE, ![ctrl.out].frame = 0]
  /\ UNCHANGED <<ctrl, checksum, tx_len, sent, chip, intVars, holdoff, last, taken>>

SwitchBuffer ==
  /\ Goto("switch", "tick")
  /\ ctrl' = [ctrl EXCEPT !.out = 1 - @]
  /\ UNCHANGED <<rx, checksum, tx_len, sent, chip, intVars, holdoff, last, taken>>

(* dll_rf_tick: nothing to do right after a transmission. *)
HoldOff ==
  /\ Goto("tick", "tx")
  /\ holdoff > 0
  /\ UNCHANGED <<driverVars, chip, intVars, holdoff, last, taken>>

(* Mutant: the module is reset, the driver's state is not. *)
WatchdogKeepsState ==
  /\ Goto("tick", "reset")
  /\ holdoff = 0 /\ last > Timeout
  /\ UNCHANGED <<driverVars, chip, intVars, holdoff, last, taken>>

(* The watchdog: the module did not request for too long. *)
Watchdog ==
  /\ Goto("tick", "reset")
  /\ holdoff = 0 /\ last > Timeout
  /\ ctrl' = [ctrl EXCEPT !.state = "RX_IDLE"]
  /\ UNCHANGED <<rx, checksum, tx_len, sent, chip, intVars, holdoff, last, taken>>

(* Buffers, counters and checksum stay as they are. *)
rfm12_reset ==
  /\ Goto("reset", "csma")
  /\ chip' = Initialised(chip)
  /\ last' = 0 /\ sent' = 0
  /\ Unmask
  /\ UNCHANGED <<ctrl, rx, checksum, tx_len, holdoff, taken>>

Responding ==
  /\ Goto("tick", "csma")
  /\ holdoff = 0 /\ last <= Timeout
  /\ UNCHANGED <<driverVars, chip, intVars, holdoff, last, taken>>

MaySend == ctrl.state = "RX_IDLE" /\ ~dll_rf_can_tx

NotNow ==
  /\ Goto("csma", "tx")
  /\ ~MaySend
  /\ UNCHANGED <<driverVars, chip, intVars, holdoff, last, taken>>

(* is_carrier_present reads the status with the pin masked. *)
SenseCarrier ==
  /\ \/ Goto("csma", "sensed") /\ MaySend
     \/ Goto("sense", "sensed")
  /\ Mask
  /\ UNCHANGED <<driverVars, chip, holdoff, last, taken>>

SenseAgain ==
  /\ Goto("sensed", "sense")
  /\ Unmask
  /\ UNCHANGED <<driverVars, chip, holdoff, last, taken>>

(* The frame waits or is sent: the carrier and a random number decide. *)
Sensed ==
  /\ \E to \in {"tx", "start"} : Goto("sensed", to)
  /\ Unmask
  /\ UNCHANGED <<driverVars, chip, holdoff, last, taken>>

(* Mutant: the counter of bytes is not reset. *)
StartKeepsCount ==
  /\ Goto("start", "started")
  /\ ctrl' = [ctrl EXCEPT !.state = "TX",
                          !.num_bytes = TxBytes(tx_len)]
  /\ sent' = 0
  /\ chip' = LoadByte(Transmitter(FifoReset(chip)))
  /\ Mask
  /\ UNCHANGED <<rx, checksum, tx_len, holdoff, last, taken>>

(* The state is not tested again: a reception that began meanwhile is lost. *)
rfm12_start_tx ==
  /\ Goto("start", "started")
  /\ ctrl' = [ctrl EXCEPT !.state = "TX", !.bytecount = 0,
                          !.num_bytes = TxBytes(tx_len)]
  /\ sent' = 0
  /\ chip' = LoadByte(Transmitter(FifoReset(chip)))
  /\ Mask
  /\ UNCHANGED <<rx, checksum, tx_len, holdoff, last, taken>>

Started ==
  /\ Goto("started", "tx")
  /\ holdoff' = Holdoff
  /\ Unmask
  /\ UNCHANGED <<driverVars, chip, last, taken>>

Main ==
  \/ NothingToSend \/ dll_rf_tx
  \/ NothingReceived \/ CopyFrame \/ rfm12_rx_clear \/ SwitchBuffer
  \/ HoldOff \/ Watchdog \/ rfm12_reset \/ Responding
  \/ NotNow \/ SenseCarrier \/ SenseAgain \/ Sensed \/ rfm12_start_tx \/ Started

-----------------------------------------------------------------------------
(* The timer interrupt *)

(* The chip has nothing to request: no frame comes in, or it waits for the *)
(* handler, which has not noticed.  The loop is not just starting to send. *)
Silent ==
  /\ ~pcif /\ isr = "off"
  /\ Request(chip) \/ (chip.mode = "rx" /\ ~chip.synced)
  /\ pc \notin {"sense", "sensed", "start", "started"}

(* dll_timer.  The chip needs less than Timeout for a byte, and the main   *)
(* loop for a turn.                                                        *)
Tick ==
  /\ holdoff' = IF holdoff > 0 THEN holdoff - 1 ELSE 0
  /\ IF occurred \/ ctrl.state = "RX_IDLE"
       THEN occurred' = FALSE /\ last' = 0
       ELSE /\ last = Timeout => Silent
            /\ last' = Least(last + 1, Timeout + 1)
            /\ UNCHANGED occurred
  /\ UNCHANGED <<driverVars, chip, mask, pcif, isr, pc, taken>>

(* rfm12_init. *)
Init ==
  /\ ctrl = [state |-> "RX_IDLE", txstate |-> "free", num_bytes |-> 0,
             bytecount |-> 0, in |-> 0, out |-> 0]
  /\ rx = [i \in 0 .. 1 |-> [occupied |-> FALSE, len |-> 0, frame |-> 0]]
  /\ checksum = 0
  /\ tx_len = 0
  /\ chip = [mode |-> "rx", synced |-> FALSE, frame |-> 0, len |-> 0, pos |-> 0,
             fifo |-> <<>>, ready |-> FALSE]
  /\ sent = 0
  /\ mask = TRUE /\ pcif = FALSE /\ isr = "off" /\ occurred = FALSE
  /\ pc = "tx" /\ holdoff = 0 /\ last = 0 /\ taken = 0

Next == ChipStep \/ Isr \/ Main \/ Tick

Spec == Init /\ [][Next]_vars

(* The main loop never waits and senses the carrier eight times at most,   *)
(* interrupts are served, the timer runs, and the chip goes on with a frame *)
(* that it receives or sends.                                              *)
Fairness ==
  /\ WF_vars(Isr) /\ WF_vars(Main) /\ WF_vars(Tick)
  /\ SF_vars(Sensed)
  /\ WF_vars(ByteIn \/ ByteOut)

FairSpec == Spec /\ Fairness

-----------------------------------------------------------------------------
(* Properties *)

TypeOK ==
  /\ ctrl \in Ctrl
  /\ rx \in [0 .. 1 -> RxBuffer]
  /\ checksum \in -1 .. RFM12_TRX_OVERHEAD
  /\ tx_len \in Nat
  /\ chip \in Chip
  /\ sent \in Int
  /\ mask \in BOOLEAN /\ pcif \in BOOLEAN /\ occurred \in BOOLEAN
  /\ isr \in {"off", "loop", "leave"}
  /\ pc \in {"tx", "rx", "clear", "switch", "tick", "reset", "csma", "sense",
             "sensed", "start", "started"}
  /\ holdoff \in 0 .. Holdoff
  /\ last \in 0 .. Timeout + 1
  /\ taken \in 0 .. MaxFrames

(* The two buffers are a ring, at any point of the main loop and of the    *)
(* handler: both have the same status when the handler and the loop are at  *)
(* the same one, else the loop is at an occupied and the handler at a free  *)
(* one (rfm12.c:221, 288-290, 611-618).                                    *)
NextOut == IF pc = "switch" THEN 1 - ctrl.out ELSE ctrl.out

RxRing ==
  /\ IF ctrl.in = NextOut
       THEN rx[0].occupied = rx[1].occupied
       ELSE rx[NextOut].occupied /\ ~rx[ctrl.in].occupied
  /\ pc = "clear" => rx[ctrl.out].occupied /\ rx[ctrl.out].frame = taken

(* Frames are handed over in the order they came, each at most once, while *)
(* the handler fills one buffer and the loop empties the other; DataLink's *)
(* receiver relies on it.                                                  *)
Arriving == {rx[i].frame : i \in {j \in 0 .. 1 : rx[j].occupied}}
              \cup (IF chip.synced THEN {chip.frame} ELSE {})

Received == INSTANCE LossyFifo
              WITH issued <- chip.frame, pending <- Arriving \ {taken}, taken <- taken
IsReceiver == Received!Spec

(* rfm12.c:267, "Write the byte into the receive data structure with       *)
(* overflow check": no byte is written beyond the buffer.                  *)
WritesInBounds ==
  [][IsrReceive => ctrl.bytecount < FrameBytes(RFM12_TRX_FRAME_SIZE)]_vars

(* The transmit buffer is given free only when the chip has got all bytes  *)
(* of the frame, once each and in order.                                   *)
SentWhole ==
  [][ctrl.txstate = "occupied" /\ ctrl'.txstate = "free"
       => sent = TxBytes(tx_len)]_vars

(* Driver and chip agree on who is sending, but for the moment in which the *)
(* watchdog has reset only one of them.                                    *)
ModesAgree ==
  pc # "reset" => (chip.mode = "tx" <=> ctrl.state \in {"TX", "TX_END"})

(* datalink_phy_interface.c:52: whatever requests are missed, a reception  *)
(* or transmission ends.                                                   *)
Recovers == ctrl.state # "RX_IDLE" ~> ctrl.state = "RX_IDLE"

=============================================================================
