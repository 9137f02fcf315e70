------------------------------ MODULE DataLink ------------------------------
(***************************************************************************)
(* The data link layer (src/datalink.c) with the part of the main loop that *)
(* calls it (main.c:158-217): packets are cut into frames by any number of  *)
(* senders and put together again by one receiver.  The two halves of the   *)
(* layer share no state, so a node is here either a sender or the receiver. *)
(*                                                                         *)
(* A byte of a packet stands for where it comes from: its source, the       *)
(* number of the packet among those of the source, its position in the      *)
(* packet and the packet's length.  The radios between the nodes, modelled  *)
(* in Radio, lose frames, repeat the one in the transmit buffer and damage  *)
(* some, but keep them in order.                                           *)
(***************************************************************************)
EXTENDS Integers, Sequences, FiniteSets

CONSTANTS
  Sender,               \* the nodes that send
  DLL_MAX_PACKET_SIZE,  \* bytes of a packet
  DLL_MTU,              \* bytes of a packet in one frame
  DLL_RX_TABLE_SIZE,    \* packets put together at a time
  SeqMod,               \* sequence numbers: those of one byte
  RxBuffers,            \* receive buffers of the radio
  Damage,               \* how many bytes of the checksum a frame may fail
  Dest,                 \* whom packets are for: "us" (or all), "other"
  NoSender,             \* the source in an entry that was never used
  MaxPackets            \* bound: packets a sender queues

ASSUME LinkAssumption ==
  /\ {DLL_MAX_PACKET_SIZE, DLL_MTU, DLL_RX_TABLE_SIZE, SeqMod, RxBuffers}
       \subseteq Nat \ {0}
  /\ Damage \subseteq 0 .. 2
  /\ Dest \subseteq {"us", "other"}
  /\ NoSender \notin Sender
  /\ MaxPackets \in Nat

VARIABLES
  pc,             \* the turn of the receiver's main loop
  buffer,         \* dll_frame_buffer of each sender
  count,          \* packets each sender has queued: dll_sequence_number
  radio,          \* transmit buffer of each sender's radio
  heard,          \* receive buffers of the receiver's radio
  table,          \* dll_rx_table
  dll_rx_packet,  \* the packet complete, empty when its length is 0
  rx_packet,      \* the one for the network layer, empty when dllRxFlag is 0
  handed,         \* history: of each sender, the packet handed over last
  older           \* history: the pairs of slots of which the first was used
                  \*          before the second

senderVars == <<buffer, count, radio>>
receiverVars == <<pc, table, dll_rx_packet, rx_packet, handed, older>>
vars == <<senderVars, heard, receiverVars>>

Slot == 0 .. DLL_RX_TABLE_SIZE - 1
Byte == [src : Sender, num : Nat, pos : Nat, len : Nat]
PacketBuffer == [current_index : Nat, length : 0 .. DLL_MAX_PACKET_SIZE,
                 destination : Dest \cup {"us"}]
Frame == [seq : 0 .. SeqMod - 1, start_offset : Nat, end : BOOLEAN,
          src : Sender, dest : Dest, data : Seq(Byte), damage : 0 .. 2]
Entry == [free : BOOLEAN, order : Nat, src : Sender \cup {NoSender},
          seq_num : 0 .. SeqMod - 1, data : Seq(Byte)]

Least(S) == CHOOSE i \in S : \A j \in S : i <= j
Greatest(S) == CHOOSE i \in S : \A j \in S : i >= j
Lesser(a, b) == IF a < b THEN a ELSE b

-----------------------------------------------------------------------------
(* Sending *)

(* Mutant: the length is not tested. *)
QueueAnyLength(b, length, dest) ==
  IF b.length # 0
    THEN b
    ELSE [current_index |-> 0, length |-> length, destination |-> dest]

(* A packet of bad length is not queued, though 1 is returned for it. *)
dll_queue_tx_net_packet(b, length, dest) ==
  IF b.length # 0 \/ length \notin 1 .. DLL_MAX_PACKET_SIZE
    THEN b
    ELSE [current_index |-> 0, length |-> length, destination |-> dest]

(* The main loop drops the packet while the last one is being sent. *)
NetTx(s) ==
  \E length \in 0 .. DLL_MAX_PACKET_SIZE + 1, dest \in Dest :
    /\ count[s] < MaxPackets
    /\ buffer[s].length = 0
    /\ buffer' = [buffer EXCEPT ![s] = dll_queue_tx_net_packet(@, length, dest)]
    /\ count' = IF buffer'[s].length = 0 THEN count
                                         ELSE [count EXCEPT ![s] = @ + 1]
    /\ UNCHANGED <<radio, heard, receiverVars>>

FragLength(b) == Lesser(b.length - b.current_index, DLL_MTU)
EndFlag(b) == b.length - b.current_index <= DLL_MTU

(* dll_get_tx_frame: the frame it writes, and what it leaves in the buffer. *)
FrameOf(s) ==
  LET b == buffer[s]
  IN  [seq |-> count[s] % SeqMod, start_offset |-> b.current_index,
       end |-> EndFlag(b), src |-> s, dest |-> b.destination,
       data |-> [k \in 1 .. FragLength(b) |->
                   [src |-> s, num |-> count[s], pos |-> b.current_index + k,
                    len |-> b.length]],
       damage |-> 0]

AfterFrame(b) ==
  IF EndFlag(b) THEN [b EXCEPT !.length = 0]
                ELSE [b EXCEPT !.current_index = @ + FragLength(b)]

dll_has_tx_frame(s) == buffer[s].length # 0
dll_rf_can_tx(s) == radio[s] = <<>>

dll_get_tx_frame(s) ==
  /\ dll_rf_can_tx(s)
  /\ dll_has_tx_frame(s)
  /\ radio' = [radio EXCEPT ![s] = <<FrameOf(s)>>]
  /\ buffer' = [buffer EXCEPT ![s] = AfterFrame(@)]
  /\ UNCHANGED <<count, heard, receiverVars>>

(* Damage shows in the checksum; bytes that pass it damaged are not told   *)
(* apart from others here, but in Transport's Corrupt.                     *)
Damaged(f, d) == [f EXCEPT !.damage = d]

(* The frame in the transmit buffer reaches the receiver or not, and is    *)
(* sent again if the watchdog resets the radio before its end.             *)
Transmit(s) ==
  /\ radio[s] # <<>>
  /\ \/ UNCHANGED heard
     \/ /\ Len(heard) < RxBuffers
        /\ \E d \in Damage : heard' = Append(heard, Damaged(Head(radio[s]), d))
  /\ \/ radio' = [radio EXCEPT ![s] = <<>>]
     \/ UNCHANGED radio
  /\ UNCHANGED <<buffer, count, receiverVars>>

-----------------------------------------------------------------------------
(* The reassembly table *)

Used(t) == {i \in Slot : ~t[i].free}

(* Mutant: the search for a gap starts one order too low. *)
ReorderLow(t) ==
  [i \in Slot |->
    IF /\ i \in Used(t)
       /\ \A j \in Used(t) : j < i => t[j].order # t[i].order
       /\ \E n \in t[i].order + 1 .. DLL_RX_TABLE_SIZE - 1 :
            \A j \in Used(t) : t[j].order # n
      THEN [t[i] EXCEPT !.order = @ + 1] ELSE t[i]]

(* From the highest order down, every entry moves up by one once an order  *)
(* that no entry has was passed: of entries with one order, the first.     *)
dll_reorder_rx_table(t) ==
  [i \in Slot |->
    IF /\ i \in Used(t)
       /\ \A j \in Used(t) : j < i => t[j].order # t[i].order
       /\ \E n \in t[i].order + 1 .. DLL_RX_TABLE_SIZE :
            \A j \in Used(t) : t[j].order # n
      THEN [t[i] EXCEPT !.order = @ + 1] ELSE t[i]]

(* Mutant: a free entry comes first. *)
FreeEntryFirst(t, src) ==
  LET own  == {i \in Slot : t[i].src = src}
      free == Slot \ Used(t)
  IN  IF free # {} THEN Least(free)
      ELSE IF own # {} THEN Least(own)
      ELSE Greatest({i \in Slot : \A j \in Slot : t[i].order >= t[j].order})

(* The entry a first fragment takes: the source's own, free or not; a free *)
(* one; the oldest.                                                        *)
EntryFor(t, src) ==
  LET own  == {i \in Slot : t[i].src = src}
      free == Slot \ Used(t)
  IN  IF own # {} THEN Least(own)
      ELSE IF free # {} THEN Least(free)
      ELSE Greatest({i \in Slot : \A j \in Slot : t[i].order >= t[j].order})

(* Mutant: the sequence number is not compared. *)
MatchesSource(t, f) ==
  {i \in Used(t) : t[i].src = f.src /\ Len(t[i].data) = f.start_offset}

(* The entries a later fragment may continue. *)
Matches(t, f) ==
  {i \in Used(t) : /\ t[i].src = f.src
                   /\ t[i].seq_num = f.seq
                   /\ Len(t[i].data) = f.start_offset}

(* What slot i holds is newer from now on than what the others hold. *)
Touch(i) ==
  older' = {p \in older : i \notin {p[1], p[2]}} \cup ((Used(table) \ {i}) \X {i})
Forget(i) == older' = {p \in older : i \notin {p[1], p[2]}}

-----------------------------------------------------------------------------
(* dll_receive_dll_frame *)

(* Errors -1 to -8.  The checksum is refused if both of its bytes are      *)
(* wrong; the other tests fail for no frame that a sender makes.           *)
Refused(f) ==
  \/ f.dest # "us"
  \/ f.damage = 2
  \/ f.start_offset + Len(f.data) > DLL_MAX_PACKET_SIZE

IsWhole(f) == f.end /\ f.start_offset = 0

RefuseFrame(f) ==
  /\ Refused(f)
  /\ UNCHANGED <<table, dll_rx_packet, older>>

WholePacket(f) ==
  /\ ~Refused(f) /\ IsWhole(f)
  /\ dll_rx_packet' = IF dll_rx_packet = <<>> THEN f.data ELSE dll_rx_packet
  /\ UNCHANGED <<table, older>>

FirstFragment(f) ==
  /\ ~Refused(f) /\ ~IsWhole(f) /\ f.start_offset = 0
  /\ LET i == EntryFor(table, f.src)
     IN  /\ table' = dll_reorder_rx_table([table EXCEPT ![i] =
                       [free |-> FALSE, order |-> 0, src |-> f.src,
                        seq_num |-> f.seq, data |-> f.data]])
         /\ Touch(i)
  /\ UNCHANGED dll_rx_packet

(* Error -20. *)
NoMatch(f) ==
  /\ ~Refused(f) /\ f.start_offset # 0 /\ Matches(table, f) = {}
  /\ UNCHANGED <<table, dll_rx_packet, older>>

NextFragment(f) ==
  /\ ~Refused(f) /\ f.start_offset # 0 /\ ~f.end /\ Matches(table, f) # {}
  /\ LET i == Least(Matches(table, f))
         e == [table[i] EXCEPT !.order = 0, !.data = @ \o f.data]
     IN  /\ table' = dll_reorder_rx_table([table EXCEPT ![i] = e])
         /\ Touch(i)
  /\ UNCHANGED dll_rx_packet

(* Mutant: the entry is not freed. *)
LastFragmentKeeps(f) ==
  /\ ~Refused(f) /\ f.start_offset # 0 /\ f.end /\ Matches(table, f) # {}
  /\ dll_rx_packet' = IF dll_rx_packet = <<>>
                        THEN table[Least(Matches(table, f))].data \o f.data
                        ELSE dll_rx_packet
  /\ UNCHANGED <<table, older>>

LastFragment(f) ==
  /\ ~Refused(f) /\ f.start_offset # 0 /\ f.end /\ Matches(table, f) # {}
  /\ LET i == Least(Matches(table, f))
     IN  IF dll_rx_packet = <<>>
           THEN /\ dll_rx_packet' = table[i].data \o f.data
                /\ table' = [table EXCEPT ![i].free = TRUE]
                /\ Forget(i)
           ELSE UNCHANGED <<dll_rx_packet, table, older>>

dll_receive_dll_frame(f) ==
  \/ RefuseFrame(f)
  \/ WholePacket(f)
  \/ FirstFragment(f)
  \/ NoMatch(f)
  \/ NextFragment(f)
  \/ LastFragment(f)

-----------------------------------------------------------------------------
(* The receiver's main loop *)

Goto(from, to) == pc = from /\ pc' = to

(* net_handle_rx_packet gets what the last turn left in rx_packet. *)
NetworkRx ==
  /\ Goto("network", "take")
  /\ handed' = IF rx_packet = <<>> THEN handed
               ELSE LET byte == rx_packet[Len(rx_packet)]
                    IN  [handed EXCEPT ![byte.src] = byte.num]
  /\ rx_packet' = <<>>
  /\ UNCHANGED <<senderVars, heard, table, dll_rx_packet, older>>

(* Mutant: the complete packet is taken only now and then. *)
TakeSometimes ==
  /\ Goto("take", "receive")
  /\ \/ /\ dll_rx_packet # <<>>
        /\ rx_packet' = dll_rx_packet
        /\ dll_rx_packet' = <<>>
     \/ UNCHANGED <<rx_packet, dll_rx_packet>>
  /\ UNCHANGED <<senderVars, heard, table, handed, older>>

dll_get_rx_packet ==
  /\ Goto("take", "receive")
  /\ IF dll_rx_packet # <<>>
       THEN rx_packet' = dll_rx_packet /\ dll_rx_packet' = <<>>
       ELSE UNCHANGED <<rx_packet, dll_rx_packet>>
  /\ UNCHANGED <<senderVars, heard, table, handed, older>>

(* dll_rf_rx gives no frame while the radio is busy. *)
NoFrame ==
  /\ Goto("receive", "network")
  /\ UNCHANGED <<senderVars, heard, table, dll_rx_packet, rx_packet, handed, older>>

(* Mutant: the receive buffer filled last is read first. *)
ReceiveNewest ==
  /\ Goto("receive", "network")
  /\ heard # <<>>
  /\ heard' = SubSeq(heard, 1, Len(heard) - 1)
  /\ dll_receive_dll_frame(heard[Len(heard)])
  /\ UNCHANGED <<senderVars, rx_packet, handed>>

ReceiveFrame ==
  /\ Goto("receive", "network")
  /\ heard # <<>>
  /\ heard' = Tail(heard)
  /\ dll_receive_dll_frame(Head(heard))
  /\ UNCHANGED <<senderVars, rx_packet, handed>>

(* dll_init and the zeroed table. *)
Init ==
  /\ pc = "network"
  /\ buffer = [s \in Sender |->
                [current_index |-> 0, length |-> 0, destination |-> "us"]]
  /\ count = [s \in Sender |-> 0]
  /\ radio = [s \in Sender |-> <<>>]
  /\ heard = <<>>
  /\ table = [i \in Slot |-> [free |-> TRUE, order |-> 0, src |-> NoSender,
                              seq_num |-> 0, data |-> <<>>]]
  /\ dll_rx_packet = <<>>
  /\ rx_packet = <<>>
  /\ handed = [s \in Sender |-> 0]
  /\ older = {}

Next ==
  \/ \E s \in Sender : NetTx(s) \/ dll_get_tx_frame(s) \/ Transmit(s)
  \/ NetworkRx
  \/ dll_get_rx_packet
  \/ NoFrame
  \/ ReceiveFrame

Spec == Init /\ [][Next]_vars

-----------------------------------------------------------------------------
(* Properties *)

TypeOK ==
  /\ pc \in {"network", "take", "receive"}
  /\ buffer \in [Sender -> PacketBuffer]
  /\ count \in [Sender -> Nat]
  /\ radio \in [Sender -> Seq(Frame)]
  /\ heard \in Seq(Frame)
  /\ table \in [Slot -> Entry]
  /\ dll_rx_packet \in Seq(Byte)
  /\ rx_packet \in Seq(Byte)
  /\ handed \in [Sender -> Nat]
  /\ older \subseteq Slot \X Slot

(* A source never has two entries, not even one in use and one that it has *)
(* finished with (datalink.c:150-160): a fragment continues the last packet *)
(* of its source that began, or none.                                      *)
OneEntryPerSource ==
  \A i, j \in Slot : table[i].src = table[j].src /\ i # j => table[i].src = NoSender

(* datalink.h:30, "Higher order is older", and :102, "reorders the rx table *)
(* from 1": after any sequence of fragments, completions and evictions the  *)
(* orders of the entries in use are that of their last use, so the entry    *)
(* given up for a new source is the one that has waited longest.           *)
OrderIsAge ==
  \A i, j \in Used(table) :
    /\ table[i].order \in 1 .. DLL_RX_TABLE_SIZE
    /\ <<i, j>> \in older <=> table[i].order > table[j].order

(* The bytes d are the beginning of a packet of the source with this number, *)
(* up to the wrap-around of sequence numbers (datalink.c:125-129): packets   *)
(* whose numbers are SeqMod apart are taken for one when all first fragments *)
(* between them are lost.                                                  *)
Begins(d, src, seq) ==
  \A k \in DOMAIN d : d[k].src = src /\ d[k].pos = k /\ d[k].num % SeqMod = seq

(* What is put together is of one source, without a gap, and a packet given *)
(* to the network layer ends where its last fragment's packet ends.        *)
Complete(d) ==
  d # <<>> => LET byte == d[Len(d)]
              IN  Begins(d, byte.src, byte.num % SeqMod) /\ byte.len = Len(d)

Reassembled ==
  /\ \A i \in Used(table) : Begins(table[i].data, table[i].src, table[i].seq_num)
  /\ Complete(dll_rx_packet)
  /\ Complete(rx_packet)

(* When a frame is received the complete packet has been taken (main.c:173  *)
(* before :212), and when that is taken the network layer has read the last *)
(* one (main.c:158): errors -9 and -21, which would leave an entry that no   *)
(* later fragment can complete, never occur.                               *)
PacketTaken ==
  /\ pc = "receive" => dll_rx_packet = <<>>
  /\ pc = "take" => rx_packet = <<>>

(* The network layer gets the packets of a source in their order. *)
Link == INSTANCE PacketLink
IsPacketLink == Link!Spec

(* A packet of several fragments is handed over once, although the radio   *)
(* repeats frames (rfm12.c:213, datalink.c:140): only a packet in one frame *)
(* may come twice.                                                         *)
RepeatsAreShort ==
  [][\A s \in Sender :
       rx_packet # <<>> /\ rx_packet' = <<>> /\ rx_packet[1].src = s
         /\ handed'[s] = handed[s]
         => Len(rx_packet) <= DLL_MTU]_vars

=============================================================================
