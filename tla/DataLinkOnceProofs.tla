-------------------------- MODULE DataLinkOnceProofs --------------------------
(***************************************************************************)
(* Proofs about the repeats of DataLink, for any senders, sizes and         *)
(* sequence numbers: a packet of several fragments is handed over once.     *)
(* The argument follows a packet from its last frame on: once that is       *)
(* received, only repeats of it are still to come of the packet, and the    *)
(* entry they would need is gone for good.                                 *)
(***************************************************************************)
EXTENDS DataLinkProofs

(* Of packet n of source s nothing is to come but its last frame, at offset *)
(* o: neither from the sender and its radio, nor in the receive buffers     *)
(* from the k-th on.                                                       *)
Final(s, n, o, k) ==
  /\ count[s] = n => buffer[s].length = 0
  /\ radio[s] # <<>> /\ Num(radio[s][1].data) = n =>
       radio[s][1].end /\ radio[s][1].start_offset = o
  /\ \A i \in k .. Len(heard) :
       heard[i].src = s /\ Num(heard[i].data) = n =>
         heard[i].end /\ heard[i].start_offset = o

(* No frame of a packet follows its last. *)
FinalInv ==
  /\ \A s \in Sender : radio[s] # <<>> /\ radio[s][1].end =>
       Final(s, Num(radio[s][1].data), radio[s][1].start_offset, Len(heard) + 1)
  /\ \A i \in 1 .. Len(heard) : heard[i].end =>
       Final(heard[i].src, Num(heard[i].data), heard[i].start_offset, i)

ShortFrames ==
  /\ \A s \in Sender : radio[s] # <<>> => Len(radio[s][1].data) <= DLL_MTU
  /\ \A i \in 1 .. Len(heard) : Len(heard[i].data) <= DLL_MTU

(* Of the source of an entry nothing before what the entry holds is to come. *)
EntriesAhead ==
  \A i \in Used(table) :
    table[i].data # <<>> /\ Ahead(table[i].src, Num(table[i].data))

(* Packet n of source s was complete: what is still to come of it is a whole *)
(* packet in one frame, or finds no entry to complete.                     *)
Done(s, n) ==
  \E o \in Nat :
    /\ Final(s, n, o, 1)
    /\ o = 0 \/ \A i \in Used(table) : table[i].src = s => n < Num(table[i].data)

(* A packet between the layers is complete, and, if it is of several        *)
(* fragments, a new one.                                                   *)
New(d) ==
  d # <<>> => /\ Done(Src(d), Num(d))
              /\ Len(d) > DLL_MTU => handed[Src(d)] # Num(d)

OnceInv ==
  /\ FinalInv
  /\ ShortFrames
  /\ EntriesAhead
  /\ \A s \in Sender : Done(s, handed[s])
  /\ New(rx_packet) /\ New(dll_rx_packet)
  /\ rx_packet # <<>> /\ dll_rx_packet # <<>> /\ Src(rx_packet) = Src(dll_rx_packet)
       /\ Len(dll_rx_packet) > DLL_MTU => Num(rx_packet) # Num(dll_rx_packet)

-----------------------------------------------------------------------------
(* The senders and the air *)

SendStep == \E s \in Sender : NetTx(s) \/ dll_get_tx_frame(s) \/ Transmit(s)

(* What queueing, taking a frame and transmitting change. *)
LEMMA NetTxEffect ==
  ASSUME Inv, NEW t \in Sender, NetTx(t)
  PROVE  /\ UNCHANGED <<radio, heard, receiverVars>>
         /\ buffer[t].length = 0
         /\ buffer' \in [Sender -> PacketBuffer] /\ count' \in [Sender -> Nat]
         /\ \A s \in Sender \ {t} : buffer'[s] = buffer[s] /\ count'[s] = count[s]
         /\ \/ count'[t] = count[t] + 1
            \/ count'[t] = count[t] /\ buffer'[t].length = 0
<1>1. Inv'
  BY NetTxStep
<1>2. PICK length \in 0 .. DLL_MAX_PACKET_SIZE + 1, dest \in Dest :
        /\ buffer[t].length = 0
        /\ buffer' = [buffer EXCEPT ![t] =
                        dll_queue_tx_net_packet(buffer[t], length, dest)]
        /\ count' = IF buffer'[t].length = 0 THEN count
                    ELSE [count EXCEPT ![t] = count[t] + 1]
        /\ UNCHANGED <<radio, heard, receiverVars>>
  BY DEF NetTx
<1>3. DOMAIN buffer = Sender /\ DOMAIN count = Sender
  BY DEF Inv, SendersInv
<1>4. buffer' \in [Sender -> PacketBuffer] /\ count' \in [Sender -> Nat]
  BY <1>1 DEF Inv, SendersInv
<1>5. \A s \in Sender \ {t} : buffer'[s] = buffer[s] /\ count'[s] = count[s]
  BY <1>2, <1>3
<1>6. \/ count'[t] = count[t] + 1
      \/ count'[t] = count[t] /\ buffer'[t].length = 0
  BY <1>2, <1>3
<1> QED
  BY <1>2, <1>4, <1>5, <1>6

(* What dll_get_tx_frame takes from the buffer and puts into the radio. *)
LEMMA TakeEffect ==
  ASSUME Inv, NEW t \in Sender, dll_get_tx_frame(t)
  PROVE  /\ UNCHANGED <<count, heard, receiverVars>>
         /\ buffer[t].length # 0
         /\ radio'[t] = <<FrameOf(t)>>
         /\ \A s \in Sender \ {t} : radio'[s] = radio[s] /\ buffer'[s] = buffer[s]
         /\ Num(FrameOf(t).data) = count[t]
         /\ Len(FrameOf(t).data) <= DLL_MTU
         /\ FrameOf(t).start_offset \in Nat
         /\ FrameOf(t).end => buffer'[t].length = 0
<1>1. /\ buffer[t].length # 0
      /\ radio' = [radio EXCEPT ![t] = <<FrameOf(t)>>]
      /\ buffer' = [buffer EXCEPT ![t] = AfterFrame(buffer[t])]
      /\ UNCHANGED <<count, heard, receiverVars>>
  BY DEF dll_get_tx_frame, dll_has_tx_frame
<1>2. DOMAIN radio = Sender /\ DOMAIN buffer = Sender /\ buffer[t] \in PacketBuffer
  BY DEF Inv, SendersInv
<1>3. Num(FrameOf(t).data) = count[t] /\ FrameOf(t) \in Frame
  BY <1>1, FrameMade, SoundParts
<1>4. FrameOf(t).end => AfterFrame(buffer[t]).length = 0
  <2>1. FrameOf(t).end = EndFlag(buffer[t])
    BY DEF FrameOf
  <2>2. EndFlag(buffer[t]) => AfterFrame(buffer[t]) = [buffer[t] EXCEPT !.length = 0]
    BY DEF AfterFrame
  <2>3. [buffer[t] EXCEPT !.length = 0].length = 0
    BY <1>2 DEF PacketBuffer
  <2> QED
    BY <2>1, <2>2, <2>3
<1>5. Len(FrameOf(t).data) <= DLL_MTU
  <2> DEFINE n == FragLength(buffer[t])
             byte(k) == [src |-> t, num |-> count[t],
                         pos |-> buffer[t].current_index + k, len |-> buffer[t].length]
             d == [k \in 1 .. n |-> byte(k)]
  <2>1. FrameOf(t).data = d
    BY DEF FrameOf
  <2>2. /\ buffer[t].length \in Nat /\ buffer[t].current_index \in Nat
        /\ buffer[t].current_index < buffer[t].length
    BY <1>1, <1>2, BufferParts DEF Inv, SendersInv
  <2>3. n \in Nat /\ n <= DLL_MTU
    BY <2>2, Sizes DEF FragLength, Lesser
  <2> HIDE DEF n, byte
  <2>4. Len(d) = n
    BY <2>3
  <2> QED
    BY <2>1, <2>3, <2>4
<1> QED
  BY <1>1, <1>2, <1>3, <1>4, <1>5, FrameParts

(* What a transmission leaves of the frame, in the radio and in the buffers. *)
LEMMA TransmitEffect ==
  ASSUME Inv, NEW t \in Sender, Transmit(t)
  PROVE  /\ UNCHANGED <<buffer, count, receiverVars>>
         /\ \A s \in Sender : radio'[s] = radio[s] \/ radio'[s] = <<>>
         /\ \/ UNCHANGED heard
            \/ /\ Len(heard') = Len(heard) + 1
               /\ \A i \in 1 .. Len(heard) : heard'[i] = heard[i]
               /\ LET f == radio[t][1]
                      g == heard'[Len(heard) + 1]
                  IN  /\ radio[t] # <<>>
                      /\ g.src = t /\ g.data = f.data /\ g.end = f.end
                      /\ g.start_offset = f.start_offset
<1> DEFINE f == radio[t][1]
<1>1. radio[t] # <<>> /\ radio[t] = <<f>> /\ f \in Frame /\ f.src = t
  BY SoundParts DEF Transmit, Inv, SendersInv
<1>2. /\ \/ UNCHANGED heard
         \/ \E d \in Damage : heard' = Append(heard, Damaged(f, d))
      /\ radio' = [radio EXCEPT ![t] = <<>>] \/ UNCHANGED radio
      /\ UNCHANGED <<buffer, count, receiverVars>>
  <2>1. Head(radio[t]) = f
    BY <1>1
  <2> QED
    BY <2>1 DEF Transmit
<1>3. \A s \in Sender : radio'[s] = radio[s] \/ radio'[s] = <<>>
  <2>1. DOMAIN radio = Sender
    BY DEF Inv, SendersInv
  <2> QED
    BY <1>2, <2>1
<1> HIDE DEF f
<1>4. ASSUME NEW d \in Damage, heard' = Append(heard, Damaged(f, d))
      PROVE  /\ Len(heard') = Len(heard) + 1
             /\ \A i \in 1 .. Len(heard) : heard'[i] = heard[i]
             /\ heard'[Len(heard) + 1].src = t
             /\ heard'[Len(heard) + 1].data = f.data
             /\ heard'[Len(heard) + 1].end = f.end
             /\ heard'[Len(heard) + 1].start_offset = f.start_offset
  <2> DEFINE g == Damaged(f, d)
  <2>1. d \in 0 .. 2
    BY Sizes
  <2>2. /\ g \in Frame /\ g.src = t /\ g.data = f.data /\ g.end = f.end
        /\ g.start_offset = f.start_offset
    BY <1>1, <2>1 DEF Damaged, Frame
  <2>3. heard \in Seq(Frame)
    BY DEF Inv, HeardInv
  <2> HIDE DEF g
  <2>4. /\ Len(heard') = Len(heard) + 1 /\ heard'[Len(heard) + 1] = g
        /\ \A i \in 1 .. Len(heard) : heard'[i] = heard[i]
    BY <1>4, <2>2, <2>3, AppendProperties DEF g
  <2> QED
    BY <2>2, <2>4
<1> QED
  BY <1>1, <1>2, <1>3, <1>4 DEF f

(* What is to come of a packet that was queued does not change but by its   *)
(* going on.                                                               *)
LEMMA FinalLater ==
  ASSUME Inv, SendStep, NEW s \in Sender, NEW n \in Nat, n <= count[s], NEW o,
         NEW k \in 1 .. Len(heard) + 1, Final(s, n, o, k)
  PROVE  Final(s, n, o, k)'
<1>1. PICK t \in Sender : NetTx(t) \/ dll_get_tx_frame(t) \/ Transmit(t)
  BY DEF SendStep
<1>2. heard \in Seq(Frame) /\ Len(heard) \in Nat /\ \A u \in Sender : count[u] \in Nat
  BY DEF Inv, HeardInv, SendersInv
<1>3. CASE NetTx(t)
  <2>1. /\ UNCHANGED <<radio, heard>>
        /\ t # s => buffer'[s] = buffer[s] /\ count'[s] = count[s]
        /\ t = s => \/ count'[s] = count[s] + 1
                    \/ count'[s] = count[s] /\ buffer'[s].length = 0
    BY <1>3, NetTxEffect
  <2>2. count'[s] = n => buffer'[s].length = 0
    BY <1>2, <2>1 DEF Final
  <2> QED
    BY <2>1, <2>2 DEF Final
<1>4. CASE dll_get_tx_frame(t)
  <2>1. /\ UNCHANGED <<count, heard>> /\ buffer[t].length # 0
        /\ radio'[t] = <<FrameOf(t)>> /\ Num(FrameOf(t).data) = count[t]
        /\ t # s => radio'[s] = radio[s] /\ buffer'[s] = buffer[s]
    BY <1>4, TakeEffect
  <2>2. t = s => n # count[s]
    BY <2>1 DEF Final
  <2>3. radio'[t][1] = FrameOf(t)
    BY <2>1
  <2>4. t = s => Num(radio'[s][1].data) # n
    BY <2>1, <2>2, <2>3
  <2>5. count'[s] = n => buffer'[s].length = 0
    BY <2>1, <2>2 DEF Final
  <2>6. radio'[s] # <<>> /\ Num(radio'[s][1].data) = n =>
          radio'[s][1].end /\ radio'[s][1].start_offset = o
    BY <2>1, <2>4 DEF Final
  <2> QED
    BY <2>1, <2>5, <2>6 DEF Final
<1>5. CASE Transmit(t)
  <2>1. /\ UNCHANGED <<buffer, count>>
        /\ radio'[s] = radio[s] \/ radio'[s] = <<>>
        /\ \/ UNCHANGED heard
           \/ /\ Len(heard') = Len(heard) + 1
              /\ \A i \in 1 .. Len(heard) : heard'[i] = heard[i]
              /\ LET f == radio[t][1]
                     g == heard'[Len(heard) + 1]
                 IN  /\ radio[t] # <<>>
                     /\ g.src = t /\ g.data = f.data /\ g.end = f.end
                     /\ g.start_offset = f.start_offset
    BY <1>5, TransmitEffect
  <2>2. ASSUME NEW i \in k .. Len(heard'),
               heard'[i].src = s, Num(heard'[i].data) = n
        PROVE  heard'[i].end /\ heard'[i].start_offset = o
    <3>1. CASE i \in k .. Len(heard)
      <4>1. heard'[i] = heard[i]
        BY <1>2, <2>1, <3>1
      <4> QED
        BY <2>2, <3>1, <4>1 DEF Final
    <3>2. CASE i \notin k .. Len(heard)
      <4>1. i = Len(heard) + 1 /\ heard' # heard
        BY <1>2, <2>1, <3>2
      <4>2. t = s /\ radio[s] # <<>> /\ Num(radio[s][1].data) = n
        BY <2>1, <2>2, <4>1
      <4> QED
        BY <2>1, <4>1, <4>2 DEF Final
    <3> QED
      BY <3>1, <3>2
  <2>3. radio'[s] # <<>> /\ Num(radio'[s][1].data) = n =>
          radio'[s][1].end /\ radio'[s][1].start_offset = o
    BY <2>1 DEF Final
  <2> QED
    BY <2>1, <2>2, <2>3 DEF Final
<1> QED
  BY <1>1, <1>3, <1>4, <1>5

(* A packet that was complete, and of which n is the number, was queued. *)
LEMMA DoneLater ==
  ASSUME Inv, SendStep, UNCHANGED receiverVars,
         NEW s \in Sender, NEW n \in Nat, n <= count[s], Done(s, n)
  PROVE  Done(s, n)'
<1>1. PICK o \in Nat :
        /\ Final(s, n, o, 1)
        /\ o = 0 \/ \A i \in Used(table) : table[i].src = s => n < Num(table[i].data)
  BY DEF Done
<1>2. 1 \in 1 .. Len(heard) + 1
  BY DEF Inv, HeardInv
<1>3. Final(s, n, o, 1)'
  BY <1>1, <1>2, FinalLater
<1>4. table' = table
  BY DEF receiverVars
<1> QED
  BY <1>1, <1>3, <1>4 DEF Done, Used

(* A step of a sender leaves only later frames to come. *)
LEMMA SendLater ==
  ASSUME Inv, SendStep
  PROVE  Later /\ count' \in [Sender -> Nat] /\ UNCHANGED receiverVars
<1>1. PICK t \in Sender : NetTx(t) \/ dll_get_tx_frame(t) \/ Transmit(t)
  BY DEF SendStep
<1>2. /\ heard \in Seq(Frame) /\ Len(heard) \in Nat
      /\ count \in [Sender -> Nat] /\ \A u \in Sender : count[u] \in Nat
  BY DEF Inv, HeardInv, SendersInv
<1>3. CASE NetTx(t)
  <2>1. /\ UNCHANGED <<radio, heard, receiverVars>> /\ count' \in [Sender -> Nat]
        /\ count'[t] = count[t] + 1 \/ count'[t] = count[t]
        /\ \A s \in Sender \ {t} : count'[s] = count[s]
    BY <1>3, NetTxEffect
  <2>2. \A s \in Sender : count[s] <= count'[s]
    BY <1>2, <2>1
  <2> QED
    BY <2>1, <2>2 DEF Later
<1>4. CASE dll_get_tx_frame(t)
  <2>1. /\ UNCHANGED <<count, heard, receiverVars>> /\ radio'[t] = <<FrameOf(t)>>
        /\ Num(FrameOf(t).data) = count[t]
        /\ \A s \in Sender \ {t} : radio'[s] = radio[s]
    BY <1>4, TakeEffect
  <2>2. radio'[t][1] = FrameOf(t)
    BY <2>1
  <2>3. \A s \in Sender : radio'[s] = radio[s] \/ Num(radio'[s][1].data) = count[s]
    BY <2>1, <2>2
  <2> QED
    BY <1>2, <2>1, <2>3 DEF Later
<1>5. CASE Transmit(t)
  <2>1. /\ UNCHANGED <<count, receiverVars>>
        /\ \A s \in Sender : radio'[s] = radio[s] \/ radio'[s] = <<>>
        /\ \/ UNCHANGED heard
           \/ /\ Len(heard') = Len(heard) + 1
              /\ \A i \in 1 .. Len(heard) : heard'[i] = heard[i]
              /\ radio[t] # <<>>
              /\ heard'[Len(heard) + 1].src = t
              /\ heard'[Len(heard) + 1].data = radio[t][1].data
    BY <1>5, TransmitEffect
  <2>2. ASSUME NEW i \in 1 .. Len(heard')
        PROVE  \/ i \in 1 .. Len(heard) /\ heard'[i] = heard[i]
               \/ \E s \in Sender : /\ heard'[i].src = s /\ radio[s] # <<>>
                                    /\ Num(heard'[i].data) = Num(radio[s][1].data)
    <3>1. i \in 1 .. Len(heard) \/ (i = Len(heard) + 1 /\ heard' # heard)
      BY <1>2, <2>1
    <3> QED
      BY <2>1, <3>1
  <2> QED
    BY <1>2, <2>1, <2>2 DEF Later
<1> QED
  BY <1>1, <1>3, <1>4, <1>5

(* A frame put into the transmit buffer, or heard, is the last or not as    *)
(* the order of the fragments says.                                        *)
LEMMA SendFinal ==
  ASSUME Inv, FinalInv, ShortFrames, SendStep
  PROVE  FinalInv' /\ ShortFrames'
<1>1. PICK t \in Sender : NetTx(t) \/ dll_get_tx_frame(t) \/ Transmit(t)
  BY DEF SendStep
<1>2. /\ heard \in Seq(Frame) /\ Len(heard) \in Nat
      /\ \A i \in 1 .. Len(heard) : heard[i].src \in Sender
  BY SoundParts DEF Inv, HeardInv
<1>3. \A s \in Sender : radio[s] # <<>> =>
        /\ Num(radio[s][1].data) \in Nat /\ Num(radio[s][1].data) <= count[s]
        /\ count[s] \in Nat
  BY DEF Inv, SendersInv
<1>4. \A i \in 1 .. Len(heard) :
        Num(heard[i].data) \in Nat /\ Num(heard[i].data) <= count[heard[i].src]
  BY <1>2 DEF Inv, HeardInv, SendersInv
<1>5. \/ UNCHANGED heard
      \/ /\ Len(heard') = Len(heard) + 1
         /\ \A i \in 1 .. Len(heard) : heard'[i] = heard[i]
         /\ LET f == radio[t][1]
                g == heard'[Len(heard) + 1]
            IN  /\ radio[t] # <<>>
                /\ g.src = t /\ g.data = f.data /\ g.end = f.end
                /\ g.start_offset = f.start_offset
  BY <1>1, NetTxEffect, TakeEffect, TransmitEffect
<1>6. Len(heard') \in Nat /\ Len(heard) <= Len(heard')
  BY <1>2, <1>5
<1>7. \A i \in 1 .. Len(heard') :
        \/ i \in 1 .. Len(heard) /\ heard'[i] = heard[i]
        \/ i = Len(heard) + 1 /\ heard' # heard
  BY <1>2, <1>5
<1>8. ASSUME NEW s \in Sender
      PROVE  \/ radio'[s] = radio[s]
             \/ radio'[s] = <<>>
             \/ /\ radio'[s][1] = FrameOf(s) /\ dll_get_tx_frame(s)
                /\ UNCHANGED heard
  <2>1. CASE NetTx(t)
    BY <2>1, NetTxEffect
  <2>2. CASE dll_get_tx_frame(t)
    BY <2>2, TakeEffect
  <2>3. CASE Transmit(t)
    BY <2>3, TransmitEffect
  <2> QED
    BY <1>1, <2>1, <2>2, <2>3
<1>9. ASSUME NEW s \in Sender, radio'[s] = radio[s], radio[s] # <<>>, radio[s][1].end
      PROVE  Final(s, Num(radio[s][1].data), radio[s][1].start_offset, Len(heard) + 1)'
  <2>1. PICK n, o, k :
          /\ n \in Nat /\ n = Num(radio[s][1].data) /\ o = radio[s][1].start_offset
          /\ k = Len(heard) + 1
    BY <1>3, <1>9
  <2>2. Final(s, n, o, k) /\ n <= count[s] /\ k \in 1 .. Len(heard) + 1
    BY <1>2, <1>3, <1>9, <2>1 DEF FinalInv
  <2>3. Final(s, n, o, k)'
    BY <2>1, <2>2, FinalLater
  <2>4. \A i \in Len(heard') + 1 .. Len(heard') : FALSE
    BY <1>6
  <2> QED
    BY <1>9, <2>1, <2>3, <2>4 DEF Final
<1>10. ASSUME NEW s \in Sender, radio'[s] # <<>>, radio'[s][1].end
       PROVE  Final(s, Num(radio[s][1].data), radio[s][1].start_offset, Len(heard) + 1)'
  <2>1. CASE radio'[s] = radio[s]
    BY <1>9, <1>10, <2>1
  <2>2. CASE radio'[s][1] = FrameOf(s) /\ dll_get_tx_frame(s) /\ UNCHANGED heard
    <3>1. buffer'[s].length = 0
      BY <1>10, <2>2, TakeEffect
    <3>2. \A i \in Len(heard') + 1 .. Len(heard') : FALSE
      BY <1>6
    <3> QED
      BY <1>10, <3>1, <3>2 DEF Final
  <2> QED
    BY <1>8, <1>10, <2>1, <2>2
<1>11. ASSUME NEW i \in 1 .. Len(heard'), heard'[i].end
       PROVE  Final(heard[i].src, Num(heard[i].data), heard[i].start_offset, i)'
  <2>1. PICK s, n, o :
          /\ s \in Sender /\ n \in Nat
          /\ s = heard'[i].src /\ n = Num(heard'[i].data) /\ n <= count[s]
          /\ o = heard'[i].start_offset /\ Final(s, n, o, i)
    <3>1. CASE i \in 1 .. Len(heard) /\ heard'[i] = heard[i]
      BY <1>2, <1>4, <1>11, <3>1 DEF FinalInv
    <3>2. CASE i = Len(heard) + 1 /\ heard' # heard
      BY <1>3, <1>5, <1>11, <3>2 DEF FinalInv
    <3> QED
      BY <1>7, <3>1, <3>2
  <2>2. i \in 1 .. Len(heard) + 1
    BY <1>2, <1>7
  <2>3. Final(s, n, o, i)'
    BY <2>1, <2>2, FinalLater
  <2> QED
    BY <2>1, <2>3 DEF Final
<1>12. ShortFrames'
  <2>1. ASSUME NEW s \in Sender, radio'[s] # <<>>
        PROVE  Len(radio'[s][1].data) <= DLL_MTU
    BY <1>8, <2>1, TakeEffect DEF ShortFrames
  <2>2. ASSUME NEW i \in 1 .. Len(heard')
        PROVE  Len(heard'[i].data) <= DLL_MTU
    BY <1>5, <1>7 DEF ShortFrames
  <2> QED
    BY <2>1, <2>2 DEF ShortFrames
<1> QED
  BY <1>10, <1>11, <1>12 DEF FinalInv

(* A packet of the receiver is as new as what it holds: rx_packet, *)
LEMMA NewRx ==
  ASSUME NEW d, New(d)', rx_packet' = d
  PROVE  New(rx_packet)'
<1> SUFFICES ASSUME d # <<>>
             PROVE  /\ Done(Src(rx_packet), Num(rx_packet))'
                    /\ Len(rx_packet') > DLL_MTU =>
                         handed'[Src(rx_packet)'] # Num(rx_packet)'
  BY DEF New
<1>1. PICK u, m : u = Src(d) /\ m = Num(d)
  OBVIOUS
<1>2. Src(rx_packet)' = u /\ Num(rx_packet)' = m
  BY <1>1 DEF Src, Num
<1>3. Done(u, m)'
  BY <1>1 DEF New, Done, Final
<1>4. Done(Src(rx_packet), Num(rx_packet))'
  BY <1>2, <1>3 DEF Done, Final
<1> QED
  BY <1>1, <1>2, <1>4 DEF New

(* and dll_rx_packet. *)
LEMMA NewDllRx ==
  ASSUME NEW d, New(d)', dll_rx_packet' = d
  PROVE  New(dll_rx_packet)'
<1> SUFFICES ASSUME d # <<>>
             PROVE  /\ Done(Src(dll_rx_packet), Num(dll_rx_packet))'
                    /\ Len(dll_rx_packet') > DLL_MTU =>
                         handed'[Src(dll_rx_packet)'] # Num(dll_rx_packet)'
  BY DEF New
<1>1. PICK u, m : u = Src(d) /\ m = Num(d)
  OBVIOUS
<1>2. Src(dll_rx_packet)' = u /\ Num(dll_rx_packet)' = m
  BY <1>1 DEF Src, Num
<1>3. Done(u, m)'
  BY <1>1 DEF New, Done, Final
<1>4. Done(Src(dll_rx_packet), Num(dll_rx_packet))'
  BY <1>2, <1>3 DEF Done, Final
<1> QED
  BY <1>1, <1>2, <1>4 DEF New

(* No step of a sender disturbs what the receiver knows. *)
LEMMA SendOnce ==
  ASSUME Inv, OnceInv, SendStep
  PROVE  OnceInv'
<1>1. Later /\ count' \in [Sender -> Nat] /\ UNCHANGED receiverVars
  BY SendLater
<1>2. /\ UNCHANGED <<table, handed, rx_packet, dll_rx_packet>>
  BY <1>1 DEF receiverVars
<1>3. FinalInv' /\ ShortFrames'
  BY SendFinal DEF OnceInv
<1>4. EntriesAhead'
  <2>1. ASSUME NEW i \in Used(table)
        PROVE  table[i].data # <<>> /\ Ahead(table[i].src, Num(table[i].data))'
    <3>1. /\ table[i].data # <<>> /\ table[i].src \in Sender
          /\ Ahead(table[i].src, Num(table[i].data))
          /\ table[i].data \in Seq(Byte)
      BY EntryParts DEF OnceInv, EntriesAhead, Inv, TableInv, Used
    <3>2. PICK s \in Sender, n \in Nat : s = table[i].src /\ n = Num(table[i].data)
      BY <3>1, LastByte
    <3>3. Ahead(s, n)'
      BY <1>1, <3>1, <3>2, AheadLater
    <3>4. Num(table'[i].data) = n /\ table'[i].src = s
      BY <1>2, <3>2
    <3> QED
      BY <1>2, <3>1, <3>3, <3>4 DEF Ahead, Num
  <2> QED
    BY <1>2, <2>1 DEF EntriesAhead, Used, Ahead
<1>5. ASSUME NEW s \in Sender
      PROVE  Done(s, handed[s])'
  <2>1. PICK n \in Nat : n = handed[s]
    BY DEF Inv, HandedInv
  <2>2. Done(s, n) /\ n <= count[s]
    BY <2>1 DEF OnceInv, Inv, HandedInv, Ahead
  <2>3. Done(s, n)'
    BY <1>1, <2>2, DoneLater
  <2> QED
    BY <1>2, <2>1, <2>3 DEF Done, Final
<1>6. ASSUME NEW d, New(d), Waiting(d)
      PROVE  New(d)'
  <2>1. CASE d # <<>>
    <3>1. PICK s \in Sender, n \in Nat : s = Src(d) /\ n = Num(d)
      BY <1>6, <2>1, LastByte DEF Waiting
    <3>2. Done(s, n) /\ n <= count[s]
      BY <1>6, <2>1, <3>1 DEF New, Waiting, Ahead
    <3>3. Done(s, n)'
      BY <1>1, <3>2, DoneLater
    <3>4. Done(Src(d), Num(d))'
      BY <3>1, <3>3 DEF Done, Final
    <3> QED
      BY <1>2, <1>6, <3>4 DEF New
  <2> QED
    BY <2>1 DEF New
<1>7. New(rx_packet)' /\ New(dll_rx_packet)'
  <2>1. PICK d, e : d = rx_packet /\ e = dll_rx_packet
    OBVIOUS
  <2>2. New(d) /\ Waiting(d) /\ New(e) /\ Waiting(e)
    BY <2>1 DEF OnceInv, Inv, PacketsInv
  <2>3. New(d)' /\ New(e)'
    BY <1>6, <2>2
  <2>4. rx_packet' = d /\ dll_rx_packet' = e
    BY <1>2, <2>1
  <2>5. New(rx_packet)'
    BY <2>3, <2>4, NewRx
  <2>6. New(dll_rx_packet)'
    BY <2>3, <2>4, NewDllRx
  <2> QED
    BY <2>5, <2>6
<1> QED
  BY <1>2, <1>3, <1>4, <1>5, <1>7 DEF OnceInv

-----------------------------------------------------------------------------
(* The receiver *)

(* The frame that is taken out of the receive buffers. *)
LEMMA FinalTail ==
  ASSUME heard \in Seq(Frame), heard # <<>>, heard' = Tail(heard),
         UNCHANGED <<buffer, count, radio>>,
         NEW s, NEW n, NEW o, NEW k \in Nat \ {0}, Final(s, n, o, k + 1)
  PROVE  Final(s, n, o, k)'
<1>1. /\ Len(heard') = Len(heard) - 1 /\ Len(heard) \in Nat
      /\ \A i \in 1 .. Len(heard') :
           i + 1 \in 1 .. Len(heard) /\ heard'[i] = heard[i + 1]
  BY HeadTailProperties
<1>2. \A i \in k .. Len(heard') :
        i + 1 \in k + 1 .. Len(heard) /\ heard'[i] = heard[i + 1]
  BY <1>1
<1> QED
  BY <1>2 DEF Final

(* The same for all the frames behind it. *)
LEMMA FinalTails ==
  ASSUME heard \in Seq(Frame), heard # <<>>, heard' = Tail(heard),
         UNCHANGED <<buffer, count, radio>>,
         NEW s, NEW n, NEW o, Final(s, n, o, 1)
  PROVE  Final(s, n, o, 1)'
<1>1. Final(s, n, o, 1 + 1)
  BY DEF Final
<1> QED
  BY <1>1, FinalTail

(* Receiving a frame keeps last frames last. *)
LEMMA ReceiveFinal ==
  ASSUME Inv, FinalInv, ShortFrames, ReceiveFrame
  PROVE  FinalInv' /\ ShortFrames'
<1>1. /\ heard \in Seq(Frame) /\ heard # <<>> /\ heard' = Tail(heard)
      /\ UNCHANGED <<buffer, count, radio>>
  BY DEF Inv, HeardInv, ReceiveFrame, senderVars
<1>2. /\ Len(heard') = Len(heard) - 1 /\ Len(heard) \in Nat /\ Len(heard') \in Nat
      /\ \A i \in 1 .. Len(heard') :
           i + 1 \in 1 .. Len(heard) /\ heard'[i] = heard[i + 1]
  BY <1>1, HeadTailProperties
<1>3. ASSUME NEW s \in Sender, radio[s] # <<>>, radio[s][1].end
      PROVE  Final(s, Num(radio[s][1].data), radio[s][1].start_offset, Len(heard) + 1)'
  <2>1. PICK n, o, k : /\ n = Num(radio[s][1].data) /\ o = radio[s][1].start_offset
                       /\ k = Len(heard')
    OBVIOUS
  <2>2. k + 1 \in Nat \ {0} /\ k + 1 = Len(heard)
    BY <1>2, <2>1
  <2>3. PICK m \in Nat \ {0} : m = k + 1
    BY <2>2
  <2>4. Final(s, n, o, m + 1)
    BY <1>3, <2>1, <2>2, <2>3 DEF FinalInv
  <2>5. Final(s, n, o, m)'
    BY <1>1, <2>4, FinalTail
  <2>6. Len(heard') + 1 = m
    BY <2>1, <2>3
  <2> QED
    BY <1>1, <2>1, <2>5, <2>6 DEF Final
<1>4. ASSUME NEW i \in 1 .. Len(heard'), heard'[i].end
      PROVE  Final(heard[i].src, Num(heard[i].data), heard[i].start_offset, i)'
  <2>1. PICK s, n, o : /\ s = heard'[i].src /\ n = Num(heard'[i].data)
                       /\ o = heard'[i].start_offset
    OBVIOUS
  <2>2. Final(s, n, o, i + 1)
    BY <1>2, <1>4, <2>1 DEF FinalInv
  <2>3. Final(s, n, o, i)'
    BY <1>1, <2>2, FinalTail
  <2> QED
    BY <2>1, <2>3 DEF Final
<1>5. ShortFrames'
  BY <1>1, <1>2 DEF ShortFrames
<1> QED
  BY <1>1, <1>3, <1>4, <1>5 DEF FinalInv

(* What a fragment that is not the last leaves of the table: its source's    *)
(* only entry has been taken anew.                                         *)
LEMMA TableTakesAhead ==
  ASSUME TableInv, EntriesAhead, NEW i, NEW e \in Entry,
         e.data # <<>>, Ahead(e.src, Num(e.data))',
         table' = dll_reorder_rx_table([table EXCEPT ![i] = e]),
         \A s, n : Ahead(s, n) => Ahead(s, n)'
  PROVE  /\ EntriesAhead'
         /\ \A j \in Used(table') :
              \/ table'[j].src = e.src /\ table'[j].data = e.data
              \/ /\ j \in Used(table)
                 /\ table'[j].src = table[j].src /\ table'[j].data = table[j].data
<1> DEFINE t == [table EXCEPT ![i] = e]
<1>1. t \in [Slot -> Entry] /\ \A j \in Slot : t[j] = IF j = i THEN e ELSE table[j]
  BY DEF TableInv
<1> HIDE DEF t
<1>2. \A j \in Slot : /\ table'[j].free = t[j].free /\ table'[j].src = t[j].src
                      /\ table'[j].data = t[j].data
  BY <1>1, Reordered DEF t
<1>3. ASSUME NEW j \in Used(table')
      PROVE  \/ table'[j].src = e.src /\ table'[j].data = e.data
             \/ /\ j \in Used(table)
                /\ table'[j].src = table[j].src /\ table'[j].data = table[j].data
  <2>1. j \in Slot /\ ~table'[j].free
    BY DEF Used
  <2>2. CASE j = i
    BY <1>1, <1>2, <2>1, <2>2
  <2>3. CASE j # i
    BY <1>1, <1>2, <2>1, <2>3 DEF Used
  <2> QED
    BY <2>2, <2>3
<1>4. ASSUME NEW j \in Used(table')
      PROVE  table'[j].data # <<>> /\ Ahead(table[j].src, Num(table[j].data))'
  <2>1. CASE table'[j].src = e.src /\ table'[j].data = e.data
    BY <2>1 DEF Ahead, Num
  <2>2. CASE /\ j \in Used(table)
             /\ table'[j].src = table[j].src /\ table'[j].data = table[j].data
    <3>1. PICK s, n : s = table[j].src /\ n = Num(table[j].data)
      OBVIOUS
    <3>2. Ahead(s, n)'
      BY <2>2, <3>1 DEF EntriesAhead
    <3>3. s = table'[j].src /\ n = Num(table'[j].data)
      BY <2>2, <3>1
    <3> QED
      BY <2>2, <3>2, <3>3 DEF EntriesAhead, Ahead, Num
  <2> QED
    BY <1>3, <2>1, <2>2
<1> QED
  BY <1>3, <1>4 DEF EntriesAhead, Used

(* The entry that a later fragment continues. *)
LEMMA MatchFound ==
  ASSUME TableInv, NEW f, f.src \in Sender, Matches(table, f) # {}
  PROVE  LET i == Least(Matches(table, f))
         IN  /\ i \in Used(table) /\ table[i] \in Entry /\ table[i].src = f.src
             /\ table[i].seq_num = f.seq /\ Len(table[i].data) = f.start_offset
             /\ Begins(table[i].data, f.src, f.seq)
             /\ \A j \in Slot : table[j].src = f.src => j = i
<1> DEFINE i == Least(Matches(table, f))
<1>1. Matches(table, f) \subseteq {j \in Slot : table[j].src = f.src}
  BY DEF Matches, Used
<1>2. i \in Matches(table, f) /\ \A j \in Slot : table[j].src = f.src => j = i
  BY <1>1, OwnEntry
<1> HIDE DEF i
<1>3. /\ i \in Used(table) /\ i \in Slot /\ table[i].src = f.src
      /\ table[i].seq_num = f.seq /\ Len(table[i].data) = f.start_offset
  BY <1>2 DEF Matches, Used
<1>4. table[i] \in Entry /\ Begins(table[i].data, f.src, f.seq)
  BY <1>3 DEF TableInv
<1> QED
  BY <1>2, <1>3, <1>4 DEF i

(* What the entries hold after a frame: what they held, or what a frame    *)
(* that does not end its packet has brought; and what is complete then.    *)
LEMMA FrameEffect ==
  ASSUME Inv, OnceInv, ReceiveFrame, NEW f, f = Head(heard)
  PROVE  /\ EntriesAhead'
         /\ \A j \in Used(table') :
              \/ /\ j \in Used(table)
                 /\ table'[j].src = table[j].src /\ table'[j].data = table[j].data
              \/ ~f.end /\ table'[j].src = f.src /\ Num(table'[j].data) = Num(f.data)
         /\ \/ dll_rx_packet' = <<>>
            \/ f.end /\ f.start_offset = 0 /\ dll_rx_packet' = f.data
            \/ /\ f.end /\ f.start_offset # 0
               /\ Num(dll_rx_packet') = Num(f.data) /\ Src(dll_rx_packet') = f.src
               /\ \E i \in Used(table) : table[i].src = f.src
               /\ \A j \in Used(table') : table'[j].src # f.src
<1>1. /\ dll_receive_dll_frame(f) /\ Sound(f) /\ dll_rx_packet = <<>>
      /\ Ahead(f.src, Num(f.data))'
  BY Received
<1>2. /\ TableInv /\ table \in [Slot -> Entry] /\ EntriesAhead
      /\ f \in Frame /\ f.src \in Sender /\ f.data \in Seq(Byte) /\ f.data # <<>>
      /\ f.seq \in 0 .. SeqMod - 1 /\ f.end \in BOOLEAN
  BY <1>1, SoundParts, FrameParts DEF Inv, TableInv, OnceInv
<1>3. \A s, n : Ahead(s, n) => Ahead(s, n)'
  BY AheadTail DEF Inv, HeardInv, ReceiveFrame, senderVars
<1>4. UNCHANGED table => EntriesAhead'
  <2>1. ASSUME UNCHANGED table, NEW i \in Used(table)
        PROVE  table[i].data # <<>> /\ Ahead(table[i].src, Num(table[i].data))'
    <3>1. PICK s, n : s = table[i].src /\ n = Num(table[i].data)
      OBVIOUS
    <3>2. table[i].data # <<>> /\ Ahead(s, n)'
      BY <1>2, <1>3, <3>1 DEF EntriesAhead
    <3> QED
      BY <2>1, <3>1, <3>2 DEF Ahead, Num
  <2> QED
    BY <2>1 DEF EntriesAhead, Used
<1>5. CASE RefuseFrame(f) \/ NoMatch(f)
  BY <1>1, <1>4, <1>5 DEF RefuseFrame, NoMatch, Used
<1>6. CASE WholePacket(f)
  BY <1>1, <1>4, <1>6 DEF WholePacket, IsWhole, Used
<1>7. CASE FirstFragment(f)
  <2> DEFINE i == EntryFor(table, f.src)
             e == [free |-> FALSE, order |-> 0, src |-> f.src, seq_num |-> f.seq,
                   data |-> f.data]
  <2>1. /\ table' = dll_reorder_rx_table([table EXCEPT ![i] = e])
        /\ ~f.end /\ dll_rx_packet' = dll_rx_packet
    BY <1>2, <1>7 DEF FirstFragment, IsWhole
  <2>2. e \in Entry /\ e.src = f.src /\ e.data = f.data
    BY <1>2 DEF Entry
  <2>3. PICK d : d = e
    OBVIOUS
  <2> HIDE DEF i, e
  <2>4. Ahead(d.src, Num(d.data))' /\ d.data # <<>> /\ d \in Entry
    BY <1>1, <1>2, <2>2, <2>3
  <2> QED
    BY <1>1, <1>2, <1>3, <2>1, <2>2, <2>3, <2>4, TableTakesAhead
<1>8. CASE NextFragment(f)
  <2> DEFINE i == Least(Matches(table, f))
             e == [table[i] EXCEPT !.order = 0, !.data = table[i].data \o f.data]
  <2>1. /\ table' = dll_reorder_rx_table([table EXCEPT ![i] = e])
        /\ ~f.end /\ dll_rx_packet' = dll_rx_packet /\ Matches(table, f) # {}
    BY <1>8 DEF NextFragment
  <2>2. /\ table[i] \in Entry /\ table[i].src = f.src
        /\ Len(table[i].data) = f.start_offset
        /\ Begins(table[i].data, f.src, f.seq)
    BY <1>2, <2>1, MatchFound
  <2> HIDE DEF i
  <2>3. table[i].data \in Seq(Byte)
    BY <2>2, EntryParts
  <2>4. /\ table[i].data \o f.data \in Seq(Byte) /\ table[i].data \o f.data # <<>>
        /\ Num(table[i].data \o f.data) = Num(f.data)
    BY <1>1, <2>2, <2>3, Continues
  <2>5. /\ e \in Entry /\ e.src = f.src /\ e.data = table[i].data \o f.data
    BY <2>2, <2>4 DEF Entry
  <2>6. PICK d : d = e
    OBVIOUS
  <2> HIDE DEF e
  <2>7. d.src = f.src /\ Num(d.data) = Num(f.data) /\ d.data # <<>> /\ d \in Entry
    BY <2>4, <2>5, <2>6
  <2>8. Ahead(d.src, Num(d.data))'
    BY <1>1, <2>7
  <2> QED
    BY <1>1, <1>2, <1>3, <2>1, <2>6, <2>7, <2>8, TableTakesAhead
<1>9. CASE LastFragment(f)
  <2> DEFINE i == Least(Matches(table, f))
  <2>1. /\ Matches(table, f) # {} /\ f.end /\ f.start_offset # 0
        /\ dll_rx_packet' = table[i].data \o f.data
        /\ table' = [table EXCEPT ![i].free = TRUE]
    BY <1>1, <1>9 DEF LastFragment
  <2>2. /\ i \in Used(table) /\ table[i] \in Entry /\ table[i].src = f.src
        /\ Len(table[i].data) = f.start_offset
        /\ Begins(table[i].data, f.src, f.seq)
        /\ \A j \in Slot : table[j].src = f.src => j = i
    BY <1>2, <2>1, MatchFound
  <2> HIDE DEF i
  <2>3. table[i].data \in Seq(Byte)
    BY <2>2, EntryParts
  <2>4. Num(dll_rx_packet') = Num(f.data) /\ Src(dll_rx_packet') = f.src
    BY <1>1, <2>1, <2>2, <2>3, Continues
  <2>5. /\ table'[i].free
        /\ \A j \in Slot \ {i} : table'[j] = table[j]
    BY <1>2, <2>1, <2>2 DEF Entry, Used
  <2>6. Used(table') = Used(table) \ {i}
    BY <2>2, <2>5 DEF Used
  <2>7. \A j \in Used(table') :
          j \in Used(table) /\ table'[j] = table[j] /\ table'[j].src # f.src
    BY <2>2, <2>5, <2>6 DEF Used
  <2>8. ASSUME NEW j \in Used(table')
        PROVE  table'[j].data # <<>> /\ Ahead(table[j].src, Num(table[j].data))'
    <3>1. PICK s, n : s = table[j].src /\ n = Num(table[j].data)
      OBVIOUS
    <3>2. table[j].data # <<>> /\ Ahead(s, n)'
      BY <1>2, <1>3, <2>7, <3>1 DEF EntriesAhead
    <3>3. s = table'[j].src /\ n = Num(table'[j].data)
      BY <2>7, <3>1
    <3> QED
      BY <2>7, <3>2, <3>3 DEF Ahead, Num
  <2>9. EntriesAhead'
    BY <2>8 DEF EntriesAhead, Used
  <2> QED
    BY <2>1, <2>2, <2>4, <2>7, <2>9
<1> QED
  BY <1>1, <1>5, <1>6, <1>7, <1>8, <1>9 DEF dll_receive_dll_frame

(* What the frame at the head of the receive buffers leaves of its packet. *)
LEMMA LastOfFrame ==
  ASSUME Inv, OnceInv, ReceiveFrame, NEW f, f = Head(heard)
  PROVE  /\ Num(f.data) \in Nat /\ f.src \in Sender /\ f.start_offset \in Nat
         /\ Len(f.data) <= DLL_MTU
         /\ f.end => Final(f.src, Num(f.data), f.start_offset, 1)
         /\ \A s, n, o : Final(s, n, o, 1) /\ f.src = s /\ Num(f.data) = n
                          => f.end /\ f.start_offset = o
<1>1. /\ heard \in Seq(Frame) /\ heard # <<>> /\ Sound(f)
  BY Received DEF Inv, HeardInv, ReceiveFrame
<1>2. f = heard[1] /\ 1 \in 1 .. Len(heard)
  BY <1>1
<1>3. Num(f.data) \in Nat /\ f.src \in Sender /\ f.start_offset \in Nat
  BY <1>1, SoundParts, FrameParts
<1>4. Len(f.data) <= DLL_MTU
  BY <1>2 DEF OnceInv, ShortFrames
<1>5. f.end => Final(f.src, Num(f.data), f.start_offset, 1)
  BY <1>2 DEF OnceInv, FinalInv
<1>6. \A s, n, o : Final(s, n, o, 1) /\ f.src = s /\ Num(f.data) = n
                    => f.end /\ f.start_offset = o
  BY <1>2 DEF Final
<1> QED
  BY <1>3, <1>4, <1>5, <1>6

(* A packet that was complete stays so, for what a frame puts into the table *)
(* is of a later packet of its source.                                     *)
LEMMA DoneReceived ==
  ASSUME Inv, OnceInv, ReceiveFrame, NEW f, f = Head(heard),
         NEW s, NEW n \in Nat, Done(s, n), f.src = s => n <= Num(f.data)
  PROVE  Done(s, n)'
<1>1. PICK o \in Nat :
        /\ Final(s, n, o, 1)
        /\ o = 0 \/ \A i \in Used(table) : table[i].src = s => n < Num(table[i].data)
  BY DEF Done
<1>2. Final(s, n, o, 1)'
  BY <1>1, FinalTails DEF Inv, HeardInv, ReceiveFrame, senderVars
<1>3. ASSUME o # 0, NEW j \in Used(table'), table'[j].src = s
      PROVE  n < Num(table'[j].data)
  <2>1. CASE /\ j \in Used(table)
             /\ table'[j].src = table[j].src /\ table'[j].data = table[j].data
    BY <1>1, <1>3, <2>1
  <2>2. CASE ~f.end /\ table'[j].src = f.src /\ Num(table'[j].data) = Num(f.data)
    <3>1. Num(f.data) \in Nat /\ Num(f.data) # n
      BY <1>1, <1>3, <2>2, LastOfFrame
    <3> QED
      BY <1>3, <2>2, <3>1
  <2> QED
    BY <2>1, <2>2, FrameEffect
<1>4. \A j \in Used(table') : o # 0 /\ table'[j].src = s => n < Num(table'[j].data)
  BY <1>3
<1>5. \A j \in Used(table)' : o # 0 /\ table'[j].src = s => n < Num(table'[j].data)
  BY <1>4 DEF Used
<1>6. \A j \in Used(table)' : o # 0 /\ table'[j].src = s => n < Num(table[j].data)'
  BY <1>5 DEF Num
<1> QED
  BY <1>1, <1>2, <1>6 DEF Done

(* A last fragment is not of a packet that was complete: the entry of its    *)
(* source would hold a later one, and the fragment comes before it.         *)
LEMMA NotDone ==
  ASSUME Inv, OnceInv, ReceiveFrame, NEW f, f = Head(heard), f.start_offset # 0,
         NEW i \in Used(table), table[i].src = f.src
  PROVE  ~Done(f.src, Num(f.data))
<1> SUFFICES ASSUME Done(f.src, Num(f.data))
             PROVE  FALSE
  OBVIOUS
<1>1. PICK o \in Nat :
        /\ Final(f.src, Num(f.data), o, 1)
        /\ o = 0 \/ \A j \in Used(table) :
                      table[j].src = f.src => Num(f.data) < Num(table[j].data)
  BY DEF Done
<1>2. o = f.start_offset
  BY <1>1, LastOfFrame
<1>3. Num(f.data) < Num(table[i].data)
  BY <1>1, <1>2
<1>4. heard \in Seq(Frame) /\ heard # <<>>
  BY DEF Inv, HeardInv, ReceiveFrame
<1>5. f = heard[1] /\ 1 \in 1 .. Len(heard)
  BY <1>4
<1>6. Num(table[i].data) <= Num(f.data)
  BY <1>5 DEF OnceInv, EntriesAhead, Ahead
<1>7. Num(f.data) \in Nat
  BY LastOfFrame
<1>8. table[i].data \in Seq(Byte) /\ table[i].data # <<>>
  BY EntryParts DEF OnceInv, EntriesAhead, Inv, TableInv, Used
<1>9. Num(table[i].data) \in Nat
  BY <1>8, LastByte
<1> QED
  BY <1>3, <1>6, <1>7, <1>9

(* The packet that is complete with a frame was not complete before. *)
LEMMA PacketNew ==
  ASSUME Inv, OnceInv, ReceiveFrame, NEW f, f = Head(heard), dll_rx_packet' # <<>>
  PROVE  /\ Done(f.src, Num(f.data))'
         /\ Num(dll_rx_packet') = Num(f.data) /\ Src(dll_rx_packet') = f.src
         /\ Len(dll_rx_packet') > DLL_MTU => ~Done(f.src, Num(f.data))
<1>1. /\ Num(f.data) \in Nat /\ f.src \in Sender /\ f.start_offset \in Nat
      /\ Len(f.data) <= DLL_MTU /\ f.data \in Seq(Byte) /\ Src(f.data) = f.src
  BY LastOfFrame, Received, SoundParts
<1>2. ASSUME f.end
      PROVE  Final(f.src, Num(f.data), f.start_offset, 1)'
  <2>1. Final(f.src, Num(f.data), f.start_offset, 1)
    BY <1>2, LastOfFrame
  <2> QED
    BY <2>1, FinalTails DEF Inv, HeardInv, ReceiveFrame, senderVars
<1>3. CASE f.end /\ f.start_offset = 0 /\ dll_rx_packet' = f.data
  <2>1. Done(f.src, Num(f.data))'
    BY <1>2, <1>3 DEF Done
  <2>2. ~(Len(f.data) > DLL_MTU)
    BY <1>1, Sizes
  <2> QED
    BY <1>1, <1>3, <2>1, <2>2
<1>4. CASE /\ f.end /\ f.start_offset # 0
           /\ Num(dll_rx_packet') = Num(f.data) /\ Src(dll_rx_packet') = f.src
           /\ \E i \in Used(table) : table[i].src = f.src
           /\ \A j \in Used(table') : table'[j].src # f.src
  <2>1. ~Done(f.src, Num(f.data))
    BY <1>4, NotDone
  <2>2. \A j \in Used(table)' : table'[j].src # f.src
    BY <1>4 DEF Used
  <2>3. Done(f.src, Num(f.data))'
    BY <1>1, <1>2, <1>4, <2>2 DEF Done
  <2> QED
    BY <1>4, <2>1, <2>3
<1> QED
  BY <1>3, <1>4, FrameEffect

(* Receiving a frame, with each outcome of dll_receive_dll_frame. *)
LEMMA ReceiveOnce ==
  ASSUME Inv, OnceInv, ReceiveFrame
  PROVE  OnceInv'
<1> PICK f : f = Head(heard)
  OBVIOUS
<1>1. /\ UNCHANGED <<rx_packet, handed>>
      /\ handed \in [Sender -> Nat] /\ handed[f.src] <= Num(f.data)
      /\ rx_packet # <<>> /\ Src(rx_packet) = f.src => Num(rx_packet) <= Num(f.data)
      /\ rx_packet \in Seq(Byte)
  BY Received DEF Inv, HandedInv, PacketsInv, Waiting
<1>2. /\ \A s \in Sender : Done(s, handed[s])
      /\ rx_packet # <<>> => Done(Src(rx_packet), Num(rx_packet))
      /\ rx_packet # <<>> /\ Len(rx_packet) > DLL_MTU
           => handed[Src(rx_packet)] # Num(rx_packet)
  BY DEF OnceInv, New
<1>3. Num(f.data) \in Nat /\ f.src \in Sender
  BY LastOfFrame
<1>4. FinalInv' /\ ShortFrames' /\ EntriesAhead'
  BY ReceiveFinal, FrameEffect DEF OnceInv
<1>5. ASSUME NEW s \in Sender
      PROVE  Done(s, handed[s])'
  <2>1. PICK n \in Nat : n = handed[s]
    BY <1>1
  <2>2. Done(s, n)'
    BY <1>1, <1>2, <2>1, DoneReceived
  <2>3. handed'[s] = n
    BY <1>1, <2>1
  <2> QED
    BY <2>2, <2>3 DEF Done, Final
<1>6. New(rx_packet)'
  <2>1. CASE rx_packet = <<>>
    BY <1>1, <2>1 DEF New
  <2>2. CASE rx_packet # <<>>
    <3>1. PICK s \in Sender, n \in Nat : s = Src(rx_packet) /\ n = Num(rx_packet)
      BY <1>1, <2>2, LastByte
    <3>2. Done(s, n)'
      BY <1>1, <1>2, <2>2, <3>1, DoneReceived
    <3>3. Num(rx_packet') = n /\ Src(rx_packet') = s
      BY <1>1, <3>1
    <3>4. Len(rx_packet') > DLL_MTU => handed'[s] # n
      BY <1>1, <1>2, <2>2, <3>1
    <3> QED
      BY <3>2, <3>3, <3>4 DEF New, Done, Final, Src, Num
  <2> QED
    BY <2>1, <2>2
<1>7. ASSUME dll_rx_packet' # <<>>
      PROVE  /\ Done(f.src, Num(f.data))'
             /\ Num(dll_rx_packet') = Num(f.data) /\ Src(dll_rx_packet') = f.src
             /\ Len(dll_rx_packet') > DLL_MTU => ~Done(f.src, Num(f.data))
  BY <1>7, PacketNew
<1>8. New(dll_rx_packet)'
  <2>1. CASE dll_rx_packet' = <<>>
    BY <2>1 DEF New
  <2>2. CASE dll_rx_packet' # <<>>
    <3>1. PICK s \in Sender, n \in Nat : s = f.src /\ n = Num(f.data)
      BY <1>3
    <3>2. Done(s, n)' /\ Num(dll_rx_packet') = n /\ Src(dll_rx_packet') = s
      BY <1>7, <2>2, <3>1 DEF Done, Final
    <3>3. Len(dll_rx_packet') > DLL_MTU => handed'[s] # n
      BY <1>1, <1>2, <1>7, <2>2, <3>1
    <3> QED
      BY <3>2, <3>3 DEF New, Done, Final, Src, Num
  <2> QED
    BY <2>1, <2>2
<1>9. rx_packet' # <<>> /\ dll_rx_packet' # <<>> /\ Src(rx_packet') = Src(dll_rx_packet')
        /\ Len(dll_rx_packet') > DLL_MTU => Num(rx_packet') # Num(dll_rx_packet')
  BY <1>1, <1>2, <1>7
<1>10. (rx_packet # <<>> /\ dll_rx_packet # <<>> /\ Src(rx_packet) = Src(dll_rx_packet)
        /\ Len(dll_rx_packet) > DLL_MTU => Num(rx_packet) # Num(dll_rx_packet))'
  BY <1>9 DEF Src, Num
<1> QED
  BY <1>4, <1>5, <1>6, <1>8, <1>10 DEF OnceInv

-----------------------------------------------------------------------------
(* The receiver's main loop *)

LEMMA LoopOnce ==
  ASSUME Inv, OnceInv, NetworkRx \/ dll_get_rx_packet \/ NoFrame \/ UNCHANGED vars
  PROVE  OnceInv'
<1>1. UNCHANGED <<buffer, count, radio, heard, table>>
  BY DEF NetworkRx, dll_get_rx_packet, NoFrame, senderVars, receiverVars, vars
<1>2. FinalInv' /\ ShortFrames' /\ EntriesAhead'
  BY <1>1 DEF OnceInv, FinalInv, Final, ShortFrames, EntriesAhead, Used, Ahead
<1>3. ASSUME NEW s, NEW n, Done(s, n)
      PROVE  Done(s, n)'
  BY <1>1, <1>3 DEF Done, Final, Used
<1>4. /\ \A s \in Sender : Done(s, handed[s])
      /\ New(rx_packet) /\ New(dll_rx_packet)
      /\ rx_packet # <<>> /\ dll_rx_packet # <<>> /\ Src(rx_packet) = Src(dll_rx_packet)
           /\ Len(dll_rx_packet) > DLL_MTU => Num(rx_packet) # Num(dll_rx_packet)
  BY DEF OnceInv
<1>5. /\ PacketTaken /\ handed \in [Sender -> Nat]
      /\ rx_packet \in Seq(Byte) /\ dll_rx_packet \in Seq(Byte)
  BY DEF Inv, PacketsInv, HandedInv, Waiting
<1>6. New(<<>>)'
  BY DEF New
<1>7. CASE NetworkRx
  <2> DEFINE n == Num(rx_packet)
             s == Src(rx_packet)
  <2>1. /\ rx_packet' = <<>> /\ UNCHANGED dll_rx_packet
        /\ handed' = IF rx_packet = <<>> THEN handed ELSE [handed EXCEPT ![s] = n]
    BY <1>7 DEF NetworkRx, Num, Src
  <2>2. rx_packet # <<>> => s \in Sender /\ n \in Nat /\ Done(s, n)
    BY <1>4, <1>5, LastByte DEF New
  <2>3. dll_rx_packet # <<>> =>
          /\ Src(dll_rx_packet) \in Sender /\ Done(Src(dll_rx_packet), Num(dll_rx_packet))
          /\ Len(dll_rx_packet) > DLL_MTU =>
               /\ handed[Src(dll_rx_packet)] # Num(dll_rx_packet)
               /\ rx_packet # <<>> /\ s = Src(dll_rx_packet) => n # Num(dll_rx_packet)
    BY <1>4, <1>5, LastByte DEF New
  <2> HIDE DEF n, s
  <2>4. \A t \in Sender : handed'[t] = IF rx_packet # <<>> /\ t = s THEN n ELSE handed[t]
    BY <1>5, <2>1
  <2>5. ASSUME NEW t \in Sender
        PROVE  Done(t, handed[t])'
    <3>1. PICK m : m = handed'[t]
      OBVIOUS
    <3>2. Done(t, m)
      BY <1>4, <2>2, <2>4, <3>1
    <3>3. Done(t, m)'
      BY <1>3, <3>2
    <3> QED
      BY <3>1, <3>3 DEF Done, Final
  <2>6. New(dll_rx_packet)'
    <3>1. PICK d : d = dll_rx_packet
      OBVIOUS
    <3>2. d # <<>> => Done(Src(d), Num(d)) /\ Src(d) \in Sender
      BY <2>3, <3>1
    <3>3. PICK u, m : u = Src(d) /\ m = Num(d)
      OBVIOUS
    <3>4. d # <<>> => Done(u, m)'
      BY <1>3, <3>2, <3>3
    <3>5. d # <<>> /\ Len(d) > DLL_MTU => handed'[u] # m
      BY <2>3, <2>4, <3>1, <3>3
    <3>6. dll_rx_packet' = d
      BY <2>1, <3>1
    <3> QED
      BY <3>3, <3>4, <3>5, <3>6 DEF New, Done, Final, Src, Num
  <2>7. New(rx_packet)'
    BY <2>1 DEF New
  <2> QED
    BY <1>2, <2>1, <2>5, <2>6, <2>7 DEF OnceInv
<1>8. CASE dll_get_rx_packet \/ NoFrame \/ UNCHANGED vars
  <2>1. /\ UNCHANGED handed
        /\ \/ UNCHANGED <<rx_packet, dll_rx_packet>>
           \/ rx_packet' = dll_rx_packet /\ dll_rx_packet' = <<>>
    BY <1>8 DEF dll_get_rx_packet, NoFrame, vars, receiverVars
  <2>2. ASSUME NEW t \in Sender
        PROVE  Done(t, handed[t])'
    <3>1. PICK m : m = handed[t]
      OBVIOUS
    <3>2. Done(t, m)'
      BY <1>3, <1>4, <3>1
    <3> QED
      BY <2>1, <3>1, <3>2 DEF Done, Final
  <2>3. ASSUME NEW d, New(d)
        PROVE  New(d)'
    <3>1. PICK u, m : u = Src(d) /\ m = Num(d)
      OBVIOUS
    <3>2. d # <<>> => Done(u, m)'
      BY <1>3, <2>3, <3>1 DEF New
    <3>3. d # <<>> /\ Len(d) > DLL_MTU => handed'[u] # m
      BY <2>1, <2>3, <3>1 DEF New
    <3> QED
      BY <3>1, <3>2, <3>3 DEF New, Done, Final
  <2>4. PICK d, e : d = rx_packet /\ e = dll_rx_packet
    OBVIOUS
  <2>5. New(d)' /\ New(e)'
    BY <1>4, <2>3, <2>4
  <2>6. \/ rx_packet' = d /\ dll_rx_packet' = e
        \/ rx_packet' = e /\ dll_rx_packet' = <<>>
    BY <2>1, <2>4
  <2>7. New(rx_packet)'
    <3>1. CASE rx_packet' = d
      BY <2>5, <3>1, NewRx
    <3>2. CASE rx_packet' = e
      BY <2>5, <3>2, NewRx
    <3> QED
      BY <2>6, <3>1, <3>2
  <2>8. New(dll_rx_packet)'
    <3>1. CASE dll_rx_packet' = e
      BY <2>5, <3>1, NewDllRx
    <3>2. CASE dll_rx_packet' = <<>>
      BY <3>2 DEF New
    <3> QED
      BY <2>6, <3>1, <3>2
  <2>9. (rx_packet # <<>> /\ dll_rx_packet # <<>> /\ Src(rx_packet) = Src(dll_rx_packet)
          /\ Len(dll_rx_packet) > DLL_MTU => Num(rx_packet) # Num(dll_rx_packet))'
    BY <1>4, <2>1 DEF Src, Num
  <2> QED
    BY <1>2, <2>2, <2>7, <2>8, <2>9 DEF OnceInv
<1> QED
  BY <1>7, <1>8

(* At the start nothing was handed over. *)
LEMMA InitOnce ==
  ASSUME Init
  PROVE  OnceInv
<1>1. /\ heard = <<>> /\ Len(heard) = 0
      /\ \A s \in Sender : radio[s] = <<>> /\ buffer[s].length = 0 /\ handed[s] = 0
      /\ rx_packet = <<>> /\ dll_rx_packet = <<>> /\ Used(table) = {}
  BY DEF Init, Used
<1>2. ASSUME NEW s \in Sender
      PROVE  Done(s, handed[s])
  <2>1. Final(s, 0, 0, 1)
    BY <1>1 DEF Final
  <2> QED
    BY <1>1, <2>1 DEF Done
<1>3. FinalInv /\ ShortFrames /\ EntriesAhead
  BY <1>1 DEF FinalInv, ShortFrames, EntriesAhead
<1> QED
  BY <1>1, <1>2, <1>3 DEF OnceInv, New

(* Every step keeps the invariant. *)
LEMMA NextOnce ==
  ASSUME Inv, OnceInv, [Next]_vars
  PROVE  OnceInv'
BY SendOnce, ReceiveOnce, LoopOnce DEF Next, SendStep

-----------------------------------------------------------------------------
(* Theorems *)

(* Once the last fragment of a packet was received, nothing of it is to      *)
(* come but its repeats, and they find no entry of the table to complete    *)
(* (datalink.c:125-148), whatever the senders and the radios do.            *)
THEOREM OnceInvariance == Spec => [](Inv /\ OnceInv)
<1>1. Init => Inv /\ OnceInv
  BY InitInv, InitOnce
<1>2. Inv /\ OnceInv /\ [Next]_vars => (Inv /\ OnceInv)'
  BY NextInv, NextOnce
<1> QED
  BY <1>1, <1>2, PTL DEF Spec

(* A packet of several fragments is handed over once, for any number of      *)
(* senders, packets and repeats of the last frame by the radio's reset       *)
(* (rfm12.c:213, datalink.c:140): the network layer gets twice only what    *)
(* fits in one frame.                                                      *)
THEOREM RepeatsShort == Spec => RepeatsAreShort
<1>1. ASSUME Inv, OnceInv, [Next]_vars, NEW s \in Sender,
             rx_packet # <<>>, rx_packet' = <<>>, rx_packet[1].src = s,
             handed'[s] = handed[s]
      PROVE  Len(rx_packet) <= DLL_MTU
  <2>1. /\ rx_packet \in Seq(Byte) /\ Complete(rx_packet) /\ PacketTaken
        /\ handed \in [Sender -> Nat] /\ New(rx_packet)
    BY <1>1 DEF Inv, PacketsInv, Waiting, HandedInv, OnceInv
  <2>2. /\ Num(rx_packet) \in Nat /\ Src(rx_packet) \in Sender
        /\ Len(rx_packet) \in Nat \ {0}
    BY <1>1, <2>1, LastByte
  <2>3. Src(rx_packet) = s
    <3>1. 1 \in DOMAIN rx_packet
      BY <2>1, <2>2
    <3> QED
      BY <1>1, <2>1, <3>1 DEF Complete, Begins, Src
  <2>4. NetworkRx
    <3>1. ~(dll_get_rx_packet)
      BY <1>1, <2>1 DEF dll_get_rx_packet, Goto, PacketTaken
    <3> QED
      BY <1>1, <3>1 DEF Next, NetTx, dll_get_tx_frame, Transmit, receiverVars, vars,
                        NoFrame, ReceiveFrame
  <2>5. handed'[s] = Num(rx_packet)
    BY <1>1, <2>1, <2>3, <2>4 DEF NetworkRx, Num, Src
  <2>6. ~(Len(rx_packet) > DLL_MTU)
    BY <1>1, <2>1, <2>3, <2>5 DEF New
  <2> QED
    BY <2>2, <2>6, Sizes
<1>2. Inv /\ OnceInv /\ [Next]_vars =>
        [\A s \in Sender :
           rx_packet # <<>> /\ rx_packet' = <<>> /\ rx_packet[1].src = s
             /\ handed'[s] = handed[s]
             => Len(rx_packet) <= DLL_MTU]_vars
  BY <1>1
<1> QED
  BY <1>2, OnceInvariance, PTL DEF Spec, RepeatsAreShort

=============================================================================
