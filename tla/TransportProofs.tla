--------------------------- MODULE TransportProofs ---------------------------
(***************************************************************************)
(* Proofs about Transport, for any nodes, ports, timer and retry values and *)
(* any medium.  One invariant, Inv, is inductive; it joins what every       *)
(* buffer holds to the state its node is in.  Each part is carried over a   *)
(* step by a lemma per action: types, roles, handover, flow of messages.    *)
(***************************************************************************)
EXTENDS Transport, SequenceTheorems, TLAPS

(* Removing an entry of a sequence leaves only entries it had. *)
LEMMA RemoveAtType ==
  ASSUME NEW S, NEW q \in Seq(S), NEW i \in 1 .. Len(q)
  PROVE  /\ RemoveAt(q, i) \in Seq(S)
         /\ \A j \in 1 .. Len(RemoveAt(q, i)) :
              \E k \in 1 .. Len(q) : RemoveAt(q, i)[j] = q[k]
<1> DEFINE a == SubSeq(q, 1, i - 1)
           b == SubSeq(q, i + 1, Len(q))
<1>1. /\ a \in Seq(S)
      /\ Len(a) = i - 1
      /\ \A j \in 1 .. Len(a) : a[j] = q[j]
  BY SubSeqProperties
<1>2. /\ b \in Seq(S)
      /\ Len(b) = Len(q) - i
      /\ \A j \in 1 .. Len(b) : b[j] = q[i + j]
  BY SubSeqProperties
<1>3. /\ a \o b \in Seq(S)
      /\ Len(a \o b) = Len(a) + Len(b)
      /\ \A j \in 1 .. Len(a) + Len(b) :
           (a \o b)[j] = IF j <= Len(a) THEN a[j] ELSE b[j - Len(a)]
  BY <1>1, <1>2, ConcatProperties
<1>4. RemoveAt(q, i) = a \o b
  BY DEF RemoveAt
<1> HIDE DEF a, b
<1>5. ASSUME NEW j \in 1 .. Len(a \o b)
      PROVE  \E k \in 1 .. Len(q) : (a \o b)[j] = q[k]
  <2>1. CASE j <= i - 1
    <3>1. (a \o b)[j] = q[j]
      BY <1>1, <1>2, <1>3, <2>1
    <3>2. j \in 1 .. Len(q)
      BY <2>1
    <3> QED
      BY <3>1, <3>2
  <2>2. CASE ~(j <= i - 1)
    <3>0. j \in Int /\ i \in Int /\ Len(q) \in Nat
      BY LenProperties
    <3>1. j \in 1 .. Len(a) + Len(b) /\ ~(j <= Len(a))
      BY <1>1, <1>3, <2>2
    <3>2. (a \o b)[j] = b[j - Len(a)]
      BY <1>3, <3>1
    <3>3. j - Len(a) \in 1 .. Len(b)
      BY <1>1, <1>2, <3>0, <3>1
    <3>4. (a \o b)[j] = q[i + (j - Len(a))]
      BY <1>2, <3>2, <3>3
    <3>5. i + (j - Len(a)) \in 1 .. Len(q)
      BY <1>1, <1>2, <3>0, <3>3
    <3> QED
      BY <3>4, <3>5
  <2> QED
    BY <2>1, <2>2
<1> QED
  BY <1>3, <1>4, <1>5

-----------------------------------------------------------------------------
(* The inductive invariant *)

(* A sound SEND under way to node n holds a message that was handed over,  *)
(* for n and for the port the segment names.                               *)
Carries(n, seg) ==
  seg.kind = "SEND" /\ seg.sound =>
    /\ seg.data \in Payload
    /\ seg.data.msg \in offered
    /\ seg.data.msg.to = n
    /\ seg.data.msg.port = seg.port

(* The application's transmit buffers belong together. *)
BufferWhole ==
  \A n \in Node : applicationTxData[n] # NoData =>
    /\ applicationTxData[n] \in Payload
    /\ applicationTxData[n].msg \in offered
    /\ applicationTxData[n].msg.to = applicationTxAddress[n]
    /\ applicationTxData[n].msg.port = applicationTxPort[n]

(* Whoever will send the buffer has filled it. *)
ClientHasData ==
  \A n \in Node :
    applicationTxFlag[n] = 1 \/ transportConnectionType[n] = "CLIENT"
      => applicationTxData[n] # NoData

TxCarries == \A n \in Node : transportTxSegment[n] # NoSegment =>
               /\ transportTxSegment[n].sound
               /\ Carries(transportTxAddress[n], transportTxSegment[n])
RxCarries == \A n \in Node : transportRxSegment[n] # NoSegment =>
               Carries(n, transportRxSegment[n])
AirCarries == \A n \in Node : \A i \in 1 .. Len(air[n]) : Carries(n, air[n][i])

Inv == /\ TypeOK
       /\ ResendMatchesRole
       /\ BufferWhole
       /\ ClientHasData
       /\ TxCarries
       /\ RxCarries
       /\ AirCarries
       /\ DeliveredToAddressee
       /\ LoopHandover

-----------------------------------------------------------------------------
(* Every step keeps the types *)

(* The empty values are told apart from every payload and segment. *)
LEMMA NoDataFacts ==
  /\ NoData \notin Payload
  /\ NoSegment \notin Segment
  /\ \A seg \in Segment : seg.kind \in Kind /\ seg # NoSegment
BY NodeAssumption DEF NoData, NoMessage, Payload, Message, NoSegment, Segment,
   Kind

(* Building a segment keeps the types of the transmit buffer. *)
LEMMA EmitType ==
  ASSUME TypeOK, NEW n \in Node, NEW kind \in Kind, NEW key \in Key,
         NEW data \in Payload \cup {NoData}, Emit(n, kind, key, data)
  PROVE  /\ transportTxFlag' \in [Node -> {0, 1}]
         /\ transportTxSegment' \in [Node -> Segment \cup {NoSegment}]
         /\ transportTxSegment'[n] \in Segment
         /\ transportTxAddress' \in [Node -> Node \cup {NoNode}]
<1>1. [kind |-> kind, port |-> applicationTxPort[n], key |-> key,
       data |-> data, sound |-> TRUE, from |-> n] \in Segment
  BY DEF TypeOK, Segment
<1> QED
  BY <1>1 DEF TypeOK, Emit

(* A change of the connection state keeps its types. *)
LEMMA BecomeType ==
  ASSUME TypeOK, NEW n \in Node, NEW state \in ConnectionState,
         NEW type \in ConnectionType, Become(n, state, type)
  PROVE  /\ transportConnectionState' \in [Node -> ConnectionState]
         /\ transportConnectionType' \in [Node -> ConnectionType]
BY DEF TypeOK, Become

(* The main loop goes from turn to turn. *)
LEMMA GotoType ==
  ASSUME TypeOK, NEW n \in Node, NEW from \in Turn, NEW to \in Turn,
         Goto(n, from, to)
  PROVE  pc' \in [Node -> Turn]
BY DEF TypeOK, Goto

(* The timer is reset within its range. *)
LEMMA TimerType ==
  ASSUME TypeOK, NEW n \in Node, timer_reset(n)
  PROVE  transport_timer' \in [Node -> 0 .. TRANS_TIMEOUT]
BY TimerAssumption DEF TypeOK, timer_reset

(* The retry counter is reset within its range. *)
LEMMA RetryType ==
  ASSUME TypeOK, NEW n \in Node, FullRetry(n)
  PROVE  transportTxRetry' \in [Node -> 0 .. TRANS_RESEND]
BY TimerAssumption DEF TypeOK, FullRetry

(* The timer interrupt counts down to zero, not below. *)
LEMMA TickType ==
  ASSUME TypeOK, NEW n \in Node, Tick(n)
  PROVE  TypeOK'
<1>1. transport_timer' \in [Node -> 0 .. TRANS_TIMEOUT]
  BY TimerAssumption DEF TypeOK, Tick
<1> QED
  BY <1>1 DEF TypeOK, Tick, appTxVars, appRxVars, connVars, txVars, history

(* What the medium loses, damages or refuses leaves segments under way. *)
LEMMA MediumType ==
  ASSUME TypeOK, Medium
  PROVE  TypeOK'
<1>0. PICK n \in Node : \E i \in 1 .. Len(air[n]) :
        Lose(n, i) \/ Corrupt(n, i) \/ Refuse(n, i)
  BY DEF Medium
<1>1. PICK i \in 1 .. Len(air[n]) : Lose(n, i) \/ Corrupt(n, i) \/ Refuse(n, i)
  BY <1>0
<1>2. air[n] \in Seq(Segment) /\ air[n][i] \in Segment
  BY <1>1, LenProperties DEF TypeOK
<1>3. air' \in [Node -> Seq(Segment)]
  <2>1. CASE Lose(n, i)
    BY <1>1, <1>2, <2>1, RemoveAtType DEF TypeOK, Lose
  <2>2. CASE Corrupt(n, i)
    <3>1. Damaged(air[n][i]) \in Segment
      BY <1>2 DEF Damaged, Segment
    <3>2. [air[n] EXCEPT ![i] = Damaged(air[n][i])] \in Seq(Segment)
      BY <1>1, <1>2, <3>1
    <3>3. air' = [air EXCEPT ![n] = [air[n] EXCEPT ![i] = Damaged(air[n][i])]]
      BY <1>1, <2>2 DEF TypeOK, Corrupt
    <3> QED
      BY <1>1, <3>2, <3>3 DEF TypeOK
  <2>3. CASE Refuse(n, i)
    <3> DEFINE from == air[n][i].from
               answer == Nack(n, air[n][i].port)
    <3>1. from \in Node /\ air[n][i].port \in Port \cup {NoPort}
      BY <1>2 DEF Segment
    <3>2. answer \in Segment
      BY <3>1 DEF Nack, Segment, Kind, Key, KEYS
    <3>3. Append(air[from], answer) \in Seq(Segment)
      BY <3>1, <3>2 DEF TypeOK
    <3>4. RemoveAt(air[n], i) \in Seq(Segment)
      BY <1>1, <1>2, RemoveAtType
    <3>5. /\ from # n
          /\ air' = [air EXCEPT ![n] = RemoveAt(@, i), ![from] = Append(@, answer)]
      BY <2>3 DEF Refuse
    <3> HIDE DEF from, answer
    <3>6. air' = [[air EXCEPT ![n] = RemoveAt(air[n], i)]
                     EXCEPT ![from] = Append(air[from], answer)]
      BY <3>1, <3>5 DEF TypeOK
    <3> QED
      BY <3>1, <3>3, <3>4, <3>6 DEF TypeOK
  <2> QED
    BY <1>1, <2>1, <2>2, <2>3
<1> QED
  BY <1>3 DEF TypeOK, Medium, appTxVars, appRxVars, connVars, txVars, history

(* What handing over a message does, or leaves alone when it is refused. *)
HandsOver(n, to, port, data, key) ==
  /\ data.msg \in Message /\ data.msg.to = to /\ data.msg.port = port
  /\ offered' = offered \cup {data.msg}
  /\ applicationTxData' = [applicationTxData EXCEPT ![n] = data]
  /\ applicationTxPort' = [applicationTxPort EXCEPT ![n] = port]
  /\ applicationTxAddress' = [applicationTxAddress EXCEPT ![n] = to]
  /\ applicationTxFlag' = [applicationTxFlag EXCEPT ![n] = 1]
  /\ applicationTxEncryption' = [applicationTxEncryption EXCEPT ![n] = key]

(* application_handle_tx hands a whole message over, or changes nothing. *)
LEMMA HandOverEffect ==
  ASSUME TypeOK, NEW n \in Node, NEW to \in Node, NEW port \in Port,
         application_handle_tx(n, to, port)
  PROVE  /\ handed' \in [Node -> 0 .. MaxMsgs]
         /\ \/ UNCHANGED <<offered, appTxVars>>
            \/ \E data \in Payload, key \in Key : HandsOver(n, to, port, data, key)
<1> DEFINE msg == [from |-> n, to |-> to, port |-> port, no |-> handed[n] + 1]
           key == (applicationTxEncryption[n] + 1) % KEYS
           data == encrypt_data([msg |-> msg, pad |-> {}], key)
<1>1. handed' \in [Node -> 0 .. MaxMsgs]
  BY BoundAssumption DEF TypeOK, application_handle_tx
<1>2. msg \in Message
  BY BoundAssumption DEF TypeOK, application_handle_tx, Message
<1>3. key \in Key
  <2>1. applicationTxEncryption[n] \in 0 .. 15
    BY DEF TypeOK, Key, KEYS
  <2>2. \A x \in 0 .. 15 : (x + 1) % 16 \in 0 .. 15
    OBVIOUS
  <2> QED
    BY <2>1, <2>2 DEF Key, KEYS
<1>4. data \in Payload /\ data.msg = msg
  BY <1>2, <1>3 DEF encrypt_data, Payload
<1>5. CASE applicationTxFlag[n] = 0
  <2>1. /\ offered' = offered \cup {msg}
        /\ applicationTxData' = [applicationTxData EXCEPT ![n] = data]
        /\ applicationTxEncryption' = [applicationTxEncryption EXCEPT ![n] = key]
        /\ applicationTxPort' = [applicationTxPort EXCEPT ![n] = port]
        /\ applicationTxAddress' = [applicationTxAddress EXCEPT ![n] = to]
        /\ applicationTxFlag' = [applicationTxFlag EXCEPT ![n] = 1]
    BY <1>5 DEF application_handle_tx
  <2>2. msg.to = to /\ msg.port = port
    OBVIOUS
  <2> HIDE DEF msg, key, data
  <2>3. HandsOver(n, to, port, data, key)
    BY <1>2, <1>4, <2>1, <2>2 DEF HandsOver
  <2> QED
    BY <1>1, <1>3, <1>4, <2>3
<1>6. CASE applicationTxFlag[n] # 0
  BY <1>1, <1>6 DEF application_handle_tx
<1> QED
  BY <1>5, <1>6

(* The application turn keeps the types. *)
LEMMA AppType ==
  ASSUME TypeOK, NEW n \in Node, App(n)
  PROVE  TypeOK'
<1>1. applicationRxData' \in [Node -> Payload \cup {NoData}]
  BY DEF TypeOK, App, application_handle_rx
<1>2. pc' \in [Node -> Turn]
  BY GotoType DEF App, Turn
<1>3. /\ applicationTxFlag' \in [Node -> {0, 1}]
      /\ applicationTxData' \in [Node -> Payload \cup {NoData}]
      /\ applicationTxPort' \in [Node -> Port \cup {NoPort}]
      /\ applicationTxAddress' \in [Node -> Node \cup {NoNode}]
      /\ applicationTxEncryption' \in [Node -> Key]
      /\ handed' \in [Node -> 0 .. MaxMsgs]
      /\ offered' \subseteq Message
  <2>1. CASE UNCHANGED <<appTxVars, handed, offered>>
    BY <2>1 DEF TypeOK, appTxVars
  <2>2. CASE \E to \in Node \ {n}, port \in Port :
               application_handle_tx(n, to, port)
    <3>1. PICK to \in Node \ {n}, port \in Port :
            application_handle_tx(n, to, port)
      BY <2>2
    <3>2. handed' \in [Node -> 0 .. MaxMsgs]
      BY <3>1, HandOverEffect
    <3>3. CASE UNCHANGED <<offered, appTxVars>>
      BY <3>2, <3>3 DEF TypeOK, appTxVars
    <3>4. CASE \E data \in Payload, key \in Key :
                 HandsOver(n, to, port, data, key)
      BY <3>2, <3>4 DEF TypeOK, HandsOver
    <3> QED
      BY <3>1, <3>3, <3>4, HandOverEffect
  <2> QED
    BY <2>1, <2>2 DEF App
<1> QED
  BY <1>1, <1>2, <1>3 DEF TypeOK, App, connVars, txVars, history

(* transport_handle_tx keeps the types. *)
LEMMA HandleTxType ==
  ASSUME TypeOK, NEW n \in Node, HandleTx(n)
  PROVE  TypeOK'
<1>1. pc' \in [Node -> Turn] /\ transport_timer' \in [Node -> 0 .. TRANS_TIMEOUT]
  BY GotoType, TimerType DEF HandleTx, Turn
<1>2. applicationTxFlag' \in [Node -> {0, 1}]
  BY DEF TypeOK, HandleTx
<1>3. CASE CanConnect(n)
  <2>1. /\ transportConnectionState' \in [Node -> ConnectionState]
        /\ transportConnectionType' \in [Node -> ConnectionType]
    BY <1>3, BecomeType DEF HandleTx, ConnectionState, ConnectionType
  <2>2. /\ transportTxFlag' \in [Node -> {0, 1}]
        /\ transportTxSegment' \in [Node -> Segment \cup {NoSegment}]
        /\ transportTxAddress' \in [Node -> Node \cup {NoNode}]
    BY <1>3, EmitType DEF HandleTx, Kind, Key, KEYS
  <2>3. transportTxRetry' \in [Node -> 0 .. TRANS_RESEND]
    BY <1>3, RetryType DEF HandleTx
  <2> QED
    BY <1>1, <1>2, <2>1, <2>2, <2>3 DEF TypeOK, HandleTx, appRxVars, history
<1>4. CASE ~CanConnect(n)
  BY <1>1, <1>2, <1>4
     DEF TypeOK, HandleTx, connVars, txVars, appRxVars, history
<1> QED
  BY <1>3, <1>4

(* A turn with nothing to poll keeps the types. *)
LEMMA SkipType ==
  ASSUME TypeOK, NEW n \in Node, SkipTx(n) \/ SkipRx(n)
  PROVE  TypeOK'
<1>1. pc' \in [Node -> Turn]
  BY GotoType DEF SkipTx, SkipRx, Turn
<1> QED
  BY <1>1
     DEF TypeOK, SkipTx, SkipRx, appTxVars, appRxVars, connVars, txVars, history

(* transport_handle_timeout keeps the types: no retry is taken from 0. *)
LEMMA TimeoutType ==
  ASSUME TypeOK, NEW n \in Node, NEW from \in Turn, NEW to \in Turn,
         HandleTimeout(n, from, to)
  PROVE  TypeOK'
<1>1. pc' \in [Node -> Turn]
  BY GotoType DEF HandleTimeout
<1>2. CASE Resend(n)
  <2>1. transport_timer' \in [Node -> 0 .. TRANS_TIMEOUT]
    BY <1>2, TimerType DEF Resend
  <2>2. /\ transportTxFlag' \in [Node -> {0, 1}]
        /\ transportTxRetry' \in [Node -> 0 .. TRANS_RESEND]
    BY <1>2, TimerAssumption DEF TypeOK, Resend
  <2> QED
    BY <1>1, <1>2, <2>1, <2>2
       DEF TypeOK, HandleTimeout, Resend, appTxVars, appRxVars, connVars, history
<1>3. CASE GiveUp(n)
  <2>1. /\ transportConnectionState' \in [Node -> ConnectionState]
        /\ transportConnectionType' \in [Node -> ConnectionType]
    BY <1>3, BecomeType DEF GiveUp, ConnectionState, ConnectionType
  <2>2. transportTxFlag' \in [Node -> {0, 1}]
    BY <1>3 DEF TypeOK, GiveUp
  <2> QED
    BY <1>1, <1>3, <2>1, <2>2
       DEF TypeOK, HandleTimeout, GiveUp, appTxVars, appRxVars, history
<1>4. CASE ~Expired(n) /\ UNCHANGED <<connVars, txVars, transport_timer>>
  BY <1>1, <1>4
     DEF TypeOK, HandleTimeout, appTxVars, appRxVars, connVars, txVars, history
<1> QED
  BY <1>2, <1>3, <1>4 DEF HandleTimeout

(* What transport_poll_rx finds is a segment, whole if it is sound. *)
LEMMA ReceivedSegment ==
  ASSUME Inv, NEW n \in Node, transport_poll_rx(n)
  PROVE  /\ transportRxSegment[n] \in Segment
         /\ Carries(n, transportRxSegment[n])
BY DEF Inv, TypeOK, RxCarries, transport_poll_rx

(* A SEND that a host takes carries data for this node and port. *)
LEMMA SendIsData ==
  ASSUME Inv, NEW n \in Node, ReceivesSend(n)
  PROVE  /\ transportRxSegment[n].data \in Payload
         /\ transportRxSegment[n].data.msg \in offered
         /\ transportRxSegment[n].data.msg \in Message
         /\ transportRxSegment[n].data.msg.to = n
         /\ transportRxSegment[n].data.msg.port = applicationTxPort[n]
<1>1. transport_poll_rx(n) /\ Accepts(n) /\ InState(n, "CONN_OPEN", "HOST")
      /\ transportRxSegment[n].kind = "SEND"
  BY DEF ReceivesSend, Receives
<1>2. Carries(n, transportRxSegment[n])
  BY <1>1, ReceivedSegment
<1> QED
  BY <1>1, <1>2 DEF Carries, Accepts, InState, Payload

(* A client that waits for its ACK holds a message in its segment. *)
LEMMA ClientSegment ==
  ASSUME Inv, NEW n \in Node, InState(n, "CONN_DATA", "CLIENT")
  PROVE  transportTxSegment[n].data.msg \in Message
<1>1. transportTxSegment[n].kind = "SEND"
  BY DEF Inv, ResendMatchesRole, RoleSegment, InState
<1>2. Carries(transportTxAddress[n], transportTxSegment[n])
      /\ transportTxSegment[n].sound
  BY <1>1 DEF Inv, TxCarries, NoSegment
<1> QED
  BY <1>1, <1>2 DEF Carries, Payload

(* The variables an outcome of transport_handle_rx may change. *)
OutcomeTypes ==
  /\ transportConnectionState \in [Node -> ConnectionState]
  /\ transportConnectionType \in [Node -> ConnectionType]
  /\ transportTxFlag \in [Node -> {0, 1}]
  /\ transportTxSegment \in [Node -> Segment \cup {NoSegment}]
  /\ transportTxAddress \in [Node -> Node \cup {NoNode}]
  /\ transportTxRetry \in [Node -> 0 .. TRANS_RESEND]
  /\ applicationRxData \in [Node -> Payload \cup {NoData}]
  /\ applicationRxEncryption \in [Node -> Key]
  /\ transport_timer \in [Node -> 0 .. TRANS_TIMEOUT]
  /\ offered \subseteq Message
  /\ delivered \in [Node -> SUBSET Message]
  /\ acked \subseteq Message

(* One turn of transport_handle_rx whatever the outcome. *)
Outcome(n) ==
  \/ RxConnect(n) \/ RxAccept(n) \/ RxSend(n) \/ RxBusy(n) \/ RxAck(n)
  \/ RxRefusedData(n) \/ RxRefusedOpen(n) \/ RxClose(n) \/ RxIgnore(n)

(* Every outcome of transport_handle_rx keeps the types. *)
LEMMA OutcomeType ==
  ASSUME Inv, NEW n \in Node, Outcome(n)
  PROVE  OutcomeTypes'
<1> USE DEF Inv
<1>0. TypeOK
  OBVIOUS
<1>1. CASE RxConnect(n)
  <2>1. /\ transportConnectionState' \in [Node -> ConnectionState]
        /\ transportConnectionType' \in [Node -> ConnectionType]
    BY <1>0, <1>1, BecomeType DEF RxConnect, ConnectionState, ConnectionType
  <2>2. applicationTxEncryption[n] \in Key
    BY DEF TypeOK
  <2>3. /\ transportTxFlag' \in [Node -> {0, 1}]
        /\ transportTxSegment' \in [Node -> Segment \cup {NoSegment}]
        /\ transportTxAddress' \in [Node -> Node \cup {NoNode}]
    BY <1>0, <1>1, <2>2, EmitType DEF RxConnect, Kind
  <2>4. /\ transportTxRetry' \in [Node -> 0 .. TRANS_RESEND]
        /\ transport_timer' \in [Node -> 0 .. TRANS_TIMEOUT]
    BY <1>0, <1>1, RetryType, TimerType DEF RxConnect
  <2> QED
    BY <1>1, <2>1, <2>3, <2>4
       DEF TypeOK, OutcomeTypes, RxConnect, appRxVars, history
<1>2. CASE RxAccept(n)
  <2>1. /\ transportConnectionState' \in [Node -> ConnectionState]
        /\ transportConnectionType' \in [Node -> ConnectionType]
    BY <1>0, <1>2, BecomeType DEF RxAccept, ConnectionState, ConnectionType
  <2>2. applicationTxData[n] \in Payload \cup {NoData} /\ 0 \in Key
    BY DEF TypeOK, Key, KEYS
  <2>3. /\ transportTxFlag' \in [Node -> {0, 1}]
        /\ transportTxSegment' \in [Node -> Segment \cup {NoSegment}]
        /\ transportTxAddress' \in [Node -> Node \cup {NoNode}]
    BY <1>0, <1>2, <2>2, EmitType DEF RxAccept, Kind
  <2>4. /\ transportTxRetry' \in [Node -> 0 .. TRANS_RESEND]
        /\ transport_timer' \in [Node -> 0 .. TRANS_TIMEOUT]
    BY <1>0, <1>2, RetryType, TimerType DEF RxAccept
  <2>5. transportRxSegment[n].key \in Key
    BY <1>2, ReceivedSegment DEF RxAccept, ReceivesAccept, Receives, Segment
  <2> QED
    BY <1>2, <2>1, <2>3, <2>4, <2>5 DEF TypeOK, OutcomeTypes, RxAccept, history
<1>3. CASE RxSend(n)
  <2>1. /\ transportConnectionState' \in [Node -> ConnectionState]
        /\ transportConnectionType' \in [Node -> ConnectionType]
    BY <1>0, <1>3, BecomeType DEF RxSend, ConnectionState, ConnectionType
  <2>2. 0 \in Key
    BY DEF Key, KEYS
  <2>3. /\ transportTxFlag' \in [Node -> {0, 1}]
        /\ transportTxSegment' \in [Node -> Segment \cup {NoSegment}]
        /\ transportTxAddress' \in [Node -> Node \cup {NoNode}]
    BY <1>0, <1>3, <2>2, EmitType DEF RxSend, Kind
  <2>4. /\ transportTxRetry' \in [Node -> 0 .. TRANS_RESEND]
        /\ transport_timer' \in [Node -> 0 .. TRANS_TIMEOUT]
    BY <1>0, <1>3, RetryType, TimerType DEF RxSend
  <2>5. /\ transportRxSegment[n].data \in Payload
        /\ transportRxSegment[n].data.msg \in Message
    BY <1>3, SendIsData DEF RxSend
  <2> QED
    BY <1>3, <2>1, <2>3, <2>4, <2>5 DEF TypeOK, OutcomeTypes, RxSend
<1>4. CASE RxBusy(n)
  <2>1. transport_timer' \in [Node -> 0 .. TRANS_TIMEOUT]
    BY <1>0, <1>4, TimerType DEF RxBusy
  <2> QED
    BY <1>4, <2>1
       DEF TypeOK, OutcomeTypes, RxBusy, appRxVars, connVars, txVars, history
<1>5. CASE RxAck(n)
  <2>1. /\ transportConnectionState' \in [Node -> ConnectionState]
        /\ transportConnectionType' \in [Node -> ConnectionType]
    BY <1>0, <1>5, BecomeType DEF RxAck, ConnectionState, ConnectionType
  <2>2. 0 \in Key
    BY DEF Key, KEYS
  <2>3. /\ transportTxFlag' \in [Node -> {0, 1}]
        /\ transportTxSegment' \in [Node -> Segment \cup {NoSegment}]
        /\ transportTxAddress' \in [Node -> Node \cup {NoNode}]
    BY <1>0, <1>5, <2>2, EmitType DEF RxAck, Kind
  <2>4. transportTxRetry' \in [Node -> 0 .. TRANS_RESEND]
    BY <1>0, <1>5, RetryType DEF RxAck
  <2>5. transportTxSegment[n].data.msg \in Message
    BY <1>5, ClientSegment DEF RxAck, ReceivesAck, Receives
  <2> QED
    BY <1>5, <2>1, <2>3, <2>4, <2>5 DEF TypeOK, OutcomeTypes, RxAck, appRxVars
<1>6. CASE RxRefusedData(n)
  <2>1. /\ transportConnectionState' \in [Node -> ConnectionState]
        /\ transportConnectionType' \in [Node -> ConnectionType]
    BY <1>0, <1>6, BecomeType DEF RxRefusedData, ConnectionState, ConnectionType
  <2>2. 0 \in Key
    BY DEF Key, KEYS
  <2>3. /\ transportTxFlag' \in [Node -> {0, 1}]
        /\ transportTxSegment' \in [Node -> Segment \cup {NoSegment}]
        /\ transportTxAddress' \in [Node -> Node \cup {NoNode}]
    BY <1>0, <1>6, <2>2, EmitType DEF RxRefusedData, Kind
  <2> QED
    BY <1>6, <2>1, <2>3
       DEF TypeOK, OutcomeTypes, RxRefusedData, appRxVars, history
<1>7. CASE RxRefusedOpen(n) \/ RxClose(n)
  <2>1. /\ transportConnectionState' \in [Node -> ConnectionState]
        /\ transportConnectionType' \in [Node -> ConnectionType]
    BY <1>0, <1>7, BecomeType
       DEF RxRefusedOpen, RxClose, ConnectionState, ConnectionType
  <2> QED
    BY <1>7, <2>1
       DEF TypeOK, OutcomeTypes, RxRefusedOpen, RxClose, txVars, appRxVars, history
<1>8. CASE RxIgnore(n)
  BY <1>8
     DEF TypeOK, OutcomeTypes, RxIgnore, appRxVars, connVars, txVars, history
<1> QED
  BY <1>1, <1>2, <1>3, <1>4, <1>5, <1>6, <1>7, <1>8 DEF Outcome

(* transport_handle_rx keeps the types. *)
LEMMA HandleRxType ==
  ASSUME Inv, NEW n \in Node, HandleRx(n)
  PROVE  TypeOK'
<1>1. pc' \in [Node -> Turn]
  BY GotoType DEF Inv, HandleRx, Turn
<1>2. OutcomeTypes'
  BY OutcomeType DEF HandleRx, Outcome
<1>3. transportRxSegment' \in [Node -> Segment \cup {NoSegment}]
  BY DEF Inv, TypeOK, HandleRx
<1>4. applicationTxFlag' \in [Node -> {0, 1}]
  BY DEF Inv, TypeOK, HandleRx
<1> QED
  BY <1>1, <1>2, <1>3, <1>4 DEF Inv, TypeOK, OutcomeTypes, HandleRx

(* Receiving a segment from the network layer keeps the types. *)
LEMMA NetRxType ==
  ASSUME TypeOK, NEW n \in Node, NetRx(n)
  PROVE  TypeOK'
<1>1. pc' \in [Node -> Turn]
  BY GotoType DEF NetRx, Turn
<1>2. /\ transportRxSegment' \in [Node -> Segment \cup {NoSegment}]
      /\ air' \in [Node -> Seq(Segment)]
  <2>1. CASE UNCHANGED <<transportRxSegment, air>>
    BY <2>1 DEF TypeOK
  <2>2. ASSUME NEW i \in 1 .. Len(air[n]),
               transportRxSegment' = [transportRxSegment EXCEPT ![n] = air[n][i]],
               \/ air' = [air EXCEPT ![n] = RemoveAt(@, i)]
               \/ air' = air
        PROVE  /\ transportRxSegment' \in [Node -> Segment \cup {NoSegment}]
               /\ air' \in [Node -> Seq(Segment)]
    <3>1. air[n] \in Seq(Segment) /\ air[n][i] \in Segment
      BY LenProperties DEF TypeOK
    <3>2. RemoveAt(air[n], i) \in Seq(Segment)
      BY <3>1, RemoveAtType
    <3>3. transportRxSegment' \in [Node -> Segment \cup {NoSegment}]
      <4>1. transportRxSegment \in [Node -> Segment \cup {NoSegment}]
        BY DEF TypeOK
      <4> QED
        BY <2>2, <3>1, <4>1
    <3>4. air' \in [Node -> Seq(Segment)]
      <4>1. air \in [Node -> Seq(Segment)]
        BY DEF TypeOK
      <4> QED
        BY <2>2, <3>2, <4>1
    <3> QED
      BY <3>3, <3>4
  <2> QED
    BY <2>1, <2>2 DEF NetRx
<1> QED
  BY <1>1, <1>2 DEF TypeOK, NetRx, appTxVars, appRxVars, connVars, txVars, history

(* Whatever is flagged to be sent is a segment. *)
LEMMA UnsentIsSegment ==
  ASSUME Inv, NEW n \in Node, Unsent(n)
  PROVE  transportTxSegment[n] \in Segment
<1>1. transportTxSegment[n].kind # "none"
  <2>1. CASE transportConnectionState[n] = "IDLE"
    BY <2>1 DEF Inv, ResendMatchesRole
  <2>2. CASE transportConnectionState[n] # "IDLE"
    BY <2>2 DEF Inv, ResendMatchesRole, RoleSegment
  <2> QED
    BY <2>1, <2>2
<1> QED
  BY <1>1 DEF Inv, TypeOK, NoSegment

(* Handing the segment to the network layer keeps the types. *)
LEMMA NetTxType ==
  ASSUME Inv, NEW n \in Node, NetTx(n)
  PROVE  TypeOK'
<1>1. pc' \in [Node -> Turn]
  BY GotoType DEF Inv, NetTx, Turn
<1>2. transportTxFlag' \in [Node -> {0, 1}]
  BY DEF Inv, TypeOK, NetTx
<1>3. air' \in [Node -> Seq(Segment)]
  <2> DEFINE to == transportTxAddress[n]
  <2>1. CASE Unsent(n) /\ to \in Node /\ Len(air[to]) < MaxAir
    <3>1. Append(air[to], transportTxSegment[n]) \in Seq(Segment)
      BY <2>1, UnsentIsSegment DEF Inv, TypeOK
    <3>2. air' = [air EXCEPT ![to] = Append(@, transportTxSegment[n])]
      BY <2>1 DEF NetTx
    <3> QED
      BY <2>1, <3>1, <3>2 DEF Inv, TypeOK
  <2>2. CASE ~(Unsent(n) /\ to \in Node /\ Len(air[to]) < MaxAir)
    BY <2>2 DEF Inv, TypeOK, NetTx
  <2> QED
    BY <2>1, <2>2
<1> QED
  BY <1>1, <1>2, <1>3 DEF Inv, TypeOK, NetTx, appTxVars, appRxVars, connVars, history

(* A step that changes nothing keeps the types. *)
LEMMA StutterType ==
  ASSUME TypeOK, UNCHANGED vars
  PROVE  TypeOK'
BY DEF TypeOK, vars, appTxVars, appRxVars, connVars, txVars, history

(* Every step keeps the types. *)
LEMMA NextType ==
  ASSUME Inv, [Next]_vars
  PROVE  TypeOK'
<1>1. TypeOK
  BY DEF Inv
<1>2. CASE Medium
  BY <1>1, <1>2, MediumType
<1>3. ASSUME NEW n \in Node, Loop(n)
      PROVE  TypeOK'
  <2>1. {"poll", "rx", "timeout", "netrx"} \subseteq Turn
    BY DEF Turn
  <2> QED
    BY <1>1, <1>3, <2>1, AppType, HandleTxType, SkipType, TimeoutType,
       HandleRxType, NetRxType, NetTxType DEF Loop
<1>4. ASSUME NEW n \in Node, Tick(n)
      PROVE  TypeOK'
  BY <1>1, <1>4, TickType
<1>5. CASE UNCHANGED vars
  BY <1>1, <1>5, StutterType
<1> QED
  BY <1>2, <1>3, <1>4, <1>5 DEF Next

-----------------------------------------------------------------------------
(* Every step keeps the roles *)

(* What building a segment changes, and for which node. *)
LEMMA EmitEffect ==
  ASSUME TypeOK, NEW n \in Node, NEW kind, NEW key, NEW data,
         Emit(n, kind, key, data)
  PROVE  /\ \A m \in Node \ {n} :
              /\ transportTxFlag'[m] = transportTxFlag[m]
              /\ transportTxSegment'[m] = transportTxSegment[m]
              /\ transportTxAddress'[m] = transportTxAddress[m]
         /\ transportTxFlag'[n] = 1
         /\ transportTxSegment'[n].kind = kind
         /\ transportTxSegment'[n].data = data
         /\ transportTxSegment'[n].port = applicationTxPort[n]
         /\ transportTxSegment'[n].sound = TRUE
         /\ transportTxAddress'[n] = applicationTxAddress[n]
BY DEF TypeOK, Emit

(* What a change of the connection state changes, and for which node. *)
LEMMA BecomeEffect ==
  ASSUME TypeOK, NEW n \in Node, NEW state, NEW type, Become(n, state, type)
  PROVE  /\ \A m \in Node \ {n} :
              /\ transportConnectionState'[m] = transportConnectionState[m]
              /\ transportConnectionType'[m] = transportConnectionType[m]
         /\ transportConnectionState'[n] = state
         /\ transportConnectionType'[n] = type
<1>1. /\ DOMAIN transportConnectionState = Node
      /\ DOMAIN transportConnectionType = Node
  BY DEF TypeOK
<1>2. /\ transportConnectionState' = [transportConnectionState EXCEPT ![n] = state]
      /\ transportConnectionType' = [transportConnectionType EXCEPT ![n] = type]
  BY DEF Become
<1> QED
  BY <1>1, <1>2

(* A node that takes a connection state together with its segment. *)
LEMMA RoleTaken ==
  ASSUME TypeOK, ResendMatchesRole, NEW n \in Node, NEW state, NEW type,
         NEW kind, NEW key, NEW data,
         Become(n, state, type), Emit(n, kind, key, data),
         \/ <<state, type, kind>> \in RoleSegment
         \/ state = "IDLE" /\ type = "NONE" /\ kind = "CLOSE"
  PROVE  ResendMatchesRole'
<1>1. state = "IDLE" => <<state, type, kind>> \notin RoleSegment
  BY DEF RoleSegment
<1>2. /\ transportTxSegment'[n].kind = kind
      /\ \A m \in Node \ {n} :
           /\ transportTxFlag'[m] = transportTxFlag[m]
           /\ transportTxSegment'[m] = transportTxSegment[m]
  BY EmitEffect, ZenonT(40)
<1>3. /\ transportConnectionState'[n] = state
      /\ transportConnectionType'[n] = type
      /\ \A m \in Node \ {n} :
           /\ transportConnectionState'[m] = transportConnectionState[m]
           /\ transportConnectionType'[m] = transportConnectionType[m]
  BY BecomeEffect
<1> SUFFICES ASSUME NEW m \in Node
             PROVE  IF transportConnectionState'[m] = "IDLE"
                      THEN /\ transportConnectionType'[m] = "NONE"
                           /\ Unsent(m)' => transportTxSegment'[m].kind
                                              \in {"CLOSE", "ACK"}
                      ELSE <<transportConnectionState'[m],
                             transportConnectionType'[m],
                             transportTxSegment'[m].kind>> \in RoleSegment
  BY DEF ResendMatchesRole
<1>4. CASE m = n
  BY <1>1, <1>2, <1>3, <1>4
<1>5. CASE m # n
  BY <1>2, <1>3, <1>5 DEF ResendMatchesRole, Unsent
<1> QED
  BY <1>4, <1>5

(* Nothing to show where neither the state nor the segment changes. *)
LEMMA RoleKept ==
  ASSUME ResendMatchesRole, UNCHANGED <<connVars, txVars>>
  PROVE  ResendMatchesRole'
BY DEF ResendMatchesRole, Unsent, connVars, txVars

(* Requesting a connection builds the CONNECT of its state. *)
LEMMA HandleTxRole ==
  ASSUME Inv, NEW n \in Node, HandleTx(n)
  PROVE  ResendMatchesRole'
<1>1. CASE CanConnect(n)
  <2>1. Become(n, "CONN_OPEN", "CLIENT") /\ Emit(n, "CONNECT", 0, NoData)
    BY <1>1 DEF HandleTx
  <2>2. <<"CONN_OPEN", "CLIENT", "CONNECT">> \in RoleSegment
    BY DEF RoleSegment
  <2> QED
    BY <2>1, <2>2, RoleTaken DEF Inv
<1>2. CASE UNCHANGED <<connVars, txVars>>
  BY <1>2, RoleKept DEF Inv
<1> QED
  BY <1>1, <1>2 DEF HandleTx

(* Sending again, or giving up, keeps state and segment together. *)
LEMMA TimeoutRole ==
  ASSUME Inv, NEW n \in Node, NEW from, NEW to, HandleTimeout(n, from, to)
  PROVE  ResendMatchesRole'
<1>1. CASE Resend(n)
  BY <1>1 DEF Inv, TypeOK, ResendMatchesRole, Resend, Expired, Unsent, connVars
<1>2. CASE GiveUp(n)
  <2>1. transportTxFlag'[n] = 0
        /\ \A m \in Node \ {n} : transportTxFlag'[m] = transportTxFlag[m]
    BY <1>2 DEF Inv, TypeOK, GiveUp
  <2> QED
    BY <1>2, <2>1, BecomeEffect DEF Inv, ResendMatchesRole, GiveUp, Unsent
<1>3. CASE UNCHANGED <<connVars, txVars>>
  BY <1>3, RoleKept DEF Inv
<1> QED
  BY <1>1, <1>2, <1>3 DEF HandleTimeout

(* Every outcome of transport_handle_rx builds the segment of its state. *)
LEMMA OutcomeRole ==
  ASSUME Inv, NEW n \in Node, Outcome(n)
  PROVE  ResendMatchesRole'
<1>0. TypeOK /\ ResendMatchesRole
  BY DEF Inv
<1>1. CASE RxConnect(n)
  <2>1. Become(n, "CONN_OPEN", "HOST") /\ Emit(n, "ACCEPT", applicationTxEncryption[n], NoData)
    BY <1>1 DEF RxConnect
  <2>2. <<"CONN_OPEN", "HOST", "ACCEPT">> \in RoleSegment
    BY DEF RoleSegment
  <2> QED
    BY <1>0, <2>1, <2>2, RoleTaken
<1>2. CASE RxAccept(n)
  <2>1. Become(n, "CONN_DATA", "CLIENT") /\ Emit(n, "SEND", 0, applicationTxData[n])
    BY <1>2 DEF RxAccept
  <2>2. <<"CONN_DATA", "CLIENT", "SEND">> \in RoleSegment
    BY DEF RoleSegment
  <2> QED
    BY <1>0, <2>1, <2>2, RoleTaken
<1>3. CASE RxSend(n)
  <2>1. Become(n, "CONN_DATA", "HOST") /\ Emit(n, "ACK", 0, NoData)
    BY <1>3 DEF RxSend
  <2>2. <<"CONN_DATA", "HOST", "ACK">> \in RoleSegment
    BY DEF RoleSegment
  <2> QED
    BY <1>0, <2>1, <2>2, RoleTaken
<1>4. CASE RxAck(n)
  <2>1. Become(n, "IDLE", "NONE") /\ Emit(n, "CLOSE", 0, NoData)
    BY <1>4 DEF RxAck
  <2> QED
    BY <1>0, <2>1, RoleTaken
<1>5. CASE RxRefusedData(n)
  <2>1. Become(n, "IDLE", "NONE") /\ Emit(n, "CLOSE", 0, NoData)
    BY <1>5 DEF RxRefusedData
  <2> QED
    BY <1>0, <2>1, RoleTaken
<1>6. CASE RxRefusedOpen(n)
  <2>1. transportTxSegment[n].kind = "CONNECT"
    BY <1>0, <1>6 DEF ResendMatchesRole, RoleSegment, RxRefusedOpen,
       RefusedOpen, Receives, InState
  <2>2. Become(n, "CONN_FAIL", "NONE") /\ UNCHANGED txVars
    BY <1>6 DEF RxRefusedOpen
  <2>3. <<"CONN_FAIL", "NONE", "CONNECT">> \in RoleSegment
    BY DEF RoleSegment
  <2> QED
    BY <1>0, <2>1, <2>2, <2>3, BecomeEffect DEF ResendMatchesRole, Unsent, txVars
<1>7. CASE RxClose(n)
  <2>1. transportTxSegment[n].kind = "ACK"
    BY <1>0, <1>7 DEF ResendMatchesRole, RoleSegment, RxClose, ReceivesClose,
       Receives, InState
  <2>2. Become(n, "IDLE", "NONE") /\ UNCHANGED txVars
    BY <1>7 DEF RxClose
  <2> QED
    BY <1>0, <2>1, <2>2, BecomeEffect DEF ResendMatchesRole, Unsent, txVars
<1>8. CASE UNCHANGED <<connVars, txVars>>
  BY <1>0, <1>8, RoleKept
<1> QED
  BY <1>1, <1>2, <1>3, <1>4, <1>5, <1>6, <1>7, <1>8 DEF Outcome, RxBusy, RxIgnore

(* Taking the segment away keeps the roles. *)
LEMMA NetTxRole ==
  ASSUME Inv, NEW n \in Node, NetTx(n)
  PROVE  ResendMatchesRole'
<1>1. /\ transportTxFlag'[n] = 0
      /\ \A m \in Node \ {n} : transportTxFlag'[m] = transportTxFlag[m]
  BY DEF Inv, TypeOK, NetTx
<1> QED
  BY <1>1 DEF Inv, ResendMatchesRole, NetTx, Unsent, connVars

(* Every step keeps the roles. *)
LEMMA NextRole ==
  ASSUME Inv, [Next]_vars
  PROVE  ResendMatchesRole'
<1>0. ResendMatchesRole
  BY DEF Inv
<1>1. CASE UNCHANGED <<connVars, txVars>>
  BY <1>0, <1>1, RoleKept
<1>2. ASSUME NEW n \in Node, Loop(n)
      PROVE  ResendMatchesRole'
  BY <1>1, <1>2, HandleTxRole, TimeoutRole, OutcomeRole, NetTxRole
     DEF Loop, App, SkipTx, HandleRx, SkipRx, NetRx, Outcome
<1> QED
  BY <1>1, <1>2 DEF Next, Medium, Tick, vars

-----------------------------------------------------------------------------
(* Every step keeps the handover between the layers *)

(* What LoopHandover says of one node. *)
Handover(n) ==
  /\ pc[n] \in {"timeout", "netrx"} => transportRxSegment[n] = NoSegment
  /\ pc[n] \in {"app", "tx"} => ~Unsent(n)
  /\ pc[n] \in {"tx", "poll", "rx"} => applicationRxData[n] = NoData
  /\ pc[n] # "tx" => applicationTxFlag[n] = 0

(* A step of node n leaves the flags and slots of every other node alone. *)
LEMMA LoopFrame ==
  ASSUME TypeOK, NEW n \in Node, Loop(n)
  PROVE  \A m \in Node \ {n} :
           /\ pc'[m] = pc[m]
           /\ transportRxSegment'[m] = transportRxSegment[m]
           /\ transportTxFlag'[m] = transportTxFlag[m]
           /\ applicationRxData'[m] = applicationRxData[m]
           /\ applicationTxFlag'[m] = applicationTxFlag[m]
<1> SUFFICES ASSUME NEW m \in Node \ {n}
             PROVE  /\ pc'[m] = pc[m]
                    /\ transportRxSegment'[m] = transportRxSegment[m]
                    /\ transportTxFlag'[m] = transportTxFlag[m]
                    /\ applicationRxData'[m] = applicationRxData[m]
                    /\ applicationTxFlag'[m] = applicationTxFlag[m]
  OBVIOUS
<1>1. CASE App(n)
  <2>1. applicationTxFlag'[m] = applicationTxFlag[m]
    <3>1. \/ applicationTxFlag' = [applicationTxFlag EXCEPT ![n] = 1]
          \/ applicationTxFlag' = applicationTxFlag
      BY <1>1 DEF App, application_handle_tx, appTxVars
    <3>2. DOMAIN applicationTxFlag = Node
      BY DEF TypeOK
    <3> QED
      BY <3>1, <3>2
  <2>2. applicationRxData'[m] = applicationRxData[m]
    BY <1>1 DEF TypeOK, App, application_handle_rx
  <2>3. pc'[m] = pc[m]
    BY <1>1 DEF TypeOK, App, Goto
  <2> QED
    BY <1>1, <2>1, <2>2, <2>3 DEF App, txVars
<1>2. CASE HandleTx(n)
  BY <1>2 DEF TypeOK, HandleTx, Goto, Emit, appRxVars, txVars
<1>3. CASE SkipTx(n) \/ SkipRx(n)
  BY <1>3 DEF TypeOK, SkipTx, SkipRx, Goto, appTxVars, appRxVars, txVars
<1>4. ASSUME NEW from, NEW to, HandleTimeout(n, from, to)
      PROVE  /\ pc'[m] = pc[m]
             /\ transportRxSegment'[m] = transportRxSegment[m]
             /\ transportTxFlag'[m] = transportTxFlag[m]
             /\ applicationRxData'[m] = applicationRxData[m]
             /\ applicationTxFlag'[m] = applicationTxFlag[m]
  BY <1>4 DEF TypeOK, HandleTimeout, Goto, Resend, GiveUp, appTxVars, appRxVars,
     txVars
<1>5. CASE HandleRx(n)
  <2>1. transportTxFlag'[m] = transportTxFlag[m]
        /\ applicationRxData'[m] = applicationRxData[m]
    BY <1>5 DEF TypeOK, HandleRx, RxConnect, RxAccept, RxSend, RxBusy, RxAck,
       RxRefusedData, RxRefusedOpen, RxClose, RxIgnore, Emit, appRxVars, txVars
  <2> QED
    BY <1>5, <2>1 DEF TypeOK, HandleRx, Goto
<1>6. CASE NetRx(n)
  BY <1>6 DEF TypeOK, NetRx, Goto, appTxVars, appRxVars, txVars
<1>7. CASE NetTx(n)
  BY <1>7 DEF TypeOK, NetTx, Goto, appTxVars, appRxVars
<1> QED
  BY <1>1, <1>2, <1>3, <1>4, <1>5, <1>6, <1>7 DEF Loop

(* A turn of the loop leaves its node what the next turn relies on. *)
LEMMA LoopHandoverStep ==
  ASSUME Inv, NEW n \in Node, Loop(n)
  PROVE  Handover(n)'
<1>0. TypeOK /\ Handover(n)
  BY DEF Inv, LoopHandover, Handover
<1>1. CASE App(n)
  BY <1>0, <1>1 DEF TypeOK, Handover, App, Goto, application_handle_rx, Unsent,
     txVars
<1>2. CASE HandleTx(n)
  BY <1>0, <1>2 DEF TypeOK, Handover, HandleTx, Goto, appRxVars
<1>3. CASE SkipTx(n)
  BY <1>0, <1>3 DEF TypeOK, Handover, SkipTx, Goto, transport_poll_tx, Unsent,
     appTxVars, appRxVars, txVars
<1>4. CASE HandleTimeout(n, "poll", "rx") \/ HandleTimeout(n, "timeout", "netrx")
  BY <1>0, <1>4 DEF TypeOK, Handover, HandleTimeout, Goto, appTxVars, appRxVars
<1>5. CASE HandleRx(n)
  BY <1>0, <1>5 DEF TypeOK, Handover, HandleRx, Goto
<1>6. CASE SkipRx(n)
  BY <1>0, <1>6 DEF TypeOK, Handover, SkipRx, Goto, transport_poll_rx,
     appTxVars, appRxVars
<1>7. CASE NetRx(n)
  BY <1>0, <1>7 DEF TypeOK, Handover, NetRx, Goto, appTxVars
<1>8. CASE NetTx(n)
  BY <1>0, <1>8 DEF TypeOK, Handover, NetTx, Goto, Unsent, appTxVars
<1> QED
  BY <1>1, <1>2, <1>3, <1>4, <1>5, <1>6, <1>7, <1>8 DEF Loop

(* Every step keeps the handover of every node. *)
LEMMA NextHandover ==
  ASSUME Inv, [Next]_vars
  PROVE  LoopHandover'
<1>1. ASSUME NEW n \in Node, Loop(n)
      PROVE  LoopHandover'
  <2> SUFFICES ASSUME NEW m \in Node
               PROVE  Handover(m)'
    BY DEF LoopHandover, Handover
  <2>1. CASE m = n
    BY <1>1, <2>1, LoopHandoverStep
  <2>2. CASE m # n
    BY <1>1, <2>2, LoopFrame DEF Inv, LoopHandover, Handover, Unsent
  <2> QED
    BY <2>1, <2>2
<1>2. CASE UNCHANGED <<pc, transportRxSegment, transportTxFlag,
                       applicationRxData, applicationTxFlag>>
  BY <1>2 DEF Inv, LoopHandover, Unsent
<1> QED
  BY <1>1, <1>2 DEF Next, Medium, Tick, vars, appTxVars, appRxVars, txVars

-----------------------------------------------------------------------------
(* Every step keeps the messages whole, from buffer to buffer *)

Flow == /\ BufferWhole
        /\ ClientHasData
        /\ TxCarries
        /\ RxCarries
        /\ AirCarries
        /\ DeliveredToAddressee

(* The transmit buffers stay whole where nothing is written. *)
LEMMA BufferKept ==
  ASSUME BufferWhole,
         UNCHANGED <<applicationTxData, applicationTxPort,
                     applicationTxAddress, offered>>
  PROVE  BufferWhole'
BY DEF BufferWhole

(* A segment to be sent stays whole where nothing is written. *)
LEMMA TxKept ==
  ASSUME TxCarries, offered \subseteq offered',
         UNCHANGED <<transportTxSegment, transportTxAddress>>
  PROVE  TxCarries'
BY DEF TxCarries, Carries

(* A received segment stays whole where nothing is written. *)
LEMMA RxKept ==
  ASSUME RxCarries, offered \subseteq offered', UNCHANGED transportRxSegment
  PROVE  RxCarries'
BY DEF RxCarries, Carries

(* The segments under way stay whole where nothing is written. *)
LEMMA AirKept ==
  ASSUME AirCarries, offered \subseteq offered', UNCHANGED air
  PROVE  AirCarries'
BY DEF AirCarries, Carries

(* A message is handed over with all its buffers, or none of them. *)
LEMMA AppFlow ==
  ASSUME Inv, NEW n \in Node, App(n)
  PROVE  Flow'
<1>0. TypeOK
  BY DEF Inv
<1>1. \/ UNCHANGED <<offered, appTxVars>>
      \/ \E to \in Node, port \in Port, data \in Payload, key \in Key :
           HandsOver(n, to, port, data, key)
  <2>1. CASE UNCHANGED <<appTxVars, handed, offered>>
    BY <2>1
  <2>2. ASSUME NEW to \in Node \ {n}, NEW port \in Port,
               application_handle_tx(n, to, port)
        PROVE  \/ UNCHANGED <<offered, appTxVars>>
               \/ \E data \in Payload, key \in Key :
                    HandsOver(n, to, port, data, key)
    BY <1>0, <2>2, HandOverEffect
  <2> QED
    BY <2>1, <2>2 DEF App
<1>2. offered \subseteq offered'
  BY <1>1 DEF HandsOver
<1>3. TxCarries' /\ RxCarries' /\ AirCarries'
  BY <1>2, TxKept, RxKept, AirKept DEF Inv, App, txVars
<1>4. /\ applicationRxData'[n] = NoData
      /\ \A m \in Node \ {n} : applicationRxData'[m] = applicationRxData[m]
  BY <1>0 DEF TypeOK, App, application_handle_rx
<1>5. CASE UNCHANGED <<offered, appTxVars>>
  <2>1. BufferWhole'
    BY <1>5, BufferKept DEF Inv, appTxVars
  <2>2. ClientHasData'
    BY <1>5 DEF Inv, ClientHasData, App, appTxVars, connVars
  <2>3. DeliveredToAddressee'
    BY <1>4, <1>5 DEF Inv, DeliveredToAddressee, appTxVars
  <2> QED
    BY <1>3, <2>1, <2>2, <2>3 DEF Flow
<1>6. ASSUME NEW to \in Node, NEW port \in Port, NEW data \in Payload,
             NEW key \in Key, HandsOver(n, to, port, data, key)
      PROVE  Flow'
  <2>1. /\ applicationTxData'[n] = data
        /\ applicationTxPort'[n] = port
        /\ applicationTxAddress'[n] = to
        /\ \A m \in Node \ {n} :
             /\ applicationTxData'[m] = applicationTxData[m]
             /\ applicationTxPort'[m] = applicationTxPort[m]
             /\ applicationTxAddress'[m] = applicationTxAddress[m]
             /\ applicationTxFlag'[m] = applicationTxFlag[m]
    BY <1>0, <1>6 DEF TypeOK, HandsOver
  <2>2. /\ data.msg.to = to /\ data.msg.port = port
        /\ offered' = offered \cup {data.msg}
    BY <1>6 DEF HandsOver
  <2>3. BufferWhole'
    BY <2>1, <2>2 DEF Inv, BufferWhole
  <2>4. ClientHasData'
    BY <2>1, NoDataFacts DEF Inv, ClientHasData, App, connVars
  <2>5. DeliveredToAddressee'
    BY <1>4, <2>1 DEF Inv, DeliveredToAddressee
  <2> QED
    BY <1>3, <2>3, <2>4, <2>5 DEF Flow
<1> QED
  BY <1>1, <1>5, <1>6

(* A segment built from the buffers, or one without data. *)
LEMMA EmitCarries ==
  ASSUME Inv, NEW n \in Node, NEW kind, NEW key, NEW data,
         Emit(n, kind, key, data), UNCHANGED offered,
         kind = "SEND" => data = applicationTxData[n] /\ data # NoData
  PROVE  TxCarries'
<1>0. TypeOK
  BY DEF Inv
<1>1. /\ transportTxSegment'[n].kind = kind
      /\ transportTxSegment'[n].data = data
      /\ transportTxSegment'[n].port = applicationTxPort[n]
      /\ transportTxSegment'[n].sound
      /\ transportTxAddress'[n] = applicationTxAddress[n]
      /\ \A m \in Node \ {n} :
           /\ transportTxSegment'[m] = transportTxSegment[m]
           /\ transportTxAddress'[m] = transportTxAddress[m]
  BY <1>0 DEF TypeOK, Emit
<1>2. kind = "SEND" => /\ data \in Payload
                       /\ data.msg \in offered
                       /\ data.msg.to = applicationTxAddress[n]
                       /\ data.msg.port = applicationTxPort[n]
  BY DEF Inv, BufferWhole
<1> SUFFICES ASSUME NEW m \in Node, transportTxSegment'[m] # NoSegment
             PROVE  /\ transportTxSegment'[m].sound
                    /\ Carries(transportTxAddress[m], transportTxSegment[m])'
  BY DEF TxCarries
<1>3. CASE m = n
  BY <1>1, <1>2, <1>3 DEF Carries
<1>4. CASE m # n
  BY <1>1, <1>4 DEF Inv, TxCarries, Carries
<1> QED
  BY <1>3, <1>4

(* Requesting a connection moves no data, and a client has data. *)
LEMMA HandleTxFlow ==
  ASSUME Inv, NEW n \in Node, HandleTx(n)
  PROVE  Flow'
<1>1. UNCHANGED offered
  BY DEF HandleTx, history
<1>2. BufferWhole' /\ RxCarries' /\ AirCarries'
  BY <1>1, BufferKept, RxKept, AirKept DEF Inv, HandleTx
<1>3. DeliveredToAddressee'
  BY DEF Inv, DeliveredToAddressee, HandleTx, appRxVars
<1>4. applicationTxData[n] # NoData
  BY DEF Inv, ClientHasData, HandleTx, transport_poll_tx
<1>5. CASE CanConnect(n)
  <2>1. Become(n, "CONN_OPEN", "CLIENT") /\ Emit(n, "CONNECT", 0, NoData)
    BY <1>5 DEF HandleTx
  <2>2. TxCarries'
    BY <1>1, <2>1, EmitCarries
  <2>3. ClientHasData'
    BY <1>4, <2>1, BecomeEffect DEF Inv, TypeOK, ClientHasData, HandleTx
  <2> QED
    BY <1>2, <1>3, <2>2, <2>3 DEF Flow
<1>6. CASE UNCHANGED <<connVars, txVars>>
  <2>1. TxCarries'
    BY <1>1, <1>6, TxKept DEF Inv, txVars
  <2>2. ClientHasData'
    BY <1>6 DEF Inv, TypeOK, ClientHasData, HandleTx, connVars
  <2> QED
    BY <1>2, <1>3, <2>1, <2>2 DEF Flow
<1> QED
  BY <1>5, <1>6 DEF HandleTx

(* Sending again moves nothing, giving up makes no client. *)
LEMMA TimeoutFlow ==
  ASSUME Inv, NEW n \in Node, NEW from, NEW to, HandleTimeout(n, from, to)
  PROVE  Flow'
<1>1. UNCHANGED <<appTxVars, appRxVars, transportRxSegment, air, offered,
                  transportTxSegment, transportTxAddress>>
  BY DEF HandleTimeout, Resend, GiveUp, txVars, history
<1>2. BufferWhole' /\ TxCarries' /\ RxCarries' /\ AirCarries'
  BY <1>1, BufferKept, TxKept, RxKept, AirKept DEF Inv, appTxVars
<1>3. DeliveredToAddressee'
  BY <1>1 DEF Inv, DeliveredToAddressee, appTxVars, appRxVars
<1>4. ClientHasData'
  <2>1. CASE UNCHANGED connVars
    BY <1>1, <2>1 DEF Inv, ClientHasData, appTxVars, connVars
  <2>2. CASE Become(n, "IDLE", "NONE")
    BY <1>1, <2>2, BecomeEffect DEF Inv, ClientHasData, appTxVars
  <2> QED
    BY <2>1, <2>2 DEF HandleTimeout, Resend, GiveUp
<1> QED
  BY <1>2, <1>3, <1>4 DEF Flow

(* transport_handle_rx sends no data but the buffer of a client, and makes no client. *)
LEMMA OutcomeCarries ==
  ASSUME Inv, NEW n \in Node, Outcome(n)
  PROVE  /\ UNCHANGED offered
         /\ TxCarries'
         /\ \A m \in Node : transportConnectionType'[m] = "CLIENT"
                              => transportConnectionType[m] = "CLIENT"
<1>0. TypeOK
  BY DEF Inv
<1>1. UNCHANGED offered
  BY DEF Outcome, RxConnect, RxAccept, RxSend, RxBusy, RxAck, RxRefusedData,
     RxRefusedOpen, RxClose, RxIgnore, history
<1>2. TxCarries'
  <2>1. CASE RxAccept(n)
    <3>1. applicationTxData[n] # NoData
      BY <2>1 DEF Inv, ClientHasData, RxAccept, ReceivesAccept, Receives, InState
    <3>2. Emit(n, "SEND", 0, applicationTxData[n])
      BY <2>1 DEF RxAccept
    <3> QED
      BY <1>1, <3>1, <3>2, EmitCarries
  <2>2. CASE RxConnect(n) \/ RxSend(n) \/ RxAck(n) \/ RxRefusedData(n)
    <3>1. \E kind \in Kind, key \in Key :
            kind # "SEND" /\ Emit(n, kind, key, NoData)
      <4>1. {"ACCEPT", "ACK", "CLOSE"} \subseteq Kind
            /\ 0 \in Key /\ applicationTxEncryption[n] \in Key
        BY <1>0 DEF TypeOK, Kind, Key, KEYS
      <4> QED
        BY <2>2, <4>1 DEF RxConnect, RxSend, RxAck, RxRefusedData
    <3> QED
      BY <1>1, <3>1, EmitCarries
  <2>3. CASE UNCHANGED txVars
    BY <1>1, <2>3, TxKept DEF Inv, txVars
  <2> QED
    BY <2>1, <2>2, <2>3 DEF Outcome, RxBusy, RxRefusedOpen, RxClose, RxIgnore
<1>3. ASSUME NEW m \in Node, transportConnectionType'[m] = "CLIENT"
      PROVE  transportConnectionType[m] = "CLIENT"
  <2>1. CASE RxAccept(n)
    BY <1>0, <1>3, <2>1, BecomeEffect DEF RxAccept, ReceivesAccept, Receives, InState
  <2>2. CASE \E state, type : type # "CLIENT" /\ Become(n, state, type)
    BY <1>0, <1>3, <2>2, BecomeEffect
  <2>3. CASE UNCHANGED connVars
    BY <1>3, <2>3 DEF connVars
  <2>4. \/ RxAccept(n)
        \/ UNCHANGED connVars
        \/ Become(n, "CONN_OPEN", "HOST") \/ Become(n, "CONN_DATA", "HOST")
        \/ Become(n, "IDLE", "NONE") \/ Become(n, "CONN_FAIL", "NONE")
    BY DEF Outcome, RxConnect, RxSend, RxBusy, RxAck, RxRefusedData,
       RxRefusedOpen, RxClose, RxIgnore
  <2> QED
    BY <2>1, <2>2, <2>3, <2>4
<1> QED
  BY <1>1, <1>2, <1>3

(* transport_handle_rx delivers what was handed over for this node. *)
LEMMA HandleRxFlow ==
  ASSUME Inv, NEW n \in Node, HandleRx(n)
  PROVE  Flow'
<1>0. TypeOK
  BY DEF Inv
<1>1. Outcome(n)
  BY DEF HandleRx, Outcome
<1>2. /\ UNCHANGED offered
      /\ TxCarries'
      /\ \A m \in Node : transportConnectionType'[m] = "CLIENT"
                           => transportConnectionType[m] = "CLIENT"
  BY <1>1, OutcomeCarries
<1>3. BufferWhole' /\ AirCarries'
  BY <1>2, BufferKept, AirKept DEF Inv, HandleRx
<1>4. ClientHasData'
  <2>1. \A m \in Node : applicationTxFlag'[m] = 1 => applicationTxFlag[m] = 1
    BY <1>0 DEF TypeOK, HandleRx
  <2> QED
    BY <1>2, <2>1 DEF Inv, ClientHasData, HandleRx
<1>5. RxCarries'
  <2>1. /\ transportRxSegment'[n] = NoSegment
        /\ \A m \in Node \ {n} : transportRxSegment'[m] = transportRxSegment[m]
    BY <1>0 DEF TypeOK, HandleRx
  <2> QED
    BY <1>2, <2>1 DEF Inv, RxCarries, Carries
<1>6. DeliveredToAddressee'
  <2>1. UNCHANGED applicationTxPort
    BY DEF HandleRx
  <2>2. CASE RxSend(n)
    <3>1. /\ transportRxSegment[n].data.msg.to = n
          /\ transportRxSegment[n].data.msg.port = applicationTxPort[n]
      BY <2>2, SendIsData DEF RxSend
    <3>2. /\ applicationRxData'[n] = transportRxSegment[n].data
          /\ \A m \in Node \ {n} : applicationRxData'[m] = applicationRxData[m]
      BY <1>0, <2>2 DEF TypeOK, RxSend
    <3> SUFFICES ASSUME NEW m \in Node, applicationRxData'[m] # NoData
                 PROVE  /\ applicationRxData'[m].msg.to = m
                        /\ applicationRxData'[m].msg.port = applicationTxPort'[m]
      BY DEF DeliveredToAddressee
    <3>3. CASE m = n
      BY <2>1, <3>1, <3>2, <3>3
    <3>4. CASE m # n
      BY <2>1, <3>2, <3>4 DEF Inv, DeliveredToAddressee
    <3> QED
      BY <3>3, <3>4
  <2>3. CASE UNCHANGED applicationRxData
    BY <2>1, <2>3 DEF Inv, DeliveredToAddressee
  <2> QED
    BY <1>1, <2>2, <2>3 DEF Outcome, RxConnect, RxAccept, RxBusy, RxAck,
       RxRefusedData, RxRefusedOpen, RxClose, RxIgnore, appRxVars
<1> QED
  BY <1>2, <1>3, <1>4, <1>5, <1>6 DEF Flow

(* A step that leaves both applications' buffers and the client's part.   *)
LEMMA BuffersKept ==
  ASSUME Inv, UNCHANGED <<appTxVars, appRxVars, connVars, offered>>
  PROVE  BufferWhole' /\ ClientHasData' /\ DeliveredToAddressee'
<1>1. BufferWhole'
  BY BufferKept DEF Inv, appTxVars
<1>2. ClientHasData'
  BY DEF Inv, ClientHasData, appTxVars, connVars
<1>3. DeliveredToAddressee'
  BY DEF Inv, DeliveredToAddressee, appTxVars, appRxVars
<1> QED
  BY <1>1, <1>2, <1>3

(* The received segment is one that was under way to this node. *)
LEMMA NetRxFlow ==
  ASSUME Inv, NEW n \in Node, NetRx(n)
  PROVE  Flow'
<1>0. TypeOK
  BY DEF Inv
<1>1. UNCHANGED <<appTxVars, appRxVars, connVars, txVars, offered>>
  BY DEF NetRx, history
<1>2. BufferWhole' /\ ClientHasData' /\ DeliveredToAddressee'
  BY <1>1, BuffersKept
<1>3. TxCarries'
  BY <1>1, TxKept DEF Inv, txVars
<1>4. RxCarries' /\ AirCarries'
  <2>1. CASE UNCHANGED <<transportRxSegment, air>>
    BY <1>1, <2>1, RxKept, AirKept DEF Inv
  <2>2. ASSUME NEW i \in 1 .. Len(air[n]),
               transportRxSegment' = [transportRxSegment EXCEPT ![n] = air[n][i]],
               \/ air' = [air EXCEPT ![n] = RemoveAt(@, i)]
               \/ air' = air
        PROVE  RxCarries' /\ AirCarries'
    <3>1. Carries(n, air[n][i])
      BY DEF Inv, AirCarries
    <3>2. /\ transportRxSegment'[n] = air[n][i]
          /\ \A m \in Node \ {n} : transportRxSegment'[m] = transportRxSegment[m]
      BY <1>0, <2>2 DEF TypeOK
    <3>3. RxCarries'
      BY <1>1, <3>1, <3>2 DEF Inv, RxCarries, Carries
    <3>4. air[n] \in Seq(Segment)
      BY <1>0 DEF TypeOK
    <3>5. \A j \in 1 .. Len(RemoveAt(air[n], i)) :
            Carries(n, RemoveAt(air[n], i)[j])
      BY <3>4, RemoveAtType DEF Inv, AirCarries
    <3>6. CASE air' = [air EXCEPT ![n] = RemoveAt(@, i)]
      <4>1. /\ air'[n] = RemoveAt(air[n], i)
            /\ \A m \in Node \ {n} : air'[m] = air[m]
        BY <1>0, <3>6 DEF TypeOK
      <4>2. \A m \in Node : \A j \in 1 .. Len(air'[m]) : Carries(m, air'[m][j])
        BY <3>5, <4>1 DEF Inv, AirCarries
      <4> QED
        BY <1>1, <3>3, <4>2 DEF AirCarries, Carries
    <3>7. CASE air' = air
      <4>1. offered \subseteq offered' /\ AirCarries
        BY <1>1 DEF Inv
      <4> QED
        BY <3>3, <3>7, <4>1, AirKept
    <3> QED
      BY <2>2, <3>3, <3>6, <3>7
  <2> QED
    BY <2>1, <2>2 DEF NetRx
<1> QED
  BY <1>2, <1>3, <1>4 DEF Flow

(* The segment goes under way to the node it is addressed to. *)
LEMMA NetTxFlow ==
  ASSUME Inv, NEW n \in Node, NetTx(n)
  PROVE  Flow'
<1>0. TypeOK
  BY DEF Inv
<1>1. UNCHANGED <<appTxVars, appRxVars, connVars, transportTxSegment,
                  transportTxAddress, transportRxSegment, offered>>
  BY DEF NetTx, history
<1>2. BufferWhole' /\ ClientHasData' /\ DeliveredToAddressee'
  BY <1>1, BuffersKept
<1>3. TxCarries' /\ RxCarries'
  BY <1>1, TxKept, RxKept DEF Inv
<1>4. AirCarries'
  <2> DEFINE to == transportTxAddress[n]
             seg == transportTxSegment[n]
  <2>1. CASE Unsent(n) /\ to \in Node /\ Len(air[to]) < MaxAir
    <3>1. seg \in Segment
      BY <2>1, UnsentIsSegment
    <3>2. Carries(to, seg)
      BY <3>1, NoDataFacts DEF Inv, TxCarries
    <3>3. air[to] \in Seq(Segment)
      BY <1>0, <2>1 DEF TypeOK
    <3>4. air' = [air EXCEPT ![to] = Append(@, seg)]
      BY <2>1 DEF NetTx
    <3> HIDE DEF to, seg
    <3>5. /\ air'[to] = Append(air[to], seg)
          /\ \A m \in Node \ {to} : air'[m] = air[m]
      BY <1>0, <2>1, <3>4 DEF TypeOK
    <3>6. \A j \in 1 .. Len(air'[to]) :
            \/ air'[to][j] = seg
            \/ j \in 1 .. Len(air[to]) /\ air'[to][j] = air[to][j]
      BY <3>1, <3>3, <3>5, AppendProperties
    <3>7. \A m \in Node : \A j \in 1 .. Len(air'[m]) : Carries(m, air'[m][j])
      BY <3>2, <3>5, <3>6, <2>1 DEF Inv, AirCarries
    <3> QED
      BY <1>1, <3>7 DEF AirCarries, Carries
  <2>2. CASE ~(Unsent(n) /\ to \in Node /\ Len(air[to]) < MaxAir)
    <3>1. air' = air
      BY <2>2 DEF NetTx
    <3> QED
      BY <1>1, <3>1, AirKept DEF Inv
  <2> QED
    BY <2>1, <2>2
<1> QED
  BY <1>2, <1>3, <1>4 DEF Flow

(* The medium makes no sound segment with data. *)
LEMMA MediumFlow ==
  ASSUME Inv, Medium
  PROVE  Flow'
<1>0. TypeOK
  BY DEF Inv
<1>1. UNCHANGED <<appTxVars, appRxVars, connVars, txVars,
                  transportRxSegment, offered>>
  BY DEF Medium, history
<1>2. BufferWhole' /\ ClientHasData' /\ DeliveredToAddressee'
  BY <1>1, BuffersKept
<1>3. TxCarries' /\ RxCarries'
  BY <1>1, TxKept, RxKept DEF Inv, txVars
<1>4. PICK n \in Node : \E i \in 1 .. Len(air[n]) :
        Lose(n, i) \/ Corrupt(n, i) \/ Refuse(n, i)
  BY DEF Medium
<1>5. PICK i \in 1 .. Len(air[n]) : Lose(n, i) \/ Corrupt(n, i) \/ Refuse(n, i)
  BY <1>4
<1>6. air[n] \in Seq(Segment) /\ air[n][i] \in Segment
  BY <1>0, LenProperties DEF TypeOK
<1>7. \A j \in 1 .. Len(RemoveAt(air[n], i)) : Carries(n, RemoveAt(air[n], i)[j])
  <2>1. \A k \in 1 .. Len(air[n]) : Carries(n, air[n][k])
    BY DEF Inv, AirCarries
  <2>2. \A j \in 1 .. Len(RemoveAt(air[n], i)) :
          \E k \in 1 .. Len(air[n]) : RemoveAt(air[n], i)[j] = air[n][k]
    BY <1>6, RemoveAtType
  <2> QED
    BY <2>1, <2>2
<1>8. \A m \in Node : \A j \in 1 .. Len(air'[m]) : Carries(m, air'[m][j])
  <2>1. CASE Lose(n, i)
    <3>1. /\ air'[n] = RemoveAt(air[n], i)
          /\ \A m \in Node \ {n} : air'[m] = air[m]
      BY <1>0, <2>1 DEF TypeOK, Lose
    <3> QED
      BY <1>7, <3>1 DEF Inv, AirCarries
  <2>2. CASE Corrupt(n, i)
    <3>1. air' = [air EXCEPT ![n] = [air[n] EXCEPT ![i] = Damaged(air[n][i])]]
      BY <1>0, <2>2 DEF TypeOK, Corrupt
    <3>2. ~Damaged(air[n][i]).sound
      BY <1>6 DEF Damaged, Segment
    <3>3. /\ air'[n] = [air[n] EXCEPT ![i] = Damaged(air[n][i])]
          /\ \A m \in Node \ {n} : air'[m] = air[m]
      BY <1>0, <3>1 DEF TypeOK
    <3>4. Len(air'[n]) = Len(air[n])
      BY <1>6, <3>3
    <3>5. \A j \in 1 .. Len(air[n]) :
            air'[n][j] = IF j = i THEN Damaged(air[n][i]) ELSE air[n][j]
      BY <1>6, <3>3
    <3>6. \A j \in 1 .. Len(air'[n]) : Carries(n, air'[n][j])
      BY <3>2, <3>4, <3>5 DEF Inv, AirCarries, Carries
    <3> QED
      BY <3>3, <3>6 DEF Inv, AirCarries
  <2>3. CASE Refuse(n, i)
    <3> DEFINE from == air[n][i].from
               answer == Nack(n, air[n][i].port)
    <3>1. from \in Node /\ air[n][i].port \in Port \cup {NoPort}
      BY <1>6 DEF Segment
    <3>2. answer \in Segment /\ answer.kind = "NACK"
      BY <3>1 DEF Nack, Segment, Kind, Key, KEYS
    <3>3. from # n /\ air' = [air EXCEPT ![n] = RemoveAt(@, i),
                                          ![from] = Append(@, answer)]
      BY <2>3 DEF Refuse
    <3> HIDE DEF from, answer
    <3>4. /\ air'[n] = RemoveAt(air[n], i)
          /\ air'[from] = Append(air[from], answer)
          /\ \A m \in Node \ {n, from} : air'[m] = air[m]
      BY <1>0, <3>1, <3>3 DEF TypeOK
    <3>5. air[from] \in Seq(Segment)
      BY <1>0, <3>1 DEF TypeOK
    <3>6. \A j \in 1 .. Len(air'[from]) :
            \/ air'[from][j] = answer
            \/ j \in 1 .. Len(air[from]) /\ air'[from][j] = air[from][j]
      BY <3>2, <3>4, <3>5, AppendProperties
    <3>7. Carries(from, answer)
      BY <3>2 DEF Carries
    <3>8. \A j \in 1 .. Len(air'[from]) : Carries(from, air'[from][j])
      BY <3>1, <3>6, <3>7 DEF Inv, AirCarries
    <3> QED
      BY <1>7, <3>4, <3>8 DEF Inv, AirCarries
  <2> QED
    BY <1>5, <2>1, <2>2, <2>3
<1>9. AirCarries'
  BY <1>1, <1>8 DEF AirCarries, Carries
<1> QED
  BY <1>2, <1>3, <1>9 DEF Flow

(* Every step keeps the messages whole. *)
LEMMA NextFlow ==
  ASSUME Inv, [Next]_vars
  PROVE  Flow'
<1>1. CASE UNCHANGED <<appTxVars, appRxVars, connVars, txVars,
                       transportRxSegment, air, offered>>
  <2>1. offered \subseteq offered'
    BY <1>1
  <2>2. BufferWhole' /\ ClientHasData' /\ DeliveredToAddressee'
    BY <1>1, BuffersKept
  <2>3. TxCarries' /\ RxCarries' /\ AirCarries'
    BY <1>1, <2>1, TxKept, RxKept, AirKept DEF Inv, txVars
  <2> QED
    BY <2>2, <2>3 DEF Flow
<1>2. CASE Medium
  BY <1>2, MediumFlow
<1>3. ASSUME NEW n \in Node, Loop(n)
      PROVE  Flow'
  <2>1. CASE SkipTx(n) \/ SkipRx(n)
    BY <1>1, <2>1 DEF SkipTx, SkipRx, history
  <2> QED
    BY <1>3, <2>1, AppFlow, HandleTxFlow, TimeoutFlow, HandleRxFlow, NetRxFlow,
       NetTxFlow DEF Loop
<1>4. ASSUME NEW n \in Node, Tick(n)
      PROVE  Flow'
  BY <1>1, <1>4 DEF Tick, history
<1>5. CASE UNCHANGED vars
  BY <1>1, <1>5 DEF vars, history
<1> QED
  BY <1>2, <1>3, <1>4, <1>5 DEF Next

-----------------------------------------------------------------------------
(* The theorems *)

(* The invariant holds when the nodes have been initialised. *)
LEMMA InitInv ==
  ASSUME Init
  PROVE  Inv
<1>1. TypeOK
  <2>1. NoData \in Payload \cup {NoData} /\ 0 \in Key /\ <<>> \in Seq(Segment)
    BY DEF Key, KEYS
  <2> QED
    BY <2>1, TimerAssumption, BoundAssumption
       DEF Init, TypeOK, Turn, ConnectionState, ConnectionType
<1>2. ResendMatchesRole
  BY DEF Init, ResendMatchesRole, Unsent
<1>3. BufferWhole /\ ClientHasData /\ DeliveredToAddressee
  BY DEF Init, BufferWhole, ClientHasData, DeliveredToAddressee
<1>4. TxCarries /\ RxCarries
  BY DEF Init, TxCarries, RxCarries
<1>5. AirCarries
  <2>1. \A n \in Node : Len(air[n]) = 0
    BY DEF Init
  <2> QED
    BY <2>1 DEF AirCarries
<1>6. LoopHandover
  BY DEF Init, LoopHandover, Unsent
<1> QED
  BY <1>1, <1>2, <1>3, <1>4, <1>5, <1>6 DEF Inv

(* The invariant is inductive. *)
LEMMA NextInv ==
  ASSUME Inv, [Next]_vars
  PROVE  Inv'
BY NextType, NextRole, NextHandover, NextFlow DEF Inv, Flow

(* Whatever the medium does, every reachable state of any number of nodes  *)
(* satisfies the inductive invariant.                                      *)
THEOREM Invariance == Spec => []Inv
BY InitInv, NextInv, PTL DEF Spec

(* The transport state, its buffers and the segments under way keep their  *)
(* types: no retry counter of transport.c:89 leaves its range.             *)
THEOREM TypeCorrect == Spec => []TypeOK
<1>1. Inv => TypeOK
  BY DEF Inv
<1> QED
  BY <1>1, Invariance, PTL

(* transport_handle_timeout never sends again a segment of another state   *)
(* or role than the node's own (transport.c:79).                           *)
THEOREM ResendIsOfRole == Spec => []ResendMatchesRole
<1>1. Inv => ResendMatchesRole
  BY DEF Inv
<1> QED
  BY <1>1, Invariance, PTL

(* The order of calls in main's loop (main.c:139) protects every single-   *)
(* slot buffer between the layers.                                         *)
THEOREM HandoverIsSafe == Spec => []LoopHandover
<1>1. Inv => LoopHandover
  BY DEF Inv
<1> QED
  BY <1>1, Invariance, PTL

(* Data are delivered to the node and the port they were meant for only.   *)
THEOREM DeliveryIsRight == Spec => []DeliveredToAddressee
<1>1. Inv => DeliveredToAddressee
  BY DEF Inv
<1> QED
  BY <1>1, Invariance, PTL

(* A step writes the segment buffer only when it flags it anew. *)
LEMMA UnsentStaysStep ==
  ASSUME Inv, [Next]_vars, NEW m \in Node, Unsent(m), Unsent(m)'
  PROVE  UNCHANGED <<transportTxSegment[m], transportTxAddress[m]>>
<1>0. TypeOK
  BY DEF Inv
<1>1. CASE UNCHANGED <<transportTxSegment, transportTxAddress>>
  BY <1>1
<1>2. ASSUME NEW n \in Node, NEW kind, NEW key, NEW data, ~Unsent(n),
             Emit(n, kind, key, data)
      PROVE  UNCHANGED <<transportTxSegment[m], transportTxAddress[m]>>
  <2>1. m # n
    BY <1>2
  <2> QED
    BY <1>0, <1>2, <2>1 DEF TypeOK, Emit
<1>3. ASSUME NEW n \in Node, Loop(n)
      PROVE  UNCHANGED <<transportTxSegment[m], transportTxAddress[m]>>
  <2>1. \/ UNCHANGED <<transportTxSegment, transportTxAddress>>
        \/ ~Unsent(n) /\ \E kind, key, data : Emit(n, kind, key, data)
    <3>1. CASE HandleTx(n)
      BY <3>1 DEF HandleTx, CanConnect, transport_poll_tx, Unsent, txVars
    <3>2. CASE HandleRx(n)
      BY <3>2 DEF HandleRx, RxConnect, RxAccept, RxSend, RxBusy, RxAck,
         RxRefusedData, RxRefusedOpen, RxClose, RxIgnore, txVars
    <3>3. CASE ~HandleTx(n) /\ ~HandleRx(n)
      BY <1>3, <3>3 DEF Loop, App, SkipTx, SkipRx, HandleTimeout, Resend, GiveUp,
         NetRx, NetTx, txVars
    <3> QED
      BY <3>1, <3>2, <3>3
  <2> QED
    BY <1>1, <1>2, <2>1
<1> QED
  BY <1>1, <1>3 DEF Next, Medium, Tick, vars, txVars

(* What waits for the network layer is not rewritten under it: the guards  *)
(* transportTxFlag == 0 of transport.c:57, 133, 157, 183, 208 and 228.     *)
THEOREM UnsentIsStable == Spec => UnsentStays
<1>1. Inv /\ [Next]_vars =>
        [\A n \in Node : Unsent(n) /\ Unsent(n)' =>
           UNCHANGED <<transportTxSegment[n], transportTxAddress[n]>>]_vars
  BY UnsentStaysStep
<1> QED
  BY <1>1, Invariance, PTL DEF Spec, UnsentStays

(* What a step adds to the histories of the service. *)
LEMMA ServiceStep ==
  ASSUME Inv, [Next]_vars
  PROVE  [Service!Next]_<<offered, delivered>>
<1>0. TypeOK
  BY DEF Inv
<1>1. CASE UNCHANGED <<offered, delivered>>
  BY <1>1
<1>2. ASSUME NEW n \in Node, Loop(n)
      PROVE  [Service!Next]_<<offered, delivered>>
  <2>1. CASE App(n)
    <3>1. delivered' = delivered
      BY <2>1 DEF App
    <3>2. ASSUME NEW to \in Node \ {n}, NEW port \in Port,
                 application_handle_tx(n, to, port)
          PROVE  [Service!Next]_<<offered, delivered>>
      <4>1. \/ UNCHANGED <<offered, appTxVars>>
            \/ \E data \in Payload, key \in Key :
                 HandsOver(n, to, port, data, key)
        BY <1>0, <3>2, HandOverEffect
      <4>2. UNCHANGED offered
            \/ \E m \in Message : offered' = offered \cup {m}
        BY <4>1 DEF HandsOver
      <4> QED
        BY <3>1, <4>2 DEF Service!Next, Service!Offer
    <3> QED
      BY <2>1, <3>1, <3>2, <1>1 DEF App
  <2>2. CASE HandleRx(n) /\ RxSend(n)
    <3>1. /\ transportRxSegment[n].data.msg \in offered
          /\ transportRxSegment[n].data.msg.to = n
      BY <2>2, SendIsData DEF RxSend
    <3>2. /\ delivered' = [delivered EXCEPT ![n] =
                             @ \cup {transportRxSegment[n].data.msg}]
          /\ offered' = offered
      BY <2>2 DEF RxSend
    <3> QED
      BY <3>1, <3>2 DEF Service!Next, Service!Deliver
  <2>3. CASE ~App(n) /\ ~(HandleRx(n) /\ RxSend(n))
    BY <1>1, <1>2, <2>3 DEF Loop, HandleTx, SkipTx, HandleTimeout, HandleRx,
       SkipRx, NetRx, NetTx, RxConnect, RxAccept, RxBusy, RxAck, RxRefusedData,
       RxRefusedOpen, RxClose, RxIgnore, history
  <2> QED
    BY <2>1, <2>2, <2>3
<1> QED
  BY <1>1, <1>2 DEF Next, Medium, Tick, vars, history

(* The transport layers and their medium implement the datagram service:   *)
(* no data are made up, and none reach a node they were not meant for.     *)
THEOREM Refinement == Spec => IsDatagramService
<1>1. Init => Service!Init
  BY DEF Init, Service!Init
<1>2. Inv /\ [Next]_vars => [Service!Next]_<<offered, delivered>>
  BY ServiceStep
<1> QED
  BY <1>1, <1>2, Invariance, PTL
     DEF Spec, IsDatagramService, Service!Spec

=============================================================================
