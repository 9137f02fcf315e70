------------------------------ MODULE Transport ------------------------------
(***************************************************************************)
(* The transport layer (src/transport.c) of every node of the network, with *)
(* the application buffers it serves (src/application.c), run by each       *)
(* node's main loop (main.c).  The layers below are one unreliable medium,  *)
(* `air': it may lose, duplicate, delay, reorder or damage what is sent.    *)
(*                                                                         *)
(* Names are those of the C source.  A flag and the buffer it guards are    *)
(* one variable where the code never reads the buffer while the flag is     *)
(* clear (the two receive buffers): the empty value stands for flag 0.      *)
(***************************************************************************)
EXTENDS Integers, SequencesExt

CONSTANTS
  Node,           \* the addresses of the nodes
  NoNode,         \* address 0: the address before any use, no node's own
  Port,           \* the application ports
  NoPort,         \* port 0: the port before any use
  TRANS_TIMEOUT,  \* timer ticks before a segment is sent again
  TRANS_RESEND,   \* how often a segment is sent again
  MaxMsgs,        \* bound: messages one application hands over
  MaxAir,         \* bound: segments under way to one node; more are lost
  Prompt,         \* TRUE: no tick while a segment is under way (see Tick)
  Faults          \* what the medium may do: "lose", "duplicate", "reorder",
                  \* "corrupt", "nack" (a peer refuses: no code sends NACK)

KEYS == 16        \* entries of applicationEncryption

ASSUME NodeAssumption == NoNode \notin Node /\ NoPort \notin Port
ASSUME TimerAssumption == TRANS_TIMEOUT \in Nat \ {0} /\ TRANS_RESEND \in Nat
ASSUME BoundAssumption ==
  /\ MaxMsgs \in Nat
  /\ Prompt \in BOOLEAN
  /\ MaxAir \in Nat \ {0}
  /\ Faults \subseteq {"lose", "duplicate", "reorder", "corrupt", "nack"}

VARIABLES
  pc,                        \* where each node's main loop is
  applicationTxFlag,
  applicationTxData,         \* the encrypted message
  applicationTxPort,
  applicationTxAddress,
  applicationTxEncryption,   \* index of the key used last
  applicationRxData,         \* NoData: applicationRxFlag is 0
  applicationRxEncryption,
  transportConnectionState,
  transportConnectionType,
  transportTxFlag,
  transportTxSegment,
  transportTxAddress,
  transportTxRetry,
  transportRxSegment,        \* NoSegment: transportRxFlag is 0
  transport_timer,
  air,                       \* to each node: the segments under way, in order
  handed,                    \* history: how many messages each handed over
  offered,                   \* history: those messages
  delivered,                 \* history: messages given to each application
  acked                      \* history: messages a client saw acknowledged

appTxVars == <<applicationTxFlag, applicationTxData, applicationTxPort,
               applicationTxAddress, applicationTxEncryption>>
appRxVars == <<applicationRxData, applicationRxEncryption>>
connVars  == <<transportConnectionState, transportConnectionType>>
txVars    == <<transportTxFlag, transportTxSegment, transportTxAddress,
               transportTxRetry>>
history   == <<offered, delivered, acked>>
vars == <<pc, appTxVars, appRxVars, connVars, txVars,
          transportRxSegment, transport_timer, air, handed, history>>

-----------------------------------------------------------------------------
(* Data *)

Kind == {"CONNECT", "ACCEPT", "SEND", "ACK", "NACK", "CLOSE"}
ConnectionState == {"IDLE", "CONN_OPEN", "CONN_DATA", "CONN_FAIL"}
ConnectionType == {"NONE", "HOST", "CLIENT"}
Turn == {"app", "tx", "poll", "rx", "timeout", "netrx", "nettx"}
Key == 0 .. KEYS - 1

Message == [from: Node, to: Node, port: Port, no: 1 .. MaxMsgs]

(* A buffer's bytes: a message XORed with the keys in `pad'. *)
Payload == [msg: Message, pad: SUBSET Key]
NoMessage == [from |-> NoNode, to |-> NoNode, port |-> NoPort, no |-> 0]
NoData == [msg |-> NoMessage, pad |-> {}]

Segment == [kind: Kind, port: Port \cup {NoPort}, key: Key,
            data: Payload \cup {NoData}, sound: BOOLEAN, from: Node]
NoSegment == [kind |-> "none"]

(* XOR with a key's bytes: applying the same key twice restores the data. *)
encrypt_data(data, key) ==
  [data EXCEPT !.pad = (@ \cup {key}) \ (@ \cap {key})]

decrypt_data(data, key) == encrypt_data(data, key)

-----------------------------------------------------------------------------
(* The timer, its interrupt and the medium *)

timer_reset(n) ==
  transport_timer' = [transport_timer EXCEPT ![n] = TRANS_TIMEOUT]

transport_timeout(n) == transport_timer[n] = 0

(* Nothing under way between any two transport layers. *)
Quiet ==
  \A n \in Node :
    air[n] = <<>> /\ transportTxFlag[n] = 0 /\ transportRxSegment[n] = NoSegment

(* transport_timer_update in the 1 ms interrupt, one or more times, at any  *)
(* point of the loop.  The 16-bit timer is read in two bytes: an interrupt *)
(* between them can make 255 read as 0, which jumping to 0 stands for.     *)
Tick(n) ==
  /\ transport_timer[n] > 0
  /\ Prompt => Quiet
  /\ \E left \in 0 .. transport_timer[n] - 1 :
       transport_timer' = [transport_timer EXCEPT ![n] = left]
  /\ UNCHANGED <<pc, appTxVars, appRxVars, connVars, txVars,
                 transportRxSegment, air, handed, history>>

Damaged(seg) == [seg EXCEPT !.sound = FALSE, !.data = NoData]

Nack(m, port) == [kind |-> "NACK", port |-> port, key |-> 0, data |-> NoData,
                  sound |-> TRUE, from |-> m]

(* Frames collide, CRCs fail, a full buffer drops: a segment disappears. *)
Lose(n, i) ==
  /\ "lose" \in Faults
  /\ air' = [air EXCEPT ![n] = RemoveAt(@, i)]

(* The data link's check lets one wrong checksum byte pass: what arrives is *)
(* not what was sent, which transport_crc then finds.                       *)
Corrupt(n, i) ==
  /\ "corrupt" \in Faults
  /\ air' = [air EXCEPT ![n][i] = Damaged(@)]

(* A peer of another make takes a CONNECT or SEND and answers NACK.        *)
Refuse(m, i) ==
  LET seg == air[m][i]
  IN /\ "nack" \in Faults
     /\ seg.kind \in {"CONNECT", "SEND"}
     /\ seg.from # m
     /\ Len(air[seg.from]) < MaxAir
     /\ air' = [air EXCEPT ![m] = RemoveAt(@, i),
                           ![seg.from] = Append(@, Nack(m, seg.port))]

Medium ==
  /\ \E n \in Node : \E i \in 1 .. Len(air[n]) :
       Lose(n, i) \/ Corrupt(n, i) \/ Refuse(n, i)
  /\ UNCHANGED <<pc, appTxVars, appRxVars, connVars, txVars,
                 transportRxSegment, transport_timer, handed, history>>

-----------------------------------------------------------------------------
(* The application: once per loop, hand over a message or not, then read. *)

Goto(n, from, to) == pc[n] = from /\ pc' = [pc EXCEPT ![n] = to]

(* application_handle_tx; a set flag refuses the message. *)
application_handle_tx(n, to, port) ==
  LET msg == [from |-> n, to |-> to, port |-> port, no |-> handed[n] + 1]
      key == (applicationTxEncryption[n] + 1) % KEYS
      data == encrypt_data([msg |-> msg, pad |-> {}], key)
  IN /\ handed[n] < MaxMsgs
     /\ handed' = [handed EXCEPT ![n] = @ + 1]
     /\ IF applicationTxFlag[n] = 0
          THEN /\ offered' = offered \cup {msg}
               /\ applicationTxData' = [applicationTxData EXCEPT ![n] = data]
               /\ applicationTxPort' = [applicationTxPort EXCEPT ![n] = port]
               /\ applicationTxAddress' = [applicationTxAddress EXCEPT ![n] = to]
               /\ applicationTxFlag' = [applicationTxFlag EXCEPT ![n] = 1]
               /\ applicationTxEncryption' =
                    [applicationTxEncryption EXCEPT ![n] = key]
          ELSE UNCHANGED <<offered, appTxVars>>

(* What application_handle_rx gives the user: decrypted with its own index. *)
ReadData(n) == decrypt_data(applicationRxData[n], applicationRxEncryption[n])

(* Mutant: the flag is not cleared. *)
KeepRxFlag(n) == UNCHANGED applicationRxData

(* application_handle_rx copies ReadData out and clears the flag.           *)
application_handle_rx(n) ==
  applicationRxData' = [applicationRxData EXCEPT ![n] = NoData]

App(n) ==
  /\ Goto(n, "app", "tx")
  /\ \/ \E to \in Node \ {n}, port \in Port : application_handle_tx(n, to, port)
     \/ UNCHANGED <<appTxVars, handed, offered>>
  /\ application_handle_rx(n)
  /\ UNCHANGED <<applicationRxEncryption, connVars, txVars, transportRxSegment,
                 transport_timer, air,
                 delivered, acked>>

-----------------------------------------------------------------------------
(* Sending: the connection, its segments and the retries *)

InState(n, state, type) ==
  transportConnectionState[n] = state /\ transportConnectionType[n] = type

Become(n, state, type) ==
  /\ transportConnectionState' = [transportConnectionState EXCEPT ![n] = state]
  /\ transportConnectionType' = [transportConnectionType EXCEPT ![n] = type]

(* Build a segment in transportTxSegment and flag it for the network layer. *)
Emit(n, kind, key, data) ==
  /\ transportTxFlag' = [transportTxFlag EXCEPT ![n] = 1]
  /\ transportTxSegment' = [transportTxSegment EXCEPT ![n] =
       [kind |-> kind, port |-> applicationTxPort[n], key |-> key,
        data |-> data, sound |-> TRUE, from |-> n]]
  /\ transportTxAddress' =
       [transportTxAddress EXCEPT ![n] = applicationTxAddress[n]]

FullRetry(n) == transportTxRetry' = [transportTxRetry EXCEPT ![n] = TRANS_RESEND]

transport_poll_tx(n) == transportTxFlag[n] = 0 /\ applicationTxFlag[n] = 1

(* The connection can be requested: the condition of transport_handle_tx. *)
CanConnect(n) == transport_poll_tx(n) /\ InState(n, "IDLE", "NONE")

HandleTx(n) ==
  /\ Goto(n, "tx", "poll")
  /\ transport_poll_tx(n)
  /\ \/ /\ CanConnect(n)
        /\ Become(n, "CONN_OPEN", "CLIENT")
        /\ Emit(n, "CONNECT", 0, NoData)
        /\ FullRetry(n)
     \/ ~CanConnect(n) /\ UNCHANGED <<connVars, txVars>>
  /\ applicationTxFlag' = [applicationTxFlag EXCEPT ![n] = 0]
  /\ timer_reset(n)
  /\ UNCHANGED <<applicationTxData, applicationTxPort, applicationTxAddress,
                 applicationTxEncryption, appRxVars,
                 transportRxSegment, air, handed, history>>

SkipTx(n) ==
  /\ Goto(n, "tx", "poll")
  /\ ~transport_poll_tx(n)
  /\ UNCHANGED <<appTxVars, appRxVars, connVars, txVars,
                 transportRxSegment, transport_timer, air, handed, history>>

Expired(n) == transport_timeout(n) /\ transportConnectionState[n] # "IDLE"

(* Mutant: the retries are not counted. *)
ResendForever(n) ==
  /\ Expired(n)
  /\ transportTxRetry[n] > 0
  /\ transportTxFlag' = [transportTxFlag EXCEPT ![n] = 1]
  /\ timer_reset(n)
  /\ UNCHANGED <<connVars, transportTxSegment, transportTxAddress,
                 transportTxRetry>>

(* Mutant: the retries are not tested. *)
ResendUnbounded(n) ==
  /\ Expired(n)
  /\ transportTxFlag' = [transportTxFlag EXCEPT ![n] = 1]
  /\ transportTxRetry' = [transportTxRetry EXCEPT ![n] = @ - 1]
  /\ timer_reset(n)
  /\ UNCHANGED <<connVars, transportTxSegment, transportTxAddress>>

Resend(n) ==
  /\ Expired(n)
  /\ transportTxRetry[n] > 0
  /\ transportTxFlag' = [transportTxFlag EXCEPT ![n] = 1]
  /\ transportTxRetry' = [transportTxRetry EXCEPT ![n] = @ - 1]
  /\ timer_reset(n)
  /\ UNCHANGED <<connVars, transportTxSegment, transportTxAddress>>

GiveUp(n) ==
  /\ Expired(n)
  /\ transportTxRetry[n] = 0
  /\ Become(n, "IDLE", "NONE")
  /\ transportTxFlag' = [transportTxFlag EXCEPT ![n] = 0]
  /\ UNCHANGED <<transportTxSegment, transportTxAddress, transportTxRetry,
                 transport_timer>>

(* Called by transport_poll_rx, and once more by the loop itself. *)
HandleTimeout(n, from, to) ==
  /\ Goto(n, from, to)
  /\ \/ Resend(n)
     \/ GiveUp(n)
     \/ ~Expired(n) /\ UNCHANGED <<connVars, txVars, transport_timer>>
  /\ UNCHANGED <<appTxVars, appRxVars, transportRxSegment, air,
                 handed, history>>

-----------------------------------------------------------------------------
(* transport_handle_rx: one action per outcome *)

(* transport_poll_rx, after the timeout it handles first. *)
transport_poll_rx(n) ==
  transportRxSegment[n] # NoSegment /\ applicationRxData[n] = NoData

(* Mutant: without the port filter. *)
AcceptsAnyPort(n) == transportRxSegment[n].sound

(* The three filters: network id and checksum (`sound'), and the port. *)
Accepts(n) ==
  LET seg == transportRxSegment[n]
  IN /\ seg.sound
     /\ transportConnectionState[n] # "IDLE" => seg.port = applicationTxPort[n]

Receives(n, state, type, kind) ==
  /\ transport_poll_rx(n)
  /\ Accepts(n)
  /\ InState(n, state, type)
  /\ transportRxSegment[n].kind = kind

ReceivesConnect(n) == Receives(n, "IDLE", "NONE", "CONNECT")
ReceivesAccept(n) == Receives(n, "CONN_OPEN", "CLIENT", "ACCEPT")

(* Mutant: whatever a host with an open connection gets is taken for data. *)
ReceivesAnyAsSend(n) ==
  \E kind \in Kind : Receives(n, "CONN_OPEN", "HOST", kind)

(* Mutant: a host takes SEND again after it has acknowledged one. *)
ReceivesSendAgain(n) ==
  \E state \in {"CONN_OPEN", "CONN_DATA"} : Receives(n, state, "HOST", "SEND")

ReceivesSend(n) == Receives(n, "CONN_OPEN", "HOST", "SEND")

(* Mutant: a client takes an ACK before it has sent its data. *)
ReceivesAckEarly(n) ==
  \E state \in {"CONN_OPEN", "CONN_DATA"} : Receives(n, state, "CLIENT", "ACK")

ReceivesAck(n) == Receives(n, "CONN_DATA", "CLIENT", "ACK")
RefusedOpen(n) == Receives(n, "CONN_OPEN", "CLIENT", "NACK")
RefusedData(n) == Receives(n, "CONN_DATA", "CLIENT", "NACK")
ReceivesClose(n) == Receives(n, "CONN_DATA", "HOST", "CLOSE")

Unsent(n) == transportTxFlag[n] = 1

RxConnect(n) ==
  /\ ReceivesConnect(n)
  /\ ~Unsent(n)
  /\ Become(n, "CONN_OPEN", "HOST")
  /\ Emit(n, "ACCEPT", applicationTxEncryption[n], NoData)
  /\ FullRetry(n)
  /\ timer_reset(n)
  /\ UNCHANGED <<appRxVars, history>>

RxAccept(n) ==
  /\ ReceivesAccept(n)
  /\ ~Unsent(n)
  /\ Become(n, "CONN_DATA", "CLIENT")
  /\ applicationRxEncryption' =
       [applicationRxEncryption EXCEPT ![n] = transportRxSegment[n].key]
  /\ Emit(n, "SEND", 0, applicationTxData[n])
  /\ FullRetry(n)
  /\ timer_reset(n)
  /\ UNCHANGED <<applicationRxData, history>>

(* Mutant: without the test of transportTxFlag. *)
RxSendUnguarded(n) ==
  /\ ReceivesSend(n)
  /\ Become(n, "CONN_DATA", "HOST")
  /\ applicationRxData' =
       [applicationRxData EXCEPT ![n] = transportRxSegment[n].data]
  /\ Emit(n, "ACK", 0, NoData)
  /\ FullRetry(n)
  /\ timer_reset(n)
  /\ delivered' = [delivered EXCEPT ![n] =
                     @ \cup {transportRxSegment[n].data.msg}]
  /\ UNCHANGED <<applicationRxEncryption, offered, acked>>

RxSend(n) ==
  /\ ReceivesSend(n)
  /\ ~Unsent(n)
  /\ Become(n, "CONN_DATA", "HOST")
  /\ applicationRxData' =
       [applicationRxData EXCEPT ![n] = transportRxSegment[n].data]
  /\ Emit(n, "ACK", 0, NoData)
  /\ FullRetry(n)
  /\ timer_reset(n)
  /\ delivered' = [delivered EXCEPT ![n] =
                     @ \cup {transportRxSegment[n].data.msg}]
  /\ UNCHANGED <<applicationRxEncryption, offered, acked>>

(* Mutant: the state changes although nothing can be answered yet. *)
RxBusyAdvances(n) ==
  /\ ReceivesSend(n)
  /\ Unsent(n)
  /\ Become(n, "CONN_DATA", "HOST")
  /\ timer_reset(n)
  /\ UNCHANGED <<appRxVars, txVars, history>>

(* A segment is still unsent: the answer waits, the timer starts afresh. *)
RxBusy(n) ==
  /\ ReceivesConnect(n) \/ ReceivesAccept(n) \/ ReceivesSend(n)
  /\ Unsent(n)
  /\ timer_reset(n)
  /\ UNCHANGED <<appRxVars, connVars, txVars, history>>

RxAck(n) ==
  /\ ReceivesAck(n)
  /\ ~Unsent(n)
  /\ Become(n, "IDLE", "NONE")
  /\ Emit(n, "CLOSE", 0, NoData)
  /\ FullRetry(n)
  /\ acked' = acked \cup {transportTxSegment[n].data.msg}
  /\ UNCHANGED <<appRxVars, transport_timer, offered, delivered>>

(* CLOSE after a refusal keeps the retries the SEND had left. *)
RxRefusedData(n) ==
  /\ RefusedData(n)
  /\ ~Unsent(n)
  /\ Become(n, "IDLE", "NONE")
  /\ Emit(n, "CLOSE", 0, NoData)
  /\ UNCHANGED <<transportTxRetry, appRxVars, transport_timer, history>>

RxRefusedOpen(n) ==
  /\ RefusedOpen(n)
  /\ Become(n, "CONN_FAIL", "NONE")
  /\ UNCHANGED <<txVars, appRxVars, transport_timer, history>>

RxClose(n) ==
  /\ ReceivesClose(n)
  /\ Become(n, "IDLE", "NONE")
  /\ UNCHANGED <<txVars, appRxVars, transport_timer, history>>

(* Filtered, or of no meaning in this state: consumed without effect. *)
RxIgnore(n) ==
  /\ transport_poll_rx(n)
  /\ ~(ReceivesConnect(n) \/ ReceivesAccept(n) \/ ReceivesSend(n)
        \/ RefusedOpen(n) \/ ReceivesClose(n))
  /\ (ReceivesAck(n) \/ RefusedData(n)) => Unsent(n)
  /\ UNCHANGED <<appRxVars, connVars, txVars, transport_timer, history>>

(* ACK clears applicationTxFlag, which the loop has cleared already. *)
HandleRx(n) ==
  /\ Goto(n, "rx", "timeout")
  /\ \/ RxConnect(n)
     \/ RxAccept(n)
     \/ RxSend(n)
     \/ RxBusy(n)
     \/ RxAck(n)
     \/ RxRefusedData(n)
     \/ RxRefusedOpen(n)
     \/ RxClose(n)
     \/ RxIgnore(n)
  /\ transportRxSegment' = [transportRxSegment EXCEPT ![n] = NoSegment]
  /\ applicationTxFlag' = IF ReceivesAck(n) /\ ~Unsent(n)
                            THEN [applicationTxFlag EXCEPT ![n] = 0]
                            ELSE applicationTxFlag
  /\ UNCHANGED <<applicationTxData, applicationTxPort, applicationTxAddress,
                 applicationTxEncryption, air, handed>>

SkipRx(n) ==
  /\ Goto(n, "rx", "timeout")
  /\ ~transport_poll_rx(n)
  /\ UNCHANGED <<appTxVars, appRxVars, connVars, txVars,
                 transportRxSegment, transport_timer, air, handed, history>>

-----------------------------------------------------------------------------
(* The network layer's two ends *)

(* net_handle_data for a packet addressed to this node: the slot is         *)
(* overwritten whether or not transport has taken the segment before.       *)
NetRx(n) ==
  /\ Goto(n, "netrx", "nettx")
  /\ \/ \E i \in 1 .. Len(air[n]) :
          /\ i = 1 \/ "reorder" \in Faults
          /\ transportRxSegment' = [transportRxSegment EXCEPT ![n] = air[n][i]]
          /\ \/ air' = [air EXCEPT ![n] = RemoveAt(@, i)]
             \/ "duplicate" \in Faults /\ air' = air
     \/ UNCHANGED <<transportRxSegment, air>>
  /\ UNCHANGED <<appTxVars, appRxVars, connVars, txVars,
                 transport_timer, handed, history>>

(* net_transport_poll; what is sent to address 0 reaches no node. *)
NetTx(n) ==
  /\ Goto(n, "nettx", "app")
  /\ transportTxFlag' = [transportTxFlag EXCEPT ![n] = 0]
  /\ LET to == transportTxAddress[n]
     IN IF Unsent(n) /\ to \in Node /\ Len(air[to]) < MaxAir
          THEN air' = [air EXCEPT ![to] = Append(@, transportTxSegment[n])]
          ELSE UNCHANGED air
  /\ UNCHANGED <<appTxVars, appRxVars, connVars, transportTxSegment,
                 transportTxAddress, transportTxRetry, transportRxSegment,
                 transport_timer, handed, history>>

-----------------------------------------------------------------------------
Init ==
  /\ pc = [n \in Node |-> "app"]
  /\ applicationTxFlag = [n \in Node |-> 0]
  /\ applicationTxData = [n \in Node |-> NoData]
  /\ applicationTxPort = [n \in Node |-> NoPort]
  /\ applicationTxAddress = [n \in Node |-> NoNode]
  /\ applicationTxEncryption = [n \in Node |-> 0]
  /\ applicationRxData = [n \in Node |-> NoData]
  /\ applicationRxEncryption = [n \in Node |-> 0]
  /\ transportConnectionState = [n \in Node |-> "IDLE"]
  /\ transportConnectionType = [n \in Node |-> "NONE"]
  /\ transportTxFlag = [n \in Node |-> 0]
  /\ transportTxSegment = [n \in Node |-> NoSegment]
  /\ transportTxAddress = [n \in Node |-> NoNode]
  /\ transportTxRetry = [n \in Node |-> 0]
  /\ transportRxSegment = [n \in Node |-> NoSegment]
  /\ transport_timer = [n \in Node |-> TRANS_TIMEOUT]
  /\ air = [n \in Node |-> <<>>]
  /\ handed = [n \in Node |-> 0]
  /\ offered = {}
  /\ delivered = [n \in Node |-> {}]
  /\ acked = {}

(* One turn of node n's main loop: main's while loop and poll_network_stack. *)
Loop(n) ==
  \/ App(n)
  \/ HandleTx(n)
  \/ SkipTx(n)
  \/ HandleTimeout(n, "poll", "rx")
  \/ HandleRx(n)
  \/ SkipRx(n)
  \/ HandleTimeout(n, "timeout", "netrx")
  \/ NetRx(n)
  \/ NetTx(n)

Next == Medium \/ \E n \in Node : Loop(n) \/ Tick(n)

(* Every loop keeps turning and every timer interrupt keeps coming; the     *)
(* medium owes nothing.                                                     *)
Fairness == \A n \in Node : WF_vars(Loop(n)) /\ WF_vars(Tick(n))

Spec == Init /\ [][Next]_vars /\ Fairness

-----------------------------------------------------------------------------
(* Properties *)

TypeOK ==
  /\ pc \in [Node -> Turn]
  /\ applicationTxFlag \in [Node -> {0, 1}]
  /\ applicationTxData \in [Node -> Payload \cup {NoData}]
  /\ applicationTxPort \in [Node -> Port \cup {NoPort}]
  /\ applicationTxAddress \in [Node -> Node \cup {NoNode}]
  /\ applicationTxEncryption \in [Node -> Key]
  /\ applicationRxData \in [Node -> Payload \cup {NoData}]
  /\ applicationRxEncryption \in [Node -> Key]
  /\ transportConnectionState \in [Node -> ConnectionState]
  /\ transportConnectionType \in [Node -> ConnectionType]
  /\ transportTxFlag \in [Node -> {0, 1}]
  /\ transportTxSegment \in [Node -> Segment \cup {NoSegment}]
  /\ transportTxAddress \in [Node -> Node \cup {NoNode}]
  /\ transportTxRetry \in [Node -> 0 .. TRANS_RESEND]
  /\ transportRxSegment \in [Node -> Segment \cup {NoSegment}]
  /\ transport_timer \in [Node -> 0 .. TRANS_TIMEOUT]
  /\ air \in [Node -> Seq(Segment)]
  /\ handed \in [Node -> 0 .. MaxMsgs]
  /\ offered \subseteq Message
  /\ delivered \in [Node -> SUBSET Message]
  /\ acked \subseteq Message

(* What a node sends again on a timeout, by its side of the connection. *)
RoleSegment == {<<"CONN_OPEN", "CLIENT", "CONNECT">>,
                <<"CONN_DATA", "CLIENT", "SEND">>,
                <<"CONN_OPEN", "HOST", "ACCEPT">>,
                <<"CONN_DATA", "HOST", "ACK">>,
                <<"CONN_FAIL", "NONE", "CONNECT">>}

(* transport_handle_timeout (transport.c:79) sends whatever the shared     *)
(* segment buffer holds: in every connection state it holds the segment of *)
(* that state and role, and while IDLE nothing but a CLOSE, or the last    *)
(* resent ACK of a host that has just been closed, can be unsent.          *)
ResendMatchesRole ==
  \A n \in Node :
    IF transportConnectionState[n] = "IDLE"
      THEN /\ transportConnectionType[n] = "NONE"
           /\ Unsent(n) => transportTxSegment[n].kind \in {"CLOSE", "ACK"}
      ELSE <<transportConnectionState[n], transportConnectionType[n],
             transportTxSegment[n].kind>> \in RoleSegment

(* The order of the calls in main.c:139 is what keeps the single-slot      *)
(* buffers between the layers from being overwritten: a received segment   *)
(* has been taken before the next packet comes (network.c:442), the segment *)
(* to send is out before the application or its transport turn comes       *)
(* (transport.c:57), the delivered data have been read before transport    *)
(* takes the next segment, and the application never meets its own flag.   *)
LoopHandover ==
  \A n \in Node :
    /\ pc[n] \in {"timeout", "netrx"} => transportRxSegment[n] = NoSegment
    /\ pc[n] \in {"app", "tx"} => ~Unsent(n)
    /\ pc[n] \in {"tx", "poll", "rx"} => applicationRxData[n] = NoData
    /\ pc[n] # "tx" => applicationTxFlag[n] = 0

(* No handler rewrites the segment buffer or its address while the network *)
(* layer has not yet taken what is in it: the guards transportTxFlag == 0  *)
(* of transport.c:57, 133, 157, 183, 208 and 228 together.                 *)
UnsentStays ==
  [][\A n \in Node : Unsent(n) /\ Unsent(n)' =>
       UNCHANGED <<transportTxSegment[n], transportTxAddress[n]>>]_vars

(* Data reach only the application they were meant for: node and port of   *)
(* the message are those of the host that delivers it, although the client *)
(* may overwrite its buffers in mid-connection (application.c:58).         *)
DeliveredToAddressee ==
  \A n \in Node : applicationRxData[n] # NoData =>
    /\ applicationRxData[n].msg.to = n
    /\ applicationRxData[n].msg.port = applicationTxPort[n]

(* The transport layer as a datagram service: nothing is delivered that    *)
(* was not handed over, nor anywhere but where it was addressed            *)
(* (transport.c:186), whatever the medium does.                            *)
Service == INSTANCE Datagram
IsDatagramService == Service!Spec

(* With a prompt medium, a client that closes on an ACK (transport.c:205)  *)
(* closes on the ACK of its own data: the host has delivered them.         *)
AckedWasDelivered == \A m \in acked : \E n \in Node : m \in delivered[n]

(* With a prompt medium no message is given to the host's application a    *)
(* second time, whatever is lost and sent again (transport.c:186).         *)
DeliveredOnce ==
  [][\A n \in Node :
       applicationRxData[n] = NoData /\ applicationRxData[n]' # NoData
         => applicationRxData[n]'.msg \notin delivered[n]]_vars

(* No connection lasts for ever: a client or host whose peer has vanished  *)
(* comes back to IDLE, CONN_FAIL included (transport.c:92).                *)
ConnectionEnds ==
  \A n \in Node :
    transportConnectionState[n] # "IDLE" ~> transportConnectionState[n] = "IDLE"

(* "host accepts connection" (transport.c:132): the host's answers go to   *)
(* the node whose request it accepted.                                     *)
HostAnswersRequester ==
  [][\A n \in Node : ReceivesConnect(n) /\ transportConnectionType[n]' = "HOST"
       => transportTxAddress[n]' = transportRxSegment[n].from]_vars

(* test/application_test.c:142: what the receiving application reads is    *)
(* what was sent, decrypted.                                               *)
DeliveredReadable ==
  \A n \in Node : applicationRxData[n] # NoData => ReadData(n).pad = {}

=============================================================================
