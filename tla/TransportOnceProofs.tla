------------------------- MODULE TransportOnceProofs -------------------------
(***************************************************************************)
(* Between two nodes, on a medium that may lose segments but is prompt, no  *)
(* message is given to an application twice, and an acknowledged message    *)
(* was delivered.                                                          *)
(*                                                                         *)
(* The argument looks at each node as the client of the other.  What is on  *)
(* the way from one to the other, from the segment buffer over the medium   *)
(* to the receive slot, is one ordered pipe.  The invariant, Agrees, says   *)
(* which segments the two pipes may hold for each pair of sides the nodes   *)
(* are on.  It is stated over values, so that each kind of step is a lemma  *)
(* without state; the second half of the module maps the actions of         *)
(* Transport to those lemmas.                                              *)
(***************************************************************************)
EXTENDS TransportProofs

-----------------------------------------------------------------------------
(* The invariant, over values.  The client is on side c with timer t, has   *)
(* d in its segment buffer and e, flagged by b, in the application's; the   *)
(* host is on side h with timer y and was given the messages D.  q leads    *)
(* from client to host and r back; position 0 is the receiver's end.        *)

Over(side, timer) == side # "idle" /\ timer = 0
Clear(q) == \A k \in Nat : q[k].kind = "none"

(* Time runs out only when what was sent has gone. *)
Patience(c, t, q) == Over(c, t) => Clear(q)

(* After its ACK a host sends nothing more. *)
AckLast(h, r) ==
  \A k \in Nat : r[k].kind = "ACK" =>
    /\ h = "holds"
    /\ \A l \in Nat : l > k => r[l].kind = "none"

(* The one CLOSE finds the host waiting for it. *)
CloseAlone(q, h, y, r) ==
  \A k \in Nat : q[k].kind = "CLOSE" =>
    /\ Clear(r)
    /\ h = "holds"
    /\ y # 0
    /\ \A l \in Nat : q[l].kind = "CLOSE" => l = k

(* A client that would take an ACCEPT has a host that waits for data. *)
AcceptHeld(c, t, h, r) ==
  \A k \in Nat : r[k].kind = "ACCEPT" =>
    /\ h \in {"accepts", "holds"}
    /\ (c # "sends" \/ t = 0) => h = "accepts"

(* A host that would take a SEND gets the client's current data, once. *)
SendOnce(c, d, q, h, y) ==
  \A k \in Nat : q[k].kind = "SEND" =>
    /\ h = "accepts" => c = "sends"
    /\ c = "sends" => q[k].data = d
    /\ \A l \in Nat : q[l].kind = "SEND" => l = k
    /\ \A l \in Nat : q[l].kind = "CONNECT" =>
         IF l < k THEN h = "accepts" /\ y # 0 ELSE h # "accepts"

(* A CONNECT behind which data were sent has been answered. *)
ConnectHeld(c, q, h, y) ==
  \A k \in Nat : q[k].kind = "CONNECT" /\ c = "sends" => h = "accepts" /\ y # 0

(* What the client sends is new to a host that waits for it, and has been  *)
(* delivered by one that holds an acknowledged connection.                 *)
Settled(c, d, e, h, D) ==
  /\ (c = "sends" /\ h = "holds") => d.msg \in D
  /\ (c = "sends" /\ h = "accepts") => d.msg \notin D
  /\ c = "asks" => e.msg \notin D

(* A message the application has flagged is neither delivered nor sent. *)
Fresh(c, d, b, e, q, D) ==
  b = 1 =>
    /\ e.msg \notin D
    /\ c = "sends" => d.msg # e.msg
    /\ \A k \in Nat : q[k].kind = "SEND" => q[k].data.msg # e.msg

Agrees(c, t, d, b, e, q, h, y, r, D) ==
  /\ Patience(c, t, q)
  /\ Patience(h, y, r)
  /\ AckLast(h, r)
  /\ CloseAlone(q, h, y, r)
  /\ AcceptHeld(c, t, h, r)
  /\ SendOnce(c, d, q, h, y)
  /\ ConnectHeld(c, q, h, y)
  /\ Settled(c, d, e, h, D)
  /\ Fresh(c, d, b, e, q, D)

(* g is q with entries taken out; g's position k was q's position u[k]. *)
Thins(u, q, g) ==
  /\ \A k \in Nat : u[k] \in Nat /\ (g[k].kind = "none" \/ g[k] = q[u[k]])
  /\ \A k, l \in Nat : k < l => u[k] < u[l]

(* g is q with seg put at its end. *)
Appends(q, g, i, seg) ==
  /\ i \in Nat
  /\ g[i] = seg
  /\ \A k \in Nat : k # i => g[k] = q[k]
  /\ \A k \in Nat : k >= i => q[k].kind = "none"

-----------------------------------------------------------------------------
(* Steps of the pipes and the timers *)

(* Losing or receiving a segment keeps the agreement. *)
LEMMA ThinAgrees ==
  ASSUME NEW c, NEW t, NEW d, NEW b, NEW e, NEW q, NEW h, NEW y, NEW r, NEW D,
         Agrees(c, t, d, b, e, q, h, y, r, D),
         NEW u, NEW q1, Thins(u, q, q1),
         NEW v, NEW r1, Thins(v, r, r1)
  PROVE  Agrees(c, t, d, b, e, q1, h, y, r1, D)
<1>0. /\ \A k \in Nat : u[k] \in Nat /\ v[k] \in Nat
      /\ \A k \in Nat : q1[k].kind # "none" => q1[k] = q[u[k]]
      /\ \A k \in Nat : r1[k].kind # "none" => r1[k] = r[v[k]]
      /\ \A k, l \in Nat : k < l => u[k] < u[l] /\ v[k] < v[l]
  BY DEF Thins
<1>1. \A k, l \in Nat : u[l] = u[k] => l = k
  BY <1>0
<1>2. \A k, l \in Nat : u[l] < u[k] => l < k
  BY <1>0
<1>3. (Clear(q) => Clear(q1)) /\ (Clear(r) => Clear(r1))
  BY <1>0 DEF Clear
<1>4. Patience(c, t, q1) /\ Patience(h, y, r1)
  BY <1>3 DEF Agrees, Patience
<1>5. AckLast(h, r1)
  <2> SUFFICES ASSUME NEW k \in Nat, r1[k].kind = "ACK"
               PROVE  h = "holds" /\ \A l \in Nat : l > k => r1[l].kind = "none"
    BY DEF AckLast
  <2>1. r[v[k]].kind = "ACK" /\ v[k] \in Nat
    BY <1>0
  <2>2. h = "holds" /\ \A l \in Nat : l > v[k] => r[l].kind = "none"
    BY <2>1 DEF Agrees, AckLast
  <2>3. ASSUME NEW l \in Nat, l > k
        PROVE  r1[l].kind = "none"
    <3>1. v[l] \in Nat /\ v[l] > v[k]
      BY <1>0, <2>1, <2>3
    <3> QED
      BY <1>0, <2>2, <3>1
  <2> QED
    BY <2>2, <2>3
<1>6. CloseAlone(q1, h, y, r1)
  BY <1>0, <1>1, <1>3 DEF Agrees, CloseAlone
<1>7. AcceptHeld(c, t, h, r1)
  BY <1>0 DEF Agrees, AcceptHeld
<1>8. SendOnce(c, d, q1, h, y)
  <2> SUFFICES ASSUME NEW k \in Nat, q1[k].kind = "SEND"
               PROVE  /\ h = "accepts" => c = "sends"
                      /\ c = "sends" => q1[k].data = d
                      /\ \A l \in Nat : q1[l].kind = "SEND" => l = k
                      /\ \A l \in Nat : q1[l].kind = "CONNECT" =>
                           IF l < k THEN h = "accepts" /\ y # 0
                                    ELSE h # "accepts"
    BY DEF SendOnce
  <2>1. q1[k] = q[u[k]] /\ q[u[k]].kind = "SEND" /\ u[k] \in Nat
    BY <1>0
  <2>2. /\ h = "accepts" => c = "sends"
        /\ c = "sends" => q[u[k]].data = d
        /\ \A l \in Nat : q[l].kind = "SEND" => l = u[k]
        /\ \A l \in Nat : q[l].kind = "CONNECT" =>
             IF l < u[k] THEN h = "accepts" /\ y # 0 ELSE h # "accepts"
    BY <2>1 DEF Agrees, SendOnce
  <2>3. ASSUME NEW l \in Nat, q1[l].kind = "SEND"
        PROVE  l = k
    BY <1>0, <1>1, <2>2, <2>3
  <2>4. ASSUME NEW l \in Nat, q1[l].kind = "CONNECT"
        PROVE  IF l < k THEN h = "accepts" /\ y # 0 ELSE h # "accepts"
    <3>1. q[u[l]].kind = "CONNECT" /\ u[l] \in Nat
      BY <1>0, <2>4
    <3>2. u[l] < u[k] <=> l < k
      BY <1>0, <1>2
    <3> QED
      BY <2>2, <3>1, <3>2
  <2> QED
    BY <2>1, <2>2, <2>3, <2>4
<1>9. ConnectHeld(c, q1, h, y)
  BY <1>0 DEF Agrees, ConnectHeld
<1>10. Fresh(c, d, b, e, q1, D)
  BY <1>0 DEF Agrees, Fresh
<1> QED
  BY <1>4, <1>5, <1>6, <1>7, <1>8, <1>9, <1>10 DEF Agrees

(* So does setting a timer afresh, *)
LEMMA ResetAgrees ==
  ASSUME NEW c, NEW t, NEW d, NEW b, NEW e, NEW q, NEW h, NEW y, NEW r, NEW D,
         Agrees(c, t, d, b, e, q, h, y, r, D),
         NEW t1, t1 = t \/ t1 # 0,
         NEW y1, y1 = y \/ y1 # 0
  PROVE  Agrees(c, t1, d, b, e, q, h, y1, r, D)
BY DEF Agrees, Patience, Over, CloseAlone, AcceptHeld, SendOnce, ConnectHeld

(* and the passing of time while nothing is under way. *)
LEMMA QuietAgrees ==
  ASSUME NEW c, NEW t, NEW d, NEW b, NEW e, NEW q, NEW h, NEW y, NEW r, NEW D,
         Agrees(c, t, d, b, e, q, h, y, r, D), Clear(q), Clear(r),
         NEW t1, NEW y1
  PROVE  Agrees(c, t1, d, b, e, q, h, y1, r, D)
<1>1. \A k \in Nat : q[k].kind = "none" /\ r[k].kind = "none"
  BY DEF Clear
<1> QED
  BY <1>1 DEF Agrees, Patience, AckLast, CloseAlone, AcceptHeld, SendOnce,
     ConnectHeld

(* What is at the end of a pipe, and what is before it. *)
LEMMA AppendFacts ==
  ASSUME NEW q, NEW q1, NEW i, NEW seg, Appends(q, q1, i, seg)
  PROVE  /\ i \in Nat
         /\ q1[i] = seg
         /\ \A k \in Nat : k # i => q1[k] = q[k]
         /\ \A k \in Nat : q[k].kind # "none" => k < i /\ q1[k] = q[k]
BY DEF Appends

-----------------------------------------------------------------------------
(* Steps of the client *)

(* It requests a connection for the message the application has flagged. *)
LEMMA ClientAsks ==
  ASSUME NEW c, NEW t, NEW d, NEW b, NEW e, NEW q, NEW h, NEW y, NEW r, NEW D,
         Agrees(c, t, d, b, e, q, h, y, r, D), c = "idle", b = 1,
         NEW q1, NEW i, NEW seg, Appends(q, q1, i, seg), seg.kind = "CONNECT",
         NEW t1, t1 # 0, NEW d1
  PROVE  Agrees("asks", t1, d1, 0, e, q1, h, y, r, D)
<1>1. /\ i \in Nat
      /\ q1[i] = seg
      /\ \A k \in Nat : k # i => q1[k] = q[k]
      /\ \A k \in Nat : q[k].kind # "none" => k < i /\ q1[k] = q[k]
  BY AppendFacts
<1>2. Patience("asks", t1, q1) /\ Patience(h, y, r) /\ AckLast(h, r)
  BY DEF Agrees, Patience, Over
<1>3. CloseAlone(q1, h, y, r)
  BY <1>1 DEF Agrees, CloseAlone
<1>4. AcceptHeld("asks", t1, h, r)
  BY DEF Agrees, AcceptHeld
<1>5. SendOnce("asks", d1, q1, h, y)
  <2>1. \A k \in Nat : q1[k].kind = "SEND" => q[k].kind = "SEND" /\ h # "accepts"
    BY <1>1 DEF Agrees, SendOnce
  <2> QED
    BY <1>1, <2>1 DEF Agrees, SendOnce
<1>6. ConnectHeld("asks", q1, h, y)
  BY DEF ConnectHeld
<1>7. Settled("asks", d1, e, h, D) /\ Fresh("asks", d1, 0, e, q1, D)
  BY DEF Agrees, Fresh, Settled
<1> QED
  BY <1>2, <1>3, <1>4, <1>5, <1>6, <1>7 DEF Agrees

(* What a node on each side sends again. *)
Again == [asks |-> "CONNECT", sends |-> "SEND", accepts |-> "ACCEPT",
          holds |-> "ACK"]

(* Its timer has run out: it sends its segment again, *)
LEMMA ClientAgain ==
  ASSUME NEW c \in DOMAIN Again, NEW t, NEW d, NEW b, NEW e, NEW q, NEW h, NEW y,
         NEW r, NEW D,
         Agrees(c, t, d, b, e, q, h, y, r, D), t = 0,
         NEW q1, NEW i, NEW seg, Appends(q, q1, i, seg),
         seg.kind = Again[c], c = "sends" => seg.data = d,
         NEW t1, t1 # 0
  PROVE  Agrees(c, t1, d, b, e, q1, h, y, r, D)
<1>0. Clear(q) /\ c \in {"asks", "sends", "accepts", "holds"}
  BY DEF Agrees, Patience, Over, Again
<1>1. \A k \in Nat : q1[k].kind # "none" => k = i /\ q1[k] = seg
  BY <1>0, AppendFacts DEF Clear
<1>2. /\ seg.kind \in {"CONNECT", "SEND", "ACCEPT", "ACK"}
      /\ seg.kind = "SEND" => c = "sends"
      /\ seg.kind = "CONNECT" => c = "asks"
  BY <1>0 DEF Again
<1>3. Patience(c, t1, q1) /\ Patience(h, y, r) /\ AckLast(h, r)
  BY DEF Agrees, Patience, Over
<1>4. CloseAlone(q1, h, y, r)
  BY <1>1, <1>2 DEF CloseAlone
<1>5. AcceptHeld(c, t1, h, r)
  BY DEF Agrees, AcceptHeld
<1>6. SendOnce(c, d, q1, h, y)
  BY <1>1, <1>2 DEF SendOnce
<1>7. ConnectHeld(c, q1, h, y)
  BY <1>1, <1>2 DEF ConnectHeld
<1>8. Fresh(c, d, b, e, q1, D)
  BY <1>1, <1>2 DEF Agrees, Fresh
<1> QED
  BY <1>3, <1>4, <1>5, <1>6, <1>7, <1>8 DEF Agrees

(* or it gives up. *)
LEMMA ClientGivesUp ==
  ASSUME NEW c, NEW t, NEW d, NEW b, NEW e, NEW q, NEW h, NEW y, NEW r, NEW D,
         Agrees(c, t, d, b, e, q, h, y, r, D), Over(c, t)
  PROVE  Agrees("idle", t, d, b, e, q, h, y, r, D)
<1>1. \A k \in Nat : q[k].kind = "none"
  BY DEF Agrees, Patience, Clear
<1>2. Patience("idle", t, q) /\ Patience(h, y, r) /\ AckLast(h, r)
  BY DEF Agrees, Patience, Over
<1>3. CloseAlone(q, h, y, r) /\ SendOnce("idle", d, q, h, y)
      /\ ConnectHeld("idle", q, h, y)
  BY <1>1 DEF CloseAlone, SendOnce, ConnectHeld
<1>4. AcceptHeld("idle", t, h, r)
  BY DEF Agrees, AcceptHeld, Over
<1>5. Settled("idle", d, e, h, D) /\ Fresh("idle", d, b, e, q, D)
  BY DEF Agrees, Settled, Fresh
<1> QED
  BY <1>2, <1>3, <1>4, <1>5 DEF Agrees

(* While it is a host, or becomes one, it has no connection of its own     *)
(* that its answers could disturb,                                         *)
LEMMA ClientIsHost ==
  ASSUME NEW c, NEW t, NEW d, NEW b, NEW e, NEW q, NEW h, NEW y, NEW r, NEW D,
         Agrees(c, t, d, b, e, q, h, y, r, D),
         c \in {"idle", "accepts", "holds"},
         NEW c1 \in {"idle", "accepts", "holds"},
         NEW t1, c1 = "idle" \/ t1 # 0, NEW d1,
         NEW q1, NEW i, NEW seg, Appends(q, q1, i, seg),
         seg.kind \in {"ACCEPT", "ACK"}
  PROVE  Agrees(c1, t1, d1, b, e, q1, h, y, r, D)
<1>1. \A k \in Nat : q1[k].kind \in {"SEND", "CONNECT", "CLOSE"} => q1[k] = q[k]
  BY AppendFacts
<1>2. Patience(c1, t1, q1) /\ Patience(h, y, r) /\ AckLast(h, r)
  BY DEF Agrees, Patience, Over
<1>3. CloseAlone(q1, h, y, r)
  BY <1>1 DEF Agrees, CloseAlone
<1>4. AcceptHeld(c1, t1, h, r)
  BY DEF Agrees, AcceptHeld
<1>5. SendOnce(c1, d1, q1, h, y)
  <2>1. \A k \in Nat : q1[k].kind = "SEND" => q[k].kind = "SEND" /\ h # "accepts"
    BY <1>1 DEF Agrees, SendOnce
  <2> QED
    BY <1>1, <2>1 DEF Agrees, SendOnce
<1>6. ConnectHeld(c1, q1, h, y)
  BY DEF ConnectHeld
<1>7. Settled(c1, d1, e, h, D) /\ Fresh(c1, d1, b, e, q1, D)
  BY <1>1 DEF Agrees, Settled, Fresh
<1> QED
  BY <1>2, <1>3, <1>4, <1>5, <1>6, <1>7 DEF Agrees

(* nor when it stops being one. *)
LEMMA ClientWasHost ==
  ASSUME NEW c, NEW t, NEW d, NEW b, NEW e, NEW q, NEW h, NEW y, NEW r, NEW D,
         Agrees(c, t, d, b, e, q, h, y, r, D), c = "holds"
  PROVE  Agrees("idle", t, d, b, e, q, h, y, r, D)
<1>1. Patience("idle", t, q) /\ AcceptHeld("idle", t, h, r)
      /\ SendOnce("idle", d, q, h, y) /\ ConnectHeld("idle", q, h, y)
  BY DEF Agrees, Patience, Over, AcceptHeld, SendOnce, ConnectHeld
<1>2. Settled("idle", d, e, h, D) /\ Fresh("idle", d, b, e, q, D)
  BY DEF Agrees, Settled, Fresh
<1> QED
  BY <1>1, <1>2 DEF Agrees

(* It takes the ACCEPT and sends its data. *)
LEMMA ClientSends ==
  ASSUME NEW c, NEW t, NEW d, NEW b, NEW e, NEW q, NEW h, NEW y, NEW r, NEW D,
         Agrees(c, t, d, b, e, q, h, y, r, D), c = "asks", b = 0,
         r[0].kind = "ACCEPT", NEW v, NEW r1, Thins(v, r, r1),
         NEW q1, NEW i, NEW seg, Appends(q, q1, i, seg),
         seg.kind = "SEND", seg.data = e,
         NEW t1, t1 # 0
  PROVE  Agrees("sends", t1, e, b, e, q1, h, y, r1, D)
<1> DEFINE id == [k \in Nat |-> k]
<1>0. Agrees(c, t, d, b, e, q, h, y, r1, D)
  <2>1. Thins(id, q, q)
    BY DEF Thins
  <2> HIDE DEF id
  <2> QED
    BY <2>1, ThinAgrees
<1>1. /\ i \in Nat
      /\ q1[i] = seg
      /\ \A k \in Nat : k # i => q1[k] = q[k]
      /\ \A k \in Nat : q[k].kind # "none" => k < i /\ q1[k] = q[k]
  BY AppendFacts
<1>2. 0 \in Nat /\ ~Clear(r)
  BY DEF Clear
<1>3. h = "accepts" /\ ~Over(h, y) /\ y # 0
  BY <1>2 DEF Agrees, AcceptHeld, Patience, Over
<1>4. \A k \in Nat : q[k].kind \notin {"SEND", "CLOSE"}
  BY <1>2, <1>3 DEF Agrees, SendOnce, CloseAlone
<1>5. Patience("sends", t1, q1) /\ Patience(h, y, r1) /\ AckLast(h, r1)
  BY <1>0 DEF Agrees, Patience, Over
<1>6. CloseAlone(q1, h, y, r1)
  BY <1>1, <1>4 DEF CloseAlone
<1>7. AcceptHeld("sends", t1, h, r1)
  BY <1>3 DEF AcceptHeld
<1>8. SendOnce("sends", e, q1, h, y)
  <2>1. \A k \in Nat : q1[k].kind = "SEND" => k = i
    BY <1>1, <1>4
  <2>2. \A l \in Nat : q1[l].kind = "CONNECT" => l < i
    BY <1>1
  <2> QED
    BY <1>1, <1>3, <2>1, <2>2 DEF SendOnce
<1>9. ConnectHeld("sends", q1, h, y) /\ Settled("sends", e, e, h, D)
      /\ Fresh("sends", e, b, e, q1, D)
  BY <1>3 DEF Agrees, ConnectHeld, Settled, Fresh
<1> QED
  BY <1>5, <1>6, <1>7, <1>8, <1>9 DEF Agrees

(* An ACK comes only when its data have been delivered. *)
LEMMA AckTellsDelivered ==
  ASSUME NEW c, NEW t, NEW d, NEW b, NEW e, NEW q, NEW h, NEW y, NEW r, NEW D,
         Agrees(c, t, d, b, e, q, h, y, r, D), c = "sends", r[0].kind = "ACK"
  PROVE  d.msg \in D
BY DEF Agrees, AckLast, Settled

(* It takes the ACK and closes. *)
LEMMA ClientCloses ==
  ASSUME NEW c, NEW t, NEW d, NEW b, NEW e, NEW q, NEW h, NEW y, NEW r, NEW D,
         Agrees(c, t, d, b, e, q, h, y, r, D), c = "sends", b = 0,
         r[0].kind = "ACK",
         NEW r1, \A k \in Nat : r1[k].kind = "none" \/ (k # 0 /\ r1[k] = r[k]),
         NEW q1, NEW i, NEW seg, Appends(q, q1, i, seg), seg.kind = "CLOSE",
         NEW t1, NEW d1
  PROVE  Agrees("idle", t1, d1, b, e, q1, h, y, r1, D)
<1>1. /\ i \in Nat
      /\ q1[i] = seg
      /\ \A k \in Nat : k # i => q1[k] = q[k]
      /\ \A k \in Nat : q[k].kind # "none" => k < i /\ q1[k] = q[k]
  BY AppendFacts
<1>2. 0 \in Nat /\ ~Clear(r)
  BY DEF Clear
<1>3. h = "holds" /\ y # 0
  BY <1>2 DEF Agrees, AckLast, Patience, Over
<1>4. \A k \in Nat : r1[k].kind = "none"
  BY <1>2 DEF Agrees, AckLast
<1>5. \A k \in Nat : q[k].kind # "CLOSE"
  BY <1>2 DEF Agrees, CloseAlone
<1>6. Patience("idle", t1, q1) /\ Patience(h, y, r1) /\ AckLast(h, r1)
      /\ AcceptHeld("idle", t1, h, r1)
  BY <1>4 DEF Patience, Over, Clear, AckLast, AcceptHeld
<1>7. CloseAlone(q1, h, y, r1)
  BY <1>1, <1>3, <1>4, <1>5 DEF CloseAlone, Clear
<1>8. SendOnce("idle", d1, q1, h, y)
  <2>1. \A k \in Nat : q1[k].kind \in {"SEND", "CONNECT"} => q1[k] = q[k]
    BY <1>1
  <2> QED
    BY <1>3, <2>1 DEF Agrees, SendOnce
<1>9. ConnectHeld("idle", q1, h, y) /\ Settled("idle", d1, e, h, D)
      /\ Fresh("idle", d1, b, e, q1, D)
  BY DEF ConnectHeld, Settled, Fresh
<1> QED
  BY <1>6, <1>7, <1>8, <1>9 DEF Agrees

-----------------------------------------------------------------------------
(* Steps of the host *)

(* While it is idle, or a client of its own, it answers nobody. *)
LEMMA HostIsClient ==
  ASSUME NEW c, NEW t, NEW d, NEW b, NEW e, NEW q, NEW h, NEW y, NEW r, NEW D,
         Agrees(c, t, d, b, e, q, h, y, r, D),
         h \in {"idle", "asks", "sends"},
         NEW h1 \in {"idle", "asks", "sends"},
         NEW y1, h1 = "idle" \/ y1 # 0,
         NEW r1, NEW i, NEW seg, Appends(r, r1, i, seg),
         seg.kind \in {"CONNECT", "SEND", "CLOSE"}
  PROVE  Agrees(c, t, d, b, e, q, h1, y1, r1, D)
<1>1. \A k \in Nat : r1[k].kind \in {"ACCEPT", "ACK"} => r1[k] = r[k]
  BY AppendFacts
<1>2. /\ \A k \in Nat : r[k].kind \notin {"ACCEPT", "ACK"}
      /\ \A k \in Nat : q[k].kind # "CLOSE"
  BY DEF Agrees, AcceptHeld, AckLast, CloseAlone
<1>3. Patience(c, t, q) /\ Patience(h1, y1, r1)
  BY DEF Agrees, Patience, Over
<1>4. AckLast(h1, r1) /\ AcceptHeld(c, t, h1, r1) /\ CloseAlone(q, h1, y1, r1)
  BY <1>1, <1>2 DEF AckLast, AcceptHeld, CloseAlone
<1>5. SendOnce(c, d, q, h1, y1) /\ ConnectHeld(c, q, h1, y1)
  BY DEF Agrees, SendOnce, ConnectHeld
<1>6. Settled(c, d, e, h1, D) /\ Fresh(c, d, b, e, q, D)
  BY DEF Agrees, Settled
<1> QED
  BY <1>3, <1>4, <1>5, <1>6 DEF Agrees

(* Its timer has run out: it sends its segment again, *)
LEMMA HostAgain ==
  ASSUME NEW c, NEW t, NEW d, NEW b, NEW e, NEW q, NEW h \in DOMAIN Again, NEW y,
         NEW r, NEW D,
         Agrees(c, t, d, b, e, q, h, y, r, D), y = 0,
         NEW r1, NEW i, NEW seg, Appends(r, r1, i, seg), seg.kind = Again[h],
         NEW y1, y1 # 0
  PROVE  Agrees(c, t, d, b, e, q, h, y1, r1, D)
<1>0. Clear(r) /\ h \in {"asks", "sends", "accepts", "holds"}
  BY DEF Agrees, Patience, Over, Again
<1>1. i \in Nat /\ \A k \in Nat : r1[k].kind # "none" => k = i /\ r1[k] = seg
  BY <1>0, AppendFacts DEF Clear
<1>2. /\ seg.kind = "ACK" => h = "holds"
      /\ seg.kind = "ACCEPT" => h = "accepts"
  BY <1>0 DEF Again
<1>3. \A k \in Nat : q[k].kind # "CLOSE"
  BY DEF Agrees, CloseAlone
<1>4. Patience(c, t, q) /\ Patience(h, y1, r1)
  BY DEF Agrees, Patience, Over
<1>5. AckLast(h, r1) /\ AcceptHeld(c, t, h, r1) /\ CloseAlone(q, h, y1, r1)
  BY <1>1, <1>2, <1>3 DEF AckLast, AcceptHeld, CloseAlone
<1>6. SendOnce(c, d, q, h, y1) /\ ConnectHeld(c, q, h, y1)
  BY DEF Agrees, SendOnce, ConnectHeld
<1> QED
  BY <1>4, <1>5, <1>6 DEF Agrees

(* or it gives up. *)
LEMMA HostGivesUp ==
  ASSUME NEW c, NEW t, NEW d, NEW b, NEW e, NEW q, NEW h, NEW y, NEW r, NEW D,
         Agrees(c, t, d, b, e, q, h, y, r, D), Over(h, y)
  PROVE  Agrees(c, t, d, b, e, q, "idle", y, r, D)
<1>1. \A k \in Nat : r[k].kind = "none"
  BY DEF Agrees, Patience, Clear
<1>2. y = 0
  BY DEF Over
<1>3. Patience(c, t, q) /\ Patience("idle", y, r) /\ AckLast("idle", r)
      /\ AcceptHeld(c, t, "idle", r)
  BY <1>1 DEF Agrees, Patience, Over, AckLast, AcceptHeld
<1>4. CloseAlone(q, "idle", y, r)
  BY <1>2 DEF Agrees, CloseAlone
<1>5. SendOnce(c, d, q, "idle", y)
  BY <1>2 DEF Agrees, SendOnce
<1>6. ConnectHeld(c, q, "idle", y)
  BY <1>2 DEF Agrees, ConnectHeld
<1>7. Settled(c, d, e, "idle", D)
  BY DEF Agrees, Settled
<1> QED
  BY <1>3, <1>4, <1>5, <1>6, <1>7 DEF Agrees

(* It accepts the client's CONNECT. *)
LEMMA HostAccepts ==
  ASSUME NEW c, NEW t, NEW d, NEW b, NEW e, NEW q, NEW h, NEW y, NEW r, NEW D,
         Agrees(c, t, d, b, e, q, h, y, r, D), h = "idle",
         q[0].kind = "CONNECT", NEW u, NEW q1, Thins(u, q, q1),
         NEW r1, NEW i, NEW seg, Appends(r, r1, i, seg), seg.kind = "ACCEPT",
         NEW y1, y1 # 0
  PROVE  Agrees(c, t, d, b, e, q1, "accepts", y1, r1, D)
<1>1. /\ \A k \in Nat : r1[k].kind \in {"ACCEPT", "ACK"} =>
           r1[k] = r[k] \/ r1[k] = seg
      /\ \A k \in Nat : u[k] \in Nat
      /\ \A k \in Nat : q1[k].kind # "none" => q1[k] = q[u[k]]
  BY AppendFacts DEF Thins
<1>2. \A k \in Nat : r[k].kind \notin {"ACCEPT", "ACK"} /\ q[k].kind # "CLOSE"
  BY DEF Agrees, AcceptHeld, AckLast, CloseAlone
<1>3. c # "sends" /\ \A k \in Nat : q[k].kind # "SEND"
  <2>1. 0 \in Nat /\ \A k \in Nat : k = 0 \/ 0 < k
    OBVIOUS
  <2> QED
    BY <2>1 DEF Agrees, ConnectHeld, SendOnce
<1>4. Patience(c, t, q1) /\ Patience("accepts", y1, r1)
  BY <1>1 DEF Agrees, Patience, Over, Clear
<1>5. AckLast("accepts", r1) /\ AcceptHeld(c, t, "accepts", r1)
      /\ CloseAlone(q1, "accepts", y1, r1)
  BY <1>1, <1>2 DEF AckLast, AcceptHeld, CloseAlone
<1>6. SendOnce(c, d, q1, "accepts", y1) /\ ConnectHeld(c, q1, "accepts", y1)
  BY <1>1, <1>3 DEF SendOnce, ConnectHeld
<1>7. Settled(c, d, e, "accepts", D) /\ Fresh(c, d, b, e, q1, D)
  BY <1>1, <1>3 DEF Agrees, Settled, Fresh
<1> QED
  BY <1>4, <1>5, <1>6, <1>7 DEF Agrees

(* A SEND that a host waits for holds data that are new to it. *)
LEMMA SendIsNew ==
  ASSUME NEW c, NEW t, NEW d, NEW b, NEW e, NEW q, NEW h, NEW y, NEW r, NEW D,
         Agrees(c, t, d, b, e, q, h, y, r, D), h = "accepts", q[0].kind = "SEND"
  PROVE  q[0].data.msg \notin D
BY DEF Agrees, SendOnce, Settled

(* It takes the client's data and acknowledges them. *)
LEMMA HostTakes ==
  ASSUME NEW c, NEW t, NEW d, NEW b, NEW e, NEW q, NEW h, NEW y, NEW r, NEW D,
         Agrees(c, t, d, b, e, q, h, y, r, D), h = "accepts",
         q[0].kind = "SEND",
         NEW q1, \A k \in Nat : q1[k].kind = "none" \/ (k # 0 /\ q1[k] = q[k]),
         NEW r1, NEW i, NEW seg, Appends(r, r1, i, seg), seg.kind = "ACK",
         NEW y1, y1 # 0
  PROVE  Agrees(c, t, d, b, e, q1, "holds", y1, r1, D \cup {q[0].data.msg})
<1>1. /\ i \in Nat
      /\ r1[i] = seg
      /\ \A k \in Nat : k # i => r1[k] = r[k]
      /\ \A k \in Nat : r[k].kind # "none" => k < i /\ r1[k] = r[k]
  BY AppendFacts
<1>2. 0 \in Nat /\ \A k \in Nat : k = 0 \/ 0 < k
  OBVIOUS
<1>3. c = "sends" /\ q[0].data = d
  BY <1>2 DEF Agrees, SendOnce
<1>4. t # 0
  BY <1>2, <1>3 DEF Agrees, Patience, Over, Clear
<1>5. /\ \A k \in Nat : q1[k].kind \notin {"SEND", "CONNECT", "CLOSE"}
      /\ \A k \in Nat : r[k].kind # "ACK"
  <2>1. \A k \in Nat : q[k].kind = "SEND" => k = 0
    BY <1>2 DEF Agrees, SendOnce
  <2>2. \A k \in Nat : q[k].kind # "CONNECT"
    <3>1. \A k \in Nat : q[k].kind = "CONNECT" => ~(k < 0)
      BY <1>2
    <3> QED
      BY <1>2, <3>1 DEF Agrees, SendOnce
  <2>3. \A k \in Nat : q[k].kind # "CLOSE" /\ r[k].kind # "ACK"
    BY DEF Agrees, CloseAlone, AckLast
  <2> QED
    BY <2>1, <2>2, <2>3
<1>6. Patience(c, t, q1) /\ Patience("holds", y1, r1)
  BY <1>4 DEF Patience, Over
<1>7. AckLast("holds", r1)
  <2>1. \A k \in Nat : k > i => r1[k].kind = "none"
    BY <1>1
  <2>2. \A k \in Nat : r1[k].kind = "ACK" => k = i
    BY <1>1, <1>5
  <2> QED
    BY <2>1, <2>2 DEF AckLast
<1>8. AcceptHeld(c, t, "holds", r1) /\ CloseAlone(q1, "holds", y1, r1)
  BY <1>3, <1>4, <1>5 DEF AcceptHeld, CloseAlone
<1>9. SendOnce(c, d, q1, "holds", y1) /\ ConnectHeld(c, q1, "holds", y1)
  BY <1>5 DEF SendOnce, ConnectHeld
<1>10. Settled(c, d, e, "holds", D \cup {q[0].data.msg})
  BY <1>3 DEF Settled
<1>11. Fresh(c, d, b, e, q1, D \cup {q[0].data.msg})
  BY <1>3, <1>5 DEF Agrees, Fresh
<1> QED
  BY <1>6, <1>7, <1>8, <1>9, <1>10, <1>11 DEF Agrees

(* It takes the client's CLOSE. *)
LEMMA HostIsClosed ==
  ASSUME NEW c, NEW t, NEW d, NEW b, NEW e, NEW q, NEW h, NEW y, NEW r, NEW D,
         Agrees(c, t, d, b, e, q, h, y, r, D), h = "holds",
         q[0].kind = "CLOSE",
         NEW q1, \A k \in Nat : q1[k].kind = "none" \/ (k # 0 /\ q1[k] = q[k])
  PROVE  Agrees(c, t, d, b, e, q1, "idle", y, r, D)
<1>1. 0 \in Nat
  OBVIOUS
<1>2. \A k \in Nat : r[k].kind = "none"
  BY <1>1 DEF Agrees, CloseAlone, Clear
<1>3. \A k \in Nat : q1[k].kind # "CLOSE"
  BY <1>1 DEF Agrees, CloseAlone
<1>4. Patience(c, t, q1) /\ Patience("idle", y, r)
  BY DEF Agrees, Patience, Over, Clear
<1>5. AckLast("idle", r) /\ AcceptHeld(c, t, "idle", r)
      /\ CloseAlone(q1, "idle", y, r)
  BY <1>2, <1>3 DEF AckLast, AcceptHeld, CloseAlone
<1>6. \A k \in Nat : q1[k].kind \in {"SEND", "CONNECT"} => q1[k] = q[k]
  OBVIOUS
<1>7. SendOnce(c, d, q1, "idle", y) /\ ConnectHeld(c, q1, "idle", y)
  BY <1>6 DEF Agrees, SendOnce, ConnectHeld
<1>8. Settled(c, d, e, "idle", D) /\ Fresh(c, d, b, e, q1, D)
  BY <1>6 DEF Agrees, Settled, Fresh
<1> QED
  BY <1>4, <1>5, <1>7, <1>8 DEF Agrees

-----------------------------------------------------------------------------
(* The application of the client *)

(* It hands over a message nobody has seen, *)
LEMMA ClientOffers ==
  ASSUME NEW c, NEW t, NEW d, NEW b, NEW e, NEW q, NEW h, NEW y, NEW r, NEW D,
         Agrees(c, t, d, b, e, q, h, y, r, D),
         NEW e1, e1.msg \notin D, c = "sends" => d.msg # e1.msg,
         \A k \in Nat : q[k].kind = "SEND" => q[k].data.msg # e1.msg
  PROVE  Agrees(c, t, d, 1, e1, q, h, y, r, D)
<1>1. Settled(c, d, e1, h, D) /\ Fresh(c, d, 1, e1, q, D)
  BY DEF Agrees, Settled, Fresh
<1> QED
  BY <1>1 DEF Agrees

(* which is dropped while a connection lasts. *)
LEMMA ClientDrops ==
  ASSUME NEW c, NEW t, NEW d, NEW b, NEW e, NEW q, NEW h, NEW y, NEW r, NEW D,
         Agrees(c, t, d, b, e, q, h, y, r, D)
  PROVE  Agrees(c, t, d, 0, e, q, h, y, r, D)
BY DEF Agrees, Fresh

-----------------------------------------------------------------------------
(* The invariant, of the nodes *)

(* The side of a connection a node is on. *)
Side(n) ==
  IF transportConnectionState[n] = "IDLE" THEN "idle"
  ELSE IF InState(n, "CONN_OPEN", "CLIENT") THEN "asks"
  ELSE IF InState(n, "CONN_DATA", "CLIENT") THEN "sends"
  ELSE IF InState(n, "CONN_OPEN", "HOST") THEN "accepts"
  ELSE IF InState(n, "CONN_DATA", "HOST") THEN "holds"
  ELSE "fails"

(* All that is on the way from n to p. *)
Pipe(n, p) ==
  [k \in Nat |->
     IF k = 0 THEN transportRxSegment[p]
     ELSE IF k <= Len(air[p]) THEN air[p][k]
     ELSE IF k = Len(air[p]) + 1 /\ Unsent(n) THEN transportTxSegment[n]
     ELSE NoSegment]

Exchange(n, p) ==
  Agrees(Side(n), transport_timer[n], transportTxSegment[n].data,
         applicationTxFlag[n], applicationTxData[n], Pipe(n, p),
         Side(p), transport_timer[p], Pipe(p, n), delivered[p])

(* Nothing is damaged or refused. *)
Clean ==
  \A n \in Node :
    /\ transportConnectionState[n] # "CONN_FAIL"
    /\ transportRxSegment[n] # NoSegment =>
         transportRxSegment[n].sound /\ transportRxSegment[n].kind # "NACK"
    /\ \A i \in 1 .. Len(air[n]) :
         air[n][i].sound /\ air[n][i].kind # "NACK"

(* No node writes to itself. *)
Addressed ==
  \A n \in Node : transportTxAddress[n] # n /\ applicationTxAddress[n] # n

(* A node's messages are numbered as it hands them over. *)
Counted ==
  /\ \A m \in offered : m.no <= handed[m.from]
  /\ \A n \in Node : delivered[n] \subseteq offered

Exchanges == \A n, p \in Node : n # p => Exchange(n, p)

(* What is assumed of the network: two nodes, and a medium that may lose   *)
(* segments but brings what it brings before a timer runs out.             *)
TwoPromptNodes ==
  /\ \E a, b : a # b /\ Node = {a, b}
  /\ Prompt = TRUE
  /\ Faults \subseteq {"lose"}

(* A node and its peer are all the nodes. *)
LEMMA Peers ==
  ASSUME TwoPromptNodes, NEW n \in Node, NEW p \in Node, n # p
  PROVE  \A m \in Node : m = n \/ m = p
BY DEF TwoPromptNodes

(* Every node has a peer. *)
LEMMA HasPeer ==
  ASSUME TwoPromptNodes, NEW n \in Node
  PROVE  \E p \in Node : p # n
BY DEF TwoPromptNodes

-----------------------------------------------------------------------------
(* What the actions do to the pipes *)

(* Removing an entry moves the later ones up. *)
LEMMA RemoveAtMoves ==
  ASSUME NEW S, NEW q \in Seq(S), NEW i \in 1 .. Len(q)
  PROVE  /\ RemoveAt(q, i) \in Seq(S)
         /\ Len(RemoveAt(q, i)) = Len(q) - 1
         /\ \A j \in 1 .. Len(q) - 1 :
              RemoveAt(q, i)[j] = IF j < i THEN q[j] ELSE q[j + 1]
<1> DEFINE a == SubSeq(q, 1, i - 1)
           b == SubSeq(q, i + 1, Len(q))
<1>0. i \in Nat /\ Len(q) \in Nat /\ 1 <= i /\ i <= Len(q)
  BY LenProperties
<1>1. /\ a \in Seq(S)
      /\ Len(a) = i - 1
      /\ \A j \in 1 .. Len(a) : a[j] = q[j]
  BY <1>0, SubSeqProperties
<1>2. /\ b \in Seq(S)
      /\ Len(b) = Len(q) - i
      /\ \A j \in 1 .. Len(b) : b[j] = q[i + j]
  BY <1>0, SubSeqProperties
<1>3. /\ a \o b \in Seq(S)
      /\ Len(a \o b) = Len(a) + Len(b)
      /\ \A j \in 1 .. Len(a) + Len(b) :
           (a \o b)[j] = IF j <= Len(a) THEN a[j] ELSE b[j - Len(a)]
  BY <1>1, <1>2, ConcatProperties
<1>4. RemoveAt(q, i) = a \o b
  BY DEF RemoveAt
<1> HIDE DEF a, b
<1>5. ASSUME NEW j \in 1 .. Len(q) - 1
      PROVE  (a \o b)[j] = IF j < i THEN q[j] ELSE q[j + 1]
  <2>1. CASE j < i
    BY <1>0, <1>1, <1>2, <1>3, <2>1
  <2>2. CASE ~(j < i)
    <3>1. (a \o b)[j] = b[j - (i - 1)]
      BY <1>0, <1>1, <1>2, <1>3, <2>2
    <3>2. j - (i - 1) \in 1 .. Len(b)
      BY <1>0, <1>2, <2>2
    <3>3. b[j - (i - 1)] = q[i + (j - (i - 1))]
      BY <1>2, <3>2
    <3>4. i + (j - (i - 1)) = j + 1
      BY <1>0
    <3> QED
      BY <2>2, <3>1, <3>3, <3>4
  <2> QED
    BY <2>1, <2>2
<1>6. Len(a \o b) = Len(q) - 1
  BY <1>0, <1>1, <1>2, <1>3
<1> QED
  BY <1>3, <1>4, <1>5, <1>6

(* A pipe is a pipe thinned by nothing, *)
LEMMA ThinsItself ==
  ASSUME NEW q
  PROVE  \E u : Thins(u, q, q)
<1>1. Thins([k \in Nat |-> k], q, q)
  BY DEF Thins
<1> QED
  BY <1>1

(* and is thinned when its entries vanish where they are, *)
LEMMA ThinsInPlace ==
  ASSUME NEW q, NEW q1,
         \A k \in Nat : q1[k].kind = "none" \/ q1[k] = q[k]
  PROVE  \E u : Thins(u, q, q1)
<1>1. Thins([k \in Nat |-> k], q, q1)
  BY DEF Thins
<1> QED
  BY <1>1

(* or when one goes and the later ones move up. *)
LEMMA ThinsByShift ==
  ASSUME NEW q, NEW q1, NEW i \in Nat,
         \A k \in Nat : \/ q1[k].kind = "none"
                        \/ q1[k] = IF k < i THEN q[k] ELSE q[k + 1]
  PROVE  \E u : Thins(u, q, q1)
<1> DEFINE u == [k \in Nat |-> IF k < i THEN k ELSE k + 1]
<1>1. \A k \in Nat : u[k] \in Nat /\ u[k] = IF k < i THEN k ELSE k + 1
  OBVIOUS
<1>2. \A k, l \in Nat : k < l => u[k] < u[l]
  OBVIOUS
<1> HIDE DEF u
<1>3. Thins(u, q, q1)
  BY <1>1, <1>2 DEF Thins
<1> QED
  BY <1>3

(* A pipe that no part of the step touches. *)
LEMMA PipeKept ==
  ASSUME NEW n \in Node, NEW p \in Node,
         UNCHANGED <<transportRxSegment[p], air[p], transportTxFlag[n]>>,
         Unsent(n) => UNCHANGED transportTxSegment[n]
  PROVE  Pipe(n, p)' = Pipe(n, p)
BY DEF Pipe, Unsent

(* A segment flagged for the network layer is at the end of the pipe. *)
LEMMA PipeExtended ==
  ASSUME TypeOK, NEW n \in Node, NEW p \in Node,
         UNCHANGED <<transportRxSegment[p], air[p]>>, ~Unsent(n), Unsent(n)'
  PROVE  Appends(Pipe(n, p), Pipe(n, p)', Len(air[p]) + 1, transportTxSegment[n]')
<1>1. Len(air[p]) \in Nat
  BY LenProperties DEF TypeOK
<1>2. NoSegment.kind = "none"
  BY DEF NoSegment
<1>3. /\ \A k \in Nat : Pipe(n, p)[k] =
           IF k = 0 THEN transportRxSegment[p]
           ELSE IF k <= Len(air[p]) THEN air[p][k] ELSE NoSegment
      /\ \A k \in Nat : Pipe(n, p)'[k] =
           IF k = 0 THEN transportRxSegment[p]
           ELSE IF k <= Len(air[p]) THEN air[p][k]
           ELSE IF k = Len(air[p]) + 1 THEN transportTxSegment[n]' ELSE NoSegment
  BY DEF Pipe
<1> QED
  BY <1>1, <1>2, <1>3 DEF Appends

(* Taking the received segment takes the head of the pipe. *)
LEMMA PipeTaken ==
  ASSUME TypeOK, NEW n \in Node, NEW p \in Node,
         UNCHANGED <<air[p], transportTxFlag[n], transportTxSegment[n]>>,
         transportRxSegment[p]' = NoSegment
  PROVE  \A k \in Nat : \/ Pipe(n, p)'[k].kind = "none"
                        \/ k # 0 /\ Pipe(n, p)'[k] = Pipe(n, p)[k]
<1>1. NoSegment.kind = "none"
  BY DEF NoSegment
<1> QED
  BY <1>1 DEF Pipe, Unsent

(* The network layer takes what is at the end of the pipe, or loses it. *)
LEMMA PipeSent ==
  ASSUME TypeOK, NEW n \in Node, NEW p \in Node,
         UNCHANGED <<transportRxSegment[p], transportTxSegment[n]>>,
         transportTxFlag[n]' = 0,
         \/ air[p]' = air[p]
         \/ /\ Unsent(n)
            /\ transportTxSegment[n] \in Segment
            /\ air[p]' = Append(air[p], transportTxSegment[n])
  PROVE  \A k \in Nat : \/ Pipe(n, p)'[k].kind = "none"
                        \/ Pipe(n, p)'[k] = Pipe(n, p)[k]
<1>0. air[p] \in Seq(Segment) /\ Len(air[p]) \in Nat
  BY LenProperties DEF TypeOK
<1>1. NoSegment.kind = "none" /\ ~Unsent(n)'
  BY DEF NoSegment, Unsent
<1>2. CASE air[p]' = air[p]
  BY <1>1, <1>2 DEF Pipe
<1>3. CASE /\ Unsent(n)
           /\ transportTxSegment[n] \in Segment
           /\ air[p]' = Append(air[p], transportTxSegment[n])
  <2>1. /\ Len(air[p]') = Len(air[p]) + 1
        /\ \A k \in 1 .. Len(air[p]) : air[p]'[k] = air[p][k]
        /\ air[p]'[Len(air[p]) + 1] = transportTxSegment[n]
    BY <1>0, <1>3, AppendProperties
  <2> QED
    BY <1>0, <1>1, <1>3, <2>1 DEF Pipe
<1> QED
  BY <1>2, <1>3

(* The network layer receives, or the medium loses, one segment. *)
LEMMA PipeShifts ==
  ASSUME TypeOK, NEW n \in Node, NEW p \in Node, NEW i \in 1 .. Len(air[p]),
         UNCHANGED <<transportTxFlag[n], transportTxSegment[n]>>,
         air[p]' = RemoveAt(air[p], i),
         NEW f \in {0, i},
         transportRxSegment[p]' = IF 0 < f THEN transportRxSegment[p] ELSE air[p][1],
         f = 0 => i = 1
  PROVE  \A k \in Nat : \/ Pipe(n, p)'[k].kind = "none"
                        \/ Pipe(n, p)'[k] =
                             IF k < f THEN Pipe(n, p)[k] ELSE Pipe(n, p)[k + 1]
<1>0. air[p] \in Seq(Segment) /\ Len(air[p]) \in Nat /\ i \in Nat /\ 1 <= i
      /\ i <= Len(air[p])
  BY LenProperties DEF TypeOK
<1>1. NoSegment.kind = "none" /\ (Unsent(n)' <=> Unsent(n))
  BY DEF NoSegment, Unsent
<1>2. /\ Len(air[p]') = Len(air[p]) - 1
      /\ \A j \in 1 .. Len(air[p]) - 1 :
           air[p]'[j] = IF j < i THEN air[p][j] ELSE air[p][j + 1]
  <2>1. /\ Len(RemoveAt(air[p], i)) = Len(air[p]) - 1
        /\ \A j \in 1 .. Len(air[p]) - 1 :
             RemoveAt(air[p], i)[j] = IF j < i THEN air[p][j] ELSE air[p][j + 1]
    BY <1>0, RemoveAtMoves
  <2> QED
    BY <2>1
<1> SUFFICES ASSUME NEW k \in Nat
             PROVE  \/ Pipe(n, p)'[k].kind = "none"
                    \/ Pipe(n, p)'[k] =
                         IF k < f THEN Pipe(n, p)[k] ELSE Pipe(n, p)[k + 1]
  OBVIOUS
<1>3. CASE k = 0
  BY <1>0, <1>1, <1>3 DEF Pipe
<1>4. CASE k \in 1 .. Len(air[p]) - 1
  BY <1>0, <1>1, <1>2, <1>4 DEF Pipe
<1>5. CASE k > Len(air[p]) - 1 /\ k # 0
  <2>1. ~(k < f) /\ ~(k <= Len(air[p]) - 1) /\ ~(k + 1 <= Len(air[p]))
    BY <1>0, <1>5
  <2>2. /\ k + 1 = Len(air[p]) + 1 <=> k = (Len(air[p]) - 1) + 1
        /\ k + 1 \in Nat /\ k + 1 # 0
    <3>1. PICK m \in Nat : m = Len(air[p])
      BY <1>0
    <3> QED
      BY <3>1
  <2>3. Pipe(n, p)'[k] =
          IF k = (Len(air[p]) - 1) + 1 /\ Unsent(n) THEN transportTxSegment[n]
          ELSE NoSegment
    BY <1>1, <1>2, <1>5, <2>1 DEF Pipe
  <2>4. Pipe(n, p)[k + 1] =
          IF k + 1 = Len(air[p]) + 1 /\ Unsent(n) THEN transportTxSegment[n]
          ELSE NoSegment
    BY <2>1, <2>2 DEF Pipe
  <2> QED
    BY <2>1, <2>2, <2>3, <2>4
<1> QED
  BY <1>0, <1>3, <1>4, <1>5

-----------------------------------------------------------------------------
(* What a step of one node does to an exchange *)

OnceInv == Clean /\ Addressed /\ Counted /\ Exchanges

(* Whatever a node is doing, it knows which segment to send again. *)
LEMMA SideFacts ==
  ASSUME Inv, Clean, NEW n \in Node
  PROVE  /\ Side(n) \in {"idle", "asks", "sends", "accepts", "holds"}
         /\ Side(n) = "idle" <=> transportConnectionState[n] = "IDLE"
         /\ Side(n) # "idle" => /\ Side(n) \in DOMAIN Again
                               /\ transportTxSegment[n].kind = Again[Side(n)]
         /\ Expired(n) <=> Over(Side(n), transport_timer[n])
<1>1. CASE transportConnectionState[n] = "IDLE"
  BY <1>1 DEF Side, Over, Expired, transport_timeout
<1>2. CASE transportConnectionState[n] # "IDLE"
  <2>1. <<transportConnectionState[n], transportConnectionType[n],
          transportTxSegment[n].kind>> \in RoleSegment
    BY <1>2 DEF Inv, ResendMatchesRole
  <2>2. transportConnectionState[n] # "CONN_FAIL"
    BY DEF Clean
  <2>3. /\ Side(n) \in {"asks", "sends", "accepts", "holds"}
        /\ transportTxSegment[n].kind =
             CASE Side(n) = "asks" -> "CONNECT"
               [] Side(n) = "sends" -> "SEND"
               [] Side(n) = "accepts" -> "ACCEPT"
               [] Side(n) = "holds" -> "ACK"
    BY <1>2, <2>1, <2>2 DEF RoleSegment, Side, InState
  <2>4. Side(n) \in DOMAIN Again /\ transportTxSegment[n].kind = Again[Side(n)]
    BY <2>3 DEF Again
  <2>5. Expired(n) <=> Over(Side(n), transport_timer[n])
    BY <1>2, <2>3 DEF Over, Expired, transport_timeout
  <2> QED
    BY <1>2, <2>3, <2>4, <2>5
<1> QED
  BY <1>1, <1>2

(* The side is given by state and role. *)
LEMMA SideKept ==
  ASSUME NEW n,
         UNCHANGED <<transportConnectionState[n], transportConnectionType[n]>>
  PROVE  Side(n)' = Side(n)
BY DEF Side, InState

(* What a step of one node leaves alone at another. *)
LEMMA PeerKept ==
  ASSUME TypeOK, NEW n \in Node, NEW p \in Node, n # p, Loop(n)
  PROVE  /\ Side(p)' = Side(p)
         /\ UNCHANGED <<transport_timer[p], transportTxSegment[p],
                        applicationTxFlag[p], applicationTxData[p],
                        transportRxSegment[p], transportTxFlag[p],
                        delivered[p]>>
<1>1. UNCHANGED <<transportRxSegment[p], transportTxFlag[p], applicationTxFlag[p]>>
  BY LoopFrame
<1>2. UNCHANGED <<transportConnectionState[p], transportConnectionType[p],
                  transport_timer[p], transportTxSegment[p],
                  applicationTxData[p], delivered[p]>>
  <2>1. CASE App(n)
    <3>1. UNCHANGED <<connVars, txVars, transport_timer, delivered>>
      BY <2>1 DEF App
    <3>2. \/ UNCHANGED applicationTxData
          \/ \E data : applicationTxData' = [applicationTxData EXCEPT ![n] = data]
      BY <2>1 DEF App, application_handle_tx, appTxVars
    <3>3. DOMAIN applicationTxData = Node
      BY DEF TypeOK
    <3> QED
      BY <3>1, <3>2, <3>3 DEF connVars, txVars
  <2>2. CASE HandleTx(n)
    BY <2>2 DEF TypeOK, HandleTx, Become, Emit, timer_reset, connVars, txVars,
       history
  <2>3. CASE \E from, to : HandleTimeout(n, from, to)
    BY <2>3 DEF TypeOK, HandleTimeout, Resend, GiveUp, Become, timer_reset,
       connVars, txVars, appTxVars, history
  <2>4. CASE HandleRx(n)
    BY <2>4 DEF TypeOK, HandleRx, RxConnect, RxAccept, RxSend, RxBusy, RxAck,
       RxRefusedData, RxRefusedOpen, RxClose, RxIgnore, Become, Emit,
       timer_reset, connVars, txVars, history
  <2>5. CASE SkipTx(n) \/ SkipRx(n) \/ NetRx(n) \/ NetTx(n)
    BY <2>5 DEF SkipTx, SkipRx, NetRx, NetTx, connVars, txVars, appTxVars, history
  <2> QED
    BY <2>1, <2>2, <2>3, <2>4, <2>5 DEF Loop
<1> QED
  BY <1>1, <1>2, SideKept

(* After a step of node n, the two exchanges are these. *)
LEMMA AfterLoop ==
  ASSUME TypeOK, NEW n \in Node, NEW p \in Node, n # p, Loop(n),
         Agrees(Side(n)', transport_timer[n]', transportTxSegment[n].data',
                applicationTxFlag[n]', applicationTxData[n]', Pipe(n, p)',
                Side(p), transport_timer[p], Pipe(p, n)', delivered[p]),
         Agrees(Side(p), transport_timer[p], transportTxSegment[p].data,
                applicationTxFlag[p], applicationTxData[p], Pipe(p, n)',
                Side(n)', transport_timer[n]', Pipe(n, p)', delivered[n]')
  PROVE  Exchange(n, p)' /\ Exchange(p, n)'
<1>1. /\ Side(p)' = Side(p)
      /\ UNCHANGED <<transport_timer[p], transportTxSegment[p],
                     applicationTxFlag[p], applicationTxData[p], delivered[p]>>
  BY PeerKept
<1> QED
  BY <1>1 DEF Exchange

(* The exchanges of two nodes, as they are. *)
LEMMA BeforeLoop ==
  ASSUME OnceInv, NEW n \in Node, NEW p \in Node, n # p
  PROVE  /\ Agrees(Side(n), transport_timer[n], transportTxSegment[n].data,
                   applicationTxFlag[n], applicationTxData[n], Pipe(n, p),
                   Side(p), transport_timer[p], Pipe(p, n), delivered[p])
         /\ Agrees(Side(p), transport_timer[p], transportTxSegment[p].data,
                   applicationTxFlag[p], applicationTxData[p], Pipe(p, n),
                   Side(n), transport_timer[n], Pipe(n, p), delivered[n])
BY DEF OnceInv, Exchanges, Exchange

(* Every SEND under way carries a message that was handed over. *)
LEMMA PipeCarries ==
  ASSUME Inv, Clean, NEW n \in Node, NEW p \in Node, NEW k \in Nat,
         Pipe(n, p)[k].kind = "SEND"
  PROVE  Pipe(n, p)[k].data.msg \in offered
<1>0. NoSegment.kind = "none" /\ Len(air[p]) \in Nat
  BY LenProperties DEF NoSegment, Inv, TypeOK
<1>1. CASE k = 0
  BY <1>0, <1>1 DEF Pipe, Inv, RxCarries, Carries, Clean
<1>2. CASE k \in 1 .. Len(air[p])
  <2>1. Pipe(n, p)[k] = air[p][k]
    BY <1>2 DEF Pipe
  <2> QED
    BY <1>2, <2>1 DEF Inv, AirCarries, Carries, Clean
<1>3. CASE k = Len(air[p]) + 1 /\ Unsent(n)
  <2>1. Pipe(n, p)[k] = transportTxSegment[n]
    BY <1>0, <1>3 DEF Pipe
  <2> QED
    BY <1>0, <2>1 DEF Inv, TxCarries, Carries
<1> QED
  BY <1>0, <1>1, <1>2, <1>3 DEF Pipe

(* While it is waiting for an expired timer, a node has nothing unsent. *)
LEMMA ExpiredIsClear ==
  ASSUME Inv, OnceInv, NEW n \in Node, NEW p \in Node, n # p, Expired(n)
  PROVE  ~Unsent(n)
<1>1. Clear(Pipe(n, p))
  BY BeforeLoop, SideFacts DEF OnceInv, Agrees, Patience
<1>2. Len(air[p]) \in Nat
  BY LenProperties DEF Inv, TypeOK
<1>3. Unsent(n) => Pipe(n, p)[Len(air[p]) + 1] = transportTxSegment[n]
  BY <1>2 DEF Pipe
<1>4. Unsent(n) => transportTxSegment[n].kind # "none"
  BY UnsentIsSegment, NoDataFacts DEF Kind
<1> QED
  BY <1>1, <1>2, <1>3, <1>4 DEF Clear

-----------------------------------------------------------------------------
(* Every step of a main loop keeps the exchanges *)

(* The pipes between two nodes when neither the medium nor a slot changes. *)
LEMMA PipesKept ==
  ASSUME NEW n \in Node, NEW p \in Node,
         UNCHANGED <<transportRxSegment, air, transportTxFlag, transportTxSegment>>
  PROVE  Pipe(n, p)' = Pipe(n, p) /\ Pipe(p, n)' = Pipe(p, n)
BY PipeKept

(* A message that is handed over is the first with its number. *)
LEMMA HandOverFresh ==
  ASSUME TypeOK, Counted, NEW n \in Node, NEW to \in Node, NEW port \in Port,
         application_handle_tx(n, to, port)
  PROVE  \/ UNCHANGED <<offered, applicationTxFlag, applicationTxData,
                        applicationTxAddress>>
         \/ /\ applicationTxFlag[n] = 0 /\ applicationTxFlag[n]' = 1
            /\ applicationTxData[n]'.msg \notin offered
            /\ applicationTxData[n]'.msg.from = n
            /\ applicationTxData[n]'.msg.no = handed[n] + 1
            /\ offered' = offered \cup {applicationTxData[n]'.msg}
            /\ applicationTxAddress' = [applicationTxAddress EXCEPT ![n] = to]
<1> DEFINE msg == [from |-> n, to |-> to, port |-> port, no |-> handed[n] + 1]
           key == (applicationTxEncryption[n] + 1) % KEYS
           data == encrypt_data([msg |-> msg, pad |-> {}], key)
<1>1. CASE applicationTxFlag[n] = 0
  <2>1. /\ offered' = offered \cup {msg}
        /\ applicationTxData' = [applicationTxData EXCEPT ![n] = data]
        /\ applicationTxAddress' = [applicationTxAddress EXCEPT ![n] = to]
        /\ applicationTxFlag' = [applicationTxFlag EXCEPT ![n] = 1]
    BY <1>1 DEF application_handle_tx
  <2>2. data.msg = msg /\ msg.from = n /\ msg.no = handed[n] + 1
    BY DEF encrypt_data
  <2>3. handed[n] \in Nat
    BY DEF TypeOK
  <2>4. msg \notin offered
    <3>1. ASSUME msg \in offered
          PROVE  FALSE
      <4>1. msg.no <= handed[msg.from]
        BY <3>1 DEF Counted
      <4> QED
        BY <2>2, <2>3, <4>1
    <3> QED
      BY <3>1
  <2> HIDE DEF msg, data
  <2>5. applicationTxData[n]' = data /\ applicationTxFlag[n]' = 1
    BY <2>1 DEF TypeOK
  <2> QED
    BY <1>1, <2>1, <2>2, <2>4, <2>5
<1>2. CASE applicationTxFlag[n] # 0
  BY <1>2 DEF application_handle_tx, appTxVars
<1> QED
  BY <1>1, <1>2

(* The application's turn: the message it hands over is new to everybody. *)
LEMMA AppExchanges ==
  ASSUME Inv, OnceInv, NEW n \in Node, NEW p \in Node, n # p, App(n)
  PROVE  Exchange(n, p)' /\ Exchange(p, n)'
<1>0. TypeOK /\ Loop(n) /\ Clean /\ Counted
  BY DEF Inv, Loop, OnceInv
<1>1. UNCHANGED <<connVars, txVars, transport_timer, transportRxSegment, air,
                  delivered>>
  BY DEF App
<1>2. /\ Pipe(n, p)' = Pipe(n, p)
      /\ Pipe(p, n)' = Pipe(p, n)
      /\ Side(n)' = Side(n)
  BY <1>1, PipesKept, SideKept DEF connVars, txVars
<1>3. /\ transport_timer[n]' = transport_timer[n]
      /\ transportTxSegment[n]' = transportTxSegment[n]
      /\ delivered[n]' = delivered[n]
  BY <1>1 DEF txVars
<1>4. Agrees(Side(n), transport_timer[n], transportTxSegment[n].data,
             applicationTxFlag[n]', applicationTxData[n]', Pipe(n, p),
             Side(p), transport_timer[p], Pipe(p, n), delivered[p])
  <2>1. CASE UNCHANGED <<applicationTxFlag, applicationTxData>>
    BY <2>1, BeforeLoop
  <2>2. CASE /\ applicationTxFlag[n]' = 1
             /\ applicationTxData[n]'.msg \notin offered
    <3>1. applicationTxData[n]'.msg \notin delivered[p]
      BY <1>0, <2>2 DEF Counted
    <3>2. Side(n) = "sends" =>
            transportTxSegment[n].data.msg # applicationTxData[n]'.msg
      <4>1. SUFFICES ASSUME Side(n) = "sends"
                     PROVE  transportTxSegment[n].data.msg \in offered
        BY <2>2
      <4>2. transportTxSegment[n].kind = "SEND"
        BY <1>0, <4>1, SideFacts DEF Again
      <4> QED
        BY <4>2 DEF Inv, TxCarries, Carries, NoSegment
    <3>3. \A k \in Nat : Pipe(n, p)[k].kind = "SEND" =>
            Pipe(n, p)[k].data.msg # applicationTxData[n]'.msg
      BY <1>0, <2>2, PipeCarries
    <3>4. Agrees(Side(n), transport_timer[n], transportTxSegment[n].data,
                 applicationTxFlag[n], applicationTxData[n], Pipe(n, p),
                 Side(p), transport_timer[p], Pipe(p, n), delivered[p])
      BY BeforeLoop
    <3> QED
      BY <2>2, <3>1, <3>2, <3>3, <3>4, ClientOffers
  <2>3. CASE \E to \in Node \ {n}, port \in Port :
               application_handle_tx(n, to, port)
    BY <1>0, <2>1, <2>2, <2>3, HandOverFresh
  <2> QED
    BY <2>1, <2>3 DEF App, appTxVars
<1> QED
  BY <1>0, <1>2, <1>3, <1>4, AfterLoop, BeforeLoop

(* A node's pipe when it builds a segment and has taken none. *)
LEMMA EmitPipes ==
  ASSUME TypeOK, NEW n \in Node, NEW p \in Node, n # p, ~Unsent(n),
         NEW kind, NEW key, NEW data, Emit(n, kind, key, data),
         UNCHANGED <<air, transportRxSegment[p]>>
  PROVE  /\ Appends(Pipe(n, p), Pipe(n, p)', Len(air[p]) + 1,
                    transportTxSegment[n]')
         /\ transportTxSegment[n]'.kind = kind
         /\ transportTxSegment[n]'.data = data
<1>1. /\ transportTxFlag[n]' = 1
      /\ transportTxSegment[n]'.kind = kind
      /\ transportTxSegment[n]'.data = data
  BY DEF TypeOK, Emit
<1>2. Unsent(n)' /\ UNCHANGED <<transportRxSegment[p], air[p]>>
  BY <1>1 DEF Unsent
<1> QED
  BY <1>1, <1>2, PipeExtended

(* transport_handle_tx requests a connection or drops the message. *)
LEMMA HandleTxExchanges ==
  ASSUME Inv, OnceInv, NEW n \in Node, NEW p \in Node, n # p, HandleTx(n)
  PROVE  Exchange(n, p)' /\ Exchange(p, n)'
<1>0. TypeOK /\ Loop(n) /\ Clean
  BY DEF Inv, Loop, OnceInv
<1>1. /\ applicationTxFlag[n] = 1 /\ applicationTxFlag[n]' = 0
      /\ transport_timer[n]' # 0
      /\ applicationTxData[n]' = applicationTxData[n]
      /\ delivered[n]' = delivered[n]
      /\ UNCHANGED <<transportRxSegment, air>>
  BY <1>0, TimerAssumption
     DEF TypeOK, HandleTx, transport_poll_tx, timer_reset, history
<1>2. CASE CanConnect(n)
  <2>1. /\ Become(n, "CONN_OPEN", "CLIENT")
        /\ Emit(n, "CONNECT", 0, NoData)
        /\ ~Unsent(n)
        /\ Side(n) = "idle"
    BY <1>2 DEF HandleTx, CanConnect, transport_poll_tx, InState, Unsent, Side
  <2>2. Side(n)' = "asks"
    BY <1>0, <2>1, BecomeEffect DEF Side, InState
  <2>3. /\ Appends(Pipe(n, p), Pipe(n, p)', Len(air[p]) + 1,
                   transportTxSegment[n]')
        /\ transportTxSegment[n]'.kind = "CONNECT"
    BY <1>0, <1>1, <2>1, EmitPipes
  <2>4. Pipe(p, n)' = Pipe(p, n)
    <3>1. UNCHANGED <<transportTxFlag[p], transportTxSegment[p]>>
      BY <1>0, PeerKept
    <3> QED
      BY <1>1, <3>1, PipeKept
  <2>5. Agrees("asks", transport_timer[n]', transportTxSegment[n].data', 0,
               applicationTxData[n], Pipe(n, p)',
               Side(p), transport_timer[p], Pipe(p, n), delivered[p])
    BY <1>1, <2>1, <2>3, BeforeLoop, ClientAsks
  <2>6. Agrees(Side(p), transport_timer[p], transportTxSegment[p].data,
               applicationTxFlag[p], applicationTxData[p], Pipe(p, n),
               "asks", transport_timer[n]', Pipe(n, p)', delivered[n])
    BY <1>1, <2>1, <2>3, BeforeLoop, HostIsClient
  <2> QED
    BY <1>0, <1>1, <2>2, <2>4, <2>5, <2>6, AfterLoop
<1>3. CASE UNCHANGED <<connVars, txVars>>
  <2>1. /\ Pipe(n, p)' = Pipe(n, p)
        /\ Pipe(p, n)' = Pipe(p, n)
        /\ Side(n)' = Side(n)
        /\ transportTxSegment[n]' = transportTxSegment[n]
    BY <1>1, <1>3, PipesKept, SideKept DEF connVars, txVars
  <2>2. Agrees(Side(n), transport_timer[n], transportTxSegment[n].data,
               0, applicationTxData[n], Pipe(n, p),
               Side(p), transport_timer[p], Pipe(p, n), delivered[p])
    BY BeforeLoop, ClientDrops
  <2>3. Agrees(Side(n), transport_timer[n]', transportTxSegment[n].data,
               0, applicationTxData[n], Pipe(n, p),
               Side(p), transport_timer[p], Pipe(p, n), delivered[p])
    BY <1>1, <2>2, ResetAgrees
  <2>4. Agrees(Side(p), transport_timer[p], transportTxSegment[p].data,
               applicationTxFlag[p], applicationTxData[p], Pipe(p, n),
               Side(n), transport_timer[n]', Pipe(n, p), delivered[n])
    BY <1>1, BeforeLoop, ResetAgrees
  <2> QED
    BY <1>0, <1>1, <2>1, <2>3, <2>4, AfterLoop
<1> QED
  BY <1>2, <1>3 DEF HandleTx

(* transport_handle_timeout sends again or gives up. *)
LEMMA TimeoutExchanges ==
  ASSUME Inv, OnceInv, NEW n \in Node, NEW p \in Node, n # p,
         HandleTimeout(n, "poll", "rx") \/ HandleTimeout(n, "timeout", "netrx")
  PROVE  Exchange(n, p)' /\ Exchange(p, n)'
<1>0. TypeOK /\ Loop(n) /\ Clean
  BY DEF Inv, Loop, OnceInv
<1>1. UNCHANGED <<applicationTxFlag, applicationTxData, transportRxSegment, air,
                  delivered>>
  BY DEF HandleTimeout, appTxVars, history
<1>2. UNCHANGED <<transportTxFlag[p], transportTxSegment[p]>>
  BY <1>0, PeerKept
<1>3. Pipe(p, n)' = Pipe(p, n)
  BY <1>1, <1>2, PipeKept
<1>4. CASE Resend(n)
  <2>1. /\ Expired(n) /\ ~Unsent(n) /\ Unsent(n)'
        /\ transportTxSegment[n]' = transportTxSegment[n]
        /\ UNCHANGED <<transportConnectionState[n], transportConnectionType[n]>>
        /\ transport_timer[n]' # 0
    <3>1. Expired(n) /\ ~Unsent(n)
      BY <1>4, ExpiredIsClear DEF Resend
    <3>2. Unsent(n)' /\ transport_timer[n]' # 0
      BY <1>0, <1>4, TimerAssumption DEF TypeOK, Resend, Unsent, timer_reset
    <3> QED
      BY <1>4, <3>1, <3>2 DEF Resend, connVars
  <2>2. /\ Side(n)' = Side(n)
        /\ Side(n) \in DOMAIN Again
        /\ transportTxSegment[n].kind = Again[Side(n)]
        /\ transport_timer[n] = 0
    BY <1>0, <2>1, SideKept, SideFacts DEF Over
  <2>3. Appends(Pipe(n, p), Pipe(n, p)', Len(air[p]) + 1, transportTxSegment[n])
    BY <1>0, <1>1, <2>1, PipeExtended
  <2>4. Agrees(Side(n), transport_timer[n]', transportTxSegment[n].data,
               applicationTxFlag[n], applicationTxData[n], Pipe(n, p)',
               Side(p), transport_timer[p], Pipe(p, n), delivered[p])
    BY <2>1, <2>2, <2>3, BeforeLoop, ClientAgain
  <2>5. Agrees(Side(p), transport_timer[p], transportTxSegment[p].data,
               applicationTxFlag[p], applicationTxData[p], Pipe(p, n),
               Side(n), transport_timer[n]', Pipe(n, p)', delivered[n])
    BY <2>1, <2>2, <2>3, BeforeLoop, HostAgain
  <2> QED
    BY <1>0, <1>1, <1>3, <2>1, <2>2, <2>4, <2>5, AfterLoop
<1>5. CASE GiveUp(n)
  <2>1. /\ Expired(n) /\ ~Unsent(n)
        /\ transportTxFlag[n]' = transportTxFlag[n]
        /\ transportTxSegment[n]' = transportTxSegment[n]
        /\ transport_timer[n]' = transport_timer[n]
    <3>1. Expired(n) /\ ~Unsent(n)
      BY <1>5, ExpiredIsClear DEF GiveUp
    <3>2. transportTxFlag[n]' = transportTxFlag[n]
      BY <1>0, <1>5, <3>1 DEF TypeOK, GiveUp, Unsent
    <3> QED
      BY <1>5, <3>1, <3>2 DEF GiveUp
  <2>2. Side(n)' = "idle"
    BY <1>0, <1>5, BecomeEffect DEF GiveUp, Side
  <2>3. Over(Side(n), transport_timer[n])
    BY <1>0, <2>1, SideFacts
  <2>4. Pipe(n, p)' = Pipe(n, p)
    BY <1>1, <2>1, PipeKept
  <2>5. Agrees("idle", transport_timer[n], transportTxSegment[n].data,
               applicationTxFlag[n], applicationTxData[n], Pipe(n, p),
               Side(p), transport_timer[p], Pipe(p, n), delivered[p])
    BY <2>3, BeforeLoop, ClientGivesUp
  <2>6. Agrees(Side(p), transport_timer[p], transportTxSegment[p].data,
               applicationTxFlag[p], applicationTxData[p], Pipe(p, n),
               "idle", transport_timer[n], Pipe(n, p), delivered[n])
    BY <2>3, BeforeLoop, HostGivesUp
  <2> QED
    BY <1>0, <1>1, <1>3, <2>1, <2>2, <2>4, <2>5, <2>6, AfterLoop
<1>6. CASE UNCHANGED <<connVars, txVars, transport_timer>>
  <2>1. /\ Pipe(n, p)' = Pipe(n, p)
        /\ Side(n)' = Side(n)
        /\ transportTxSegment[n]' = transportTxSegment[n]
        /\ transport_timer[n]' = transport_timer[n]
    BY <1>1, <1>6, PipesKept, SideKept DEF connVars, txVars
  <2> QED
    BY <1>0, <1>1, <1>3, <2>1, BeforeLoop, AfterLoop
<1> QED
  BY <1>4, <1>5, <1>6 DEF HandleTimeout

(* The network layer's turns only take from the pipes. *)
LEMMA NetExchanges ==
  ASSUME TwoPromptNodes, Inv, OnceInv, NEW n \in Node, NEW p \in Node, n # p,
         NetRx(n) \/ NetTx(n)
  PROVE  Exchange(n, p)' /\ Exchange(p, n)'
<1>0. TypeOK /\ Loop(n) /\ Clean /\ Addressed
  BY DEF Inv, Loop, OnceInv
<1>1. UNCHANGED <<applicationTxFlag, applicationTxData, connVars,
                  transportTxSegment, transport_timer, delivered>>
  BY DEF NetRx, NetTx, appTxVars, txVars, history
<1>2. UNCHANGED <<transportTxFlag[p], transportTxSegment[p],
                  transportRxSegment[p]>>
  BY <1>0, PeerKept
<1>3. (\E u : Thins(u, Pipe(n, p), Pipe(n, p)'))
      /\ (\E u : Thins(u, Pipe(p, n), Pipe(p, n)'))
  <2>1. CASE NetRx(n)
    <3>1. UNCHANGED <<transportTxFlag[n], transportTxSegment[n]>>
      BY <2>1 DEF NetRx, txVars
    <3>2. CASE UNCHANGED <<transportRxSegment, air>>
      BY <1>2, <3>1, <3>2, PipeKept, ThinsItself
    <3>3. ASSUME NEW i \in 1 .. Len(air[n]),
                 i = 1 \/ "reorder" \in Faults,
                 transportRxSegment' = [transportRxSegment EXCEPT ![n] = air[n][i]],
                 \/ air' = [air EXCEPT ![n] = RemoveAt(@, i)]
                 \/ "duplicate" \in Faults /\ air' = air
          PROVE  (\E u : Thins(u, Pipe(n, p), Pipe(n, p)'))
                 /\ (\E u : Thins(u, Pipe(p, n), Pipe(p, n)'))
      <4>1. i = 1 /\ air' = [air EXCEPT ![n] = RemoveAt(@, 1)]
        BY <3>3 DEF TwoPromptNodes
      <4>2. /\ air[n]' = RemoveAt(air[n], 1)
            /\ air[p]' = air[p]
            /\ transportRxSegment[n]' = air[n][1]
        BY <1>0, <3>3, <4>1 DEF TypeOK
      <4>3. Pipe(n, p)' = Pipe(n, p)
        BY <1>2, <3>1, <4>2, PipeKept
      <4>4. \A k \in Nat : \/ Pipe(p, n)'[k].kind = "none"
                           \/ Pipe(p, n)'[k] =
                                IF k < 0 THEN Pipe(p, n)[k] ELSE Pipe(p, n)[k + 1]
        <5>1. 1 \in 1 .. Len(air[n]) /\ 0 \in {0, 1}
          BY <3>3, <4>1
        <5>2. transportRxSegment[n]' =
                IF 0 < 0 THEN transportRxSegment[n] ELSE air[n][1]
          BY <4>2
        <5> QED
          BY <1>0, <1>2, <4>2, <5>1, <5>2, PipeShifts
      <4> QED
        BY <4>3, <4>4, ThinsItself, ThinsByShift
    <3> QED
      BY <2>1, <3>2, <3>3 DEF NetRx
  <2>2. CASE NetTx(n)
    <3>0. UNCHANGED transportRxSegment /\ transportTxFlag[n]' = 0
      BY <1>0, <2>2 DEF TypeOK, NetTx
    <3>1. /\ air[n]' = air[n]
          /\ \/ air[p]' = air[p]
             \/ /\ Unsent(n)
                /\ transportTxSegment[n] \in Segment
                /\ air[p]' = Append(air[p], transportTxSegment[n])
      <4> DEFINE to == transportTxAddress[n]
      <4>1. CASE Unsent(n) /\ to \in Node /\ Len(air[to]) < MaxAir
        <5>1. to = p
          BY <1>0, <4>1, Peers DEF Addressed
        <5>2. air' = [air EXCEPT ![to] = Append(@, transportTxSegment[n])]
          BY <2>2, <4>1 DEF NetTx
        <5> HIDE DEF to
        <5>3. air' = [air EXCEPT ![p] = Append(@, transportTxSegment[n])]
          BY <5>1, <5>2
        <5> QED
          BY <1>0, <4>1, <5>3, UnsentIsSegment DEF TypeOK
      <4>2. CASE ~(Unsent(n) /\ to \in Node /\ Len(air[to]) < MaxAir)
        BY <2>2, <4>2 DEF NetTx
      <4> QED
        BY <4>1, <4>2
    <3>2. Pipe(p, n)' = Pipe(p, n)
      BY <1>2, <3>0, <3>1, PipeKept
    <3>3. \A k \in Nat : \/ Pipe(n, p)'[k].kind = "none"
                         \/ Pipe(n, p)'[k] = Pipe(n, p)[k]
      BY <1>0, <1>1, <3>0, <3>1, PipeSent
    <3> QED
      BY <3>2, <3>3, ThinsItself, ThinsInPlace
  <2> QED
    BY <2>1, <2>2
<1>4. PICK u, v : Thins(u, Pipe(n, p), Pipe(n, p)') /\ Thins(v, Pipe(p, n), Pipe(p, n)')
  BY <1>3
<1>5. Side(n)' = Side(n)
  BY <1>1, SideKept DEF connVars
<1>6. Agrees(Side(n), transport_timer[n], transportTxSegment[n].data,
             applicationTxFlag[n], applicationTxData[n], Pipe(n, p)',
             Side(p), transport_timer[p], Pipe(p, n)', delivered[p])
  BY <1>4, BeforeLoop, ThinAgrees
<1>7. Agrees(Side(p), transport_timer[p], transportTxSegment[p].data,
             applicationTxFlag[p], applicationTxData[p], Pipe(p, n)',
             Side(n), transport_timer[n], Pipe(n, p)', delivered[n])
  BY <1>4, BeforeLoop, ThinAgrees
<1> QED
  BY <1>0, <1>1, <1>5, <1>6, <1>7, AfterLoop

(* In its receiving turn a node takes the head of the pipe to it. *)
LEMMA RxFacts ==
  ASSUME Inv, NEW n \in Node, NEW p \in Node, n # p, HandleRx(n)
  PROVE  /\ applicationTxFlag[n] = 0 /\ applicationTxFlag[n]' = 0
         /\ applicationTxData[n]' = applicationTxData[n]
         /\ UNCHANGED <<air, transportRxSegment[p]>>
         /\ Pipe(p, n)[0] = transportRxSegment[n]
         /\ \A k \in Nat : \/ Pipe(p, n)'[k].kind = "none"
                           \/ k # 0 /\ Pipe(p, n)'[k] = Pipe(p, n)[k]
         /\ \E u : Thins(u, Pipe(p, n), Pipe(p, n)')
<1>0. TypeOK /\ Loop(n)
  BY DEF Inv, Loop
<1>1. applicationTxFlag[n] = 0
  BY DEF Inv, LoopHandover, HandleRx, Goto
<1>2. applicationTxFlag[n]' = 0
  BY <1>0, <1>1 DEF TypeOK, HandleRx
<1>3. UNCHANGED <<air, applicationTxData>> /\ transportRxSegment[n]' = NoSegment
  BY <1>0 DEF TypeOK, HandleRx
<1>4. UNCHANGED <<transportRxSegment[p], transportTxFlag[p], transportTxSegment[p]>>
  BY <1>0, PeerKept
<1>5. Pipe(p, n)[0] = transportRxSegment[n]
  BY DEF Pipe
<1>6. \A k \in Nat : \/ Pipe(p, n)'[k].kind = "none"
                     \/ k # 0 /\ Pipe(p, n)'[k] = Pipe(p, n)[k]
  BY <1>0, <1>3, <1>4, PipeTaken
<1>7. \E u : Thins(u, Pipe(p, n), Pipe(p, n)')
  BY <1>6, ThinsInPlace
<1> QED
  BY <1>1, <1>2, <1>3, <1>4, <1>5, <1>6, <1>7

(* The agreements of the two exchanges, with the pipe to n thinned. *)
LEMMA RxThinned ==
  ASSUME Inv, OnceInv, NEW n \in Node, NEW p \in Node, n # p, HandleRx(n)
  PROVE  /\ Agrees(Side(n), transport_timer[n], transportTxSegment[n].data,
                   applicationTxFlag[n], applicationTxData[n], Pipe(n, p),
                   Side(p), transport_timer[p], Pipe(p, n)', delivered[p])
         /\ Agrees(Side(p), transport_timer[p], transportTxSegment[p].data,
                   applicationTxFlag[p], applicationTxData[p], Pipe(p, n)',
                   Side(n), transport_timer[n], Pipe(n, p), delivered[n])
<1>1. PICK u : Thins(u, Pipe(p, n), Pipe(p, n)')
  BY RxFacts
<1>2. PICK v : Thins(v, Pipe(n, p), Pipe(n, p))
  BY ThinsItself
<1> QED
  BY <1>1, <1>2, BeforeLoop, ThinAgrees

(* A timer that is reset is not expired. *)
LEMMA ResetNotExpired ==
  ASSUME TypeOK, NEW n \in Node, timer_reset(n)
  PROVE  transport_timer[n]' # 0
BY TimerAssumption DEF TypeOK, timer_reset

(* transport_handle_rx, outcome by outcome. *)
LEMMA HandleRxExchanges ==
  ASSUME Inv, OnceInv, NEW n \in Node, NEW p \in Node, n # p, HandleRx(n)
  PROVE  Exchange(n, p)' /\ Exchange(p, n)'
<1>0. TypeOK /\ Loop(n) /\ Clean
  BY DEF Inv, Loop, OnceInv
<1> DEFINE head == Pipe(p, n)[0]
<1>1. /\ applicationTxFlag[n] = 0 /\ applicationTxFlag[n]' = 0
      /\ applicationTxData[n]' = applicationTxData[n]
      /\ UNCHANGED <<air, transportRxSegment[p]>>
      /\ head = transportRxSegment[n]
  BY RxFacts
<1>2. PICK u : Thins(u, Pipe(p, n), Pipe(p, n)')
  BY RxFacts
<1>3. \A k \in Nat : \/ Pipe(p, n)'[k].kind = "none"
                     \/ k # 0 /\ Pipe(p, n)'[k] = Pipe(p, n)[k]
  BY RxFacts
<1> HIDE DEF head
<1>4. ASSUME UNCHANGED <<transportTxFlag[n], transportTxSegment[n]>>
      PROVE  Pipe(n, p)' = Pipe(n, p)
  BY <1>1, <1>4, PipeKept
<1>5. CASE RxConnect(n)
  <2>1. /\ ~Unsent(n) /\ Side(n) = "idle" /\ head.kind = "CONNECT"
        /\ Emit(n, "ACCEPT", applicationTxEncryption[n], NoData)
        /\ Become(n, "CONN_OPEN", "HOST")
        /\ timer_reset(n)
        /\ delivered[n]' = delivered[n]
    BY <1>1, <1>5 DEF RxConnect, ReceivesConnect, Receives, InState, Side, history
  <2>2. /\ Appends(Pipe(n, p), Pipe(n, p)', Len(air[p]) + 1,
                   transportTxSegment[n]')
        /\ transportTxSegment[n]'.kind = "ACCEPT"
    BY <1>0, <1>1, <2>1, EmitPipes
  <2>3. Side(n)' = "accepts"
    BY <1>0, <2>1, BecomeEffect DEF Side, InState
  <2>4. transport_timer[n]' # 0
    BY <1>0, <2>1, ResetNotExpired
  <2>5. Agrees("accepts", transport_timer[n]', transportTxSegment[n].data',
               applicationTxFlag[n], applicationTxData[n], Pipe(n, p)',
               Side(p), transport_timer[p], Pipe(p, n)', delivered[p])
    BY <2>1, <2>2, <2>4, RxThinned, ClientIsHost
  <2>6. Agrees(Side(p), transport_timer[p], transportTxSegment[p].data,
               applicationTxFlag[p], applicationTxData[p], Pipe(p, n)',
               "accepts", transport_timer[n]', Pipe(n, p)', delivered[n])
    BY <1>2, <2>1, <2>2, <2>4, BeforeLoop, HostAccepts DEF head
  <2> QED
    BY <1>0, <1>1, <2>1, <2>3, <2>5, <2>6, AfterLoop
<1>6. CASE RxAccept(n)
  <2>1. /\ ~Unsent(n) /\ Side(n) = "asks" /\ head.kind = "ACCEPT"
        /\ Emit(n, "SEND", 0, applicationTxData[n])
        /\ Become(n, "CONN_DATA", "CLIENT")
        /\ timer_reset(n)
        /\ delivered[n]' = delivered[n]
    BY <1>1, <1>6 DEF RxAccept, ReceivesAccept, Receives, InState, Side, history
  <2>2. /\ Appends(Pipe(n, p), Pipe(n, p)', Len(air[p]) + 1,
                   transportTxSegment[n]')
        /\ transportTxSegment[n]'.kind = "SEND"
        /\ transportTxSegment[n]'.data = applicationTxData[n]
    BY <1>0, <1>1, <2>1, EmitPipes
  <2>3. Side(n)' = "sends"
    BY <1>0, <2>1, BecomeEffect DEF Side, InState
  <2>4. transport_timer[n]' # 0
    BY <1>0, <2>1, ResetNotExpired
  <2>5. Agrees("sends", transport_timer[n]', applicationTxData[n],
               applicationTxFlag[n], applicationTxData[n], Pipe(n, p)',
               Side(p), transport_timer[p], Pipe(p, n)', delivered[p])
    BY <1>1, <1>2, <2>1, <2>2, <2>4, BeforeLoop, ClientSends DEF head
  <2>6. Agrees(Side(p), transport_timer[p], transportTxSegment[p].data,
               applicationTxFlag[p], applicationTxData[p], Pipe(p, n)',
               "sends", transport_timer[n]', Pipe(n, p)', delivered[n])
    BY <2>1, <2>2, <2>4, RxThinned, HostIsClient
  <2> QED
    BY <1>0, <1>1, <2>1, <2>2, <2>3, <2>5, <2>6, AfterLoop
<1>7. CASE RxSend(n)
  <2>1. /\ ~Unsent(n) /\ Side(n) = "accepts" /\ head.kind = "SEND"
        /\ Emit(n, "ACK", 0, NoData)
        /\ Become(n, "CONN_DATA", "HOST")
        /\ timer_reset(n)
        /\ delivered[n]' = delivered[n] \cup {head.data.msg}
    BY <1>0, <1>1, <1>7
       DEF TypeOK, RxSend, ReceivesSend, Receives, InState, Side
  <2>2. /\ Appends(Pipe(n, p), Pipe(n, p)', Len(air[p]) + 1,
                   transportTxSegment[n]')
        /\ transportTxSegment[n]'.kind = "ACK"
    BY <1>0, <1>1, <2>1, EmitPipes
  <2>3. Side(n)' = "holds"
    BY <1>0, <2>1, BecomeEffect DEF Side, InState
  <2>4. transport_timer[n]' # 0
    BY <1>0, <2>1, ResetNotExpired
  <2>5. Agrees("holds", transport_timer[n]', transportTxSegment[n].data',
               applicationTxFlag[n], applicationTxData[n], Pipe(n, p)',
               Side(p), transport_timer[p], Pipe(p, n)', delivered[p])
    BY <2>1, <2>2, <2>4, RxThinned, ClientIsHost
  <2>6. Agrees(Side(p), transport_timer[p], transportTxSegment[p].data,
               applicationTxFlag[p], applicationTxData[p], Pipe(p, n)',
               "holds", transport_timer[n]', Pipe(n, p)',
               delivered[n] \cup {head.data.msg})
    BY <1>3, <2>1, <2>2, <2>4, BeforeLoop, HostTakes DEF head
  <2> QED
    BY <1>0, <1>1, <2>1, <2>3, <2>5, <2>6, AfterLoop
<1>8. CASE RxBusy(n) \/ RxIgnore(n)
  <2>1. /\ UNCHANGED <<transportConnectionState[n], transportConnectionType[n],
                       transportTxFlag[n], transportTxSegment[n], delivered[n]>>
        /\ transport_timer[n]' = transport_timer[n] \/ transport_timer[n]' # 0
    BY <1>0, <1>8, ResetNotExpired DEF RxBusy, RxIgnore, connVars, txVars, history
  <2>2. Side(n)' = Side(n) /\ Pipe(n, p)' = Pipe(n, p)
    BY <1>4, <2>1, SideKept
  <2>3. Agrees(Side(n), transport_timer[n]', transportTxSegment[n].data,
               applicationTxFlag[n], applicationTxData[n], Pipe(n, p),
               Side(p), transport_timer[p], Pipe(p, n)', delivered[p])
    BY <2>1, RxThinned, ResetAgrees
  <2>4. Agrees(Side(p), transport_timer[p], transportTxSegment[p].data,
               applicationTxFlag[p], applicationTxData[p], Pipe(p, n)',
               Side(n), transport_timer[n]', Pipe(n, p), delivered[n])
    BY <2>1, RxThinned, ResetAgrees
  <2> QED
    BY <1>0, <1>1, <2>1, <2>2, <2>3, <2>4, AfterLoop
<1>9. CASE RxAck(n)
  <2>1. /\ ~Unsent(n) /\ Side(n) = "sends" /\ head.kind = "ACK"
        /\ Emit(n, "CLOSE", 0, NoData)
        /\ Become(n, "IDLE", "NONE")
        /\ delivered[n]' = delivered[n]
    BY <1>1, <1>9 DEF RxAck, ReceivesAck, Receives, InState, Side
  <2>2. /\ Appends(Pipe(n, p), Pipe(n, p)', Len(air[p]) + 1,
                   transportTxSegment[n]')
        /\ transportTxSegment[n]'.kind = "CLOSE"
    BY <1>0, <1>1, <2>1, EmitPipes
  <2>3. Side(n)' = "idle"
    BY <1>0, <2>1, BecomeEffect DEF Side
  <2>4. Agrees("idle", transport_timer[n]', transportTxSegment[n].data',
               applicationTxFlag[n], applicationTxData[n], Pipe(n, p)',
               Side(p), transport_timer[p], Pipe(p, n)', delivered[p])
    BY <1>1, <1>3, <2>1, <2>2, BeforeLoop, ClientCloses DEF head
  <2>5. Agrees(Side(p), transport_timer[p], transportTxSegment[p].data,
               applicationTxFlag[p], applicationTxData[p], Pipe(p, n)',
               "idle", transport_timer[n]', Pipe(n, p)', delivered[n])
    BY <2>1, <2>2, RxThinned, HostIsClient
  <2> QED
    BY <1>0, <1>1, <2>1, <2>3, <2>4, <2>5, AfterLoop
<1>10. CASE RxRefusedData(n) \/ RxRefusedOpen(n)
  BY <1>0, <1>10 DEF RxRefusedData, RxRefusedOpen, RefusedData, RefusedOpen,
     Receives, transport_poll_rx, Clean
<1>11. CASE RxClose(n)
  <2>1. /\ Side(n) = "holds" /\ head.kind = "CLOSE"
        /\ Become(n, "IDLE", "NONE")
        /\ UNCHANGED <<transportTxFlag[n], transportTxSegment[n],
                       transport_timer[n], delivered[n]>>
    BY <1>1, <1>11
       DEF RxClose, ReceivesClose, Receives, InState, Side, txVars, history
  <2>2. Side(n)' = "idle" /\ Pipe(n, p)' = Pipe(n, p)
    BY <1>0, <1>4, <2>1, BecomeEffect DEF Side
  <2>3. Agrees("idle", transport_timer[n], transportTxSegment[n].data,
               applicationTxFlag[n], applicationTxData[n], Pipe(n, p),
               Side(p), transport_timer[p], Pipe(p, n)', delivered[p])
    BY <2>1, RxThinned, ClientWasHost
  <2>4. Agrees(Side(p), transport_timer[p], transportTxSegment[p].data,
               applicationTxFlag[p], applicationTxData[p], Pipe(p, n)',
               "idle", transport_timer[n], Pipe(n, p), delivered[n])
    BY <1>3, <2>1, BeforeLoop, HostIsClosed DEF head
  <2> QED
    BY <1>0, <1>1, <2>1, <2>2, <2>3, <2>4, AfterLoop
<1> QED
  BY <1>5, <1>6, <1>7, <1>8, <1>9, <1>10, <1>11 DEF HandleRx

-----------------------------------------------------------------------------
(* Every step keeps the invariant *)

(* The medium only loses, so it thins one pipe. *)
LEMMA MediumExchanges ==
  ASSUME TwoPromptNodes, Inv, OnceInv, NEW n \in Node, NEW p \in Node, n # p,
         NEW i \in 1 .. Len(air[p]), air' = [air EXCEPT ![p] = RemoveAt(@, i)],
         UNCHANGED <<appTxVars, connVars, txVars, transportRxSegment,
                     transport_timer, delivered>>
  PROVE  Exchange(n, p)' /\ Exchange(p, n)'
<1>0. TypeOK /\ i \in Nat /\ 0 < i
  <2>1. TypeOK
    BY DEF Inv
  <2>2. Len(air[p]) \in Nat
    BY <2>1, LenProperties DEF TypeOK
  <2> QED
    BY <2>1, <2>2
<1>1. air[p]' = RemoveAt(air[p], i) /\ air[n]' = air[n]
  BY <1>0 DEF TypeOK
<1>2. UNCHANGED <<transportTxFlag, transportTxSegment, applicationTxFlag,
                  applicationTxData>>
  BY DEF txVars, appTxVars
<1>3. Pipe(p, n)' = Pipe(p, n)
  BY <1>1, <1>2, PipeKept
<1>4. \A k \in Nat : \/ Pipe(n, p)'[k].kind = "none"
                     \/ Pipe(n, p)'[k] =
                          IF k < i THEN Pipe(n, p)[k] ELSE Pipe(n, p)[k + 1]
  <2>1. i \in {0, i} /\ (i = 0 => i = 1)
        /\ transportRxSegment[p]' =
             IF 0 < i THEN transportRxSegment[p] ELSE air[p][1]
    BY <1>0
  <2>2. UNCHANGED <<transportTxFlag[n], transportTxSegment[n]>>
    BY <1>2
  <2> QED
    BY <1>0, <1>1, <2>1, <2>2, PipeShifts
<1>5. PICK u : Thins(u, Pipe(n, p), Pipe(n, p)')
  BY <1>0, <1>4, ThinsByShift
<1>6. PICK v : Thins(v, Pipe(p, n), Pipe(p, n))
  BY ThinsItself
<1>7. Side(n)' = Side(n) /\ Side(p)' = Side(p)
  BY SideKept DEF connVars
<1>8. Agrees(Side(n), transport_timer[n], transportTxSegment[n].data,
             applicationTxFlag[n], applicationTxData[n], Pipe(n, p)',
             Side(p), transport_timer[p], Pipe(p, n), delivered[p])
  BY <1>5, <1>6, BeforeLoop, ThinAgrees
<1>9. Agrees(Side(p), transport_timer[p], transportTxSegment[p].data,
             applicationTxFlag[p], applicationTxData[p], Pipe(p, n),
             Side(n), transport_timer[n], Pipe(n, p)', delivered[n])
  BY <1>5, <1>6, BeforeLoop, ThinAgrees
<1> QED
  BY <1>2, <1>3, <1>7, <1>8, <1>9 DEF Exchange

(* Time passes only while both pipes are empty. *)
LEMMA TickExchanges ==
  ASSUME TwoPromptNodes, Inv, OnceInv, NEW n \in Node, NEW p \in Node, n # p,
         NEW m \in Node, Tick(m)
  PROVE  Exchange(n, p)'
<1>1. /\ Quiet
      /\ UNCHANGED <<appTxVars, connVars, txVars, transportRxSegment, air,
                     delivered>>
  BY DEF TwoPromptNodes, Tick, history
<1>2. Clear(Pipe(n, p)) /\ Clear(Pipe(p, n))
  <2>1. NoSegment.kind = "none" /\ Len(<< >>) = 0
    BY DEF NoSegment
  <2>2. /\ air[n] = <<>> /\ transportRxSegment[n] = NoSegment /\ ~Unsent(n)
        /\ air[p] = <<>> /\ transportRxSegment[p] = NoSegment /\ ~Unsent(p)
    BY <1>1 DEF Quiet, Unsent
  <2> QED
    BY <2>1, <2>2 DEF Clear, Pipe
<1>3. /\ Pipe(n, p)' = Pipe(n, p) /\ Pipe(p, n)' = Pipe(p, n)
      /\ Side(n)' = Side(n) /\ Side(p)' = Side(p)
  BY <1>1, PipesKept, SideKept DEF connVars, txVars
<1>4. Agrees(Side(n), transport_timer[n]', transportTxSegment[n].data,
             applicationTxFlag[n], applicationTxData[n], Pipe(n, p),
             Side(p), transport_timer[p]', Pipe(p, n), delivered[p])
  BY <1>2, BeforeLoop, QuietAgrees
<1> QED
  BY <1>1, <1>3, <1>4 DEF Exchange, appTxVars, txVars

(* An exchange is a matter of the two nodes' state. *)
LEMMA StutterExchanges ==
  ASSUME OnceInv, NEW n \in Node, NEW p \in Node, n # p, UNCHANGED vars
  PROVE  Exchange(n, p)'
<1>1. UNCHANGED <<appTxVars, connVars, txVars, transportRxSegment,
                  transport_timer, air, delivered>>
  BY DEF vars, history
<1>2. /\ Pipe(n, p)' = Pipe(n, p) /\ Pipe(p, n)' = Pipe(p, n)
      /\ Side(n)' = Side(n) /\ Side(p)' = Side(p)
  BY <1>1, PipesKept, SideKept DEF connVars, txVars
<1> QED
  BY <1>1, <1>2, BeforeLoop DEF Exchange, appTxVars, txVars

(* A turn with nothing to poll keeps the exchanges. *)
LEMMA SkipExchanges ==
  ASSUME Inv, OnceInv, NEW n \in Node, NEW p \in Node, n # p,
         SkipTx(n) \/ SkipRx(n)
  PROVE  Exchange(n, p)' /\ Exchange(p, n)'
<1>1. UNCHANGED <<appTxVars, connVars, txVars, transportRxSegment,
                  transport_timer, air, delivered>>
  BY DEF SkipTx, SkipRx, history
<1>2. /\ Pipe(n, p)' = Pipe(n, p) /\ Pipe(p, n)' = Pipe(p, n)
      /\ Side(n)' = Side(n) /\ Side(p)' = Side(p)
  BY <1>1, PipesKept, SideKept DEF connVars, txVars
<1> QED
  BY <1>1, <1>2, BeforeLoop DEF Exchange, appTxVars, txVars

(* Every step keeps the exchanges, in both directions. *)
LEMMA NextExchanges ==
  ASSUME TwoPromptNodes, Inv, OnceInv, [Next]_vars
  PROVE  Exchanges'
<1>1. ASSUME NEW n \in Node, NEW p \in Node, n # p, Loop(n)
      PROVE  Exchange(n, p)' /\ Exchange(p, n)'
  BY <1>1, AppExchanges, HandleTxExchanges, SkipExchanges, TimeoutExchanges,
     HandleRxExchanges, NetExchanges DEF Loop
<1>2. ASSUME NEW n \in Node, NEW p \in Node, n # p,
             NEW i \in 1 .. Len(air[p]), Lose(p, i), Medium
      PROVE  Exchange(n, p)' /\ Exchange(p, n)'
  <2>1. air' = [air EXCEPT ![p] = RemoveAt(@, i)]
    BY <1>2 DEF Lose
  <2>2. UNCHANGED <<appTxVars, connVars, txVars, transportRxSegment,
                    transport_timer, delivered>>
    BY <1>2 DEF Medium, history
  <2> QED
    BY <1>2, <2>1, <2>2, MediumExchanges
<1> SUFFICES ASSUME NEW n \in Node, NEW p \in Node, n # p
             PROVE  Exchange(n, p)'
  BY DEF Exchanges
<1>3. \A m \in Node : m = n \/ m = p
  BY Peers
<1>4. CASE Medium
  <2>1. PICK m \in Node : \E i \in 1 .. Len(air[m]) : Lose(m, i)
    BY <1>4 DEF Medium, TwoPromptNodes, Corrupt, Refuse
  <2>2. PICK i \in 1 .. Len(air[m]) : Lose(m, i)
    BY <2>1
  <2> QED
    BY <1>2, <1>3, <1>4, <2>2
<1>5. ASSUME NEW m \in Node, Loop(m)
      PROVE  Exchange(n, p)'
  BY <1>1, <1>3, <1>5
<1>6. ASSUME NEW m \in Node, Tick(m)
      PROVE  Exchange(n, p)'
  BY <1>6, TickExchanges
<1>7. CASE UNCHANGED vars
  BY <1>7, StutterExchanges
<1> QED
  BY <1>4, <1>5, <1>6, <1>7 DEF Next

(* What is sent is never damaged nor a refusal. *)
LEMMA NextClean ==
  ASSUME TwoPromptNodes, Inv, Clean, [Next]_vars
  PROVE  Clean'
<1>0. TypeOK
  BY DEF Inv
<1> DEFINE Whole(seg) == seg.sound /\ seg.kind # "NACK"
<1>1. CASE UNCHANGED <<transportConnectionState, transportRxSegment, air>>
  BY <1>1 DEF Clean
<1>2. CASE Medium
  <2>1. PICK m \in Node : \E i \in 1 .. Len(air[m]) : Lose(m, i)
    BY <1>2 DEF Medium, TwoPromptNodes, Corrupt, Refuse
  <2>2. PICK i \in 1 .. Len(air[m]) : air' = [air EXCEPT ![m] = RemoveAt(@, i)]
    BY <2>1 DEF Lose
  <2>3. air[m] \in Seq(Segment)
    BY <1>0 DEF TypeOK
  <2>4. \A j \in 1 .. Len(RemoveAt(air[m], i)) :
          \E k \in 1 .. Len(air[m]) : RemoveAt(air[m], i)[j] = air[m][k]
    BY <2>2, <2>3, RemoveAtType
  <2>5. /\ air'[m] = RemoveAt(air[m], i)
        /\ \A n \in Node \ {m} : air'[n] = air[n]
    BY <1>0, <2>2 DEF TypeOK
  <2>6. UNCHANGED <<transportConnectionState, transportRxSegment>>
    BY <1>2 DEF Medium, connVars
  <2>7. \A n \in Node : \A j \in 1 .. Len(air'[n]) : Whole(air'[n][j])
    BY <2>4, <2>5 DEF Clean
  <2> QED
    BY <2>6, <2>7 DEF Clean
<1>3. ASSUME NEW n \in Node, Loop(n)
      PROVE  Clean'
  <2>1. CASE HandleTx(n)
    <3>1. UNCHANGED <<transportRxSegment, air>>
      BY <2>1 DEF HandleTx
    <3>2. \A m \in Node : transportConnectionState[m]' # "CONN_FAIL"
      BY <1>0, <2>1, BecomeEffect DEF HandleTx, Clean, connVars
    <3> QED
      BY <3>1, <3>2 DEF Clean
  <2>2. CASE \E from, to : HandleTimeout(n, from, to)
    <3>1. UNCHANGED <<transportRxSegment, air>>
      BY <2>2 DEF HandleTimeout
    <3>2. \A m \in Node : transportConnectionState[m]' # "CONN_FAIL"
      BY <1>0, <2>2, BecomeEffect
         DEF HandleTimeout, Resend, GiveUp, Clean, connVars
    <3> QED
      BY <3>1, <3>2 DEF Clean
  <2>3. CASE HandleRx(n)
    <3>1. air' = air /\ transportRxSegment' =
                          [transportRxSegment EXCEPT ![n] = NoSegment]
      BY <2>3 DEF HandleRx
    <3>2. ~RxRefusedOpen(n)
      BY DEF RxRefusedOpen, RefusedOpen, Receives, transport_poll_rx, Clean
    <3>3. \A m \in Node : transportConnectionState[m]' # "CONN_FAIL"
      BY <1>0, <2>3, <3>2, BecomeEffect
         DEF HandleRx, RxConnect, RxAccept, RxSend, RxBusy, RxAck,
             RxRefusedData, RxClose, RxIgnore, Clean, connVars
    <3>4. \A m \in Node : transportRxSegment'[m] # NoSegment =>
            transportRxSegment'[m] = transportRxSegment[m]
      BY <1>0, <3>1 DEF TypeOK
    <3> QED
      BY <3>1, <3>3, <3>4 DEF Clean
  <2>4. CASE NetRx(n)
    <3>1. UNCHANGED transportConnectionState
      BY <2>4 DEF NetRx, connVars
    <3>2. CASE UNCHANGED <<transportRxSegment, air>>
      BY <3>1, <3>2 DEF Clean
    <3>3. ASSUME NEW i \in 1 .. Len(air[n]),
                 transportRxSegment' = [transportRxSegment EXCEPT ![n] = air[n][i]],
                 \/ air' = [air EXCEPT ![n] = RemoveAt(@, i)]
                 \/ "duplicate" \in Faults /\ air' = air
          PROVE  Clean'
      <4>1. air' = [air EXCEPT ![n] = RemoveAt(@, i)]
        BY <3>3 DEF TwoPromptNodes
      <4>2. air[n] \in Seq(Segment)
        BY <1>0 DEF TypeOK
      <4>3. \A j \in 1 .. Len(RemoveAt(air[n], i)) :
              \E k \in 1 .. Len(air[n]) : RemoveAt(air[n], i)[j] = air[n][k]
        BY <4>2, RemoveAtType
      <4>4. /\ air'[n] = RemoveAt(air[n], i)
            /\ \A m \in Node \ {n} : air'[m] = air[m]
        BY <1>0, <4>1 DEF TypeOK
      <4>5. \A m \in Node : \A j \in 1 .. Len(air'[m]) : Whole(air'[m][j])
        BY <4>3, <4>4 DEF Clean
      <4>6. \A m \in Node : transportRxSegment'[m] # NoSegment =>
              Whole(transportRxSegment'[m])
        BY <1>0, <3>3 DEF TypeOK, Clean
      <4> QED
        BY <3>1, <4>5, <4>6 DEF Clean
    <3> QED
      BY <2>4, <3>2, <3>3 DEF NetRx
  <2>5. CASE NetTx(n)
    <3>1. UNCHANGED <<transportConnectionState, transportRxSegment>>
      BY <2>5 DEF NetTx, connVars
    <3> DEFINE to == transportTxAddress[n]
               seg == transportTxSegment[n]
    <3>2. CASE Unsent(n) /\ to \in Node /\ Len(air[to]) < MaxAir
      <4>1. seg \in Segment /\ air[to] \in Seq(Segment)
        BY <1>0, <3>2, UnsentIsSegment DEF TypeOK
      <4>2. seg.sound
        BY <4>1, NoDataFacts DEF Inv, TxCarries
      <4>3. seg.kind # "NACK"
        BY <3>2 DEF Inv, ResendMatchesRole, RoleSegment
      <4>4. air' = [air EXCEPT ![to] = Append(@, seg)]
        BY <2>5, <3>2 DEF NetTx
      <4> HIDE DEF to, seg
      <4>5. /\ air'[to] = Append(air[to], seg)
            /\ \A m \in Node \ {to} : air'[m] = air[m]
        BY <1>0, <3>2, <4>4 DEF TypeOK
      <4>6. \A j \in 1 .. Len(air'[to]) :
              \/ air'[to][j] = seg
              \/ j \in 1 .. Len(air[to]) /\ air'[to][j] = air[to][j]
        BY <4>1, <4>5, AppendProperties
      <4>7. ASSUME NEW m \in Node, NEW j \in 1 .. Len(air'[m])
            PROVE  Whole(air'[m][j])
        <5>1. CASE m = to
          BY <3>2, <4>2, <4>3, <4>6, <5>1 DEF Clean
        <5>2. CASE m # to
          BY <4>5, <5>2 DEF Clean
        <5> QED
          BY <5>1, <5>2
      <4> QED
        BY <3>1, <4>7 DEF Clean
    <3>3. CASE ~(Unsent(n) /\ to \in Node /\ Len(air[to]) < MaxAir)
      <4>1. air' = air
        BY <2>5, <3>3 DEF NetTx
      <4> QED
        BY <3>1, <4>1 DEF Clean
    <3> QED
      BY <3>2, <3>3
  <2> QED
    BY <1>1, <1>3, <2>1, <2>2, <2>3, <2>4, <2>5
       DEF Loop, App, SkipTx, SkipRx, connVars
<1>4. ASSUME NEW n \in Node, Tick(n)
      PROVE  Clean'
  BY <1>1, <1>4 DEF Tick, connVars
<1>5. CASE UNCHANGED vars
  BY <1>1, <1>5 DEF vars, connVars
<1> QED
  BY <1>2, <1>3, <1>4, <1>5 DEF Next

(* No application writes to its own node, so no node sends to itself. *)
LEMMA NextAddressed ==
  ASSUME Inv, Counted, Addressed, [Next]_vars
  PROVE  Addressed'
<1>0. TypeOK
  BY DEF Inv
<1>1. CASE UNCHANGED <<applicationTxAddress, transportTxAddress>>
  BY <1>1 DEF Addressed
<1>2. ASSUME NEW n \in Node, NEW kind, NEW key, NEW data,
             Emit(n, kind, key, data), UNCHANGED applicationTxAddress
      PROVE  Addressed'
  BY <1>0, <1>2 DEF TypeOK, Emit, Addressed
<1>3. ASSUME NEW n \in Node, Loop(n)
      PROVE  Addressed'
  <2>1. CASE App(n)
    <3>1. UNCHANGED transportTxAddress
      BY <2>1 DEF App, txVars
    <3>2. \/ UNCHANGED applicationTxAddress
          \/ \E to \in Node \ {n} :
               applicationTxAddress' = [applicationTxAddress EXCEPT ![n] = to]
      BY <2>1 DEF App, application_handle_tx, appTxVars
    <3> QED
      BY <1>0, <3>1, <3>2 DEF TypeOK, Addressed
  <2>2. CASE HandleTx(n)
    <3>1. UNCHANGED applicationTxAddress
      BY <2>2 DEF HandleTx
    <3> QED
      BY <1>1, <1>2, <2>2, <3>1 DEF HandleTx, txVars
  <2>3. CASE HandleRx(n)
    <3>1. UNCHANGED applicationTxAddress
      BY <2>3 DEF HandleRx
    <3>2. \/ UNCHANGED transportTxAddress
          \/ \E kind, key, data : Emit(n, kind, key, data)
      BY <2>3 DEF HandleRx, RxConnect, RxAccept, RxSend, RxBusy, RxAck,
         RxRefusedData, RxRefusedOpen, RxClose, RxIgnore, txVars
    <3> QED
      BY <1>1, <1>2, <3>1, <3>2
  <2> QED
    BY <1>1, <1>3, <2>1, <2>2, <2>3 DEF Loop, SkipTx, SkipRx, HandleTimeout,
       Resend, GiveUp, NetRx, NetTx, appTxVars, txVars
<1> QED
  BY <1>1, <1>3 DEF Next, Medium, Tick, vars, appTxVars, txVars

(* Numbers grow, and only what was handed over is delivered. *)
LEMMA NextCounted ==
  ASSUME Inv, Counted, [Next]_vars
  PROVE  Counted'
<1>0. TypeOK
  BY DEF Inv
<1>1. CASE UNCHANGED <<handed, offered, delivered>>
  BY <1>1 DEF Counted
<1>2. ASSUME NEW n \in Node, Loop(n)
      PROVE  Counted'
  <2>1. CASE App(n)
    <3>1. UNCHANGED delivered
      BY <2>1 DEF App
    <3>2. ASSUME NEW to \in Node \ {n}, NEW port \in Port,
                 application_handle_tx(n, to, port)
          PROVE  Counted'
      <4>0. /\ handed \in [Node -> Nat]
            /\ \A m \in offered : m.from \in Node /\ m.no \in Nat
        <5>1. \A k \in 0 .. MaxMsgs : k \in Nat
          BY BoundAssumption
        <5>2. handed \in [Node -> Nat]
          BY <1>0, <5>1 DEF TypeOK
        <5>3. \A m \in offered : m \in Message
          BY <1>0 DEF TypeOK
        <5>4. \A m \in Message : m.from \in Node /\ m.no \in 1 .. MaxMsgs
          BY DEF Message
        <5> QED
          BY <5>2, <5>3, <5>4, BoundAssumption
      <4>1. handed' = [handed EXCEPT ![n] = @ + 1]
        BY <3>2 DEF application_handle_tx
      <4>2. \A m \in offered : m.no <= handed'[m.from]
        BY <4>0, <4>1 DEF Counted
      <4>3. CASE UNCHANGED offered
        BY <3>1, <4>2, <4>3 DEF Counted
      <4>4. CASE /\ applicationTxData[n]'.msg.from = n
                 /\ applicationTxData[n]'.msg.no = handed[n] + 1
                 /\ offered' = offered \cup {applicationTxData[n]'.msg}
        <5> PICK new : new = applicationTxData[n]'.msg
          OBVIOUS
        <5>1. new.no <= handed'[new.from]
          BY <4>0, <4>1, <4>4
        <5>2. \A m \in offered' : m.no <= handed'[m.from]
          BY <4>2, <4>4, <5>1
        <5>3. \A m \in Node : delivered'[m] \subseteq offered'
          BY <3>1, <4>4 DEF Counted
        <5> QED
          BY <5>2, <5>3 DEF Counted
      <4> QED
        BY <1>0, <3>2, <4>3, <4>4, HandOverFresh
    <3> QED
      BY <1>1, <2>1, <3>1, <3>2 DEF App
  <2>2. CASE HandleRx(n) /\ RxSend(n)
    <3>1. transportRxSegment[n].data.msg \in offered
      BY <2>2, SendIsData DEF RxSend
    <3>2. /\ delivered' = [delivered EXCEPT ![n] =
                             @ \cup {transportRxSegment[n].data.msg}]
          /\ offered' = offered /\ handed' = handed
      BY <2>2 DEF RxSend, HandleRx
    <3> QED
      BY <1>0, <3>1, <3>2 DEF TypeOK, Counted
  <2>3. CASE ~App(n) /\ ~(HandleRx(n) /\ RxSend(n))
    BY <1>1, <1>2, <2>3 DEF Loop, HandleTx, SkipTx, HandleTimeout, HandleRx,
       SkipRx, NetRx, NetTx, RxConnect, RxAccept, RxBusy, RxAck, RxRefusedData,
       RxRefusedOpen, RxClose, RxIgnore, history
  <2> QED
    BY <2>1, <2>2, <2>3
<1> QED
  BY <1>1, <1>2 DEF Next, Medium, Tick, vars, history

-----------------------------------------------------------------------------
(* The theorems *)

(* An acknowledged message was delivered. *)
Acknowledged == Inv /\ OnceInv /\ AckedWasDelivered

(* It holds when the nodes have been initialised. *)
LEMMA InitOnce ==
  ASSUME Init
  PROVE  OnceInv /\ AckedWasDelivered
<1>1. Clean
  <2>1. \A n \in Node : Len(air[n]) = 0
    BY DEF Init
  <2> QED
    BY <2>1 DEF Init, Clean
<1>2. Addressed /\ Counted /\ AckedWasDelivered
  BY NodeAssumption DEF Init, Addressed, Counted, AckedWasDelivered
<1>3. Exchanges
  <2> SUFFICES ASSUME NEW n \in Node, NEW p \in Node, n # p
               PROVE  Exchange(n, p)
    BY DEF Exchanges
  <2>1. NoSegment.kind = "none" /\ Len(<< >>) = 0
    BY DEF NoSegment
  <2>2. (\A k \in Nat : Pipe(n, p)[k].kind = "none")
        /\ (\A k \in Nat : Pipe(p, n)[k].kind = "none")
    BY <2>1 DEF Init, Pipe, Unsent
  <2>3. Side(n) = "idle" /\ Side(p) = "idle" /\ applicationTxFlag[n] = 0
    BY DEF Init, Side
  <2> QED
    BY <2>2, <2>3 DEF Exchange, Agrees, Patience, Over, AckLast, CloseAlone,
       AcceptHeld, SendOnce, ConnectHeld, Settled, Fresh
<1> QED
  BY <1>1, <1>2, <1>3 DEF OnceInv

(* A client that takes an ACK has been told of its own data. *)
LEMMA AckIsOfData ==
  ASSUME TwoPromptNodes, Inv, OnceInv, NEW n \in Node, HandleRx(n), RxAck(n)
  PROVE  \E p \in Node : transportTxSegment[n].data.msg \in delivered[p]
<1>1. PICK p \in Node : p # n
  BY HasPeer
<1>2. Pipe(p, n)[0].kind = "ACK" /\ Side(n) = "sends"
  BY <1>1, RxFacts DEF RxAck, ReceivesAck, Receives, InState, Side
<1>3. Agrees(Side(n), transport_timer[n], transportTxSegment[n].data,
             applicationTxFlag[n], applicationTxData[n], Pipe(n, p),
             Side(p), transport_timer[p], Pipe(p, n), delivered[p])
  BY <1>1, BeforeLoop
<1> QED
  BY <1>2, <1>3, AckTellsDelivered

(* What a host takes is new to its application. *)
LEMMA TakenIsNew ==
  ASSUME TwoPromptNodes, Inv, OnceInv, NEW n \in Node, HandleRx(n), RxSend(n)
  PROVE  transportRxSegment[n].data.msg \notin delivered[n]
<1>1. PICK p \in Node : p # n
  BY HasPeer
<1>2. /\ Pipe(p, n)[0] = transportRxSegment[n]
      /\ Pipe(p, n)[0].kind = "SEND"
      /\ Side(n) = "accepts"
  BY <1>1, RxFacts DEF RxSend, ReceivesSend, Receives, InState, Side
<1>3. Agrees(Side(p), transport_timer[p], transportTxSegment[p].data,
             applicationTxFlag[p], applicationTxData[p], Pipe(p, n),
             Side(n), transport_timer[n], Pipe(n, p), delivered[n])
  BY <1>1, BeforeLoop
<1>4. Pipe(p, n)[0].data.msg \notin delivered[n]
  BY <1>2, <1>3, SendIsNew
<1> QED
  BY <1>2, <1>4

(* Every step keeps all of it. *)
LEMMA NextOnce ==
  ASSUME TwoPromptNodes, Acknowledged, [Next]_vars
  PROVE  Acknowledged'
<1>0. Inv /\ OnceInv /\ TypeOK /\ AckedWasDelivered
  BY DEF Acknowledged, Inv
<1>1. Inv'
  BY <1>0, NextInv
<1>2. OnceInv'
  BY <1>0, NextClean, NextAddressed, NextCounted, NextExchanges DEF OnceInv
<1>3. AckedWasDelivered'
  <2>1. CASE UNCHANGED <<delivered, acked>>
    BY <1>0, <2>1 DEF AckedWasDelivered
  <2>2. ASSUME NEW n \in Node, Loop(n)
        PROVE  AckedWasDelivered'
    <3>1. CASE HandleRx(n) /\ RxSend(n)
      <4>1. /\ acked' = acked
            /\ \A m \in Node : delivered[m] \subseteq delivered'[m]
        BY <1>0, <3>1 DEF TypeOK, RxSend
      <4> QED
        BY <1>0, <4>1 DEF AckedWasDelivered
    <3>2. CASE HandleRx(n) /\ RxAck(n)
      <4>1. /\ acked' = acked \cup {transportTxSegment[n].data.msg}
            /\ delivered' = delivered
        BY <3>2 DEF RxAck
      <4>2. \E p \in Node : transportTxSegment[n].data.msg \in delivered[p]
        BY <1>0, <3>2, AckIsOfData
      <4> QED
        BY <1>0, <4>1, <4>2 DEF AckedWasDelivered
    <3>3. CASE ~(HandleRx(n) /\ (RxSend(n) \/ RxAck(n)))
      BY <2>1, <2>2, <3>3 DEF Loop, App, HandleTx, SkipTx, HandleTimeout,
         HandleRx, SkipRx, NetRx, NetTx, RxConnect, RxAccept, RxBusy,
         RxRefusedData, RxRefusedOpen, RxClose, RxIgnore, history
    <3> QED
      BY <3>1, <3>2, <3>3
  <2> QED
    BY <2>1, <2>2 DEF Next, Medium, Tick, vars, history
<1> QED
  BY <1>1, <1>2, <1>3 DEF Acknowledged

(* Data reach an application only when a host takes a SEND. *)
LEMMA OnceStep ==
  ASSUME TwoPromptNodes, Inv, OnceInv, [Next]_vars, NEW n \in Node,
         applicationRxData[n] = NoData, applicationRxData[n]' # NoData
  PROVE  applicationRxData[n]'.msg \notin delivered[n]
<1>0. TypeOK
  BY DEF Inv
<1>1. ASSUME NEW m \in Node, Loop(m)
      PROVE  applicationRxData[n]'.msg \notin delivered[n]
  <2>1. CASE m # n
    BY <1>0, <1>1, <2>1, LoopFrame
  <2>2. CASE m = n
    <3>1. CASE HandleRx(n) /\ RxSend(n)
      <4>1. applicationRxData[n]' = transportRxSegment[n].data
        BY <1>0, <3>1 DEF TypeOK, RxSend
      <4> QED
        BY <3>1, <4>1, TakenIsNew
    <3>2. CASE App(n)
      BY <1>0, <3>2 DEF TypeOK, App, application_handle_rx
    <3>3. CASE ~(HandleRx(n) /\ RxSend(n)) /\ ~App(n)
      BY <1>1, <2>2, <3>3 DEF Loop, HandleTx, SkipTx, HandleTimeout,
         HandleRx, SkipRx, NetRx, NetTx, RxConnect, RxAccept, RxBusy, RxAck,
         RxRefusedData, RxRefusedOpen, RxClose, RxIgnore, appRxVars
    <3> QED
      BY <3>1, <3>2, <3>3
  <2> QED
    BY <2>1, <2>2
<1> QED
  BY <1>1 DEF Next, Medium, Tick, vars, appRxVars

(* Between two nodes on a prompt medium that may lose segments, what is    *)
(* under way always fits the sides the two nodes are on.                   *)
THEOREM OnceInvariance ==
  ASSUME TwoPromptNodes
  PROVE  Spec => []Acknowledged
<1>1. Init => Acknowledged
  BY InitInv, InitOnce DEF Acknowledged
<1>2. Acknowledged /\ [Next]_vars => Acknowledged'
  BY NextOnce
<1> QED
  BY <1>1, <1>2, PTL DEF Spec

(* There a client that closes on an ACK (transport.c:205) closes on the    *)
(* ACK of its own data: the host has delivered them.                       *)
THEOREM AckIsOfDelivered ==
  ASSUME TwoPromptNodes
  PROVE  Spec => []AckedWasDelivered
<1>1. Acknowledged => AckedWasDelivered
  BY DEF Acknowledged
<1> QED
  BY <1>1, OnceInvariance, PTL

(* There no message is given to the host's application a second time,      *)
(* whatever is lost and sent again (transport.c:186).                      *)
THEOREM DeliveredNoMore ==
  ASSUME TwoPromptNodes
  PROVE  Spec => DeliveredOnce
<1>1. Acknowledged /\ [Next]_vars =>
        [\A n \in Node :
           applicationRxData[n] = NoData /\ applicationRxData[n]' # NoData
             => applicationRxData[n]'.msg \notin delivered[n]]_vars
  BY OnceStep DEF Acknowledged
<1> QED
  BY <1>1, OnceInvariance, PTL DEF Spec, DeliveredOnce

=============================================================================
