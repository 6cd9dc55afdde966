----------------------------- MODULE HttpProofs -----------------------------
(***************************************************************************)
(* Theorems about HttpServer, for any connections, requests and pieces:    *)
(* the list, the sockets, the callbacks handed out and the answers agree,  *)
(* and answers go out complete and in the order of the requests.           *)
(*                                                                         *)
(* The invariant says of each connection what its last bytes on the wire   *)
(* and its exchanges must be, given what it is doing; a member function is *)
(* shown to lead from one such state to another.                           *)
(***************************************************************************)
EXTENDS HttpServer, SequenceTheorems, FiniteSetTheorems, TLAPS

USE HttpServerAssumption

\* The state of a connection, field by field.
Byte == [req : Nat, part : Int, end : BOOLEAN]
State ==
  [sock : {"none", "open", "draining", "gone"}, listed : BOOLEAN, buffer : Seq(Input),
   owes : BOOLEAN, arrived : Nat, count : Nat, parsed : BOOLEAN, keep : BOOLEAN,
   await : BOOLEAN, closing : BOOLEAN, last : BOOLEAN, cur : Nat, streaming : BOOLEAN,
   headSent : BOOLEAN, queued : Nat, idle : BOOLEAN, again : BOOLEAN, late : BOOLEAN,
   lateHead : BOOLEAN, left : 0 .. Pieces, x : Seq(Exchange), wire : Seq(Byte)]

\* The requests in a buffer, the pieces of the n-th response on the wire, and what
\* went out last.
NonBody(q) == {i \in 1 .. Len(q) : q[i] # "body"}
Requests(q) == Cardinality(NonBody(q))
Out(w, n) == {i \in 1 .. Len(w) : w[i].req = n /\ w[i].part > 0}
Sent(w, n) == Cardinality(Out(w, n))
Nothing == Bytes(0, 0, TRUE)
LastOf(w) == IF w = <<>> THEN Nothing ELSE w[Len(w)]

\* An exchange that will never be a stream: answered, or never handed out.
Settled(e) == ~e.streaming /\ (e.responded \/ ~e.born)

\* After t, u may go out; and everything that did went out in such an order.
Goes(x, t, u) ==
  \/ /\ u.req = t.req /\ ~t.end
     /\ u.part = t.part + 1 \/ (t.part = -1 /\ u.part = 1 /\ Settled(x[u.req]))
  \/ /\ u.req = t.req + 1 /\ t.end
     /\ u.part < 2 /\ (u.part = 1 => Settled(x[u.req]))
Before(w, i) == IF i = 1 THEN Nothing ELSE w[i - 1]
Ordered(w, x, top) ==
  \A i \in 1 .. Len(w) : w[i].req \in 1 .. top /\ Goes(x, Before(w, i), w[i])

\* The n-th exchange e, of a connection that has taken top requests and serves cur,
\* with out of its pieces on the wire and so many chunks queued.
Held(e, n, top, cur, out, queued) ==
  /\ n > top => e = NoExchange
  /\ e.live => e.born /\ ~e.responded /\ ~e.told /\ n = cur
  /\ e.born => e.live \/ e.told \/ e.responded
  /\ e.told => ~e.sent
  /\ e.sent => e.responded
  /\ e.streaming => e.born /\ ~e.responded
  /\ e.chunks <= Pieces
  /\ e.live => e.ok /\ e.chunks = out + queued
  /\ e.live /\ ~e.streaming => e.chunks = 0
  /\ e.born /\ e.responded /\ ~e.told /\ ~e.sent => e.chunks = out

\* In a buffer a body follows its request and nothing else, beginning with one if
\* due; another is owed after it if owes.
Chain(q, due, owes) ==
  /\ \A i \in 1 .. Len(q) : q[i] = "body" <=> IF i = 1 THEN due ELSE q[i - 1] = "post"
  /\ owes <=> IF q = <<>> THEN due ELSE q[Len(q)] = "post"
Chained(s) == Chain(s.buffer, s.parsed /\ ~s.await, s.owes)

\* What holds of a connection at all times.
Base(s) ==
  /\ s \in State
  /\ s.listed <=> s.sock \in {"open", "draining"}
  /\ s.count + Requests(s.buffer) <= s.arrived /\ s.arrived <= Len(s.x)
  /\ s.cur \in {0, s.count}
  /\ \A n \in 1 .. Len(s.x) : Held(s.x[n], n, s.count, s.cur, Sent(s.wire, n), s.queued)
  /\ Ordered(s.wire, s.x, s.count)

\* Nothing is under way.
Ended(s) == s.cur = 0 /\ ~s.late /\ s.left = 0 /\ s.queued = 0

\* It waits for a request, or for the body of one.
Waiting(s) ==
  /\ ~s.await /\ ~s.streaming /\ Ended(s) /\ Chained(s)
  /\ IF s.parsed
       THEN LastOf(s.wire) = Bytes(s.count, -1, FALSE) /\ Out(s.wire, s.count) = {}
       ELSE LastOf(s.wire).end /\ LastOf(s.wire).req = s.count

\* Its response has not begun.
Begins(s) ==
  /\ Out(s.wire, s.count) = {}
  /\ \/ LastOf(s.wire) = Bytes(s.count, -1, FALSE)
     \/ LastOf(s.wire).end /\ LastOf(s.wire).req = s.count - 1

\* It serves a request: the handler has it; the answer is there and delayed, or goes
\* out in pieces; or it is a stream.
Asked(s) ==
  /\ s.x[s.count].live /\ ~s.x[s.count].streaming /\ ~s.streaming
  /\ ~s.late /\ s.left = 0 /\ s.queued = 0 /\ Begins(s) /\ Chained(s)
Answered(s) ==
  /\ s.x[s.count].born /\ s.x[s.count].sent /\ ~s.x[s.count].live
  /\ ~s.streaming /\ s.queued = 0 /\ Chained(s)
Delayed(s) == Answered(s) /\ s.late /\ s.left = 0 /\ Begins(s)
InPieces(s) ==
  /\ Answered(s) /\ ~s.late /\ s.left \in 1 .. Pieces - 1
  /\ LastOf(s.wire) = Bytes(s.count, Pieces - s.left, FALSE)
Flows(s) ==
  /\ s.streaming /\ s.x[s.count].live /\ s.x[s.count].streaming /\ ~s.late /\ s.left = 0
  /\ IF s.headSent
       THEN s.queued = 0 /\ LastOf(s.wire) = Bytes(s.count, s.x[s.count].chunks, FALSE)
       ELSE Begins(s)
Serving(s) ==
  /\ s.await /\ s.cur = s.count /\ s.count > 0
  /\ Asked(s) \/ Delayed(s) \/ InPieces(s) \/ Flows(s)

Sound(s) ==
  /\ Base(s)
  /\ s.sock = "none" => s = Fresh(Len(s.x))
  /\ s.closing => Ended(s)
  /\ ~s.closing => s.sock \in {"none", "open"} /\ (Waiting(s) \/ Serving(s))

\* processBuffer() has nothing to do, or is posted.
Calm(s) == Ready(s) => s.again

HttpInv ==
  /\ DOMAIN conn = Conns /\ busy \in Conns \cup {None}
  /\ listening \in BOOLEAN /\ suspended \in BOOLEAN
  /\ \A c \in Conns : Sound(conn[c]) /\ (busy = c \/ Calm(conn[c]))
  /\ busy # None => Ready(conn[busy])
  /\ listening => ~suspended
  /\ SuspendedIsSilent

-----------------------------------------------------------------------------
(* What goes out.                                                          *)

LEMMA BytesAre ==
  ASSUME NEW n, n \in Nat, NEW part, part \in Int, NEW end, end \in BOOLEAN
  PROVE  /\ Bytes(n, part, end) \in Byte
         /\ Bytes(n, part, end).req = n /\ Bytes(n, part, end).part = part
         /\ Bytes(n, part, end).end = end
BY DEF Bytes, Byte

LEMMA OutCounts ==
  ASSUME NEW w, w \in Seq(Byte), NEW n
  PROVE  /\ IsFiniteSet(Out(w, n)) /\ Sent(w, n) \in Nat
         /\ Out(w, n) = {} => Sent(w, n) = 0
         /\ Sent(w, n) = 0 => Out(w, n) = {}
<1>1. Len(w) \in Nat
  OBVIOUS
<1>2. IsFiniteSet(1 .. Len(w))
  BY <1>1, FS_Interval
<1>3. Out(w, n) \subseteq 1 .. Len(w)
  BY DEF Out
<1>4. IsFiniteSet(Out(w, n))
  BY <1>2, <1>3, FS_Subset
<1>5. QED
  BY <1>4, FS_CardinalityType, FS_EmptySet DEF Sent

LEMMA OutPut ==
  ASSUME NEW w, w \in Seq(Byte), NEW u, u \in Byte, NEW n
  PROVE  /\ u.req = n /\ u.part > 0 => Sent(Append(w, u), n) = Sent(w, n) + 1
         /\ ~(u.req = n /\ u.part > 0) => Out(Append(w, u), n) = Out(w, n)
         /\ ~(u.req = n /\ u.part > 0) => Sent(Append(w, u), n) = Sent(w, n)
<1> DEFINE v == Append(w, u)
<1>1. /\ v \in Seq(Byte) /\ Len(v) = Len(w) + 1 /\ Len(w) \in Nat
      /\ \A i \in 1 .. Len(w) : v[i] = w[i]
      /\ v[Len(w) + 1] = u
  OBVIOUS
<1>2. ASSUME u.req = n, u.part > 0 PROVE Out(v, n) = Out(w, n) \cup {Len(w) + 1}
  BY <1>1, <1>2 DEF Out
<1>3. ASSUME ~(u.req = n /\ u.part > 0) PROVE Out(v, n) = Out(w, n)
  BY <1>1, <1>3 DEF Out
<1>4. Len(w) + 1 \notin Out(w, n)
  BY <1>1 DEF Out
<1>5. IsFiniteSet(Out(w, n))
  BY OutCounts
<1>6. Cardinality(Out(w, n) \cup {Len(w) + 1}) = Cardinality(Out(w, n)) + 1
  BY <1>4, <1>5, FS_AddElement
<1>7. QED
  BY <1>2, <1>3, <1>6 DEF Sent

LEMMA LastPut ==
  ASSUME NEW w, w \in Seq(Byte), NEW u, u \in Byte
  PROVE  Append(w, u) \in Seq(Byte) /\ LastOf(Append(w, u)) = u
<1>1. Append(w, u) \in Seq(Byte) /\ Append(w, u) # <<>> /\ Len(Append(w, u)) = Len(w) + 1
  OBVIOUS
<1>2. QED
  BY <1>1 DEF LastOf

LEMMA OrderPut ==
  ASSUME NEW w, w \in Seq(Byte), NEW u, u \in Byte, NEW x, NEW top, NEW more,
         top \in Nat, more \in Nat, top <= more,
         Ordered(w, x, top), u.req \in 1 .. more, Goes(x, LastOf(w), u)
  PROVE  Ordered(Append(w, u), x, more)
<1> DEFINE v == Append(w, u)
<1>1. /\ v \in Seq(Byte) /\ Len(v) = Len(w) + 1 /\ Len(w) \in Nat
      /\ \A i \in 1 .. Len(w) : v[i] = w[i]
      /\ v[Len(w) + 1] = u
  OBVIOUS
<1>2. \A i \in 1 .. Len(w) : Before(v, i) = Before(w, i)
  BY <1>1 DEF Before
<1>3. Before(v, Len(w) + 1) = LastOf(w)
  BY <1>1 DEF Before, LastOf
<1>4. \A i \in 1 .. Len(w) : v[i].req \in 1 .. more /\ Goes(x, Before(v, i), v[i])
  BY <1>1, <1>2 DEF Ordered
<1>5. v[Len(w) + 1].req \in 1 .. more /\ Goes(x, Before(v, Len(w) + 1), v[Len(w) + 1])
  BY <1>1, <1>3
<1>6. \A i \in 1 .. Len(v) : i \in 1 .. Len(w) \/ i = Len(w) + 1
  BY <1>1
<1>7. QED
  BY <1>4, <1>5, <1>6 DEF Ordered

LEMMA OrderEdit ==
  ASSUME NEW w, w \in Seq(Byte), NEW x, NEW y, NEW top, top \in Nat, Ordered(w, x, top),
         \A n \in 1 .. top : Settled(x[n]) => Settled(y[n]) \/ Out(w, n) = {}
  PROVE  Ordered(w, y, top)
<1> SUFFICES ASSUME NEW i \in 1 .. Len(w)
             PROVE  w[i].req \in 1 .. top /\ Goes(y, Before(w, i), w[i])
  BY DEF Ordered
<1>1. w[i].req \in 1 .. top /\ Goes(x, Before(w, i), w[i])
  BY DEF Ordered
<1>2. w[i].part = 1 => i \in Out(w, w[i].req)
  BY DEF Out
<1>3. w[i].part = 1 /\ Settled(x[w[i].req]) => Settled(y[w[i].req])
  BY <1>1, <1>2
<1>4. QED
  BY <1>1, <1>3 DEF Goes

LEMMA OrderMore ==
  ASSUME NEW w, w \in Seq(Byte), NEW x, NEW top, top \in Nat, Ordered(w, x, top)
  PROVE  Ordered(w, x, top + 1) /\ Out(w, top + 1) = {}
<1>1. \A i \in 1 .. Len(w) : w[i].req \in 1 .. top /\ Goes(x, Before(w, i), w[i])
  BY DEF Ordered
<1>2. \A i \in 1 .. top : i \in 1 .. top + 1
  OBVIOUS
<1>3. Ordered(w, x, top + 1)
  BY <1>1, <1>2 DEF Ordered
<1>4. Out(w, top + 1) = {}
  BY <1>1 DEF Out
<1>5. QED
  BY <1>3, <1>4

\* The head of a stream, and the chunks that waited for it.
Flushed(w, n, q) == Append(w, Bytes(n, 0, FALSE)) \o [k \in 1 .. q |-> Bytes(n, k, FALSE)]

\* v is w with the head of the n-th response and q chunks behind it.
Prolongs(v, w, n, q) ==
  /\ v \in Seq(Byte) /\ Len(v) = Len(w) + 1 + q
  /\ \A i \in 1 .. Len(w) : v[i] = w[i]
  /\ \A k \in 0 .. q : v[Len(w) + 1 + k] = Bytes(n, k, FALSE)

LEMMA PutIs ==
  ASSUME NEW w, w \in Seq(Byte), NEW u, u \in Byte
  PROVE  /\ Append(w, u) \in Seq(Byte) /\ Len(Append(w, u)) = Len(w) + 1 /\ Len(w) \in Nat
         /\ \A i \in 1 .. Len(w) : Append(w, u)[i] = w[i]
         /\ Append(w, u)[Len(w) + 1] = u
OBVIOUS

LEMMA JoinIs ==
  ASSUME NEW h, h \in Seq(Byte), NEW t, t \in Seq(Byte)
  PROVE  /\ h \o t \in Seq(Byte) /\ Len(h \o t) = Len(h) + Len(t)
         /\ \A i \in 1 .. Len(h) : (h \o t)[i] = h[i]
         /\ \A i \in 1 .. Len(t) : (h \o t)[Len(h) + i] = t[i]
BY ConcatProperties

LEMMA FlushedIs ==
  ASSUME NEW w, w \in Seq(Byte), NEW n, n \in Nat, NEW q, q \in Nat
  PROVE  Prolongs(Flushed(w, n, q), w, n, q)
<1> DEFINE b(k) == Bytes(n, k, FALSE)
           h == Append(w, b(0))
           t == [k \in 1 .. q |-> b(k)]
<1>1. \A k \in 0 .. q : b(k) \in Byte
  BY DEF Bytes, Byte
<1>2. 0 \in 0 .. q /\ \A k \in 1 .. q : k \in 0 .. q
  OBVIOUS
<1> HIDE DEF b
<1>3. /\ h \in Seq(Byte) /\ Len(h) = Len(w) + 1 /\ Len(w) \in Nat
      /\ \A i \in 1 .. Len(w) : h[i] = w[i]
      /\ h[Len(w) + 1] = b(0)
  BY <1>1, <1>2, PutIs
<1>4. t \in Seq(Byte) /\ Len(t) = q /\ \A k \in 1 .. q : t[k] = b(k)
  <2>1. t \in [1 .. q -> Byte]
    BY <1>1, <1>2
  <2>2. QED
    BY <2>1
<1> HIDE DEF h, t
<1>5. /\ h \o t \in Seq(Byte) /\ Len(h \o t) = Len(h) + Len(t)
      /\ \A i \in 1 .. Len(h) : (h \o t)[i] = h[i]
      /\ \A i \in 1 .. Len(t) : (h \o t)[Len(h) + i] = t[i]
  <2>1. h \in Seq(Byte) /\ t \in Seq(Byte)
    BY <1>3, <1>4
  <2>2. QED
    BY <2>1, JoinIs
<1>6. Flushed(w, n, q) = h \o t
  BY DEF Flushed, h, t, b
<1>7. \A i \in 1 .. Len(w) : i \in 1 .. Len(h)
  BY <1>3
<1>8. Len(w) + 1 \in 1 .. Len(h)
  BY <1>3
<1>9. ASSUME NEW k, k \in 0 .. q PROVE (h \o t)[Len(w) + 1 + k] = b(k)
  <2>1. CASE k = 0
    BY <1>3, <1>5, <1>8, <2>1
  <2>2. CASE k \in 1 .. q
    <3>1. (h \o t)[Len(h) + k] = t[k]
      BY <1>4, <1>5, <2>2
    <3>2. QED
      BY <1>3, <1>4, <2>2, <3>1
  <2>3. k = 0 \/ k \in 1 .. q
    BY <1>9
  <2>4. QED
    BY <2>1, <2>2, <2>3
<1>10. QED
  BY <1>3, <1>4, <1>5, <1>6, <1>7, <1>9 DEF b, Prolongs

LEMMA ProlongLast ==
  ASSUME NEW w, w \in Seq(Byte), NEW n, n \in Nat, NEW q, q \in Nat,
         NEW v, Prolongs(v, w, n, q)
  PROVE  LastOf(v) = Bytes(n, q, FALSE)
<1>1. v \in Seq(Byte) /\ Len(v) = Len(w) + 1 + q /\ Len(w) \in Nat /\ q \in 0 .. q
  BY DEF Prolongs
<1>2. v[Len(w) + 1 + q] = Bytes(n, q, FALSE)
  BY <1>1 DEF Prolongs
<1>3. v # <<>>
  BY <1>1
<1>4. QED
  BY <1>1, <1>2, <1>3 DEF LastOf

LEMMA ProlongOrder ==
  ASSUME NEW w, w \in Seq(Byte), NEW n, n \in Nat, NEW q, q \in Nat,
         NEW v, Prolongs(v, w, n, q), NEW x, NEW top, top \in Nat, n \in 1 .. top,
         Ordered(w, x, top), Goes(x, LastOf(w), Bytes(n, 0, FALSE))
  PROVE  Ordered(v, x, top)
<1> DEFINE l == Len(w)
<1>1. v \in Seq(Byte) /\ Len(v) = l + 1 + q /\ l \in Nat
  BY DEF Prolongs
<1>2. \A i \in 1 .. l : v[i] = w[i]
  BY DEF Prolongs
<1>3. \A k \in 0 .. q : v[l + 1 + k] = Bytes(n, k, FALSE)
  BY DEF Prolongs
<1> SUFFICES ASSUME NEW i, i \in 1 .. Len(v)
             PROVE  v[i].req \in 1 .. top /\ Goes(x, Before(v, i), v[i])
  BY DEF Ordered
<1>4. CASE i \in 1 .. l
  <2>1. w[i].req \in 1 .. top /\ Goes(x, Before(w, i), w[i])
    BY <1>4 DEF Ordered
  <2>2. v[i] = w[i]
    BY <1>2, <1>4
  <2>3. Before(v, i) = Before(w, i)
    <3>1. CASE i = 1
      BY <3>1 DEF Before
    <3>2. CASE i # 1
      <4>1. i - 1 \in 1 .. l
        BY <1>1, <1>4, <3>2
      <4>2. QED
        BY <1>2, <4>1, <3>2 DEF Before
    <3>3. QED
      BY <3>1, <3>2
  <2>4. QED
    BY <2>1, <2>2, <2>3
<1>5. CASE i = l + 1
  <2>1. v[i] = Bytes(n, 0, FALSE)
    <3>1. 0 \in 0 .. q /\ i = l + 1 + 0
      BY <1>1, <1>5
    <3>2. QED
      BY <1>3, <3>1
  <2>2. Before(v, i) = LastOf(w)
    <3>1. CASE w = <<>>
      BY <3>1, <1>1, <1>5 DEF Before, LastOf
    <3>2. CASE w # <<>>
      <4>1. l # 0
        BY <3>2
      <4>2. i # 1 /\ i - 1 = l /\ l \in 1 .. l
        BY <1>1, <1>5, <4>1
      <4>3. QED
        BY <1>2, <3>2, <4>2 DEF Before, LastOf
    <3>3. QED
      BY <3>1, <3>2
  <2>3. v[i].req = n
    BY <2>1 DEF Bytes
  <2>4. QED
    BY <2>1, <2>2, <2>3
<1>6. CASE i \in l + 2 .. l + 1 + q
  <2> DEFINE k == i - l - 1
  <2>1. /\ k \in 0 .. q /\ k - 1 \in 0 .. q /\ i = l + 1 + k /\ i - 1 = l + 1 + (k - 1)
        /\ i # 1 /\ k \in Int
    BY <1>1, <1>6
  <2> HIDE DEF k
  <2>2. v[i] = Bytes(n, k, FALSE) /\ v[i - 1] = Bytes(n, k - 1, FALSE)
    BY <1>3, <2>1
  <2>3. Before(v, i) = Bytes(n, k - 1, FALSE)
    BY <2>1, <2>2 DEF Before
  <2>4. v[i].req = n /\ v[i].part = k
    BY <2>2 DEF Bytes
  <2>5. Before(v, i).req = n /\ Before(v, i).part = k - 1 /\ ~Before(v, i).end
    BY <2>3 DEF Bytes
  <2>6. k = (k - 1) + 1 /\ n \in 1 .. top
    BY <2>1
  <2>7. QED
    BY <2>4, <2>5, <2>6 DEF Goes
<1>7. i \in 1 .. l \/ i = l + 1 \/ i \in l + 2 .. l + 1 + q
  BY <1>1
<1>8. QED
  BY <1>4, <1>5, <1>6, <1>7

LEMMA ProlongSent ==
  ASSUME NEW w, w \in Seq(Byte), NEW n, n \in Nat, NEW q, q \in Nat,
         NEW v, Prolongs(v, w, n, q), NEW m
  PROVE  /\ m # n => Sent(v, m) = Sent(w, m)
         /\ m = n /\ Out(w, n) = {} => Sent(v, m) = q
<1> DEFINE l == Len(w)
<1>1. v \in Seq(Byte) /\ Len(v) = l + 1 + q /\ l \in Nat
  BY DEF Prolongs
<1>2. \A i \in 1 .. l : v[i] = w[i]
  BY DEF Prolongs
<1>3. \A k \in 0 .. q : v[l + 1 + k] = Bytes(n, k, FALSE)
  BY DEF Prolongs
<1>4. ASSUME NEW i, i \in l + 1 .. l + 1 + q
      PROVE  v[i].req = n /\ v[i].part = i - l - 1
  <2>1. i - l - 1 \in 0 .. q /\ i = l + 1 + (i - l - 1)
    BY <1>1, <1>4
  <2>2. v[i] = Bytes(n, i - l - 1, FALSE)
    BY <1>3, <2>1
  <2>3. QED
    BY <2>2 DEF Bytes
<1>5. \A i : i \in 1 .. Len(v) <=> i \in 1 .. l \/ i \in l + 1 .. l + 1 + q
  BY <1>1
<1>6. ASSUME m # n PROVE Out(v, m) = Out(w, m)
  BY <1>2, <1>4, <1>5, <1>6 DEF Out
<1>7. ASSUME Out(w, n) = {} PROVE Out(v, n) = l + 2 .. l + 1 + q
  <2>1. \A i \in l + 2 .. l + 1 + q : i \in l + 1 .. l + 1 + q /\ i - l - 1 > 0
    BY <1>1
  <2>2. \A i \in l + 1 .. l + 1 + q : i - l - 1 > 0 => i \in l + 2 .. l + 1 + q
    BY <1>1
  <2>3. \A i \in 1 .. l : ~(w[i].req = n /\ w[i].part > 0)
    BY <1>7 DEF Out
  <2>4. QED
    BY <1>2, <1>4, <1>5, <2>1, <2>2, <2>3 DEF Out
<1>8. Cardinality(l + 2 .. l + 1 + q) = q
  <2>1. l + 2 \in Int /\ l + 1 + q \in Int
    BY <1>1
  <2>2. Cardinality(l + 2 .. l + 1 + q) =
          IF l + 2 > l + 1 + q THEN 0 ELSE (l + 1 + q) - (l + 2) + 1
    BY <2>1, FS_Interval
  <2>3. QED
    BY <1>1, <2>2
<1>9. QED
  BY <1>6, <1>7, <1>8 DEF Sent

-----------------------------------------------------------------------------
(* What waits in a buffer.                                                 *)

LEMMA RequestsAre ==
  ASSUME NEW q, q \in Seq(Input)
  PROVE  IsFiniteSet(NonBody(q)) /\ Requests(q) \in Nat
<1>1. Len(q) \in Nat
  OBVIOUS
<1>2. IsFiniteSet(1 .. Len(q))
  BY <1>1, FS_Interval
<1>3. NonBody(q) \subseteq 1 .. Len(q)
  BY DEF NonBody
<1>4. IsFiniteSet(NonBody(q))
  BY <1>2, <1>3, FS_Subset
<1>5. QED
  BY <1>4, FS_CardinalityType DEF Requests

LEMMA RequestsNone == Requests(<<>>) = 0
<1>1. NonBody(<<>>) = {}
  BY DEF NonBody
<1>2. QED
  BY <1>1, FS_EmptySet DEF Requests

LEMMA RequestsMore ==
  ASSUME NEW q, q \in Seq(Input), NEW p, p \in Input
  PROVE  /\ Append(q, p) \in Seq(Input)
         /\ p = "body" => Requests(Append(q, p)) = Requests(q)
         /\ p # "body" => Requests(Append(q, p)) = Requests(q) + 1
<1> DEFINE v == Append(q, p)
<1>1. /\ v \in Seq(Input) /\ Len(v) = Len(q) + 1 /\ Len(q) \in Nat
      /\ \A i \in 1 .. Len(q) : v[i] = q[i]
      /\ v[Len(q) + 1] = p
  OBVIOUS
<1>2. ASSUME p = "body" PROVE NonBody(v) = NonBody(q)
  BY <1>1, <1>2 DEF NonBody
<1>3. ASSUME p # "body" PROVE NonBody(v) = NonBody(q) \cup {Len(q) + 1}
  BY <1>1, <1>3 DEF NonBody
<1>4. Len(q) + 1 \notin NonBody(q)
  BY <1>1 DEF NonBody
<1>5. IsFiniteSet(NonBody(q))
  BY RequestsAre
<1>6. Cardinality(NonBody(q) \cup {Len(q) + 1}) = Cardinality(NonBody(q)) + 1
  BY <1>4, <1>5, FS_AddElement
<1>7. QED
  BY <1>1, <1>2, <1>3, <1>6 DEF Requests

LEMMA TailIs ==
  ASSUME NEW q, q \in Seq(Input), q # <<>>
  PROVE  /\ Tail(q) \in Seq(Input) /\ Len(Tail(q)) = Len(q) - 1 /\ Len(q) \in Nat \ {0}
         /\ \A i \in 1 .. Len(q) - 1 : Tail(q)[i] = q[i + 1]
         /\ Head(q) = q[1] /\ q[1] \in Input
OBVIOUS

LEMMA RequestsLess ==
  ASSUME NEW q, q \in Seq(Input), q # <<>>
  PROVE  /\ q[1] = "body" => Requests(Tail(q)) = Requests(q)
         /\ q[1] # "body" => Requests(Tail(q)) = Requests(q) - 1
<1> DEFINE v == Tail(q)
           S == NonBody(q) \ {1}
           f == [i \in NonBody(v) |-> i + 1]
<1>1. /\ v \in Seq(Input) /\ Len(v) = Len(q) - 1 /\ Len(q) \in Nat \ {0}
      /\ \A i \in 1 .. Len(q) - 1 : v[i] = q[i + 1]
  BY TailIs
<1>2. IsFiniteSet(NonBody(q)) /\ IsFiniteSet(NonBody(v))
  BY <1>1, RequestsAre
<1>3. \A i \in NonBody(v) : i \in Int /\ i + 1 \in S
  BY <1>1 DEF NonBody
<1>4. \A j \in S : j \in Int /\ j - 1 \in NonBody(v)
  <2> SUFFICES ASSUME NEW j, j \in S PROVE j \in Int /\ j - 1 \in NonBody(v)
    OBVIOUS
  <2>1. j \in 1 .. Len(q) /\ j # 1 /\ q[j] # "body"
    BY DEF NonBody
  <2>2. j \in Int /\ j - 1 \in 1 .. Len(q) - 1 /\ (j - 1) + 1 = j
    BY <1>1, <2>1
  <2>3. v[j - 1] = q[j]
    BY <1>1, <2>2
  <2>4. QED
    BY <1>1, <2>1, <2>2, <2>3 DEF NonBody
<1>5. f \in Bijection(NonBody(v), S)
  <2>1. f \in [NonBody(v) -> S]
    BY <1>3
  <2>2. \A a, b \in NonBody(v) : f[a] = f[b] => a = b
    BY <1>3
  <2>3. \A j \in S : \E i \in NonBody(v) : f[i] = j
    BY <1>4
  <2>4. QED
    BY <2>1, <2>2, <2>3 DEF Bijection, Injection, Surjection, IsInjective
<1>6. Cardinality(S) = Cardinality(NonBody(v))
  <2>1. ExistsBijection(NonBody(v), S)
    BY <1>5 DEF ExistsBijection
  <2>2. QED
    BY <1>2, <2>1, FS_Bijection
<1>7. ASSUME q[1] = "body" PROVE S = NonBody(q)
  BY <1>7 DEF NonBody
<1>8. ASSUME q[1] # "body" PROVE Cardinality(S) = Cardinality(NonBody(q)) - 1
  <2>1. 1 \in NonBody(q)
    BY <1>1, <1>8 DEF NonBody
  <2>2. QED
    BY <1>2, <2>1, FS_RemoveElement
<1>9. QED
  BY <1>6, <1>7, <1>8 DEF Requests

LEMMA ChainMore ==
  ASSUME NEW q, q \in Seq(Input), NEW p, p \in Input, NEW due \in BOOLEAN, NEW owes \in BOOLEAN,
         Chain(q, due, owes), owes <=> p = "body"
  PROVE  Chain(Append(q, p), due, p = "post")
<1> DEFINE v == Append(q, p)
<1>1. /\ v \in Seq(Input) /\ Len(v) = Len(q) + 1 /\ Len(q) \in Nat /\ v # <<>>
      /\ \A i \in 1 .. Len(q) : v[i] = q[i]
      /\ v[Len(q) + 1] = p
  OBVIOUS
<1> HIDE DEF v
<1>2. \A i \in 1 .. Len(q) : v[i] = "body" <=> IF i = 1 THEN due ELSE v[i - 1] = "post"
  <2> SUFFICES ASSUME NEW i, i \in 1 .. Len(q)
               PROVE  v[i] = "body" <=> IF i = 1 THEN due ELSE v[i - 1] = "post"
    OBVIOUS
  <2>1. q[i] = "body" <=> IF i = 1 THEN due ELSE q[i - 1] = "post"
    BY DEF Chain
  <2>2. i # 1 => v[i - 1] = q[i - 1]
    BY <1>1
  <2>3. QED
    BY <1>1, <2>1, <2>2
<1>3. v[Len(q) + 1] = "body" <=> IF Len(q) + 1 = 1 THEN due ELSE v[Len(q)] = "post"
  <2>1. owes <=> IF q = <<>> THEN due ELSE q[Len(q)] = "post"
    BY DEF Chain
  <2>2. CASE q = <<>>
    BY <1>1, <2>1, <2>2
  <2>3. CASE q # <<>>
    <3>1. Len(q) # 0
      BY <2>3
    <3>2. Len(q) \in 1 .. Len(q) /\ Len(q) + 1 # 1
      BY <1>1, <3>1
    <3>3. QED
      BY <1>1, <2>1, <2>3, <3>2
  <2>4. QED
    BY <2>2, <2>3
<1>4. \A i \in 1 .. Len(v) : i \in 1 .. Len(q) \/ i = Len(q) + 1
  BY <1>1
<1>5. \A i \in 1 .. Len(v) : v[i] = "body" <=> IF i = 1 THEN due ELSE v[i - 1] = "post"
  <2> SUFFICES ASSUME NEW i, i \in 1 .. Len(v)
               PROVE  v[i] = "body" <=> IF i = 1 THEN due ELSE v[i - 1] = "post"
    OBVIOUS
  <2>1. CASE i \in 1 .. Len(q)
    BY <1>2, <2>1
  <2>2. CASE i = Len(q) + 1
    <3>1. (Len(q) + 1) - 1 = Len(q)
      BY <1>1
    <3>2. QED
      BY <1>3, <2>2, <3>1
  <2>3. QED
    BY <1>4, <2>1, <2>2
<1>6. (p = "post") <=> IF v = <<>> THEN due ELSE v[Len(v)] = "post"
  BY <1>1
<1>7. QED
  BY <1>5, <1>6 DEF Chain, v

LEMMA ChainLess ==
  ASSUME NEW q, q \in Seq(Input), NEW due \in BOOLEAN, NEW owes \in BOOLEAN,
         Chain(q, due, owes), q # <<>>
  PROVE  (q[1] = "body" <=> due) /\ Chain(Tail(q), q[1] = "post", owes)
<1> DEFINE v == Tail(q)
<1>1. /\ v \in Seq(Input) /\ Len(v) = Len(q) - 1 /\ Len(q) \in Nat \ {0}
      /\ \A i \in 1 .. Len(q) - 1 : v[i] = q[i + 1]
  BY TailIs
<1> HIDE DEF v
<1>2. \A i \in 1 .. Len(q) : q[i] = "body" <=> IF i = 1 THEN due ELSE q[i - 1] = "post"
  BY DEF Chain
<1>3. q[1] = "body" <=> due
  BY <1>1, <1>2
<1>4. ASSUME NEW i, i \in 1 .. Len(v)
      PROVE  v[i] = "body" <=> IF i = 1 THEN q[1] = "post" ELSE v[i - 1] = "post"
  <2>1. i + 1 \in 1 .. Len(q) /\ i + 1 # 1 /\ (i + 1) - 1 = i /\ i \in 1 .. Len(q) - 1
    BY <1>1, <1>4
  <2>2. q[i + 1] = "body" <=> q[i] = "post"
    BY <1>2, <2>1
  <2>3. v[i] = q[i + 1]
    BY <1>1, <2>1
  <2>4. i # 1 => v[i - 1] = q[i]
    BY <1>1, <1>4
  <2>5. QED
    BY <2>2, <2>3, <2>4
<1>5. owes <=> IF v = <<>> THEN q[1] = "post" ELSE v[Len(v)] = "post"
  <2>1. owes <=> q[Len(q)] = "post"
    BY DEF Chain
  <2>2. CASE v = <<>>
    <3>1. Len(q) = 1
      BY <1>1, <2>2
    <3>2. QED
      BY <2>1, <2>2, <3>1
  <2>3. CASE v # <<>>
    <3>1. Len(v) # 0
      BY <1>1, <2>3
    <3>2. Len(v) \in 1 .. Len(q) - 1 /\ Len(v) + 1 = Len(q)
      BY <1>1, <3>1
    <3>3. v[Len(v)] = q[Len(q)]
      BY <1>1, <3>2
    <3>4. QED
      BY <2>1, <2>3, <3>3
  <2>4. QED
    BY <2>2, <2>3
<1>6. QED
  BY <1>3, <1>4, <1>5 DEF Chain, v

-----------------------------------------------------------------------------
(* Connections that begin and end.                                         *)

LEMMA FreshIs ==
  ASSUME NEW k, k \in Nat
  PROVE  Sound(Fresh(k)) /\ ~Ready(Fresh(k))
<1> DEFINE s == Fresh(k)
           y == [n \in 1 .. k |-> NoExchange]
<1>1. NoExchange \in Exchange
  BY DEF NoExchange, Exchange
<1>2. y \in Seq(Exchange) /\ Len(y) = k /\ \A n \in 1 .. k : y[n] = NoExchange
  <2>1. y \in [1 .. k -> Exchange]
    BY <1>1
  <2>2. QED
    BY <2>1
<1> HIDE DEF y
<1>3. <<>> \in Seq(Input) /\ <<>> \in Seq(Byte)
  OBVIOUS
<1>4. s = [sock |-> "none", listed |-> FALSE, buffer |-> <<>>, owes |-> FALSE, arrived |-> 0,
           count |-> 0, parsed |-> FALSE, keep |-> TRUE, await |-> FALSE, closing |-> FALSE,
           last |-> FALSE, cur |-> 0, streaming |-> FALSE, headSent |-> FALSE, queued |-> 0,
           idle |-> FALSE, again |-> FALSE, late |-> FALSE, lateHead |-> FALSE, left |-> 0,
           x |-> y, wire |-> <<>>]
  BY DEF Fresh, y
<1>5. /\ s.sock = "none" /\ ~s.listed /\ s.buffer = <<>> /\ ~s.owes /\ s.arrived = 0
      /\ s.count = 0 /\ ~s.parsed /\ ~s.await /\ ~s.closing /\ s.cur = 0 /\ ~s.streaming
      /\ s.queued = 0 /\ ~s.late /\ s.left = 0 /\ s.x = y /\ s.wire = <<>>
  BY <1>4
<1>6. s \in State
  BY <1>2, <1>3, <1>4, 0 \in 0 .. Pieces DEF State
<1> HIDE DEF s
<1>7. \A n \in 1 .. Len(s.x) : Held(s.x[n], n, s.count, s.cur, Sent(s.wire, n), s.queued)
  <2>1. /\ ~NoExchange.live /\ ~NoExchange.born /\ ~NoExchange.told /\ ~NoExchange.sent
        /\ ~NoExchange.responded /\ ~NoExchange.streaming /\ NoExchange.chunks = 0
    BY DEF NoExchange
  <2>2. \A n \in 1 .. Len(s.x) : s.x[n] = NoExchange
    BY <1>2, <1>5
  <2> HIDE DEF NoExchange
  <2>3. QED
    BY <2>1, <2>2 DEF Held
<1>8. Ordered(s.wire, s.x, s.count)
  BY <1>5 DEF Ordered
<1>9. Base(s)
  BY <1>2, <1>5, <1>6, <1>7, <1>8, RequestsNone DEF Base
<1>10. Waiting(s)
  BY <1>5 DEF Waiting, Ended, Chained, Chain, LastOf, Nothing, Bytes
<1>11. s = Fresh(Len(s.x))
  BY <1>2, <1>5 DEF s
<1>12. QED
  BY <1>5, <1>9, <1>10, <1>11 DEF Sound, Ready, s

\* The exchanges after abortExchange().
Left(x, n) == IF n = 0 THEN x ELSE [x EXCEPT ![n] = Severed(x[n])]

\* A connection after its end, of which nothing goes on.
Cut(s, r) ==
  /\ r \in State /\ r.closing /\ r.sock = "gone" /\ ~r.listed /\ r.buffer = <<>>
  /\ Ended(r) /\ r.wire = s.wire /\ r.count = s.count /\ r.arrived = s.arrived
  /\ r.x = Left(s.x, s.cur)

LEMMA SeveredIs ==
  ASSUME NEW e, e \in Exchange
  PROVE  /\ Severed(e) \in Exchange
         /\ ~Severed(e).live /\ (Severed(e).told <=> e.told \/ ~e.responded)
         /\ Severed(e).responded = e.responded /\ Severed(e).streaming = e.streaming
         /\ Severed(e).born = e.born /\ Severed(e).sent = e.sent
         /\ Severed(e).chunks = e.chunks /\ Severed(e).ok = e.ok
BY DEF Severed, Exchange

LEMMA LeftIs ==
  ASSUME NEW x, x \in Seq(Exchange), NEW n, n \in 0 .. Len(x)
  PROVE  /\ Left(x, n) \in Seq(Exchange) /\ Len(Left(x, n)) = Len(x)
         /\ \A m \in 1 .. Len(x) : Left(x, n)[m] = IF m = n THEN Severed(x[m]) ELSE x[m]
<1>1. CASE n = 0
  BY <1>1 DEF Left
<1>2. CASE n # 0
  <2> DEFINE e == Severed(x[n])
  <2>1. n \in 1 .. Len(x) /\ x[n] \in Exchange
    BY <1>2
  <2>2. e \in Exchange
    BY <2>1, SeveredIs
  <2>3. Left(x, n) = [x EXCEPT ![n] = e]
    BY <1>2 DEF Left
  <2> HIDE DEF e
  <2>4. QED
    BY <1>2, <2>1, <2>2, <2>3 DEF e
<1>3. QED
  BY <1>1, <1>2

LEMMA AbortIs ==
  ASSUME NEW s, s \in State, s.cur \in 0 .. Len(s.x)
  PROVE  AbortExchange(s) = [s EXCEPT !.cur = 0, !.x = Left(s.x, s.cur)]
<1>1. CASE s.cur = 0
  BY <1>1 DEF AbortExchange, Left, State
<1>2. CASE s.cur # 0
  <2> DEFINE e == Severed(s.x[s.cur])
  <2>1. AbortExchange(s) = [s EXCEPT !.cur = 0, !.x[s.cur] = e]
    BY <1>2 DEF AbortExchange
  <2>2. Left(s.x, s.cur) = [s.x EXCEPT ![s.cur] = e]
    BY <1>2 DEF Left
  <2> HIDE DEF e
  <2>3. [s EXCEPT !.cur = 0, !.x[s.cur] = e] = [s EXCEPT !.cur = 0, !.x = [s.x EXCEPT ![s.cur] = e]]
    BY DEF State
  <2>4. QED
    BY <2>1, <2>2, <2>3
<1>3. QED
  BY <1>1, <1>2

LEMMA RetireTypes ==
  ASSUME NEW s, s \in State
  PROVE  Retire(s) \in State
<1> DEFINE d == [s EXCEPT !.idle = FALSE, !.again = FALSE, !.late = FALSE, !.lateHead = FALSE]
           e == [d EXCEPT !.left = 0, !.queued = 0]
<1>1. d \in State
  BY DEF State
<1>2. Retire(s) = [e EXCEPT !.buffer = <<>>]
  BY DEF Retire, State
<1> HIDE DEF d
<1>3. 0 \in 0 .. Pieces
  OBVIOUS
<1>4. e \in State
  BY <1>1, <1>3 DEF State
<1> HIDE DEF e
<1>5. <<>> \in Seq(Input)
  OBVIOUS
<1>6. QED
  BY <1>2, <1>4, <1>5 DEF State

LEMMA DisconnectIs ==
  ASSUME NEW s, s \in State, s.cur \in 0 .. Len(s.x)
  PROVE  Cut(s, OnDisconnected(s))
<1> DEFINE q == [s EXCEPT !.closing = TRUE, !.sock = "gone"]
           y == Left(s.x, s.cur)
           p == [q EXCEPT !.cur = 0, !.x = y]
           r == Retire([p EXCEPT !.listed = FALSE])
<1>1. y \in Seq(Exchange)
  BY LeftIs DEF State
<1>2. q \in State /\ q.cur = s.cur /\ q.x = s.x
  BY DEF State
<1>3. AbortExchange(q) = p
  BY <1>2, AbortIs
<1> HIDE DEF y
<1>4. OnDisconnected(s) = r
  BY <1>3 DEF OnDisconnected
<1> DEFINE o == [p EXCEPT !.listed = FALSE]
<1>5. o \in State
  BY <1>1 DEF State
<1>6. r \in State
  <2> HIDE DEF o
  <2>1. Retire(o) \in State
    BY <1>5, RetireTypes
  <2>2. QED
    BY <2>1 DEF o
<1>7. /\ r.closing /\ r.sock = "gone" /\ ~r.listed /\ r.buffer = <<>>
      /\ r.cur = 0 /\ ~r.late /\ r.left = 0 /\ r.queued = 0
      /\ r.wire = s.wire /\ r.count = s.count /\ r.arrived = s.arrived /\ r.x = y
  BY DEF State, Retire
<1>8. QED
  BY <1>4, <1>6, <1>7 DEF Cut, Ended, y

LEMMA ShutdownIs ==
  ASSUME NEW s, s \in State, s.cur \in 0 .. Len(s.x), s.listed
  PROVE  Cut(s, Shutdown(s))
<1> DEFINE q == [s EXCEPT !.closing = TRUE]
           y == Left(s.x, s.cur)
           p == [q EXCEPT !.cur = 0, !.x = y]
           r == Retire([p EXCEPT !.sock = "gone", !.listed = FALSE])
<1>1. y \in Seq(Exchange)
  BY LeftIs DEF State
<1>2. q \in State /\ q.cur = s.cur /\ q.x = s.x
  BY DEF State
<1>3. AbortExchange(q) = p
  BY <1>2, AbortIs
<1> HIDE DEF y
<1>4. Shutdown(s) = r
  BY <1>3 DEF Shutdown
<1> DEFINE o == [p EXCEPT !.sock = "gone", !.listed = FALSE]
<1>5. o \in State
  BY <1>1 DEF State
<1>6. r \in State
  <2> HIDE DEF o
  <2>1. Retire(o) \in State
    BY <1>5, RetireTypes
  <2>2. QED
    BY <2>1 DEF o
<1>7. /\ r.closing /\ r.sock = "gone" /\ ~r.listed /\ r.buffer = <<>>
      /\ r.cur = 0 /\ ~r.late /\ r.left = 0 /\ r.queued = 0
      /\ r.wire = s.wire /\ r.count = s.count /\ r.arrived = s.arrived /\ r.x = y
  BY DEF State, Retire
<1>8. QED
  BY <1>4, <1>6, <1>7 DEF Cut, Ended, y

LEMMA DropIs ==
  ASSUME NEW s, s \in State, s.cur \in 0 .. Len(s.x)
  PROVE  Cut(s, DropNow(s))
<1> DEFINE q == [s EXCEPT !.closing = TRUE, !.streaming = FALSE]
           y == Left(s.x, s.cur)
           p == [q EXCEPT !.cur = 0, !.x = y]
<1>1. y \in Seq(Exchange)
  BY LeftIs DEF State
<1>2. q \in State /\ q.cur = s.cur /\ q.x = s.x
  BY DEF State
<1>3. AbortExchange(q) = p
  BY <1>2, AbortIs
<1> HIDE DEF y
<1>4. DropNow(s) = OnDisconnected(p)
  BY <1>3 DEF DropNow
<1>5. /\ p \in State /\ p.cur = 0 /\ p.x = y
      /\ p.wire = s.wire /\ p.count = s.count /\ p.arrived = s.arrived
  BY <1>1 DEF State
<1> HIDE DEF p
<1>6. Cut(p, OnDisconnected(p))
  BY <1>1, <1>5, DisconnectIs
<1>7. Left(y, 0) = y
  BY DEF Left
<1>8. QED
  BY <1>4, <1>5, <1>6, <1>7 DEF Cut, y

\* Whatever a connection was doing, its end leaves it sound: whoever held an exchange
\* of it is told, and no order on the wire depends on that.
LEMMA CutSound ==
  ASSUME NEW s, Base(s), NEW r, Cut(s, r)
  PROVE  Sound(r) /\ ~Ready(r) /\ r.sock = "gone"
<1>1. /\ s \in State /\ r \in State /\ s.x \in Seq(Exchange) /\ Len(s.x) \in Nat
      /\ s.count \in Nat /\ s.arrived \in Nat /\ s.wire \in Seq(Byte) /\ s.cur \in Nat
      /\ s.buffer \in Seq(Input) /\ s.queued \in Nat
  BY DEF Base, Cut, State
<1>2. s.count + Requests(s.buffer) <= s.arrived /\ s.arrived <= Len(s.x) /\ s.cur \in {0, s.count}
  BY DEF Base
<1>3. Requests(s.buffer) \in Nat
  BY <1>1, RequestsAre
<1>4. s.cur \in 0 .. Len(s.x) /\ s.count <= s.arrived
  BY <1>1, <1>2, <1>3
<1>5. /\ r.x = Left(s.x, s.cur) /\ r.wire = s.wire /\ r.count = s.count /\ r.arrived = s.arrived
      /\ r.closing /\ r.sock = "gone" /\ ~r.listed /\ r.buffer = <<>> /\ Ended(r)
  BY DEF Cut
<1>6. Len(r.x) = Len(s.x)
  <2>1. Len(Left(s.x, s.cur)) = Len(s.x)
    BY <1>1, <1>4, LeftIs
  <2>2. QED
    BY <1>5, <2>1
<1>7. \A n \in 1 .. Len(s.x) : r.x[n] = IF n = s.cur THEN Severed(s.x[n]) ELSE s.x[n]
  <2>1. \A n \in 1 .. Len(s.x) : Left(s.x, s.cur)[n] = IF n = s.cur THEN Severed(s.x[n]) ELSE s.x[n]
    BY <1>1, <1>4, LeftIs
  <2>2. QED
    BY <1>5, <2>1
<1>9. ASSUME NEW n, n \in 1 .. Len(s.x)
      PROVE  /\ Held(r.x[n], n, r.count, r.cur, Sent(r.wire, n), r.queued)
             /\ Settled(s.x[n]) => Settled(r.x[n])
  <2>1. Held(s.x[n], n, s.count, s.cur, Sent(s.wire, n), s.queued)
    BY <1>9 DEF Base
  <2>2. s.x[n] \in Exchange
    BY <1>1, <1>9
  <2>3. CASE n # s.cur
    <3>1. r.x[n] = s.x[n]
      BY <1>7, <1>9, <2>3
    <3>2. ~s.x[n].live
      BY <2>1, <2>3 DEF Held
    <3>3. QED
      BY <1>5, <2>1, <3>1, <3>2 DEF Held
  <2>4. CASE n = s.cur
    <3>1. r.x[n] = Severed(s.x[n])
      BY <1>7, <1>9, <2>4
    <3>2. /\ ~r.x[n].live /\ (r.x[n].told <=> s.x[n].told \/ ~s.x[n].responded)
          /\ r.x[n].responded = s.x[n].responded /\ r.x[n].streaming = s.x[n].streaming
          /\ r.x[n].born = s.x[n].born /\ r.x[n].sent = s.x[n].sent
          /\ r.x[n].chunks = s.x[n].chunks /\ r.x[n].ok = s.x[n].ok
      BY <2>2, <3>1, SeveredIs
    <3>3. n <= s.count
      BY <1>1, <1>2, <1>9, <2>4
    <3>4. ~(n > r.count)
      BY <1>1, <1>5, <1>9, <3>3
    <3>5. QED
      BY <1>5, <2>1, <3>2, <3>4 DEF Held, Settled
  <2>5. QED
    BY <2>3, <2>4
<1>10. Ordered(r.wire, r.x, r.count)
  <2>1. Ordered(s.wire, s.x, s.count)
    BY DEF Base
  <2>2. \A n \in 1 .. s.count : n \in 1 .. Len(s.x)
    BY <1>1, <1>2, <1>4
  <2>3. \A n \in 1 .. s.count : Settled(s.x[n]) => Settled(r.x[n]) \/ Out(s.wire, n) = {}
    BY <1>9, <2>2
  <2>4. QED
    BY <1>1, <1>5, <2>1, <2>3, OrderEdit
<1>11. r.count + Requests(r.buffer) <= r.arrived /\ r.arrived <= Len(r.x)
  BY <1>1, <1>2, <1>4, <1>5, <1>6, RequestsNone
<1>12. r.cur = 0
  BY <1>5 DEF Ended
<1>13. Base(r)
  BY <1>1, <1>5, <1>6, <1>9, <1>10, <1>11, <1>12 DEF Base
<1>14. QED
  BY <1>5, <1>13 DEF Sound, Ready

-----------------------------------------------------------------------------
(* What a connection in a sound state tells.                               *)

LEMMA BaseTypes ==
  ASSUME NEW s, Base(s)
  PROVE  /\ s \in State /\ s.x \in Seq(Exchange) /\ Len(s.x) \in Nat /\ s.wire \in Seq(Byte)
         /\ s.buffer \in Seq(Input) /\ Requests(s.buffer) \in Nat
         /\ s.count \in Nat /\ s.arrived \in Nat /\ s.cur \in Nat /\ s.queued \in Nat
         /\ s.left \in 0 .. Pieces
         /\ s.count + Requests(s.buffer) <= s.arrived /\ s.arrived <= Len(s.x)
         /\ s.count <= s.arrived /\ s.count <= Len(s.x)
         /\ s.cur \in {0, s.count} /\ s.cur \in 0 .. Len(s.x)
<1>1. /\ s \in State /\ s.x \in Seq(Exchange) /\ Len(s.x) \in Nat /\ s.wire \in Seq(Byte)
      /\ s.buffer \in Seq(Input) /\ s.count \in Nat /\ s.arrived \in Nat /\ s.cur \in Nat
      /\ s.queued \in Nat /\ s.left \in 0 .. Pieces
  BY DEF Base, State
<1>2. s.count + Requests(s.buffer) <= s.arrived /\ s.arrived <= Len(s.x) /\ s.cur \in {0, s.count}
  BY DEF Base
<1>3. Requests(s.buffer) \in Nat
  BY <1>1, RequestsAre
<1>4. s.count <= s.arrived /\ s.count <= Len(s.x)
  BY <1>1, <1>2, <1>3
<1>5. s.cur \in 0 .. Len(s.x)
  BY <1>1, <1>2, <1>4
<1>6. QED
  BY <1>1, <1>2, <1>3, <1>4, <1>5

LEMMA BaseHeld ==
  ASSUME NEW s, Base(s), NEW n, n \in 1 .. Len(s.x)
  PROVE  /\ s.x[n] \in Exchange
         /\ Held(s.x[n], n, s.count, s.cur, Sent(s.wire, n), s.queued)
         /\ Sent(s.wire, n) \in Nat
<1>1. s.x \in Seq(Exchange) /\ s.wire \in Seq(Byte)
  BY BaseTypes
<1>2. s.x[n] \in Exchange
  BY <1>1
<1>3. Sent(s.wire, n) \in Nat
  BY <1>1, OutCounts
<1>4. QED
  BY <1>2, <1>3 DEF Base

\* Only the request that is served has callbacks, on an open connection, and either the
\* handler has been asked and has not decided, or it streams.
LEMMA LiveServes ==
  ASSUME NEW s, Sound(s), NEW n, n \in 1 .. Len(s.x), s.x[n].live
  PROVE  /\ n = s.count /\ s.cur = s.count /\ s.count > 0 /\ s.await
         /\ ~s.closing /\ s.sock = "open"
         /\ Asked(s) \/ Flows(s)
<1>1. Base(s)
  BY DEF Sound
<1>2. n = s.cur /\ n \in Nat \ {0}
  BY <1>1, BaseHeld DEF Held
<1>3. s.cur \in {0, s.count}
  BY <1>1, BaseTypes
<1>4. ~Ended(s)
  BY <1>2 DEF Ended
<1>5. ~s.closing /\ (Waiting(s) \/ Serving(s)) /\ s.sock \in {"none", "open"}
  BY <1>4 DEF Sound
<1>6. Serving(s)
  BY <1>4, <1>5 DEF Waiting
<1>7. Asked(s) \/ Flows(s)
  BY <1>2, <1>3, <1>6 DEF Serving, Delayed, InPieces, Answered
<1>8. s.sock # "none"
  <2>1. Fresh(Len(s.x)).cur = 0
    BY DEF Fresh
  <2>2. QED
    BY <1>2, <2>1 DEF Sound
<1>9. QED
  BY <1>2, <1>3, <1>5, <1>6, <1>7, <1>8 DEF Serving

LEMMA AwakeIsOpen ==
  ASSUME NEW s, Sound(s), s.sock # "none", ~s.closing
  PROVE  s.sock = "open" /\ s.listed
BY DEF Sound, Base

-----------------------------------------------------------------------------
(* Steps that touch neither the wire nor what is served.                   *)

\* From s the connection may go on as r.
Follow(s, r) ==
  /\ Sound(r) /\ (Calm(s) => Calm(r))
  /\ s.sock \in {"none", "gone"} => r.sock \in {"none", "gone"}

LEMMA CutFollows ==
  ASSUME NEW s, NEW p, Base(p), NEW r, Cut(p, r)
  PROVE  Follow(s, r)
<1>1. Sound(r) /\ ~Ready(r) /\ r.sock = "gone"
  BY CutSound
<1>2. QED
  BY <1>1 DEF Follow, Calm

LEMMA SelfFollows == ASSUME NEW s, Sound(s) PROVE Follow(s, s)
BY DEF Follow

LEMMA FollowOn ==
  ASSUME NEW s, NEW q, NEW r, Follow(s, q), Follow(q, r)
  PROVE  Follow(s, r)
BY DEF Follow

\* The client goes, or a flush tells that it has gone.
LEMMA DisconnectFollows ==
  ASSUME NEW s, Sound(s)
  PROVE  Follow(s, OnDisconnected(s))
<1>1. Base(s) /\ s \in State /\ s.cur \in 0 .. Len(s.x)
  BY BaseTypes DEF Sound
<1>2. QED
  BY <1>1, DisconnectIs, CutFollows

LEMMA FlushFollows ==
  ASSUME NEW o, NEW s, Follow(o, s), NEW broken \in BOOLEAN
  PROVE  Follow(o, Flush(s, broken))
<1>1. Follow(s, OnDisconnected(s))
  BY DisconnectFollows DEF Follow
<1>2. CASE broken
  <2>1. Flush(s, broken) = OnDisconnected(s)
    BY <1>2 DEF Flush
  <2>2. QED
    BY <1>1, <2>1, FollowOn
<1>3. CASE ~broken
  <2>1. Flush(s, broken) = s
    BY <1>3 DEF Flush
  <2>2. QED
    BY <2>1
<1>4. QED
  BY <1>2, <1>3

\* The timers and posted calls, and what the next response says of the connection.
Loose == {"idle", "again", "lateHead", "last", "keep"}
Fields ==
  {"sock", "listed", "buffer", "owes", "arrived", "count", "parsed", "keep", "await", "closing",
   "last", "cur", "streaming", "headSent", "queued", "idle", "again", "late", "lateHead", "left",
   "x", "wire"}
Same(s, r, changed) == \A f \in Fields \ changed : r[f] = s[f]

LEMMA LooseSame ==
  ASSUME NEW s, NEW r, Same(s, r, Loose)
  PROVE  /\ r.sock = s.sock /\ r.listed = s.listed /\ r.buffer = s.buffer /\ r.owes = s.owes
         /\ r.arrived = s.arrived /\ r.count = s.count /\ r.parsed = s.parsed
         /\ r.await = s.await /\ r.closing = s.closing /\ r.cur = s.cur
         /\ r.streaming = s.streaming /\ r.headSent = s.headSent /\ r.queued = s.queued
         /\ r.late = s.late /\ r.left = s.left /\ r.x = s.x /\ r.wire = s.wire
BY DEF Same, Fields, Loose

LEMMA LooseBase ==
  ASSUME NEW s, Base(s), NEW r, r \in State, Same(s, r, Loose)
  PROVE  Base(r)
<1>1. /\ r.sock = s.sock /\ r.listed = s.listed /\ r.buffer = s.buffer
      /\ r.arrived = s.arrived /\ r.count = s.count /\ r.cur = s.cur
      /\ r.queued = s.queued /\ r.x = s.x /\ r.wire = s.wire
  BY LooseSame
<1>2. QED
  BY <1>1 DEF Base

LEMMA LooseSound ==
  ASSUME NEW s, Sound(s), s.sock # "none", NEW r, r \in State, Same(s, r, Loose)
  PROVE  Sound(r)
<1>1. /\ r.sock = s.sock /\ r.listed = s.listed /\ r.buffer = s.buffer /\ r.owes = s.owes
      /\ r.arrived = s.arrived /\ r.count = s.count /\ r.parsed = s.parsed
      /\ r.await = s.await /\ r.closing = s.closing /\ r.cur = s.cur
      /\ r.streaming = s.streaming /\ r.headSent = s.headSent /\ r.queued = s.queued
      /\ r.late = s.late /\ r.left = s.left /\ r.x = s.x /\ r.wire = s.wire
  BY LooseSame
<1>2. Base(r)
  BY LooseBase DEF Sound
<1>3. Ended(s) => Ended(r)
  BY <1>1 DEF Ended
<1>4. Chained(s) => Chained(r)
  BY <1>1 DEF Chained
<1>5. Waiting(s) => Waiting(r)
  BY <1>1, <1>3, <1>4 DEF Waiting
<1>6. Begins(s) => Begins(r)
  BY <1>1 DEF Begins
<1>7. Asked(s) => Asked(r)
  BY <1>1, <1>4, <1>6 DEF Asked
<1>8. Answered(s) => Answered(r)
  BY <1>1, <1>4 DEF Answered
<1>9. Delayed(s) => Delayed(r)
  BY <1>1, <1>6, <1>8 DEF Delayed
<1>10. InPieces(s) => InPieces(r)
  BY <1>1, <1>8 DEF InPieces
<1>11. Flows(s) => Flows(r)
  BY <1>1, <1>6 DEF Flows
<1>12. Serving(s) => Serving(r)
  BY <1>1, <1>7, <1>9, <1>10, <1>11 DEF Serving
<1>13. QED
  BY <1>1, <1>2, <1>3, <1>5, <1>12 DEF Sound

\* An exchange nobody serves any more may still be called: nothing else changes.
LEMMA DeadEdit ==
  ASSUME NEW s, Sound(s), NEW n, n \in 1 .. s.count, s.x[n].born, ~s.x[n].live,
         NEW e, e \in Exchange, ~e.live, e.born, e.told = s.x[n].told, e.sent = s.x[n].sent,
         e.chunks = s.x[n].chunks, e.streaming => ~e.responded,
         s.x[n].responded => e.responded /\ ~e.streaming
  PROVE  Follow(s, [s EXCEPT !.x[n] = e])
<1> DEFINE y == [s.x EXCEPT ![n] = e]
           r == [s EXCEPT !.x = y]
<1>1. /\ s \in State /\ s.x \in Seq(Exchange) /\ Len(s.x) \in Nat /\ s.count \in Nat
      /\ s.count <= Len(s.x) /\ s.wire \in Seq(Byte) /\ Base(s)
  BY BaseTypes DEF Sound
<1>2. n \in 1 .. Len(s.x) /\ n \in 1 .. s.count
  BY <1>1
<1>3. /\ y \in Seq(Exchange) /\ Len(y) = Len(s.x) /\ y[n] = e
      /\ \A m \in 1 .. Len(s.x) : m # n => y[m] = s.x[m]
  BY <1>1, <1>2
<1>4. [s EXCEPT !.x[n] = e] = r
  BY <1>1 DEF State
<1> HIDE DEF y
<1>5. r \in State
  BY <1>1, <1>3 DEF State
<1>6. /\ r.sock = s.sock /\ r.listed = s.listed /\ r.buffer = s.buffer /\ r.owes = s.owes
      /\ r.arrived = s.arrived /\ r.count = s.count /\ r.parsed = s.parsed
      /\ r.await = s.await /\ r.closing = s.closing /\ r.cur = s.cur
      /\ r.streaming = s.streaming /\ r.headSent = s.headSent /\ r.queued = s.queued
      /\ r.late = s.late /\ r.left = s.left /\ r.x = y /\ r.wire = s.wire /\ r.again = s.again
  BY <1>1 DEF State
<1> HIDE DEF r
<1>7. Held(s.x[n], n, s.count, s.cur, Sent(s.wire, n), s.queued) /\ s.x[n] \in Exchange
  BY <1>1, <1>2, BaseHeld
<1>8. s.x[n].told \/ s.x[n].responded
  BY <1>7 DEF Held
<1>9. ~(n > s.count)
  BY <1>1, <1>2
<1>10. Held(e, n, s.count, s.cur, Sent(s.wire, n), s.queued)
  BY <1>7, <1>8, <1>9 DEF Held
<1>11. \A m \in 1 .. Len(y) : Held(y[m], m, s.count, s.cur, Sent(s.wire, m), s.queued)
  <2>1. \A m \in 1 .. Len(s.x) : Held(s.x[m], m, s.count, s.cur, Sent(s.wire, m), s.queued)
    BY <1>1 DEF Base
  <2>2. QED
    BY <1>3, <1>10, <2>1
<1>12. Ordered(s.wire, y, s.count)
  <2>1. Ordered(s.wire, s.x, s.count)
    BY <1>1 DEF Base
  <2>2. \A m \in 1 .. s.count : m \in 1 .. Len(s.x)
    BY <1>1
  <2>3. Settled(s.x[n]) => Settled(e)
    BY DEF Settled
  <2>4. \A m \in 1 .. s.count : Settled(s.x[m]) => Settled(y[m]) \/ Out(s.wire, m) = {}
    BY <1>3, <2>2, <2>3
  <2>5. QED
    BY <1>1, <2>1, <2>4, OrderEdit
<1>13. Base(r)
  BY <1>1, <1>3, <1>5, <1>6, <1>11, <1>12 DEF Base
<1>14. s.sock # "none"
  <2>1. Fresh(Len(s.x)).count = 0
    BY DEF Fresh
  <2>2. s.count # 0
    BY <1>1, <1>2
  <2>3. QED
    BY <2>1, <2>2 DEF Sound
<1>15. Ended(s) => Ended(r)
  BY <1>6 DEF Ended
<1>16. Chained(s) => Chained(r)
  BY <1>6 DEF Chained
<1>17. Waiting(s) => Waiting(r)
  BY <1>6, <1>15, <1>16 DEF Waiting
<1>18. Begins(s) => Begins(r)
  BY <1>6 DEF Begins
<1>19. ASSUME Serving(s) PROVE Serving(r)
  <2>1. s.count \in 1 .. Len(s.x)
    BY <1>1, <1>19 DEF Serving
  <2>2. n # s.count => y[s.count] = s.x[s.count]
    BY <1>3, <2>1
  <2>3. n = s.count => ~Asked(s) /\ ~Flows(s)
    BY DEF Asked, Flows
  <2>4. n = s.count => y[s.count] = e
    BY <1>3
  <2>5. Asked(s) => Asked(r)
    BY <1>6, <1>16, <1>18, <2>2, <2>3 DEF Asked
  <2>6. Flows(s) => Flows(r)
    BY <1>6, <1>18, <2>2, <2>3 DEF Flows
  <2>7. Answered(s) => Answered(r)
    BY <1>6, <1>16, <2>2, <2>4 DEF Answered
  <2>8. Delayed(s) => Delayed(r)
    BY <1>6, <1>18, <2>7 DEF Delayed
  <2>9. InPieces(s) => InPieces(r)
    BY <1>6, <2>7 DEF InPieces
  <2>10. QED
    BY <1>6, <1>19, <2>5, <2>6, <2>8, <2>9 DEF Serving
<1>20. Sound(r)
  BY <1>6, <1>13, <1>14, <1>15, <1>17, <1>19 DEF Sound
<1>21. Calm(s) => Calm(r)
  BY <1>6 DEF Calm, Ready
<1>22. QED
  BY <1>4, <1>6, <1>20, <1>21 DEF Follow

-----------------------------------------------------------------------------
(* A response goes out.                                                    *)

\* The request that is served is answered, and nothing of the others is open.
Owing(s) ==
  /\ Base(s) /\ ~s.closing /\ s.sock = "open" /\ ~s.streaming /\ s.count > 0
  /\ ~s.late /\ s.queued = 0 /\ Chain(s.buffer, FALSE, s.owes)
  /\ \A n \in 1 .. Len(s.x) : ~s.x[n].live
  /\ s.x[s.count].sent \/ ~s.x[s.count].born

\* It still is when more of its response is on the wire.
LEMMA OwingPut ==
  ASSUME NEW s, Owing(s), NEW u, u \in Byte, u.req = s.count, Goes(s.x, LastOf(s.wire), u)
  PROVE  /\ Owing(Put(s, u)) /\ LastOf(Put(s, u).wire) = u
         /\ Same(s, Put(s, u), {"wire"})
<1> DEFINE w == Append(s.wire, u)
           r == Put(s, u)
<1>1. /\ s \in State /\ s.x \in Seq(Exchange) /\ Len(s.x) \in Nat /\ s.count \in Nat
      /\ s.count <= Len(s.x) /\ s.wire \in Seq(Byte) /\ Base(s)
  BY BaseTypes DEF Owing
<1>2. w \in Seq(Byte) /\ LastOf(w) = u
  BY <1>1, LastPut
<1>3. Ordered(w, s.x, s.count)
  <2>1. Ordered(s.wire, s.x, s.count)
    BY <1>1 DEF Base
  <2>2. u.req \in 1 .. s.count /\ s.count <= s.count
    BY <1>1 DEF Owing
  <2>3. QED
    BY <1>1, <2>1, <2>2, OrderPut
<1>4. \A n \in 1 .. Len(s.x) : Held(s.x[n], n, s.count, s.cur, Sent(w, n), s.queued)
  <2> SUFFICES ASSUME NEW n, n \in 1 .. Len(s.x)
               PROVE  Held(s.x[n], n, s.count, s.cur, Sent(w, n), s.queued)
    OBVIOUS
  <2>1. Held(s.x[n], n, s.count, s.cur, Sent(s.wire, n), s.queued)
    BY <1>1, BaseHeld
  <2>2. CASE n # s.count
    <3>1. Sent(w, n) = Sent(s.wire, n)
      BY <1>1, <2>2, OutPut
    <3>2. QED
      BY <2>1, <3>1
  <2>3. CASE n = s.count
    BY <2>1, <2>3 DEF Held, Owing
  <2>4. QED
    BY <2>2, <2>3
<1> HIDE DEF w
<1>5. r \in State /\ r.wire = w /\ Same(s, r, {"wire"})
  <2>1. r = [s EXCEPT !.wire = w]
    BY <1>1 DEF Put, w, State
  <2>2. QED
    BY <1>1, <1>2, <2>1 DEF State, Same, Fields
<1> HIDE DEF r
<1>6. /\ r.sock = s.sock /\ r.listed = s.listed /\ r.buffer = s.buffer /\ r.owes = s.owes
      /\ r.arrived = s.arrived /\ r.count = s.count /\ r.closing = s.closing
      /\ r.cur = s.cur /\ r.streaming = s.streaming /\ r.queued = s.queued
      /\ r.late = s.late /\ r.left = s.left /\ r.x = s.x
  BY <1>5 DEF Same, Fields
<1>7. Base(r)
  BY <1>1, <1>3, <1>4, <1>5, <1>6 DEF Base
<1>8. Owing(r)
  BY <1>6, <1>7 DEF Owing
<1>9. QED
  BY <1>2, <1>5, <1>8 DEF r

LEMMA FinishFollows ==
  ASSUME NEW s, Owing(s), s.left = 0, LastOf(s.wire).end, LastOf(s.wire).req = s.count,
         NEW o
  PROVE  o.sock = "open" => Follow(o, FinishResponse(s))
<1> DEFINE q == [s EXCEPT !.await = FALSE, !.cur = 0]
           r == FinishResponse(s)
<1>1. /\ s \in State /\ s.x \in Seq(Exchange) /\ Len(s.x) \in Nat /\ s.count \in Nat
      /\ s.count <= Len(s.x) /\ s.wire \in Seq(Byte) /\ Base(s)
  BY BaseTypes DEF Owing
<1>2. Release([s EXCEPT !.await = FALSE]) = q
  BY DEF Release
<1>3. r = IF q.last THEN Drain(q) ELSE ArmIdle([q EXCEPT !.parsed = FALSE, !.again = TRUE])
  BY <1>2 DEF FinishResponse
<1> HIDE DEF r
<1>4. q \in State
  BY <1>1 DEF State
<1>5. /\ r \in State /\ r.buffer = s.buffer /\ r.owes = s.owes /\ r.count = s.count
      /\ r.arrived = s.arrived /\ r.wire = s.wire /\ r.x = s.x /\ r.cur = 0 /\ ~r.await
      /\ ~r.streaming /\ r.queued = 0 /\ r.left = 0 /\ ~r.late
      /\ \/ r.closing /\ r.sock = "draining" /\ r.listed = s.listed
         \/ ~r.closing /\ r.sock = "open" /\ r.listed = s.listed /\ ~r.parsed /\ r.again
  <2>1. /\ q.sock = "open" /\ ~q.closing /\ q.listed = s.listed /\ q.buffer = s.buffer
        /\ q.owes = s.owes /\ q.count = s.count /\ q.arrived = s.arrived
        /\ q.wire = s.wire /\ q.x = s.x /\ q.cur = 0 /\ ~q.await /\ ~q.streaming
        /\ q.queued = 0 /\ q.left = 0 /\ ~q.late
    BY <1>1 DEF State, Owing
  <2> HIDE DEF q
  <2>2. CASE q.last
    BY <1>3, <1>4, <2>1, <2>2 DEF Drain, State
  <2>3. CASE ~q.last
    BY <1>3, <1>4, <2>1, <2>3 DEF ArmIdle, State
  <2>4. QED
    BY <2>2, <2>3
<1>6. \A n \in 1 .. Len(s.x) : Held(s.x[n], n, s.count, 0, Sent(s.wire, n), 0)
  <2>1. \A n \in 1 .. Len(s.x) :
          Held(s.x[n], n, s.count, s.cur, Sent(s.wire, n), s.queued) /\ ~s.x[n].live
    BY <1>1 DEF Base, Owing
  <2>2. QED
    BY <2>1 DEF Held
<1>7. Base(r)
  BY <1>1, <1>5, <1>6 DEF Base, Owing
<1>8. Ended(r)
  BY <1>5 DEF Ended
<1>9. ~r.closing => Waiting(r)
  BY <1>5, <1>8 DEF Waiting, Chained, Owing
<1>10. Sound(r)
  BY <1>5, <1>7, <1>8, <1>9 DEF Sound
<1>11. Calm(r)
  BY <1>5 DEF Calm, Ready
<1>12. QED
  BY <1>10, <1>11 DEF Follow, r

\* A response begins behind whatever its connection sent before it.
LEMMA FirstGoes ==
  ASSUME NEW s, s \in State, Begins(s), NEW end, end \in BOOLEAN, Settled(s.x[s.count])
  PROVE  Goes(s.x, LastOf(s.wire), Bytes(s.count, 1, end))
<1>1. s.count \in Nat
  BY DEF State
<1>2. CASE LastOf(s.wire) = Bytes(s.count, -1, FALSE)
  BY <1>1, <1>2 DEF Goes, Bytes
<1>3. CASE LastOf(s.wire).end /\ LastOf(s.wire).req = s.count - 1
  BY <1>1, <1>3 DEF Goes, Bytes
<1>4. QED
  BY <1>2, <1>3 DEF Begins

LEMMA OwingSettled ==
  ASSUME NEW s, Owing(s)
  PROVE  Settled(s.x[s.count])
<1>1. s.count \in 1 .. Len(s.x) /\ Base(s)
  BY BaseTypes DEF Owing
<1>2. QED
  BY <1>1, BaseHeld DEF Held, Owing, Settled

LEMMA PieceGoes ==
  ASSUME NEW s, Owing(s), s.left \in 1 .. Pieces, s.await, s.cur = s.count, s.x[s.count].born,
         \/ s.left = Pieces /\ Begins(s)
         \/ s.left < Pieces /\ LastOf(s.wire) = Bytes(s.count, Pieces - s.left, FALSE),
         NEW o
  PROVE  o.sock = "open" => Follow(o, SendPiece(s, FALSE))
<1> DEFINE u == Bytes(s.count, Pieces - s.left + 1, s.left = 1)
           q == [s EXCEPT !.left = s.left - 1]
           r == Put(q, u)
<1>1. /\ s \in State /\ s.x \in Seq(Exchange) /\ Len(s.x) \in Nat /\ s.count \in Nat
      /\ s.count <= Len(s.x) /\ s.wire \in Seq(Byte) /\ Base(s) /\ Pieces \in Nat \ {0}
      /\ s.left \in Int
  BY BaseTypes DEF Owing, HttpServerAssumption
<1>2. /\ u \in Byte /\ u.req = s.count /\ u.part = Pieces - s.left + 1
      /\ u.end = (s.left = 1)
  BY <1>1 DEF Bytes, Byte
<1> HIDE DEF u
<1>3. s.left - 1 \in 0 .. Pieces
  BY <1>1
<1>4. /\ q \in State /\ q.left = s.left - 1 /\ q.sock = s.sock /\ q.listed = s.listed
      /\ q.buffer = s.buffer /\ q.owes = s.owes /\ q.arrived = s.arrived /\ q.count = s.count
      /\ q.closing = s.closing /\ q.cur = s.cur /\ q.streaming = s.streaming
      /\ q.queued = s.queued /\ q.late = s.late /\ q.x = s.x /\ q.wire = s.wire
      /\ q.await = s.await /\ q.parsed = s.parsed
  BY <1>1, <1>3 DEF State
<1>5. Owing(q)
  <2>1. Base(q)
    BY <1>1, <1>4 DEF Base
  <2>2. QED
    BY <1>4, <2>1 DEF Owing
<1>6. Goes(q.x, LastOf(q.wire), u)
  <2>1. CASE s.left = Pieces /\ Begins(s)
    <3>1. u = Bytes(s.count, 1, s.left = 1) /\ (s.left = 1) \in BOOLEAN
      BY <1>1, <2>1 DEF u
    <3>2. QED
      BY <1>1, <1>4, <2>1, <3>1, FirstGoes, OwingSettled
  <2>2. CASE s.left < Pieces /\ LastOf(s.wire) = Bytes(s.count, Pieces - s.left, FALSE)
    BY <1>1, <1>2, <1>4, <2>2 DEF Goes, Bytes
  <2>3. QED
    BY <2>1, <2>2
<1> HIDE DEF q
<1>7. Owing(r) /\ LastOf(r.wire) = u /\ Same(q, r, {"wire"})
  BY <1>2, <1>4, <1>5, <1>6, OwingPut
<1>8. SendPiece(s, FALSE) = IF r.left = 0 THEN FinishResponse(r) ELSE r
  BY DEF SendPiece, Flush, q, u, Owing
<1> HIDE DEF r
<1>9. /\ r.left = s.left - 1 /\ r.sock = "open" /\ ~r.closing /\ r.count = s.count
      /\ r.cur = s.count /\ r.await /\ r.x = s.x /\ ~r.streaming /\ r.queued = 0 /\ ~r.late
      /\ r.buffer = s.buffer /\ r.owes = s.owes /\ r.parsed = s.parsed
  BY <1>4, <1>7 DEF Same, Fields, Owing
<1>10. CASE s.left = 1
  <2>1. r.left = 0 /\ LastOf(r.wire).end /\ LastOf(r.wire).req = r.count
    <3>1. u.end
      BY <1>2, <1>10
    <3>2. r.left = 0
      BY <1>9, <1>10
    <3>3. QED
      BY <1>2, <1>7, <1>9, <3>1, <3>2
  <2>2. QED
    BY <1>7, <1>8, <2>1, FinishFollows
<1>11. CASE s.left # 1
  <2>1. r.left \in 1 .. Pieces - 1 /\ r.left # 0 /\ Pieces - s.left + 1 = Pieces - r.left
    BY <1>1, <1>9, <1>11
  <2>2. LastOf(r.wire) = Bytes(r.count, Pieces - r.left, FALSE)
    <3>1. (s.left = 1) = FALSE
      BY <1>11
    <3>2. QED
      BY <1>7, <1>9, <2>1, <3>1 DEF u
  <2>3. Answered(r)
    <3>1. s.x[s.count].sent /\ ~s.x[s.count].live /\ s.x[s.count].born
      BY <1>1 DEF Owing
    <3>2. Chained(r)
      BY <1>9 DEF Chained, Owing
    <3>3. QED
      BY <1>9, <3>1, <3>2 DEF Answered
  <2>4. Serving(r)
    BY <1>9, <2>1, <2>2, <2>3 DEF Serving, InPieces, Owing
  <2>5. Sound(r)
    BY <1>7, <1>9, <2>4 DEF Sound, Owing
  <2>6. Calm(r)
    BY <1>9 DEF Calm, Ready
  <2>7. QED
    BY <1>8, <2>1, <2>5, <2>6 DEF Follow
<1>12. QED
  BY <1>10, <1>11

\* Or it finds the connection broken.
LEMMA PieceFollows ==
  ASSUME NEW s, Owing(s), s.left \in 1 .. Pieces, s.await, s.cur = s.count, s.x[s.count].born,
         \/ s.left = Pieces /\ Begins(s)
         \/ s.left < Pieces /\ LastOf(s.wire) = Bytes(s.count, Pieces - s.left, FALSE),
         NEW o, NEW broken \in BOOLEAN
  PROVE  o.sock = "open" => Follow(o, SendPiece(s, broken))
<1> DEFINE q == SendPiece(s, FALSE)
<1>1. o.sock = "open" => Follow(o, q)
  BY PieceGoes
<1>2. SendPiece(s, broken) = Flush(q, broken)
  BY DEF SendPiece, Flush, Owing
<1> HIDE DEF q
<1>3. Follow(o, q) => Follow(o, Flush(q, broken))
  BY FlushFollows
<1>4. QED
  BY <1>1, <1>2, <1>3

\* sendNow() of an answer whose response has not begun.
LEMMA SendFollows ==
  ASSUME NEW s, Owing(s), s.left = 0, Begins(s), NEW how,
         how \in {"slow", "cut"} => s.await /\ s.cur = s.count /\ s.x[s.count].born,
         NEW o
  PROVE  o.sock = "open" => Follow(o, SendNow(s, how))
<1> DEFINE q == [s EXCEPT !.last = ~s.keep \/ how = "close"]
           p == [q EXCEPT !.left = Pieces]
<1>1. /\ s \in State /\ s.x \in Seq(Exchange) /\ Len(s.x) \in Nat /\ s.count \in Nat
      /\ s.count <= Len(s.x) /\ s.wire \in Seq(Byte) /\ Base(s) /\ Pieces \in Nat \ {0}
  BY BaseTypes DEF Owing, HttpServerAssumption
<1>2. /\ q \in State /\ q.left = s.left /\ q.sock = s.sock /\ q.listed = s.listed
      /\ q.buffer = s.buffer /\ q.owes = s.owes /\ q.arrived = s.arrived /\ q.count = s.count
      /\ q.closing = s.closing /\ q.cur = s.cur /\ q.streaming = s.streaming
      /\ q.queued = s.queued /\ q.late = s.late /\ q.x = s.x /\ q.wire = s.wire
      /\ q.await = s.await
  <2> DEFINE b == ~s.keep \/ how = "close"
  <2>1. b \in BOOLEAN
    OBVIOUS
  <2> HIDE DEF b
  <2>2. QED
    BY <1>1, <2>1 DEF State
<1>3. SendNow(s, how) =
        IF how \in {"slow", "cut"} THEN SendPiece(p, how = "cut")
        ELSE FinishResponse(Put(q, Bytes(s.count, 1, TRUE)))
  BY DEF SendNow, Owing
<1> HIDE DEF q
<1>4. Owing(q) /\ Begins(q)
  <2>1. Base(q)
    BY <1>1, <1>2 DEF Base
  <2>2. QED
    BY <1>2, <2>1 DEF Owing, Begins
<1>5. CASE how \in {"slow", "cut"}
  <2>1. Pieces \in 0 .. Pieces
    BY <1>1
  <2>2. /\ p \in State /\ p.left = Pieces /\ p.sock = q.sock /\ p.listed = q.listed
        /\ p.buffer = q.buffer /\ p.owes = q.owes /\ p.arrived = q.arrived /\ p.count = q.count
        /\ p.closing = q.closing /\ p.cur = q.cur /\ p.streaming = q.streaming
        /\ p.queued = q.queued /\ p.late = q.late /\ p.x = q.x /\ p.wire = q.wire
        /\ p.await = q.await
    BY <1>2, <2>1 DEF State
  <2> HIDE DEF p
  <2>3. Owing(p) /\ Begins(p)
    <3>1. Base(p)
      BY <1>4, <2>2 DEF Base, Owing
    <3>2. QED
      BY <1>4, <2>2, <3>1 DEF Owing, Begins
  <2>4. p.left \in 1 .. Pieces
    BY <1>1, <2>2
  <2>5. p.await /\ p.cur = p.count /\ p.x[p.count].born
    BY <1>2, <1>5, <2>2
  <2> DEFINE b == how = "cut"
  <2>6. b \in BOOLEAN
    OBVIOUS
  <2> HIDE DEF b
  <2>7. o.sock = "open" => Follow(o, SendPiece(p, b))
    BY <2>2, <2>3, <2>4, <2>5, <2>6, PieceFollows
  <2>8. QED
    BY <1>3, <1>5, <2>7 DEF b
<1>6. CASE how \notin {"slow", "cut"}
  <2> DEFINE u == Bytes(s.count, 1, TRUE)
             r == Put(q, u)
  <2>1. u \in Byte /\ u.req = q.count /\ u.end
    BY <1>1, <1>2 DEF Bytes, Byte
  <2>2. Goes(q.x, LastOf(q.wire), u)
    BY <1>2, <1>4, FirstGoes, OwingSettled
  <2> HIDE DEF u
  <2>3. Owing(r) /\ LastOf(r.wire) = u /\ Same(q, r, {"wire"})
    BY <1>4, <2>1, <2>2, OwingPut
  <2> HIDE DEF r
  <2>4. r.left = 0 /\ r.count = q.count
    BY <1>2, <2>3 DEF Same, Fields
  <2>5. o.sock = "open" => Follow(o, FinishResponse(r))
    BY <2>1, <2>3, <2>4, FinishFollows
  <2>6. QED
    BY <1>3, <1>6, <2>5 DEF r, u
<1>7. QED
  BY <1>5, <1>6

-----------------------------------------------------------------------------
(* What handlers call.                                                     *)

\* The n-th exchange becomes e.
Edited(s, n, e) == [s EXCEPT !.x[n] = e]

LEMMA EditBase ==
  ASSUME NEW s, Base(s), NEW n, n \in 1 .. s.count, NEW e, e \in Exchange,
         Held(e, n, s.count, s.cur, Sent(s.wire, n), s.queued),
         Settled(s.x[n]) => Settled(e) \/ Out(s.wire, n) = {}
  PROVE  /\ Base(Edited(s, n, e)) /\ Same(s, Edited(s, n, e), {"x"})
         /\ Len(Edited(s, n, e).x) = Len(s.x) /\ Edited(s, n, e).x[n] = e
         /\ \A m \in 1 .. Len(s.x) : m # n => Edited(s, n, e).x[m] = s.x[m]
<1> DEFINE y == [s.x EXCEPT ![n] = e]
           r == Edited(s, n, e)
<1>1. /\ s \in State /\ s.x \in Seq(Exchange) /\ Len(s.x) \in Nat /\ s.count \in Nat
      /\ s.count <= Len(s.x) /\ s.wire \in Seq(Byte)
  BY BaseTypes
<1>2. n \in 1 .. Len(s.x)
  BY <1>1
<1>3. /\ y \in Seq(Exchange) /\ Len(y) = Len(s.x) /\ y[n] = e
      /\ \A m \in 1 .. Len(s.x) : m # n => y[m] = s.x[m]
  BY <1>1, <1>2
<1>4. r = [s EXCEPT !.x = y]
  BY <1>1 DEF State, Edited
<1> HIDE DEF y
<1>5. r \in State /\ Same(s, r, {"x"}) /\ r.x = y
  BY <1>1, <1>3, <1>4 DEF State, Same, Fields
<1> HIDE DEF r
<1>6. \A m \in 1 .. Len(y) : Held(y[m], m, s.count, s.cur, Sent(s.wire, m), s.queued)
  <2>1. \A m \in 1 .. Len(s.x) : Held(s.x[m], m, s.count, s.cur, Sent(s.wire, m), s.queued)
    BY DEF Base
  <2>2. QED
    BY <1>3, <2>1
<1>7. Ordered(s.wire, y, s.count)
  <2>1. Ordered(s.wire, s.x, s.count)
    BY DEF Base
  <2>2. \A m \in 1 .. s.count : m \in 1 .. Len(s.x)
    BY <1>1
  <2>3. \A m \in 1 .. s.count : Settled(s.x[m]) => Settled(y[m]) \/ Out(s.wire, m) = {}
    BY <1>3, <2>2
  <2>4. QED
    BY <1>1, <2>1, <2>3, OrderEdit
<1>8. /\ r.sock = s.sock /\ r.listed = s.listed /\ r.buffer = s.buffer
      /\ r.arrived = s.arrived /\ r.count = s.count /\ r.cur = s.cur
      /\ r.queued = s.queued /\ r.wire = s.wire
  BY <1>5 DEF Same, Fields
<1>9. Base(r)
  BY <1>3, <1>5, <1>6, <1>7, <1>8 DEF Base
<1>10. QED
  BY <1>3, <1>5, <1>9 DEF r

\* The handler answers the request that is served.
LEMMA AnswerOwes ==
  ASSUME NEW s, Sound(s), NEW n, n \in 1 .. s.count, s.x[n].live, ~s.x[n].streaming
  PROVE  LET r == [s EXCEPT !.x[n] = [@ EXCEPT !.responded = TRUE, !.live = FALSE, !.sent = TRUE]]
         IN /\ Owing(r) /\ Begins(r) /\ r.left = 0 /\ r.await /\ r.cur = r.count /\ r.x[r.count].born
            /\ Same(s, r, {"x"}) /\ s.sock = "open" /\ Answered(r)
<1> DEFINE e == [s.x[n] EXCEPT !.responded = TRUE, !.live = FALSE, !.sent = TRUE]
           r == Edited(s, n, e)
<1>1. /\ Base(s) /\ s.count \in Nat /\ s.count <= Len(s.x) /\ Len(s.x) \in Nat /\ s \in State
  BY BaseTypes DEF Sound
<1>2. n \in 1 .. Len(s.x)
  BY <1>1
<1>3. /\ n = s.count /\ s.cur = s.count /\ s.count > 0 /\ s.await /\ ~s.closing /\ s.sock = "open"
      /\ Asked(s)
  <2>1. /\ n = s.count /\ s.cur = s.count /\ s.count > 0 /\ s.await /\ ~s.closing
        /\ s.sock = "open" /\ (Asked(s) \/ Flows(s))
    BY <1>2, LiveServes
  <2>2. ~Flows(s)
    BY <2>1 DEF Flows
  <2>3. QED
    BY <2>1, <2>2
<1>4. /\ s.x[n] \in Exchange /\ Held(s.x[n], n, s.count, s.cur, Sent(s.wire, n), s.queued)
  BY <1>1, <1>2, BaseHeld
<1>5. /\ e \in Exchange /\ e.responded /\ ~e.live /\ e.sent /\ e.born = s.x[n].born
      /\ e.told = s.x[n].told /\ e.streaming = s.x[n].streaming /\ e.chunks = s.x[n].chunks
      /\ e.ok = s.x[n].ok
  BY <1>4 DEF Exchange
<1> HIDE DEF e
<1>6. Held(e, n, s.count, s.cur, Sent(s.wire, n), s.queued)
  <2>1. ~(n > s.count)
    BY <1>1, <1>2, <1>3
  <2>2. QED
    BY <1>4, <1>5, <2>1 DEF Held
<1>7. Settled(e)
  BY <1>5 DEF Settled
<1>8. Out(s.wire, n) = {} /\ Begins(s)
  BY <1>3 DEF Asked, Begins
<1>9. /\ Base(r) /\ Same(s, r, {"x"}) /\ Len(r.x) = Len(s.x) /\ r.x[n] = e
      /\ \A m \in 1 .. Len(s.x) : m # n => r.x[m] = s.x[m]
  BY <1>1, <1>5, <1>6, <1>7, EditBase
<1> HIDE DEF r
<1>10. /\ r.sock = s.sock /\ r.buffer = s.buffer /\ r.owes = s.owes /\ r.count = s.count
       /\ r.parsed = s.parsed /\ r.await = s.await /\ r.closing = s.closing /\ r.cur = s.cur
       /\ r.streaming = s.streaming /\ r.queued = s.queued
       /\ r.late = s.late /\ r.left = s.left /\ r.wire = s.wire
  BY <1>9 DEF Same, Fields
<1>11. \A m \in 1 .. Len(r.x) : ~r.x[m].live
  <2>1. \A m \in 1 .. Len(s.x) : s.x[m].live => m = n
    BY <1>3, LiveServes
  <2>2. QED
    BY <1>5, <1>9, <2>1
<1>12. Chained(r) /\ Chain(r.buffer, FALSE, r.owes) /\ Begins(r)
  BY <1>3, <1>8, <1>10 DEF Asked, Chained, Begins
<1>13. Owing(r)
  BY <1>3, <1>5, <1>9, <1>10, <1>11, <1>12 DEF Owing, Asked
<1>14. Answered(r) /\ r.x[r.count].born
  BY <1>3, <1>4, <1>5, <1>9, <1>10, <1>12 DEF Answered, Asked, Held
<1>15. r.left = 0 /\ r.await /\ r.cur = r.count
  BY <1>3, <1>10 DEF Asked
<1>16. QED
  BY <1>3, <1>9, <1>12, <1>13, <1>14, <1>15 DEF r, e, Edited

LEMMA DeliverFollows ==
  ASSUME NEW r, Owing(r), Begins(r), r.left = 0, r.await, r.cur = r.count, r.x[r.count].born,
         Answered(r), NEW s, s.sock = "open", NEW how
  PROVE  Follow(s, Deliver(r, how))
<1>1. Base(r) /\ r \in State /\ r.cur \in 0 .. Len(r.x) /\ ~r.closing /\ r.sock = "open"
  BY BaseTypes DEF Owing
<1>2. CASE how = "drop"
  <2>1. Deliver(r, how) = DropNow(r)
    BY <1>1, <1>2 DEF Deliver
  <2>2. Cut(r, DropNow(r))
    BY <1>1, DropIs
  <2>3. QED
    BY <1>1, <2>1, <2>2, CutFollows
<1>3. CASE how = "late"
  <2> DEFINE q == [r EXCEPT !.late = TRUE]
  <2>1. Deliver(r, how) = q
    BY <1>1, <1>3 DEF Deliver
  <2>2. /\ q \in State /\ q.late /\ q.sock = r.sock /\ q.listed = r.listed
        /\ q.buffer = r.buffer /\ q.owes = r.owes /\ q.arrived = r.arrived /\ q.count = r.count
        /\ q.closing = r.closing /\ q.cur = r.cur /\ q.streaming = r.streaming
        /\ q.queued = r.queued /\ q.left = r.left /\ q.x = r.x /\ q.wire = r.wire
        /\ q.await = r.await /\ q.parsed = r.parsed
    BY <1>1 DEF State
  <2> HIDE DEF q
  <2>3. Base(q)
    BY <1>1, <2>2 DEF Base
  <2>4. Chained(q) /\ Begins(q)
    BY <2>2 DEF Chained, Answered, Begins
  <2>5. Delayed(q)
    BY <2>2, <2>4 DEF Delayed, Answered
  <2>6. Sound(q)
    BY <1>1, <2>2, <2>3, <2>5 DEF Sound, Serving, Owing
  <2>7. Calm(q)
    BY <2>2 DEF Calm, Ready
  <2>8. QED
    BY <2>1, <2>6, <2>7 DEF Follow
<1>4. CASE how \notin {"drop", "late"}
  <2>1. Deliver(r, how) = SendNow(r, how)
    BY <1>1, <1>4 DEF Deliver
  <2>2. QED
    BY <2>1, SendFollows
<1>5. QED
  BY <1>2, <1>3, <1>4

LEMMA RespondFollows ==
  ASSUME NEW s, Sound(s), NEW n, n \in 1 .. s.count, s.x[n].born, NEW how
  PROVE  Follow(s, Respond(s, n, how))
<1>1. /\ Base(s) /\ s.count \in Nat /\ s.count <= Len(s.x) /\ Len(s.x) \in Nat /\ s \in State
  BY BaseTypes DEF Sound
<1>2. n \in 1 .. Len(s.x)
  BY <1>1
<1>3. s.x[n] \in Exchange
  BY <1>1, <1>2, BaseHeld
<1>4. CASE s.x[n].responded \/ s.x[n].streaming
  BY <1>4, SelfFollows DEF Respond
<1>5. CASE ~(s.x[n].responded \/ s.x[n].streaming) /\ ~s.x[n].live
  <2> DEFINE e == [s.x[n] EXCEPT !.responded = TRUE]
  <2>1. Respond(s, n, how) = [s EXCEPT !.x[n] = e]
    BY <1>1, <1>2, <1>5 DEF Respond, State
  <2>2. /\ e \in Exchange /\ ~e.live /\ e.born /\ e.told = s.x[n].told /\ e.sent = s.x[n].sent
        /\ e.chunks = s.x[n].chunks /\ ~e.streaming /\ e.responded
    BY <1>3, <1>5 DEF Exchange
  <2> HIDE DEF e
  <2>3. Follow(s, [s EXCEPT !.x[n] = e])
    BY <1>5, <2>2, DeadEdit
  <2>4. QED
    BY <2>1, <2>3
<1>6. CASE ~(s.x[n].responded \/ s.x[n].streaming) /\ s.x[n].live
  <2> DEFINE r == [s EXCEPT !.x[n] = [@ EXCEPT !.responded = TRUE, !.live = FALSE, !.sent = TRUE]]
  <2>1. Respond(s, n, how) = Deliver(r, how)
    BY <1>6 DEF Respond
  <2>2. /\ Owing(r) /\ Begins(r) /\ r.left = 0 /\ r.await /\ r.cur = r.count /\ r.x[r.count].born
        /\ s.sock = "open" /\ Answered(r)
    BY <1>6, AnswerOwes
  <2> HIDE DEF r
  <2>3. Follow(s, Deliver(r, how))
    BY <2>2, DeliverFollows
  <2>4. QED
    BY <2>1, <2>3
<1>7. QED
  BY <1>4, <1>5, <1>6

-----------------------------------------------------------------------------
(* Streams.                                                                *)

\* The head goes out, with what waited for it, if it has not.
LEMMA FlushIs ==
  ASSUME NEW s, Sound(s)
  PROVE  /\ Follow(s, FlushHead(s, FALSE))
         /\ Same(s, FlushHead(s, FALSE), {"headSent", "queued", "wire"})
         /\ s.streaming /\ ~s.closing /\ s.sock = "open" => FlushHead(s, FALSE).headSent
<1>1. /\ Base(s) /\ s \in State /\ s.count \in Nat /\ s.count <= Len(s.x) /\ Len(s.x) \in Nat
      /\ s.wire \in Seq(Byte) /\ s.queued \in Nat
  BY BaseTypes DEF Sound
<1>2. CASE s.closing \/ s.headSent \/ ~s.streaming \/ s.sock # "open"
  <2>1. FlushHead(s, FALSE) = s
    BY <1>2 DEF FlushHead
  <2>2. QED
    BY <1>2, <2>1, SelfFollows DEF Same
<1>3. CASE ~(s.closing \/ s.headSent \/ ~s.streaming \/ s.sock # "open")
  <2> DEFINE v == Flushed(s.wire, s.count, s.queued)
             r == [s EXCEPT !.headSent = TRUE, !.queued = 0, !.wire = v]
  <2>1. FlushHead(s, FALSE) = r
    BY <1>3 DEF FlushHead, Flush, Flushed
  <2>2. Prolongs(v, s.wire, s.count, s.queued)
    BY <1>1, FlushedIs
  <2> HIDE DEF v
  <2>3. v \in Seq(Byte)
    BY <2>2 DEF Prolongs
  <2>4. LastOf(v) = Bytes(s.count, s.queued, FALSE)
    BY <1>1, <2>2, ProlongLast
  <2>5. /\ s.await /\ s.cur = s.count /\ s.count > 0 /\ Flows(s) /\ Begins(s)
    <3>1. Serving(s)
      BY <1>3 DEF Sound, Waiting
    <3>2. QED
      BY <1>3, <3>1 DEF Serving, Asked, Delayed, InPieces, Answered, Flows
  <2>6. s.count \in 1 .. s.count /\ s.count \in 1 .. Len(s.x)
    BY <1>1, <2>5
  <2>7. Ordered(v, s.x, s.count)
    <3>1. Goes(s.x, LastOf(s.wire), Bytes(s.count, 0, FALSE))
      BY <1>1, <2>5 DEF Begins, Goes, Bytes
    <3>2. Ordered(s.wire, s.x, s.count)
      BY <1>1 DEF Base
    <3>3. QED
      BY <1>1, <2>2, <2>6, <3>1, <3>2, ProlongOrder
  <2>8. Sent(v, s.count) = s.queued /\ \A n : n # s.count => Sent(v, n) = Sent(s.wire, n)
    <3>1. Out(s.wire, s.count) = {}
      BY <2>5 DEF Begins
    <3>2. QED
      BY <1>1, <2>2, <3>1, ProlongSent
  <2>9. Held(s.x[s.count], s.count, s.count, s.cur, Sent(s.wire, s.count), s.queued)
        /\ Sent(s.wire, s.count) = 0 /\ s.x[s.count] \in Exchange
    <3>1. Out(s.wire, s.count) = {}
      BY <2>5 DEF Begins
    <3>2. QED
      BY <1>1, <2>6, <3>1, BaseHeld, OutCounts
  <2>10. s.x[s.count].live /\ s.x[s.count].chunks = s.queued
    <3>1. s.x[s.count].live /\ s.x[s.count].chunks = Sent(s.wire, s.count) + s.queued
      BY <2>5, <2>9 DEF Held, Flows
    <3>2. QED
      BY <1>1, <2>9, <3>1
  <2>11. \A n \in 1 .. Len(s.x) : Held(s.x[n], n, s.count, s.cur, Sent(v, n), 0)
    <3> SUFFICES ASSUME NEW n, n \in 1 .. Len(s.x)
                 PROVE  Held(s.x[n], n, s.count, s.cur, Sent(v, n), 0)
      OBVIOUS
    <3>1. CASE n = s.count
      <4>1. s.x[n].chunks = Sent(v, n) + 0 /\ ~(s.x[n].responded)
        BY <1>1, <2>8, <2>9, <2>10, <3>1 DEF Held
      <4>2. QED
        BY <2>9, <3>1, <4>1 DEF Held
    <3>2. CASE n # s.count
      <4>1. Held(s.x[n], n, s.count, s.cur, Sent(s.wire, n), s.queued)
        BY <1>1, BaseHeld
      <4>2. ~s.x[n].live
        BY <2>5, <3>2, <4>1 DEF Held
      <4>3. QED
        BY <2>8, <3>2, <4>1, <4>2 DEF Held
    <3>3. QED
      BY <3>1, <3>2
  <2>12. /\ r \in State /\ Same(s, r, {"headSent", "queued", "wire"})
         /\ r.headSent /\ r.queued = 0 /\ r.wire = v
    BY <1>1, <2>3 DEF State, Same, Fields
  <2> HIDE DEF r
  <2>13. /\ r.sock = s.sock /\ r.listed = s.listed /\ r.buffer = s.buffer /\ r.owes = s.owes
         /\ r.arrived = s.arrived /\ r.count = s.count /\ r.await = s.await
         /\ r.closing = s.closing /\ r.cur = s.cur /\ r.streaming = s.streaming
         /\ r.late = s.late /\ r.left = s.left /\ r.x = s.x
    BY <2>12 DEF Same, Fields
  <2>14. Base(r)
    BY <1>1, <2>7, <2>11, <2>12, <2>13 DEF Base
  <2>15. Flows(r)
    BY <2>4, <2>5, <2>10, <2>12, <2>13 DEF Flows
  <2>16. Sound(r)
    BY <1>3, <2>5, <2>13, <2>14, <2>15 DEF Sound, Serving
  <2>17. Calm(r)
    BY <2>5, <2>13 DEF Calm, Ready
  <2>18. Follow(s, r)
    BY <1>3, <2>16, <2>17 DEF Follow
  <2>19. QED
    BY <2>1, <2>12, <2>18
<1>4. QED
  BY <1>2, <1>3

\* Or the flush finds the connection broken.
LEMMA HeadFollows ==
  ASSUME NEW s, Sound(s), NEW broken \in BOOLEAN
  PROVE  Follow(s, FlushHead(s, broken))
<1>1. CASE s.closing \/ s.headSent \/ ~s.streaming \/ s.sock # "open"
  <2>1. FlushHead(s, broken) = s
    BY <1>1 DEF FlushHead
  <2>2. QED
    BY <2>1, SelfFollows
<1>2. CASE ~(s.closing \/ s.headSent \/ ~s.streaming \/ s.sock # "open")
  <2> DEFINE q == FlushHead(s, FALSE)
  <2>1. Follow(s, q)
    BY FlushIs
  <2>2. FlushHead(s, broken) = Flush(q, broken)
    BY <1>2 DEF FlushHead, Flush
  <2> HIDE DEF q
  <2>3. QED
    BY <2>1, <2>2, FlushFollows
<1>3. QED
  BY <1>1, <1>2

\* A stream opens.
LEMMA BeginFollows ==
  ASSUME NEW s, Sound(s), NEW n, n \in 1 .. s.count, s.x[n].born, NEW how
  PROVE  Follow(s, BeginStream(s, n, how))
<1>1. /\ Base(s) /\ s.count \in Nat /\ s.count <= Len(s.x) /\ Len(s.x) \in Nat /\ s \in State
  BY BaseTypes DEF Sound
<1>2. n \in 1 .. Len(s.x)
  BY <1>1
<1>3. s.x[n] \in Exchange /\ Held(s.x[n], n, s.count, s.cur, Sent(s.wire, n), s.queued)
  BY <1>1, <1>2, BaseHeld
<1> DEFINE e == [s.x[n] EXCEPT !.streaming = TRUE]
           r == Edited(s, n, e)
<1>4. r = [s EXCEPT !.x[n].streaming = TRUE]
  BY DEF Edited
<1>5. /\ e \in Exchange /\ e.streaming /\ e.live = s.x[n].live /\ e.born = s.x[n].born
      /\ e.told = s.x[n].told /\ e.sent = s.x[n].sent /\ e.chunks = s.x[n].chunks
      /\ e.responded = s.x[n].responded /\ e.ok = s.x[n].ok
  BY <1>3 DEF Exchange
<1>6. CASE s.x[n].responded \/ s.x[n].streaming
  BY <1>6, SelfFollows DEF BeginStream
<1>7. CASE ~(s.x[n].responded \/ s.x[n].streaming) /\ ~s.x[n].live
  <2>1. BeginStream(s, n, how) = r
    BY <1>4, <1>7 DEF BeginStream
  <2> HIDE DEF e
  <2>2. Follow(s, [s EXCEPT !.x[n] = e])
    BY <1>5, <1>7, DeadEdit
  <2>3. QED
    BY <2>1, <2>2 DEF Edited
<1>8. CASE ~(s.x[n].responded \/ s.x[n].streaming) /\ s.x[n].live
  <2>1. /\ n = s.count /\ s.cur = s.count /\ s.count > 0 /\ s.await /\ ~s.closing
        /\ s.sock = "open" /\ Asked(s)
    <3>1. /\ n = s.count /\ s.cur = s.count /\ s.count > 0 /\ s.await /\ ~s.closing
          /\ s.sock = "open" /\ (Asked(s) \/ Flows(s))
      BY <1>2, <1>8, LiveServes
    <3>2. ~Flows(s)
      BY <1>8, <3>1 DEF Flows
    <3>3. QED
      BY <3>1, <3>2
  <2> DEFINE q == [r EXCEPT !.streaming = TRUE, !.headSent = FALSE, !.await = TRUE,
                            !.idle = FALSE, !.lateHead = how = "lateHead"]
  <2>2. BeginStream(s, n, how) =
          IF how = "noHead" THEN DropNow(r)
          ELSE IF how = "lateHead" THEN q ELSE FlushHead(q, how = "lostHead")
    <3> HIDE DEF r
    <3>1. CASE how = "noHead"
      BY <1>4, <1>8, <2>1, <3>1 DEF BeginStream
    <3>2. CASE how # "noHead"
      BY <1>4, <1>8, <2>1, <3>2 DEF BeginStream
    <3>3. QED
      BY <3>1, <3>2
  <2>3. /\ Out(s.wire, n) = {} /\ Begins(s) /\ ~(n > s.count)
    <3>1. Begins(s) /\ Out(s.wire, s.count) = {}
      BY <2>1 DEF Asked, Begins
    <3>2. ~(s.count > s.count)
      BY <1>1
    <3>3. QED
      BY <2>1, <3>1, <3>2
  <2>4. Held(e, n, s.count, s.cur, Sent(s.wire, n), s.queued)
    BY <1>3, <1>5, <1>8, <2>3 DEF Held
  <2> HIDE DEF e
  <2>5. Base(r) /\ Same(s, r, {"x"}) /\ r.x[n] = e
    BY <1>1, <1>5, <2>3, <2>4, EditBase
  <2> HIDE DEF r
  <2>6. /\ r.sock = s.sock /\ r.listed = s.listed /\ r.count = s.count /\ r.closing = s.closing
        /\ r.cur = s.cur /\ r.late = s.late /\ r.left = s.left /\ r.wire = s.wire
    BY <2>5 DEF Same, Fields
  <2>7. CASE how = "noHead"
    <3>1. r \in State /\ r.cur \in 0 .. Len(r.x)
      BY <2>5, BaseTypes
    <3>2. Cut(r, DropNow(r))
      BY <3>1, DropIs
    <3>3. QED
      BY <2>2, <2>5, <2>7, <3>2, CutFollows
  <2>8. CASE how # "noHead"
    <3>1. r \in State
      BY <2>5, BaseTypes
    <3>2. /\ q \in State /\ q.streaming /\ ~q.headSent /\ q.await
          /\ q.sock = r.sock /\ q.listed = r.listed /\ q.buffer = r.buffer
          /\ q.arrived = r.arrived /\ q.count = r.count /\ q.closing = r.closing
          /\ q.cur = r.cur /\ q.queued = r.queued /\ q.late = r.late /\ q.left = r.left
          /\ q.x = r.x /\ q.wire = r.wire
      <4> DEFINE b == how = "lateHead"
      <4>1. b \in BOOLEAN
        OBVIOUS
      <4> HIDE DEF b
      <4>2. QED
        BY <3>1, <4>1 DEF State
    <3> HIDE DEF q
    <3>3. Base(q)
      BY <2>5, <3>2 DEF Base
    <3>4. Begins(q)
      BY <2>3, <2>6, <3>2 DEF Begins
    <3>5. Flows(q)
      BY <1>5, <1>8, <2>1, <2>5, <2>6, <3>2, <3>4 DEF Flows, Asked
    <3>6. Sound(q)
      BY <2>1, <2>6, <3>2, <3>3, <3>5 DEF Sound, Serving
    <3>7. Calm(q)
      BY <3>2 DEF Calm, Ready
    <3>8. Follow(s, q)
      BY <2>1, <3>6, <3>7 DEF Follow
    <3> DEFINE b == how = "lostHead"
    <3>9. b \in BOOLEAN
      OBVIOUS
    <3> HIDE DEF b
    <3>10. Follow(q, FlushHead(q, b))
      BY <3>6, <3>9, HeadFollows
    <3>11. Follow(s, FlushHead(q, b))
      BY <3>8, <3>10, FollowOn
    <3>12. QED
      BY <2>2, <2>8, <3>8, <3>11 DEF b
  <2>9. QED
    BY <2>7, <2>8
<1>9. QED
  BY <1>6, <1>7, <1>8

\* The stream that is served has one chunk more, queued or on the wire.
Longer(e) == [e EXCEPT !.chunks = @ + 1]

Grown(s, n, r) ==
  /\ r \in State /\ Same(s, r, {"x", "queued", "wire"})
  /\ r.x = [s.x EXCEPT ![n] = Longer(s.x[n])]
  /\ \/ r.queued = s.queued + 1 /\ r.wire = s.wire
     \/ /\ r.queued = s.queued /\ s.queued = 0
        /\ r.wire = Append(s.wire, Bytes(n, s.x[n].chunks + 1, FALSE))
        /\ LastOf(s.wire) = Bytes(n, s.x[n].chunks, FALSE)

LEMMA GrowBase ==
  ASSUME NEW s, Base(s), NEW n, n = s.count, n = s.cur, n > 0, s.x[n].live, s.x[n].streaming,
         s.x[n].chunks < Pieces, NEW r, Grown(s, n, r)
  PROVE  Base(r)
<1> DEFINE k == s.x[n].chunks + 1
           u == Bytes(n, k, FALSE)
           e == Longer(s.x[n])
<1>1. /\ s \in State /\ s.x \in Seq(Exchange) /\ Len(s.x) \in Nat /\ s.count \in Nat
      /\ s.count <= Len(s.x) /\ s.wire \in Seq(Byte) /\ s.queued \in Nat
  BY BaseTypes
<1>2. n \in 1 .. Len(s.x) /\ n \in 1 .. s.count /\ n \in Nat
  BY <1>1
<1>3. /\ s.x[n] \in Exchange /\ Held(s.x[n], n, s.count, s.cur, Sent(s.wire, n), s.queued)
      /\ Sent(s.wire, n) \in Nat
  BY <1>2, BaseHeld
<1>4. /\ s.x[n].chunks \in Nat /\ k \in Nat /\ k > 0 /\ k <= Pieces
  BY <1>3, HttpServerAssumption DEF Exchange
<1>5. /\ e \in Exchange /\ e.streaming /\ e.live /\ e.born = s.x[n].born
      /\ e.told = s.x[n].told /\ e.sent = s.x[n].sent /\ e.chunks = k
      /\ e.responded = s.x[n].responded /\ e.ok = s.x[n].ok
  BY <1>3, <1>4 DEF Exchange, Longer
<1>6. u \in Byte /\ u.req = n /\ u.part = k /\ ~u.end
  BY <1>2, <1>4 DEF Bytes, Byte
<1> HIDE DEF e
<1>7. /\ Len(r.x) = Len(s.x) /\ r.x[n] = e
      /\ \A m \in 1 .. Len(s.x) : m # n => r.x[m] = s.x[m]
  BY <1>1, <1>2, <1>5 DEF e, Grown
<1>8. /\ r.sock = s.sock /\ r.listed = s.listed /\ r.buffer = s.buffer
      /\ r.arrived = s.arrived /\ r.count = s.count /\ r.cur = s.cur
  BY DEF Same, Fields, Grown
<1> HIDE DEF u, k
<1>9. /\ r \in State /\ s.x[n].chunks = k - 1
      /\ \/ r.wire = s.wire /\ r.queued = s.queued + 1
         \/ /\ r.wire = Append(s.wire, u) /\ r.queued = s.queued
            /\ LastOf(s.wire) = Bytes(n, k - 1, FALSE)
  <2>1. s.x[n].chunks = k - 1
    BY <1>4 DEF k
  <2>2. QED
    BY <2>1 DEF u, k, Grown
<1>10. ASSUME NEW m, m # n PROVE Sent(r.wire, m) = Sent(s.wire, m)
  <2>1. Sent(Append(s.wire, u), m) = Sent(s.wire, m)
    BY <1>1, <1>6, <1>10, OutPut
  <2>2. QED
    BY <1>9, <2>1
<1>11. k = Sent(r.wire, n) + r.queued
  <2>1. k - 1 = Sent(s.wire, n) + s.queued
    BY <1>3, <1>9 DEF Held
  <2>2. CASE r.queued = s.queued + 1 /\ r.wire = s.wire
    BY <1>1, <1>3, <1>4, <2>1, <2>2
  <2>3. CASE r.queued = s.queued /\ r.wire = Append(s.wire, u)
    <3>1. Sent(r.wire, n) = Sent(s.wire, n) + 1
      BY <1>1, <1>4, <1>6, <2>3, OutPut
    <3>2. QED
      BY <1>1, <1>3, <1>4, <2>1, <2>3, <3>1
  <2>4. QED
    BY <1>9, <2>2, <2>3
<1>12. \A m \in 1 .. Len(s.x) : Settled(s.x[m]) <=> Settled(r.x[m])
  BY <1>5, <1>7 DEF Settled
<1>13. Ordered(s.wire, r.x, s.count)
  <2>1. Ordered(s.wire, s.x, s.count)
    BY DEF Base
  <2>2. \A m \in 1 .. s.count : m \in 1 .. Len(s.x)
    BY <1>1
  <2>3. \A m \in 1 .. s.count : Settled(s.x[m]) => Settled(r.x[m]) \/ Out(s.wire, m) = {}
    BY <1>12, <2>2
  <2>4. QED
    BY <1>1, <2>1, <2>3, OrderEdit
<1>14. Ordered(r.wire, r.x, r.count)
  <2>1. CASE r.wire = s.wire
    BY <1>8, <1>13, <2>1
  <2>2. CASE r.wire = Append(s.wire, u) /\ LastOf(s.wire) = Bytes(n, k - 1, FALSE)
    <3>1. Goes(r.x, LastOf(s.wire), u)
      BY <1>2, <1>4, <1>6, <2>2 DEF Goes, Bytes
    <3>2. s.count <= s.count
      BY <1>1
    <3>3. s.wire \in Seq(Byte) /\ u \in Byte /\ s.count \in Nat /\ u.req \in 1 .. s.count
      BY <1>1, <1>2, <1>6
    <3>4. Ordered(Append(s.wire, u), r.x, s.count)
      BY <1>13, <3>1, <3>2, <3>3, OrderPut
    <3>5. QED
      BY <1>8, <2>2, <3>4
  <2>3. QED
    BY <1>9, <2>1, <2>2
<1>15. ASSUME NEW m, m \in 1 .. Len(s.x)
       PROVE  Held(r.x[m], m, r.count, r.cur, Sent(r.wire, m), r.queued)
  <2>1. CASE m = n
    <3>1. ~(m > s.count)
      BY <1>1, <2>1
    <3>2. QED
      BY <1>3, <1>4, <1>5, <1>7, <1>8, <1>11, <2>1, <3>1 DEF Held
  <2>2. CASE m # n
    <3>1. Held(s.x[m], m, s.count, s.cur, Sent(s.wire, m), s.queued)
      BY <1>15, BaseHeld
    <3>2. ~s.x[m].live
      BY <2>2, <3>1 DEF Held
    <3>3. r.x[m] = s.x[m] /\ Sent(r.wire, m) = Sent(s.wire, m)
      BY <1>7, <1>10, <1>15, <2>2
    <3>4. QED
      BY <1>8, <3>1, <3>2, <3>3 DEF Held
  <2>3. QED
    BY <2>1, <2>2
<1>16. QED
  BY <1>7, <1>8, <1>9, <1>14, <1>15 DEF Base

LEMMA WriteFollows ==
  ASSUME NEW s, Sound(s), NEW n, n \in 1 .. s.count, s.x[n].born, s.x[n].chunks < Pieces,
         NEW fate
  PROVE  Follow(s, WriteChunk(s, n, fate))
<1>1. /\ Base(s) /\ s.count \in Nat /\ s.count <= Len(s.x) /\ Len(s.x) \in Nat /\ s \in State
      /\ s.x \in Seq(Exchange) /\ s.wire \in Seq(Byte) /\ s.queued \in Nat
  BY BaseTypes DEF Sound
<1>2. n \in 1 .. Len(s.x) /\ n \in Nat
  BY <1>1
<1>3. s.x[n] \in Exchange /\ Held(s.x[n], n, s.count, s.cur, Sent(s.wire, n), s.queued)
  BY <1>1, <1>2, BaseHeld
<1>4. CASE ~s.x[n].streaming
  BY <1>4, SelfFollows DEF WriteChunk
<1>5. CASE s.x[n].streaming /\ ~s.x[n].live
  <2> DEFINE e == [s.x[n] EXCEPT !.ok = FALSE]
  <2>1. WriteChunk(s, n, fate) = [s EXCEPT !.x[n] = e]
    BY <1>5 DEF WriteChunk
  <2>2. /\ e \in Exchange /\ ~e.live /\ e.born /\ e.told = s.x[n].told /\ e.sent = s.x[n].sent
        /\ e.chunks = s.x[n].chunks /\ e.streaming = s.x[n].streaming
        /\ e.responded = s.x[n].responded
    BY <1>3, <1>5 DEF Exchange
  <2>3. s.x[n].streaming => ~s.x[n].responded
    BY <1>3 DEF Held
  <2> HIDE DEF e
  <2>4. Follow(s, [s EXCEPT !.x[n] = e])
    BY <1>5, <2>2, <2>3, DeadEdit
  <2>5. QED
    BY <2>1, <2>4
<1>6. CASE s.x[n].streaming /\ s.x[n].live
  <2>1. /\ n = s.count /\ s.cur = s.count /\ s.count > 0 /\ s.await /\ ~s.closing
        /\ s.sock = "open" /\ Flows(s)
    <3>1. /\ n = s.count /\ s.cur = s.count /\ s.count > 0 /\ s.await /\ ~s.closing
          /\ s.sock = "open" /\ (Asked(s) \/ Flows(s))
      BY <1>2, <1>6, LiveServes
    <3>2. ~Asked(s)
      BY <1>6, <3>1 DEF Asked
    <3>3. QED
      BY <3>1, <3>2
  <2>2. s.streaming /\ ~s.late /\ s.left = 0
    BY <2>1 DEF Flows
  <2> DEFINE y == [s.x EXCEPT ![n] = Longer(s.x[n])]
             r == [s EXCEPT !.x = y]
             u == Bytes(s.count, s.x[n].chunks + 1, FALSE)
             p == Put(r, u)
  <2>3. [s EXCEPT !.x[n].chunks = s.x[n].chunks + 1] = r
    <3> DEFINE e == [s.x[n] EXCEPT !.chunks = s.x[n].chunks + 1]
    <3>1. e = Longer(s.x[n])
      BY <1>3 DEF Longer, Exchange
    <3>2. [s EXCEPT !.x[n].chunks = s.x[n].chunks + 1] = [s EXCEPT !.x[n] = e]
      OBVIOUS
    <3> HIDE DEF e
    <3>3. [s EXCEPT !.x[n] = e] = [s EXCEPT !.x = [s.x EXCEPT ![n] = e]]
      BY <1>1 DEF State
    <3>4. QED
      BY <3>1, <3>2, <3>3
  <2>4. /\ ~s.headSent => WriteChunk(s, n, fate) = [r EXCEPT !.queued = @ + 1]
        /\ s.headSent /\ fate = "refused" =>
             WriteChunk(s, n, fate) = [DropNow(s) EXCEPT !.x[n].ok = FALSE]
        /\ s.headSent /\ fate = "ok" => WriteChunk(s, n, fate) = p
        /\ s.headSent /\ fate \notin {"refused", "ok"} =>
             WriteChunk(s, n, fate) = [OnDisconnected(p) EXCEPT !.x[n].ok = FALSE]
    <3> HIDE DEF y, r
    <3>1. CASE ~s.headSent
      BY <1>6, <2>1, <2>2, <2>3, <3>1 DEF WriteChunk
    <3>2. CASE s.headSent /\ fate = "refused"
      BY <1>6, <2>1, <2>2, <2>3, <3>2 DEF WriteChunk
    <3>3. CASE s.headSent /\ fate = "ok"
      BY <1>6, <2>1, <2>2, <2>3, <3>3 DEF WriteChunk
    <3>4. CASE s.headSent /\ fate \notin {"refused", "ok"}
      BY <1>6, <2>1, <2>2, <2>3, <3>4 DEF WriteChunk
    <3>5. QED
      BY <3>1, <3>2, <3>3, <3>4
  <2>5. y \in Seq(Exchange) /\ Len(y) = Len(s.x) /\ y[n] = Longer(s.x[n])
        /\ Longer(s.x[n]) \in Exchange
    <3>1. Longer(s.x[n]) \in Exchange
      BY <1>3 DEF Longer, Exchange
    <3>2. QED
      BY <1>1, <1>2, <3>1
  <2>6. /\ Longer(s.x[n]).live /\ Longer(s.x[n]).born /\ Longer(s.x[n]).streaming
        /\ Longer(s.x[n]).chunks = s.x[n].chunks + 1
    BY <1>3, <1>6 DEF Longer, Exchange
  <2>7. u \in Byte
    BY <1>1, <1>3 DEF Bytes, Byte, Exchange
  <2> HIDE DEF u, y
  <2>8. CASE ~s.headSent
    <3> DEFINE q == [r EXCEPT !.queued = @ + 1]
    <3>1. /\ q \in State /\ Same(s, q, {"x", "queued", "wire"}) /\ q.x = y
          /\ q.queued = s.queued + 1 /\ q.wire = s.wire
      <4>1. /\ r \in State /\ Same(s, r, {"x"}) /\ r.x = y /\ r.queued = s.queued
            /\ r.wire = s.wire
        BY <1>1, <2>5 DEF State, Same, Fields
      <4> HIDE DEF r
      <4>2. r.queued + 1 \in Nat
        BY <1>1, <4>1
      <4>3. /\ q \in State /\ Same(r, q, {"queued"}) /\ q.queued = r.queued + 1
        BY <4>1, <4>2 DEF State, Same, Fields
      <4>4. q.x = r.x /\ q.wire = r.wire
        BY <4>3 DEF Same, Fields
      <4>5. Same(s, q, {"x", "queued", "wire"})
        BY <4>1, <4>3 DEF Same
      <4>6. QED
        BY <4>1, <4>3, <4>4, <4>5
    <3> HIDE DEF q
    <3>2. Base(q)
      <4>1. Grown(s, n, q)
        BY <3>1 DEF Grown, y
      <4>2. QED
        BY <1>1, <1>6, <2>1, <4>1, GrowBase
    <3>3. /\ q.sock = s.sock /\ q.count = s.count /\ q.closing = s.closing /\ q.cur = s.cur
          /\ q.await = s.await /\ q.streaming = s.streaming /\ q.headSent = s.headSent
          /\ q.late = s.late /\ q.left = s.left
      BY <3>1 DEF Same, Fields
    <3>4. Begins(q)
      BY <2>1, <2>8, <3>1, <3>3 DEF Flows, Begins
    <3>5. Flows(q)
      BY <2>1, <2>2, <2>5, <2>6, <2>8, <3>1, <3>3, <3>4 DEF Flows
    <3>6. Sound(q)
      BY <2>1, <3>2, <3>3, <3>5 DEF Sound, Serving
    <3>7. Calm(q)
      BY <2>1, <3>3 DEF Calm, Ready
    <3>8. Follow(s, q)
      BY <2>1, <3>6, <3>7 DEF Follow
    <3>9. QED
      BY <2>4, <2>8, <3>8 DEF q
  <2>9. ASSUME s.headSent
        PROVE  /\ p \in State /\ Base(p) /\ Follow(s, p) /\ p.count = s.count /\ p.x = y
               /\ p.cur = s.count
    <3>1. LastOf(s.wire) = Bytes(n, s.x[n].chunks, FALSE) /\ s.queued = 0
      BY <2>1, <2>9 DEF Flows
    <3>2. Append(s.wire, u) \in Seq(Byte) /\ LastOf(Append(s.wire, u)) = u
      BY <1>1, <2>7, LastPut
    <3> DEFINE w == Append(s.wire, u)
    <3> HIDE DEF w
    <3>3. p = [r EXCEPT !.wire = w]
      BY <1>1 DEF Put, w, State
    <3> HIDE DEF p
    <3>4. /\ p \in State /\ Same(s, p, {"x", "queued", "wire"}) /\ p.x = y
          /\ p.queued = s.queued /\ p.wire = w
      BY <1>1, <2>5, <3>2, <3>3 DEF State, Same, Fields, w
    <3>5. p.wire = Append(s.wire, Bytes(n, s.x[n].chunks + 1, FALSE))
      BY <2>1, <3>4 DEF w, u
    <3>6. p.x = [s.x EXCEPT ![n] = Longer(s.x[n])]
      BY <3>4 DEF y
    <3>7. Base(p)
      <4>1. Grown(s, n, p)
        BY <3>1, <3>4, <3>5, <3>6 DEF Grown
      <4>2. QED
        BY <1>1, <1>6, <2>1, <4>1, GrowBase
    <3>8. /\ p.sock = s.sock /\ p.count = s.count /\ p.closing = s.closing /\ p.cur = s.cur
          /\ p.await = s.await /\ p.streaming = s.streaming /\ p.headSent = s.headSent
          /\ p.late = s.late /\ p.left = s.left
      BY <3>4 DEF Same, Fields
    <3>9. LastOf(p.wire) = Bytes(s.count, s.x[n].chunks + 1, FALSE)
      BY <3>2, <3>4 DEF w, u
    <3>10. Flows(p)
      BY <2>1, <2>2, <2>5, <2>6, <2>9, <3>1, <3>4, <3>8, <3>9 DEF Flows
    <3>11. Sound(p)
      BY <2>1, <3>7, <3>8, <3>10 DEF Sound, Serving
    <3>12. Calm(p)
      BY <2>1, <3>8 DEF Calm, Ready
    <3>13. QED
      BY <2>1, <3>4, <3>7, <3>8, <3>11, <3>12 DEF Follow
  \* The chunk was not accepted: the connection is gone, and the exchange with it.
  <2>10. ASSUME NEW d, NEW z, Base(z), Cut(z, d), z.cur = s.count, z.count = s.count,
                Len(z.x) = Len(s.x), z.x[n] \in Exchange, z.x[n].born
         PROVE  Follow(s, [d EXCEPT !.x[n].ok = FALSE])
    <3>1. Follow(s, d) /\ Sound(d)
      BY <2>10, CutFollows, CutSound
    <3>2. z \in State /\ z.x \in Seq(Exchange) /\ z.cur \in 0 .. Len(z.x)
      BY <2>10, BaseTypes
    <3>3. d.x = Left(z.x, z.cur) /\ d.count = s.count /\ d \in State
      BY <2>10 DEF Cut
    <3>4. Left(z.x, z.cur)[n] = IF n = z.cur THEN Severed(z.x[n]) ELSE z.x[n]
      BY <1>2, <2>10, <3>2, LeftIs
    <3>5. d.x[n] = Severed(z.x[n])
      BY <2>1, <2>10, <3>3, <3>4
    <3>6. d.x[n] \in Exchange /\ ~d.x[n].live /\ d.x[n].born
      BY <2>10, <3>5, SeveredIs
    <3>7. d.x[n].streaming => ~d.x[n].responded
      <4>1. Base(d) /\ Len(d.x) = Len(z.x)
        <5>1. Len(Left(z.x, z.cur)) = Len(z.x)
          BY <3>2, LeftIs
        <5>2. QED
          BY <3>1, <3>3, <5>1 DEF Sound
      <4>2. Held(d.x[n], n, d.count, d.cur, Sent(d.wire, n), d.queued)
        BY <1>2, <2>10, <4>1, BaseHeld
      <4>3. QED
        BY <4>2 DEF Held
    <3> DEFINE e == [d.x[n] EXCEPT !.ok = FALSE]
    <3>8. /\ e \in Exchange /\ ~e.live /\ e.born /\ e.told = d.x[n].told
          /\ e.sent = d.x[n].sent /\ e.chunks = d.x[n].chunks
          /\ e.streaming = d.x[n].streaming /\ e.responded = d.x[n].responded
      BY <3>6 DEF Exchange
    <3>9. [d EXCEPT !.x[n].ok = FALSE] = [d EXCEPT !.x[n] = e]
      OBVIOUS
    <3> HIDE DEF e
    <3>10. n \in 1 .. d.count
      BY <3>3
    <3>11. Follow(d, [d EXCEPT !.x[n] = e])
      BY <3>1, <3>6, <3>7, <3>8, <3>10, DeadEdit
    <3>12. QED
      BY <3>1, <3>9, <3>11, FollowOn
  <2>11. CASE s.headSent /\ fate = "refused"
    <3>1. s.cur \in 0 .. Len(s.x)
      BY <1>1, BaseTypes
    <3>2. Cut(s, DropNow(s))
      BY <1>1, <3>1, DropIs
    <3>3. Follow(s, [DropNow(s) EXCEPT !.x[n].ok = FALSE])
      BY <1>1, <1>3, <2>1, <2>10, <3>2
    <3>4. QED
      BY <2>4, <2>11, <3>3
  <2>12. CASE s.headSent /\ fate = "ok"
    BY <2>4, <2>9, <2>12
  <2>13. CASE s.headSent /\ fate \notin {"refused", "ok"}
    <3>1. /\ p \in State /\ Base(p) /\ p.count = s.count /\ p.x = y /\ p.cur = s.count
      BY <2>9, <2>13
    <3> HIDE DEF p
    <3>2. p.cur \in 0 .. Len(p.x)
      BY <3>1, BaseTypes
    <3>3. Cut(p, OnDisconnected(p))
      BY <3>1, <3>2, DisconnectIs
    <3>4. Len(p.x) = Len(s.x) /\ p.x[n] \in Exchange /\ p.x[n].born
      BY <2>5, <2>6, <3>1
    <3>5. Follow(s, [OnDisconnected(p) EXCEPT !.x[n].ok = FALSE])
      BY <2>10, <3>1, <3>3, <3>4
    <3>6. WriteChunk(s, n, fate) = [OnDisconnected(p) EXCEPT !.x[n].ok = FALSE]
      BY <2>4, <2>13
    <3>7. QED
      BY <3>5, <3>6
  <2>14. QED
    BY <2>8, <2>11, <2>12, <2>13
<1>7. QED
  BY <1>4, <1>5, <1>6

\* A connection that serves nothing any more.
LEMMA EndBase ==
  ASSUME NEW g, Base(g), \A n \in 1 .. Len(g.x) : ~g.x[n].live,
         NEW r, r \in State, r.x = g.x, r.wire = g.wire, r.count = g.count,
         r.arrived = g.arrived, r.buffer = g.buffer, r.cur = 0,
         r.listed <=> r.sock \in {"open", "draining"}
  PROVE  Base(r)
<1>1. \A n \in 1 .. Len(g.x) : Held(g.x[n], n, g.count, g.cur, Sent(g.wire, n), g.queued)
  BY DEF Base
<1>2. \A n \in 1 .. Len(g.x) : Held(g.x[n], n, g.count, 0, Sent(g.wire, n), r.queued)
  BY <1>1 DEF Held
<1>3. QED
  BY <1>2 DEF Base

LEMMA EndFollows ==
  ASSUME NEW s, Sound(s), NEW n, n \in 1 .. s.count, s.x[n].born, NEW broken \in BOOLEAN
  PROVE  Follow(s, EndStream(s, n, broken))
<1>1. /\ Base(s) /\ s.count \in Nat /\ s.count <= Len(s.x) /\ Len(s.x) \in Nat /\ s \in State
      /\ s.x \in Seq(Exchange) /\ s.wire \in Seq(Byte) /\ s.queued \in Nat
  BY BaseTypes DEF Sound
<1>2. n \in 1 .. Len(s.x) /\ n \in Nat
  BY <1>1
<1>3. s.x[n] \in Exchange /\ Held(s.x[n], n, s.count, s.cur, Sent(s.wire, n), s.queued)
  BY <1>1, <1>2, BaseHeld
<1> DEFINE e == [s.x[n] EXCEPT !.streaming = FALSE, !.responded = TRUE, !.live = FALSE]
           r == Edited(s, n, e)
<1>4. /\ e \in Exchange /\ ~e.streaming /\ e.responded /\ ~e.live /\ e.born = s.x[n].born
      /\ e.told = s.x[n].told /\ e.sent = s.x[n].sent /\ e.chunks = s.x[n].chunks
      /\ e.ok = s.x[n].ok
  BY <1>3 DEF Exchange
<1>5. r = [s EXCEPT !.x[n] = [@ EXCEPT !.streaming = FALSE, !.responded = TRUE, !.live = FALSE]]
  BY DEF Edited
<1>6. CASE ~s.x[n].streaming
  BY <1>6, SelfFollows DEF EndStream
<1>7. CASE s.x[n].streaming /\ ~s.x[n].live
  <2> HIDE DEF e
  <2>1. EndStream(s, n, broken) = r
    BY <1>5, <1>7 DEF EndStream
  <2>2. Follow(s, [s EXCEPT !.x[n] = e])
    BY <1>4, <1>7, DeadEdit
  <2>3. QED
    BY <2>1, <2>2 DEF Edited
<1>8. CASE s.x[n].streaming /\ s.x[n].live
  <2>1. /\ n = s.count /\ s.cur = s.count /\ s.count > 0 /\ s.await /\ ~s.closing
        /\ s.sock = "open" /\ Flows(s) /\ s.streaming
    <3>1. /\ n = s.count /\ s.cur = s.count /\ s.count > 0 /\ s.await /\ ~s.closing
          /\ s.sock = "open" /\ (Asked(s) \/ Flows(s))
      BY <1>2, <1>8, LiveServes
    <3>2. ~Asked(s)
      BY <1>8, <3>1 DEF Asked
    <3>3. QED
      BY <3>1, <3>2 DEF Flows
  <2> DEFINE f == FlushHead(s, FALSE)
             g == Edited(f, n, e)
             h == [g EXCEPT !.streaming = FALSE, !.await = FALSE, !.queued = 0]
             z == Drain(Release(h))
  <2>2. EndStream(s, n, broken) =
          Drain(Release([FlushHead(r, broken) EXCEPT !.streaming = FALSE, !.await = FALSE,
                                                     !.queued = 0]))
    <3> HIDE DEF e, r
    <3>1. QED
      BY <1>5, <1>8, <2>1 DEF EndStream
  <2>3. FlushHead(r, FALSE) = g
    <3> DEFINE y == [s.x EXCEPT ![n] = e]
               v == Append(s.wire, Bytes(s.count, 0, FALSE))
                      \o [k \in 1..s.queued |-> Bytes(s.count, k, FALSE)]
    <3> HIDE DEF e
    <3>1. r = [s EXCEPT !.x = y]
      BY <1>1 DEF Edited, State
    <3> HIDE DEF y
    <3>2. /\ r.closing = s.closing /\ r.headSent = s.headSent /\ r.streaming = s.streaming
          /\ r.sock = s.sock /\ r.count = s.count /\ r.queued = s.queued /\ r.wire = s.wire
      BY <1>1, <3>1 DEF State
    <3>3. CASE s.headSent
      <4>1. FlushHead(s, FALSE) = s /\ FlushHead(r, FALSE) = r
        <5> HIDE DEF r
        <5>1. QED
          BY <3>2, <3>3 DEF FlushHead
      <4>2. QED
        BY <4>1
    <3>4. CASE ~s.headSent
      <4>1. FlushHead(s, FALSE) = [s EXCEPT !.headSent = TRUE, !.queued = 0, !.wire = v]
        BY <2>1, <3>4 DEF FlushHead, Flush
      <4>2. FlushHead(r, FALSE) = [r EXCEPT !.headSent = TRUE, !.queued = 0, !.wire = v]
        <5> HIDE DEF r
        <5>1. QED
          BY <2>1, <3>2, <3>4 DEF FlushHead, Flush
      <4>3. f.x = s.x
        BY <1>1, <4>1 DEF State
      <4> HIDE DEF v
      <4>4. g = [f EXCEPT !.x = [f.x EXCEPT ![n] = e]]
        <5>1. f \in [DOMAIN s -> {f[i] : i \in DOMAIN s}]
          BY <1>1, <4>1 DEF State
        <5>2. QED
          BY <1>1, <4>1 DEF Edited, State
      <4>5. [f EXCEPT !.x = y] = [r EXCEPT !.headSent = TRUE, !.queued = 0, !.wire = v]
        BY <1>1, <3>1, <4>1 DEF State
      <4>6. QED
        BY <4>2, <4>3, <4>4, <4>5 DEF y
    <3>5. QED
      BY <3>3, <3>4
  <2>4. Sound(f) /\ Same(s, f, {"headSent", "queued", "wire"}) /\ f.headSent
    BY <2>1, FlushIs DEF Follow
  <2>20. FlushHead(r, broken) \in {g, OnDisconnected(g)}
    <3> HIDE DEF r, g
    <3>1. FlushHead(r, broken) = FlushHead(r, FALSE)
          \/ FlushHead(r, broken) = OnDisconnected(FlushHead(r, FALSE))
      BY DEF FlushHead, Flush
    <3>2. QED
      BY <2>3, <3>1
  <2> HIDE DEF f
  <2>5. /\ f.x = s.x /\ f.count = s.count /\ f.sock = s.sock /\ f.late = s.late
        /\ f.left = s.left
    BY <2>4 DEF Same, Fields
  <2>6. Flows(f) /\ Base(f) /\ f.queued = 0 /\ f.cur = s.count
    <3>1. n \in 1 .. Len(f.x) /\ f.x[n].live /\ f.x[n].streaming
      BY <1>2, <1>8, <2>5
    <3>2. (Asked(f) \/ Flows(f)) /\ n = f.count /\ f.cur = f.count
      BY <2>4, <3>1, LiveServes
    <3>3. ~Asked(f)
      BY <3>1, <3>2 DEF Asked
    <3>4. QED
      BY <2>4, <2>5, <3>2, <3>3 DEF Flows, Sound
  <2>7. Held(e, n, f.count, f.cur, Sent(f.wire, n), f.queued)
    <3>1. Held(s.x[n], n, f.count, f.cur, Sent(f.wire, n), f.queued) /\ Sent(f.wire, n) \in Nat
      BY <1>2, <2>5, <2>6, BaseHeld
    <3>2. ~(n > f.count)
      BY <1>1, <1>2, <2>1, <2>5
    <3>3. e.chunks = Sent(f.wire, n)
      <4>1. s.x[n].chunks = Sent(f.wire, n) + 0
        BY <1>8, <2>6, <3>1 DEF Held
      <4>2. QED
        BY <1>4, <3>1, <4>1
    <3> HIDE DEF e
    <3>4. QED
      BY <1>4, <1>8, <3>1, <3>2, <3>3 DEF Held
  <2> HIDE DEF e
  <2>8. n \in 1 .. f.count
    BY <2>5
  <2>9. Settled(f.x[n]) => Settled(e)
    BY <1>4 DEF Settled
  <2>10. /\ Base(g) /\ Same(f, g, {"x"}) /\ Len(g.x) = Len(f.x) /\ g.x[n] = e
         /\ \A m \in 1 .. Len(f.x) : m # n => g.x[m] = f.x[m]
    BY <1>4, <2>6, <2>7, <2>8, <2>9, EditBase
  <2> HIDE DEF g
  <2>11. g \in State /\ g.sock = "open" /\ ~g.late /\ g.left = 0
    <3>1. g \in State
      BY <2>10, BaseTypes
    <3>2. g.sock = f.sock /\ g.late = f.late /\ g.left = f.left
      BY <2>10 DEF Same, Fields
    <3>3. QED
      BY <2>1, <2>5, <2>6, <3>1, <3>2 DEF Flows
  <2>12. \A m \in 1 .. Len(g.x) : ~g.x[m].live
    <3>1. \A m \in 1 .. Len(f.x) : f.x[m].live => m = n
      BY <2>4, <2>5, <2>1, LiveServes
    <3>2. QED
      BY <1>4, <2>10, <3>1
  <2>13. /\ z \in State /\ z.x = g.x /\ z.wire = g.wire /\ z.count = g.count
         /\ z.arrived = g.arrived /\ z.buffer = g.buffer /\ z.cur = 0 /\ z.listed = g.listed
         /\ z.sock = "draining" /\ z.closing /\ ~z.late /\ z.left = 0 /\ z.queued = 0
    <3>1. /\ h \in State /\ h.x = g.x /\ h.wire = g.wire /\ h.count = g.count
          /\ h.arrived = g.arrived /\ h.buffer = g.buffer /\ h.listed = g.listed
          /\ h.sock = "open" /\ ~h.late /\ h.left = 0 /\ h.queued = 0
      BY <2>11 DEF State
    <3> HIDE DEF h
    <3>2. QED
      BY <3>1 DEF Drain, Release, State
  <2> HIDE DEF z
  <2>14. z.listed <=> z.sock \in {"open", "draining"}
    BY <2>10, <2>11, <2>13 DEF Base
  <2>15. Base(z)
    BY <2>10, <2>12, <2>13, <2>14, EndBase
  <2>16. Sound(z)
    BY <2>13, <2>15 DEF Sound, Ended
  <2>17. Calm(z)
    BY <2>13 DEF Calm, Ready
  <2>18. CASE FlushHead(r, broken) = g
    <3>1. EndStream(s, n, broken) = z
      BY <2>2, <2>18 DEF z, h
    <3>2. QED
      BY <2>1, <2>16, <2>17, <3>1 DEF Follow
  <2>19. CASE FlushHead(r, broken) = OnDisconnected(g)
    <3> DEFINE k == OnDisconnected(g)
               l == [k EXCEPT !.streaming = FALSE, !.await = FALSE, !.queued = 0]
               y == Drain(Release(l))
    <3>1. EndStream(s, n, broken) = y
      BY <2>2, <2>19
    <3>2. Cut(g, k)
      BY <2>10, BaseTypes, DisconnectIs
    <3> HIDE DEF k
    <3>3. Cut(g, l)
      BY <3>2 DEF Cut, Ended, State
    <3> HIDE DEF l
    <3>4. Cut(g, y)
      BY <3>3 DEF Cut, Ended, State, Drain, Release
    <3> HIDE DEF y
    <3>5. QED
      BY <2>10, <3>1, <3>4, CutFollows
  <2>21. QED
    BY <2>18, <2>19, <2>20
<1>9. QED
  BY <1>6, <1>7, <1>8

-----------------------------------------------------------------------------
(* The callbacks of the event loop.                                        *)

LEMMA SilentIfEnded ==
  ASSUME NEW s, Base(s), s.cur = 0
  PROVE  \A n \in 1 .. Len(s.x) : ~s.x[n].live
BY DEF Base, Held

LEMMA IdleFollows ==
  ASSUME NEW s, Sound(s), s.idle
  PROVE  LET q == [s EXCEPT !.idle = FALSE] IN Follow(s, IF q.await THEN q ELSE Drain(q))
<1> DEFINE q == [s EXCEPT !.idle = FALSE]
           z == Drain(q)
<1>1. Base(s) /\ s \in State
  BY BaseTypes DEF Sound
<1>2. s.sock # "none"
  <2>1. ~Fresh(Len(s.x)).idle
    BY DEF Fresh
  <2>2. QED
    BY <2>1 DEF Sound
<1>3. q \in State /\ Same(s, q, Loose) /\ q.again = s.again
  BY <1>1 DEF State, Same, Fields, Loose
<1> HIDE DEF q
<1>4. /\ q.sock = s.sock /\ q.listed = s.listed /\ q.buffer = s.buffer /\ q.await = s.await
      /\ q.closing = s.closing
  BY <1>3, LooseSame
<1>5. Sound(q)
  BY <1>2, <1>3, LooseSound
<1>6. CASE q.await
  BY <1>3, <1>4, <1>5, <1>6 DEF Follow, Calm, Ready, q
<1>7. CASE ~q.await
  <2>1. Base(q) /\ Ended(q)
    BY <1>5, <1>7 DEF Sound, Waiting, Serving
  <2>2. \A n \in 1 .. Len(q.x) : ~q.x[n].live
    BY <2>1, SilentIfEnded DEF Ended
  <2>3. /\ z \in State /\ z.x = q.x /\ z.wire = q.wire /\ z.count = q.count
        /\ z.arrived = q.arrived /\ z.buffer = q.buffer /\ z.cur = 0 /\ z.listed = q.listed
        /\ z.sock = (IF q.sock = "open" THEN "draining" ELSE q.sock)
        /\ z.closing /\ z.late = q.late /\ z.left = q.left /\ z.queued = q.queued
    BY <1>3, <2>1 DEF Drain, State, Ended
  <2> HIDE DEF z
  <2>4. z.listed <=> z.sock \in {"open", "draining"}
    BY <2>1, <2>3 DEF Base
  <2>5. Base(z)
    BY <2>1, <2>2, <2>3, <2>4, EndBase
  <2>6. Sound(z)
    BY <1>2, <1>4, <2>1, <2>3, <2>5 DEF Sound, Ended
  <2>7. Calm(z)
    BY <2>3 DEF Calm, Ready
  <2>8. QED
    BY <1>4, <1>7, <2>3, <2>6, <2>7 DEF Follow, q, z
<1>8. QED
  BY <1>6, <1>7

LEMMA LateFollows ==
  ASSUME NEW s, Sound(s), s.late, NEW how
  PROVE  LET q == [s EXCEPT !.late = FALSE]
         IN Follow(s, IF q.closing THEN q ELSE SendNow(q, how))
<1> DEFINE q == [s EXCEPT !.late = FALSE]
<1>1. Base(s) /\ s \in State /\ s.count <= Len(s.x) /\ s.count \in Nat /\ Len(s.x) \in Nat
  BY BaseTypes DEF Sound
<1>2. ~s.closing /\ Delayed(s) /\ s.await /\ s.cur = s.count /\ s.count > 0
  BY DEF Sound, Ended, Waiting, Serving, Asked, InPieces, Flows
<1>3. s.sock = "open"
  <2>1. ~Fresh(Len(s.x)).late
    BY DEF Fresh
  <2>2. QED
    BY <1>2, <2>1 DEF Sound
<1>4. /\ q \in State /\ ~q.late /\ q.sock = s.sock /\ q.listed = s.listed
      /\ q.buffer = s.buffer /\ q.owes = s.owes /\ q.arrived = s.arrived /\ q.count = s.count
      /\ q.closing = s.closing /\ q.cur = s.cur /\ q.streaming = s.streaming
      /\ q.queued = s.queued /\ q.left = s.left /\ q.x = s.x /\ q.wire = s.wire
      /\ q.await = s.await /\ q.parsed = s.parsed
  BY <1>1 DEF State
<1> HIDE DEF q
<1>5. Base(q)
  BY <1>1, <1>4 DEF Base
<1>6. \A n \in 1 .. Len(q.x) : ~q.x[n].live
  <2>1. ~s.x[s.count].live
    BY <1>2 DEF Delayed, Answered
  <2>2. \A n \in 1 .. Len(s.x) : s.x[n].live => n = s.count
    BY LiveServes
  <2>3. QED
    BY <1>4, <2>1, <2>2
<1>7. Chain(q.buffer, FALSE, q.owes)
  BY <1>2, <1>4 DEF Delayed, Answered, Chained
<1>8. Owing(q)
  BY <1>2, <1>3, <1>4, <1>5, <1>6, <1>7 DEF Owing, Delayed, Answered
<1>9. q.left = 0 /\ Begins(q)
  BY <1>2, <1>4 DEF Delayed, Begins
<1>10. Follow(s, SendNow(q, how))
  <2>1. q.await /\ q.cur = q.count /\ q.x[q.count].born
    BY <1>2, <1>4 DEF Delayed, Answered
  <2>2. QED
    BY <1>3, <1>8, <1>9, <2>1, SendFollows
<1>11. ~q.closing
  BY <1>2, <1>4
<1>12. QED
  BY <1>10, <1>11 DEF q

LEMMA LateHeadFollows ==
  ASSUME NEW s, Sound(s), s.lateHead, NEW broken \in BOOLEAN
  PROVE  Follow(s, FlushHead([s EXCEPT !.lateHead = FALSE], broken))
<1> DEFINE q == [s EXCEPT !.lateHead = FALSE]
<1>1. Base(s) /\ s \in State
  BY BaseTypes DEF Sound
<1>2. s.sock # "none"
  <2>1. ~Fresh(Len(s.x)).lateHead
    BY DEF Fresh
  <2>2. QED
    BY <2>1 DEF Sound
<1>3. q \in State /\ Same(s, q, Loose) /\ q.again = s.again
  BY <1>1 DEF State, Same, Fields, Loose
<1> HIDE DEF q
<1>4. /\ q.sock = s.sock /\ q.buffer = s.buffer /\ q.await = s.await /\ q.closing = s.closing
  BY <1>3, LooseSame
<1>5. Sound(q)
  BY <1>2, <1>3, LooseSound
<1>6. Follow(s, q)
  BY <1>3, <1>4, <1>5 DEF Follow, Calm, Ready
<1>7. Follow(q, FlushHead(q, broken))
  BY <1>5, HeadFollows
<1>8. QED
  BY <1>6, <1>7, FollowOn DEF q

LEMMA SlowFollows ==
  ASSUME NEW s, Sound(s), s.left > 0, NEW broken \in BOOLEAN
  PROVE  Follow(s, SendPiece(s, broken))
<1>1. Base(s) /\ s \in State /\ s.left \in 0 .. Pieces /\ Pieces \in Nat
  BY BaseTypes, HttpServerAssumption DEF Sound
<1>2. s.left # 0
  BY <1>1
<1>3. ~s.closing /\ InPieces(s) /\ s.await /\ s.cur = s.count /\ s.count > 0
  BY <1>2 DEF Sound, Ended, Waiting, Serving, Asked, Delayed, Flows
<1>4. s.sock = "open"
  <2>1. Fresh(Len(s.x)).left = 0
    BY DEF Fresh
  <2>2. QED
    BY <1>2, <1>3, <2>1 DEF Sound
<1>5. \A n \in 1 .. Len(s.x) : ~s.x[n].live
  <2>1. ~s.x[s.count].live
    BY <1>3 DEF InPieces, Answered
  <2>2. \A n \in 1 .. Len(s.x) : s.x[n].live => n = s.count
    BY LiveServes
  <2>3. QED
    BY <2>1, <2>2
<1>6. Chain(s.buffer, FALSE, s.owes)
  BY <1>3 DEF InPieces, Answered, Chained
<1>7. Owing(s) /\ s.x[s.count].born
  BY <1>1, <1>3, <1>4, <1>5, <1>6 DEF Owing, InPieces, Answered
<1>8. s.left \in 1 .. Pieces /\ s.left < Pieces /\ LastOf(s.wire) = Bytes(s.count, Pieces - s.left, FALSE)
  BY <1>1, <1>3 DEF InPieces
<1>9. QED
  BY <1>3, <1>4, <1>7, <1>8, PieceFollows

LEMMA ShutdownFollows ==
  ASSUME NEW s, Sound(s)
  PROVE  Follow(s, Shutdown(s)) /\ Shutdown(s).sock \in {"none", "gone"}
<1>1. Base(s) /\ s \in State /\ s.cur \in 0 .. Len(s.x)
  BY BaseTypes DEF Sound
<1>2. CASE s.listed
  BY <1>1, <1>2, ShutdownIs, CutFollows DEF Cut
<1>3. CASE ~s.listed
  <2>1. Shutdown(s) = s
    BY <1>3 DEF Shutdown
  <2>2. s.sock \in {"none", "gone"}
    BY <1>1, <1>3 DEF Base, State
  <2>3. QED
    BY <2>1, <2>2, SelfFollows
<1>4. QED
  BY <1>2, <1>3

\* A connection is accepted.
LEMMA AcceptFollows ==
  ASSUME NEW s, Sound(s), s.sock = "none"
  PROVE  LET r == ArmIdle([s EXCEPT !.sock = "open", !.listed = TRUE]) IN Sound(r) /\ Calm(r)
<1> DEFINE q == [s EXCEPT !.sock = "open", !.listed = TRUE]
           i == ~q.await /\ ~q.streaming
           r == [q EXCEPT !.idle = i]
<1>1. Base(s) /\ s \in State
  BY BaseTypes DEF Sound
<1>2. /\ s.buffer = <<>> /\ ~s.await /\ ~s.closing /\ ~s.listed
  BY DEF Sound, Fresh
<1>3. Waiting(s)
  BY <1>2 DEF Sound, Serving
<1>4. q \in State /\ Same(s, q, {"sock", "listed"}) /\ q.sock = "open" /\ q.listed
  BY <1>1 DEF State, Same, Fields
<1>5. i \in BOOLEAN
  OBVIOUS
<1> HIDE DEF q, i
<1>6. r \in State /\ Same(q, r, {"idle"})
  BY <1>4, <1>5 DEF State, Same, Fields
<1> HIDE DEF r
<1>7. /\ r.sock = "open" /\ r.listed /\ r.buffer = s.buffer /\ r.owes = s.owes
      /\ r.arrived = s.arrived /\ r.count = s.count /\ r.parsed = s.parsed
      /\ r.await = s.await /\ r.closing = s.closing /\ r.cur = s.cur
      /\ r.streaming = s.streaming /\ r.queued = s.queued
      /\ r.late = s.late /\ r.left = s.left /\ r.x = s.x /\ r.wire = s.wire
  BY <1>4, <1>6 DEF Same, Fields
<1>8. Base(r)
  BY <1>1, <1>6, <1>7 DEF Base
<1>9. Waiting(r)
  BY <1>3, <1>7 DEF Waiting, Ended, Chained
<1>10. Sound(r) /\ Calm(r)
  BY <1>2, <1>7, <1>8, <1>9 DEF Sound, Calm, Ready
<1>11. QED
  BY <1>10 DEF r, i, q, ArmIdle

\* The posted processBuffer() runs.
LEMMA RescanFollows ==
  ASSUME NEW s, Sound(s), s.again
  PROVE  LET r == [s EXCEPT !.again = FALSE] IN Sound(r) /\ r.sock = s.sock
<1> DEFINE r == [s EXCEPT !.again = FALSE]
<1>1. Base(s) /\ s \in State
  BY BaseTypes DEF Sound
<1>2. s.sock # "none"
  BY DEF Sound, Fresh
<1>3. r \in State /\ Same(s, r, Loose)
  BY <1>1 DEF State, Same, Fields, Loose
<1> HIDE DEF r
<1>4. Sound(r) /\ r.sock = s.sock
  BY <1>2, <1>3, LooseSound, LooseSame
<1>5. QED
  BY <1>4 DEF r

\* More of what the client sends arrives, on a stream to be thrown away.
Fed(s, r, piece) ==
  /\ r \in State /\ Same(s, r, {"owes", "arrived", "buffer", "idle"})
  /\ r.buffer = (IF s.streaming THEN s.buffer ELSE Append(s.buffer, piece))
  /\ r.owes = (piece = "post")
  /\ r.arrived = (IF piece = "body" THEN s.arrived ELSE s.arrived + 1)

LEMMA FedSound ==
  ASSUME NEW s, Sound(s), s.sock = "open", NEW piece, piece \in Input,
         s.owes <=> piece = "body", piece # "body" => s.arrived < Len(s.x),
         NEW r, Fed(s, r, piece)
  PROVE  Sound(r)
<1>1. /\ Base(s) /\ s \in State /\ s.count \in Nat /\ s.arrived \in Nat /\ Len(s.x) \in Nat
      /\ s.buffer \in Seq(Input) /\ Requests(s.buffer) \in Nat
      /\ s.count + Requests(s.buffer) <= s.arrived /\ s.arrived <= Len(s.x)
  BY BaseTypes DEF Sound
<1>2. s.owes \in BOOLEAN /\ s.parsed \in BOOLEAN /\ s.await \in BOOLEAN
  BY <1>1 DEF State
<1>3. /\ r.sock = s.sock /\ r.listed = s.listed /\ r.count = s.count /\ r.parsed = s.parsed
      /\ r.await = s.await /\ r.closing = s.closing /\ r.cur = s.cur
      /\ r.streaming = s.streaming /\ r.headSent = s.headSent /\ r.queued = s.queued
      /\ r.late = s.late /\ r.left = s.left /\ r.x = s.x /\ r.wire = s.wire
  BY DEF Fed, Same, Fields
<1>4. r.count + Requests(r.buffer) <= r.arrived /\ r.arrived <= Len(r.x)
  <2>1. CASE s.streaming
    BY <1>1, <1>3, <2>1 DEF Fed
  <2>2. CASE ~s.streaming
    <3>1. r.buffer = Append(s.buffer, piece)
      BY <2>2 DEF Fed
    <3>2. Requests(r.buffer) = IF piece = "body" THEN Requests(s.buffer) ELSE Requests(s.buffer) + 1
      BY <1>1, <3>1, RequestsMore
    <3>3. QED
      BY <1>1, <1>3, <3>2 DEF Fed
  <2>3. QED
    BY <2>1, <2>2
<1>5. Base(r)
  BY <1>1, <1>3, <1>4 DEF Base, Fed
<1>6. Ended(s) => Ended(r)
  BY <1>3 DEF Ended
<1>7. Begins(s) => Begins(r)
  BY <1>3 DEF Begins
<1>8. ~s.streaming /\ Chained(s) => Chained(r)
  <2> DEFINE due == s.parsed /\ ~s.await
  <2>1. SUFFICES ASSUME ~s.streaming, Chained(s) PROVE Chained(r)
    OBVIOUS
  <2>2. due \in BOOLEAN
    BY <1>2
  <2>3. Chain(s.buffer, due, s.owes)
    BY <2>1 DEF Chained
  <2> HIDE DEF due
  <2>4. Chain(Append(s.buffer, piece), due, piece = "post")
    BY <1>1, <1>2, <2>2, <2>3, ChainMore
  <2>5. QED
    BY <1>3, <2>1, <2>4 DEF Chained, Fed, due
<1>9. Waiting(s) => Waiting(r)
  BY <1>3, <1>6, <1>8 DEF Waiting
<1>10. Asked(s) => Asked(r)
  BY <1>3, <1>7, <1>8 DEF Asked
<1>11. Answered(s) => Answered(r)
  BY <1>3, <1>8 DEF Answered
<1>12. Delayed(s) => Delayed(r)
  BY <1>3, <1>7, <1>11 DEF Delayed
<1>13. InPieces(s) => InPieces(r)
  BY <1>3, <1>11 DEF InPieces
<1>14. Flows(s) => Flows(r)
  BY <1>3, <1>7 DEF Flows
<1>15. Serving(s) => Serving(r)
  BY <1>3, <1>10, <1>12, <1>13, <1>14 DEF Serving
<1>16. QED
  BY <1>3, <1>5, <1>6, <1>9, <1>15 DEF Sound

LEMMA ReadFollows ==
  ASSUME NEW s, Sound(s), s.sock = "open", NEW piece, piece \in Input,
         s.owes <=> piece = "body", piece # "body" => s.arrived < Len(s.x)
  PROVE  LET q == [s EXCEPT !.owes = piece = "post",
                            !.arrived = IF piece = "body" THEN @ ELSE @ + 1]
             r == IF q.streaming THEN q ELSE ArmIdle([q EXCEPT !.buffer = Append(@, piece)])
         IN Sound(r) /\ r.sock = "open"
<1> DEFINE q == [s EXCEPT !.owes = piece = "post",
                          !.arrived = IF piece = "body" THEN @ ELSE @ + 1]
           b == Append(q.buffer, piece)
           z == [q EXCEPT !.buffer = b]
           i == ~z.await /\ ~z.streaming
           r == [z EXCEPT !.idle = i]
<1>1. Base(s) /\ s \in State
  BY BaseTypes DEF Sound
<1>2. /\ q \in State /\ Same(s, q, {"owes", "arrived"}) /\ q.owes = (piece = "post")
      /\ q.arrived = (IF piece = "body" THEN s.arrived ELSE s.arrived + 1)
  <2> DEFINE o == piece = "post"
             a == IF piece = "body" THEN s.arrived ELSE s.arrived + 1
  <2>1. o \in BOOLEAN /\ a \in Nat
    BY <1>1 DEF State
  <2>2. q = [s EXCEPT !.owes = o, !.arrived = a]
    BY <1>1 DEF State
  <2> HIDE DEF o, a, q
  <2>3. q \in State /\ Same(s, q, {"owes", "arrived"}) /\ q.owes = o /\ q.arrived = a
    BY <1>1, <2>1, <2>2 DEF State, Same, Fields
  <2>4. QED
    BY <2>3 DEF o, a
<1> HIDE DEF q
<1>3. q.streaming = s.streaming /\ q.buffer = s.buffer /\ q.sock = s.sock
  BY <1>2 DEF Same, Fields
<1>4. CASE q.streaming
  <2>1. Fed(s, q, piece)
    BY <1>2, <1>3, <1>4 DEF Fed, Same
  <2>2. Sound(q)
    BY <2>1, FedSound
  <2>3. QED
    BY <1>3, <1>4, <2>2 DEF q
<1>5. CASE ~q.streaming
  <2>1. b \in Seq(Input)
    BY <1>2, RequestsMore DEF State
  <2> HIDE DEF b
  <2>2. z \in State /\ Same(q, z, {"buffer"}) /\ z.buffer = b
    BY <1>2, <2>1 DEF State, Same, Fields
  <2>3. i \in BOOLEAN
    OBVIOUS
  <2> HIDE DEF z, i
  <2>4. r \in State /\ Same(z, r, {"idle"})
    BY <2>2, <2>3 DEF State, Same, Fields
  <2> HIDE DEF r
  <2>5. Same(s, r, {"owes", "arrived", "buffer", "idle"})
    BY <1>2, <2>2, <2>4 DEF Same
  <2>6. r.owes = q.owes /\ r.arrived = q.arrived /\ r.buffer = b /\ r.sock = q.sock
    BY <2>2, <2>4 DEF Same, Fields
  <2>7. Fed(s, r, piece)
    BY <1>2, <1>3, <1>5, <2>4, <2>5, <2>6 DEF Fed, b
  <2>8. Sound(r) /\ r.sock = "open"
    BY <1>3, <2>6, <2>7, FedSound
  <2>9. r = ArmIdle([q EXCEPT !.buffer = Append(@, piece)])
    BY DEF r, i, z, b, ArmIdle
  <2>10. QED
    BY <1>5, <2>8, <2>9 DEF q
<1>6. QED
  BY <1>4, <1>5

-----------------------------------------------------------------------------
(* processBuffer() takes a request.                                        *)

\* q is s with its next input taken out of the buffer.
Turned(s, q) ==
  /\ q \in State /\ Same(s, q, {"buffer", "count", "parsed", "keep"})
  /\ q.buffer = Tail(s.buffer)
  /\ q.count = (IF s.buffer[1] = "body" THEN s.count ELSE s.count + 1)

LEMMA ReadyIs ==
  ASSUME NEW s, Sound(s), Ready(s)
  PROVE  /\ s.sock = "open" /\ ~s.closing /\ ~s.await /\ s.buffer # <<>> /\ Waiting(s)
         /\ s.buffer[1] = "body" <=> s.parsed
<1>1. /\ s \in State /\ s.buffer \in Seq(Input)
  BY BaseTypes DEF Sound
<1>2. ~s.closing /\ ~s.await /\ s.buffer # <<>>
  BY DEF Ready
<1>3. s.sock = "open"
  BY <1>2 DEF Sound, Fresh
<1>4. Waiting(s)
  BY <1>2 DEF Sound, Serving
<1>5. s.parsed \in BOOLEAN /\ s.owes \in BOOLEAN
  BY <1>1 DEF State
<1>6. Chain(s.buffer, s.parsed, s.owes)
  <2>1. (s.parsed /\ ~s.await) = s.parsed
    BY <1>2, <1>5
  <2>2. QED
    BY <1>4, <2>1 DEF Waiting, Chained
<1>7. s.buffer[1] = "body" <=> s.parsed
  BY <1>1, <1>2, <1>5, <1>6, ChainLess
<1>8. QED
  BY <1>2, <1>3, <1>4, <1>7

LEMMA TurnedIs ==
  ASSUME NEW s, Sound(s), Ready(s), NEW q, Turned(s, q)
  PROVE  /\ Base(q) /\ ~q.closing /\ q.sock = "open" /\ ~q.await /\ ~q.streaming /\ Ended(q)
         /\ q.count \in 1 .. Len(q.x) /\ Chain(q.buffer, s.buffer[1] = "post", q.owes)
         /\ Begins(q)
         /\ s.buffer[1] # "body" =>
              /\ q.x[q.count] = NoExchange
              /\ LastOf(q.wire).end /\ LastOf(q.wire).req = q.count - 1
<1>1. /\ Base(s) /\ s \in State /\ s.x \in Seq(Exchange) /\ Len(s.x) \in Nat
      /\ s.wire \in Seq(Byte) /\ s.buffer \in Seq(Input) /\ Requests(s.buffer) \in Nat
      /\ s.count \in Nat /\ s.arrived \in Nat /\ s.count <= Len(s.x)
      /\ s.count + Requests(s.buffer) <= s.arrived /\ s.arrived <= Len(s.x)
  BY BaseTypes DEF Sound
<1>2. /\ s.sock = "open" /\ ~s.closing /\ ~s.await /\ s.buffer # <<>> /\ Waiting(s)
      /\ s.buffer[1] = "body" <=> s.parsed
  BY ReadyIs
<1>3. /\ q.sock = s.sock /\ q.listed = s.listed /\ q.owes = s.owes /\ q.arrived = s.arrived
      /\ q.await = s.await /\ q.closing = s.closing /\ q.cur = s.cur
      /\ q.streaming = s.streaming /\ q.queued = s.queued
      /\ q.late = s.late /\ q.left = s.left /\ q.x = s.x /\ q.wire = s.wire
  BY DEF Turned, Same, Fields
<1>4. ~s.streaming /\ Ended(s) /\ s.cur = 0
  BY <1>2 DEF Waiting, Ended
<1>5. q.count \in Nat /\ s.count <= q.count /\ q.count <= s.count + 1
  BY <1>1 DEF Turned
<1>6. q.count + Requests(q.buffer) <= q.arrived /\ q.arrived <= Len(q.x) /\ q.count <= Len(q.x)
  <2>1. q.buffer \in Seq(Input) /\ Requests(q.buffer) \in Nat
    <3>1. q.buffer \in Seq(Input)
      BY DEF Turned, State
    <3>2. QED
      BY <3>1, RequestsAre
  <2>2. CASE s.buffer[1] = "body"
    <3>1. Requests(q.buffer) = Requests(s.buffer) /\ q.count = s.count
      BY <1>1, <1>2, <2>2, RequestsLess DEF Turned
    <3>2. QED
      BY <1>1, <1>3, <3>1
  <2>3. CASE s.buffer[1] # "body"
    <3>1. Requests(q.buffer) = Requests(s.buffer) - 1 /\ q.count = s.count + 1
      BY <1>1, <1>2, <2>3, RequestsLess DEF Turned
    <3>2. QED
      BY <1>1, <1>3, <2>1, <3>1
  <2>4. QED
    BY <2>2, <2>3
<1>7. \A n \in 1 .. Len(q.x) : Held(q.x[n], n, q.count, q.cur, Sent(q.wire, n), q.queued)
  <2>1. SUFFICES ASSUME NEW n, n \in 1 .. Len(s.x)
                 PROVE  Held(s.x[n], n, q.count, s.cur, Sent(s.wire, n), s.queued)
    BY <1>3
  <2>2. Held(s.x[n], n, s.count, s.cur, Sent(s.wire, n), s.queued)
    BY <1>1, <2>1, BaseHeld
  <2>3. n > q.count => n > s.count
    BY <1>1, <1>5, <2>1
  <2>4. QED
    BY <2>2, <2>3 DEF Held
<1>8. s.buffer[1] # "body" => Ordered(s.wire, s.x, q.count) /\ Out(s.wire, q.count) = {}
  <2>1. Ordered(s.wire, s.x, s.count)
    BY <1>1 DEF Base
  <2>2. Ordered(s.wire, s.x, s.count + 1) /\ Out(s.wire, s.count + 1) = {}
    BY <1>1, <2>1, OrderMore
  <2>3. QED
    BY <2>2 DEF Turned
<1>9. Ordered(q.wire, q.x, q.count)
  BY <1>1, <1>3, <1>8 DEF Base, Turned
<1>10. Base(q)
  <2>1. q.listed <=> q.sock \in {"open", "draining"}
    BY <1>1, <1>3 DEF Base
  <2>2. q.cur \in {0, q.count}
    BY <1>3, <1>4
  <2>3. q \in State
    BY DEF Turned
  <2>4. QED
    BY <1>6, <1>7, <1>9, <2>1, <2>2, <2>3 DEF Base
<1>11. s.buffer[1] # "body" =>
         /\ q.x[q.count] = NoExchange
         /\ LastOf(q.wire).end /\ LastOf(q.wire).req = q.count - 1
  <2>1. SUFFICES ASSUME s.buffer[1] # "body"
                 PROVE  /\ q.x[q.count] = NoExchange
                        /\ LastOf(q.wire).end /\ LastOf(q.wire).req = q.count - 1
    OBVIOUS
  <2>2. q.count = s.count + 1 /\ q.count \in 1 .. Len(s.x)
    BY <1>1, <1>3, <1>6, <2>1 DEF Turned
  <2>3. Held(s.x[q.count], q.count, s.count, s.cur, Sent(s.wire, q.count), s.queued)
    BY <1>1, <2>2, BaseHeld
  <2>4. q.count > s.count
    BY <1>1, <2>2
  <2>5. q.x[q.count] = NoExchange
    BY <1>3, <2>3, <2>4 DEF Held
  <2>6. LastOf(s.wire).end /\ LastOf(s.wire).req = s.count
    BY <1>2, <2>1 DEF Waiting
  <2>7. s.count = q.count - 1
    BY <1>1, <2>2
  <2>8. QED
    BY <1>3, <2>5, <2>6, <2>7
<1>12. q.count # 0
  <2>1. CASE s.buffer[1] # "body"
    BY <1>1, <2>1 DEF Turned
  <2>2. CASE s.buffer[1] = "body"
    <3>1. q.count = s.count /\ LastOf(s.wire) = Bytes(s.count, -1, FALSE)
      BY <1>2, <2>2 DEF Turned, Waiting
    <3>2. s.wire # <<>>
      BY <3>1 DEF LastOf, Nothing, Bytes
    <3>3. Len(s.wire) \in 1 .. Len(s.wire) /\ LastOf(s.wire) = s.wire[Len(s.wire)]
      BY <1>1, <3>2 DEF LastOf
    <3>4. s.wire[Len(s.wire)].req \in 1 .. s.count
      BY <1>1, <3>3 DEF Base, Ordered
    <3>5. QED
      BY <1>1, <3>1, <3>3, <3>4
  <2>3. QED
    BY <2>1, <2>2
<1>13. Begins(q)
  <2>1. CASE s.buffer[1] # "body"
    BY <1>3, <1>8, <1>11, <2>1 DEF Begins
  <2>2. CASE s.buffer[1] = "body"
    BY <1>2, <1>3, <2>2 DEF Begins, Waiting, Turned
  <2>3. QED
    BY <2>1, <2>2
<1>14. Chain(q.buffer, s.buffer[1] = "post", q.owes)
  <2>1. s.parsed \in BOOLEAN /\ s.owes \in BOOLEAN
    BY <1>1 DEF State
  <2>2. (s.parsed /\ ~s.await) = s.parsed
    BY <1>2, <2>1
  <2>3. Chain(s.buffer, s.parsed, s.owes)
    BY <1>2, <2>2 DEF Waiting, Chained
  <2>4. Chain(Tail(s.buffer), s.buffer[1] = "post", s.owes)
    BY <1>1, <1>2, <2>1, <2>3, ChainLess
  <2>5. QED
    BY <1>3, <2>4 DEF Turned
<1>15. q.count \in 1 .. Len(q.x)
  BY <1>1, <1>3, <1>5, <1>6, <1>12
<1>16. Ended(q)
  BY <1>3, <1>4 DEF Ended
<1>17. QED
  BY <1>2, <1>3, <1>4, <1>10, <1>11, <1>13, <1>14, <1>15, <1>16

\* What the handler of a request may do.
LEMMA HandledFollows ==
  ASSUME NEW s, Sound(s), NEW n, n \in 1 .. s.count, s.x[n].born, NEW how
  PROVE  Follow(s, Handled(s, n, how))
<1>1. CASE how \in Reply
  <2>1. Handled(s, n, how) = Respond(s, n, how)
    BY <1>1 DEF Handled, Reply, Sending, Opening
  <2>2. Follow(s, Respond(s, n, how))
    BY RespondFollows
  <2>3. QED
    BY <2>1, <2>2
<1>2. CASE how \notin Reply /\ how \in Opening
  <2>1. Handled(s, n, how) = BeginStream(s, n, how)
    BY <1>2 DEF Handled, Reply, Sending, Opening
  <2>2. Follow(s, BeginStream(s, n, how))
    BY BeginFollows
  <2>3. QED
    BY <2>1, <2>2
<1>3. CASE how \notin Reply /\ how \notin Opening /\ how = "offline"
  BY <1>3, ShutdownFollows DEF Handled
<1>4. CASE how \notin Reply /\ how \notin Opening /\ how # "offline"
  BY <1>4, SelfFollows DEF Handled
<1>5. QED
  BY <1>1, <1>2, <1>3, <1>4

\* The handler is given its exchange, and runs.
LEMMA DispatchSound ==
  ASSUME NEW s, Base(s), ~s.closing, s.sock = "open", ~s.streaming, Ended(s), s.parsed,
         s.count \in 1 .. Len(s.x), Chain(s.buffer, FALSE, s.owes), Begins(s), NEW how
  PROVE  Sound(Dispatch(s, how))
<1> DEFINE e == [NoExchange EXCEPT !.live = TRUE, !.born = TRUE]
           n == s.count
           q == [s EXCEPT !.await = TRUE, !.idle = FALSE, !.cur = s.count]
           r == Edited(q, n, e)
<1>1. /\ s \in State /\ s.x \in Seq(Exchange) /\ Len(s.x) \in Nat /\ s.count \in Nat
      /\ s.wire \in Seq(Byte) /\ n \in 1 .. Len(s.x) /\ n > 0
  BY BaseTypes
<1>2. /\ e \in Exchange /\ e.live /\ e.born /\ ~e.responded /\ ~e.streaming /\ ~e.told /\ ~e.sent
      /\ e.chunks = 0 /\ e.ok
  BY DEF NoExchange, Exchange
<1> HIDE DEF e
<1>3. /\ q \in State /\ Same(s, q, {"await", "idle", "cur"}) /\ q.await /\ q.cur = s.count
  BY <1>1 DEF State, Same, Fields
<1> HIDE DEF q
<1>4. /\ q.sock = s.sock /\ q.listed = s.listed /\ q.buffer = s.buffer /\ q.owes = s.owes
      /\ q.arrived = s.arrived /\ q.count = s.count /\ q.parsed = s.parsed
      /\ q.closing = s.closing /\ q.streaming = s.streaming /\ q.queued = s.queued
      /\ q.late = s.late /\ q.left = s.left /\ q.x = s.x /\ q.wire = s.wire
  BY <1>3 DEF Same, Fields
<1>5. s.queued = 0 /\ s.cur = 0 /\ ~s.late /\ s.left = 0
  BY DEF Ended
<1>6. \A m \in 1 .. Len(s.x) : ~s.x[m].live
  BY <1>5, SilentIfEnded
<1>7. Base(q)
  <2>1. \A m \in 1 .. Len(q.x) : Held(q.x[m], m, q.count, q.cur, Sent(q.wire, m), q.queued)
    <3>1. \A m \in 1 .. Len(s.x) : Held(s.x[m], m, s.count, s.cur, Sent(s.wire, m), s.queued)
      BY DEF Base
    <3>2. \A m \in 1 .. Len(s.x) : Held(s.x[m], m, s.count, q.cur, Sent(s.wire, m), s.queued)
      BY <1>6, <3>1 DEF Held
    <3>3. QED
      BY <1>4, <3>2
  <2>2. QED
    BY <1>3, <1>4, <2>1 DEF Base
<1>8. Out(q.wire, n) = {} /\ Sent(q.wire, n) = 0
  <2>1. Out(s.wire, n) = {}
    BY DEF Begins
  <2>2. QED
    BY <1>1, <1>4, <2>1, OutCounts
<1>9. Held(e, n, q.count, q.cur, Sent(q.wire, n), q.queued)
  <2>1. ~(n > q.count) /\ n = q.cur
    BY <1>1, <1>3, <1>4
  <2>2. e.chunks = Sent(q.wire, n) + q.queued /\ e.chunks <= Pieces
    BY <1>2, <1>4, <1>5, <1>8
  <2>3. QED
    BY <1>2, <2>1, <2>2 DEF Held
<1>10. n \in 1 .. q.count
  BY <1>1, <1>4
<1> HIDE DEF n
<1>11. /\ Base(r) /\ Same(q, r, {"x"}) /\ Len(r.x) = Len(q.x) /\ r.x[n] = e
  BY <1>2, <1>7, <1>8, <1>9, <1>10, EditBase
<1> HIDE DEF r
<1>12. /\ r.sock = "open" /\ r.buffer = s.buffer /\ r.owes = s.owes /\ r.count = s.count
       /\ r.parsed = s.parsed /\ r.await /\ ~r.closing /\ r.cur = s.count
       /\ ~r.streaming /\ r.queued = 0 /\ ~r.late /\ r.left = 0 /\ r.wire = s.wire
  BY <1>3, <1>4, <1>5, <1>11 DEF Same, Fields
<1>13. Chained(r)
  BY <1>12 DEF Chained
<1>14. Begins(r)
  BY <1>12 DEF Begins
<1>15. Asked(r)
  BY <1>2, <1>11, <1>12, <1>13, <1>14 DEF Asked, n
<1>16. Serving(r)
  BY <1>1, <1>12, <1>15 DEF Serving, n
<1>17. Sound(r)
  BY <1>11, <1>12, <1>16 DEF Sound
<1>18. n \in 1 .. r.count /\ r.x[n].born
  BY <1>2, <1>4, <1>10, <1>11, <1>12
<1>19. Follow(r, Handled(r, n, how))
  BY <1>17, <1>18, HandledFollows
<1>20. r = [s EXCEPT !.await = TRUE, !.idle = FALSE, !.cur = s.count, !.x[s.count] = e]
  <2>1. [s EXCEPT !.await = TRUE, !.idle = FALSE, !.cur = s.count, !.x[s.count] = e]
          = [s EXCEPT !.await = TRUE, !.idle = FALSE, !.cur = s.count,
                      !.x = [s.x EXCEPT ![s.count] = e]]
    BY <1>1 DEF State
  <2>2. r = [q EXCEPT !.x = [q.x EXCEPT ![n] = e]]
    BY <1>3 DEF r, Edited, State
  <2> DEFINE y == [s.x EXCEPT ![s.count] = e]
  <2>3. r = [q EXCEPT !.x = y]
    BY <1>4, <2>2 DEF n
  <2> HIDE DEF y
  <2>4. [q EXCEPT !.x = y] = [s EXCEPT !.await = TRUE, !.idle = FALSE, !.cur = s.count, !.x = y]
    BY <1>1 DEF q, State
  <2>5. QED
    BY <2>1, <2>3, <2>4 DEF y
<1>21. Dispatch(s, how) = Handled(r, n, how)
  BY <1>20 DEF Dispatch, e, n
<1>22. QED
  BY <1>19, <1>21 DEF Follow

\* The head of a request whose body has yet to come: 100 Continue goes out.
LEMMA HeadSound ==
  ASSUME NEW s, Base(s), ~s.closing, s.sock = "open", ~s.await, ~s.streaming, Ended(s), s.parsed,
         s.count \in 1 .. Len(s.x), Chain(s.buffer, TRUE, s.owes), Begins(s),
         LastOf(s.wire).end, LastOf(s.wire).req = s.count - 1
  PROVE  Sound(Put(s, Bytes(s.count, -1, FALSE)))
<1> DEFINE u == Bytes(s.count, -1, FALSE)
           w == Append(s.wire, u)
           r == [s EXCEPT !.wire = w]
<1>1. /\ s \in State /\ s.wire \in Seq(Byte) /\ s.count \in Nat /\ Len(s.x) \in Nat
  BY BaseTypes
<1>2. /\ u \in Byte /\ u.req = s.count /\ u.part = -1 /\ u.end = FALSE
  BY <1>1 DEF Bytes, Byte
<1>3. u = Bytes(s.count, -1, FALSE)
  OBVIOUS
<1> HIDE DEF u
<1>4. w \in Seq(Byte) /\ LastOf(w) = u
  BY <1>1, <1>2, LastPut
<1>5. \A n \in 1 .. Len(s.x) : Sent(w, n) = Sent(s.wire, n)
  <2>1. ~(u.part > 0)
    BY <1>2
  <2>2. QED
    BY <1>1, <1>2, <2>1, OutPut
<1>6. Out(w, s.count) = {}
  <2>1. ~(u.part > 0)
    BY <1>2
  <2>2. Out(w, s.count) = Out(s.wire, s.count)
    BY <1>1, <1>2, <2>1, OutPut
  <2>3. QED
    BY <2>2 DEF Begins
<1>7. Ordered(w, s.x, s.count)
  <2>1. Ordered(s.wire, s.x, s.count)
    BY DEF Base
  <2>2. LastOf(s.wire).req + 1 = s.count
    BY <1>1
  <2>3. Goes(s.x, LastOf(s.wire), u)
    BY <1>2, <2>2 DEF Goes
  <2>4. u.req \in 1 .. s.count
    BY <1>1, <1>2
  <2>5. QED
    BY <1>1, <1>2, <2>1, <2>3, <2>4, OrderPut
<1>8. /\ r \in State /\ Same(s, r, {"wire"}) /\ r.wire = w
  <2> HIDE DEF w
  <2>1. QED
    BY <1>1, <1>4 DEF State, Same, Fields
<1> HIDE DEF w, r
<1>9. /\ r.sock = s.sock /\ r.listed = s.listed /\ r.buffer = s.buffer /\ r.owes = s.owes
      /\ r.arrived = s.arrived /\ r.count = s.count /\ r.parsed = s.parsed
      /\ r.await = s.await /\ r.closing = s.closing /\ r.cur = s.cur
      /\ r.streaming = s.streaming /\ r.queued = s.queued
      /\ r.late = s.late /\ r.left = s.left /\ r.x = s.x
  BY <1>8 DEF Same, Fields
<1>10. Base(r)
  <2>1. \A n \in 1 .. Len(r.x) : Held(r.x[n], n, r.count, r.cur, Sent(r.wire, n), r.queued)
    <3>1. \A n \in 1 .. Len(s.x) : Held(s.x[n], n, s.count, s.cur, Sent(s.wire, n), s.queued)
      BY DEF Base
    <3>2. QED
      BY <1>5, <1>8, <1>9, <3>1
  <2>2. QED
    BY <1>7, <1>8, <1>9, <2>1 DEF Base
<1>11. Chained(r)
  BY <1>9 DEF Chained
<1>12. Waiting(r)
  <2>1. Ended(r)
    BY <1>9 DEF Ended
  <2>2. QED
    BY <1>3, <1>4, <1>6, <1>8, <1>9, <1>11, <2>1 DEF Waiting
<1>13. Sound(r)
  BY <1>9, <1>10, <1>12 DEF Sound
<1>14. QED
  BY <1>13 DEF r, w, u, Put

\* What the parser refuses is answered, and the connection closed behind the answer.
LEMMA RefuseSound ==
  ASSUME NEW s, Base(s), ~s.closing, s.sock = "open", ~s.await, ~s.streaming, Ended(s),
         s.count \in 1 .. Len(s.x), Chain(s.buffer, FALSE, s.owes), Begins(s),
         s.x[s.count] = NoExchange
  PROVE  Sound(FailAndClose(s))
<1>1. s \in State /\ Len(s.x) \in Nat /\ s.count > 0
  BY BaseTypes
<1>2. s.cur = 0 /\ s.queued = 0 /\ ~s.late /\ s.left = 0
  BY DEF Ended
<1>3. [s EXCEPT !.await = FALSE] = s
  BY <1>1 DEF State
<1>4. FailAndClose(s) = SendNow(s, "close")
  BY <1>2, <1>3 DEF FailAndClose, AbortExchange
<1>5. \A n \in 1 .. Len(s.x) : ~s.x[n].live
  BY <1>2, SilentIfEnded
<1>6. ~s.x[s.count].born
  BY DEF NoExchange
<1>7. Owing(s)
  BY <1>1, <1>2, <1>5, <1>6 DEF Owing
<1>8. Follow(s, SendNow(s, "close"))
  BY <1>2, <1>7, SendFollows
<1>9. QED
  BY <1>4, <1>8 DEF Follow

LEMMA TakeSound ==
  ASSUME NEW s, Sound(s), Ready(s), NEW how
  PROVE  Sound(Take(s, how)) /\ s.sock = "open"
<1> DEFINE piece == Head(s.buffer)
           t == Tail(s.buffer)
           rest == [s EXCEPT !.buffer = t]
           k == piece # "last"
           m == s.count + 1
           more == [rest EXCEPT !.count = m]
           head == [rest EXCEPT !.count = m, !.parsed = TRUE, !.keep = k]
<1>1. /\ s \in State /\ s.buffer \in Seq(Input) /\ s.count \in Nat
  BY BaseTypes DEF Sound
<1>2. /\ s.sock = "open" /\ s.buffer # <<>> /\ (s.buffer[1] = "body" <=> s.parsed)
  BY ReadyIs
<1>3. piece = s.buffer[1] /\ t \in Seq(Input)
  BY <1>1, <1>2, TailIs
<1>4. t = Tail(s.buffer) /\ k \in BOOLEAN
  OBVIOUS
<1> HIDE DEF t, k
<1>5. rest \in State /\ Same(s, rest, {"buffer"}) /\ rest.buffer = t
  BY <1>1, <1>3 DEF State, Same, Fields
<1>6. rest = [s EXCEPT !.buffer = Tail(@)]
  BY <1>1, <1>4 DEF State
<1> HIDE DEF rest
<1>7. rest.count = s.count /\ rest.parsed = s.parsed
  BY <1>5 DEF Same, Fields
<1>8. m \in Nat /\ m = s.count + 1 /\ m = rest.count + 1
  BY <1>1, <1>7
<1> HIDE DEF m
<1>9. /\ more \in State /\ Same(rest, more, {"count"}) /\ more.count = m
      /\ more = [rest EXCEPT !.count = @ + 1]
  BY <1>5, <1>8 DEF State, Same, Fields
<1>10. /\ head \in State /\ Same(rest, head, {"count", "parsed", "keep"})
       /\ head.count = m /\ head.parsed
  BY <1>4, <1>5, <1>8 DEF State, Same, Fields
<1>11. head = [rest EXCEPT !.count = @ + 1, !.parsed = TRUE, !.keep = piece # "last"]
  BY <1>5, <1>8 DEF State, k
<1> HIDE DEF head, more, piece
<1>12. CASE s.parsed
  <2>1. Turned(s, rest)
    BY <1>2, <1>4, <1>5, <1>7, <1>12 DEF Turned, Same
  <2>2. /\ Base(rest) /\ ~rest.closing /\ rest.sock = "open" /\ ~rest.streaming /\ Ended(rest)
        /\ rest.count \in 1 .. Len(rest.x) /\ Chain(rest.buffer, s.buffer[1] = "post", rest.owes)
        /\ Begins(rest)
    BY <2>1, TurnedIs
  <2>3. (s.buffer[1] = "post") = FALSE
    BY <1>2, <1>12
  <2>4. Chain(rest.buffer, FALSE, rest.owes)
    BY <2>2, <2>3
  <2>5. Sound(Dispatch(rest, how))
    BY <1>7, <1>12, <2>2, <2>4, DispatchSound
  <2>6. Take(s, how) = Dispatch(rest, how)
    BY <1>6, <1>12 DEF Take
  <2>7. QED
    BY <1>2, <2>5, <2>6
<1>13. CASE ~s.parsed /\ piece = "junk"
  <2>1. more.buffer = t
    BY <1>5, <1>9 DEF Same, Fields
  <2>2. Turned(s, more)
    BY <1>2, <1>4, <1>5, <1>8, <1>9, <1>13, <2>1 DEF Turned, Same
  <2>3. /\ Base(more) /\ ~more.closing /\ more.sock = "open" /\ ~more.await /\ ~more.streaming
        /\ Ended(more) /\ more.count \in 1 .. Len(more.x)
        /\ Chain(more.buffer, s.buffer[1] = "post", more.owes) /\ Begins(more)
        /\ s.buffer[1] # "body" => more.x[more.count] = NoExchange
    BY <2>2, TurnedIs
  <2>4. (s.buffer[1] = "post") = FALSE
    BY <1>3, <1>13
  <2>5. Chain(more.buffer, FALSE, more.owes) /\ more.x[more.count] = NoExchange
    BY <1>2, <1>13, <2>3, <2>4
  <2>6. Sound(FailAndClose(more))
    BY <2>3, <2>5, RefuseSound
  <2>7. Take(s, how) = FailAndClose(more)
    BY <1>6, <1>9, <1>13 DEF Take, piece
  <2>8. QED
    BY <1>2, <2>6, <2>7
<1>14. CASE ~s.parsed /\ piece # "junk"
  <2>1. head.buffer = t
    BY <1>5, <1>10 DEF Same, Fields
  <2>2. Turned(s, head)
    BY <1>2, <1>4, <1>5, <1>8, <1>10, <1>14, <2>1 DEF Turned, Same
  <2>3. /\ Base(head) /\ ~head.closing /\ head.sock = "open" /\ ~head.await /\ ~head.streaming
        /\ Ended(head) /\ head.count \in 1 .. Len(head.x)
        /\ Chain(head.buffer, s.buffer[1] = "post", head.owes) /\ Begins(head)
        /\ s.buffer[1] # "body" => LastOf(head.wire).end /\ LastOf(head.wire).req = head.count - 1
    BY <2>2, TurnedIs
  <2>4. CASE piece = "post"
    <3>1. (s.buffer[1] = "post") = TRUE
      BY <1>3, <2>4
    <3>2. Chain(head.buffer, TRUE, head.owes)
      BY <2>3, <3>1
    <3>3. Sound(Put(head, Bytes(head.count, -1, FALSE)))
      BY <1>2, <1>10, <1>14, <2>3, <3>2, HeadSound
    <3>4. Take(s, how) = Put(head, Bytes(head.count, -1, FALSE))
      BY <1>6, <1>11, <1>14, <2>4 DEF Take, piece
    <3>5. QED
      BY <1>2, <3>3, <3>4
  <2>5. CASE piece # "post"
    <3>1. (s.buffer[1] = "post") = FALSE
      BY <1>3, <2>5
    <3>2. Chain(head.buffer, FALSE, head.owes)
      BY <2>3, <3>1
    <3>3. Sound(Dispatch(head, how))
      BY <1>10, <2>3, <3>2, DispatchSound
    <3>4. Take(s, how) = Dispatch(head, how)
      BY <1>6, <1>11, <1>14, <2>5 DEF Take, piece
    <3>5. QED
      BY <1>2, <3>3, <3>4
  <2>6. QED
    BY <2>4, <2>5
<1>15. QED
  BY <1>12, <1>13, <1>14

-----------------------------------------------------------------------------
(* The server.                                                             *)

\* One connection moves while processBuffer() is on no stack.
LEMMA StepKeeps ==
  ASSUME HttpInv, Idle, NEW c, c \in Conns, NEW r, Follow(conn[c], r), Step(c, r)
  PROVE  HttpInv'
<1>1. /\ conn' = [conn EXCEPT ![c] = r] /\ busy' = busy /\ busy = None
      /\ listening' = listening /\ suspended' = suspended
  BY DEF Step, Idle
<1>2. DOMAIN conn = Conns /\ None \notin Conns
  BY DEF HttpInv
<1>3. DOMAIN conn' = Conns /\ conn'[c] = r /\ \A d \in Conns : d # c => conn'[d] = conn[d]
  BY <1>1, <1>2
<1>4. \A d \in Conns : Sound(conn[d]) /\ Calm(conn[d])
  BY <1>1, <1>2 DEF HttpInv
<1>5. \A d \in Conns : Sound(conn'[d]) /\ Calm(conn'[d])
  BY <1>3, <1>4 DEF Follow
<1>6. suspended => \A d \in Conns : conn'[d].sock \in {"none", "gone"}
  BY <1>3 DEF HttpInv, SuspendedIsSilent, Follow
<1>7. QED
  BY <1>1, <1>3, <1>5, <1>6 DEF HttpInv, SuspendedIsSilent

\* Or processBuffer() runs for it.
LEMMA RunKeeps ==
  ASSUME HttpInv, NEW c, c \in Conns, busy \in {None, c}, NEW r, Sound(r),
         conn[c].sock = "open", conn' = [conn EXCEPT ![c] = r], Running(c, r),
         UNCHANGED <<listening, suspended>>
  PROVE  HttpInv'
<1>1. DOMAIN conn = Conns /\ None \notin Conns
  BY DEF HttpInv
<1>2. DOMAIN conn' = Conns /\ conn'[c] = r /\ \A d \in Conns : d # c => conn'[d] = conn[d]
  BY <1>1
<1>3. \A d \in Conns : d # c => Sound(conn[d]) /\ Calm(conn[d])
  BY <1>1 DEF HttpInv
<1>4. busy' = IF Ready(r) THEN c ELSE None
  BY DEF Running
<1>5. \A d \in Conns : Sound(conn'[d]) /\ (busy' = d \/ Calm(conn'[d]))
  BY <1>2, <1>3, <1>4 DEF Calm
<1>6. ~suspended
  BY DEF HttpInv, SuspendedIsSilent
<1>7. busy' # None => Ready(conn'[busy'])
  BY <1>2, <1>4
<1>8. QED
  BY <1>2, <1>4, <1>5, <1>6, <1>7 DEF HttpInv, SuspendedIsSilent

\* The server takes its connections down.
LEMMA CloseIs ==
  ASSUME HttpInv
  PROVE  /\ DOMAIN Close = Conns
         /\ \A c \in Conns : /\ Sound(Close[c]) /\ (Calm(conn[c]) => Calm(Close[c]))
                             /\ Close[c].sock \in {"none", "gone"}
BY ShutdownFollows DEF HttpInv, Close, Follow

LEMMA TurnKeeps ==
  ASSUME HttpInv, NEW c, c \in Conns, Turn(c)
  PROVE  HttpInv'
<1>1. PICK how \in Handling :
        LET s == Take(conn[c], how)
            gone == how = "offline" /\ ~s.listed
        IN    /\ conn' = [IF gone THEN Close ELSE conn EXCEPT ![c] = s]
              /\ listening' = (listening /\ ~gone)
              /\ suspended' = (suspended \/ gone)
              /\ Running(c, s)
  BY DEF Turn
<1> DEFINE s == Take(conn[c], how)
           gone == how = "offline" /\ ~s.listed
<1>2. /\ busy = c /\ Ready(conn[c]) /\ Sound(conn[c]) /\ DOMAIN conn = Conns /\ None \notin Conns
      /\ listening \in BOOLEAN /\ suspended \in BOOLEAN
  BY DEF Turn, HttpInv
<1>3. Sound(s) /\ conn[c].sock = "open"
  BY <1>2, TakeSound
<1>4. /\ conn' = [IF gone THEN Close ELSE conn EXCEPT ![c] = s]
      /\ listening' = (listening /\ ~gone) /\ suspended' = (suspended \/ gone)
      /\ Running(c, s)
  BY <1>1
<1>5. gone => ~s.listed
  OBVIOUS
<1>6. gone \in BOOLEAN
  OBVIOUS
<1> HIDE DEF s, gone
<1>7. CASE ~gone
  <2>1. conn' = [conn EXCEPT ![c] = s]
    BY <1>4, <1>7
  <2>2. listening' = listening /\ suspended' = suspended
    BY <1>2, <1>4, <1>7
  <2>3. QED
    BY <1>2, <1>3, <1>4, <2>1, <2>2, RunKeeps
<1>8. CASE gone
  <2>1. conn' = [Close EXCEPT ![c] = s] /\ ~listening' /\ suspended'
        /\ listening' \in BOOLEAN /\ suspended' \in BOOLEAN
    BY <1>2, <1>4, <1>8
  <2>2. /\ DOMAIN Close = Conns
        /\ \A d \in Conns : /\ Sound(Close[d]) /\ (Calm(conn[d]) => Calm(Close[d]))
                            /\ Close[d].sock \in {"none", "gone"}
    BY CloseIs
  <2>3. DOMAIN conn' = Conns /\ conn'[c] = s /\ \A d \in Conns : d # c => conn'[d] = Close[d]
    BY <2>1, <2>2
  <2>4. s \in State /\ s.sock \in {"none", "gone"}
    <3>1. Base(s) /\ s \in State
      BY <1>3, BaseTypes DEF Sound
    <3>2. /\ s.sock \in {"none", "open", "draining", "gone"}
          /\ s.listed <=> s.sock \in {"open", "draining"}
      BY <3>1 DEF Base, State
    <3>3. QED
      BY <1>5, <1>8, <3>1, <3>2
  <2>5. \A d \in Conns : conn'[d].sock \in {"none", "gone"}
    BY <2>2, <2>3, <2>4
  <2>6. busy' = IF Ready(s) THEN c ELSE None
    BY <1>4 DEF Running
  <2>7. \A d \in Conns : d # c => Calm(conn[d])
    BY <1>2 DEF HttpInv
  <2>8. \A d \in Conns : Sound(conn'[d]) /\ (busy' = d \/ Calm(conn'[d]))
    BY <1>3, <2>2, <2>3, <2>6, <2>7 DEF Calm
  <2>9. busy' # None => Ready(conn'[busy'])
    BY <2>3, <2>6
  <2>10. busy' \in Conns \cup {None}
    BY <2>6
  <2>11. QED
    BY <2>1, <2>3, <2>5, <2>8, <2>9, <2>10 DEF HttpInv, SuspendedIsSilent
<1>9. QED
  BY <1>6, <1>7, <1>8

LEMMA HttpStarts == Init => HttpInv
<1>1. SUFFICES ASSUME Init PROVE HttpInv
  OBVIOUS
<1>2. PICK load \in Loads : conn = [c \in Conns |-> Fresh(load[c])]
  BY <1>1 DEF Init
<1>3. \A c \in Conns : load[c] \in Nat
  OBVIOUS
<1>4. DOMAIN conn = Conns /\ \A c \in Conns : conn[c] = Fresh(load[c])
  BY <1>2
<1>5. \A c \in Conns : Sound(conn[c]) /\ ~Ready(conn[c])
  BY <1>3, <1>4, FreshIs
<1>6. busy = None /\ listening = FALSE /\ suspended = FALSE
  BY <1>1 DEF Init
<1>7. QED
  BY <1>4, <1>5, <1>6 DEF HttpInv, Calm, SuspendedIsSilent

LEMMA HttpSteps == HttpInv /\ [Next]_vars => HttpInv'
<1> SUFFICES ASSUME HttpInv, [Next]_vars PROVE HttpInv'
  OBVIOUS
<1>1. \A c \in Conns : Sound(conn[c])
  BY DEF HttpInv
<1>2. ASSUME NEW c, c \in Conns, Accept(c) PROVE HttpInv'
  <2> DEFINE r == ArmIdle([conn[c] EXCEPT !.sock = "open", !.listed = TRUE])
  <2>1. Sound(r) /\ Calm(r)
    BY <1>1, <1>2, AcceptFollows DEF Accept
  <2>2. Step(c, r) /\ Idle /\ listening /\ conn[c].sock = "none"
    BY <1>2 DEF Accept
  <2> HIDE DEF r
  <2>3. /\ conn' = [conn EXCEPT ![c] = r] /\ busy' = busy /\ busy = None
        /\ listening' = listening /\ suspended' = suspended
    BY <2>2 DEF Step, Idle
  <2>4. DOMAIN conn = Conns /\ None \notin Conns /\ ~suspended
    BY <2>2 DEF HttpInv
  <2>5. DOMAIN conn' = Conns /\ conn'[c] = r /\ \A d \in Conns : d # c => conn'[d] = conn[d]
    BY <1>2, <2>3, <2>4
  <2>6. \A d \in Conns : Sound(conn[d]) /\ Calm(conn[d])
    BY <2>3, <2>4 DEF HttpInv
  <2>7. \A d \in Conns : Sound(conn'[d]) /\ Calm(conn'[d])
    BY <2>1, <2>5, <2>6
  <2>8. QED
    BY <2>3, <2>4, <2>5, <2>7 DEF HttpInv, SuspendedIsSilent
<1>3. ASSUME NEW c, c \in Conns, Rescan(c) PROVE HttpInv'
  <2> DEFINE r == [conn[c] EXCEPT !.again = FALSE]
  <2>1. /\ conn[c].again /\ conn' = [conn EXCEPT ![c] = r] /\ Running(c, r) /\ busy = None
        /\ UNCHANGED <<listening, suspended>>
    BY <1>3 DEF Rescan, Idle
  <2>2. Sound(r) /\ r.sock = conn[c].sock
    BY <1>1, <1>3, <2>1, RescanFollows
  <2> HIDE DEF r
  <2>3. CASE conn[c].sock = "open"
    BY <1>3, <2>1, <2>2, <2>3, RunKeeps
  <2>4. CASE conn[c].sock # "open"
    <3>1. conn[c].sock # "none"
      <4>1. ~Fresh(Len(conn[c].x)).again
        BY DEF Fresh
      <4>2. QED
        BY <1>1, <1>3, <2>1, <4>1 DEF Sound
    <3>2. conn[c].closing
      BY <1>1, <1>3, <2>4, <3>1 DEF Sound
    <3>3. r.sock # "open" /\ r.sock # "none"
      BY <2>2, <2>4, <3>1
    <3>4. ~Ready(r)
      BY <2>2, <3>3 DEF Sound, Ready
    <3>5. Follow(conn[c], r)
      BY <2>2, <3>4 DEF Follow, Calm
    <3>6. Step(c, r)
      BY <2>1, <3>4 DEF Step, Running
    <3>7. QED
      BY <1>3, <2>1, <3>5, <3>6, StepKeeps DEF Idle
  <2>5. QED
    BY <2>3, <2>4
<1>4. ASSUME NEW c, c \in Conns, NEW piece, piece \in Input, ReadyRead(c, piece) PROVE HttpInv'
  <2> DEFINE q == [conn[c] EXCEPT !.owes = piece = "post",
                                  !.arrived = IF piece = "body" THEN @ ELSE @ + 1]
             r == IF q.streaming THEN q ELSE ArmIdle([q EXCEPT !.buffer = Append(@, piece)])
  <2>1. /\ conn[c].sock = "open" /\ (conn[c].owes <=> piece = "body")
        /\ piece # "body" => conn[c].arrived < Len(conn[c].x)
        /\ conn' = [conn EXCEPT ![c] = r] /\ Running(c, r) /\ busy = None
        /\ UNCHANGED <<listening, suspended>>
    BY <1>4 DEF ReadyRead, Idle
  <2>2. Sound(r)
    BY <1>1, <1>4, <2>1, ReadFollows
  <2> HIDE DEF r
  <2>3. QED
    BY <1>4, <2>1, <2>2, RunKeeps
<1>5. ASSUME NEW c, c \in Conns, IdleFires(c) PROVE HttpInv'
  <2> DEFINE q == [conn[c] EXCEPT !.idle = FALSE]
             r == IF q.await THEN q ELSE Drain(q)
  <2>1. Idle /\ conn[c].idle /\ Step(c, r)
    BY <1>5 DEF IdleFires
  <2>2. Follow(conn[c], r)
    BY <1>1, <1>5, <2>1, IdleFollows
  <2> HIDE DEF r
  <2>3. QED
    BY <1>5, <2>1, <2>2, StepKeeps
<1>6. ASSUME NEW c, c \in Conns, LateFires(c) PROVE HttpInv'
  <2> DEFINE q == [conn[c] EXCEPT !.late = FALSE]
  <2>0. PICK how \in Sending : Step(c, IF q.closing THEN q ELSE SendNow(q, how))
    BY <1>6 DEF LateFires
  <2> DEFINE r == IF q.closing THEN q ELSE SendNow(q, how)
  <2>1. Idle /\ conn[c].late /\ Step(c, r)
    BY <1>6, <2>0 DEF LateFires
  <2>2. Follow(conn[c], r)
    BY <1>1, <1>6, <2>1, LateFollows
  <2> HIDE DEF r
  <2>3. QED
    BY <1>6, <2>1, <2>2, StepKeeps
<1>7. ASSUME NEW c, c \in Conns, LateHeadFires(c) PROVE HttpInv'
  <2>0. PICK broken \in BOOLEAN : Step(c, FlushHead([conn[c] EXCEPT !.lateHead = FALSE], broken))
    BY <1>7 DEF LateHeadFires
  <2> DEFINE r == FlushHead([conn[c] EXCEPT !.lateHead = FALSE], broken)
  <2>1. Idle /\ conn[c].lateHead /\ Step(c, r)
    BY <1>7, <2>0 DEF LateHeadFires
  <2>2. Follow(conn[c], r)
    BY <1>1, <1>7, <2>1, LateHeadFollows
  <2> HIDE DEF r
  <2>3. QED
    BY <1>7, <2>1, <2>2, StepKeeps
<1>8. ASSUME NEW c, c \in Conns, SlowFires(c) PROVE HttpInv'
  <2>0. PICK broken \in BOOLEAN : Step(c, SendPiece(conn[c], broken))
    BY <1>8 DEF SlowFires
  <2>1. Idle /\ conn[c].left > 0
    BY <1>8 DEF SlowFires
  <2>2. Follow(conn[c], SendPiece(conn[c], broken))
    BY <1>1, <1>8, <2>1, SlowFollows
  <2>3. QED
    BY <1>8, <2>0, <2>1, <2>2, StepKeeps
<1>9. ASSUME NEW c, c \in Conns, Disconnected(c) PROVE HttpInv'
  <2>1. Idle /\ Step(c, OnDisconnected(conn[c]))
    BY <1>9 DEF Disconnected
  <2>2. Follow(conn[c], OnDisconnected(conn[c]))
    BY <1>1, <1>9, DisconnectFollows
  <2>3. QED
    BY <1>9, <2>1, <2>2, StepKeeps
<1>10. ASSUME NEW c, c \in Conns, Answer(c) PROVE HttpInv'
  <2>1. PICK n \in Kept(c), how \in Reply : Step(c, Respond(conn[c], n, how))
    BY <1>10 DEF Answer
  <2>2. Idle /\ n \in 1 .. conn[c].count /\ conn[c].x[n].born
    BY <1>10 DEF Answer, Kept
  <2>3. Follow(conn[c], Respond(conn[c], n, how))
    BY <1>1, <1>10, <2>2, RespondFollows
  <2>4. QED
    BY <1>10, <2>1, <2>2, <2>3, StepKeeps
<1>11. ASSUME NEW c, c \in Conns, StartStream(c) PROVE HttpInv'
  <2>1. PICK n \in Kept(c), how \in Opening : Step(c, BeginStream(conn[c], n, how))
    BY <1>11 DEF StartStream
  <2>2. Idle /\ n \in 1 .. conn[c].count /\ conn[c].x[n].born
    BY <1>11 DEF StartStream, Kept
  <2>3. Follow(conn[c], BeginStream(conn[c], n, how))
    BY <1>1, <1>11, <2>2, BeginFollows
  <2>4. QED
    BY <1>11, <2>1, <2>2, <2>3, StepKeeps
<1>12. ASSUME NEW c, c \in Conns, Push(c) PROVE HttpInv'
  <2>1. PICK n \in Kept(c), fate \in Fate :
          conn[c].x[n].chunks < Pieces /\ Step(c, WriteChunk(conn[c], n, fate))
    BY <1>12 DEF Push
  <2>2. Idle /\ n \in 1 .. conn[c].count /\ conn[c].x[n].born
    BY <1>12 DEF Push, Kept
  <2>3. Follow(conn[c], WriteChunk(conn[c], n, fate))
    BY <1>1, <1>12, <2>1, <2>2, WriteFollows
  <2>4. QED
    BY <1>12, <2>1, <2>2, <2>3, StepKeeps
<1>13. ASSUME NEW c, c \in Conns, FinishStream(c) PROVE HttpInv'
  <2>1. PICK n \in Kept(c), broken \in BOOLEAN : Step(c, EndStream(conn[c], n, broken))
    BY <1>13 DEF FinishStream
  <2>2. Idle /\ n \in 1 .. conn[c].count /\ conn[c].x[n].born
    BY <1>13 DEF FinishStream, Kept
  <2>3. Follow(conn[c], EndStream(conn[c], n, broken))
    BY <1>1, <1>13, <2>2, EndFollows
  <2>4. QED
    BY <1>13, <2>1, <2>2, <2>3, StepKeeps
<1>14. CASE Suspend
  <2>1. /\ conn' = Close /\ busy' = busy /\ busy = None /\ suspended' = TRUE /\ listening' = FALSE
    BY <1>14 DEF Suspend, Idle
  <2>2. None \notin Conns /\ \A d \in Conns : Calm(conn[d])
    BY <2>1 DEF HttpInv
  <2>3. QED
    BY <2>1, <2>2, CloseIs DEF HttpInv, SuspendedIsSilent
<1>15. ASSUME NEW ok \in BOOLEAN, Listen(ok) PROVE HttpInv'
  <2>1. /\ conn' = conn /\ busy' = busy /\ listening' = ok /\ suspended' = (suspended /\ ~ok)
    BY <1>15 DEF Listen
  <2>2. QED
    BY <2>1 DEF HttpInv, SuspendedIsSilent
<1>16. CASE UNCHANGED vars
  BY <1>16 DEF vars, HttpInv, SuspendedIsSilent
<1>17. QED
  BY <1>2, <1>3, <1>4, <1>5, <1>6, <1>7, <1>8, <1>9, <1>10, <1>11, <1>12, <1>13, <1>14, <1>15,
     <1>16, TurnKeeps DEF Next

LEMMA HttpStays == Spec => []HttpInv
BY HttpStarts, HttpSteps, PTL DEF Spec

-----------------------------------------------------------------------------
(* What follows.                                                           *)

\* A connection that streams has queued no more than it accepted.
LEMMA QueuedBound ==
  ASSUME NEW s, Sound(s)
  PROVE  s.queued \in 0 .. Pieces
<1>1. /\ Base(s) /\ s.queued \in Nat /\ s.count \in Nat /\ Len(s.x) \in Nat /\ s.count <= Len(s.x)
  BY BaseTypes DEF Sound
<1>2. CASE s.queued = 0
  BY <1>2
<1>3. CASE s.queued # 0
  <2>1. ~s.closing /\ Serving(s)
    BY <1>3 DEF Sound, Ended, Waiting
  <2>2. Flows(s) /\ s.count > 0
    BY <1>3, <2>1 DEF Serving, Asked, Delayed, InPieces, Answered
  <2>3. s.count \in 1 .. Len(s.x) /\ s.x[s.count].live
    BY <1>1, <2>2 DEF Flows
  <2>4. /\ Held(s.x[s.count], s.count, s.count, s.cur, Sent(s.wire, s.count), s.queued)
        /\ s.x[s.count] \in Exchange /\ Sent(s.wire, s.count) \in Nat
    BY <1>1, <2>3, BaseHeld
  <2>5. /\ s.x[s.count].chunks <= Pieces /\ s.x[s.count].chunks \in Nat
        /\ s.x[s.count].chunks = Sent(s.wire, s.count) + s.queued
    BY <2>3, <2>4 DEF Held, Exchange
  <2>6. QED
    BY <1>1, <2>4, <2>5
<1>4. QED
  BY <1>2, <1>3

LEMMA HttpInvTypes == HttpInv => TypeOK
<1> SUFFICES ASSUME HttpInv, NEW c, c \in Conns
             PROVE  LET s == conn[c]
                    IN /\ s.sock \in {"none", "open", "draining", "gone"}
                       /\ s.buffer \in Seq(Input)
                       /\ s.arrived \in 0..Len(s.x) /\ s.count \in 0..s.arrived
                       /\ s.cur \in 0..s.count
                       /\ {s.listed, s.owes, s.parsed, s.keep, s.await, s.closing, s.last, s.idle,
                           s.streaming, s.headSent, s.again, s.late, s.lateHead} \subseteq BOOLEAN
                       /\ s.queued \in 0..Pieces /\ s.left \in 0..Pieces
                       /\ s.x \in Seq(Exchange)
                       /\ s.listed <=> s.sock \in {"open", "draining"}
  BY DEF HttpInv, TypeOK
<1> DEFINE s == conn[c]
<1>1. Sound(s)
  BY DEF HttpInv
<1> HIDE DEF s
<1>2. /\ Base(s) /\ s \in State /\ s.x \in Seq(Exchange) /\ Len(s.x) \in Nat
      /\ s.count \in Nat /\ s.arrived \in Nat /\ s.arrived <= Len(s.x)
      /\ s.count <= s.arrived /\ s.cur \in {0, s.count}
  BY <1>1, BaseTypes DEF Sound
<1>3. s.arrived \in 0..Len(s.x) /\ s.count \in 0..s.arrived /\ s.cur \in 0..s.count
  BY <1>2
<1>4. s.queued \in 0..Pieces
  BY <1>1, QueuedBound
<1>5. /\ s.sock \in {"none", "open", "draining", "gone"} /\ s.buffer \in Seq(Input)
      /\ {s.listed, s.owes, s.parsed, s.keep, s.await, s.closing, s.last, s.idle,
          s.streaming, s.headSent, s.again, s.late, s.lateHead} \subseteq BOOLEAN
      /\ s.left \in 0..Pieces
  BY <1>2 DEF State
<1>6. s.listed <=> s.sock \in {"open", "draining"}
  BY <1>2 DEF Base
<1>7. QED
  BY <1>2, <1>3, <1>4, <1>5, <1>6 DEF s

\* What is served, delayed or half sent keeps its connection from counting as idle.
LEMMA OwedAwaits ==
  ASSUME NEW s, Sound(s), ~s.closing, s.late \/ s.left > 0 \/ \E n \in DOMAIN s.x : s.x[n].live
  PROVE  s.await
<1>1. Base(s) /\ Len(s.x) \in Nat /\ s.left \in 0 .. Pieces /\ s.x \in Seq(Exchange)
  BY BaseTypes DEF Sound
<1>2. CASE s.late \/ s.left > 0
  <2>1. ~Ended(s)
    BY <1>1, <1>2 DEF Ended
  <2>2. QED
    BY <2>1 DEF Sound, Waiting, Serving
<1>3. CASE \E n \in DOMAIN s.x : s.x[n].live
  <2>1. PICK n \in DOMAIN s.x : s.x[n].live
    BY <1>3
  <2>2. n \in 1 .. Len(s.x)
    BY <1>1
  <2>3. QED
    BY <2>1, <2>2, LiveServes
<1>4. QED
  BY <1>2, <1>3

LEMMA SoundKeeps ==
  ASSUME NEW s, Sound(s), NEW n, n \in DOMAIN s.x
  PROVE  /\ s.x[n].live => s.listed /\ s.cur = n
         /\ s.x[n].born => s.x[n].live \/ s.x[n].told \/ s.x[n].responded
         /\ s.x[n].told => ~s.x[n].sent
         /\ s.x[n].streaming /\ s.x[n].live =>
              s.x[n].ok /\ s.x[n].chunks = Sent(s.wire, n) + s.queued
         /\ s.x[n].born /\ s.x[n].responded /\ ~s.x[n].told /\ ~s.x[n].sent =>
              s.x[n].chunks = Sent(s.wire, n)
<1>1. /\ Base(s) /\ s.x \in Seq(Exchange) /\ Len(s.x) \in Nat
  BY BaseTypes DEF Sound
<1>2. n \in 1 .. Len(s.x)
  BY <1>1
<1>3. Held(s.x[n], n, s.count, s.cur, Sent(s.wire, n), s.queued)
  BY <1>1, <1>2, BaseHeld
<1>4. s.x[n].live => s.listed /\ s.cur = n
  <2>1. SUFFICES ASSUME s.x[n].live PROVE s.listed /\ s.cur = n
    OBVIOUS
  <2>2. n = s.count /\ s.cur = s.count /\ s.sock = "open"
    BY <1>2, <2>1, LiveServes
  <2>3. QED
    BY <1>1, <2>2 DEF Base
<1>5. QED
  BY <1>3, <1>4 DEF Held

\* The list, the sockets, the outage flag and the callbacks handed out agree, every
\* request free to be served is coming up, no chunk is lost, every handler that was
\* given a request has answered it or is told that nobody waits, and the idle timer
\* leaves alone whatever is still answered (HttpServer.cpp, HttpTypes.cpp).
THEOREM ExchangesStayConsistent == Spec => []ExchangesConsistent
<1>1. HttpInv => ExchangesConsistent
  <2> SUFFICES ASSUME HttpInv PROVE ExchangesConsistent
    OBVIOUS
  <2>1. \A c \in Conns : Sound(conn[c])
    BY DEF HttpInv
  <2>2. TypeOK
    BY HttpInvTypes
  <2>3. NoDanglingCallback
    BY <2>1, SoundKeeps DEF NoDanglingCallback
  <2>4. NoneStranded
    BY DEF HttpInv, Calm, NoneStranded
  <2>5. SuspendedIsSilent
    BY DEF HttpInv
  <2>6. ToldOrAnswered
    BY <2>1, SoundKeeps DEF ToldOrAnswered
  <2>7. ChunksKept
    <3>1. \A c \in Conns : \A n \in DOMAIN conn[c].x :
            /\ conn[c].x[n].streaming /\ conn[c].x[n].live =>
                 conn[c].x[n].ok /\ conn[c].x[n].chunks = Sent(conn[c].wire, n) + conn[c].queued
            /\ conn[c].x[n].born /\ conn[c].x[n].responded /\ ~conn[c].x[n].told
                 /\ ~conn[c].x[n].sent => conn[c].x[n].chunks = Sent(conn[c].wire, n)
      BY <2>1, SoundKeeps
    <3>2. QED
      BY <3>1 DEF ChunksKept, Sent, Out
  <2>8. AnsweredNotReaped
    BY <2>1, OwedAwaits DEF AnsweredNotReaped
  <2>9. QED
    BY <2>2, <2>3, <2>4, <2>5, <2>6, <2>7, <2>8 DEF ExchangesConsistent
<1>2. QED
  BY <1>1, HttpStays, PTL

\* Whatever is delayed, sent in pieces, streamed or answered late, the answers on a
\* connection go out in the order of its requests, each complete before the next begins,
\* and a stream begins with its head (finishResponse(), flushStreamHead()).
THEOREM AnswersInOrder == Spec => []ResponsesInOrder
<1>1. HttpInv => ResponsesInOrder
  <2> SUFFICES ASSUME HttpInv, NEW c, c \in Conns, NEW i, i \in 1 .. Len(conn[c].wire)
               PROVE  Follows(conn[c], IF i = 1 THEN Bytes(0, 0, TRUE) ELSE conn[c].wire[i - 1],
                              conn[c].wire[i])
    BY DEF ResponsesInOrder
  <2> DEFINE s == conn[c]
             t == Before(s.wire, i)
             u == s.wire[i]
  <2>1. Base(s)
    BY DEF HttpInv, Sound
  <2> HIDE DEF s
  <2>2. i \in 1 .. Len(s.wire)
    BY DEF s
  <2>3. Goes(s.x, t, u)
    BY <2>1, <2>2 DEF Base, Ordered
  <2> HIDE DEF t, u
  <2>4. Follows(s, t, u)
    BY <2>3 DEF Goes, Follows, Settled
  <2>5. QED
    BY <2>4 DEF s, t, u, Before, Nothing
<1>2. QED
  BY <1>1, HttpStays, PTL
=============================================================================
