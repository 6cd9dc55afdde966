----------------------------- MODULE MediaProofs -----------------------------
(***************************************************************************)
(* Theorems about MediaPump, for any tracks, rates, sizes, limits, clocks  *)
(* and switching of quirks: no packet is lost from the accounts, packets   *)
(* and timestamps keep their order, and the rate limit bounds what goes    *)
(* out and how long a queue waits.                                         *)
(***************************************************************************)
EXTENDS MediaPump, SequenceTheorems, WellFoundedInduction, TLAPS

Packet == [k : Nat, size : 1 .. Biggest]
State ==
  [running : BOOLEAN, seq : 0 .. SeqSpace - 1, queue : Seq(Packet), timer : BOOLEAN,
   tokens : Nat, refill : Nat, clock : Nat, sent : Nat, dropped : Nat, stamp : Int,
   last : Int, cleared : Nat, debt : Nat, starving : Nat]

\* What the bucket would hold if it were refilled now, and at most.
Full == Bandwidth * Window
From(s) == IF s.refill = 0 THEN s.clock ELSE s.refill
Paid(s) == s.tokens + (s.clock - From(s)) * Bandwidth
Avail(s) == Least(Paid(s), Full)

\* The accounts of a sender: every packet is sent, dropped, queued or cleared, and what
\* went out and what the bucket would pay for make no more than one full bucket.
Booked(s) ==
  /\ s \in State /\ Len(s.queue) <= MaxQueue
  /\ s.seq = (FirstSeq + Made(s)) % SeqSpace
  /\ s.refill <= s.clock
  /\ s.debt <= Full /\ (s.running => s.debt + Avail(s) <= Full)

\* A sender between two steps.
Fit(s) == Booked(s) /\ (s.queue # <<>> => s.timer) /\ (s.timer => s.running)

\* The queue holds what was made after the packet written last, in its order.
Lined(s) ==
  /\ s.last < Made(s)
  /\ \A i \in 1 .. Len(s.queue) :
       /\ s.last < s.queue[i].k /\ s.queue[i].k < Made(s)
       /\ \A j \in 1 .. i - 1 : s.queue[j].k < s.queue[i].k

\* How long the queue has waited the bucket was filled for, give or take a late timer.
Owed(s) ==
  /\ s.starving <= s.clock /\ (s.queue = <<>> => s.starving = 0)
  /\ IF s.refill = 0 THEN s.queue # <<>> => s.starving <= Late
     ELSE s.starving * Bandwidth
            <= s.tokens + (s.clock - s.refill) * Bandwidth + Late * Bandwidth

\* The queue was served by now: what is left in the bucket does not pay for its head.
Served(s) == s.queue # <<>> => s.tokens < s.queue[1].size /\ s.refill = s.clock

-----------------------------------------------------------------------------
(* The constants.                                                          *)

LEMMA Constants ==
  /\ Bandwidth \in Nat /\ Bandwidth > 0 /\ Window \in Nat /\ Window > 0
  /\ SeqSpace \in Nat /\ SeqSpace > 0 /\ FirstSeq \in Nat /\ MaxQueue \in Nat /\ MaxQueue > 0
  /\ MaxCatchup \in Nat /\ MaxCatchup > 0 /\ Late \in Nat /\ Span \in Nat /\ Span > 0
  /\ QuirkRate \in Nat /\ QuirkRate > 0
  /\ \A t \in Tracks : Rate[t] \in Nat /\ Rate[t] > 0
BY MediaPumpAssumption

LEMMA Sizes ==
  /\ Biggest \in Nat /\ Biggest > 0
  /\ \A n \in Nat : Size[n % 2] \in 1 .. Biggest
<1>1. Size[0] \in Nat \ {0} /\ Size[1] \in Nat \ {0}
  <2>1. Size[0 % 2] \in Nat \ {0} /\ Size[1 % 2] \in Nat \ {0}
    BY MediaPumpAssumption
  <2>2. 0 % 2 = 0 /\ 1 % 2 = 1
    OBVIOUS
  <2>3. QED
    BY <2>1, <2>2
<1>2. Biggest \in Nat /\ Biggest > 0 /\ Size[0] \in 1 .. Biggest /\ Size[1] \in 1 .. Biggest
  BY <1>1 DEF Biggest, Most
<1>3. \A n \in Nat : n % 2 \in {0, 1}
  OBVIOUS
<1>4. QED
  BY <1>2, <1>3

LEMMA FullIs == Full \in Nat /\ Full > 0
<1>1. \A a, b \in Nat : a > 0 /\ b > 0 => a * b \in Nat /\ a * b > 0
  OBVIOUS
<1>2. QED
  BY <1>1, Constants DEF Full

\* The least number of a kind.
LEMMA Smallest ==
  ASSUME NEW S, S \in SUBSET Nat, S # {}
  PROVE  \E n \in S : \A m \in S : n <= m
<1>1. PICK n \in S : \A m \in S : <<m, n>> \notin OpToRel(<, Nat)
  BY WFMin, NatLessThanWellFounded
<1>2. \A m \in S : ~(m < n)
  BY <1>1 DEF OpToRel
<1>3. QED
  BY <1>2

-----------------------------------------------------------------------------
(* The queue of the rate limit.                                            *)

LEMMA PacketIs ==
  ASSUME NEW p, p \in Packet
  PROVE  p.k \in Nat /\ p.size \in Nat /\ p.size > 0 /\ p.size <= Biggest
<1>1. p.k \in Nat /\ p.size \in 1 .. Biggest
  BY DEF Packet
<1>2. QED
  BY <1>1, Sizes

\* The bytes of a queue are counted packet by packet.
LEMMA BytesAre ==
  ASSUME NEW q, q \in Seq(Packet)
  PROVE  /\ Bytes(q)[0] = 0
         /\ \A n \in 1 .. Len(q) : Bytes(q)[n] = Bytes(q)[n - 1] + q[n].size
<1> DEFINE L == Len(q)
           B(f, k) == IF k = 0 THEN 0 ELSE f[k - 1] + q[k].size
           G == CHOOSE g : g = [n \in 0 .. L |-> IF n = 0 THEN 0 ELSE g[n - 1] + q[n].size]
<1>1. L \in Nat /\ L = Len(q)
  OBVIOUS
<1> HIDE DEF L
<1>2. \A n \in 0 .. L : \E f : f = [k \in 0 .. n |-> B(f, k)]
  <2> DEFINE S == {n \in 0 .. L : ~ \E f : f = [k \in 0 .. n |-> B(f, k)]}
  <2>1. SUFFICES ASSUME S # {} PROVE FALSE
    OBVIOUS
  <2>2. S \in SUBSET Nat
    BY <1>1
  <2>3. PICK n \in S : \A m \in S : n <= m
    <3> HIDE DEF S
    <3>1. QED
      BY <2>1, <2>2, Smallest
  <2>4. CASE n = 0
    <3> DEFINE f == [k \in 0 .. 0 |-> 0]
    <3>1. f = [k \in 0 .. 0 |-> B(f, k)]
      OBVIOUS
    <3>2. QED
      BY <2>3, <2>4, <3>1
  <2>5. CASE n # 0
    <3>1. n \in 1 .. L /\ n - 1 \in 0 .. L /\ n - 1 \notin S
      <4>1. n \in 0 .. L
        BY <2>3
      <4> HIDE DEF S
      <4>2. QED
        BY <1>1, <2>2, <2>3, <2>5, <4>1
    <3>2. PICK f : f = [k \in 0 .. n - 1 |-> B(f, k)]
      BY <3>1
    <3> DEFINE g == [k \in 0 .. n |-> IF k = n THEN B(f, n) ELSE f[k]]
    <3>3. \A k \in 0 .. n : g[k] = B(g, k)
      <4> SUFFICES ASSUME NEW k \in 0 .. n PROVE g[k] = B(g, k)
        OBVIOUS
      <4>1. CASE k = n
        <5>1. g[k - 1] = f[k - 1]
          BY <3>1, <4>1
        <5>2. QED
          BY <3>1, <4>1, <5>1
      <4>2. CASE k # n
        <5>1. k \in 0 .. n - 1 /\ g[k] = f[k]
          BY <1>1, <3>1, <4>2
        <5>4. k # 0 => g[k - 1] = f[k - 1]
          <6>1. k # 0 => k - 1 \in 0 .. n /\ k - 1 # n
            BY <1>1, <3>1, <4>2
          <6>2. QED
            BY <6>1
        <5>2. f[k] = B(f, k)
          BY <3>2, <5>1
        <5>3. QED
          BY <5>1, <5>2, <5>4
      <4>3. QED
        BY <4>1, <4>2
    <3>4. g = [k \in 0 .. n |-> B(g, k)]
      <4>1. g = [k \in 0 .. n |-> g[k]]
        OBVIOUS
      <4> HIDE DEF g
      <4>2. QED
        BY <3>3, <4>1
    <3>5. QED
      BY <2>3, <3>4
  <2>6. QED
    BY <2>4, <2>5
<1>3. G = [k \in 0 .. L |-> B(G, k)]
  <2>1. \E g : g = [n \in 0 .. L |-> IF n = 0 THEN 0 ELSE g[n - 1] + q[n].size]
    BY <1>1, <1>2
  <2>2. QED
    BY <2>1
<1>4. Bytes(q) = G
  BY <1>1 DEF Bytes
<1> HIDE DEF G
<1>5. \A k \in 0 .. L : G[k] = B(G, k)
  BY <1>3
<1>6. G[0] = 0 /\ \A n \in 1 .. L : G[n] = G[n - 1] + q[n].size
  BY <1>1, <1>5
<1>7. QED
  BY <1>1, <1>4, <1>6

LEMMA BytesTyped ==
  ASSUME NEW q, q \in Seq(Packet)
  PROVE  \A n \in 0 .. Len(q) : Bytes(q)[n] \in Nat
<1> DEFINE S == {n \in 0 .. Len(q) : Bytes(q)[n] \notin Nat}
<1>1. Len(q) \in Nat /\ \A n \in 1 .. Len(q) : q[n].size \in Nat
  <2>1. \A n \in 1 .. Len(q) : q[n] \in Packet
    OBVIOUS
  <2>2. QED
    BY <2>1, PacketIs
<1>2. SUFFICES ASSUME S # {} PROVE FALSE
  OBVIOUS
<1>3. S \in SUBSET Nat
  BY <1>1
<1>4. PICK n \in S : \A m \in S : n <= m
  <2> HIDE DEF S
  <2>1. QED
    BY <1>2, <1>3, Smallest
<1>5. n \in 0 .. Len(q) /\ n # 0 /\ Bytes(q)[n] \notin Nat
  BY BytesAre
<1>6. n - 1 \in 0 .. Len(q) /\ n \in 1 .. Len(q) /\ n - 1 \notin S
  <2> HIDE DEF S
  <2>1. QED
    BY <1>1, <1>3, <1>4, <1>5
<1>7. Bytes(q)[n] = Bytes(q)[n - 1] + q[n].size
  BY <1>6, BytesAre
<1>8. Bytes(q)[n - 1] \in Nat /\ q[n].size \in Nat
  BY <1>1, <1>6
<1>9. \A a, b \in Nat : a + b \in Nat
  OBVIOUS
<1>10. QED
  BY <1>5, <1>7, <1>8, <1>9

\* However much the bucket holds, it pays for some packets and not for the next.
LEMMA Affordable ==
  ASSUME NEW q, q \in Seq(Packet), NEW tokens, tokens \in Nat
  PROVE  \E m \in 0 .. Len(q) :
           Bytes(q)[m] <= tokens /\ (m < Len(q) => Bytes(q)[m + 1] > tokens)
<1> DEFINE S == {n \in 0 .. Len(q) : n = Len(q) \/ Bytes(q)[n + 1] > tokens}
<1>1. Len(q) \in Nat /\ Bytes(q)[0] = 0 /\ \A n \in 0 .. Len(q) : Bytes(q)[n] \in Nat
  BY BytesAre, BytesTyped
<1>2. Len(q) \in S /\ S \in SUBSET Nat
  BY <1>1
<1>3. PICK m \in S : \A n \in S : m <= n
  <2> HIDE DEF S
  <2>1. QED
    BY <1>2, Smallest
<1>4. m \in 0 .. Len(q) /\ (m < Len(q) => Bytes(q)[m + 1] > tokens)
  BY <1>1
<1>5. Bytes(q)[m] <= tokens
  <2>1. CASE m = 0
    BY <1>1, <2>1
  <2>2. CASE m # 0
    <3>1. m - 1 \in 0 .. Len(q) /\ m - 1 \notin S
      <4> HIDE DEF S
      <4>1. QED
        BY <1>1, <1>2, <1>3, <1>4, <2>2
    <3>2. m - 1 # Len(q) /\ ~(Bytes(q)[(m - 1) + 1] > tokens) /\ (m - 1) + 1 = m
      BY <1>1, <1>4, <3>1
    <3>3. Bytes(q)[m] \in Nat
      BY <1>1, <1>4
    <3>4. QED
      BY <3>2, <3>3
  <2>3. QED
    BY <2>1, <2>2
<1>6. QED
  BY <1>4, <1>5

\* The rest of a queue, and the part before it.
LEMMA Parts ==
  ASSUME NEW q, q \in Seq(Packet), NEW m, m \in 0 .. Len(q)
  PROVE  /\ Len(q) \in Nat /\ SubSeq(q, m + 1, Len(q)) \in Seq(Packet)
         /\ Len(SubSeq(q, m + 1, Len(q))) = Len(q) - m
         /\ \A i \in 1 .. Len(q) - m : SubSeq(q, m + 1, Len(q))[i] = q[m + i]
         /\ SubSeq(q, 1, m) \in Seq(Packet) /\ Len(SubSeq(q, 1, m)) = m
         /\ m > 0 => Last(SubSeq(q, 1, m)) = q[m]
<1>1. Len(q) \in Nat /\ \A i \in 1 .. Len(q) : q[i] \in Packet
  OBVIOUS
<1>2. m \in Int /\ m + 1 \in Int /\ Len(q) \in Int /\ 1 \in Int
  BY <1>1
<1>3. (\A i \in m + 1 .. Len(q) : q[i] \in Packet) /\ (\A i \in 1 .. m : q[i] \in Packet)
  BY <1>1
<1> DEFINE u == SubSeq(q, m + 1, Len(q))
           v == SubSeq(q, 1, m)
<1>4. /\ u \in Seq(Packet)
      /\ Len(u) = (IF m + 1 <= Len(q) THEN Len(q) - (m + 1) + 1 ELSE 0)
      /\ \A i \in 1 .. Len(q) - (m + 1) + 1 : u[i] = q[(m + 1) + i - 1]
  BY <1>2, <1>3, SubSeqProperties
<1>5. /\ v \in Seq(Packet)
      /\ Len(v) = (IF 1 <= m THEN m - 1 + 1 ELSE 0)
      /\ \A i \in 1 .. m - 1 + 1 : v[i] = q[1 + i - 1]
  BY <1>2, <1>3, SubSeqProperties
<1> HIDE DEF u, v
<1>6. Len(u) = Len(q) - m /\ \A i \in 1 .. Len(q) - m : u[i] = q[m + i]
  <2>1. Len(u) = Len(q) - m
    BY <1>1, <1>4
  <2>2. \A i \in 1 .. Len(q) - m : i \in 1 .. Len(q) - (m + 1) + 1 /\ (m + 1) + i - 1 = m + i
    BY <1>1
  <2>3. QED
    BY <1>4, <2>1, <2>2
<1>7. Len(v) = m
  BY <1>1, <1>5
<1>8. m > 0 => Last(v) = q[m]
  <2>1. m > 0 => m \in 1 .. m - 1 + 1 /\ 1 + m - 1 = m
    BY <1>1
  <2>2. QED
    BY <1>5, <1>7, <2>1 DEF Last
<1>9. QED
  BY <1>1, <1>4, <1>5, <1>6, <1>7, <1>8 DEF u, v

\* writeRtp(): what is written or, on a choked connection, dropped.
LEMMA WriteIs ==
  ASSUME NEW s, s \in State, NEW q, q \in Seq(Packet), q # <<>>
  PROVE  /\ WriteRtp(s, q) \in State /\ WriteRtp(s, q).starving = 0
         /\ WriteRtp(s, q).running = s.running /\ WriteRtp(s, q).seq = s.seq
         /\ WriteRtp(s, q).queue = s.queue /\ WriteRtp(s, q).timer = s.timer
         /\ WriteRtp(s, q).tokens = s.tokens /\ WriteRtp(s, q).refill = s.refill
         /\ WriteRtp(s, q).clock = s.clock /\ WriteRtp(s, q).stamp = s.stamp
         /\ WriteRtp(s, q).cleared = s.cleared /\ WriteRtp(s, q).debt = s.debt
         /\ WriteRtp(s, q).sent + WriteRtp(s, q).dropped = s.sent + s.dropped + Len(q)
         /\ WriteRtp(s, q).last \in {s.last, Last(q).k}
<1>1. Len(q) \in Nat /\ Len(q) \in 1 .. Len(q) /\ Last(q) \in Packet
  BY DEF Last
<1>2. Last(q).k \in Nat
  BY <1>1, PacketIs
<1> DEFINE a == s.dropped + Len(q)
           b == s.sent + Len(q)
           l == Last(q).k
<1>3. /\ s.sent \in Nat /\ s.dropped \in Nat /\ a \in Nat /\ b \in Nat /\ l \in Int
      /\ a = s.dropped + Len(q) /\ b = s.sent + Len(q)
  BY <1>1, <1>2 DEF State
<1>4. WriteRtp(s, q) = IF choked THEN [s EXCEPT !.dropped = a, !.starving = 0]
                       ELSE [s EXCEPT !.sent = b, !.last = l, !.starving = 0]
  BY DEF WriteRtp
<1>5. l = Last(q).k
  OBVIOUS
<1> HIDE DEF a, b, l
<1>9. s.sent + a = s.sent + s.dropped + Len(q) /\ b + s.dropped = s.sent + s.dropped + Len(q)
  BY <1>1, <1>3
<1>6. CASE choked
  <2> DEFINE r == [s EXCEPT !.dropped = a, !.starving = 0]
  <2>1. /\ r \in State /\ r.starving = 0 /\ r.running = s.running /\ r.seq = s.seq
        /\ r.queue = s.queue /\ r.timer = s.timer /\ r.tokens = s.tokens /\ r.refill = s.refill
        /\ r.clock = s.clock /\ r.stamp = s.stamp /\ r.cleared = s.cleared /\ r.debt = s.debt
        /\ r.sent = s.sent /\ r.dropped = a /\ r.last = s.last
    BY <1>3 DEF State
  <2>2. WriteRtp(s, q) = r
    BY <1>4, <1>6
  <2> HIDE DEF r
  <2>3. QED
    BY <1>9, <2>1, <2>2
<1>7. CASE ~choked
  <2> DEFINE r == [s EXCEPT !.sent = b, !.last = l, !.starving = 0]
  <2>1. /\ r \in State /\ r.starving = 0 /\ r.running = s.running /\ r.seq = s.seq
        /\ r.queue = s.queue /\ r.timer = s.timer /\ r.tokens = s.tokens /\ r.refill = s.refill
        /\ r.clock = s.clock /\ r.stamp = s.stamp /\ r.cleared = s.cleared /\ r.debt = s.debt
        /\ r.sent = b /\ r.dropped = s.dropped /\ r.last = l
    BY <1>3 DEF State
  <2>2. WriteRtp(s, q) = r
    BY <1>4, <1>7
  <2> HIDE DEF r
  <2>3. QED
    BY <1>5, <1>9, <2>1, <2>2
<1>8. QED
  BY <1>6, <1>7

LEMMA AvailIs ==
  ASSUME NEW s, s \in State, s.refill <= s.clock
  PROVE  /\ Paid(s) \in Nat /\ Avail(s) \in Nat /\ Avail(s) <= Full /\ Avail(s) <= Paid(s)
         /\ Avail(s) = Full \/ Avail(s) = Paid(s)
<1>1. s.tokens \in Nat /\ s.clock - From(s) \in Nat
  BY DEF State, From
<1>2. \A a, b \in Nat : a * b \in Nat
  OBVIOUS
<1>3. (s.clock - From(s)) * Bandwidth \in Nat
  BY <1>1, <1>2, Constants
<1>4. Paid(s) \in Nat
  BY <1>1, <1>3 DEF Paid
<1>5. QED
  BY <1>4, FullIs DEF Avail, Least

\* drainQueue() let m packets go.
Drained(s, r, m) ==
  /\ m \in 0 .. Len(s.queue) /\ r \in State
  /\ r.running = s.running /\ r.seq = s.seq /\ r.timer = s.timer /\ r.clock = s.clock
  /\ r.stamp = s.stamp /\ r.cleared = s.cleared /\ r.refill = s.clock
  /\ Len(r.queue) = Len(s.queue) - m
  /\ \A i \in 1 .. Len(s.queue) - m : r.queue[i] = s.queue[m + i]
  /\ r.tokens + r.debt = Avail(s) + s.debt /\ r.debt >= s.debt
  /\ m < Len(s.queue) => r.tokens < s.queue[m + 1].size
  /\ r.sent + r.dropped = s.sent + s.dropped + m
  /\ IF m = 0 THEN r.debt = s.debt /\ r.starving = s.starving /\ r.last = s.last
     ELSE r.starving = 0 /\ r.last \in {s.last, s.queue[m].k}

LEMMA DrainIs ==
  ASSUME NEW s, s \in State, s.queue # <<>>, s.refill <= s.clock
  PROVE  \E m \in Nat : Drained(s, DrainQueue(s), m)
<1> DEFINE q == s.queue
           bytes == Bytes(q)
           tokens == Avail(s)
           m == CHOOSE m \in 0..Len(q) : bytes[m] <= tokens /\ (m < Len(q) => bytes[m + 1] > tokens)
           a == tokens - bytes[m]
           b == s.debt + bytes[m]
           rest == SubSeq(q, m + 1, Len(q))
           out == SubSeq(q, 1, m)
           z == [s EXCEPT !.refill = s.clock, !.tokens = a, !.queue = rest, !.debt = b]
           r == WriteRtp(z, out)
<1>1. /\ q \in Seq(Packet) /\ s.debt \in Nat /\ s.clock \in Nat /\ s.sent \in Nat
      /\ s.dropped \in Nat /\ Len(q) \in Nat
  BY DEF State
<1>2. tokens \in Nat
  BY AvailIs
<1>3. m \in 0..Len(q) /\ bytes[m] <= tokens /\ (m < Len(q) => bytes[m + 1] > tokens)
  <2>1. \E n \in 0 .. Len(q) : bytes[n] <= tokens /\ (n < Len(q) => bytes[n + 1] > tokens)
    BY <1>1, <1>2, Affordable
  <2> HIDE DEF bytes, tokens, q
  <2>2. QED
    BY <2>1
<1>4. DrainQueue(s) = r
  BY DEF DrainQueue, Avail, Paid, Full, From
<1>5. /\ bytes[m] \in Nat /\ bytes[0] = 0
      /\ m < Len(q) => /\ bytes[m + 1] \in Nat /\ bytes[m + 1] = bytes[m] + q[m + 1].size
                       /\ q[m + 1].size \in Nat
  <2> HIDE DEF m
  <2>1. bytes[m] \in Nat /\ bytes[0] = 0
    BY <1>1, <1>3, BytesAre, BytesTyped
  <2>2. m < Len(q) => /\ bytes[m + 1] \in Nat /\ bytes[m + 1] = bytes[m] + q[m + 1].size
                      /\ q[m + 1].size \in Nat
    <3>1. SUFFICES ASSUME m < Len(q)
                   PROVE  /\ bytes[m + 1] \in Nat /\ bytes[m + 1] = bytes[m] + q[m + 1].size
                          /\ q[m + 1].size \in Nat
      OBVIOUS
    <3>2. m + 1 \in 1 .. Len(q) /\ (m + 1) - 1 = m /\ m + 1 \in 0 .. Len(q)
      BY <1>1, <1>3, <3>1
    <3>3. bytes[m + 1] \in Nat
      BY <1>1, <3>2, BytesTyped
    <3>4. bytes[m + 1] = bytes[(m + 1) - 1] + q[m + 1].size
      BY <1>1, <3>2, BytesAre
    <3>5. q[m + 1] \in Packet
      BY <1>1, <3>2
    <3>6. QED
      BY <3>2, <3>3, <3>4, <3>5, PacketIs
  <2>3. QED
    BY <2>1, <2>2
<1>6. /\ rest \in Seq(Packet) /\ Len(rest) = Len(q) - m
      /\ \A i \in 1 .. Len(q) - m : rest[i] = q[m + i]
      /\ out \in Seq(Packet) /\ Len(out) = m
      /\ m > 0 => Last(out) = q[m]
  <2> HIDE DEF m, q
  <2>1. q \in Seq(Packet) /\ m \in 0 .. Len(q)
    BY <1>1, <1>3
  <2>2. QED
    BY <2>1, Parts
<1> HIDE DEF bytes, m, tokens
<1>7. /\ a \in Nat /\ b \in Nat /\ a + b = tokens + s.debt /\ b >= s.debt
      /\ m < Len(q) => a < q[m + 1].size
      /\ m = 0 => b = s.debt
  <2> DEFINE c == bytes[m]
  <2>1. c \in Nat /\ c <= tokens /\ (m = 0 => c = 0)
    BY <1>3, <1>5
  <2>2. m < Len(q) => q[m + 1].size \in Nat /\ c + q[m + 1].size > tokens
    BY <1>3, <1>5
  <2>3. a = tokens - c /\ b = s.debt + c
    OBVIOUS
  <2> HIDE DEF c, a, b
  <2>4. a \in Nat /\ b \in Nat /\ a + b = tokens + s.debt /\ b >= s.debt
    BY <1>1, <1>2, <2>1, <2>3
  <2>5. m < Len(q) => a < q[m + 1].size
    BY <1>2, <2>1, <2>2, <2>3
  <2>6. m = 0 => b = s.debt
    BY <1>1, <2>1, <2>3
  <2>7. QED
    BY <2>4, <2>5, <2>6
<1> HIDE DEF a, b, rest, out
<1>8. /\ z \in State /\ z.running = s.running /\ z.seq = s.seq /\ z.timer = s.timer
      /\ z.clock = s.clock /\ z.stamp = s.stamp /\ z.cleared = s.cleared
      /\ z.refill = s.clock /\ z.queue = rest /\ z.tokens = a /\ z.debt = b
      /\ z.sent = s.sent /\ z.dropped = s.dropped /\ z.last = s.last
      /\ z.starving = s.starving
  BY <1>1, <1>6, <1>7 DEF State
<1> HIDE DEF z
<1>9. /\ r \in State /\ r.running = s.running /\ r.seq = s.seq /\ r.timer = s.timer
      /\ r.clock = s.clock /\ r.stamp = s.stamp /\ r.cleared = s.cleared
      /\ r.refill = s.clock /\ r.queue = rest /\ r.tokens = a /\ r.debt = b
      /\ r.sent + r.dropped = s.sent + s.dropped + m
      /\ IF m = 0 THEN r.starving = s.starving /\ r.last = s.last
         ELSE r.starving = 0 /\ r.last \in {s.last, q[m].k}
  <2>1. CASE m = 0
    <3>1. out = <<>>
      BY <1>6, <2>1
    <3>2. r = z
      BY <3>1 DEF WriteRtp
    <3>3. QED
      BY <1>1, <1>8, <2>1, <3>2
  <2>2. CASE m # 0
    <3>1. out # <<>> /\ m > 0
      BY <1>1, <1>3, <1>6, <2>2
    <3>2. /\ r \in State /\ r.starving = 0 /\ r.running = z.running /\ r.seq = z.seq
          /\ r.queue = z.queue /\ r.timer = z.timer /\ r.tokens = z.tokens /\ r.refill = z.refill
          /\ r.clock = z.clock /\ r.stamp = z.stamp /\ r.cleared = z.cleared /\ r.debt = z.debt
          /\ r.sent + r.dropped = z.sent + z.dropped + Len(out)
          /\ r.last \in {z.last, Last(out).k}
      BY <1>6, <1>8, <3>1, WriteIs
    <3> HIDE DEF r
    <3>3. QED
      BY <1>6, <1>8, <2>2, <3>1, <3>2
  <2>3. QED
    BY <2>1, <2>2
<1> HIDE DEF r
<1>10. Drained(s, r, m)
  BY <1>3, <1>6, <1>7, <1>9 DEF Drained, tokens
<1>11. m \in Nat
  BY <1>1, <1>3
<1>12. QED
  BY <1>4, <1>10, <1>11

LEMMA DrainKeeps ==
  ASSUME NEW s, s \in State, NEW r, NEW m, Drained(s, r, m)
  PROVE  Made(r) = Made(s)
<1>1. /\ r \in State /\ m \in 0 .. Len(s.queue) /\ Len(r.queue) = Len(s.queue) - m
      /\ r.sent + r.dropped = s.sent + s.dropped + m /\ r.cleared = s.cleared
  BY DEF Drained
<1>2. /\ s.sent \in Nat /\ s.dropped \in Nat /\ s.cleared \in Nat /\ r.sent \in Nat
      /\ r.dropped \in Nat /\ Len(s.queue) \in Nat
  BY <1>1 DEF State
<1>3. m \in Nat
  BY <1>1, <1>2
<1> DEFINE rs == r.sent  rd == r.dropped  ss == s.sent  sd == s.dropped  c == s.cleared
           n == Len(s.queue)
<1>4. /\ rs \in Nat /\ rd \in Nat /\ ss \in Nat /\ sd \in Nat /\ c \in Nat /\ n \in Nat
      /\ rs + rd = ss + sd + m
  BY <1>1, <1>2
<1>5. Made(r) = rs + rd + c + (n - m) /\ Made(s) = ss + sd + c + n
  BY <1>1 DEF Made
<1> HIDE DEF rs, rd, ss, sd, c, n
<1>6. rs + rd + c + (n - m) = ss + sd + c + n
  BY <1>3, <1>4
<1>7. QED
  BY <1>5, <1>6

LEMMA DrainBooks ==
  ASSUME NEW s, Booked(s), s.running, NEW r, NEW m, Drained(s, r, m)
  PROVE  Booked(r)
<1>1. /\ s \in State /\ r \in State /\ m \in 0 .. Len(s.queue) /\ Len(s.queue) \in Nat
      /\ Len(r.queue) = Len(s.queue) - m /\ s.refill <= s.clock
  BY DEF Booked, Drained, State
<1>2. /\ s.sent \in Nat /\ s.dropped \in Nat /\ s.cleared \in Nat /\ r.sent \in Nat
      /\ r.dropped \in Nat /\ r.tokens \in Nat /\ r.debt \in Nat /\ s.debt \in Nat
      /\ r.clock \in Nat
  BY <1>1 DEF State
<1>3. Made(r) = Made(s)
  BY <1>1, DrainKeeps
<1>4. Len(r.queue) <= MaxQueue
  BY <1>1, Constants DEF Booked
<1>5. From(r) = r.clock /\ r.refill <= r.clock
  BY <1>2 DEF From, Drained
<1>6. Paid(r) = r.tokens
  <2>1. r.clock - r.clock = 0 /\ 0 * Bandwidth = 0
    BY <1>2, Constants
  <2>2. QED
    BY <1>2, <1>5, <2>1 DEF Paid
<1>7. r.tokens + r.debt <= Full
  <2>1. r.tokens + r.debt = Avail(s) + s.debt
    BY DEF Drained
  <2>2. s.debt + Avail(s) <= Full /\ Avail(s) \in Nat
    BY <1>1, AvailIs DEF Booked
  <2>3. QED
    BY <1>2, <2>1, <2>2, FullIs
<1>8. Avail(r) \in Nat /\ Avail(r) <= r.tokens
  BY <1>1, <1>5, <1>6, AvailIs
<1>9. r.debt + Avail(r) <= Full /\ r.debt <= Full
  BY <1>2, <1>7, <1>8, FullIs
<1>10. r.seq = (FirstSeq + Made(r)) % SeqSpace
  BY <1>3 DEF Booked, Drained
<1>11. QED
  BY <1>1, <1>4, <1>5, <1>9, <1>10 DEF Booked

LEMMA MadeIs ==
  ASSUME NEW s, s \in State
  PROVE  Made(s) \in Nat /\ Len(s.queue) \in Nat /\ s.last \in Int
         /\ \A i \in 1 .. Len(s.queue) : s.queue[i] \in Packet /\ s.queue[i].k \in Nat
<1>1. /\ s.sent \in Nat /\ s.dropped \in Nat /\ s.cleared \in Nat /\ s.queue \in Seq(Packet)
      /\ s.last \in Int
  BY DEF State
<1>2. Len(s.queue) \in Nat /\ \A i \in 1 .. Len(s.queue) : s.queue[i] \in Packet
  BY <1>1
<1>3. \A i \in 1 .. Len(s.queue) : s.queue[i].k \in Nat
  BY <1>2, PacketIs
<1>4. Made(s) \in Nat
  <2> DEFINE a == s.sent b == s.dropped c == s.cleared n == Len(s.queue)
  <2>1. a \in Nat /\ b \in Nat /\ c \in Nat /\ n \in Nat
    BY <1>1, <1>2
  <2>2. Made(s) = a + b + c + n
    BY DEF Made
  <2> HIDE DEF a, b, c, n
  <2>3. QED
    BY <2>1, <2>2
<1>5. QED
  BY <1>1, <1>2, <1>3, <1>4

\* What leaves the queue leaves it in its order.
LEMMA DrainLines ==
  ASSUME NEW s, s \in State, Lined(s), NEW r, NEW m, Drained(s, r, m)
  PROVE  Lined(r) /\ r.last >= s.last
<1>1. /\ r \in State /\ m \in 0 .. Len(s.queue) /\ Len(s.queue) \in Nat
      /\ Len(r.queue) = Len(s.queue) - m
      /\ \A i \in 1 .. Len(s.queue) - m : r.queue[i] = s.queue[m + i]
  BY DEF Drained, State
<1>2. /\ s.sent \in Nat /\ s.dropped \in Nat /\ s.cleared \in Nat /\ r.sent \in Nat
      /\ r.dropped \in Nat
  BY <1>1 DEF State
<1>3. Made(r) = Made(s)
  BY DrainKeeps
<1>4. /\ Made(s) \in Nat /\ s.last \in Int /\ r.last \in Int
      /\ \A i \in 1 .. Len(s.queue) : s.queue[i].k \in Nat
  BY <1>1, MadeIs
<1>5. /\ s.last < Made(s)
      /\ \A i \in 1 .. Len(s.queue) :
           /\ s.last < s.queue[i].k /\ s.queue[i].k < Made(s)
           /\ \A j \in 1 .. i - 1 : s.queue[j].k < s.queue[i].k
  BY DEF Lined
<1>6. r.last = s.last \/ (m \in 1 .. Len(s.queue) /\ r.last = s.queue[m].k)
  BY <1>1 DEF Drained
<1>7. r.last >= s.last /\ r.last < Made(r)
  BY <1>3, <1>4, <1>5, <1>6
<1>8. ASSUME NEW i, i \in 1 .. Len(r.queue)
      PROVE  /\ r.last < r.queue[i].k /\ r.queue[i].k < Made(r)
             /\ \A j \in 1 .. i - 1 : r.queue[j].k < r.queue[i].k
  <2>1. i \in Nat /\ i \in 1 .. Len(s.queue) - m /\ m + i \in 1 .. Len(s.queue)
    BY <1>1, <1>8
  <2>2. r.queue[i] = s.queue[m + i]
    BY <1>1, <2>1
  <2>3. s.last < s.queue[m + i].k /\ s.queue[m + i].k < Made(s)
    BY <1>5, <2>1
  <2>4. \A j \in 1 .. (m + i) - 1 : s.queue[j].k < s.queue[m + i].k
    BY <1>5, <2>1
  <2>5. r.last < r.queue[i].k
    <3>1. m \in 1 .. Len(s.queue) => m \in 1 .. (m + i) - 1
      BY <1>1, <2>1
    <3>2. QED
      BY <1>6, <2>2, <2>3, <2>4, <3>1
  <2>6. ASSUME NEW j, j \in 1 .. i - 1 PROVE r.queue[j].k < r.queue[i].k
    <3>1. j \in 1 .. Len(s.queue) - m /\ m + j \in 1 .. (m + i) - 1
      BY <1>1, <2>1, <2>6
    <3>2. r.queue[j] = s.queue[m + j]
      BY <1>1, <3>1
    <3>3. QED
      BY <2>2, <2>4, <3>1, <3>2
  <2>7. QED
    BY <1>3, <2>2, <2>3, <2>5, <2>6
<1>9. QED
  BY <1>7, <1>8 DEF Lined

LEMMA TimesMore ==
  ASSUME NEW a, a \in Nat, NEW b, b \in Nat, a <= b
  PROVE  a * Bandwidth <= b * Bandwidth
<1>1. b - a \in Nat /\ b = a + (b - a)
  OBVIOUS
<1>2. b * Bandwidth = a * Bandwidth + (b - a) * Bandwidth
  BY <1>1, Constants
<1>3. (b - a) * Bandwidth \in Nat /\ a * Bandwidth \in Nat
  <2>1. \A x, y \in Nat : x * y \in Nat
    OBVIOUS
  <2>2. QED
    BY <1>1, <2>1, Constants
<1>4. QED
  BY <1>2, <1>3

\* And the bucket pays as long as it can hold what the biggest packet costs.
LEMMA DrainOwes ==
  ASSUME NEW s, s \in State, s.refill <= s.clock, Owed(s), Biggest <= Full,
         NEW r, NEW m, Drained(s, r, m)
  PROVE  Owed(r) /\ Served(r)
<1>1. /\ r \in State /\ m \in 0 .. Len(s.queue) /\ Len(s.queue) \in Nat
      /\ Len(r.queue) = Len(s.queue) - m /\ r.clock = s.clock /\ r.refill = s.clock
      /\ \A i \in 1 .. Len(s.queue) - m : r.queue[i] = s.queue[m + i]
      /\ m < Len(s.queue) => r.tokens < s.queue[m + 1].size
  BY DEF Drained, State
<1>2. /\ s.tokens \in Nat /\ s.refill \in Nat /\ s.clock \in Nat /\ s.starving \in Nat
      /\ r.tokens \in Nat /\ r.debt \in Nat /\ s.debt \in Nat /\ s.queue \in Seq(Packet)
      /\ r.queue \in Seq(Packet) /\ Bandwidth \in Nat /\ Late \in Nat
  BY <1>1, Constants DEF State
<1>3. Served(r)
  <2>1. SUFFICES ASSUME r.queue # <<>> PROVE r.tokens < r.queue[1].size
    BY <1>1 DEF Served
  <2>2. Len(r.queue) \in Nat /\ Len(r.queue) # 0
    BY <1>2, <2>1
  <2>3. m < Len(s.queue) /\ 1 \in 1 .. Len(s.queue) - m
    BY <1>1, <2>2
  <2>4. r.queue[1] = s.queue[m + 1]
    BY <1>1, <2>3
  <2>5. QED
    BY <1>1, <2>3, <2>4
<1>4. CASE m # 0
  <2>1. r.starving = 0
    BY <1>4 DEF Drained
  <2>2. 0 * Bandwidth = 0 /\ r.clock - r.refill = 0 /\ Late * Bandwidth \in Nat
    <3>1. \A x, y \in Nat : x * y \in Nat
      OBVIOUS
    <3>2. QED
      BY <1>1, <1>2, <3>1
  <2>3. 0 <= r.tokens + 0 + Late * Bandwidth
    BY <1>2, <2>2
  <2>4. QED
    BY <1>1, <1>2, <1>3, <2>1, <2>2, <2>3 DEF Owed
<1>5. CASE m = 0
  <2>1. r.starving = s.starving /\ r.debt = s.debt /\ r.tokens + r.debt = Avail(s) + s.debt
    BY <1>5 DEF Drained
  <2>2. Avail(s) \in Nat /\ Paid(s) \in Nat /\ (Avail(s) = Full \/ Avail(s) = Paid(s))
    BY AvailIs
  <2>3. r.tokens = Avail(s)
    BY <1>2, <2>1, <2>2
  <2>4. CASE s.queue = <<>>
    <3>1. Len(r.queue) = 0
      BY <1>1, <1>5, <2>4
    <3>2. r.queue = <<>> /\ r.starving = 0
      BY <1>2, <2>1, <2>4, <3>1 DEF Owed
    <3>3. 0 * Bandwidth = 0 /\ r.clock - r.refill = 0 /\ Late * Bandwidth \in Nat
      <4>1. \A x, y \in Nat : x * y \in Nat
        OBVIOUS
      <4>2. QED
        BY <1>1, <1>2, <4>1
    <3>4. 0 <= r.tokens + 0 + Late * Bandwidth
      BY <1>2, <3>3
    <3>5. QED
      BY <1>1, <1>2, <1>3, <3>2, <3>3, <3>4 DEF Owed
  <2>5. CASE s.queue # <<>>
    <3>1. Len(s.queue) # 0
      BY <1>2, <2>5
    <3>2. m < Len(s.queue) /\ 1 \in 1 .. Len(s.queue) /\ m + 1 = 1
      BY <1>1, <1>5, <3>1
    <3>3. s.queue[1] \in Packet
      BY <1>2, <3>2
    <3>4. r.tokens < s.queue[1].size /\ s.queue[1].size \in Nat /\ s.queue[1].size <= Biggest
      BY <1>1, <3>2, <3>3, PacketIs
    <3>5. r.tokens < Full
      BY <1>2, <3>4, FullIs, Sizes
    <3>6. r.tokens = Paid(s)
      BY <1>2, <2>2, <2>3, <3>5, FullIs
    <3>7. r.clock - r.refill = 0 /\ 0 * Bandwidth = 0 /\ Late * Bandwidth \in Nat
      <4>1. \A x, y \in Nat : x * y \in Nat
        OBVIOUS
      <4>2. QED
        BY <1>1, <1>2, <4>1
    <3>8. r.starving * Bandwidth <= r.tokens + Late * Bandwidth
      <4>1. CASE s.refill = 0
        <5>1. s.starving <= Late
          BY <2>5, <4>1 DEF Owed
        <5>2. s.starving * Bandwidth <= Late * Bandwidth /\ s.starving * Bandwidth \in Nat
          <6>1. \A x, y \in Nat : x * y \in Nat
            OBVIOUS
          <6>2. QED
            BY <1>2, <5>1, <6>1, TimesMore
        <5>3. QED
          BY <1>2, <2>1, <3>7, <5>2
      <4>2. CASE s.refill # 0
        BY <2>1, <3>6, <4>2 DEF Owed, Paid, From
      <4>3. QED
        BY <4>1, <4>2
    <3>9. r.clock = 0 => r.starving <= Late
      BY <1>1, <1>2, <2>1 DEF Owed
    <3>10. r.queue # <<>>
      <4>1. Len(r.queue) # 0
        BY <1>1, <1>5, <3>1
      <4>2. QED
        BY <4>1
    <3>11. r.starving * Bandwidth <= r.tokens + (r.clock - r.refill) * Bandwidth + Late * Bandwidth
      BY <1>2, <3>7, <3>8
    <3>12. r.starving <= r.clock
      BY <1>1, <2>1 DEF Owed
    <3>13. QED
      BY <1>1, <1>3, <3>9, <3>10, <3>11, <3>12 DEF Owed
  <2>6. QED
    BY <2>4, <2>5
<1>6. QED
  BY <1>4, <1>5

-----------------------------------------------------------------------------
(* What a sender does with a packet.                                       *)

\* Packets stand in line, unless the limit was switched off over them.
Orderly(s) == Lined(s) /\ ("limit" \in pumpQuirks \/ s.queue = <<>>)

\* The bucket keeps up with the queue; "waits": a rate timer is due.
Paying(s, waits) == Biggest <= Full => Owed(s) /\ (waits \/ Served(s))

\* Only these fields count.
Alike(s, r) ==
  /\ s \in State /\ r \in State /\ r.running = s.running /\ r.seq = s.seq /\ r.queue = s.queue
  /\ r.tokens = s.tokens /\ r.refill = s.refill /\ r.clock = s.clock /\ r.sent = s.sent
  /\ r.dropped = s.dropped /\ r.last = s.last /\ r.cleared = s.cleared /\ r.debt = s.debt
  /\ r.starving = s.starving

LEMMA AlikeKeeps ==
  ASSUME NEW s, NEW r, Alike(s, r)
  PROVE  /\ Made(r) = Made(s) /\ (Booked(s) => Booked(r)) /\ (Lined(s) => Lined(r))
         /\ (Owed(s) => Owed(r)) /\ (Served(s) => Served(r))
<1>1. Made(r) = Made(s)
  BY DEF Alike, Made
<1>2. Avail(r) = Avail(s)
  BY DEF Alike, Avail, Paid, From
<1>3. Booked(s) => Booked(r)
  BY <1>1, <1>2 DEF Alike, Booked
<1>4. Lined(s) => Lined(r)
  BY <1>1 DEF Alike, Lined
<1>5. (Owed(s) => Owed(r)) /\ (Served(s) => Served(r))
  BY DEF Alike, Owed, Served
<1>6. QED
  BY <1>1, <1>3, <1>4, <1>5

LEMMA TimerSet ==
  ASSUME NEW s, s \in State, NEW b, b \in BOOLEAN
  PROVE  Alike(s, [s EXCEPT !.timer = b]) /\ [s EXCEPT !.timer = b].timer = b
         /\ [s EXCEPT !.timer = b].stamp = s.stamp
BY DEF Alike, State

\* drainQueue() keeps the accounts, the order and the debts of a sender that runs.
LEMMA DrainWorks ==
  ASSUME NEW s, Booked(s), s.running, s.queue # <<>>
  PROVE  LET r == DrainQueue(s)
         IN /\ Booked(r) /\ r.running = s.running /\ r.clock = s.clock /\ r.stamp = s.stamp
            /\ r.timer = s.timer
            /\ Lined(s) => Lined(r) /\ r.last >= s.last
            /\ Biggest <= Full /\ Owed(s) => Owed(r) /\ Served(r)
<1>1. s \in State /\ s.refill <= s.clock
  BY DEF Booked
<1>2. PICK m \in Nat : Drained(s, DrainQueue(s), m)
  BY <1>1, DrainIs
<1> DEFINE r == DrainQueue(s)
<1>3. Drained(s, r, m)
  BY <1>2
<1> HIDE DEF r
<1>4. Booked(r)
  BY <1>3, DrainBooks
<1>5. Lined(s) => Lined(r) /\ r.last >= s.last
  BY <1>1, <1>3, DrainLines
<1>6. Biggest <= Full /\ Owed(s) => Owed(r) /\ Served(r)
  BY <1>1, <1>3, DrainOwes
<1>7. r.running = s.running /\ r.clock = s.clock /\ r.stamp = s.stamp /\ r.timer = s.timer
  BY <1>3 DEF Drained
<1>8. QED
  BY <1>4, <1>5, <1>6, <1>7 DEF r

LEMMA Remainder ==
  ASSUME NEW m, m \in Nat, m > 0, NEW d, d \in Int, NEW b, b \in 0 .. m - 1
  PROVE  (m * d + b) % m = b /\ (m * d + b) \div m = d
<1>1. m \in Nat /\ m > 0 /\ b \in Int
  OBVIOUS
<1> DEFINE n == m * d + b
           e == n \div m
           c == n % m
<1>2. n \in Int /\ n = m * d + b
  BY <1>1
<1> HIDE DEF n
<1>3. n = m * e + c /\ e \in Int /\ c \in 0 .. m - 1
  BY <1>1, <1>2
<1> HIDE DEF e, c
<1>4. \A x, y \in Int : x >= y + 1 => m * x >= m * y + m
  <2>1. SUFFICES ASSUME NEW x, x \in Int, NEW y, y \in Int, x >= y + 1
                 PROVE  m * x >= m * y + m
    OBVIOUS
  <2>2. x = y + 1 + (x - y - 1) /\ x - y - 1 \in Nat
    BY <2>1
  <2>3. m * x = m * y + m + m * (x - y - 1)
    BY <1>1, <2>1, <2>2
  <2>4. m * (x - y - 1) >= 0
    BY <1>1, <2>2
  <2>5. QED
    BY <1>1, <2>1, <2>3, <2>4
<1>5. ~(d >= e + 1) /\ ~(e >= d + 1)
  <2>1. m * d \in Int /\ m * e \in Int
    BY <1>1, <1>3
  <2>2. d >= e + 1 => m * d >= m * e + m
    BY <1>3, <1>4
  <2>3. e >= d + 1 => m * e >= m * d + m
    BY <1>3, <1>4
  <2>4. m * d + b = m * e + c
    BY <1>2, <1>3
  <2>5. QED
    BY <1>1, <1>3, <2>1, <2>2, <2>3, <2>4
<1>6. d = e
  BY <1>3, <1>5
<1>7. c = b
  BY <1>1, <1>2, <1>3, <1>6
<1>8. QED
  BY <1>2, <1>6, <1>7 DEF c, e

LEMMA NextNumber ==
  ASSUME NEW a, a \in Nat
  PROVE  ((a % SeqSpace) + 1) % SeqSpace = (a + 1) % SeqSpace
         /\ a % SeqSpace \in 0 .. SeqSpace - 1
<1>1. SeqSpace \in Nat /\ SeqSpace > 0
  BY Constants
<1>2. a % SeqSpace \in 0 .. SeqSpace - 1
  BY <1>1
<1> DEFINE b == a % SeqSpace
           d == a \div SeqSpace
<1>3. a = SeqSpace * d + b /\ d \in Int /\ b \in 0 .. SeqSpace - 1
  BY <1>1
<1> HIDE DEF b, d
<1>4. (a + 1) % SeqSpace = (b + 1) % SeqSpace
  <2>1. CASE b + 1 \in 0 .. SeqSpace - 1
    <3>1. a + 1 = SeqSpace * d + (b + 1)
      BY <1>1, <1>3
    <3>2. (a + 1) % SeqSpace = b + 1
      BY <1>1, <1>3, <2>1, <3>1, Remainder
    <3>3. (b + 1) % SeqSpace = b + 1
      BY <1>1, <1>3, <2>1
    <3>4. QED
      BY <3>2, <3>3
  <2>2. CASE b + 1 \notin 0 .. SeqSpace - 1
    <3>1. b + 1 = SeqSpace
      BY <1>1, <1>3, <2>2
    <3>2. a + 1 = SeqSpace * (d + 1) + 0 /\ d + 1 \in Int /\ 0 \in 0 .. SeqSpace - 1
      BY <1>1, <1>3, <3>1
    <3>3. (a + 1) % SeqSpace = 0
      BY <1>1, <3>2, Remainder
    <3>4. SeqSpace % SeqSpace = 0
      <4>1. SeqSpace = SeqSpace * 1 + 0 /\ 1 \in Int /\ 0 \in 0 .. SeqSpace - 1
        BY <1>1
      <4>2. QED
        BY <1>1, <4>1, Remainder
    <3>5. QED
      BY <3>1, <3>3, <3>4
  <2>3. QED
    BY <2>1, <2>2
<1>5. QED
  BY <1>2, <1>4 DEF b

\* The queue with one more packet, its oldest gone if it was full.
Queued(s, p) == Append(IF Len(s.queue) >= MaxQueue THEN Tail(s.queue) ELSE s.queue, p)

LEMMA QueuedIs ==
  ASSUME NEW s, s \in State, Len(s.queue) <= MaxQueue, NEW p, p \in Packet
  PROVE  LET q == Queued(s, p)
             o == IF Len(s.queue) >= MaxQueue THEN 1 ELSE 0
         IN /\ q \in Seq(Packet) /\ q # <<>> /\ Len(q) = Len(s.queue) - o + 1
            /\ Len(q) <= MaxQueue /\ q[Len(q)] = p
            /\ \A i \in 1 .. Len(q) - 1 : i + o \in 1 .. Len(s.queue) /\ q[i] = s.queue[i + o]
<1> DEFINE q == s.queue
<1>1. q \in Seq(Packet) /\ Len(q) \in Nat /\ MaxQueue \in Nat /\ MaxQueue > 0 /\ Len(q) <= MaxQueue
  BY Constants DEF State
<1>2. \A z \in Seq(Packet) : /\ Append(z, p) \in Seq(Packet) /\ Len(Append(z, p)) = Len(z) + 1
                             /\ Len(z) \in Nat
                             /\ Append(z, p)[Len(z) + 1] = p
                             /\ \A i \in 1 .. Len(z) : Append(z, p)[i] = z[i]
  OBVIOUS
<1> HIDE DEF q
<1>3. CASE Len(q) >= MaxQueue
  <2> DEFINE z == Tail(q)
  <2>1. z \in Seq(Packet) /\ Len(z) = Len(q) - 1 /\ \A i \in 1 .. Len(z) : z[i] = q[i + 1]
    <3>1. q # <<>>
      BY <1>1, <1>3
    <3>2. QED
      BY <1>1, <3>1
  <2> HIDE DEF z
  <2>2. Queued(s, p) = Append(z, p)
    BY <1>3 DEF Queued, z, q
  <2> DEFINE y == Append(z, p)
  <2>3. y \in Seq(Packet) /\ Len(y) = Len(q) /\ y[Len(y)] = p
        /\ \A i \in 1 .. Len(y) - 1 : y[i] = z[i]
    BY <1>1, <1>2, <2>1
  <2> HIDE DEF y
  <2>4. y # <<>>
    BY <1>1, <1>3, <2>3
  <2>5. \A i \in 1 .. Len(y) - 1 : i + 1 \in 1 .. Len(q) /\ y[i] = q[i + 1]
    BY <1>1, <2>1, <2>3
  <2>6. Len(y) = Len(q) - 1 + 1
    BY <1>1, <2>3
  <2>7. QED
    BY <1>1, <1>3, <2>2, <2>3, <2>4, <2>5, <2>6 DEF q, y
<1>4. CASE ~(Len(q) >= MaxQueue)
  <2>2. Queued(s, p) = Append(q, p)
    BY <1>4 DEF Queued, q
  <2> DEFINE y == Append(q, p)
  <2>3. y \in Seq(Packet) /\ Len(y) = Len(q) + 1 /\ y[Len(y)] = p
        /\ \A i \in 1 .. Len(y) - 1 : y[i] = q[i]
    BY <1>1, <1>2
  <2> HIDE DEF y
  <2>4. y # <<>>
    BY <1>1, <2>3
  <2>5. \A i \in 1 .. Len(y) - 1 : i + 0 \in 1 .. Len(q) /\ y[i] = q[i + 0]
    BY <1>1, <2>3
  <2>6. Len(y) = Len(q) - 0 + 1 /\ Len(y) <= MaxQueue
    BY <1>1, <1>4, <2>3
  <2>7. QED
    BY <1>4, <2>2, <2>3, <2>4, <2>5, <2>6 DEF q, y
<1>5. QED
  BY <1>3, <1>4

\* A sender whose next packet has its sequence number, and is not yet anywhere.
Numbered(s) ==
  /\ s \in State /\ s.running /\ Len(s.queue) <= MaxQueue
  /\ s.seq = (FirstSeq + Made(s) + 1) % SeqSpace
  /\ s.refill <= s.clock /\ s.debt <= Full /\ s.debt + Avail(s) <= Full

LEMMA EnqueueWorks ==
  ASSUME NEW s, Numbered(s), NEW p, p \in Packet, p.k = Made(s)
  PROVE  LET r == Enqueue(s, p)
         IN /\ Fit(r) /\ r.running = s.running /\ r.clock = s.clock /\ r.stamp = s.stamp
            /\ s.timer => r.timer
            /\ Lined(s) => Lined(r) /\ r.last >= s.last
            /\ Biggest <= Full /\ Owed(s) => Owed(r) /\ Served(r)
<1> DEFINE full == Len(s.queue) >= MaxQueue
           q == Queued(s, p)
           o == IF full THEN 1 ELSE 0
           d == IF full THEN s.dropped + 1 ELSE s.dropped
           z == [s EXCEPT !.queue = q, !.dropped = d]
           y == DrainQueue(z)
           b == y.timer \/ y.queue # <<>>
           r == [y EXCEPT !.timer = b]
<1>1. /\ s \in State /\ s.running /\ Len(s.queue) <= MaxQueue /\ s.refill <= s.clock
      /\ s.debt <= Full /\ s.debt + Avail(s) <= Full
      /\ s.seq = (FirstSeq + Made(s) + 1) % SeqSpace
  BY DEF Numbered
<1>2. Enqueue(s, p) = r
  BY DEF Enqueue, Queued
<1>3. /\ q \in Seq(Packet) /\ q # <<>> /\ Len(q) = Len(s.queue) - o + 1
      /\ Len(q) <= MaxQueue /\ q[Len(q)] = p
      /\ \A i \in 1 .. Len(q) - 1 : i + o \in 1 .. Len(s.queue) /\ q[i] = s.queue[i + o]
  BY <1>1, QueuedIs
<1>4. /\ s.dropped \in Nat /\ s.sent \in Nat /\ s.cleared \in Nat /\ Len(s.queue) \in Nat
      /\ s.last \in Int
  BY <1>1 DEF State
<1>5. d \in Nat /\ d = s.dropped + o /\ o \in {0, 1}
  BY <1>4
<1> HIDE DEF full, q, o, d
<1>6. /\ z \in State /\ z.queue = q /\ z.dropped = d /\ z.running = s.running /\ z.seq = s.seq
      /\ z.timer = s.timer /\ z.tokens = s.tokens /\ z.refill = s.refill /\ z.clock = s.clock
      /\ z.sent = s.sent /\ z.stamp = s.stamp /\ z.last = s.last /\ z.cleared = s.cleared
      /\ z.debt = s.debt /\ z.starving = s.starving
  BY <1>1, <1>3, <1>5 DEF State
<1> HIDE DEF z
<1>7. Made(z) = Made(s) + 1 /\ Made(s) \in Nat
  <2>1. Made(z) = s.sent + d + s.cleared + Len(q) /\ Made(s) = s.sent + s.dropped + s.cleared + Len(s.queue)
    BY <1>6 DEF Made
  <2> DEFINE a == s.sent  e == s.dropped  c == s.cleared  n == Len(s.queue)
  <2>2. /\ a \in Nat /\ e \in Nat /\ c \in Nat /\ n \in Nat /\ o \in Nat /\ d = e + o
        /\ Len(q) = n - o + 1
    BY <1>3, <1>4, <1>5
  <2>3. Made(z) = a + d + c + Len(q) /\ Made(s) = a + e + c + n
    BY <2>1
  <2> HIDE DEF a, e, c, n
  <2>4. a + (e + o) + c + (n - o + 1) = a + e + c + n + 1 /\ a + e + c + n \in Nat
    BY <2>2
  <2>5. QED
    BY <2>2, <2>3, <2>4
<1>8. Booked(z)
  <2>1. Avail(z) = Avail(s)
    BY <1>6 DEF Avail, Paid, From
  <2>2. FirstSeq + Made(s) + 1 = FirstSeq + Made(z)
    BY <1>7, Constants
  <2>3. QED
    BY <1>1, <1>3, <1>6, <2>1, <2>2 DEF Booked
<1>9. Lined(s) => Lined(z)
  <2>1. SUFFICES ASSUME Lined(s) PROVE Lined(z)
    OBVIOUS
  <2>2. /\ s.last < Made(s)
        /\ \A i \in 1 .. Len(s.queue) :
             /\ s.last < s.queue[i].k /\ s.queue[i].k < Made(s) /\ s.queue[i].k \in Nat
             /\ \A j \in 1 .. i - 1 : s.queue[j].k < s.queue[i].k
    BY <1>1, <2>1, MadeIs DEF Lined
  <2>3. ASSUME NEW i, i \in 1 .. Len(q)
        PROVE  /\ s.last < q[i].k /\ q[i].k < Made(s) + 1
               /\ \A j \in 1 .. i - 1 : q[j].k < q[i].k
    <3>1. i \in Nat /\ Len(q) \in Nat
      BY <1>3, <2>3
    <3>2. CASE i = Len(q)
      <4>1. q[i].k = Made(s)
        BY <1>3, <3>2
      <4>2. ASSUME NEW j, j \in 1 .. i - 1 PROVE q[j].k < q[i].k
        <5>1. j + o \in 1 .. Len(s.queue) /\ q[j] = s.queue[j + o]
          BY <1>3, <3>2, <4>2
        <5>2. QED
          BY <2>2, <4>1, <5>1
      <4>3. QED
        BY <1>4, <1>7, <2>2, <4>1, <4>2
    <3>3. CASE i # Len(q)
      <4>1. i \in 1 .. Len(q) - 1
        BY <2>3, <3>1, <3>3
      <4>2. i + o \in 1 .. Len(s.queue) /\ q[i] = s.queue[i + o]
        BY <1>3, <4>1
      <4>3. /\ s.last < s.queue[i + o].k /\ s.queue[i + o].k < Made(s)
            /\ s.queue[i + o].k \in Nat
            /\ \A j \in 1 .. (i + o) - 1 : s.queue[j].k < s.queue[i + o].k
        BY <2>2, <4>2
      <4>4. ASSUME NEW j, j \in 1 .. i - 1 PROVE q[j].k < q[i].k
        <5>1. j \in 1 .. Len(q) - 1 /\ j + o \in 1 .. (i + o) - 1
          BY <1>5, <3>1, <4>1, <4>4
        <5>2. q[j] = s.queue[j + o]
          BY <1>3, <5>1
        <5>3. QED
          BY <4>2, <4>3, <5>1, <5>2
      <4>5. QED
        BY <1>4, <1>7, <4>2, <4>3, <4>4
    <3>4. QED
      BY <3>2, <3>3
  <2>4. z.last < Made(z)
    BY <1>4, <1>6, <1>7, <2>2
  <2>5. QED
    BY <1>6, <1>7, <2>3, <2>4 DEF Lined
<1>10. Owed(s) => Owed(z)
  <2>1. SUFFICES ASSUME Owed(s) PROVE Owed(z)
    OBVIOUS
  <2>2. s.refill = 0 => s.starving <= Late
    BY <2>1, Constants DEF Owed
  <2>3. QED
    BY <1>3, <1>6, <2>1, <2>2 DEF Owed
<1>11. /\ Booked(y) /\ y.running = s.running /\ y.clock = s.clock /\ y.stamp = s.stamp
       /\ y.timer = s.timer
       /\ Lined(s) => Lined(y) /\ y.last >= s.last
       /\ Biggest <= Full /\ Owed(s) => Owed(y) /\ Served(y)
  <2>1. Booked(z) /\ z.running /\ z.queue # <<>>
    BY <1>1, <1>3, <1>6, <1>8
  <2>2. /\ Booked(y) /\ y.running = z.running /\ y.clock = z.clock /\ y.stamp = z.stamp
        /\ y.timer = z.timer
        /\ Lined(z) => Lined(y) /\ y.last >= z.last
        /\ Biggest <= Full /\ Owed(z) => Owed(y) /\ Served(y)
    BY <2>1, DrainWorks
  <2> HIDE DEF y
  <2>3. QED
    BY <1>6, <1>9, <1>10, <2>2
<1> HIDE DEF y
<1>12. b \in BOOLEAN /\ (s.timer => b) /\ (y.queue # <<>> => b)
  BY <1>11
<1>13. y \in State
  BY <1>11 DEF Booked
<1> HIDE DEF b
<1>14. Alike(y, r) /\ r.timer = b /\ r.stamp = y.stamp
  BY <1>12, <1>13, TimerSet
<1> HIDE DEF r
<1>15. /\ Booked(r) /\ (Lined(y) => Lined(r)) /\ (Owed(y) => Owed(r)) /\ (Served(y) => Served(r))
  BY <1>11, <1>14, AlikeKeeps
<1>16. r.running = y.running /\ r.clock = y.clock /\ r.last = y.last /\ r.queue = y.queue
  BY <1>14 DEF Alike
<1>17. Fit(r)
  BY <1>1, <1>11, <1>12, <1>14, <1>15, <1>16 DEF Fit
<1>18. QED
  BY <1>2, <1>11, <1>12, <1>14, <1>15, <1>16, <1>17

LEMMA FitIs ==
  ASSUME NEW s, Fit(s), s.running
  PROVE  /\ s \in State /\ Made(s) \in Nat /\ Len(s.queue) \in Nat
         /\ (s.seq + 1) % SeqSpace = (FirstSeq + Made(s) + 1) % SeqSpace
         /\ (s.seq + 1) % SeqSpace \in 0 .. SeqSpace - 1
<1>1. s \in State /\ s.seq = (FirstSeq + Made(s)) % SeqSpace
  BY DEF Fit, Booked
<1>2. Made(s) \in Nat /\ Len(s.queue) \in Nat
  BY <1>1, MadeIs
<1>3. FirstSeq + Made(s) \in Nat /\ FirstSeq + Made(s) + 1 \in Nat
  BY <1>2, Constants
<1>4. (s.seq + 1) % SeqSpace = (FirstSeq + Made(s) + 1) % SeqSpace
  BY <1>1, <1>3, NextNumber
<1>5. QED
  BY <1>1, <1>2, <1>3, <1>4, NextNumber

\* The steps of a sender that the proofs below put together.
Goes(s, r) ==
  /\ Fit(r) /\ r.running = s.running /\ r.clock = s.clock /\ (s.timer => r.timer)
  /\ Orderly(s) => Orderly(r) /\ r.last >= s.last
  /\ \A waits \in BOOLEAN : Paying(s, waits) => Paying(r, waits)

LEMMA LoseWorks ==
  ASSUME NEW s, Fit(s), s.running
  PROVE  LET r == [s EXCEPT !.seq = (@ + 1) % SeqSpace, !.dropped = @ + 1]
         IN Goes(s, r) /\ r.stamp = s.stamp
<1> DEFINE n == (s.seq + 1) % SeqSpace
           d == s.dropped + 1
           r == [s EXCEPT !.seq = n, !.dropped = d]
<1>1. /\ s \in State /\ Made(s) \in Nat /\ Len(s.queue) \in Nat
      /\ n = (FirstSeq + Made(s) + 1) % SeqSpace /\ n \in 0 .. SeqSpace - 1
  BY FitIs
<1>2. /\ s.dropped \in Nat /\ s.sent \in Nat /\ s.cleared \in Nat /\ s.last \in Int
      /\ d \in Nat /\ d = s.dropped + 1
  BY <1>1 DEF State
<1> HIDE DEF n, d
<1>3. /\ r \in State /\ r.queue = s.queue /\ r.dropped = d /\ r.running = s.running /\ r.seq = n
      /\ r.timer = s.timer /\ r.tokens = s.tokens /\ r.refill = s.refill /\ r.clock = s.clock
      /\ r.sent = s.sent /\ r.stamp = s.stamp /\ r.last = s.last /\ r.cleared = s.cleared
      /\ r.debt = s.debt /\ r.starving = s.starving
  BY <1>1, <1>2 DEF State
<1>4. r = [s EXCEPT !.seq = (@ + 1) % SeqSpace, !.dropped = @ + 1]
  BY DEF n, d
<1> HIDE DEF r
<1>5. Made(r) = Made(s) + 1
  <2> DEFINE a == s.sent  c == s.cleared  l == Len(s.queue)  e == s.dropped
  <2>1. Made(r) = a + d + c + l /\ Made(s) = a + e + c + l /\ d = e + 1
        /\ a \in Nat /\ c \in Nat /\ l \in Nat /\ e \in Nat
    BY <1>1, <1>2, <1>3 DEF Made
  <2> HIDE DEF a, c, l, e
  <2>2. QED
    BY <2>1
<1>6. Avail(r) = Avail(s)
  BY <1>3 DEF Avail, Paid, From
<1>7. FirstSeq + Made(s) + 1 = FirstSeq + Made(r)
  BY <1>1, <1>5, Constants
<1>8. Fit(r)
  BY <1>1, <1>3, <1>6, <1>7 DEF Fit, Booked
<1>9. Lined(s) => Lined(r)
  BY <1>1, <1>2, <1>3, <1>5, MadeIs DEF Lined
<1>10. Orderly(s) => Orderly(r) /\ r.last >= s.last
  BY <1>2, <1>3, <1>9 DEF Orderly
<1>11. (Owed(s) => Owed(r)) /\ (Served(s) => Served(r))
  BY <1>3 DEF Owed, Served
<1>12. \A waits \in BOOLEAN : Paying(s, waits) => Paying(r, waits)
  BY <1>11 DEF Paying
<1>13. QED
  BY <1>3, <1>4, <1>8, <1>10, <1>12 DEF Goes

LEMMA SendWorks ==
  ASSUME NEW s, Fit(s), s.running, NEW size, size \in 1 .. Biggest, NEW stamp, stamp \in Int,
         NEW lost, lost \in BOOLEAN
  PROVE  LET r == SendPacket(s, size, stamp, lost)
         IN Goes(s, r) /\ r.stamp \in {s.stamp, stamp}
<1> DEFINE p == [k |-> Made(s), size |-> size]
           n == (s.seq + 1) % SeqSpace
           u == [s EXCEPT !.seq = n, !.stamp = stamp]
<1>1. /\ s \in State /\ Made(s) \in Nat /\ Len(s.queue) \in Nat
      /\ n = (FirstSeq + Made(s) + 1) % SeqSpace /\ n \in 0 .. SeqSpace - 1
  BY FitIs
<1>2. p \in Packet /\ p.k = Made(s)
  BY <1>1 DEF Packet
<1>3. CASE lost
  <2>1. SendPacket(s, size, stamp, lost) = [s EXCEPT !.seq = (@ + 1) % SeqSpace, !.dropped = @ + 1]
    BY <1>3 DEF SendPacket
  <2>2. QED
    BY <2>1, LoseWorks
<1> HIDE DEF p
<1>4. SendPacket(s, size, stamp, lost)
        = IF lost THEN [s EXCEPT !.seq = (@ + 1) % SeqSpace, !.dropped = @ + 1]
          ELSE IF "limit" \in pumpQuirks THEN Enqueue(u, p) ELSE WriteRtp(u, <<p>>)
  BY DEF SendPacket, p
<1> HIDE DEF n
<1>5. /\ u \in State /\ u.queue = s.queue /\ u.dropped = s.dropped /\ u.running = s.running
      /\ u.seq = n /\ u.timer = s.timer /\ u.tokens = s.tokens /\ u.refill = s.refill
      /\ u.clock = s.clock /\ u.sent = s.sent /\ u.stamp = stamp /\ u.last = s.last
      /\ u.cleared = s.cleared /\ u.debt = s.debt /\ u.starving = s.starving
  BY <1>1 DEF State
<1> HIDE DEF u
<1>6. Made(u) = Made(s) /\ Avail(u) = Avail(s)
  BY <1>5 DEF Made, Avail, Paid, From
<1>7. Numbered(u)
  BY <1>1, <1>5, <1>6 DEF Numbered, Fit, Booked
<1>8. (Lined(s) => Lined(u)) /\ (Owed(s) => Owed(u)) /\ (Served(s) => Served(u))
  BY <1>5, <1>6 DEF Lined, Owed, Served
<1>9. CASE ~lost /\ "limit" \in pumpQuirks
  <2> DEFINE r == Enqueue(u, p)
  <2>1. /\ Fit(r) /\ r.running = u.running /\ r.clock = u.clock /\ r.stamp = u.stamp
        /\ u.timer => r.timer
        /\ Lined(u) => Lined(r) /\ r.last >= u.last
        /\ Biggest <= Full /\ Owed(u) => Owed(r) /\ Served(r)
    <3>1. p.k = Made(u)
      BY <1>2, <1>6
    <3>2. QED
      BY <1>2, <1>7, <3>1, EnqueueWorks
  <2>2. SendPacket(s, size, stamp, lost) = r
    BY <1>4, <1>9
  <2> HIDE DEF r
  <2>3. Orderly(s) => Orderly(r) /\ r.last >= s.last
    BY <1>5, <1>8, <1>9, <2>1 DEF Orderly
  <2>4. \A waits \in BOOLEAN : Paying(s, waits) => Paying(r, waits)
    BY <1>8, <2>1 DEF Paying
  <2>5. QED
    BY <1>5, <2>1, <2>2, <2>3, <2>4 DEF Goes
<1>10. CASE ~lost /\ "limit" \notin pumpQuirks
  <2> DEFINE q == <<p>>
             r == WriteRtp(u, q)
  <2>1. q \in Seq(Packet) /\ q # <<>> /\ Len(q) = 1 /\ Last(q) = p
    BY <1>2 DEF Last
  <2> HIDE DEF q
  <2>2. /\ r \in State /\ r.starving = 0 /\ r.running = u.running /\ r.seq = u.seq
        /\ r.queue = u.queue /\ r.timer = u.timer /\ r.tokens = u.tokens /\ r.refill = u.refill
        /\ r.clock = u.clock /\ r.stamp = u.stamp /\ r.cleared = u.cleared /\ r.debt = u.debt
        /\ r.sent + r.dropped = u.sent + u.dropped + 1
        /\ r.last \in {u.last, p.k}
    <3>1. u \in State
      BY <1>5
    <3>2. /\ r \in State /\ r.starving = 0 /\ r.running = u.running /\ r.seq = u.seq
          /\ r.queue = u.queue /\ r.timer = u.timer /\ r.tokens = u.tokens
          /\ r.refill = u.refill /\ r.clock = u.clock /\ r.stamp = u.stamp
          /\ r.cleared = u.cleared /\ r.debt = u.debt
          /\ r.sent + r.dropped = u.sent + u.dropped + Len(q)
          /\ r.last \in {u.last, Last(q).k}
      BY <2>1, <3>1, WriteIs
    <3> HIDE DEF r
    <3>3. QED
      BY <2>1, <3>2
  <2>3. SendPacket(s, size, stamp, lost) = r
    BY <1>4, <1>10 DEF q
  <2> HIDE DEF r
  <2>4. Made(r) = Made(s) + 1
    <3> DEFINE a == s.sent  c == s.cleared  l == Len(s.queue)  e == s.dropped
               ra == r.sent  re == r.dropped
    <3>1. Made(r) = ra + re + c + l /\ Made(s) = a + e + c + l /\ ra + re = a + e + 1
      BY <1>5, <2>2 DEF Made
    <3>2. /\ a \in Nat /\ c \in Nat /\ l \in Nat /\ e \in Nat /\ ra \in Nat /\ re \in Nat
      BY <1>1, <2>2 DEF State
    <3> HIDE DEF a, c, l, e, ra, re
    <3>3. QED
      BY <3>1, <3>2
  <2>5. Avail(r) = Avail(s)
    BY <1>5, <2>2 DEF Avail, Paid, From
  <2>6. FirstSeq + Made(s) + 1 = FirstSeq + Made(r)
    BY <1>1, <2>4, Constants
  <2>7. Fit(r)
    BY <1>1, <1>5, <2>2, <2>5, <2>6 DEF Fit, Booked
  <2>8. Orderly(s) => Orderly(r) /\ r.last >= s.last
    <3>1. SUFFICES ASSUME Orderly(s) PROVE Orderly(r) /\ r.last >= s.last
      OBVIOUS
    <3>2. s.queue = <<>> /\ r.queue = <<>> /\ Len(<<>>) = 0
      BY <1>5, <1>10, <2>2, <3>1 DEF Orderly
    <3>3. s.last < Made(s) /\ s.last \in Int
      BY <1>1, <3>1, MadeIs DEF Orderly, Lined
    <3>4. r.last \in {s.last, Made(s)}
      BY <1>2, <1>5, <2>2
    <3>5. r.last >= s.last /\ r.last < Made(r)
      BY <1>1, <2>4, <3>3, <3>4
    <3>6. Lined(r)
      BY <3>2, <3>5 DEF Lined
    <3>7. QED
      BY <3>2, <3>5, <3>6 DEF Orderly
  <2>9. \A waits \in BOOLEAN : Paying(s, waits) => Paying(r, waits)
    <3>1. Served(s) => Served(r)
      BY <1>5, <2>2 DEF Served
    <3>2. Owed(s) => Owed(r)
      <4>1. SUFFICES ASSUME Owed(s) PROVE Owed(r)
        OBVIOUS
      <4>2. /\ s.tokens \in Nat /\ s.refill \in Nat /\ s.clock \in Nat /\ s.refill <= s.clock
            /\ Late \in Nat /\ Bandwidth \in Nat
        BY <1>1, Constants DEF State, Fit, Booked
      <4>3. 0 * Bandwidth = 0 /\ Late * Bandwidth \in Nat /\ (s.clock - s.refill) * Bandwidth \in Nat
        <5>1. \A x, y \in Nat : x * y \in Nat
          OBVIOUS
        <5>2. s.clock - s.refill \in Nat
          BY <4>2
        <5>3. QED
          BY <4>2, <5>1, <5>2
      <4>4. 0 <= s.tokens + (s.clock - s.refill) * Bandwidth + Late * Bandwidth
        BY <4>2, <4>3
      <4>5. QED
        BY <1>5, <2>2, <4>2, <4>3, <4>4 DEF Owed
    <3>3. QED
      BY <3>1, <3>2 DEF Paying
  <2>10. QED
    BY <1>5, <2>2, <2>3, <2>7, <2>8, <2>9 DEF Goes
<1>11. QED
  BY <1>3, <1>9, <1>10

-----------------------------------------------------------------------------
(* What else happens to a sender.                                          *)

\* A sender that does not run has nothing to send.
LEMMA AtRest ==
  ASSUME NEW s, Fit(s), ~s.running
  PROVE  s.queue = <<>> /\ ~s.timer
BY DEF Fit

LEMMA FirstWorks ==
  /\ Fit(Sender) /\ Orderly(Sender) /\ Paying(Sender, FALSE)
  /\ ~Sender.running /\ ~Sender.timer /\ Sender.stamp = -1
<1> DEFINE s == Sender
<1>1. /\ ~s.running /\ s.seq = FirstSeq /\ s.queue = <<>> /\ ~s.timer /\ s.tokens = 0
      /\ s.refill = 0 /\ s.clock = 0 /\ s.sent = 0 /\ s.dropped = 0 /\ s.stamp = -1
      /\ s.last = -1 /\ s.cleared = 0 /\ s.debt = 0 /\ s.starving = 0
  BY DEF Sender
<1>2. FirstSeq \in 0 .. SeqSpace - 1 /\ <<>> \in Seq(Packet) /\ Len(<<>>) = 0
  BY MediaPumpAssumption
<1>3. s \in State
  BY <1>2 DEF Sender, State
<1> HIDE DEF s
<1>4. Made(s) = 0
  BY <1>1, <1>2 DEF Made
<1>5. (FirstSeq + 0) % SeqSpace = FirstSeq
  BY <1>2, Constants
<1>6. Fit(s)
  BY <1>1, <1>2, <1>3, <1>4, <1>5, FullIs, Constants DEF Fit, Booked
<1>7. Orderly(s)
  BY <1>1, <1>2, <1>4 DEF Orderly, Lined
<1>8. Paying(s, FALSE)
  BY <1>1 DEF Paying, Owed, Served
<1>9. QED
  BY <1>1, <1>6, <1>7, <1>8 DEF s

LEMMA StartWorks ==
  ASSUME NEW s, Fit(s)
  PROVE  LET r == Start(s)
         IN /\ Fit(r) /\ r.running /\ r.timer = s.timer /\ r.stamp = s.stamp /\ r.last = s.last
            /\ Orderly(s) => Orderly(r)
            /\ \A waits \in BOOLEAN : Paying(s, waits) => Paying(r, waits)
<1>1. CASE s.running
  BY <1>1 DEF Start
<1>2. CASE ~s.running
  <2> DEFINE r == [s EXCEPT !.running = TRUE, !.clock = 0, !.refill = 0, !.tokens = 0]
  <2>1. s \in State /\ s.queue = <<>> /\ Len(s.queue) = 0
    BY <1>2, AtRest DEF Fit, Booked
  <2>2. /\ r \in State /\ r.queue = s.queue /\ r.dropped = s.dropped /\ r.running /\ r.seq = s.seq
        /\ r.timer = s.timer /\ r.tokens = 0 /\ r.refill = 0 /\ r.clock = 0
        /\ r.sent = s.sent /\ r.stamp = s.stamp /\ r.last = s.last /\ r.cleared = s.cleared
        /\ r.debt = s.debt /\ r.starving = s.starving
    BY <2>1 DEF State
  <2>3. Start(s) = r
    BY <1>2 DEF Start
  <2> HIDE DEF r
  <2>4. Made(r) = Made(s)
    BY <2>2 DEF Made
  <2>5. Paid(r) = 0
    <3>1. From(r) = 0 /\ (0 - 0) * Bandwidth = 0
      BY <2>2, Constants DEF From
    <3>2. QED
      BY <2>2, <3>1 DEF Paid
  <2>6. Avail(r) = 0
    BY <2>5, FullIs DEF Avail, Least
  <2>7. Booked(r)
    <3>1. s.debt \in Nat
      BY <2>1 DEF State
    <3>2. QED
      BY <2>2, <2>4, <2>6, <3>1, FullIs DEF Fit, Booked
  <2>8. Fit(r)
    BY <2>2, <2>7 DEF Fit
  <2>9. Orderly(s) => Orderly(r)
    BY <2>2, <2>4 DEF Orderly, Lined
  <2>10. \A waits \in BOOLEAN : Paying(s, waits) => Paying(r, waits)
    BY <2>1, <2>2, Constants DEF Paying, Owed, Served
  <2>11. QED
    BY <2>2, <2>3, <2>8, <2>9, <2>10
<1>3. QED
  BY <1>1, <1>2

LEMMA StopWorks ==
  ASSUME NEW s, Fit(s)
  PROVE  LET r == Stop(s)
         IN /\ Fit(r) /\ ~r.running /\ ~r.timer /\ r.stamp = s.stamp /\ r.last = s.last
            /\ Lined(s) => Orderly(r)
            /\ \A waits \in BOOLEAN : Paying(s, waits) => Paying(r, FALSE)
<1>1. CASE ~s.running
  <2>1. Stop(s) = s
    BY <1>1 DEF Stop
  <2>2. s.queue = <<>> /\ ~s.timer
    BY <1>1, AtRest
  <2>3. QED
    BY <1>1, <2>1, <2>2 DEF Orderly, Paying, Served
<1>2. CASE s.running
  <2> DEFINE c == s.cleared + Len(s.queue)
             e == <<>>
             r == [s EXCEPT !.running = FALSE, !.timer = FALSE, !.starving = 0,
                            !.cleared = c, !.queue = e]
  <2>1. s \in State /\ Len(s.queue) \in Nat
    BY MadeIs DEF Fit, Booked
  <2>2. e \in Seq(Packet) /\ Len(e) = 0 /\ e = <<>>
    OBVIOUS
  <2>3. c \in Nat /\ s.cleared \in Nat /\ c = s.cleared + Len(s.queue)
    BY <2>1 DEF State
  <2>4. Stop(s) = r
    BY <1>2 DEF Stop
  <2> HIDE DEF c, e
  <2>5. /\ r \in State /\ r.queue = e /\ r.dropped = s.dropped /\ ~r.running /\ r.seq = s.seq
        /\ ~r.timer /\ r.tokens = s.tokens /\ r.refill = s.refill /\ r.clock = s.clock
        /\ r.sent = s.sent /\ r.stamp = s.stamp /\ r.last = s.last /\ r.cleared = c
        /\ r.debt = s.debt /\ r.starving = 0
    BY <2>1, <2>2, <2>3 DEF State
  <2> HIDE DEF r
  <2>6. Made(r) = Made(s)
    <3> DEFINE a == s.sent  d == s.dropped  f == s.cleared  n == Len(s.queue)
    <3>1. Made(r) = a + d + c + 0 /\ Made(s) = a + d + f + n /\ c = f + n
      BY <2>2, <2>3, <2>5 DEF Made
    <3>2. a \in Nat /\ d \in Nat /\ f \in Nat /\ n \in Nat
      BY <2>1 DEF State
    <3> HIDE DEF a, d, f, n
    <3>3. QED
      BY <3>1, <3>2
  <2>7. Fit(r)
    BY <2>2, <2>5, <2>6, Constants DEF Fit, Booked
  <2>8. Lined(s) => Orderly(r)
    BY <2>2, <2>5, <2>6 DEF Orderly, Lined
  <2>9. Owed(r) /\ Served(r)
    <3>1. /\ s.tokens \in Nat /\ s.refill \in Nat /\ s.clock \in Nat /\ s.refill <= s.clock
          /\ Late \in Nat /\ Bandwidth \in Nat
      BY <2>1, Constants DEF State, Fit, Booked
    <3>2. 0 * Bandwidth = 0 /\ Late * Bandwidth \in Nat /\ (s.clock - s.refill) * Bandwidth \in Nat
      <4>1. \A x, y \in Nat : x * y \in Nat
        OBVIOUS
      <4>2. s.clock - s.refill \in Nat
        BY <3>1
      <4>3. QED
        BY <3>1, <4>1, <4>2
    <3>3. 0 <= s.tokens + (s.clock - s.refill) * Bandwidth + Late * Bandwidth
      BY <3>1, <3>2
    <3>4. QED
      BY <2>2, <2>5, <3>1, <3>2, <3>3 DEF Owed, Served
  <2>10. QED
    BY <2>4, <2>5, <2>7, <2>8, <2>9 DEF Paying
<1>3. QED
  BY <1>1, <1>2

\* The rate timer drains the queue, and goes on while something is left.
LEMMA TickWorks ==
  ASSUME NEW s, Fit(s), s.running
  PROVE  LET y == DrainQueue(s)
             r == [y EXCEPT !.timer = y.queue # <<>>]
         IN /\ Fit(r) /\ r.running /\ r.stamp = s.stamp
            /\ Orderly(s) => Orderly(r) /\ r.last >= s.last
            /\ Paying(s, TRUE) => Paying(r, FALSE)
<1> DEFINE y == DrainQueue(s)
           b == y.queue # <<>>
           r == [y EXCEPT !.timer = b]
<1>1. s \in State /\ Booked(s) /\ s.last \in Int
  BY MadeIs DEF Fit, Booked
<1>2. /\ Booked(y) /\ y.running /\ y.stamp = s.stamp
      /\ Orderly(s) => Orderly(y) /\ y.last >= s.last
      /\ Biggest <= Full /\ Owed(s) => Owed(y) /\ Served(y)
  <2>1. CASE s.queue = <<>>
    <3>1. y = s
      BY <2>1 DEF DrainQueue
    <3>2. Served(s)
      BY <2>1 DEF Served
    <3>3. QED
      BY <1>1, <3>1, <3>2
  <2>2. CASE s.queue # <<>>
    <3>1. /\ Booked(y) /\ y.running /\ y.stamp = s.stamp
          /\ Lined(s) => Lined(y) /\ y.last >= s.last
          /\ Biggest <= Full /\ Owed(s) => Owed(y) /\ Served(y)
      BY <1>1, <2>2, DrainWorks
    <3> HIDE DEF y
    <3>2. QED
      BY <2>2, <3>1 DEF Orderly
  <2>3. QED
    BY <2>1, <2>2
<1>3. y \in State
  BY <1>2 DEF Booked
<1> HIDE DEF y
<1>4. b \in BOOLEAN /\ (b <=> y.queue # <<>>)
  OBVIOUS
<1> HIDE DEF b
<1>5. Alike(y, r) /\ r.timer = b /\ r.stamp = y.stamp
  BY <1>3, <1>4, TimerSet
<1>6. r = [y EXCEPT !.timer = y.queue # <<>>]
  BY DEF b
<1> HIDE DEF r
<1>7. /\ Booked(r) /\ (Lined(y) => Lined(r)) /\ (Owed(y) => Owed(r)) /\ (Served(y) => Served(r))
  BY <1>2, <1>5, AlikeKeeps
<1>8. r.running = y.running /\ r.last = y.last /\ r.queue = y.queue
  BY <1>5 DEF Alike
<1>9. Fit(r)
  BY <1>2, <1>4, <1>5, <1>7, <1>8 DEF Fit
<1>10. QED
  BY <1>2, <1>5, <1>6, <1>7, <1>8, <1>9 DEF y, Orderly, Paying

\* Time passes for a sender.
Later(s, d) ==
  IF ~s.running THEN s
  ELSE [s EXCEPT !.clock = @ + d, !.debt = Most(0, @ - d * Bandwidth),
                 !.starving = IF s.queue = <<>> THEN 0 ELSE @ + d]

LEMMA LaterWorks ==
  ASSUME NEW s, Fit(s), NEW d, d \in 1 .. Late
  PROVE  LET r == Later(s, d)
         IN /\ Fit(r) /\ r.running = s.running /\ r.timer = s.timer /\ r.stamp = s.stamp
            /\ r.last = s.last
            /\ Orderly(s) => Orderly(r)
            /\ Paying(s, FALSE) => Paying(r, s.timer)
<1>1. CASE ~s.running
  <2>1. Later(s, d) = s /\ ~s.timer
    BY <1>1, AtRest DEF Later
  <2>2. QED
    BY <2>1 DEF Paying
<1>2. CASE s.running
  <2> DEFINE c == s.clock + d
             e == Most(0, s.debt - d * Bandwidth)
             w == IF s.queue = <<>> THEN 0 ELSE s.starving + d
             r == [s EXCEPT !.clock = c, !.debt = e, !.starving = w]
  <2>1. /\ s \in State /\ s.clock \in Nat /\ s.debt \in Nat /\ s.starving \in Nat
        /\ s.tokens \in Nat /\ s.refill \in Nat /\ s.refill <= s.clock
        /\ s.debt <= Full /\ s.debt + Avail(s) <= Full
    BY <1>2 DEF Fit, Booked, State
  <2>2. d \in Nat /\ d > 0 /\ d <= Late /\ Late \in Nat /\ d * Bandwidth \in Nat
    <3>1. \A x, y \in Nat : x * y \in Nat
      OBVIOUS
    <3>2. d \in Nat /\ d > 0 /\ d <= Late /\ Late \in Nat
      BY Constants
    <3>3. QED
      BY <3>1, <3>2, Constants
  <2> DEFINE f == d * Bandwidth
  <2>3. f \in Nat /\ e = Most(0, s.debt - f)
    BY <2>2
  <2> HIDE DEF f
  <2>4. c \in Nat /\ c = s.clock + d /\ c > 0
    BY <2>1, <2>2
  <2>5. e \in Nat /\ e <= s.debt /\ (e = 0 \/ e = s.debt - f)
    BY <2>1, <2>3 DEF Most
  <2>6. w \in Nat /\ (s.queue = <<>> => w = 0) /\ (s.queue # <<>> => w = s.starving + d)
    BY <2>1, <2>2
  <2>7. Later(s, d) = r
    BY <1>2 DEF Later
  <2> HIDE DEF c, e, w
  <2>8. /\ r \in State /\ r.queue = s.queue /\ r.dropped = s.dropped /\ r.running /\ r.seq = s.seq
        /\ r.timer = s.timer /\ r.tokens = s.tokens /\ r.refill = s.refill /\ r.clock = c
        /\ r.sent = s.sent /\ r.stamp = s.stamp /\ r.last = s.last /\ r.cleared = s.cleared
        /\ r.debt = e /\ r.starving = w
    BY <1>2, <2>1, <2>4, <2>5, <2>6 DEF State
  <2> HIDE DEF r
  <2>9. Made(r) = Made(s)
    BY <2>8 DEF Made
  <2>10. r.refill <= r.clock
    BY <2>1, <2>2, <2>4, <2>8
  <2>11. s.refill # 0 => (c - s.refill) * Bandwidth = (s.clock - s.refill) * Bandwidth + f
                         /\ (s.clock - s.refill) * Bandwidth \in Nat
    <3>1. \A x, y, z \in Int : (x + y) * z = x * z + y * z
      OBVIOUS
    <3>2. c - s.refill = (s.clock - s.refill) + d /\ s.clock - s.refill \in Nat
      BY <2>1, <2>2, <2>4
    <3>3. (c - s.refill) * Bandwidth = (s.clock - s.refill) * Bandwidth + d * Bandwidth
      BY <2>2, <3>1, <3>2, Constants
    <3>4. \A x, y \in Nat : x * y \in Nat
      OBVIOUS
    <3>5. QED
      BY <3>2, <3>3, <3>4, Constants DEF f
  <2>12. e + Avail(r) <= Full
    <3>1. Avail(r) \in Nat /\ Avail(s) \in Nat /\ Paid(s) \in Nat /\ Paid(r) \in Nat
          /\ Avail(r) <= Full /\ Avail(r) <= Paid(r)
          /\ (Avail(s) = Full \/ Avail(s) = Paid(s))
      BY <2>1, <2>8, <2>10, AvailIs
    <3>2. CASE s.refill = 0
      <4>1. Paid(r) = s.tokens /\ Paid(s) = s.tokens
        <5>1. From(r) = c /\ From(s) = s.clock /\ c - c = 0 /\ s.clock - s.clock = 0
              /\ 0 * Bandwidth = 0
          BY <2>1, <2>4, <2>8, <3>2, Constants DEF From
        <5>2. QED
          BY <2>1, <2>8, <5>1 DEF Paid
      <4>2. Avail(r) = Avail(s)
        BY <4>1 DEF Avail
      <4>3. QED
        BY <2>1, <2>5, <3>1, <4>2, FullIs
    <3>3. CASE s.refill # 0
      <4>1. Paid(r) = Paid(s) + f
        <5>1. From(r) = s.refill /\ From(s) = s.refill
          BY <2>8, <3>3 DEF From
        <5>2. Paid(r) = s.tokens + (c - s.refill) * Bandwidth
              /\ Paid(s) = s.tokens + (s.clock - s.refill) * Bandwidth
          BY <2>8, <5>1 DEF Paid
        <5>3. QED
          BY <2>1, <2>3, <2>11, <3>3, <5>2
      <4>2. e = 0 \/ e + Avail(r) <= Full
        <5>1. SUFFICES ASSUME e = s.debt - f PROVE e + Avail(r) <= Full
          BY <2>5
        <5>2. CASE Avail(s) = Full
          <6>1. s.debt = 0
            BY <2>1, <5>2, FullIs
          <6>2. QED
            BY <2>1, <2>3, <3>1, <5>1, <6>1, FullIs
        <5>3. CASE Avail(s) = Paid(s)
          BY <2>1, <2>3, <3>1, <4>1, <5>1, <5>3, FullIs
        <5>4. QED
          BY <3>1, <5>2, <5>3
      <4>3. QED
        BY <3>1, <4>2, FullIs
    <3>4. QED
      BY <3>2, <3>3
  <2>13. Fit(r)
    <3>1. e <= Full
      BY <2>1, <2>5, FullIs
    <3>2. QED
      BY <1>2, <2>8, <2>9, <2>10, <2>12, <3>1 DEF Fit, Booked
  <2>14. Orderly(s) => Orderly(r)
    BY <2>8, <2>9 DEF Orderly, Lined
  <2>15. ~s.timer => Served(r)
    BY <2>8 DEF Fit, Served
  <2>16. Owed(s) /\ Served(s) => Owed(r)
    <3>1. SUFFICES ASSUME Owed(s), Served(s) PROVE Owed(r)
      OBVIOUS
    <3>2. s.starving <= s.clock
      BY <3>1 DEF Owed
    <3>3. w <= c
      BY <2>1, <2>2, <2>4, <2>6, <3>2
    <3>4. CASE s.refill = 0
      <4>1. s.queue # <<>> => s.clock = 0
        BY <3>1, <3>4 DEF Served
      <4>2. s.queue # <<>> => w <= Late
        BY <2>1, <2>2, <2>6, <3>2, <4>1
      <4>3. QED
        BY <2>6, <2>8, <3>3, <3>4, <4>2 DEF Owed
    <3>5. CASE s.refill # 0
      <4>1. s.starving * Bandwidth
              <= s.tokens + (s.clock - s.refill) * Bandwidth + Late * Bandwidth
        BY <3>1, <3>5 DEF Owed
      <4>2. Late * Bandwidth \in Nat /\ s.starving * Bandwidth \in Nat /\ 0 * Bandwidth = 0
        <5>1. \A x, y \in Nat : x * y \in Nat
          OBVIOUS
        <5>2. QED
          BY <2>1, <2>2, <5>1, Constants
      <4>3. w * Bandwidth <= s.tokens + (c - s.refill) * Bandwidth + Late * Bandwidth
        <5>1. CASE s.queue = <<>>
          BY <2>1, <2>3, <2>6, <2>11, <3>5, <4>2, <5>1
        <5>2. CASE s.queue # <<>>
          <6>1. \A x, y, z \in Int : (x + y) * z = x * z + y * z
            OBVIOUS
          <6>2. w * Bandwidth = s.starving * Bandwidth + f
            BY <2>1, <2>2, <2>6, <5>2, <6>1, Constants DEF f
          <6>3. QED
            BY <2>1, <2>3, <2>11, <3>5, <4>1, <4>2, <6>2
        <5>3. QED
          BY <5>1, <5>2
      <4>4. QED
        BY <2>6, <2>8, <3>3, <3>5, <4>3 DEF Owed
    <3>6. QED
      BY <3>4, <3>5
  <2>17. QED
    BY <2>7, <2>8, <2>13, <2>14, <2>15, <2>16, <1>2 DEF Paying
<1>3. QED
  BY <1>1, <1>2

-----------------------------------------------------------------------------
(* The pump.                                                               *)

LEMMA RateIs ==
  ASSUME NEW t, t \in Tracks
  PROVE  EffectiveRate(t) \in Nat /\ EffectiveRate(t) > 0
BY Constants DEF EffectiveRate

LEMMA Multiple ==
  ASSUME NEW a, a \in Nat, NEW b, b \in Nat, b > 0
  PROVE  (a * b) \div b = a
<1>1. b * a + 0 = a * b /\ 0 \in 0 .. b - 1
  OBVIOUS
<1>2. (b * a + 0) \div b = a
  BY <1>1, Remainder
<1>3. QED
  BY <1>1, <1>2

\* Timestamps are multiples of the number of the packet, and rise with it.
LEMMA StampIs ==
  ASSUME NEW t, t \in Tracks
  PROVE  \E g \in Nat : g > 0 /\ \A n \in Nat : Stamp(t, n) = n * g
<1>1. \A x, y \in Nat : x * y \in Nat
  OBVIOUS
<1>2. QuirkRate \in Nat /\ QuirkRate > 0 /\ Rate[t] \in Nat /\ Rate[t] > 0
  BY Constants
<1>3. CASE t # "video"
  <2>1. \A n \in Nat : Stamp(t, n) = n * 1
    BY <1>3 DEF Stamp
  <2>2. QED
    BY <2>1
<1>4. CASE t = "video" /\ "fps" \in pumpQuirks
  <2>1. \A n \in Nat : Stamp(t, n) = n * Rate[t]
    <3>1. SUFFICES ASSUME NEW n, n \in Nat PROVE Stamp(t, n) = n * Rate[t]
      OBVIOUS
    <3>2. Stamp(t, n) = (n * QuirkRate * Rate[t]) \div QuirkRate
      BY <1>4 DEF Stamp, EffectiveRate
    <3>3. n * QuirkRate * Rate[t] = (n * Rate[t]) * QuirkRate /\ n * Rate[t] \in Nat
      BY <1>1, <1>2, <3>1
    <3>4. QED
      BY <1>2, <3>2, <3>3, Multiple
  <2>2. QED
    BY <1>2, <2>1
<1>5. CASE t = "video" /\ "fps" \notin pumpQuirks
  <2>1. \A n \in Nat : Stamp(t, n) = n * QuirkRate
    <3>1. SUFFICES ASSUME NEW n, n \in Nat PROVE Stamp(t, n) = n * QuirkRate
      OBVIOUS
    <3>2. Stamp(t, n) = (n * QuirkRate * Rate[t]) \div Rate[t]
      BY <1>5 DEF Stamp, EffectiveRate
    <3>3. n * QuirkRate \in Nat
      BY <1>1, <1>2, <3>1
    <3>4. QED
      BY <1>2, <3>2, <3>3, Multiple
  <2>2. QED
    BY <1>2, <2>1
<1>6. QED
  BY <1>3, <1>4, <1>5

LEMMA StampRises ==
  ASSUME NEW t, t \in Tracks, NEW a, a \in Nat, NEW b, b \in Nat
  PROVE  /\ Stamp(t, a) \in Nat
         /\ a < b => Stamp(t, a) < Stamp(t, b)
         /\ a <= b => Stamp(t, a) <= Stamp(t, b)
<1>1. PICK g \in Nat : g > 0 /\ \A n \in Nat : Stamp(t, n) = n * g
  BY StampIs
<1>2. Stamp(t, a) = a * g /\ Stamp(t, b) = b * g
  BY <1>1
<1>3. \A x, y \in Nat : x * y \in Nat
  OBVIOUS
<1>4. a * g \in Nat /\ b * g \in Nat
  BY <1>3
<1>5. a < b => a * g < b * g
  <2>1. SUFFICES ASSUME a < b PROVE a * g < b * g
    OBVIOUS
  <2>2. b - a - 1 \in Nat /\ b = a + 1 + (b - a - 1)
    BY <2>1
  <2>3. b * g = a * g + g + (b - a - 1) * g
    BY <2>2
  <2>4. (b - a - 1) * g \in Nat
    BY <1>3, <2>2
  <2>5. QED
    BY <1>1, <1>4, <2>3, <2>4
<1>6. a = b => a * g = b * g
  OBVIOUS
<1>7. a <= b => a < b \/ a = b
  OBVIOUS
<1> HIDE DEF Stamp
<1>8. QED
  BY <1>2, <1>4, <1>5, <1>6, <1>7

LEMMA TargetIs ==
  ASSUME NEW t, t \in Tracks, count[t] \in Nat, base[t] \in Nat, elapsed \in Nat
  PROVE  /\ Target(t) \in Nat /\ FirstDue(t) \in Nat /\ FirstDue(t) >= count[t]
         /\ Most(count[t], Target(t)) \in Nat
<1>1. (elapsed * EffectiveRate(t)) \div Span \in Nat
  <2>1. \A x, y \in Nat : x * y \in Nat /\ (y > 0 => x \div y \in Nat)
    OBVIOUS
  <2>2. QED
    BY <2>1, RateIs, Constants
<1>2. Target(t) \in Nat /\ Target(t) > 0
  BY <1>1 DEF Target
<1>3. QED
  BY <1>2, Constants DEF FirstDue, Most

LEMMA GoesOn ==
  ASSUME NEW s, Fit(s), NEW r, Goes(s, r), NEW u, Goes(r, u)
  PROVE  Goes(s, u)
<1>1. Orderly(s) => Orderly(u) /\ u.last >= s.last
  <2>1. SUFFICES ASSUME Orderly(s) PROVE Orderly(u) /\ u.last >= s.last
    OBVIOUS
  <2>2. Orderly(r) /\ Orderly(u) /\ r.last >= s.last /\ u.last >= r.last
    BY <2>1 DEF Goes
  <2>3. s \in State /\ r \in State /\ u \in State
    BY DEF Goes, Fit, Booked
  <2>4. s.last \in Int /\ r.last \in Int /\ u.last \in Int
    BY <2>3 DEF State
  <2>5. QED
    BY <2>2, <2>4
<1>2. QED
  BY <1>1 DEF Goes

LEMMA GoesNowhere ==
  ASSUME NEW s, Fit(s)
  PROVE  Goes(s, s)
<1>1. s.last \in Int
  BY DEF Fit, Booked, State
<1>2. QED
  BY <1>1 DEF Goes

\* The packets of a tick, one after the other.
LEMMA PumpedIs ==
  ASSUME NEW t, t \in Tracks, NEW lost, NEW n, n = Most(Target(t) - FirstDue(t), 0), n \in Nat
  PROVE  \E f : /\ f[0] = sender[t] /\ Pumped(t, lost) = f[n]
                /\ \A i \in 1 .. n :
                     f[i] = SendPacket(f[i - 1], Size[(FirstDue(t) + i - 1) % 2],
                                       Stamp(t, FirstDue(t) + i - 1), lost)
<1> DEFINE first == FirstDue(t)
           Step(s, i) == SendPacket(s, Size[(first + i - 1) % 2], Stamp(t, first + i - 1), lost)
           B(f, i) == IF i = 0 THEN sender[t] ELSE Step(f[i - 1], i)
           G == CHOOSE g : g = [i \in 0 .. n |-> IF i = 0 THEN sender[t] ELSE
                  SendPacket(g[i - 1], Size[(first + i - 1) % 2], Stamp(t, first + i - 1), lost)]
<1>1. Pumped(t, lost) = G[n]
  BY DEF Pumped
<1>2. G = CHOOSE g : g = [i \in 0 .. n |-> B(g, i)]
  OBVIOUS
<1> HIDE DEF first, Step, G
<1>3. \A k \in 0 .. n : \E f : f = [i \in 0 .. k |-> B(f, i)]
  <2> DEFINE S == {k \in 0 .. n : ~ \E f : f = [i \in 0 .. k |-> B(f, i)]}
  <2>1. SUFFICES ASSUME S # {} PROVE FALSE
    OBVIOUS
  <2>2. S \in SUBSET Nat
    OBVIOUS
  <2>3. PICK k \in S : \A m \in S : k <= m
    <3> HIDE DEF S
    <3>1. QED
      BY <2>1, <2>2, Smallest
  <2>4. CASE k = 0
    <3> DEFINE f == [i \in 0 .. 0 |-> sender[t]]
    <3>1. f = [i \in 0 .. 0 |-> B(f, i)]
      OBVIOUS
    <3>2. QED
      BY <2>3, <2>4, <3>1
  <2>5. CASE k # 0
    <3>1. k \in 1 .. n /\ k - 1 \in 0 .. n /\ k - 1 \notin S
      <4>1. k \in 0 .. n
        BY <2>3
      <4> HIDE DEF S
      <4>2. QED
        BY <2>2, <2>3, <2>5, <4>1
    <3>2. PICK f : f = [i \in 0 .. k - 1 |-> B(f, i)]
      BY <3>1
    <3> DEFINE g == [i \in 0 .. k |-> IF i = k THEN B(f, k) ELSE f[i]]
    <3>3. \A i \in 0 .. k : g[i] = B(g, i)
      <4> SUFFICES ASSUME NEW i \in 0 .. k PROVE g[i] = B(g, i)
        OBVIOUS
      <4>1. CASE i = k
        <5>1. g[i - 1] = f[i - 1]
          BY <3>1, <4>1
        <5>2. QED
          BY <3>1, <4>1, <5>1
      <4>2. CASE i # k
        <5>1. i \in 0 .. k - 1 /\ g[i] = f[i]
          BY <3>1, <4>2
        <5>2. i # 0 => g[i - 1] = f[i - 1]
          <6>1. i # 0 => i - 1 \in 0 .. k /\ i - 1 # k
            BY <3>1, <4>2
          <6>2. QED
            BY <6>1
        <5>3. f[i] = B(f, i)
          BY <3>2, <5>1
        <5>4. QED
          BY <5>1, <5>2, <5>3
      <4>3. QED
        BY <4>1, <4>2
    <3>4. g = [i \in 0 .. k |-> B(g, i)]
      <4>1. g = [i \in 0 .. k |-> g[i]]
        OBVIOUS
      <4> HIDE DEF g
      <4>2. QED
        BY <3>3, <4>1
    <3>5. QED
      BY <2>3, <3>4
  <2>6. QED
    BY <2>4, <2>5
<1>4. G = [i \in 0 .. n |-> B(G, i)]
  <2>1. \E g : g = [i \in 0 .. n |-> B(g, i)]
    BY <1>3
  <2>2. QED
    BY <1>2, <2>1
<1>5. \A i \in 0 .. n : G[i] = B(G, i)
  BY <1>4
<1>6. G[0] = sender[t] /\ \A i \in 1 .. n : G[i] = Step(G[i - 1], i)
  BY <1>5
<1>7. \A i \in 1 .. n : G[i] = SendPacket(G[i - 1], Size[(FirstDue(t) + i - 1) % 2],
                                          Stamp(t, FirstDue(t) + i - 1), lost)
  BY <1>6 DEF Step, first
<1>8. QED
  BY <1>1, <1>6, <1>7

LEMMA PumpedWorks ==
  ASSUME NEW t, t \in Tracks, count[t] \in Nat, base[t] \in Nat, elapsed \in Nat,
         Fit(sender[t]), sender[t].running, NEW lost, lost \in BOOLEAN
  PROVE  LET s == sender[t]  r == Pumped(t, lost)
         IN /\ Goes(s, r)
            /\ \/ r.stamp = s.stamp
               \/ \E j \in Nat : j >= count[t] /\ j < Most(count[t], Target(t))
                                 /\ r.stamp = Stamp(t, j)
<1> DEFINE s == sender[t]
           r == Pumped(t, lost)
           first == FirstDue(t)
           n == Most(Target(t) - first, 0)
           top == Most(count[t], Target(t))
           New(x) == x.stamp = s.stamp
                     \/ \E j \in Nat : j >= count[t] /\ j < top /\ x.stamp = Stamp(t, j)
<1>1. /\ Target(t) \in Nat /\ first \in Nat /\ first >= count[t] /\ top \in Nat
  BY TargetIs
<1>2. n \in Nat /\ (n > 0 => n = Target(t) - first /\ Target(t) > count[t])
      /\ (Target(t) > count[t] => top = Target(t))
  BY <1>1 DEF Most
<1>3. PICK f : /\ f[0] = s /\ r = f[n]
               /\ \A i \in 1 .. n :
                     f[i] = SendPacket(f[i - 1], Size[(first + i - 1) % 2],
                                       Stamp(t, first + i - 1), lost)
  BY <1>2, PumpedIs
<1> HIDE DEF s, r, first, n, top
<1> DEFINE S == {i \in 0 .. n : ~(Goes(s, f[i]) /\ New(f[i]))}
<1>4. S = {}
  <2>1. SUFFICES ASSUME S # {} PROVE FALSE
    OBVIOUS
  <2>2. S \in SUBSET Nat
    BY <1>2
  <2>3. PICK i \in S : \A m \in S : i <= m
    <3> HIDE DEF S
    <3>1. QED
      BY <2>1, <2>2, Smallest
  <2>4. i \in 0 .. n /\ ~(Goes(s, f[i]) /\ New(f[i]))
    OBVIOUS
  <2>5. Goes(s, s) /\ Fit(s)
    BY GoesNowhere DEF s
  <2>6. i # 0
    BY <1>3, <2>4, <2>5
  <2>7. i \in 1 .. n /\ i - 1 \in 0 .. n /\ i - 1 \notin S /\ i \in Nat /\ n > 0
    <3> HIDE DEF S
    <3>1. QED
      BY <1>2, <2>2, <2>3, <2>4, <2>6
  <2>8. Goes(s, f[i - 1]) /\ New(f[i - 1])
    BY <2>7
  <2> DEFINE j == first + i - 1
             x == f[i - 1]
             y == SendPacket(x, Size[j % 2], Stamp(t, j), lost)
  <2>9. f[i] = y
    BY <1>3, <2>7
  <2>10. j \in Nat /\ j >= count[t] /\ j < top
    BY <1>1, <1>2, <2>7
  <2> HIDE DEF j
  <2>11. Size[j % 2] \in 1 .. Biggest /\ Stamp(t, j) \in Int
    BY <2>10, Sizes, StampRises
  <2>12. Fit(x) /\ x.running
    BY <2>8 DEF Goes, s
  <2> HIDE DEF x, New
  <2>13. Goes(x, y) /\ y.stamp \in {x.stamp, Stamp(t, j)}
    BY <2>11, <2>12, SendWorks
  <2> HIDE DEF y
  <2>14. Goes(s, y)
    BY <2>5, <2>8, <2>13, GoesOn DEF x
  <2>15. New(y)
    BY <2>8, <2>10, <2>13 DEF x, New
  <2>16. QED
    BY <2>4, <2>9, <2>14, <2>15
<1>5. Goes(s, f[n]) /\ New(f[n])
  <2>1. n \in 0 .. n /\ n \notin S
    BY <1>2, <1>4
  <2>2. QED
    BY <2>1
<1>6. QED
  BY <1>3, <1>5 DEF s, r, top

-----------------------------------------------------------------------------
(* The inductive invariant.                                                *)

\* One track: its accounts, its rate timer, its bucket, its order and its timestamps.
Track(t) ==
  /\ count[t] \in Nat /\ base[t] \in Nat
  /\ Fit(sender[t]) /\ sender[t].running = (t \in up)
  /\ t \in due => sender[t].timer
  /\ Paying(sender[t], t \in due)
  /\ t \in spilled \/ (Lined(sender[t]) /\ ("limit" \in pumpQuirks \/ sender[t].queue = <<>>))
  /\ steady => sender[t].stamp < Stamp(t, count[t])

PumpInv ==
  /\ setup \subseteq Tracks /\ up \subseteq setup /\ pump = (up # {})
  /\ elapsed \in Nat /\ pumpQuirks \subseteq PumpQuirk /\ due \subseteq Tracks \cup {"pump"}
  /\ sender = [t \in Tracks |-> sender[t]]
  /\ \A t \in Tracks : Track(t)

\* What a step does to what was written and stamped last.
Rises(t) ==
  /\ sender'[t].last >= sender[t].last \/ t \in spilled
  /\ steady' /\ sender'[t].stamp # sender[t].stamp => sender'[t].stamp > sender[t].stamp

LEMMA TrackIs ==
  ASSUME NEW t, t \in Tracks, Track(t)
  PROVE  /\ sender[t] \in State /\ sender[t].last \in Int /\ sender[t].stamp \in Int
         /\ t \in spilled \/ Orderly(sender[t])
         /\ Stamp(t, count[t]) \in Nat
<1>1. sender[t] \in State
  BY DEF Track, Fit, Booked
<1>2. QED
  BY <1>1, StampRises DEF Track, Orderly, State

LEMMA SameStamp ==
  ASSUME NEW t, t \in Tracks, ("fps" \in pumpQuirks') = ("fps" \in pumpQuirks), NEW n
  PROVE  Stamp(t, n)' = Stamp(t, n)
BY DEF Stamp, EffectiveRate

LEMMA InitWorks ==
  ASSUME PumpInit
  PROVE  PumpInv
<1>1. /\ setup = {} /\ up = {} /\ pump = FALSE /\ elapsed = 0 /\ due = {}
      /\ sender = [t \in Tracks |-> Sender]
      /\ pumpQuirks \subseteq PumpQuirk
  BY MediaPumpAssumption DEF PumpInit
<1>2. ASSUME NEW t, t \in Tracks PROVE Track(t)
  <2>1. /\ count[t] = 0 /\ base[t] = 0 /\ sender[t] = Sender /\ t \notin up /\ t \notin due
    BY <1>2 DEF PumpInit
  <2>2. Stamp(t, 0) \in Nat
    BY <1>2, StampRises
  <2>3. Paying(Sender, t \in due)
    <3>1. (t \in due) = FALSE
      BY <2>1
    <3>2. QED
      BY <3>1, FirstWorks
  <2>4. Sender.running = (t \in up)
    <3>1. Sender.running = FALSE /\ (t \in up) = FALSE
      BY <2>1 DEF Sender
    <3>2. QED
      BY <3>1
  <2>5. QED
    BY <2>1, <2>2, <2>3, <2>4, FirstWorks DEF Track, Orderly
<1>3. QED
  BY <1>1, <1>2 DEF PumpInv

\* A track of which nothing changes but what is said here.
LEMMA TrackStays ==
  ASSUME NEW t, t \in Tracks, Track(t), sender'[t] = sender[t], count'[t] = count[t],
         base'[t] \in Nat, (t \in up') = (t \in up), (t \in due') = (t \in due),
         UNCHANGED <<pumpQuirks, steady, spilled>>
  PROVE  Track(t)' /\ Rises(t)
<1>1. Stamp(t, count[t])' = Stamp(t, count[t])
  BY DEF Stamp, EffectiveRate
<1>2. Paying(sender[t], t \in due)'
  BY DEF Track, Paying
<1>3. Track(t)'
  BY <1>1, <1>2 DEF Track
<1>4. Rises(t)
  BY TrackIs DEF Rises
<1>5. QED
  BY <1>3, <1>4

\* A track whose sender took a step that keeps its promises.
LEMMA TrackMoves ==
  ASSUME NEW t, t \in Tracks, Track(t), NEW r, sender'[t] = r, Fit(r),
         count'[t] \in Nat, base'[t] \in Nat, r.running = (t \in up'),
         t \in due' => r.timer, Paying(r, t \in due'),
         Orderly(sender[t]) => Lined(r) /\ ("limit" \in pumpQuirks \/ r.queue = <<>>)
                               /\ r.last >= sender[t].last,
         steady => r.stamp < Stamp(t, count'[t]),
         steady /\ r.stamp # sender[t].stamp => r.stamp > sender[t].stamp,
         UNCHANGED <<pumpQuirks, steady, spilled>>
  PROVE  Track(t)' /\ Rises(t)
<1>1. Stamp(t, count[t])' = Stamp(t, count'[t])
  BY DEF Stamp, EffectiveRate
<1>2. Fit(sender[t])' /\ Paying(sender[t], t \in due)'
  BY DEF Paying
<1>3. t \in spilled \/ Orderly(sender[t])
  BY TrackIs
<1>4. (t \in spilled \/ (Lined(sender[t]) /\ ("limit" \in pumpQuirks \/ sender[t].queue = <<>>)))'
  BY <1>3
<1>5. (steady => sender[t].stamp < Stamp(t, count[t]))'
  BY <1>1
<1>6. Track(t)'
  BY <1>2, <1>4, <1>5 DEF Track
<1>7. Rises(t)
  BY <1>3 DEF Rises
<1>8. QED
  BY <1>6, <1>7

LEMMA PumpTickWorks ==
  ASSUME PumpInv, PumpTick
  PROVE  PumpInv' /\ \A t \in Tracks : Rises(t)
<1>1. /\ count' = [t \in Tracks |-> IF t \in up THEN Most(count[t], Target(t)) ELSE count[t]]
      /\ due' = due \ {"pump"}
      /\ UNCHANGED <<setup, up, pump, elapsed, base, pumpQuirks, choked, time, switches, steady,
                     spilled>>
  BY DEF PumpTick
<1>2. PICK lossy : sender' = [t \in Tracks |-> IF t \in up THEN Pumped(t, t \in lossy)
                                               ELSE sender[t]]
  BY DEF PumpTick
<1>3. ASSUME NEW t, t \in Tracks PROVE Track(t)' /\ Rises(t)
  <2>1. Track(t) /\ elapsed \in Nat /\ t # "pump"
    BY <1>3, MediaPumpAssumption DEF PumpInv
  <2>2. (t \in due') = (t \in due) /\ (t \in up') = (t \in up)
    BY <1>1, <2>1
  <2>3. CASE t \notin up
    <3>1. sender'[t] = sender[t] /\ count'[t] = count[t] /\ base'[t] \in Nat
      BY <1>1, <1>2, <1>3, <2>1, <2>3 DEF Track
    <3>2. QED
      BY <1>1, <1>3, <2>1, <2>2, <3>1, TrackStays
  <2>4. CASE t \in up
    <3> DEFINE s == sender[t]
               lost == t \in lossy
               r == Pumped(t, lost)
               top == Most(count[t], Target(t))
    <3>1. sender'[t] = r /\ count'[t] = top
      BY <1>1, <1>2, <1>3, <2>4
    <3>2. /\ Fit(s) /\ s.running = TRUE /\ count[t] \in Nat /\ base[t] \in Nat
          /\ (t \in due => s.timer) /\ Paying(s, t \in due)
          /\ (steady => s.stamp < Stamp(t, count[t]))
      BY <2>1, <2>4 DEF Track
    <3>3. lost \in BOOLEAN
      OBVIOUS
    <3> HIDE DEF lost
    <3>4. /\ Goes(s, r)
          /\ \/ r.stamp = s.stamp
             \/ \E j \in Nat : j >= count[t] /\ j < top /\ r.stamp = Stamp(t, j)
      BY <1>3, <2>1, <3>2, <3>3, PumpedWorks
    <3>5. top \in Nat /\ top >= count[t]
      BY <1>3, <2>1, <3>2, TargetIs DEF Most
    <3>6. s.stamp \in Int
      BY <1>3, <2>1, TrackIs
    <3> HIDE DEF r, top, s
    <3>7. /\ steady => r.stamp < Stamp(t, top)
          /\ steady /\ r.stamp # s.stamp => r.stamp > s.stamp
      <4>1. /\ Stamp(t, count[t]) \in Nat /\ Stamp(t, top) \in Nat
            /\ Stamp(t, count[t]) <= Stamp(t, top)
        BY <1>3, <3>2, <3>5, StampRises
      <4>2. CASE r.stamp = s.stamp
        BY <3>2, <3>6, <4>1, <4>2
      <4>3. CASE \E j \in Nat : j >= count[t] /\ j < top /\ r.stamp = Stamp(t, j)
        <5>1. PICK j \in Nat : j >= count[t] /\ j < top /\ r.stamp = Stamp(t, j)
          BY <4>3
        <5>2. /\ Stamp(t, j) \in Nat /\ Stamp(t, j) < Stamp(t, top)
              /\ Stamp(t, count[t]) <= Stamp(t, j)
          BY <1>3, <3>2, <3>5, <5>1, StampRises
        <5>3. QED
          BY <3>2, <3>6, <4>1, <5>1, <5>2
      <4>4. QED
        BY <3>4, <4>2, <4>3
    <3>8. /\ Fit(r) /\ r.running = (t \in up') /\ (t \in due' => r.timer) /\ Paying(r, t \in due')
      <4>1. (t \in due) \in BOOLEAN
        OBVIOUS
      <4>2. Paying(r, t \in due)
        BY <3>2, <3>4, <4>1 DEF Goes
      <4>3. QED
        BY <2>2, <2>4, <3>2, <3>4, <4>2 DEF Goes
    <3>9. Orderly(s) => Lined(r) /\ ("limit" \in pumpQuirks \/ r.queue = <<>>) /\ r.last >= s.last
      BY <3>4 DEF Goes, Orderly
    <3>10. base'[t] \in Nat
      BY <1>1, <3>2
    <3>11. QED
      BY <1>1, <1>3, <2>1, <3>1, <3>5, <3>7, <3>8, <3>9, <3>10, TrackMoves DEF s
  <2>5. QED
    BY <2>3, <2>4
<1>4. sender' = [t \in Tracks |-> sender'[t]]
  BY <1>2
<1>5. QED
  BY <1>1, <1>3, <1>4 DEF PumpInv

LEMMA RateTickWorks ==
  ASSUME PumpInv, NEW u, u \in Tracks, RateTick(u)
  PROVE  PumpInv' /\ \A t \in Tracks : Rises(t)
<1> DEFINE y == DrainQueue(sender[u])
           r == [y EXCEPT !.timer = y.queue # <<>>]
<1>1. /\ u \in due /\ due' = due \ {u}
      /\ sender' = [sender EXCEPT ![u] = r]
      /\ UNCHANGED <<setup, up, pump, elapsed, count, base, pumpQuirks, choked, time, switches,
                     steady, spilled>>
  BY DEF RateTick
<1>2. sender' = [t \in Tracks |-> IF t = u THEN r ELSE sender[t]]
  <2>1. sender = [t \in Tracks |-> sender[t]]
    BY DEF PumpInv
  <2> HIDE DEF r
  <2>2. QED
    BY <1>1, <2>1
<1>3. ASSUME NEW t, t \in Tracks PROVE Track(t)' /\ Rises(t)
  <2>1. Track(t)
    BY <1>3 DEF PumpInv
  <2>2. CASE t # u
    <3>1. sender'[t] = sender[t]
      BY <1>2, <1>3, <2>2
    <3>2. base'[t] \in Nat /\ count'[t] = count[t]
      BY <1>1, <2>1 DEF Track
    <3>3. (t \in due') = (t \in due) /\ (t \in up') = (t \in up)
      BY <1>1, <2>2
    <3>4. QED
      BY <1>1, <1>3, <2>1, <3>1, <3>2, <3>3, TrackStays
  <2>3. CASE t = u
    <3> DEFINE s == sender[t]
    <3>1. /\ Fit(s) /\ s.running = (t \in up) /\ s.timer /\ Paying(s, TRUE)
          /\ count[t] \in Nat /\ base[t] \in Nat /\ (steady => s.stamp < Stamp(t, count[t]))
      <4>1. (t \in due) = TRUE
        BY <1>1, <2>3
      <4>2. QED
        BY <2>1, <4>1 DEF Track
    <3>2. s.running
      BY <3>1 DEF Fit
    <3>3. /\ Fit(r) /\ r.running /\ r.stamp = s.stamp
          /\ Orderly(s) => Orderly(r) /\ r.last >= s.last
          /\ Paying(s, TRUE) => Paying(r, FALSE)
      BY <2>3, <3>1, <3>2, TickWorks
    <3>4. sender'[t] = r
      BY <1>2, <1>3, <2>3
    <3> HIDE DEF r, s
    <3>5. (t \in due') = FALSE /\ (t \in up') = TRUE
      <4>1. t \in up
        BY <3>1, <3>2
      <4>2. t \notin due' /\ t \in up'
        BY <1>1, <2>3, <4>1
      <4>3. QED
        BY <4>2
    <3>6. r.running = (t \in up')
      <4>1. r.running \in BOOLEAN
        BY <3>3 DEF Fit, Booked, State
      <4>2. QED
        BY <3>3, <3>5, <4>1
    <3>7. Paying(r, t \in due')
      BY <3>1, <3>3, <3>5
    <3>8. Orderly(s) => Lined(r) /\ ("limit" \in pumpQuirks \/ r.queue = <<>>) /\ r.last >= s.last
      BY <3>3 DEF Orderly
    <3>9. /\ count'[t] \in Nat /\ base'[t] \in Nat /\ (steady => r.stamp < Stamp(t, count'[t]))
      BY <1>1, <3>1, <3>3
    <3>10. QED
      BY <1>1, <1>3, <2>1, <3>3, <3>4, <3>5, <3>6, <3>7, <3>8, <3>9, TrackMoves DEF s
  <2>4. QED
    BY <2>2, <2>3
<1>4. sender' = [t \in Tracks |-> sender'[t]]
  BY <1>2
<1>5. due' \subseteq Tracks \cup {"pump"}
  BY <1>1 DEF PumpInv
<1>6. QED
  BY <1>1, <1>3, <1>4, <1>5 DEF PumpInv

LEMMA AdvanceWorks ==
  ASSUME PumpInv, NEW d, d \in 1 .. Late, Advance(d)
  PROVE  PumpInv' /\ \A t \in Tracks : Rises(t)
<1>1. /\ due = {} /\ elapsed' = (IF pump THEN elapsed + d ELSE elapsed)
      /\ sender' = [t \in Tracks |-> Later(sender[t], d)]
      /\ due' = (IF pump THEN {"pump"} ELSE {}) \cup {t \in Tracks : sender[t].timer}
      /\ UNCHANGED <<setup, up, pump, count, base, pumpQuirks, choked, switches, steady, spilled>>
  BY DEF Advance, Later
<1>2. ASSUME NEW t, t \in Tracks PROVE Track(t)' /\ Rises(t)
  <2> DEFINE s == sender[t]
             r == Later(s, d)
  <2>1. Track(t) /\ t # "pump"
    BY <1>2, MediaPumpAssumption DEF PumpInv
  <2>2. sender'[t] = r
    BY <1>1, <1>2
  <2>3. /\ Fit(s) /\ s.running = (t \in up) /\ Paying(s, FALSE)
        /\ count[t] \in Nat /\ base[t] \in Nat /\ (steady => s.stamp < Stamp(t, count[t]))
    <3>1. (t \in due) = FALSE
      BY <1>1
    <3>2. QED
      BY <2>1, <3>1 DEF Track
  <2>4. /\ Fit(r) /\ r.running = s.running /\ r.timer = s.timer /\ r.stamp = s.stamp
        /\ r.last = s.last /\ (Orderly(s) => Orderly(r)) /\ Paying(r, s.timer)
    BY <2>3, LaterWorks
  <2>5. s.last \in Int /\ s.timer \in BOOLEAN
    BY <1>2, <2>1, TrackIs DEF State
  <2> HIDE DEF r, s
  <2>6. (t \in due') = s.timer /\ (t \in up') = (t \in up)
    BY <1>1, <1>2, <2>1, <2>5 DEF s
  <2>7. /\ r.running = (t \in up') /\ (t \in due' => r.timer) /\ Paying(r, t \in due')
    BY <2>3, <2>4, <2>6
  <2>8. Orderly(s) => Lined(r) /\ ("limit" \in pumpQuirks \/ r.queue = <<>>) /\ r.last >= s.last
    BY <2>4, <2>5 DEF Orderly
  <2>9. /\ count'[t] \in Nat /\ base'[t] \in Nat /\ (steady => r.stamp < Stamp(t, count'[t]))
    BY <1>1, <2>3, <2>4
  <2>10. QED
    BY <1>1, <1>2, <2>1, <2>2, <2>4, <2>7, <2>8, <2>9, TrackMoves DEF s
<1>3. sender' = [t \in Tracks |-> sender'[t]]
  BY <1>1
<1>4. due' \subseteq Tracks \cup {"pump"}
  BY <1>1
<1>5. elapsed' \in Nat
  BY <1>1 DEF PumpInv
<1>6. QED
  BY <1>1, <1>2, <1>3, <1>4, <1>5 DEF PumpInv

LEMMA PlayWorks ==
  ASSUME PumpInv, PlayTracks
  PROVE  PumpInv' /\ \A t \in Tracks : Rises(t)
<1>1. /\ setup # {} /\ up' = setup
      /\ sender' = [t \in Tracks |-> IF t \in setup THEN Start(sender[t]) ELSE sender[t]]
      /\ UNCHANGED <<setup, pumpQuirks, choked, due, time, switches, steady, spilled>>
  BY DEF PlayTracks
<1>2. /\ pump' = TRUE /\ count' = count /\ elapsed' \in Nat
      /\ \A t \in Tracks : base'[t] \in Nat
  <2>1. \A t \in Tracks : count[t] \in Nat /\ base[t] \in Nat
    BY DEF PumpInv, Track
  <2>2. QED
    BY <2>1 DEF PlayTracks, StartPump, PumpInv
<1>3. ASSUME NEW t, t \in Tracks PROVE Track(t)' /\ Rises(t)
  <2>1. Track(t)
    BY <1>3 DEF PumpInv
  <2>2. CASE t \notin setup
    <3>1. sender'[t] = sender[t]
      BY <1>1, <1>3, <2>2
    <3>2. (t \in up') = (t \in up) /\ (t \in due') = (t \in due)
      BY <1>1, <2>2 DEF PumpInv
    <3>3. count'[t] = count[t] /\ base'[t] \in Nat
      BY <1>2, <1>3
    <3>4. QED
      BY <1>1, <1>3, <2>1, <3>1, <3>2, <3>3, TrackStays
  <2>3. CASE t \in setup
    <3> DEFINE s == sender[t]
               r == Start(s)
    <3>1. sender'[t] = r
      BY <1>1, <1>3, <2>3
    <3>2. /\ Fit(s) /\ Paying(s, t \in due) /\ (t \in due => s.timer)
          /\ count[t] \in Nat /\ (steady => s.stamp < Stamp(t, count[t]))
      BY <2>1 DEF Track
    <3>3. /\ Fit(r) /\ r.running /\ r.timer = s.timer /\ r.stamp = s.stamp /\ r.last = s.last
          /\ Orderly(s) => Orderly(r)
          /\ \A waits \in BOOLEAN : Paying(s, waits) => Paying(r, waits)
      BY <3>2, StartWorks
    <3>4. s.last \in Int
      BY <1>3, <2>1, TrackIs
    <3> HIDE DEF r, s
    <3>5. r.running = (t \in up')
      <4>1. r.running \in BOOLEAN /\ (t \in up') = TRUE
        BY <1>1, <2>3, <3>3 DEF Fit, Booked, State
      <4>2. QED
        BY <3>3, <4>1
    <3>6. Paying(r, t \in due') /\ (t \in due' => r.timer)
      <4>1. (t \in due) \in BOOLEAN /\ (t \in due') = (t \in due)
        BY <1>1
      <4>2. QED
        BY <3>2, <3>3, <4>1
    <3>7. Orderly(s) => Lined(r) /\ ("limit" \in pumpQuirks \/ r.queue = <<>>) /\ r.last >= s.last
      BY <3>3, <3>4 DEF Orderly
    <3>8. /\ count'[t] \in Nat /\ base'[t] \in Nat /\ (steady => r.stamp < Stamp(t, count'[t]))
      BY <1>2, <1>3, <3>2, <3>3
    <3>9. QED
      BY <1>1, <1>3, <2>1, <3>1, <3>3, <3>5, <3>6, <3>7, <3>8, TrackMoves DEF s
  <2>4. QED
    BY <2>2, <2>3
<1>4. sender' = [t \in Tracks |-> sender'[t]]
  BY <1>1
<1>5. QED
  BY <1>1, <1>2, <1>3, <1>4 DEF PumpInv

LEMMA PauseWorks ==
  ASSUME PumpInv, PauseTracks
  PROVE  PumpInv' /\ \A t \in Tracks : Rises(t)
<1>1. /\ up' = {} /\ pump' = FALSE /\ due' = {}
      /\ sender' = [t \in Tracks |-> Stop(sender[t])]
      /\ UNCHANGED <<setup, elapsed, count, base, pumpQuirks, choked, time, switches, steady,
                     spilled>>
  BY DEF PauseTracks
<1>2. ASSUME NEW t, t \in Tracks PROVE Track(t)' /\ Rises(t)
  <2> DEFINE s == sender[t]
             r == Stop(s)
  <2>1. Track(t)
    BY <1>2 DEF PumpInv
  <2>2. sender'[t] = r
    BY <1>1, <1>2
  <2>3. /\ Fit(s) /\ Paying(s, t \in due) /\ count[t] \in Nat /\ base[t] \in Nat
        /\ (steady => s.stamp < Stamp(t, count[t]))
    BY <2>1 DEF Track
  <2>4. /\ Fit(r) /\ ~r.running /\ ~r.timer /\ r.stamp = s.stamp /\ r.last = s.last
        /\ Lined(s) => Orderly(r)
        /\ \A waits \in BOOLEAN : Paying(s, waits) => Paying(r, FALSE)
    BY <2>3, StopWorks
  <2>5. s.last \in Int
    BY <1>2, <2>1, TrackIs
  <2> HIDE DEF r, s
  <2>6. r.running = (t \in up')
    <3>1. r.running \in BOOLEAN /\ (t \in up') = FALSE
      BY <1>1, <2>4 DEF Fit, Booked, State
    <3>2. QED
      BY <2>4, <3>1
  <2>7. Paying(r, t \in due') /\ (t \in due' => r.timer)
    <3>1. (t \in due) \in BOOLEAN /\ (t \in due') = FALSE
      BY <1>1
    <3>2. QED
      BY <2>3, <2>4, <3>1
  <2>8. Orderly(s) => Lined(r) /\ ("limit" \in pumpQuirks \/ r.queue = <<>>) /\ r.last >= s.last
    BY <2>4, <2>5 DEF Orderly
  <2>9. /\ count'[t] \in Nat /\ base'[t] \in Nat /\ (steady => r.stamp < Stamp(t, count'[t]))
    BY <1>1, <2>3, <2>4
  <2>10. QED
    BY <1>1, <1>2, <2>1, <2>2, <2>4, <2>6, <2>7, <2>8, <2>9, TrackMoves DEF s
<1>3. sender' = [t \in Tracks |-> sender'[t]]
  BY <1>1
<1>4. QED
  BY <1>1, <1>2, <1>3 DEF PumpInv

\* Requests and the surroundings: no sender changes.
LEMMA RestWorks ==
  ASSUME PumpInv, (\E t \in Tracks : SetupTrack(t)) \/ Choke \/ UNCHANGED pumpVars
  PROVE  PumpInv' /\ \A t \in Tracks : Rises(t)
<1>1. /\ setup' \subseteq Tracks /\ setup \subseteq setup'
      /\ UNCHANGED <<up, pump, elapsed, count, base, sender, pumpQuirks, due, steady, spilled>>
  BY DEF PumpInv, SetupTrack, Choke, pumpVars
<1>2. ASSUME NEW t, t \in Tracks PROVE Track(t)' /\ Rises(t)
  <2>1. Track(t) /\ base[t] \in Nat
    BY <1>2 DEF PumpInv, Track
  <2>2. QED
    BY <1>1, <1>2, <2>1, TrackStays
<1>3. QED
  BY <1>1, <1>2 DEF PumpInv

LEMMA SetQuirkWorks ==
  ASSUME PumpInv, NEW q, q \in PumpQuirk, ToggleQuirk(q)
  PROVE  PumpInv' /\ \A t \in Tracks : Rises(t)
<1>1. /\ pumpQuirks' = (IF q \in pumpQuirks THEN pumpQuirks \ {q} ELSE pumpQuirks \cup {q})
      /\ steady' = (steady /\ q # "fps")
      /\ spilled' = IF q = "limit" /\ q \in pumpQuirks
                      THEN spilled \cup {t \in Tracks : sender[t].queue # <<>>} ELSE spilled
      /\ UNCHANGED <<setup, up, pump, elapsed, count, base, sender, due>>
  BY DEF ToggleQuirk
<1>2. pumpQuirks \subseteq PumpQuirk /\ pumpQuirks' \subseteq PumpQuirk
  BY <1>1 DEF PumpInv
<1>3. ASSUME NEW t, t \in Tracks PROVE Track(t)' /\ Rises(t)
  <2>1. Track(t)
    BY <1>3 DEF PumpInv
  <2>2. (steady => sender[t].stamp < Stamp(t, count[t]))'
    <3>1. SUFFICES ASSUME steady, q # "fps"
                   PROVE  sender'[t].stamp < Stamp(t, count[t])'
      BY <1>1
    <3>2. ("fps" \in pumpQuirks') = ("fps" \in pumpQuirks)
      BY <1>1, <3>1
    <3>3. Stamp(t, count[t])' = Stamp(t, count[t])
      BY <1>1, <3>2 DEF Stamp, EffectiveRate
    <3>4. QED
      BY <1>1, <2>1, <3>1, <3>3 DEF Track
  <2>3. (t \in spilled \/ (Lined(sender[t]) /\ ("limit" \in pumpQuirks \/ sender[t].queue = <<>>)))'
    <3>1. Lined(sender[t])' = Lined(sender[t]) /\ sender'[t].queue = sender[t].queue
      BY <1>1
    <3>2. QED
      BY <1>1, <1>3, <2>1, <3>1 DEF Track
  <2>4. Paying(sender[t], t \in due)' /\ Fit(sender[t])'
    BY <1>1, <2>1 DEF Track, Paying
  <2>5. Track(t)'
    BY <1>1, <2>1, <2>2, <2>3, <2>4 DEF Track
  <2>6. Rises(t)
    BY <1>1, <1>3, <2>1, TrackIs DEF Rises
  <2>7. QED
    BY <2>5, <2>6
<1>4. QED
  BY <1>1, <1>2, <1>3 DEF PumpInv

\* Every step keeps the invariant and moves on.
LEMMA StepWorks ==
  ASSUME PumpInv, [PumpNext]_pumpVars
  PROVE  PumpInv' /\ \A t \in Tracks : Rises(t)
BY PumpTickWorks, RateTickWorks, AdvanceWorks, PlayWorks, PauseWorks, RestWorks, SetQuirkWorks
   DEF PumpNext

-----------------------------------------------------------------------------
(* What the invariant says of the properties.                              *)

LEMMA AccountsHold ==
  ASSUME PumpInv
  PROVE  PumpTypeOK /\ Accounted /\ StoppedIsEmpty /\ RateKept
<1>1. ASSUME NEW t, t \in Tracks
      PROVE  LET s == sender[t]
             IN /\ {count[t], base[t], s.tokens, s.refill, s.clock, s.sent, s.dropped} \subseteq Nat
                /\ s.seq \in 0..SeqSpace - 1
                /\ Len(s.queue) <= MaxQueue
                /\ s.running = (t \in up)
                /\ s.queue # <<>> => s.timer
                /\ s.seq = (FirstSeq + Made(s)) % SeqSpace
                /\ ~s.running => s.queue = <<>> /\ ~s.timer
                /\ s.debt <= Full
  <2> DEFINE s == sender[t]
  <2>1. /\ Fit(s) /\ s.running = (t \in up) /\ count[t] \in Nat /\ base[t] \in Nat
    BY <1>1 DEF PumpInv, Track
  <2>2. s \in State
    BY <2>1 DEF Fit, Booked
  <2>3. {count[t], base[t], s.tokens, s.refill, s.clock, s.sent, s.dropped} \subseteq Nat
        /\ s.seq \in 0..SeqSpace - 1
    BY <2>1, <2>2 DEF State
  <2>4. QED
    BY <2>1, <2>3 DEF Fit, Booked
<1>2. PumpTypeOK
  BY <1>1 DEF PumpTypeOK, PumpInv
<1>3. Accounted /\ StoppedIsEmpty /\ RateKept
  BY <1>1 DEF Accounted, StoppedIsEmpty, RateKept, Full
<1>4. QED
  BY <1>2, <1>3

LEMMA PaidInTime ==
  ASSUME PumpInv, Biggest <= Full
  PROVE  RateHonoured
<1>1. SUFFICES ASSUME due = {}, NEW t, t \in Tracks
               PROVE  sender[t].starving <= (Biggest + Bandwidth - 1) \div Bandwidth + Late
  BY DEF RateHonoured
<1> DEFINE s == sender[t]
           w == s.starving
           n == (Biggest + Bandwidth - 1) \div Bandwidth
<1>2. s \in State /\ Owed(s) /\ Served(s)
  <2>1. (t \in due) = FALSE
    BY <1>1
  <2>2. Fit(s) /\ Paying(s, FALSE)
    BY <1>1, <2>1 DEF PumpInv, Track
  <2>3. QED
    BY <2>2 DEF Fit, Booked, Paying
<1>3. /\ s.tokens \in Nat /\ w \in Nat /\ s.clock \in Nat /\ Late \in Nat
      /\ Biggest \in Nat /\ Biggest > 0 /\ Bandwidth \in Nat /\ Bandwidth > 0
  BY <1>2, Sizes, Constants DEF State
<1>4. n \in Nat /\ Biggest + Bandwidth - 1 < Bandwidth * n + Bandwidth
  <2> DEFINE a == Biggest + Bandwidth - 1
  <2>1. a \in Nat /\ n = a \div Bandwidth
    BY <1>3
  <2> HIDE DEF a, n
  <2>2. n \in Nat /\ a = Bandwidth * n + (a % Bandwidth) /\ a % Bandwidth \in 0 .. Bandwidth - 1
    BY <1>3, <2>1
  <2>3. Bandwidth * n \in Nat
    <3>1. \A x, y \in Nat : x * y \in Nat
      OBVIOUS
    <3>2. QED
      BY <1>3, <2>2, <3>1
  <2>4. QED
    BY <1>3, <2>2, <2>3 DEF a
<1> HIDE DEF n, s
<1>5. CASE s.queue = <<>>
  BY <1>2, <1>3, <1>4, <1>5 DEF Owed, n, s
<1>6. CASE s.queue # <<>>
  <2>1. s.refill = s.clock /\ s.tokens < s.queue[1].size
    BY <1>2, <1>6 DEF Served
  <2>2. s.tokens < Biggest
    <3>1. s.queue \in Seq(Packet)
      BY <1>2 DEF State
    <3>2. s.queue[1] \in Packet
      BY <1>6, <3>1
    <3>3. s.queue[1].size \in Nat /\ s.queue[1].size <= Biggest
      BY <3>2, PacketIs
    <3>4. QED
      BY <1>3, <2>1, <3>3
  <2>3. CASE s.refill = 0
    BY <1>2, <1>3, <1>4, <2>1, <2>3 DEF Owed, n, s
  <2>4. CASE s.refill # 0
    <3>1. s.clock - s.refill = 0 /\ 0 * Bandwidth = 0
      BY <1>3, <2>1
    <3>2. w * Bandwidth <= s.tokens + 0 + Late * Bandwidth
      <4>1. w * Bandwidth <= s.tokens + (s.clock - s.refill) * Bandwidth + Late * Bandwidth
        BY <1>2, <2>4 DEF Owed
      <4>2. QED
        BY <3>1, <4>1
    <3>3. w <= n + Late
      <4>1. SUFFICES ASSUME w > n + Late PROVE FALSE
        BY <1>3, <1>4
      <4> DEFINE x == w - (n + Late + 1)
      <4>2. x \in Nat /\ w = n + Late + 1 + x
        BY <1>3, <1>4, <4>1
      <4> HIDE DEF x, w
      <4>3. w * Bandwidth = Bandwidth * n + Late * Bandwidth + Bandwidth + x * Bandwidth
        BY <1>3, <1>4, <4>2
      <4>4. x * Bandwidth \in Nat /\ Late * Bandwidth \in Nat /\ Bandwidth * n \in Nat
        <5>1. \A y, z \in Nat : y * z \in Nat
          OBVIOUS
        <5>2. QED
          BY <1>3, <1>4, <4>2, <5>1
      <4>5. QED
        BY <1>3, <1>4, <2>2, <3>2, <4>3, <4>4
    <3>4. QED
      BY <3>3 DEF n, s
  <2>5. QED
    BY <2>3, <2>4
<1>7. QED
  BY <1>5, <1>6

LEMMA PumpInvAlways == PumpSpec => []PumpInv
<1>1. PumpInit => PumpInv
  BY InitWorks
<1>2. PumpInv /\ [PumpNext]_pumpVars => PumpInv'
  BY StepWorks
<1>3. QED
  BY <1>1, <1>2, PTL DEF PumpSpec

-----------------------------------------------------------------------------
(* Whatever the quirks, no packet is lost from the accounts: sequence      *)
(* numbers, queues, timers and states agree, a PAUSE leaves nothing        *)
(* behind, and no more goes out than the bandwidth and one full bucket.    *)
THEOREM AccountsStay == PumpSpec => [](PumpTypeOK /\ Accounted /\ StoppedIsEmpty /\ RateKept)
<1>1. PumpInv => PumpTypeOK /\ Accounted /\ StoppedIsEmpty /\ RateKept
  BY AccountsHold
<1>2. QED
  BY <1>1, PumpInvAlways, PTL

(* And where the bucket can hold what the biggest packet costs, a queue    *)
(* also waits no longer than the bandwidth has to be saved up for it: the  *)
(* bucket of a lower limit never fills enough, and the queue never moves   *)
(* (the run media_slow).                                                   *)
THEOREM SendersStayConsistent ==
  ASSUME Biggest <= Bandwidth * Window
  PROVE  PumpSpec => []SendersConsistent
<1>1. PumpInv => SendersConsistent
  BY AccountsHold, PaidInTime DEF SendersConsistent, Full
<1>2. QED
  BY <1>1, PumpInvAlways, PTL

(* Packets are written in the order they were made in and their timestamps *)
(* rise, whatever is lost, queued, dropped, paused or late between, for    *)
(* every track whose queue was not spilled and, the timestamps, as long as *)
(* the frame rate is left alone.                                           *)
THEOREM TimestampsKeepRising == PumpSpec => TimestampsRise
<1>1. PumpInv /\ [PumpNext]_pumpVars
        => [\A t \in Tracks : sender'[t].last >= sender[t].last \/ t \in spilled]_pumpVars
           /\ [\A t \in Tracks : steady' /\ sender'[t].stamp # sender[t].stamp
                 => sender'[t].stamp > sender[t].stamp]_pumpVars
  BY StepWorks DEF Rises
<1>2. QED
  BY <1>1, PumpInvAlways, PTL DEF PumpSpec, TimestampsRise, WireInOrder
=============================================================================
