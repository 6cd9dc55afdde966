----------------------------- MODULE PromiseProofs ----------------------------
(***************************************************************************)
(* Subscriptions implements PullPoint, for every value of its constants,   *)
(* and events therefore leave a subscription in their order.               *)
(***************************************************************************)
EXTENDS SubscriptionsProofs, FiniteSetTheorems

\* A pull that waits may take at least one event: without it a wake-up would
\* answer a pull that gets nothing of the event that woke it.
LimitsPositive == \A c \in Conns : on[c] # 0 => limit[c] # 0

PInv == IInv /\ LimitsPositive

LEMMA Reassociate ==
  ASSUME NEW g \in Seq(Nat), NEW x \in Seq(Nat), NEW y \in Seq(Nat)
  PROVE  (g \o x) \o y = g \o (x \o y)
BY ConcatAssociative

USE SubscriptionsAssumption

LEMMA Typed ==
  ASSUME PInv
  PROVE  /\ subs \subseteq Ids /\ (\A s \in subs : s <= counter) /\ counter \in 0 .. MaxId
         /\ queue \in [Ids -> Seq(Msgs)] /\ got \in [Ids -> Seq(Msgs)]
         /\ waiting \in [Ids -> Seq(Conns)]
         /\ on \in [Conns -> Ids \cup {0}] /\ limit \in [Conns -> Nat]
         /\ produced \in 0 .. MaxMsg /\ MaxQueue \in Nat
         /\ \A s \in Ids : Len(queue[s]) \in Nat /\ Len(queue[s]) <= MaxQueue
<1>1. \A s \in Ids : Len(queue[s]) \in Nat
  <2>1. \A s \in Ids : queue[s] \in Seq(Msgs)
    BY DEF PInv, IInv, TypeOK
  <2>2. QED
    BY <2>1, LenProperties
<1>2. QED
  BY <1>1 DEF PInv, IInv, TypeOK, Conservation

LEMMA QueueTyped == ASSUME PInv, NEW s \in Ids PROVE queue[s] \in Seq(Msgs) /\ got[s] \in Seq(Msgs)
BY DEF PInv, IInv, TypeOK

-----------------------------------------------------------------------------
(* Steps of the promise.                                                    *)

\* Subscriptions that end, whatever ends them, and one that begins.
LEMMA Turns ==
  ASSUME PInv, NEW gone \in SUBSET subs, NEW new \in {{}} \cup {{s} : s \in Ids \ subs},
         subs' = (subs \ gone) \cup new, ForgetQueues(gone), DropPulls(gone),
         produced' = produced
  PROVE  Promise!Next
<1>1. queue' = [s \in Ids |-> IF s \in gone THEN <<>> ELSE queue[s]]
  BY Typed DEF ForgetQueues, Reset
<1>2. got' = [s \in Ids |-> IF s \in gone THEN <<>> ELSE got[s]]
  BY Typed DEF ForgetQueues, Reset
<1>3. on' = [c \in Conns |-> IF on[c] \in gone THEN 0 ELSE on[c]]
  <2>1. on' = [c \in Conns |-> IF c \in Stranded(gone) THEN 0 ELSE on[c]]
    BY Typed DEF DropPulls, Reset
  <2>2. QED
    BY <2>1 DEF Stranded
<1>4. Promise!Turnover(gone, new)
  BY <1>1, <1>2, <1>3 DEF Promise!Turnover
<1>5. QED
  BY <1>4 DEF Promise!Next

LEMMA LimitsAfterDrop ==
  ASSUME PInv, NEW gone \in SUBSET subs, DropPulls(gone) PROVE LimitsPositive'
<1>1. \A c \in Conns : /\ on'[c] = IF c \in Stranded(gone) THEN 0 ELSE on[c]
                       /\ limit'[c] = IF c \in Stranded(gone) THEN 0 ELSE limit[c]
  BY Typed DEF DropPulls, Reset
<1>2. QED
  BY <1>1 DEF PInv, LimitsPositive

LEMMA DestroyTurns ==
  ASSUME PInv, NEW gone \in SUBSET subs, Destroy(gone), produced' = produced
  PROVE  Promise!Next /\ LimitsPositive'
<1>1. subs' = (subs \ gone) \cup {} /\ ForgetQueues(gone) /\ DropPulls(gone)
  BY DEF Destroy
<1>2. QED
  BY <1>1, Turns, LimitsAfterDrop

LEMMA CreateTurns ==
  ASSUME PInv, NEW f, NEW d, Create(f, d) PROVE Promise!Next /\ LimitsPositive'
<1> DEFINE kept == subs \ Reapable
           gone == Reapable \cup Evicted(kept)
           new == counter + 1
<1>1. /\ new <= MaxId /\ subs' = (subs \ gone) \cup {new}
      /\ ForgetQueues(gone) /\ DropPulls(gone) /\ produced' = produced
  BY DEF Create
<1>2. gone \in SUBSET subs
  BY DEF Reapable, Evicted
<1>3. new \in Ids \ subs
  BY <1>1, Typed DEF Ids
<1> HIDE DEF gone, new
<1>4. {new} \in {{}} \cup {{s} : s \in Ids \ subs}
  BY <1>3
<1>5. QED
  BY <1>1, <1>2, <1>4, Turns, LimitsAfterDrop

\* Events that leave a queue, with the exchange answered on the spot.
LEMMA FetchStep ==
  ASSUME PInv, NEW s \in subs, NEW n \in Nat, n <= Len(queue[s]),
         queue' = [queue EXCEPT ![s] = Cut(@, n)],
         got' = [got EXCEPT ![s] = @ \o SubSeq(queue[s], 1, n)],
         UNCHANGED <<subs, on, produced>>
  PROVE  Promise!Next
<1>1. s \in Ids /\ n \in 0 .. MaxQueue
  BY Typed
<1>2. /\ queue' = [t \in Ids |-> queue'[t]] /\ got' = [t \in Ids |-> got'[t]]
      /\ queue'[s] = SubSeq(queue[s], n + 1, Len(queue[s]))
      /\ got'[s] = got[s] \o SubSeq(queue[s], 1, n)
      /\ \A t \in Ids \ {s} : queue'[t] = queue[t] /\ got'[t] = got[t]
  BY <1>1, Typed DEF Cut
<1>3. Promise!Fetch(s, n)
  BY <1>2 DEF Promise!Fetch, Promise!Shape, Promise!Sends, Promise!Keeps
<1>4. QED
  BY <1>1, <1>3 DEF Promise!Next

LEMMA ServedFetches ==
  ASSUME PInv, NEW c \in Conns, NEW hit \in SUBSET subs, NEW lim \in Limits,
         PullServed(c, hit, lim)
  PROVE  Promise!Next /\ LimitsPositive'
<1>1. PICK s \in hit :
        /\ queue' = [queue EXCEPT ![s] = Cut(@, Lesser(lim, Len(queue[s])))]
        /\ got' = [got EXCEPT ![s] = @ \o SubSeq(queue[s], 1, Lesser(lim, Len(queue[s])))]
  BY DEF PullServed
<1>2. UNCHANGED <<subs, on, limit, produced>>
  BY DEF PullServed
<1> DEFINE n == Lesser(lim, Len(queue[s]))
<1>3. n \in Nat /\ n <= Len(queue[s])
  <2>1. lim \in Nat /\ s \in Ids /\ Len(queue[s]) \in Nat
    BY Typed
  <2>2. QED
    BY <2>1, LesserProperties
<1> HIDE DEF n
<1>4. Promise!Next
  BY <1>1, <1>2, <1>3, FetchStep DEF n
<1>5. QED
  BY <1>2, <1>4 DEF PInv, LimitsPositive

LEMMA EmptyAsks ==
  ASSUME PInv, NEW c \in Conns, NEW hit \in SUBSET subs, NEW lim \in Limits, NEW t \in Timeouts,
         PullEmpty(c, hit, lim, t)
  PROVE  (Promise!Next \/ UNCHANGED Promise!vars) /\ LimitsPositive'
<1>1. PICK s \in hit :
        IF t = 0
        THEN /\ answers' = [answers EXCEPT ![c] = 1]
             /\ UNCHANGED <<waiting, on, limit, left>>
        ELSE /\ answers' = [answers EXCEPT ![c] = 0]
             /\ waiting' = [waiting EXCEPT ![s] = Append(@, c)]
             /\ on' = [on EXCEPT ![c] = s]
             /\ limit' = [limit EXCEPT ![c] = lim]
             /\ left' = [left EXCEPT ![c] = t]
  BY DEF PullEmpty
<1>2. UNCHANGED <<subs, queue, got, produced>> /\ on[c] = 0
  BY DEF PullEmpty, store, Idle
<1>3. CASE t = 0
  <2>1. UNCHANGED <<on, limit>>
    BY <1>1, <1>3
  <2>2. QED
    BY <1>2, <2>1 DEF Promise!vars, PInv, LimitsPositive
<1>4. CASE t # 0
  <2>1. on' = [on EXCEPT ![c] = s] /\ limit' = [limit EXCEPT ![c] = lim]
    BY <1>1, <1>4
  <2>2. Promise!Ask(c, s)
    BY <1>2, <2>1 DEF Promise!Ask
  <2>3. lim # 0
    OBVIOUS
  <2>4. LimitsPositive'
    BY <2>1, <2>3, Typed DEF PInv, LimitsPositive
  <2>5. QED
    BY <2>2, <2>4 DEF Promise!Next
<1>5. QED
  BY <1>3, <1>4

LEMMA ForgetFacts ==
  ASSUME PInv, NEW c \in Conns, Forget(c)
  PROVE  on' = [on EXCEPT ![c] = 0] /\ LimitsPositive'
<1>1. on' = [on EXCEPT ![c] = 0] /\ limit' = [limit EXCEPT ![c] = 0]
  BY DEF Forget
<1>2. QED
  BY <1>1, Typed DEF PInv, LimitsPositive

LEMMA TimeoutReplies ==
  ASSUME PInv, NEW c \in Conns, PullTimeout(c) PROVE Promise!Next /\ LimitsPositive'
<1> DEFINE s == on[c]
           n == IF Mute THEN 0 ELSE Lesser(limit[c], Len(queue[s]))
<1>1. /\ s # 0 /\ Forget(c) /\ UNCHANGED <<subs, produced>>
      /\ queue' = [queue EXCEPT ![s] = Cut(@, n)]
      /\ got' = [got EXCEPT ![s] = @ \o SubSeq(queue[s], 1, n)]
  BY DEF PullTimeout, Idle
<1>2. s \in Ids
  BY <1>1, Typed
<1>3. n \in 0 .. MaxQueue /\ n <= Len(queue[s])
  <2>1. limit[c] \in Nat /\ Len(queue[s]) \in Nat /\ Len(queue[s]) <= MaxQueue /\ MaxQueue \in Nat
    BY <1>2, Typed
  <2>2. CASE Mute
    BY <2>1, <2>2
  <2>3. CASE ~Mute
    <3>1. n = Lesser(limit[c], Len(queue[s]))
      BY <2>3
    <3>2. Lesser(limit[c], Len(queue[s])) \in Nat
          /\ Lesser(limit[c], Len(queue[s])) <= Len(queue[s])
      BY <2>1, LesserProperties
    <3>3. QED
      BY <2>1, <3>1, <3>2
  <2>4. QED
    BY <2>2, <2>3
<1> HIDE DEF n, s
<1>4. /\ queue' = [t \in Ids |-> queue'[t]] /\ got' = [t \in Ids |-> got'[t]]
      /\ queue'[s] = SubSeq(queue[s], n + 1, Len(queue[s]))
      /\ got'[s] = got[s] \o SubSeq(queue[s], 1, n)
      /\ \A t \in Ids \ {s} : queue'[t] = queue[t] /\ got'[t] = got[t]
  BY <1>1, <1>2, Typed DEF Cut
<1>5. on' = [on EXCEPT ![c] = 0] /\ LimitsPositive'
  BY <1>1, ForgetFacts
<1>6. Promise!Reply(c, n)
  BY <1>1, <1>3, <1>4, <1>5 DEF Promise!Reply, Promise!Shape, Promise!Sends, Promise!Keeps, s
<1>7. QED
  BY <1>3, <1>5, <1>6 DEF Promise!Next

LEMMA AbortLeaves == ASSUME PInv, NEW c \in Conns, Abort(c) PROVE Promise!Next /\ LimitsPositive'
<1>1. on[c] # 0 /\ Forget(c) /\ UNCHANGED <<subs, queue, got, produced>>
  BY DEF Abort, Idle, store
<1>2. on' = [on EXCEPT ![c] = 0] /\ LimitsPositive'
  BY <1>1, ForgetFacts
<1>3. Promise!Leave(c)
  BY <1>1, <1>2 DEF Promise!Leave
<1>4. QED
  BY <1>2, <1>3 DEF Promise!Next

-----------------------------------------------------------------------------
\* A wake-up gives the pulls it serves the events from the front of the queue, at
\* least one to the first of them.
LEMMA DeliverPublishes ==
  ASSUME PInv, NEW topic \in Topics, Deliver(topic)
  PROVE  Promise!Next /\ LimitsPositive'
<1> DEFINE m == produced + 1
           hit == {s \in subs : topic \in filter[s]}
           woken == IF Mute THEN {} ELSE {s \in hit : waiting[s] # <<>>}
           callers == {c \in Conns : on[c] \in woken}
<1>1. PICK k \in [woken -> 1 .. Cardinality(Conns)], upto \in [callers -> 0 .. MaxQueue] :
        LET served == {c \in callers : \E i \in 1 .. k[on[c]] : waiting[on[c]][i] = c}
            out(s) == IF s \in woken THEN upto[waiting[s][k[s]]] ELSE 0
        IN /\ \A s \in woken : Wakes(s, Enqueued(s, m), k[s], upto)
           /\ \A c \in callers \ served : upto[c] = MaxQueue
           /\ queue' = [s \in Ids |-> IF s \in hit THEN Cut(Enqueued(s, m), out(s))
                                                   ELSE queue[s]]
           /\ got' = [s \in Ids |-> IF s \in hit
                                    THEN got[s] \o SubSeq(Enqueued(s, m), 1, out(s))
                                    ELSE got[s]]
           /\ waiting' = [s \in Ids |-> IF s \in woken THEN Cut(waiting[s], k[s])
                                                       ELSE waiting[s]]
           /\ on' = Reset(on, served, 0)
           /\ limit' = Reset(limit, served, 0)
           /\ left' = Reset(left, served, 0)
           /\ answers' = [c \in Conns |-> IF c \in served THEN answers[c] + 1
                                                          ELSE answers[c]]
  BY DEF Deliver
<1> DEFINE served == {c \in callers : \E i \in 1 .. k[on[c]] : waiting[on[c]][i] = c}
           out(s) == IF s \in woken THEN upto[waiting[s][k[s]]] ELSE 0
           n == [s \in hit |-> out(s)]
<1>2. /\ \A s \in woken : Wakes(s, Enqueued(s, m), k[s], upto)
      /\ queue' = [s \in Ids |-> IF s \in hit THEN Cut(Enqueued(s, m), out(s)) ELSE queue[s]]
      /\ got' = [s \in Ids |-> IF s \in hit
                               THEN got[s] \o SubSeq(Enqueued(s, m), 1, out(s)) ELSE got[s]]
      /\ on' = Reset(on, served, 0) /\ limit' = Reset(limit, served, 0)
  BY <1>1
<1>3. produced' = m /\ m <= MaxMsg /\ subs' = subs
  BY DEF Deliver
<1>4. m \in Msgs /\ hit \subseteq subs /\ hit \subseteq Ids /\ woken \subseteq hit
  BY <1>3, Typed DEF Msgs
<1>5. served \subseteq callers /\ callers \subseteq {c \in Conns : on[c] \in hit}
  BY <1>4
<1>6. ASSUME NEW s \in woken
      PROVE  /\ k[s] \in 1 .. Len(waiting[s])
             /\ upto[waiting[s][k[s]]] \in 1 .. MaxQueue
             /\ upto[waiting[s][k[s]]] <= Len(Enqueued(s, m))
             /\ \E c \in served : on[c] = s
  <2>1. s \in Ids /\ waiting[s] \in Seq(Conns) /\ Len(waiting[s]) \in Nat
    BY <1>4, <1>6, Typed, LenProperties
  <2>2. k[s] \in 1 .. Len(waiting[s])
    <3>1. k[s] \in 1 .. Cardinality(Conns) /\ k[s] <= Len(waiting[s])
      BY <1>2, <1>6 DEF Wakes
    <3>2. QED
      BY <2>1, <3>1
  <2>3. ASSUME NEW i \in 1 .. Len(waiting[s])
        PROVE  /\ waiting[s][i] \in callers /\ on[waiting[s][i]] = s
               /\ limit[waiting[s][i]] \in Nat \ {0}
               /\ upto[waiting[s][i]] \in 0 .. MaxQueue
    <3>1. waiting[s][i] \in Conns
      BY <2>1, ElementOfSeq
    <3>2. on[waiting[s][i]] = s
      BY <2>1 DEF PInv, IInv, PendingConsistent, ListedWaiters
    <3>3. limit[waiting[s][i]] \in Nat /\ limit[waiting[s][i]] # 0
      <4>1. s # 0
        BY <2>1 DEF Ids
      <4>2. limit[waiting[s][i]] # 0
        BY <3>1, <3>2, <4>1 DEF PInv, LimitsPositive
      <4>3. limit[waiting[s][i]] \in Nat
        BY <3>1, Typed
      <4>4. QED
        BY <4>2, <4>3
    <3>4. waiting[s][i] \in callers
      BY <1>6, <3>1, <3>2
    <3>5. QED
      BY <3>2, <3>3, <3>4
  <2>4. Len(Enqueued(s, m)) \in Nat
    BY <1>4, <2>1, EnqueuedProperties, LenProperties DEF PInv
  <2> DEFINE before == ServedUpTo(s, k[s], upto)  lim == limit[waiting[s][k[s]]]
             last == upto[waiting[s][k[s]]]
  <2>5. before \in Nat
    <3>1. CASE k[s] = 1
      BY <3>1 DEF ServedUpTo
    <3>2. CASE k[s] # 1
      <4>1. k[s] - 1 \in 1 .. Len(waiting[s])
        BY <2>1, <2>2, <3>2
      <4>2. upto[waiting[s][k[s] - 1]] \in 0 .. MaxQueue
        BY <2>3, <4>1
      <4>3. before = upto[waiting[s][k[s] - 1]]
        BY <3>2 DEF ServedUpTo
      <4>4. QED
        BY <4>2, <4>3
    <3>3. QED
      BY <3>1, <3>2
  <2>6. before < Len(Enqueued(s, m)) /\ last = Lesser(before + lim, Len(Enqueued(s, m)))
    <3>1. \A i \in 1 .. k[s] :
            /\ ServedUpTo(s, i, upto) < Len(Enqueued(s, m))
            /\ upto[waiting[s][i]] =
                 Lesser(ServedUpTo(s, i, upto) + limit[waiting[s][i]], Len(Enqueued(s, m)))
      BY <1>2, <1>6 DEF Wakes
    <3>2. k[s] \in 1 .. k[s]
      BY <2>2
    <3>3. QED
      BY <3>1, <3>2
  <2>7. lim \in Nat \ {0} /\ last \in 0 .. MaxQueue
    BY <2>2, <2>3
  <2> HIDE DEF before, lim, last
  <2>8. last # 0 /\ last <= Len(Enqueued(s, m))
    <3>1. before + lim \in Nat /\ before + lim # 0 /\ Len(Enqueued(s, m)) # 0
      BY <2>4, <2>5, <2>6, <2>7
    <3>2. last <= Len(Enqueued(s, m)) /\ (last = before + lim \/ last = Len(Enqueued(s, m)))
      BY <2>4, <2>6, <3>1, LesserProperties
    <3>3. QED
      BY <3>1, <3>2
  <2>9. \E c \in served : on[c] = s
    <3>1. 1 \in 1 .. Len(waiting[s]) /\ 1 \in 1 .. k[s]
      BY <2>1, <2>2
    <3>2. waiting[s][1] \in callers /\ on[waiting[s][1]] = s
      BY <2>3, <3>1
    <3>3. waiting[s][1] \in served
      BY <3>1, <3>2
    <3>4. QED
      BY <3>2, <3>3
  <2>10. last \in 1 .. MaxQueue
    BY <2>7, <2>8, Typed
  <2>11. QED
    BY <2>2, <2>8, <2>9, <2>10 DEF last
<1>7. \A s \in hit \ woken : out(s) = 0 /\ \A c \in served : on[c] # s
  BY <1>5
<1>8. \A s \in woken : out(s) = upto[waiting[s][k[s]]]
  OBVIOUS
<1>9. \A s \in hit : n[s] = out(s)
  OBVIOUS
<1>10. on' = [c \in Conns |-> IF c \in served THEN 0 ELSE on[c]]
       /\ limit' = [c \in Conns |-> IF c \in served THEN 0 ELSE limit[c]]
  BY <1>2, Typed DEF Reset
<1>11. \A s \in hit : /\ queue'[s] = SubSeq(Enqueued(s, m), out(s) + 1, Len(Enqueued(s, m)))
                      /\ got'[s] = got[s] \o SubSeq(Enqueued(s, m), 1, out(s))
  BY <1>2, <1>4 DEF Cut
<1>12. /\ \A s \in Ids \ hit : queue'[s] = queue[s] /\ got'[s] = got[s]
       /\ queue' = [s \in Ids |-> queue'[s]] /\ got' = [s \in Ids |-> got'[s]]
  BY <1>2
<1>13. n = [s \in hit |-> n[s]] /\ DOMAIN n = hit
  OBVIOUS
<1> HIDE DEF n, out, served, callers, woken, hit, m
<1>14. \A s \in hit :
         /\ n[s] \in 0 .. MaxQueue /\ n[s] <= Len(Enqueued(s, m))
         /\ n[s] > 0 <=> \E c \in served : on[c] = s
  <2>1. ASSUME NEW s \in hit
        PROVE  /\ n[s] \in 0 .. MaxQueue /\ n[s] <= Len(Enqueued(s, m))
               /\ n[s] > 0 <=> \E c \in served : on[c] = s
    <3>1. CASE s \in woken
      <4>1. n[s] \in 1 .. MaxQueue /\ n[s] <= Len(Enqueued(s, m))
            /\ \E c \in served : on[c] = s
        BY <1>6, <1>8, <1>9, <3>1
      <4>2. QED
        BY <4>1, Typed
    <3>2. CASE s \notin woken
      <4>1. n[s] = 0 /\ \A c \in served : on[c] # s
        BY <1>7, <1>9, <3>2
      <4>2. Len(Enqueued(s, m)) \in Nat
        BY <1>4, EnqueuedProperties, LenProperties DEF PInv
      <4>3. QED
        BY <4>1, <4>2, Typed
    <3>3. QED
      BY <3>1, <3>2
  <2>2. QED
    BY <2>1
<1>15. \A s \in Ids : Promise!After(s) = Enqueued(s, m)
  BY DEF Promise!After, Enqueued, m
<1>16. Promise!Publish(hit, served, n)
  <2>1. Promise!Shape
    BY <1>12 DEF Promise!Shape
  <2>2. ASSUME NEW s \in hit
        PROVE  /\ Promise!Sends(s, Promise!After(s), n[s])
               /\ n[s] > 0 <=> \E c \in served : on[c] = s
    BY <1>4, <1>9, <1>11, <1>14, <1>15 DEF Promise!Sends
  <2>3. \A s \in Ids \ hit : Promise!Keeps(s)
    BY <1>12 DEF Promise!Keeps
  <2>4. produced' = produced + 1
    BY <1>3 DEF m
  <2>5. QED
    BY <1>3, <1>10, <2>1, <2>2, <2>3, <2>4 DEF Promise!Publish
<1>17. n \in [hit -> 0 .. MaxQueue]
  BY <1>13, <1>14
<1>18. hit \in SUBSET subs /\ served \in SUBSET {c \in Conns : on[c] \in hit}
  BY <1>4, <1>5
<1>19. Promise!Next
  BY <1>16, <1>17, <1>18 DEF Promise!Next
<1>20. LimitsPositive'
  BY <1>10 DEF PInv, LimitsPositive
<1>21. QED
  BY <1>19, <1>20

-----------------------------------------------------------------------------
LEMMA NextPromised ==
  ASSUME PInv, [Next]_vars
  PROVE  (Promise!Next \/ UNCHANGED Promise!vars) /\ LimitsPositive'
<1> DEFINE Done == (Promise!Next \/ UNCHANGED Promise!vars) /\ LimitsPositive'
<1>1. ASSUME NEW f, NEW d, Create(f, d) PROVE Done
  BY <1>1, CreateTurns
<1>2. ASSUME CreateRefused PROVE Done
  <2>1. Reapable \in SUBSET subs /\ Destroy(Reapable) /\ produced' = produced
    BY <1>2 DEF CreateRefused, Reapable
  <2>2. QED
    BY <2>1, DestroyTurns
<1>3. ASSUME NEW p, NEW to, Request(Resolve(p, to)) PROVE Done
  <2> DEFINE hit == Resolve(p, to)
  <2>1. hit \in SUBSET subs
    BY ResolveType
  <2> HIDE DEF hit
  <2>2. ASSUME NEW c \in Conns, PullRefused(c, hit) PROVE Done
    BY <2>2 DEF PullRefused, store, Promise!vars, PInv, LimitsPositive
  <2>3. ASSUME NEW c \in Conns, NEW lim \in Limits, PullServed(c, hit, lim) PROVE Done
    BY <2>1, <2>3, ServedFetches
  <2>4. ASSUME NEW c \in Conns, NEW lim \in Limits, NEW t \in Timeouts,
               PullEmpty(c, hit, lim, t)
        PROVE  Done
    BY <2>1, <2>4, EmptyAsks
  <2>5. ASSUME NEW d \in Durations \cup {NoDuration}, Renew(hit, d) PROVE Done
    BY <2>5 DEF Renew, pulls, Promise!vars, PInv, LimitsPositive
  <2>6. CASE Unsubscribe(hit)
    <3>1. PICK s \in hit : Destroy({s})
      BY <2>6 DEF Unsubscribe
    <3>2. {s} \in SUBSET subs /\ produced' = produced
      BY <2>1, <2>6 DEF Unsubscribe
    <3>3. QED
      BY <3>1, <3>2, DestroyTurns
  <2>7. QED
    BY <1>3, <2>2, <2>3, <2>4, <2>5, <2>6 DEF Request, hit
<1>4. ASSUME NEW c \in Conns, PullTimeout(c) PROVE Done
  BY <1>4, TimeoutReplies
<1>5. ASSUME NEW c \in Conns, Abort(c) PROVE Done
  BY <1>5, AbortLeaves
<1>6. ASSUME Clear PROVE Done
  BY <1>6, subs \in SUBSET subs, DestroyTurns DEF Clear
<1>7. ASSUME Reap PROVE Done
  <2>1. Reapable \in SUBSET subs /\ Destroy(Reapable) /\ produced' = produced
    BY <1>7 DEF Reap, Reapable
  <2>2. QED
    BY <2>1, DestroyTurns
<1>8. ASSUME NEW topic \in Topics, Deliver(topic) PROVE Done
  BY <1>8, DeliverPublishes
<1>9. ASSUME Tick PROVE Done
  BY <1>9 DEF Tick, Promise!vars, PInv, LimitsPositive
<1>10. ASSUME NEW q \in SUBSET Toggles, SetQuirks(q) PROVE Done
  BY <1>10 DEF SetQuirks, store, pulls, Promise!vars, PInv, LimitsPositive
<1>11. ASSUME UNCHANGED vars PROVE Done
  BY <1>11 DEF vars, store, pulls, Promise!vars, PInv, LimitsPositive
<1> HIDE DEF Done
<1>12. ASSUME Next PROVE Done
  <2>1. ASSUME \E f \in SUBSET Topics \ {{}}, d \in Durations \cup {NoDuration} : Create(f, d)
        PROVE  Done
    BY <2>1, <1>1
  <2>2. ASSUME \E hit \in {Resolve(p, to) : p \in Targets, to \in Targets} : Request(hit)
        PROVE  Done
    BY <2>2, <1>3
  <2>3. ASSUME \E c \in Conns : PullTimeout(c) \/ Abort(c)
        PROVE  Done
    BY <2>3, <1>4, <1>5
  <2>4. ASSUME \E topic \in Topics : Deliver(topic)
        PROVE  Done
    BY <2>4, <1>8
  <2>5. ASSUME \E q \in SUBSET Toggles : SetQuirks(q)
        PROVE  Done
    BY <2>5, <1>10
  <2>6. QED
    BY <1>12, <2>1, <2>2, <2>3, <2>4, <2>5, <1>2, <1>6, <1>7, <1>9 DEF Next
<1>13. QED
  BY <1>11, <1>12 DEF Done

LEMMA InitPromised == Init => PInv /\ Promise!Init
<1>1. Init => IInv
  BY InitIInv
<1>2. Init => LimitsPositive /\ Promise!Init
  BY DEF Init, LimitsPositive, Promise!Init
<1>3. QED
  BY <1>1, <1>2 DEF PInv

\* With its clock, its quirks, its addresses and its races of timers with events
\* and removals, the component is an implementation of PullPoint: whatever it is
\* asked, it hands out events in order from a bounded backlog, to whoever asks for
\* them, and loses none but the oldest when the backlog is full.
THEOREM SubscriptionsKeepPromise == Spec => KeepsPromise
<1>1. Init => PInv /\ Promise!Init
  BY InitPromised
<1>2. PInv /\ [Next]_vars => PInv' /\ [Promise!Next]_(Promise!vars)
  BY NextPromised, NextIInv DEF PInv
<1>3. QED
  BY <1>1, <1>2, PTL DEF Spec, KeepsPromise, Promise!Spec

-----------------------------------------------------------------------------
(* Order, which follows from the promise.                                   *)

Rising(q, top) ==
  \A i \in 1 .. Len(q) : q[i] <= top /\ \A j \in 1 .. Len(q) : i < j => q[i] < q[j]
Ordered == \A s \in Ids : Rising(got[s] \o queue[s], produced)

\* Events that go from one sequence to the other stay where they were in both.
LEMMA Joined ==
  ASSUME NEW g \in Seq(Nat), NEW b \in Seq(Nat), NEW n \in 0 .. Len(b)
  PROVE  (g \o SubSeq(b, 1, n)) \o SubSeq(b, n + 1, Len(b)) = g \o b
<1>1. \A i \in 1 .. Len(b) : b[i] \in Nat
  BY ElementOfSeq
<1>2. SubSeq(b, 1, n) \in Seq(Nat) /\ SubSeq(b, n + 1, Len(b)) \in Seq(Nat)
  BY <1>1, SubSeqProperties
<1>3. SubSeq(b, 1, n) \o SubSeq(b, n + 1, Len(b)) = b
  <2>1. SubSeq(b, 1, n) \o SubSeq(b, n + 1, Len(b)) = SubSeq(b, 1, Len(b))
    <3>1. 1 \in 1 .. Len(b) + 1 /\ n \in 1 - 1 .. Len(b) /\ Len(b) \in n .. Len(b)
      BY LenProperties
    <3>2. QED
      BY <3>1, ConcatAdjacentSubSeq
  <2>2. SubSeq(b, 1, Len(b)) = b
    BY SubSeqFull
  <2>3. QED
    BY <2>1, <2>2
<1> DEFINE x == SubSeq(b, 1, n)  y == SubSeq(b, n + 1, Len(b))
<1> HIDE DEF x, y
<1>4. x \in Seq(Nat) /\ y \in Seq(Nat) /\ x \o y = b
  BY <1>2, <1>3 DEF x, y
<1>5. (g \o x) \o y = g \o (x \o y)
  BY <1>4, Reassociate
<1>6. QED
  BY <1>4, <1>5 DEF x, y

LEMMA RisesWithNext ==
  ASSUME NEW g \in Seq(Nat), NEW q \in Seq(Nat), NEW top \in Nat, Rising(g \o q, top)
  PROVE  Rising(g \o Append(q, top + 1), top + 1)
<1> DEFINE r == g \o q  e == top + 1
<1>1. r \in Seq(Nat) /\ Len(r) \in Nat /\ e \in Nat
  BY ConcatProperties, LenProperties
<1>2. g \o Append(q, e) = Append(r, e)
  <2>1. <<e>> \in Seq(Nat) /\ Append(q, e) = q \o <<e>>
    BY <1>1, AppendIsConcat
  <2>2. Append(r, e) = r \o <<e>>
    BY <1>1, AppendIsConcat
  <2>3. QED
    BY <2>1, <2>2, ConcatAssociative
<1>3. Rising(r, top)
  OBVIOUS
<1> HIDE DEF r
<1>4. /\ Len(Append(r, e)) = Len(r) + 1
      /\ \A i \in 1 .. Len(r) : Append(r, e)[i] = r[i] /\ r[i] \in Nat
      /\ Append(r, e)[Len(r) + 1] = e
  BY <1>1, AppendProperties, ElementOfSeq
<1>5. ASSUME NEW i \in 1 .. Len(r) + 1, NEW j \in 1 .. Len(r) + 1, i < j
      PROVE  Append(r, e)[i] < Append(r, e)[j]
  <2>1. i \in 1 .. Len(r)
    BY <1>1, <1>5
  <2>2. CASE j \in 1 .. Len(r)
    BY <1>3, <1>4, <1>5, <2>1, <2>2 DEF Rising
  <2>3. CASE j = Len(r) + 1
    BY <1>3, <1>4, <2>1, <2>3 DEF Rising
  <2>4. j \in 1 .. Len(r) \/ j = Len(r) + 1
    BY <1>1
  <2>5. QED
    BY <2>2, <2>3, <2>4
<1>6. ASSUME NEW i \in 1 .. Len(r) + 1 PROVE Append(r, e)[i] <= e
  <2>1. CASE i \in 1 .. Len(r)
    BY <1>3, <1>4, <2>1 DEF Rising
  <2>2. CASE i = Len(r) + 1
    BY <1>1, <1>4, <2>2
  <2>3. i \in 1 .. Len(r) \/ i = Len(r) + 1
    <3> DEFINE k == Len(r)
    <3>1. k \in Nat /\ i \in 1 .. k + 1
      BY <1>1
    <3> HIDE DEF k
    <3>2. i \in 1 .. k \/ i = k + 1
      BY <3>1
    <3>3. QED
      BY <3>2 DEF k
  <2>4. QED
    BY <2>1, <2>2, <2>3
<1>7. QED
  BY <1>2, <1>4, <1>5, <1>6 DEF Rising

LEMMA RisesWithoutOldest ==
  ASSUME NEW g \in Seq(Nat), NEW q \in Seq(Nat), q # <<>>, NEW top \in Nat, Rising(g \o q, top)
  PROVE  Tail(q) \in Seq(Nat) /\ Rising(g \o Tail(q), top)
<1> DEFINE r == g \o q  u == g \o Tail(q)
           from(i) == IF i <= Len(g) THEN i ELSE i + 1
<1>1. /\ Len(g) \in Nat /\ Len(q) \in Nat
      /\ Tail(q) \in Seq(Nat) /\ Len(Tail(q)) = Len(q) - 1
      /\ \A i \in 1 .. Len(q) - 1 : Tail(q)[i] = q[i + 1]
  BY HeadTailProperties, LenProperties
<1>2. /\ Len(r) = Len(g) + Len(q)
      /\ \A i \in 1 .. Len(g) + Len(q) :
           r[i] = IF i <= Len(g) THEN g[i] ELSE q[i - Len(g)]
  BY ConcatProperties
<1>3. /\ Len(u) = Len(g) + Len(q) - 1
      /\ \A i \in 1 .. Len(g) + Len(q) - 1 :
           u[i] = IF i <= Len(g) THEN g[i] ELSE Tail(q)[i - Len(g)]
  BY <1>1, ConcatProperties
<1>4. Rising(r, top)
  OBVIOUS
<1> HIDE DEF r, u
<1>5. ASSUME NEW i \in 1 .. Len(u) PROVE from(i) \in 1 .. Len(r) /\ u[i] = r[from(i)]
  <2>1. CASE i <= Len(g)
    BY <1>1, <1>2, <1>3, <2>1
  <2>2. CASE ~(i <= Len(g))
    <3>1. i - Len(g) \in 1 .. Len(q) - 1 /\ i + 1 \in 1 .. Len(r) /\ ~(i + 1 <= Len(g))
          /\ (i + 1) - Len(g) = (i - Len(g)) + 1
      BY <1>1, <1>2, <1>3, <2>2
    <3>2. u[i] = Tail(q)[i - Len(g)] /\ Tail(q)[i - Len(g)] = q[(i - Len(g)) + 1]
      BY <1>1, <1>3, <2>2, <3>1
    <3>3. r[i + 1] = q[(i + 1) - Len(g)]
      BY <1>2, <3>1
    <3>4. QED
      BY <2>2, <3>1, <3>2, <3>3
  <2>3. QED
    BY <2>1, <2>2
<1>6. \A i, j \in 1 .. Len(u) : i < j => from(i) < from(j)
  BY <1>1, <1>3
<1> HIDE DEF from
<1>7. Rising(u, top)
  BY <1>4, <1>5, <1>6 DEF Rising
<1>8. QED
  BY <1>1, <1>7 DEF u

LEMMA StillOrdered ==
  ASSUME PInv, Ordered, Promise!Next PROVE Ordered'
<1>1. \A s \in Ids : /\ got[s] \in Seq(Nat) /\ queue[s] \in Seq(Nat)
                     /\ Rising(got[s] \o queue[s], produced)
  <2> SUFFICES ASSUME NEW s \in Ids
               PROVE  got[s] \in Seq(Nat) /\ queue[s] \in Seq(Nat)
    BY DEF Ordered
  <2>1. got[s] \in Seq(Msgs) /\ queue[s] \in Seq(Msgs)
    BY QueueTyped
  <2>2. Msgs \subseteq Nat
    BY DEF Msgs
  <2>3. ASSUME NEW q \in Seq(Msgs) PROVE q \in Seq(Nat)
    <3>1. Len(q) \in Nat /\ q = [i \in 1 .. Len(q) |-> q[i]]
      BY LenProperties
    <3>2. \A i \in 1 .. Len(q) : q[i] \in Nat
      BY <2>2, ElementOfSeq
    <3>3. QED
      BY <3>1, <3>2
  <2>4. QED
    BY <2>1, <2>3
<1>2. produced \in Nat
  BY Typed
<1>3. ASSUME NEW s \in Ids, Promise!Keeps(s), produced' = produced
      PROVE  Rising(got'[s] \o queue'[s], produced')
  BY <1>1, <1>3 DEF Promise!Keeps
<1>4. ASSUME NEW s \in Ids, NEW n \in Nat, Promise!Sends(s, queue[s], n), produced' = produced
      PROVE  Rising(got'[s] \o queue'[s], produced')
  <2> DEFINE b == queue[s]
  <2>1. b \in Seq(Nat) /\ got[s] \in Seq(Nat) /\ n \in 0 .. Len(b)
        /\ got'[s] = got[s] \o SubSeq(b, 1, n) /\ queue'[s] = SubSeq(b, n + 1, Len(b))
    BY <1>1, <1>4, LenProperties DEF Promise!Sends
  <2> HIDE DEF b
  <2>2. (got[s] \o SubSeq(b, 1, n)) \o SubSeq(b, n + 1, Len(b)) = got[s] \o b
    BY <2>1, Joined, Zenon
  <2>3. got'[s] \o queue'[s] = got[s] \o b
    BY <2>1, <2>2
  <2>4. QED
    BY <1>1, <1>4, <2>3 DEF b
<1>5. ASSUME NEW gone \in SUBSET subs, NEW new, Promise!Turnover(gone, new) PROVE Ordered'
  <2>1. produced' = produced
    BY <1>5 DEF Promise!Turnover
  <2>2. ASSUME NEW s \in Ids PROVE Rising(got'[s] \o queue'[s], produced')
    <3>1. CASE s \in gone
      <4>1. got'[s] = <<>> /\ queue'[s] = <<>>
        BY <1>5, <3>1 DEF Promise!Turnover
      <4>2. <<>> \o <<>> = <<>> /\ Len(<<>>) = 0
        OBVIOUS
      <4>3. QED
        BY <4>1, <4>2 DEF Rising
    <3>2. CASE s \notin gone
      BY <1>1, <1>5, <2>1, <3>2 DEF Promise!Turnover
    <3>3. QED
      BY <3>1, <3>2
  <2>3. QED
    BY <2>2 DEF Ordered
<1>6. ASSUME NEW s \in subs, NEW n \in 0 .. MaxQueue, Promise!Fetch(s, n) PROVE Ordered'
  BY <1>3, <1>4, <1>6, Typed DEF Promise!Fetch, Ordered
<1>7. ASSUME NEW c \in Conns, NEW s \in subs, Promise!Ask(c, s) PROVE Ordered'
  BY <1>7 DEF Promise!Ask, Ordered
<1>8. ASSUME NEW c \in Conns, NEW n \in 0 .. MaxQueue, Promise!Reply(c, n) PROVE Ordered'
  <2>1. on[c] \in Ids /\ n \in Nat
    BY <1>8, Typed DEF Promise!Reply
  <2>2. QED
    BY <1>3, <1>4, <1>8, <2>1 DEF Promise!Reply, Ordered
<1>9. ASSUME NEW c \in Conns, Promise!Leave(c) PROVE Ordered'
  BY <1>9 DEF Promise!Leave, Ordered
<1>10. ASSUME NEW to \in SUBSET subs, NEW answered, NEW n \in [to -> 0 .. MaxQueue],
              Promise!Publish(to, answered, n)
       PROVE  Ordered'
  <2>1. produced' = produced + 1 /\ to \subseteq Ids
    BY <1>10, Typed DEF Promise!Publish
  <2>2. ASSUME NEW s \in to PROVE Rising(got'[s] \o queue'[s], produced')
    <3> DEFINE b == Promise!After(s)
    <3>1. Promise!Sends(s, b, n[s]) /\ n[s] \in Nat /\ s \in Ids
      BY <1>10, <2>1, Typed DEF Promise!Publish
    <3>2. b \in Seq(Nat) /\ Rising(got[s] \o b, produced + 1)
      <4>1. CASE Len(queue[s]) >= MaxQueue
        <5>1. queue[s] # <<>>
          BY <1>1, <3>1, <4>1
        <5>2. Tail(queue[s]) \in Seq(Nat) /\ Rising(got[s] \o Tail(queue[s]), produced)
          BY <1>1, <1>2, <3>1, <5>1, RisesWithoutOldest
        <5>3. b = Append(Tail(queue[s]), produced + 1)
          BY <4>1 DEF Promise!After
        <5>4. Append(Tail(queue[s]), produced + 1) \in Seq(Nat)
          BY <1>2, <5>2, AppendProperties
        <5> DEFINE u == Tail(queue[s])
        <5>5. u \in Seq(Nat) /\ Rising(got[s] \o u, produced)
          BY <5>2
        <5> HIDE DEF u
        <5>6. Rising(got[s] \o Append(u, produced + 1), produced + 1)
          BY <1>1, <1>2, <3>1, <5>5, RisesWithNext
        <5>7. QED
          BY <5>3, <5>4, <5>6 DEF u
      <4>2. CASE ~(Len(queue[s]) >= MaxQueue)
        <5>1. b = Append(queue[s], produced + 1)
          BY <4>2 DEF Promise!After
        <5>2. QED
          BY <1>1, <1>2, <3>1, <5>1, RisesWithNext, AppendProperties
      <4>3. QED
        BY <4>1, <4>2
    <3> HIDE DEF b
    <3>3. got'[s] \o queue'[s] = got[s] \o b
      <4>1. n[s] \in 0 .. Len(b) /\ queue'[s] = SubSeq(b, n[s] + 1, Len(b))
            /\ got'[s] = got[s] \o SubSeq(b, 1, n[s])
        BY <3>1, <3>2, LenProperties DEF Promise!Sends
      <4>2. got[s] \in Seq(Nat) /\ b \in Seq(Nat)
        BY <1>1, <3>1, <3>2
      <4>3. (got[s] \o SubSeq(b, 1, n[s])) \o SubSeq(b, n[s] + 1, Len(b)) = got[s] \o b
        BY <4>1, <4>2, Joined
      <4>4. QED
        BY <4>1, <4>3
    <3>4. QED
      BY <2>1, <3>2, <3>3
  <2>3. ASSUME NEW s \in Ids \ to PROVE Rising(got'[s] \o queue'[s], produced')
    <3>1. got'[s] = got[s] /\ queue'[s] = queue[s]
      BY <1>10, <2>3 DEF Promise!Publish, Promise!Keeps
    <3> DEFINE r == got[s] \o queue[s]
    <3>2. r \in Seq(Nat) /\ Rising(r, produced)
      BY <1>1, ConcatProperties
    <3> HIDE DEF r
    <3>3. \A i \in 1 .. Len(r) : r[i] \in Nat
      BY <3>2, ElementOfSeq
    <3>4. Rising(r, produced + 1)
      BY <1>2, <3>2, <3>3 DEF Rising
    <3>5. QED
      BY <2>1, <3>1, <3>4 DEF r
  <2>4. QED
    BY <2>2, <2>3 DEF Ordered
<1>11. QED
  BY <1>5, <1>6, <1>7, <1>8, <1>9, <1>10 DEF Promise!Next

\* Events leave a subscription in the order of their production and none twice, over
\* all its pulls, and what it still holds is newer than what it has handed out.
THEOREM EventsInOrder == Spec => []InOrder
<1>1. Init => PInv /\ Ordered
  <2>1. Init => \A s \in Ids : got[s] = <<>> /\ queue[s] = <<>>
    BY DEF Init
  <2>2. Rising(<<>> \o <<>>, produced)
    BY <<>> \o <<>> = <<>> /\ Len(<<>>) = 0 DEF Rising
  <2>3. Init => Ordered
    BY <2>1, <2>2 DEF Ordered
  <2>4. QED
    BY <2>3, InitPromised
<1>2. PInv /\ Ordered /\ [Next]_vars => PInv' /\ Ordered'
  <2> SUFFICES ASSUME PInv, Ordered, [Next]_vars PROVE PInv' /\ Ordered'
    OBVIOUS
  <2>1. PInv' /\ (Promise!Next \/ UNCHANGED Promise!vars)
    BY NextPromised, NextIInv DEF PInv
  <2>2. CASE UNCHANGED Promise!vars
    BY <2>1, <2>2 DEF Promise!vars, Ordered
  <2>3. CASE Promise!Next
    BY <2>1, <2>3, StillOrdered
  <2>4. QED
    BY <2>1, <2>2, <2>3
<1>3. PInv /\ Ordered => InOrder
  <2> SUFFICES ASSUME PInv, Ordered, NEW s \in Ids
               PROVE  LET all == got[s] \o queue[s]
                      IN \A i, j \in DOMAIN all : i < j => all[i] < all[j]
    BY DEF InOrder
  <2> DEFINE all == got[s] \o queue[s]
  <2>1. all \in Seq(Msgs) /\ Rising(all, produced)
    BY QueueTyped, ConcatProperties DEF Ordered
  <2>2. DOMAIN all = 1 .. Len(all)
    BY <2>1, LenProperties
  <2>3. QED
    BY <2>1, <2>2 DEF Rising
<1>4. QED
  BY <1>1, <1>2, <1>3, PTL DEF Spec
-----------------------------------------------------------------------------
(* What two quirks promise of single steps.                                 *)

\* Subscriptions that go take what they handed out with them; the rest keep it.
LEMMA DestroySilent ==
  ASSUME NEW gone, ForgetQueues(gone), subs' \cap gone = {}, IInv,
         NEW s \in subs \cap subs'
  PROVE  got'[s] = got[s]
<1>1. got \in [Ids -> Seq(Msgs)] /\ s \in Ids /\ s \notin gone
  BY DEF IInv, TypeOK
<1>2. got' = [x \in DOMAIN got |-> IF x \in gone THEN <<>> ELSE got[x]]
  BY DEF ForgetQueues, Reset
<1>3. QED
  BY <1>1, <1>2

LEMMA NothingTaken ==
  ASSUME IInv, NEW s \in Ids, NEW q PROVE got[s] \o SubSeq(q, 1, 0) = got[s]
<1>1. SubSeq(q, 1, 0) = <<>> /\ got[s] \in Seq(Msgs)
  BY DEF IInv, TypeOK
<1>2. QED
  BY <1>1, ConcatEmptySeq

\* The steps of the component by what causes them.
Creating == \E f \in SUBSET Topics \ {{}}, d \in Durations \cup {NoDuration} : Create(f, d)
Asking == \E hit \in {Resolve(p, to) : p \in Targets, to \in Targets} : Request(hit)
Ending == \E c \in Conns : PullTimeout(c) \/ Abort(c)
Delivering == \E topic \in Topics : Deliver(topic)
Switching == \E q \in SUBSET Toggles : SetQuirks(q)

LEMMA NextCases ==
  ASSUME Next
  PROVE  \/ Creating \/ Asking \/ Ending \/ Delivering \/ Switching
         \/ (CreateRefused \/ Clear \/ Reap) \/ Tick
BY DEF Next, Creating, Asking, Ending, Delivering, Switching

LEMMA SilentStep ==
  ASSUME IInv, [Next]_vars, Mute, NEW s \in subs \cap subs' PROVE got'[s] = got[s]
<1> DEFINE Same == got'[s] = got[s]
<1>1. s \in Ids /\ subs \subseteq Ids /\ counter \in Nat /\ \A x \in subs : x <= counter
  BY SubscriptionsAssumption DEF IInv, TypeOK
<1>2. ASSUME NEW f, NEW d, Create(f, d) PROVE Same
  <2> DEFINE gone == Reapable \cup Evicted(subs \ Reapable)
  <2>1. ForgetQueues(gone) /\ subs' = (subs \ gone) \cup {counter + 1}
    BY <1>2 DEF Create
  <2>2. gone \subseteq subs
    BY DEF Reapable, Evicted
  <2>3. counter + 1 \notin subs
    BY <1>1
  <2> HIDE DEF gone
  <2>4. subs' \cap gone = {}
    BY <2>1, <2>2, <2>3
  <2>5. QED
    BY <2>1, <2>4, DestroySilent
<1>3. ASSUME NEW gone, Destroy(gone) PROVE Same
  <2>1. ForgetQueues(gone) /\ subs' \cap gone = {}
    BY <1>3 DEF Destroy
  <2>2. QED
    BY <2>1, DestroySilent
<1>4. ASSUME NEW p, NEW to, Request(Resolve(p, to)) PROVE Same
  <2> DEFINE hit == Resolve(p, to)
  <2> HIDE DEF hit
  <2>1. ASSUME NEW c \in Conns, PullRefused(c, hit) PROVE Same
    BY <2>1 DEF PullRefused, store
  <2>2. ASSUME NEW c \in Conns, NEW lim \in Limits, PullServed(c, hit, lim)
        PROVE  Same
    BY <2>2 DEF PullServed
  <2>3. ASSUME NEW c \in Conns, NEW lim \in Limits, NEW t \in Timeouts,
               PullEmpty(c, hit, lim, t)
        PROVE  Same
    BY <2>3 DEF PullEmpty, store
  <2>4. ASSUME NEW d \in Durations \cup {NoDuration}, Renew(hit, d) PROVE Same
    BY <2>4 DEF Renew
  <2>5. ASSUME Unsubscribe(hit) PROVE Same
    BY <1>3, <2>5 DEF Unsubscribe
  <2>6. QED
    BY <1>4, <2>1, <2>2, <2>3, <2>4, <2>5 DEF Request, hit
<1>5. ASSUME NEW c \in Conns, PullTimeout(c) PROVE Same
  <2>1. got' = [got EXCEPT ![on[c]] = @ \o SubSeq(queue[on[c]], 1, 0)]
    BY <1>5 DEF PullTimeout
  <2>2. got \in [Ids -> Seq(Msgs)]
    BY DEF IInv, TypeOK
  <2>3. CASE on[c] = s
    <3>1. got'[s] = got[s] \o SubSeq(queue[s], 1, 0)
      BY <1>1, <2>1, <2>2, <2>3
    <3>2. QED
      BY <1>1, <3>1, NothingTaken
  <2>4. CASE on[c] # s
    BY <1>1, <2>1, <2>2, <2>4
  <2>5. QED
    BY <2>3, <2>4
<1>6. ASSUME NEW c \in Conns, Abort(c) PROVE Same
  BY <1>6 DEF Abort, store
<1>7. ASSUME CreateRefused \/ Clear \/ Reap PROVE Same
  BY <1>3, <1>7 DEF CreateRefused, Clear, Reap
<1>8. ASSUME NEW topic \in Topics, Deliver(topic) PROVE Same
  <2> DEFINE hit == {x \in subs : topic \in filter[x]}
  <2>1. got' = [x \in Ids |-> IF x \in hit
                              THEN got[x] \o SubSeq(Enqueued(x, produced + 1), 1, 0)
                              ELSE got[x]]
    BY <1>8 DEF Deliver
  <2> HIDE DEF hit
  <2>2. CASE s \in hit
    <3>1. got'[s] = got[s] \o SubSeq(Enqueued(s, produced + 1), 1, 0)
      BY <1>1, <2>1, <2>2
    <3>2. QED
      BY <1>1, <3>1, NothingTaken
  <2>3. CASE s \notin hit
    BY <1>1, <2>1, <2>3
  <2>4. QED
    BY <2>2, <2>3
<1>9. ASSUME Tick PROVE Same
  BY <1>9 DEF Tick
<1>10. ASSUME NEW q \in SUBSET Toggles, SetQuirks(q) PROVE Same
  BY <1>10 DEF SetQuirks, store
<1>11. ASSUME UNCHANGED vars PROVE Same
  BY <1>11 DEF vars, store
<1>12. ASSUME Next PROVE Same
  <2>1. Creating => Same
    BY <1>2 DEF Creating
  <2>2. Asking => Same
    BY <1>4 DEF Asking
  <2>3. Ending => Same
    BY <1>5, <1>6 DEF Ending
  <2>4. Delivering => Same
    BY <1>8 DEF Delivering
  <2>5. Switching => Same
    BY <1>10 DEF Switching
  <2>6. QED
    BY <1>7, <1>9, <1>12, <2>1, <2>2, <2>3, <2>4, <2>5, NextCases
<1>13. QED
  BY <1>11, <1>12 DEF Same

\* While always_empty is on nobody is handed an event, by whichever path a pull ends.
THEOREM MuteIsAirtight == Spec => MuteSilences
<1>1. IInv /\ [Next]_vars => [Mute => \A s \in subs \cap subs' : got'[s] = got[s]]_vars
  BY SilentStep
<1>2. QED
  BY <1>1, Invariance, PTL DEF Spec, MuteSilences

\* Only a creation takes a number, and it found room.
LEMMA RoomyStep ==
  ASSUME IInv, [Next]_vars, counter' # counter, "slot_limit" \in quirks
  PROVE  Cardinality(subs') <= SlotMax
<1>1. \E f, d : Create(f, d)
  <2> SUFFICES ASSUME ~\E f, d : Create(f, d) PROVE counter' = counter
    OBVIOUS
  <2>1. ASSUME NEW hit, Request(hit) PROVE counter' = counter
    BY <2>1 DEF Request, PullRefused, PullServed, PullEmpty, Renew, Unsubscribe, names
  <2>2. ASSUME \E c \in Conns : PullTimeout(c) \/ Abort(c) PROVE counter' = counter
    BY <2>2 DEF PullTimeout, Abort, names
  <2>3. ASSUME CreateRefused \/ Clear \/ Reap \/ Tick PROVE counter' = counter
    BY <2>3 DEF CreateRefused, Clear, Reap, Tick, names
  <2>4. ASSUME \E topic \in Topics : Deliver(topic) PROVE counter' = counter
    BY <2>4 DEF Deliver, names
  <2>5. ASSUME \E q \in SUBSET Toggles : SetQuirks(q) PROVE counter' = counter
    BY <2>5 DEF SetQuirks, names
  <2>6. ASSUME UNCHANGED vars PROVE counter' = counter
    BY <2>6 DEF vars, names
  <2>7. QED
    BY <2>1, <2>2, <2>3, <2>4, <2>5, <2>6 DEF Next
<1> DEFINE kept == (subs \ Reapable) \ Evicted(subs \ Reapable)
<1>2. subs' = kept \cup {counter + 1} /\ ~Full(kept)
  BY <1>1 DEF Create
<1>3. IsFiniteSet(kept)
  <2>1. IsFiniteSet(1 .. MaxId)
    BY SubscriptionsAssumption, FS_Interval
  <2>2. kept \subseteq 1 .. MaxId
    BY DEF IInv, TypeOK, Ids
  <2>3. QED
    BY <2>1, <2>2, FS_Subset
<1> HIDE DEF kept
<1>4. Cardinality(kept) \in Nat /\ ~(Cardinality(kept) >= SlotMax)
  BY <1>2, <1>3, FS_CardinalityType DEF Full
<1>5. \/ Cardinality(subs') = Cardinality(kept)
      \/ Cardinality(subs') = Cardinality(kept) + 1
  BY <1>2, <1>3, FS_AddElement
<1>6. QED
  BY <1>4, <1>5, SubscriptionsAssumption

\* However late the limit is switched on and over however many subscriptions, one
\* that is created under it fits in it.
THEOREM LimitIsKept == Spec => SlotLimitKept
<1>1. IInv /\ [Next]_vars =>
        [(counter' # counter /\ "slot_limit" \in quirks) => Cardinality(subs') <= SlotMax]_vars
  BY RoomyStep
<1>2. QED
  BY <1>1, Invariance, PTL DEF Spec, SlotLimitKept
===============================================================================
