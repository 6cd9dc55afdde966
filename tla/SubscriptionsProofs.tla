------------------------- MODULE SubscriptionsProofs -------------------------
(***************************************************************************)
(* Theorems about Subscriptions, for every value of its constants.         *)
(***************************************************************************)
EXTENDS Subscriptions, SequenceTheorems, TLAPS

\* What is left of a sequence without its first n elements.
LEMMA CutProperties ==
  ASSUME NEW S, NEW q \in Seq(S), NEW n \in Nat, n <= Len(q)
  PROVE  /\ Cut(q, n) \in Seq(S)
         /\ Len(Cut(q, n)) = Len(q) - n
         /\ \A i \in 1 .. Len(q) - n : Cut(q, n)[i] = q[n + i]
<1>1. /\ n + 1 \in 1 .. Len(q) + 1
      /\ Len(q) \in n + 1 - 1 .. Len(q)
      /\ \A i \in n + 1 .. Len(q) : q[i] \in S
  OBVIOUS
<1>2. QED
  BY <1>1, SubSeqProperties DEF Cut

\* The first n elements of a sequence.
LEMMA PrefixProperties ==
  ASSUME NEW S, NEW q \in Seq(S), NEW n \in Nat, n <= Len(q)
  PROVE  /\ SubSeq(q, 1, n) \in Seq(S)
         /\ Len(SubSeq(q, 1, n)) = n
         /\ \A i \in 1 .. n : SubSeq(q, 1, n)[i] = q[i]
BY SubSeqProperties

LEMMA LesserProperties ==
  ASSUME NEW a \in Nat, NEW b \in Nat
  PROVE  /\ Lesser(a, b) \in Nat
         /\ Lesser(a, b) <= a
         /\ Lesser(a, b) <= b
         /\ Lesser(a, b) = a \/ Lesser(a, b) = b
BY DEF Lesser

\* Moving the first n elements of one sequence to the end of another.
LEMMA TransferProperties ==
  ASSUME NEW S, NEW q \in Seq(S), NEW g \in Seq(S), NEW n \in Nat, n <= Len(q)
  PROVE  /\ Cut(q, n) \in Seq(S) /\ Len(Cut(q, n)) = Len(q) - n
         /\ g \o SubSeq(q, 1, n) \in Seq(S)
         /\ Len(g \o SubSeq(q, 1, n)) = Len(g) + n
         /\ q = <<>> => Cut(q, n) = <<>>
<1>1. Cut(q, n) \in Seq(S) /\ Len(Cut(q, n)) = Len(q) - n
  BY CutProperties
<1>2. SubSeq(q, 1, n) \in Seq(S) /\ Len(SubSeq(q, 1, n)) = n
  BY PrefixProperties
<1>3. g \o SubSeq(q, 1, n) \in Seq(S) /\ Len(g \o SubSeq(q, 1, n)) = Len(g) + n
  BY <1>2, ConcatProperties
<1>4. ASSUME q = <<>> PROVE Cut(q, n) = <<>>
  <2>1. Len(q) = 0 /\ n = 0
    BY <1>4
  <2>2. Len(Cut(q, n)) = 0
    BY <1>1, <2>1
  <2>3. QED
    BY <1>1, <2>2, EmptySeq
<1>5. QED
  BY <1>1, <1>3, <1>4

\* A list of long polls without its i-th.
LEMMA WithoutProperties ==
  ASSUME NEW S, NEW q \in Seq(S), NEW i \in 1 .. Len(q)
  PROVE  /\ Without(q, i) \in Seq(S)
         /\ Len(Without(q, i)) = Len(q) - 1
         /\ \A j \in 1 .. Len(q) - 1 :
              Without(q, i)[j] = IF j < i THEN q[j] ELSE q[j + 1]
<1> DEFINE a == SubSeq(q, 1, i - 1)  b == Cut(q, i)
<1>1. /\ a \in Seq(S) /\ Len(a) = i - 1
      /\ \A j \in 1 .. i - 1 : a[j] = q[j]
  BY PrefixProperties, i - 1 \in Nat, i - 1 <= Len(q)
<1>2. /\ b \in Seq(S) /\ Len(b) = Len(q) - i
      /\ \A j \in 1 .. Len(q) - i : b[j] = q[i + j]
  BY CutProperties, i \in Nat, i <= Len(q)
<1>3. Without(q, i) = a \o b
  BY DEF Without
<1>4. /\ a \o b \in Seq(S) /\ Len(a \o b) = Len(a) + Len(b)
      /\ \A j \in 1 .. Len(a) + Len(b) :
           (a \o b)[j] = IF j <= Len(a) THEN a[j] ELSE b[j - Len(a)]
  BY <1>1, <1>2, ConcatProperties
<1>5. Len(a) + Len(b) = Len(q) - 1
  BY <1>1, <1>2
<1>6. ASSUME NEW j \in 1 .. Len(q) - 1
      PROVE  (a \o b)[j] = IF j < i THEN q[j] ELSE q[j + 1]
  <2>1. CASE j < i
    BY <2>1, <1>1, <1>4, <1>5
  <2>2. CASE ~(j < i)
    <3>1. j - (i - 1) \in 1 .. Len(q) - i
      BY <2>2
    <3>2. b[j - (i - 1)] = q[i + (j - (i - 1))]
      BY <3>1, <1>2
    <3>4. i + (j - (i - 1)) = j + 1
      OBVIOUS
    <3>3. QED
      BY <2>2, <3>2, <3>4, <1>1, <1>4, <1>5
  <2>3. QED
    BY <2>1, <2>2
<1>7. QED
  BY <1>3, <1>4, <1>5, <1>6

-----------------------------------------------------------------------------
\* The inductive invariant: the types; the agreement between the list of long
\* polls and the long polls, without which a wake-up could serve a connection
\* that waits elsewhere; and on top of them the accounting of answers and
\* events.  Mute => muted links the quirk to its history variable.
IInv ==
  /\ TypeOK
  /\ PendingConsistent
  /\ AnsweredOnce
  /\ Mute => muted
  /\ NoLostWakeup
  /\ Conservation

USE SubscriptionsAssumption

\* Dropping the long polls of destroyed subscriptions leaves the list and the
\* long polls in agreement, and nobody waits on a destroyed one.
LEMMA DropPullsProperties ==
  ASSUME IInv, NEW gone \in SUBSET Ids, DropPulls(gone)
  PROVE  /\ waiting' \in [Ids -> Seq(Conns)]
         /\ on' \in [Conns -> Ids \cup {0}]
         /\ limit' \in [Conns -> Nat]
         /\ left' \in [Conns -> Nat]
         /\ answers' \in [Conns -> Nat]
         /\ ListedWaiters'
         /\ ListedOnce'
         /\ \A c \in Conns : on'[c] # 0 =>
              /\ on'[c] = on[c] /\ on'[c] \notin gone
              /\ \E i \in 1 .. Len(waiting'[on'[c]]) : waiting'[on'[c]][i] = c
         /\ AnsweredOnce'
         /\ \A s \in Ids : waiting'[s] = IF s \in gone THEN <<>> ELSE waiting[s]
<1> USE DEF IInv, TypeOK
<1>1. /\ waiting' \in [Ids -> Seq(Conns)]
      /\ \A s \in Ids : waiting'[s] = IF s \in gone THEN <<>> ELSE waiting[s]
  <2>1. <<>> \in Seq(Conns)
    OBVIOUS
  <2>2. waiting' = Reset(waiting, gone, <<>>)
    BY DEF DropPulls
  <2>3. QED
    BY <2>1, <2>2 DEF Reset
<1>2. /\ on' \in [Conns -> Ids \cup {0}]
      /\ \A c \in Conns : on'[c] = IF c \in Stranded(gone) THEN 0 ELSE on[c]
  BY DEF DropPulls, Reset
<1>3. limit' \in [Conns -> Nat] /\ left' \in [Conns -> Nat]
  BY DEF DropPulls, Reset
<1>4. /\ answers' \in [Conns -> Nat]
      /\ \A c \in Conns : answers'[c] = IF c \in Stranded(gone) THEN answers[c] + 1
                                                              ELSE answers[c]
  BY DEF DropPulls
<1>5. ASSUME NEW s \in Ids, s \notin gone, NEW i \in 1 .. Len(waiting[s])
      PROVE  waiting[s][i] \in Conns /\ on'[waiting[s][i]] = s
  <2>1. waiting[s][i] \in Conns /\ on[waiting[s][i]] = s
    BY <1>5, ElementOfSeq DEF PendingConsistent, ListedWaiters
  <2>2. QED
    BY <2>1, <1>2, <1>5 DEF Stranded
<1>8. ASSUME NEW s \in Ids, s \in gone
      PROVE  1 .. Len(waiting'[s]) = {}
  BY <1>1, <1>8
<1>9. ListedWaiters'
  <2>1. SUFFICES ASSUME NEW s \in Ids, NEW i \in 1 .. Len(waiting'[s])
                 PROVE  on'[waiting'[s][i]] = s
    BY DEF ListedWaiters
  <2>2. s \notin gone
    BY <2>1, <1>8
  <2>3. QED
    BY <2>1, <2>2, <1>1, <1>5
<1>10. ListedOnce'
  <2>1. SUFFICES ASSUME NEW s \in Ids, NEW i \in 1 .. Len(waiting'[s]),
                        NEW j \in 1 .. Len(waiting'[s]), waiting'[s][i] = waiting'[s][j]
                 PROVE  i = j
    BY DEF ListedOnce
  <2>2. s \notin gone
    BY <2>1, <1>8
  <2>3. QED
    BY <2>1, <2>2, <1>1 DEF PendingConsistent, ListedOnce
<1>6. ASSUME NEW c \in Conns, on'[c] # 0
      PROVE  /\ on'[c] = on[c] /\ on'[c] \notin gone
             /\ \E i \in 1 .. Len(waiting'[on'[c]]) : waiting'[on'[c]][i] = c
  <2>1. on'[c] = on[c] /\ on[c] \notin gone /\ on[c] \in Ids
    BY <1>2, <1>6 DEF Stranded
  <2>2. waiting'[on[c]] = waiting[on[c]]
    BY <2>1, <1>1
  <2>3. \E i \in 1 .. Len(waiting[on[c]]) : waiting[on[c]][i] = c
    BY <2>1, <1>6 DEF PendingConsistent, WaitersListed
  <2>4. QED
    BY <2>1, <2>2, <2>3
<1>7. AnsweredOnce'
  BY <1>2, <1>4 DEF AnsweredOnce, Stranded, Ids
<1>11. QED
  BY <1>1, <1>2, <1>3, <1>4, <1>6, <1>7, <1>9, <1>10

\* Forgetting the queues of destroyed subscriptions keeps the accounts.
LEMMA ForgetQueuesProperties ==
  ASSUME IInv, NEW gone \in SUBSET Ids, ForgetQueues(gone)
  PROVE  /\ queue' \in [Ids -> Seq(Msgs)]
         /\ got' \in [Ids -> Seq(Msgs)]
         /\ dropped' \in [Ids -> Nat]
         /\ offered' \in [Ids -> Nat]
         /\ Conservation'
         /\ \A s \in Ids : queue'[s] = IF s \in gone THEN <<>> ELSE queue[s]
<1> USE DEF IInv, TypeOK
<1>1. <<>> \in Seq(Msgs) /\ Len(<<>>) = 0
  OBVIOUS
<1>2. /\ queue' \in [Ids -> Seq(Msgs)]
      /\ \A s \in Ids : queue'[s] = IF s \in gone THEN <<>> ELSE queue[s]
  BY <1>1 DEF ForgetQueues, Reset
<1>3. /\ got' \in [Ids -> Seq(Msgs)]
      /\ \A s \in Ids : got'[s] = IF s \in gone THEN <<>> ELSE got[s]
  BY <1>1 DEF ForgetQueues, Reset
<1>4. /\ dropped' \in [Ids -> Nat] /\ offered' \in [Ids -> Nat]
      /\ \A s \in Ids : /\ dropped'[s] = IF s \in gone THEN 0 ELSE dropped[s]
                        /\ offered'[s] = IF s \in gone THEN 0 ELSE offered[s]
  BY DEF ForgetQueues, Reset
<1>5. Conservation'
  BY <1>1, <1>2, <1>3, <1>4 DEF Conservation
<1>6. QED
  BY <1>2, <1>3, <1>4, <1>5

-----------------------------------------------------------------------------
(* Each action keeps the invariant.                                         *)

\* What the invariant needs when neither a queue nor a long poll changes.
LEMMA QueuesAndPullsKept ==
  ASSUME IInv, UNCHANGED <<queue, got, dropped, offered, waiting, on, answers>>
  PROVE  /\ ListedWaiters' /\ ListedOnce' /\ AnsweredOnce' /\ Conservation'
         /\ (subs' = subs) => WaitersListed'
         /\ (muted' = muted /\ subs' \subseteq subs) => NoLostWakeup'
BY DEF IInv, PendingConsistent, ListedWaiters, ListedOnce, WaitersListed, AnsweredOnce,
       Conservation, NoLostWakeup

LEMMA DestroyKeeps ==
  ASSUME IInv, NEW gone \in SUBSET subs, Destroy(gone),
         UNCHANGED <<names, quirks, produced, muted>>
  PROVE  IInv'
<1>1. gone \in SUBSET Ids
  BY DEF IInv, TypeOK
<1>2. ForgetQueues(gone) /\ DropPulls(gone)
  BY DEF Destroy
<1>3. /\ ttl' \in [Ids -> Nat] /\ subs' = subs \ gone
      /\ UNCHANGED <<filter, path, counter, nextPort, quirks, produced, muted>>
  BY DEF IInv, TypeOK, Destroy, Reset, names
<1>4. TypeOK'
  BY <1>1, <1>2, <1>3, DropPullsProperties, ForgetQueuesProperties DEF IInv, TypeOK
<1>5. WaitersListed'
  BY <1>1, <1>2, <1>3, DropPullsProperties
     DEF IInv, PendingConsistent, WaitersListed
<1>6. NoLostWakeup'
  <2>1. SUFFICES ASSUME ~muted, NEW s \in subs, s \notin gone
                 PROVE  waiting'[s] = <<>> \/ queue'[s] = <<>>
    BY <1>3 DEF NoLostWakeup
  <2>2. s \in Ids
    BY DEF IInv, TypeOK
  <2>3. waiting'[s] = waiting[s] /\ queue'[s] = queue[s]
    <3>1. waiting'[s] = waiting[s]
      BY <2>1, <2>2, <1>1, <1>2, DropPullsProperties
    <3>2. queue'[s] = queue[s]
      BY <2>1, <2>2, <1>1, <1>2, ForgetQueuesProperties
    <3>3. QED
      BY <3>1, <3>2
  <2>4. QED
    BY <2>1, <2>3 DEF IInv, NoLostWakeup
<1>7. (Mute => muted)'
  BY <1>3 DEF IInv, Mute
<1>8. QED
  BY <1>1, <1>2, <1>4, <1>5, <1>6, <1>7, DropPullsProperties, ForgetQueuesProperties
     DEF IInv, PendingConsistent

LEMMA PullRefusedKeeps ==
  ASSUME IInv, NEW c \in Conns, NEW hit, PullRefused(c, hit)
  PROVE  IInv'
<1>1. TypeOK'
  BY DEF IInv, TypeOK, PullRefused, store, names
<1>2. AnsweredOnce'
  BY DEF IInv, TypeOK, PullRefused, AnsweredOnce, Idle
<1>3. QED
  BY <1>1, <1>2 DEF IInv, PullRefused, store, names, PendingConsistent, ListedWaiters,
     ListedOnce, WaitersListed, Mute, NoLostWakeup, Conservation

LEMMA LifetimeType ==
  ASSUME NEW d \in Durations \cup {NoDuration}
  PROVE  Lifetime(d) \in Nat
BY DEF Lifetime, Greater

LEMMA RenewKeeps ==
  ASSUME IInv, NEW hit, NEW d \in Durations \cup {NoDuration}, Renew(hit, d)
  PROVE  IInv'
<1>1. ttl' \in [Ids -> Nat]
  BY LifetimeType DEF IInv, TypeOK, Renew
<1>2. QED
  BY <1>1, QueuesAndPullsKept DEF IInv, TypeOK, Renew, pulls, names, PendingConsistent,
     Mute

LEMMA TickKeeps ==
  ASSUME IInv, Tick
  PROVE  IInv'
<1>1. ttl' \in [Ids -> Nat] /\ left' \in [Conns -> Nat]
  BY DEF IInv, TypeOK, Tick, Down
<1>2. QED
  BY <1>1, QueuesAndPullsKept DEF IInv, TypeOK, Tick, names, PendingConsistent, Mute

LEMMA SetQuirksKeeps ==
  ASSUME IInv, NEW q \in SUBSET Toggles, SetQuirks(q)
  PROVE  IInv'
<1>1. TypeOK'
  BY DEF IInv, TypeOK, SetQuirks, store, pulls, names
<1>2. NoLostWakeup' /\ (Mute => muted)'
  BY DEF IInv, TypeOK, SetQuirks, store, pulls, NoLostWakeup, Mute
<1>3. QED
  BY <1>1, <1>2, QueuesAndPullsKept
     DEF IInv, SetQuirks, store, pulls, PendingConsistent

\* Handing out the first n events of a queue keeps the accounts, and an empty
\* queue stays empty.
LEMMA HandOutProperties ==
  ASSUME IInv, NEW s \in Ids, NEW n \in Nat, n <= Len(queue[s]),
         queue' = [queue EXCEPT ![s] = Cut(@, n)],
         got' = [got EXCEPT ![s] = @ \o SubSeq(queue[s], 1, n)],
         UNCHANGED <<dropped, offered>>
  PROVE  /\ queue' \in [Ids -> Seq(Msgs)]
         /\ got' \in [Ids -> Seq(Msgs)]
         /\ Conservation'
         /\ \A x \in Ids : queue[x] = <<>> => queue'[x] = <<>>
<1>1. /\ queue \in [Ids -> Seq(Msgs)] /\ got \in [Ids -> Seq(Msgs)]
      /\ dropped \in [Ids -> Nat] /\ offered \in [Ids -> Nat]
  BY DEF IInv, TypeOK
<1>2. \A x \in Ids : offered[x] = Len(got[x]) + dropped[x] + Len(queue[x])
                       /\ Len(queue[x]) <= MaxQueue
  BY DEF IInv, Conservation
<1>3. queue[s] \in Seq(Msgs) /\ got[s] \in Seq(Msgs)
  BY <1>1
<1>4. /\ Cut(queue[s], n) \in Seq(Msgs) /\ Len(Cut(queue[s], n)) = Len(queue[s]) - n
      /\ got[s] \o SubSeq(queue[s], 1, n) \in Seq(Msgs)
      /\ Len(got[s] \o SubSeq(queue[s], 1, n)) = Len(got[s]) + n
      /\ queue[s] = <<>> => Cut(queue[s], n) = <<>>
  BY <1>3, TransferProperties, Zenon
<1>6. queue' \in [Ids -> Seq(Msgs)] /\ got' \in [Ids -> Seq(Msgs)]
  BY <1>1, <1>4
<1>7. Conservation'
  <2>1. SUFFICES ASSUME NEW x \in Ids
                 PROVE  /\ offered[x] = Len(got'[x]) + dropped[x] + Len(queue'[x])
                        /\ Len(queue'[x]) <= MaxQueue
    BY DEF Conservation
  <2>2. /\ Len(queue[x]) \in Nat /\ Len(got[x]) \in Nat /\ dropped[x] \in Nat
        /\ offered[x] = Len(got[x]) + dropped[x] + Len(queue[x])
        /\ Len(queue[x]) <= MaxQueue
    <3>1. queue[x] \in Seq(Msgs) /\ got[x] \in Seq(Msgs) /\ dropped[x] \in Nat
      BY <1>1
    <3>2. QED
      BY <1>2, <3>1, LenProperties
  <2>3. CASE x = s
    <3>1. /\ Len(got'[x]) = Len(got[x]) + n
          /\ Len(queue'[x]) = Len(queue[x]) - n
      BY <2>3, <1>1, <1>4
    <3>2. /\ offered[x] = (Len(got[x]) + n) + dropped[x] + (Len(queue[x]) - n)
          /\ Len(queue[x]) - n <= MaxQueue
      BY <2>2
    <3>3. QED
      BY <3>1, <3>2, Zenon
  <2>4. CASE x # s
    BY <2>4, <2>2, <1>1
  <2>5. QED
    BY <2>3, <2>4
<1>8. ASSUME NEW x \in Ids, queue[x] = <<>>
      PROVE  queue'[x] = <<>>
  <2>1. CASE x = s
    BY <2>1, <1>8, <1>4, <1>1
  <2>2. CASE x # s
    BY <2>2, <1>8, <1>1
  <2>3. QED
    BY <2>1, <2>2
<1>9. QED
  BY <1>6, <1>7, <1>8

LEMMA PullServedKeeps ==
  ASSUME IInv, NEW c \in Conns, NEW hit \in SUBSET subs, NEW lim \in Limits,
         PullServed(c, hit, lim)
  PROVE  IInv'
<1>1. PICK s \in hit :
        /\ ~Expired(s)
        /\ queue[s] # <<>>
        /\ queue' = [queue EXCEPT ![s] = Cut(@, Lesser(lim, Len(queue[s])))]
        /\ got' = [got EXCEPT ![s] = @ \o SubSeq(queue[s], 1, Lesser(lim, Len(queue[s])))]
  BY DEF PullServed
<1>2. s \in Ids /\ Len(queue[s]) \in Nat /\ lim \in Nat
  BY DEF IInv, TypeOK
<1>3. Lesser(lim, Len(queue[s])) \in Nat /\ Lesser(lim, Len(queue[s])) <= Len(queue[s])
  BY <1>2, LesserProperties
<1>4. UNCHANGED <<dropped, offered>>
  BY DEF PullServed
<1>5. /\ queue' \in [Ids -> Seq(Msgs)] /\ got' \in [Ids -> Seq(Msgs)]
      /\ Conservation'
      /\ \A x \in Ids : queue[x] = <<>> => queue'[x] = <<>>
  BY <1>1, <1>2, <1>3, <1>4, HandOutProperties
<1>6. answers' \in [Conns -> Nat] /\ AnsweredOnce'
  <2>1. /\ answers \in [Conns -> Nat] /\ on[c] = 0 /\ on' = on
        /\ answers' = [answers EXCEPT ![c] = 1]
        /\ \A x \in Conns : answers[x] <= (IF on[x] = 0 THEN 1 ELSE 0)
    BY DEF IInv, TypeOK, PullServed, AnsweredOnce, Idle
  <2>2. QED
    BY <2>1 DEF AnsweredOnce
<1>7. TypeOK'
  BY <1>5, <1>6 DEF IInv, TypeOK, PullServed, names
<1>8. NoLostWakeup'
  BY <1>5 DEF IInv, TypeOK, NoLostWakeup, PullServed
<1>9. PendingConsistent' /\ (Mute => muted)'
  BY DEF IInv, PullServed, PendingConsistent, ListedWaiters, ListedOnce,
         WaitersListed, Mute
<1>10. QED
  BY <1>5, <1>6, <1>7, <1>8, <1>9 DEF IInv

LEMMA PullEmptyKeeps ==
  ASSUME IInv, NEW c \in Conns, NEW hit \in SUBSET subs, NEW lim \in Limits,
         NEW t \in Timeouts, PullEmpty(c, hit, lim, t)
  PROVE  IInv'
<1>1. /\ on[c] = 0
      /\ UNCHANGED <<store, names, quirks, produced, muted>>
  BY DEF PullEmpty, Idle
<1>2. PICK s \in hit :
       /\ Mute \/ queue[s] = <<>>
       /\ IF t = 0
          THEN /\ answers' = [answers EXCEPT ![c] = 1]
               /\ UNCHANGED <<waiting, on, limit, left>>
          ELSE /\ answers' = [answers EXCEPT ![c] = 0]
               /\ waiting' = [waiting EXCEPT ![s] = Append(@, c)]
               /\ on' = [on EXCEPT ![c] = s]
               /\ limit' = [limit EXCEPT ![c] = lim]
               /\ left' = [left EXCEPT ![c] = t]
  BY DEF PullEmpty
<1>3. /\ s \in subs /\ s \in Ids /\ s # 0 /\ lim \in Nat /\ t \in Nat
      /\ answers \in [Conns -> Nat] /\ on \in [Conns -> Ids \cup {0}]
      /\ waiting \in [Ids -> Seq(Conns)] /\ waiting[s] \in Seq(Conns)
      /\ \A x \in Conns : answers[x] <= (IF on[x] = 0 THEN 1 ELSE 0)
  <2>1. s \in subs /\ lim \in Nat /\ t \in Nat
    OBVIOUS
  <2>2. s \in Ids
    BY <2>1 DEF IInv, TypeOK
  <2>3. s # 0
    BY <2>2 DEF Ids
  <2>4. /\ answers \in [Conns -> Nat] /\ on \in [Conns -> Ids \cup {0}]
        /\ waiting \in [Ids -> Seq(Conns)]
    BY DEF IInv, TypeOK
  <2>5. \A x \in Conns : answers[x] <= (IF on[x] = 0 THEN 1 ELSE 0)
    BY DEF IInv, AnsweredOnce
  <2>6. QED
    BY <2>1, <2>2, <2>3, <2>4, <2>5
<1>4. Conservation' /\ (Mute => muted)'
  BY <1>1 DEF IInv, Conservation, Mute, store
<1>5. CASE t = 0
  <2>1. answers' = [answers EXCEPT ![c] = 1] /\ UNCHANGED <<waiting, on, limit, left>>
    BY <1>2, <1>5
  <2>2. TypeOK'
    BY <2>1, <1>1 DEF IInv, TypeOK, store, names
  <2>3. AnsweredOnce'
    BY <2>1, <1>1, <1>3 DEF AnsweredOnce
  <2>4. PendingConsistent' /\ NoLostWakeup'
    BY <2>1, <1>1 DEF IInv, store, PendingConsistent, ListedWaiters, ListedOnce,
       WaitersListed, NoLostWakeup
  <2>5. QED
    BY <2>2, <2>3, <2>4, <1>4 DEF IInv
<1>6. CASE t # 0
  <2>1. /\ answers' = [answers EXCEPT ![c] = 0]
        /\ waiting' = [waiting EXCEPT ![s] = Append(@, c)]
        /\ on' = [on EXCEPT ![c] = s]
        /\ limit' = [limit EXCEPT ![c] = lim]
        /\ left' = [left EXCEPT ![c] = t]
    BY <1>2, <1>6
  <2>2. /\ Append(waiting[s], c) \in Seq(Conns)
        /\ Len(Append(waiting[s], c)) = Len(waiting[s]) + 1
        /\ \A i \in 1 .. Len(waiting[s]) : Append(waiting[s], c)[i] = waiting[s][i]
        /\ Append(waiting[s], c)[Len(waiting[s]) + 1] = c
        /\ Len(waiting[s]) \in Nat
    BY <1>3, AppendProperties
  <2>3. TypeOK'
    <3>1. waiting' \in [Ids -> Seq(Conns)] /\ on' \in [Conns -> Ids \cup {0}]
      BY <2>1, <2>2, <1>3
    <3>2. limit' \in [Conns -> Nat] /\ left' \in [Conns -> Nat] /\ answers' \in [Conns -> Nat]
      BY <2>1, <1>3 DEF IInv, TypeOK
    <3>3. QED
      BY <3>1, <3>2, <1>1 DEF IInv, TypeOK, store, names
  <2>4. AnsweredOnce'
    BY <2>1, <1>3 DEF AnsweredOnce
  <2>5. ASSUME NEW x \in Ids, NEW i \in 1 .. Len(waiting[x])
        PROVE  waiting[x][i] \in Conns /\ waiting[x][i] # c /\ on'[waiting[x][i]] = x
    <3>1. waiting[x][i] \in Conns /\ on[waiting[x][i]] = x
      BY <1>3, ElementOfSeq DEF IInv, PendingConsistent, ListedWaiters
    <3>2. QED
      BY <3>1, <2>1, <1>1, <1>3 DEF Ids
  <2>6. ListedWaiters'
    <3>1. SUFFICES ASSUME NEW x \in Ids, NEW i \in 1 .. Len(waiting'[x])
                   PROVE  on'[waiting'[x][i]] = x
      BY DEF ListedWaiters
    <3>2. CASE x = s /\ i = Len(waiting[s]) + 1
      BY <3>2, <2>1, <2>2, <1>3
    <3>3. CASE x = s /\ i # Len(waiting[s]) + 1
      <4>1. i \in 1 .. Len(waiting[s]) /\ waiting'[x][i] = waiting[s][i]
        BY <3>3, <2>1, <2>2, <1>3
      <4>2. QED
        BY <4>1, <3>3, <2>5
    <3>4. CASE x # s
      BY <3>4, <2>1, <2>5, <1>3
    <3>5. QED
      BY <3>2, <3>3, <3>4
  <2>7. ListedOnce'
    <3>1. SUFFICES ASSUME NEW x \in Ids, NEW i \in 1 .. Len(waiting'[x]),
                          NEW j \in 1 .. Len(waiting'[x]), waiting'[x][i] = waiting'[x][j]
                   PROVE  i = j
      BY DEF ListedOnce
    <3>2. CASE x # s
      BY <3>1, <3>2, <2>1, <1>3 DEF IInv, PendingConsistent, ListedOnce
    <3>3. CASE x = s
      <4>1. Len(waiting'[x]) = Len(waiting[s]) + 1
        BY <3>3, <2>1, <2>2, <1>3
      <4>2. \A l \in 1 .. Len(waiting[s]) : waiting'[x][l] = waiting[s][l] /\ waiting[s][l] # c
        BY <3>3, <2>1, <2>2, <2>5, <1>3
      <4>3. waiting'[x][Len(waiting[s]) + 1] = c
        BY <3>3, <2>1, <2>2, <1>3
      <4>4. \A l, m \in 1 .. Len(waiting[s]) : waiting[s][l] = waiting[s][m] => l = m
        BY <1>3 DEF IInv, PendingConsistent, ListedOnce
      <4>5. QED
        BY <3>1, <4>1, <4>2, <4>3, <4>4, <2>2
    <3>4. QED
      BY <3>2, <3>3
  <2>8. WaitersListed'
    <3>1. SUFFICES ASSUME NEW x \in Conns, on'[x] # 0
                   PROVE  /\ on'[x] \in subs
                          /\ \E i \in 1 .. Len(waiting'[on'[x]]) : waiting'[on'[x]][i] = x
      BY <1>1 DEF WaitersListed, store
    <3>2. CASE x = c
      <4>1. on'[x] = s /\ Len(waiting[s]) + 1 \in 1 .. Len(waiting'[s])
            /\ waiting'[s][Len(waiting[s]) + 1] = x
        BY <3>2, <2>1, <2>2, <1>3
      <4>2. QED
        BY <4>1, <1>3
    <3>3. CASE x # c
      <4>1. on'[x] = on[x] /\ on[x] \in Ids
        BY <3>1, <3>3, <2>1, <1>3
      <4>2. on[x] \in subs /\ \E i \in 1 .. Len(waiting[on[x]]) : waiting[on[x]][i] = x
        BY <3>1, <4>1 DEF IInv, PendingConsistent, WaitersListed
      <4>3. PICK i \in 1 .. Len(waiting[on[x]]) : waiting[on[x]][i] = x
        BY <4>2
      <4>4. i \in 1 .. Len(waiting'[on[x]]) /\ waiting'[on[x]][i] = x
        BY <4>1, <4>3, <2>1, <2>2, <1>3
      <4>5. QED
        BY <4>1, <4>2, <4>4
    <3>4. QED
      BY <3>2, <3>3
  <2>9. NoLostWakeup'
    <3>1. SUFFICES ASSUME ~muted, NEW x \in subs
                   PROVE  waiting'[x] = <<>> \/ queue[x] = <<>>
      BY <1>1 DEF NoLostWakeup, store
    <3>2. x \in Ids /\ (waiting[x] = <<>> \/ queue[x] = <<>>)
      BY <3>1 DEF IInv, TypeOK, NoLostWakeup
    <3>3. queue[s] = <<>>
      BY <3>1, <1>2 DEF IInv
    <3>4. QED
      BY <3>2, <3>3, <2>1, <1>3
  <2>10. QED
    BY <2>3, <2>4, <2>6, <2>7, <2>8, <2>9, <1>4 DEF IInv, PendingConsistent
<1>7. QED
  BY <1>5, <1>6

\* A long poll that leaves the list leaves the others in agreement.
LEMMA ForgetProperties ==
  ASSUME IInv, NEW c \in Conns, ~Idle(c), Forget(c)
  PROVE  /\ waiting' \in [Ids -> Seq(Conns)]
         /\ on' = [on EXCEPT ![c] = 0]
         /\ on' \in [Conns -> Ids \cup {0}]
         /\ limit' \in [Conns -> Nat]
         /\ left' \in [Conns -> Nat]
         /\ ListedWaiters'
         /\ ListedOnce'
         /\ subs' = subs => WaitersListed'
         /\ \A x \in Ids : waiting[x] = <<>> => waiting'[x] = <<>>
<1> DEFINE s == on[c]
<1>1. /\ s \in Ids /\ s # 0
      /\ on \in [Conns -> Ids \cup {0}]
      /\ waiting \in [Ids -> Seq(Conns)] /\ waiting[s] \in Seq(Conns)
  BY DEF IInv, TypeOK, Idle, Ids
<1>2. PICK i \in 1 .. Len(waiting[s]) :
        /\ waiting[s][i] = c
        /\ waiting' = [waiting EXCEPT ![s] = Without(@, i)]
  BY DEF Forget
<1>3. /\ on' = [on EXCEPT ![c] = 0] /\ on' \in [Conns -> Ids \cup {0}]
      /\ limit' \in [Conns -> Nat] /\ left' \in [Conns -> Nat]
  BY DEF Forget, IInv, TypeOK
<1>4. /\ Without(waiting[s], i) \in Seq(Conns)
      /\ Len(Without(waiting[s], i)) = Len(waiting[s]) - 1
      /\ \A j \in 1 .. Len(waiting[s]) - 1 :
           Without(waiting[s], i)[j] = IF j < i THEN waiting[s][j] ELSE waiting[s][j + 1]
  BY <1>1, WithoutProperties
<1>5. waiting' \in [Ids -> Seq(Conns)]
  BY <1>1, <1>2, <1>4
<1>6. /\ Len(waiting'[s]) = Len(waiting[s]) - 1
      /\ \A j \in 1 .. Len(waiting[s]) - 1 :
           waiting'[s][j] = IF j < i THEN waiting[s][j] ELSE waiting[s][j + 1]
      /\ \A x \in Ids : x # s => waiting'[x] = waiting[x]
  BY <1>1, <1>2, <1>4
<1>7. \A x \in Ids : \A j \in 1 .. Len(waiting[x]) :
        waiting[x][j] \in Conns /\ on[waiting[x][j]] = x
  BY <1>1, ElementOfSeq DEF IInv, PendingConsistent, ListedWaiters
<1>8. \A x \in Ids : \A l, m \in 1 .. Len(waiting[x]) : waiting[x][l] = waiting[x][m] => l = m
  BY DEF IInv, PendingConsistent, ListedOnce
<1>9. Len(waiting[s]) \in Nat
  BY <1>1
<1>10. ListedWaiters'
  <2>1. SUFFICES ASSUME NEW x \in Ids, NEW j \in 1 .. Len(waiting'[x])
                 PROVE  on'[waiting'[x][j]] = x
    BY DEF ListedWaiters
  <2>2. CASE x = s
    <3>1. PICK l \in 1 .. Len(waiting[s]) : waiting'[x][j] = waiting[s][l] /\ l # i
      <4>1. j \in 1 .. Len(waiting[s]) - 1
        BY <2>1, <2>2, <1>6
      <4>2. CASE j < i
        BY <4>1, <4>2, <2>2, <1>6, <1>9
      <4>3. CASE ~(j < i)
        <5>1. j + 1 \in 1 .. Len(waiting[s]) /\ j + 1 # i
          BY <4>1, <4>3, <1>9
        <5>2. waiting'[x][j] = waiting[s][j + 1]
          BY <4>1, <4>3, <2>2, <1>6
        <5>3. QED
          BY <5>1, <5>2
      <4>4. QED
        BY <4>2, <4>3
    <3>2. waiting[s][l] # c /\ waiting[s][l] \in Conns /\ on[waiting[s][l]] = s
      BY <3>1, <1>1, <1>2, <1>7, <1>8
    <3>3. QED
      BY <3>1, <3>2, <2>2, <1>1, <1>3
  <2>3. CASE x # s
    <3>1. j \in 1 .. Len(waiting[x]) /\ waiting'[x][j] = waiting[x][j]
      BY <2>1, <2>3, <1>6
    <3>2. waiting[x][j] \in Conns /\ on[waiting[x][j]] = x
      BY <3>1, <1>7
    <3>3. QED
      BY <3>1, <3>2, <2>3, <1>1, <1>3
  <2>4. QED
    BY <2>2, <2>3
<1>11. ListedOnce'
  <2>1. SUFFICES ASSUME NEW x \in Ids, NEW l \in 1 .. Len(waiting'[x]),
                        NEW m \in 1 .. Len(waiting'[x]), waiting'[x][l] = waiting'[x][m]
                 PROVE  l = m
    BY DEF ListedOnce
  <2>2. CASE x = s
    <3>1. l \in 1 .. Len(waiting[s]) - 1 /\ m \in 1 .. Len(waiting[s]) - 1
      BY <2>1, <2>2, <1>6
    <3>2. /\ l \in 1 .. Len(waiting[s]) /\ l + 1 \in 1 .. Len(waiting[s])
          /\ m \in 1 .. Len(waiting[s]) /\ m + 1 \in 1 .. Len(waiting[s])
      BY <3>1, <1>9
    <3>3. (IF l < i THEN waiting[s][l] ELSE waiting[s][l + 1])
            = (IF m < i THEN waiting[s][m] ELSE waiting[s][m + 1])
      BY <2>1, <2>2, <3>1, <1>6
    <3>4. \A a, b \in 1 .. Len(waiting[s]) : waiting[s][a] = waiting[s][b] => a = b
      BY <1>1, <1>8
    <3>5. QED
      BY <3>1, <3>2, <3>3, <3>4
  <2>3. CASE x # s
    BY <2>1, <2>3, <1>6, <1>8
  <2>4. QED
    BY <2>2, <2>3
<1>12. ASSUME NEW x \in Conns, on'[x] # 0
       PROVE  /\ on'[x] \in subs
              /\ \E j \in 1 .. Len(waiting'[on'[x]]) : waiting'[on'[x]][j] = x
  <2>1. x # c /\ on'[x] = on[x] /\ on[x] # 0 /\ on[x] \in Ids
    BY <1>12, <1>1, <1>3
  <2>2. on[x] \in subs /\ \E j \in 1 .. Len(waiting[on[x]]) : waiting[on[x]][j] = x
    BY <2>1 DEF IInv, PendingConsistent, WaitersListed
  <2>3. PICK j \in 1 .. Len(waiting[on[x]]) : waiting[on[x]][j] = x
    BY <2>2
  <2>4. CASE on[x] # s
    BY <2>1, <2>2, <2>3, <2>4, <1>6
  <2>5. CASE on[x] = s
    <3>1. j # i
      BY <2>1, <2>3, <2>5, <1>2
    <3>2. CASE j < i
      <4>1. j \in 1 .. Len(waiting[s]) - 1 /\ waiting'[s][j] = waiting[s][j]
        BY <2>3, <2>5, <3>2, <1>6, <1>9
      <4>2. QED
        BY <4>1, <2>1, <2>2, <2>3, <2>5, <1>6
    <3>3. CASE j > i
      <4>1. j - 1 \in 1 .. Len(waiting[s]) - 1 /\ ~(j - 1 < i) /\ (j - 1) + 1 = j
        BY <2>3, <2>5, <3>3, <1>9
      <4>2. waiting'[s][j - 1] = waiting[s][j]
        BY <4>1, <1>6
      <4>3. QED
        BY <4>1, <4>2, <2>1, <2>2, <2>3, <2>5, <1>6
    <3>4. QED
      BY <3>1, <3>2, <3>3
  <2>6. QED
    BY <2>4, <2>5
<1>13. ASSUME NEW x \in Ids, waiting[x] = <<>> PROVE waiting'[x] = <<>>
  <2>1. x # s
    BY <1>13, <1>2
  <2>2. QED
    BY <2>1, <1>6, <1>13
<1>14. QED
  BY <1>3, <1>5, <1>10, <1>11, <1>12, <1>13 DEF WaitersListed

LEMMA AbortKeeps ==
  ASSUME IInv, NEW c \in Conns, Abort(c)
  PROVE  IInv'
<1>1. ~Idle(c) /\ Forget(c) /\ UNCHANGED <<store, names, quirks, produced, muted, answers>>
  BY DEF Abort
<1>2. TypeOK'
  BY <1>1, ForgetProperties DEF IInv, TypeOK, store, names
<1>3. AnsweredOnce'
  <2>1. on' = [on EXCEPT ![c] = 0] /\ on \in [Conns -> Ids \cup {0}]
        /\ answers' = answers /\ answers \in [Conns -> Nat]
    BY <1>1, ForgetProperties DEF IInv, TypeOK
  <2>2. QED
    BY <2>1 DEF IInv, AnsweredOnce
<1>4. NoLostWakeup'
  <2>1. \A x \in Ids : waiting[x] = <<>> => waiting'[x] = <<>>
    BY <1>1, ForgetProperties
  <2>2. QED
    BY <1>1, <2>1 DEF IInv, TypeOK, NoLostWakeup, store
<1>5. PendingConsistent'
  BY <1>1, ForgetProperties DEF PendingConsistent, store
<1>6. Conservation' /\ (Mute => muted)'
  BY <1>1 DEF IInv, Conservation, Mute, store
<1>7. QED
  BY <1>2, <1>3, <1>4, <1>5, <1>6 DEF IInv

LEMMA PullTimeoutKeeps ==
  ASSUME IInv, NEW c \in Conns, PullTimeout(c)
  PROVE  IInv'
<1> DEFINE s == on[c]
           n == IF Mute THEN 0 ELSE Lesser(limit[c], Len(queue[s]))
<1>1. /\ ~Idle(c) /\ Forget(c)
      /\ queue' = [queue EXCEPT ![s] = Cut(@, n)]
      /\ got' = [got EXCEPT ![s] = @ \o SubSeq(queue[s], 1, n)]
      /\ answers' = [answers EXCEPT ![c] = @ + 1]
      /\ UNCHANGED <<subs, filter, path, ttl, dropped, offered, names, quirks,
                     produced, muted>>
  BY DEF PullTimeout
<1>2. /\ s \in Ids /\ queue[s] \in Seq(Msgs) /\ limit[c] \in Nat
      /\ on \in [Conns -> Ids \cup {0}] /\ answers \in [Conns -> Nat]
  BY <1>1 DEF IInv, TypeOK, Idle
<1>3. n \in Nat /\ n <= Len(queue[s])
  <2>1. Len(queue[s]) \in Nat
    BY <1>2, LenProperties
  <2>2. Lesser(limit[c], Len(queue[s])) \in Nat
        /\ Lesser(limit[c], Len(queue[s])) <= Len(queue[s])
    BY <1>2, <2>1, LesserProperties
  <2>3. QED
    BY <2>1, <2>2
<1>4. /\ queue' \in [Ids -> Seq(Msgs)] /\ got' \in [Ids -> Seq(Msgs)]
      /\ Conservation'
      /\ \A x \in Ids : queue[x] = <<>> => queue'[x] = <<>>
  <2> HIDE DEF n
  <2>1. QED
    BY <1>1, <1>2, <1>3, HandOutProperties
<1>5. TypeOK'
  <2>1. /\ waiting' \in [Ids -> Seq(Conns)] /\ on' \in [Conns -> Ids \cup {0}]
        /\ limit' \in [Conns -> Nat] /\ left' \in [Conns -> Nat]
    BY <1>1, ForgetProperties
  <2>2. answers' \in [Conns -> Nat]
    BY <1>1, <1>2
  <2> HIDE DEF n
  <2>3. QED
    BY <1>1, <1>4, <2>1, <2>2 DEF IInv, TypeOK, names
<1>6. AnsweredOnce'
  <2>1. on' = [on EXCEPT ![c] = 0]
    BY <1>1, ForgetProperties
  <2>2. \A x \in Conns : answers[x] <= (IF on[x] = 0 THEN 1 ELSE 0)
    BY DEF IInv, AnsweredOnce
  <2>3. on[c] # 0
    BY <1>1 DEF Idle
  <2>4. QED
    BY <2>1, <2>2, <2>3, <1>1, <1>2 DEF AnsweredOnce
<1>7. NoLostWakeup'
  <2>1. \A x \in Ids : waiting[x] = <<>> => waiting'[x] = <<>>
    BY <1>1, ForgetProperties
  <2>2. QED
    BY <1>1, <1>4, <2>1 DEF IInv, TypeOK, NoLostWakeup
<1>8. PendingConsistent' /\ (Mute => muted)'
  BY <1>1, ForgetProperties DEF IInv, PendingConsistent, Mute
<1>9. QED
  BY <1>4, <1>5, <1>6, <1>7, <1>8 DEF IInv

LEMMA PortType ==
  ASSUME nextPort \in 0 .. MaxPort
  PROVE  Port \in 0 .. MaxPort
BY DEF Port, Greater

LEMMA CreateKeeps ==
  ASSUME IInv, NEW f \in SUBSET Topics \ {{}}, NEW d \in Durations \cup {NoDuration},
         Create(f, d)
  PROVE  IInv'
<1> DEFINE gone == Reapable \cup Evicted(subs \ Reapable)
           new == counter + 1
<1>1. /\ new <= MaxId
      /\ subs' = (subs \ gone) \cup {new}
      /\ counter' = new
      /\ nextPort' = IF Port = 0 THEN nextPort
                     ELSE IF Port >= MaxPort THEN BasePort ELSE Port + 1
      /\ filter' = [filter EXCEPT ![new] = f]
      /\ path' = [path EXCEPT ![new] = PathFor(new)]
      /\ ttl' = [Reset(ttl, gone, 0) EXCEPT ![new] = Lifetime(d)]
      /\ ForgetQueues(gone)
      /\ DropPulls(gone)
      /\ UNCHANGED <<quirks, produced, muted>>
  BY DEF Create
<1>2. gone \in SUBSET Ids /\ new \in Ids /\ new \notin subs /\ subs \subseteq Ids
  <2>1. Reapable \subseteq subs /\ Evicted(subs \ Reapable) \subseteq subs
    BY DEF Reapable, Evicted
  <2>2. subs \subseteq Ids /\ counter \in 0 .. MaxId /\ \A s \in subs : s <= counter
    BY DEF IInv, TypeOK
  <2>3. counter + 1 \in Ids /\ counter + 1 \notin subs
    BY <2>2, <1>1 DEF Ids
  <2>4. QED
    BY <2>1, <2>2, <2>3
<1> HIDE DEF gone
<1>3. /\ waiting' \in [Ids -> Seq(Conns)] /\ on' \in [Conns -> Ids \cup {0}]
      /\ limit' \in [Conns -> Nat] /\ left' \in [Conns -> Nat]
      /\ answers' \in [Conns -> Nat]
      /\ ListedWaiters' /\ ListedOnce' /\ AnsweredOnce'
      /\ \A c \in Conns : on'[c] # 0 =>
           /\ on'[c] = on[c] /\ on'[c] \notin gone
           /\ \E i \in 1 .. Len(waiting'[on'[c]]) : waiting'[on'[c]][i] = c
      /\ \A s \in Ids : waiting'[s] = IF s \in gone THEN <<>> ELSE waiting[s]
  BY <1>1, <1>2, DropPullsProperties
<1>4. /\ queue' \in [Ids -> Seq(Msgs)] /\ got' \in [Ids -> Seq(Msgs)]
      /\ dropped' \in [Ids -> Nat] /\ offered' \in [Ids -> Nat]
      /\ Conservation'
      /\ \A s \in Ids : queue'[s] = IF s \in gone THEN <<>> ELSE queue[s]
  BY <1>1, <1>2, ForgetQueuesProperties
<1>5. WaitersListed'
  <2>1. SUFFICES ASSUME NEW c \in Conns, on'[c] # 0
                 PROVE  on'[c] \in subs'
    BY <1>3 DEF WaitersListed
  <2>2. on'[c] = on[c] /\ on[c] \notin gone
    BY <2>1, <1>3
  <2>3. on[c] \in subs
    BY <2>1, <2>2 DEF IInv, PendingConsistent, WaitersListed
  <2>4. QED
    BY <2>2, <2>3, <1>1
<1>6. NoLostWakeup'
  <2>1. SUFFICES ASSUME ~muted, NEW s \in subs'
                 PROVE  waiting'[s] = <<>> \/ queue'[s] = <<>>
    BY <1>1 DEF NoLostWakeup
  <2>2. CASE s \in subs /\ s \notin gone
    <3>1. waiting[s] = <<>> \/ queue[s] = <<>>
      BY <2>1, <2>2 DEF IInv, NoLostWakeup
    <3>2. waiting'[s] = waiting[s] /\ queue'[s] = queue[s]
      BY <2>2, <1>2, <1>3, <1>4
    <3>3. QED
      BY <3>1, <3>2
  <2>3. CASE s = new
    <3>1. SUFFICES ASSUME waiting'[s] # <<>> PROVE FALSE
      OBVIOUS
    <3>2. waiting'[s] \in Seq(Conns) /\ s \in Ids
      BY <2>3, <1>2, <1>3
    <3>3. 1 \in 1 .. Len(waiting'[s])
      BY <3>1, <3>2, EmptySeq
    <3>4. waiting'[s][1] \in Conns /\ on'[waiting'[s][1]] = s
      BY <3>2, <3>3, <1>3, ElementOfSeq DEF ListedWaiters
    <3>5. s # 0
      BY <3>2 DEF Ids
    <3>6. on'[waiting'[s][1]] \in subs
      <4>1. PICK c \in Conns : c = waiting'[s][1]
        BY <3>4
      <4>2. on'[c] # 0
        BY <4>1, <3>4, <3>5
      <4>3. on'[c] = on[c]
        BY <4>2, <1>3
      <4>4. on[c] \in subs
        BY <4>2, <4>3 DEF IInv, PendingConsistent, WaitersListed
      <4>5. QED
        BY <4>1, <4>3, <4>4
    <3>7. QED
      BY <3>4, <3>6, <2>3, <1>2
  <2>4. QED
    BY <2>1, <2>2, <2>3, <1>1
<1>7. TypeOK'
  <2>1. subs' \subseteq Ids /\ counter' \in 0 .. MaxId
    <3>1. subs' \subseteq Ids
      BY <1>1, <1>2
    <3>2. counter \in 0 .. MaxId
      BY DEF IInv, TypeOK
    <3>3. QED
      BY <3>1, <3>2, <1>1
  <2>2. \A s \in subs' : s <= counter'
    <3>1. counter \in 0 .. MaxId /\ subs \subseteq Ids /\ \A s \in subs : s <= counter
      BY DEF IInv, TypeOK
    <3>2. QED
      BY <3>1, <1>1 DEF Ids
  <2>3. filter' \in [Ids -> SUBSET Topics]
    BY <1>1, <1>2 DEF IInv, TypeOK
  <2>4. nextPort \in 0 .. MaxPort /\ Port \in 0 .. MaxPort
    BY PortType DEF IInv, TypeOK
  <2>5. nextPort' \in 0 .. MaxPort
    BY <2>4, <1>1
  <2>6. path' \in [Ids -> Paths]
    <3>1. PathFor(new) \in Paths
      BY <2>4, <1>2 DEF PathFor, Paths, Ids
    <3>2. path \in [Ids -> Paths]
      BY DEF IInv, TypeOK
    <3>3. QED
      BY <3>1, <3>2, <1>1, <1>2
  <2>7. ttl' \in [Ids -> Nat]
    <3>1. Lifetime(d) \in Nat
      BY LifetimeType
    <3>2. Reset(ttl, gone, 0) \in [Ids -> Nat]
      BY DEF IInv, TypeOK, Reset
    <3>3. QED
      BY <3>1, <3>2, <1>1, <1>2
  <2>8. QED
    BY <2>1, <2>2, <2>3, <2>5, <2>6, <2>7, <1>1, <1>3, <1>4 DEF IInv, TypeOK
<1>8. (Mute => muted)'
  BY <1>1 DEF IInv, Mute
<1>9. QED
  BY <1>3, <1>4, <1>5, <1>6, <1>7, <1>8 DEF IInv, PendingConsistent

\* Queueing an event keeps the queue within its capacity and makes room for it by
\* dropping the oldest.
LEMMA EnqueuedProperties ==
  ASSUME IInv, NEW s \in Ids, NEW m \in Msgs
  PROVE  /\ Enqueued(s, m) \in Seq(Msgs)
         /\ Len(Enqueued(s, m)) = IF Len(queue[s]) >= MaxQueue THEN Len(queue[s])
                                                                ELSE Len(queue[s]) + 1
         /\ Len(Enqueued(s, m)) <= MaxQueue
         /\ Len(queue[s]) \in Nat
<1>1. queue[s] \in Seq(Msgs) /\ Len(queue[s]) \in Nat /\ Len(queue[s]) <= MaxQueue
  BY LenProperties DEF IInv, TypeOK, Conservation
<1>2. CASE Len(queue[s]) >= MaxQueue
  <2>1. queue[s] # <<>>
    BY <1>1, <1>2
  <2>2. Tail(queue[s]) \in Seq(Msgs) /\ Len(Tail(queue[s])) = Len(queue[s]) - 1
    BY <1>1, <2>1, HeadTailProperties
  <2>3. /\ Append(Tail(queue[s]), m) \in Seq(Msgs)
        /\ Len(Append(Tail(queue[s]), m)) = Len(Tail(queue[s])) + 1
    BY <2>2, AppendProperties
  <2>4. Enqueued(s, m) = Append(Tail(queue[s]), m)
    BY <1>2 DEF Enqueued
  <2>5. QED
    BY <1>1, <1>2, <2>2, <2>3, <2>4
<1>3. CASE ~(Len(queue[s]) >= MaxQueue)
  <2>1. /\ Append(queue[s], m) \in Seq(Msgs)
        /\ Len(Append(queue[s], m)) = Len(queue[s]) + 1
    BY <1>1, AppendProperties
  <2>2. Enqueued(s, m) = Append(queue[s], m)
    BY <1>3 DEF Enqueued
  <2>3. QED
    BY <1>1, <1>3, <2>1, <2>2
<1>4. QED
  BY <1>2, <1>3

LEMMA DeliverKeeps ==
  ASSUME IInv, NEW topic \in Topics, Deliver(topic)
  PROVE  IInv'
<1> DEFINE m == produced + 1
           hit == {s \in subs : topic \in filter[s]}
           woken == IF Mute THEN {} ELSE {s \in hit : waiting[s] # <<>>}
           callers == {c \in Conns : on[c] \in woken}
<1>1. PICK k \in [woken -> 1 .. Cardinality(Conns)], upto \in [callers -> 0 .. MaxQueue] :
        LET served == {c \in callers : \E i \in 1 .. k[on[c]] : waiting[on[c]][i] = c}
            out(s) == IF s \in woken THEN upto[waiting[s][k[s]]] ELSE 0
        IN /\ \A s \in woken : Wakes(s, Enqueued(s, m), k[s], upto)
           /\ \A c \in callers \ served : upto[c] = MaxQueue
           /\ queue' = [s \in Ids |-> IF s \in hit THEN Cut(Enqueued(s, m), out(s))
                                                   ELSE queue[s]]
           /\ got' = [s \in Ids |-> IF s \in hit
                                    THEN got[s] \o SubSeq(Enqueued(s, m), 1, out(s))
                                    ELSE got[s]]
           /\ waiting' = [s \in Ids |-> IF s \in woken THEN Cut(waiting[s], k[s])
                                                       ELSE waiting[s]]
           /\ on' = Reset(on, served, 0)
           /\ limit' = Reset(limit, served, 0)
           /\ left' = Reset(left, served, 0)
           /\ answers' = [c \in Conns |-> IF c \in served THEN answers[c] + 1
                                                          ELSE answers[c]]
  BY DEF Deliver
<1> DEFINE served == {c \in callers : \E i \in 1 .. k[on[c]] : waiting[on[c]][i] = c}
           out(s) == IF s \in woken THEN upto[waiting[s][k[s]]] ELSE 0
<1>2. /\ \A s \in woken : Wakes(s, Enqueued(s, m), k[s], upto)
      /\ queue' = [s \in Ids |-> IF s \in hit THEN Cut(Enqueued(s, m), out(s))
                                              ELSE queue[s]]
      /\ got' = [s \in Ids |-> IF s \in hit
                               THEN got[s] \o SubSeq(Enqueued(s, m), 1, out(s))
                               ELSE got[s]]
      /\ waiting' = [s \in Ids |-> IF s \in woken THEN Cut(waiting[s], k[s])
                                                  ELSE waiting[s]]
      /\ on' = Reset(on, served, 0)
      /\ limit' = Reset(limit, served, 0)
      /\ left' = Reset(left, served, 0)
      /\ answers' = [c \in Conns |-> IF c \in served THEN answers[c] + 1 ELSE answers[c]]
  BY <1>1
<1>3. /\ produced' = m /\ m <= MaxMsg
      /\ dropped' = [s \in Ids |-> IF s \in hit /\ Len(queue[s]) >= MaxQueue
                                   THEN dropped[s] + 1 ELSE dropped[s]]
      /\ offered' = [s \in Ids |-> IF s \in hit THEN offered[s] + 1 ELSE offered[s]]
      /\ UNCHANGED <<subs, filter, path, ttl, names, quirks, muted>>
  BY DEF Deliver
<1>4. /\ subs \subseteq Ids /\ m \in Msgs /\ m \in 0 .. MaxMsg
      /\ on \in [Conns -> Ids \cup {0}] /\ answers \in [Conns -> Nat]
      /\ limit \in [Conns -> Nat] /\ left \in [Conns -> Nat]
      /\ waiting \in [Ids -> Seq(Conns)] /\ queue \in [Ids -> Seq(Msgs)]
      /\ got \in [Ids -> Seq(Msgs)]
      /\ dropped \in [Ids -> Nat] /\ offered \in [Ids -> Nat]
  <2>1. produced \in 0 .. MaxMsg
    BY DEF IInv, TypeOK
  <2>2. m \in Msgs /\ m \in 0 .. MaxMsg
    BY <2>1, <1>3 DEF Msgs
  <2>3. QED
    BY <2>2 DEF IInv, TypeOK
<1>5. hit \subseteq Ids /\ woken \subseteq hit /\ \A s \in woken : waiting[s] # <<>>
  BY <1>4
<1>6. ASSUME NEW s \in woken
      PROVE  k[s] \in Nat /\ 1 <= k[s] /\ k[s] <= Len(waiting[s])
  <2>1. k[s] \in 1 .. Cardinality(Conns)
    OBVIOUS
  <2>2. k[s] <= Len(waiting[s])
    BY <1>2 DEF Wakes
  <2>3. QED
    BY <2>1, <2>2
<1>7. \A s \in Ids : \A i \in 1 .. Len(waiting[s]) :
        waiting[s][i] \in Conns /\ on[waiting[s][i]] = s
  <2>1. SUFFICES ASSUME NEW s \in Ids, NEW i \in 1 .. Len(waiting[s])
                 PROVE  waiting[s][i] \in Conns /\ on[waiting[s][i]] = s
    OBVIOUS
  <2>2. waiting[s] \in Seq(Conns)
    BY <1>4
  <2>3. waiting[s][i] \in Conns
    BY <2>2, ElementOfSeq
  <2>4. on[waiting[s][i]] = s
    BY DEF IInv, PendingConsistent, ListedWaiters
  <2>5. QED
    BY <2>3, <2>4
<1>8. \A s \in Ids : \A i, j \in 1 .. Len(waiting[s]) : waiting[s][i] = waiting[s][j] => i = j
  BY DEF IInv, PendingConsistent, ListedOnce
<1>9. ASSUME NEW s \in woken
      PROVE  /\ Cut(waiting[s], k[s]) \in Seq(Conns)
             /\ Len(Cut(waiting[s], k[s])) = Len(waiting[s]) - k[s]
             /\ \A i \in 1 .. Len(waiting[s]) - k[s] :
                  Cut(waiting[s], k[s])[i] = waiting[s][k[s] + i]
  <2>1. waiting[s] \in Seq(Conns)
    BY <1>4, <1>5
  <2>2. k[s] \in Nat /\ k[s] <= Len(waiting[s])
    BY <1>6
  <2> DEFINE q == waiting[s]  n == k[s]
  <2>3. q \in Seq(Conns) /\ n \in Nat /\ n <= Len(q)
    BY <2>1, <2>2
  <2> HIDE DEF q, n
  <2>4. /\ Cut(q, n) \in Seq(Conns)
        /\ Len(Cut(q, n)) = Len(q) - n
        /\ \A i \in 1 .. Len(q) - n : Cut(q, n)[i] = q[n + i]
    BY <2>3, CutProperties
  <2>5. QED
    BY <2>4 DEF q, n
<1>10. waiting' \in [Ids -> Seq(Conns)]
  BY <1>2, <1>4, <1>5, <1>9
<1>11. ASSUME NEW s \in Ids
       PROVE  out(s) \in Nat /\ out(s) <= Len(Enqueued(s, m))
  <2>1. Enqueued(s, m) \in Seq(Msgs) /\ Len(Enqueued(s, m)) \in Nat
    BY <1>4, <1>11, EnqueuedProperties, LenProperties
  <2>2. CASE s \in woken
    <3>1. k[s] \in 1 .. Len(waiting[s]) /\ k[s] \in 1 .. k[s]
      BY <2>2, <1>6
    <3>2. waiting[s][k[s]] \in Conns /\ on[waiting[s][k[s]]] = s
      BY <3>1, <1>7
    <3>3. upto[waiting[s][k[s]]] \in 0 .. MaxQueue
      BY <3>2, <2>2
    <3>4. /\ ServedUpTo(s, k[s], upto) < Len(Enqueued(s, m))
          /\ upto[waiting[s][k[s]]] =
               Lesser(ServedUpTo(s, k[s], upto) + limit[waiting[s][k[s]]], Len(Enqueued(s, m)))
      BY <3>1, <2>2, <1>2 DEF Wakes
    <3>5. out(s) = upto[waiting[s][k[s]]]
      BY <2>2
    <3>6. out(s) <= Len(Enqueued(s, m))
      <4> DEFINE a == ServedUpTo(s, k[s], upto) + limit[waiting[s][k[s]]]
      <4>1. out(s) = Lesser(a, Len(Enqueued(s, m))) /\ out(s) \in Nat
        BY <3>3, <3>4, <3>5
      <4> HIDE DEF a, out
      <4>2. a <= Len(Enqueued(s, m)) => out(s) = a
        BY <4>1 DEF Lesser
      <4>3. ~(a <= Len(Enqueued(s, m))) => out(s) = Len(Enqueued(s, m))
        BY <4>1 DEF Lesser
      <4>4. QED
        BY <4>2, <4>3, <2>1
    <3>7. QED
      BY <3>3, <3>5, <3>6
  <2>3. CASE s \notin woken
    BY <2>1, <2>3
  <2>4. QED
    BY <2>2, <2>3
<1> HIDE DEF out
<1>12. ASSUME NEW s \in hit
       PROVE  /\ queue'[s] = Cut(Enqueued(s, m), out(s))
              /\ Cut(Enqueued(s, m), out(s)) \in Seq(Msgs)
              /\ Len(Cut(Enqueued(s, m), out(s))) = Len(Enqueued(s, m)) - out(s)
              /\ got[s] \o SubSeq(Enqueued(s, m), 1, out(s)) \in Seq(Msgs)
              /\ got'[s] = got[s] \o SubSeq(Enqueued(s, m), 1, out(s))
              /\ Len(got'[s]) = Len(got[s]) + out(s)
  <2>1. s \in Ids /\ got[s] \in Seq(Msgs) /\ Enqueued(s, m) \in Seq(Msgs)
    BY <1>4, <1>5, EnqueuedProperties
  <2>2. /\ queue'[s] = Cut(Enqueued(s, m), out(s))
        /\ got'[s] = got[s] \o SubSeq(Enqueued(s, m), 1, out(s))
    BY <2>1, <1>2
  <2>3. QED
    BY <2>1, <2>2, <1>11, TransferProperties
<1>13. queue' \in [Ids -> Seq(Msgs)] /\ got' \in [Ids -> Seq(Msgs)]
  BY <1>2, <1>4, <1>12
<1>14. /\ on' \in [Conns -> Ids \cup {0}] /\ limit' \in [Conns -> Nat]
       /\ left' \in [Conns -> Nat] /\ answers' \in [Conns -> Nat]
       /\ \A c \in Conns : on'[c] = IF c \in served THEN 0 ELSE on[c]
  <2>1. on' = Reset(on, served, 0) /\ limit' = Reset(limit, served, 0)
        /\ left' = Reset(left, served, 0)
        /\ answers' = [c \in Conns |-> IF c \in served THEN answers[c] + 1 ELSE answers[c]]
    BY <1>2
  <2> HIDE DEF served
  <2>2. /\ on' \in [Conns -> Ids \cup {0}]
        /\ \A c \in Conns : on'[c] = IF c \in served THEN 0 ELSE on[c]
    BY <2>1, <1>4 DEF Reset
  <2>3. limit' \in [Conns -> Nat] /\ left' \in [Conns -> Nat]
    BY <2>1, <1>4 DEF Reset
  <2>4. answers' \in [Conns -> Nat]
    BY <2>1, <1>4
  <2>5. QED
    BY <2>2, <2>3, <2>4
<1>15. dropped' \in [Ids -> Nat] /\ offered' \in [Ids -> Nat]
  BY <1>3, <1>4
<1>16. TypeOK'
  BY <1>3, <1>4, <1>10, <1>13, <1>14, <1>15 DEF IInv, TypeOK, names
<1>17. AnsweredOnce'
  <2>1. SUFFICES ASSUME NEW c \in Conns
                 PROVE  answers'[c] <= (IF on'[c] = 0 THEN 1 ELSE 0)
    BY DEF AnsweredOnce
  <2>2. answers[c] <= (IF on[c] = 0 THEN 1 ELSE 0)
    BY DEF IInv, AnsweredOnce
  <2>3. CASE c \in served
    <3>1. on[c] \in Ids
      BY <2>3, <1>5
    <3>2. on[c] # 0
      BY <3>1 DEF Ids
    <3>3. answers'[c] = answers[c] + 1 /\ on'[c] = 0
      BY <2>3, <1>2, <1>14
    <3>4. QED
      BY <2>2, <3>2, <3>3, <1>4
  <2>4. CASE c \notin served
    BY <2>2, <2>4, <1>2, <1>14
  <2>5. QED
    BY <2>3, <2>4
<1>18. Conservation'
  <2>1. SUFFICES ASSUME NEW s \in Ids
                 PROVE  /\ offered'[s] = Len(got'[s]) + dropped'[s] + Len(queue'[s])
                        /\ Len(queue'[s]) <= MaxQueue
    BY DEF Conservation
  <2>2. /\ offered[s] = Len(got[s]) + dropped[s] + Len(queue[s])
        /\ Len(queue[s]) <= MaxQueue
        /\ Len(got[s]) \in Nat /\ Len(queue[s]) \in Nat /\ dropped[s] \in Nat
    <3>1. got[s] \in Seq(Msgs) /\ queue[s] \in Seq(Msgs)
      BY <1>4
    <3>2. QED
      BY <3>1, <1>4, LenProperties DEF IInv, Conservation
  <2>3. CASE s \in hit
    <3> DEFINE q == Enqueued(s, m)
    <3>1. /\ Len(q) = IF Len(queue[s]) >= MaxQueue THEN Len(queue[s]) ELSE Len(queue[s]) + 1
          /\ Len(q) <= MaxQueue
      BY <1>4, EnqueuedProperties
    <3>2. out(s) \in Nat /\ out(s) <= Len(q)
      BY <1>11
    <3>3. Len(got'[s]) = Len(got[s]) + out(s) /\ Len(queue'[s]) = Len(q) - out(s)
      BY <2>3, <1>12
    <3>4. /\ offered'[s] = offered[s] + 1
          /\ dropped'[s] = IF Len(queue[s]) >= MaxQueue THEN dropped[s] + 1 ELSE dropped[s]
      BY <2>3, <1>3
    <3> HIDE DEF q
    <3>5. Len(q) + dropped'[s] = Len(queue[s]) + dropped[s] + 1
      <4> DEFINE d == dropped[s]  r == Len(queue[s])  d1 == dropped'[s]  q1 == Len(q)
      <4>1. /\ d \in Nat /\ r \in Nat
            /\ q1 = (IF r >= MaxQueue THEN r ELSE r + 1)
            /\ d1 = (IF r >= MaxQueue THEN d + 1 ELSE d)
        BY <3>1, <3>4, <2>2
      <4> HIDE DEF d, r, d1, q1
      <4>2. q1 + d1 = r + d + 1
        BY <4>1
      <4>3. QED
        BY <4>2 DEF d, r, d1, q1
    <3>6. /\ offered'[s] = (Len(got[s]) + out(s)) + dropped'[s] + (Len(q) - out(s))
          /\ Len(q) - out(s) <= MaxQueue
      <4>1. dropped'[s] \in Nat /\ Len(q) \in Nat
        BY <1>15, <3>1, <2>2
      <4>2. offered[s] \in Nat
        BY <1>4
      <4>3. /\ offered[s] + 1 = (Len(got[s]) + out(s)) + dropped'[s] + (Len(q) - out(s))
            /\ Len(q) - out(s) <= MaxQueue
        <5> DEFINE o == offered[s]  g == Len(got[s])  d == dropped[s]  r == Len(queue[s])
                   d1 == dropped'[s]  q1 == Len(q)  n == out(s)
        <5>1. /\ o \in Nat /\ g \in Nat /\ d \in Nat /\ r \in Nat /\ d1 \in Nat
              /\ q1 \in Nat /\ n \in Nat /\ n <= q1 /\ q1 <= MaxQueue
              /\ o = g + d + r /\ q1 + d1 = r + d + 1
          BY <3>1, <3>2, <3>5, <2>2, <4>1, <4>2
        <5> HIDE DEF o, g, d, r, d1, q1, n
        <5>2. o + 1 = (g + n) + d1 + (q1 - n) /\ q1 - n <= MaxQueue
          BY <5>1
        <5>3. QED
          BY <5>2 DEF o, g, d, d1, q1, n
      <4>4. QED
        BY <3>4, <4>3, Zenon
    <3>7. QED
      BY <3>3, <3>6, Zenon
  <2>4. CASE s \notin hit
    BY <2>2, <2>4, <1>2, <1>3
  <2>5. QED
    BY <2>3, <2>4
<1>19. ListedWaiters' /\ ListedOnce'
  <2>1. ASSUME NEW s \in Ids, NEW i \in 1 .. Len(waiting'[s])
        PROVE  \E j \in 1 .. Len(waiting[s]) :
                 /\ waiting'[s][i] = waiting[s][j]
                 /\ j = (IF s \in woken THEN k[s] + i ELSE i)
                 /\ waiting[s][j] \notin served
    <3>1. CASE s \in woken
      <4>1. waiting'[s] = Cut(waiting[s], k[s])
        BY <3>1, <1>2
      <4>2. i \in 1 .. Len(waiting[s]) - k[s]
        BY <4>1, <3>1, <1>9, <2>1
      <4>3. waiting'[s][i] = waiting[s][k[s] + i]
        BY <4>1, <4>2, <3>1, <1>9
      <4>4. Len(waiting[s]) \in Nat
        BY <1>4, LenProperties
      <4>5. k[s] + i \in 1 .. Len(waiting[s]) /\ k[s] + i \notin 1 .. k[s]
            /\ 1 .. k[s] \subseteq 1 .. Len(waiting[s])
        BY <4>2, <4>4, <3>1, <1>6
      <4>6. waiting[s][k[s] + i] \notin served
        <5>1. SUFFICES ASSUME waiting[s][k[s] + i] \in served
                       PROVE  FALSE
          OBVIOUS
        <5>2. on[waiting[s][k[s] + i]] = s
          BY <4>5, <1>7
        <5>3. PICK j \in 1 .. k[s] : waiting[s][j] = waiting[s][k[s] + i]
          BY <5>1, <5>2
        <5>4. j \in 1 .. Len(waiting[s])
          BY <4>5
        <5>5. j = k[s] + i
          BY <5>3, <5>4, <4>5, <1>8
        <5>6. QED
          BY <5>5, <4>5
      <4>7. QED
        BY <4>3, <4>5, <4>6, <3>1
    <3>2. CASE s \notin woken
      <4>1. waiting'[s] = waiting[s]
        BY <3>2, <1>2
      <4>2. on[waiting[s][i]] = s
        BY <4>1, <2>1, <1>7
      <4>3. waiting[s][i] \notin served
        BY <4>2, <3>2
      <4>4. QED
        BY <4>1, <4>3, <3>2, <2>1
    <3>3. QED
      BY <3>1, <3>2
  <2> HIDE DEF served, woken
  <2>2. ListedWaiters'
    <3>1. SUFFICES ASSUME NEW s \in Ids, NEW i \in 1 .. Len(waiting'[s])
                   PROVE  on'[waiting'[s][i]] = s
      BY DEF ListedWaiters
    <3>2. PICK j \in 1 .. Len(waiting[s]) : /\ waiting'[s][i] = waiting[s][j]
                                           /\ waiting[s][j] \notin served
      BY <2>1
    <3>3. QED
      BY <3>2, <1>7, <1>14
  <2>3. ListedOnce'
    <3>1. SUFFICES ASSUME NEW s \in Ids, NEW i \in 1 .. Len(waiting'[s]),
                          NEW l \in 1 .. Len(waiting'[s]), waiting'[s][i] = waiting'[s][l]
                   PROVE  i = l
      BY DEF ListedOnce
    <3>2. PICK a \in 1 .. Len(waiting[s]) :
            waiting'[s][i] = waiting[s][a] /\ a = (IF s \in woken THEN k[s] + i ELSE i)
      BY <2>1
    <3>3. PICK b \in 1 .. Len(waiting[s]) :
            waiting'[s][l] = waiting[s][b] /\ b = (IF s \in woken THEN k[s] + l ELSE l)
      BY <2>1
    <3>4. a = b
      BY <3>1, <3>2, <3>3, <1>8
    <3>5. CASE s \in woken
      <4>1. k[s] + i = k[s] + l /\ k[s] \in Nat
        BY <3>2, <3>3, <3>4, <3>5, <1>6
      <4>2. QED
        BY <4>1
    <3>6. CASE s \notin woken
      BY <3>2, <3>3, <3>4, <3>6
    <3>7. QED
      BY <3>5, <3>6
  <2>4. QED
    BY <2>2, <2>3
<1>20. WaitersListed'
  <2>1. SUFFICES ASSUME NEW c \in Conns, on'[c] # 0
                 PROVE  /\ on'[c] \in subs
                        /\ \E i \in 1 .. Len(waiting'[on'[c]]) : waiting'[on'[c]][i] = c
    BY <1>3 DEF WaitersListed
  <2>2. c \notin served /\ on'[c] = on[c]
    BY <2>1, <1>14
  <2>3. on[c] \in subs /\ \E i \in 1 .. Len(waiting[on[c]]) : waiting[on[c]][i] = c
    BY <2>1, <2>2 DEF IInv, PendingConsistent, WaitersListed
  <2>4. PICK i \in 1 .. Len(waiting[on[c]]) : waiting[on[c]][i] = c
    BY <2>3
  <2>5. on[c] \in Ids
    BY <2>3, <1>4
  <2>6. CASE on[c] \in woken
    <3>1. i \notin 1 .. k[on[c]]
      BY <2>2, <2>4, <2>6
    <3>2. Len(waiting[on[c]]) \in Nat
      BY <2>5, <1>4, LenProperties
    <3>3. /\ i - k[on[c]] \in 1 .. Len(waiting[on[c]]) - k[on[c]]
          /\ k[on[c]] + (i - k[on[c]]) = i
      BY <3>1, <3>2, <2>4, <2>6, <1>6
    <3>4. waiting'[on[c]] = Cut(waiting[on[c]], k[on[c]])
      BY <2>5, <2>6, <1>2
    <3>5. /\ Len(waiting'[on[c]]) = Len(waiting[on[c]]) - k[on[c]]
          /\ waiting'[on[c]][i - k[on[c]]] = c
      BY <3>3, <3>4, <2>4, <2>6, <1>9
    <3>6. QED
      BY <3>3, <3>5, <2>2, <2>3
  <2>7. CASE on[c] \notin woken
    BY <2>2, <2>3, <2>4, <2>5, <2>7, <1>2
  <2>8. QED
    BY <2>6, <2>7
<1>21. NoLostWakeup'
  <2>1. SUFFICES ASSUME ~muted, NEW s \in subs
                 PROVE  waiting'[s] = <<>> \/ queue'[s] = <<>>
    BY <1>3 DEF NoLostWakeup
  <2>2. ~Mute /\ s \in Ids /\ (waiting[s] = <<>> \/ queue[s] = <<>>)
    BY <2>1, <1>4 DEF IInv, NoLostWakeup
  <2>3. CASE s \notin hit
    BY <2>2, <2>3, <1>2, <1>5
  <2>4. CASE s \in hit /\ waiting[s] = <<>>
    BY <2>2, <2>4, <1>2
  <2>5. CASE s \in hit /\ waiting[s] # <<>>
    <3>1. s \in woken
      BY <2>2, <2>5
    <3>2. /\ k[s] \in Nat /\ 1 <= k[s] /\ k[s] <= Len(waiting[s])
          /\ Len(waiting[s]) \in Nat
          /\ waiting'[s] = Cut(waiting[s], k[s])
      BY <3>1, <2>2, <1>2, <1>4, <1>6, LenProperties
    <3>3. CASE k[s] = Len(waiting[s])
      <4>1. /\ Len(Cut(waiting[s], k[s])) = 0
            /\ Cut(waiting[s], k[s]) \in Seq(Conns)
        BY <3>1, <3>2, <3>3, <1>9
      <4>2. QED
        BY <3>2, <4>1, EmptySeq
    <3>4. CASE k[s] < Len(waiting[s])
      <4>1. ServedUpTo(s, k[s] + 1, upto) >= Len(Enqueued(s, m))
        BY <3>1, <3>4, <1>2 DEF Wakes
      <4>2. ServedUpTo(s, k[s] + 1, upto) = upto[waiting[s][k[s]]]
        <5>1. k[s] + 1 # 1 /\ (k[s] + 1) - 1 = k[s]
          BY <3>2
        <5>2. QED
          BY <5>1, Zenon DEF ServedUpTo
      <4>3. out(s) = upto[waiting[s][k[s]]]
        BY <3>1 DEF out
      <4>4. out(s) \in Nat /\ out(s) <= Len(Enqueued(s, m)) /\ Len(Enqueued(s, m)) \in Nat
        BY <2>2, <1>4, <1>11, EnqueuedProperties, LenProperties
      <4>5. Len(Enqueued(s, m)) - out(s) = 0
        BY <4>1, <4>2, <4>3, <4>4
      <4>6. QED
        BY <4>5, <2>5, <1>12, EmptySeq
    <3>5. QED
      BY <3>2, <3>3, <3>4
  <2>6. QED
    BY <2>3, <2>4, <2>5
<1>22. (Mute => muted)'
  BY <1>3 DEF IInv, Mute
<1>23. QED
  BY <1>16, <1>17, <1>18, <1>19, <1>20, <1>21, <1>22 DEF IInv, PendingConsistent

-----------------------------------------------------------------------------
LEMMA InitIInv == Init => IInv
<1>1. SUFFICES ASSUME Init PROVE IInv
  OBVIOUS
<1>2. TypeOK
  <2>1. ServicePath \in Paths
    BY DEF ServicePath, Paths
  <2>2. <<>> \in Seq(Msgs) /\ <<>> \in Seq(Conns)
    OBVIOUS
  <2>3. 0 \in 0 .. MaxId /\ 0 \in 0 .. MaxPort /\ 0 \in 0 .. MaxMsg
    OBVIOUS
  <2>4. muted \in BOOLEAN /\ quirks \subseteq Toggles
    BY <1>1 DEF Init
  <2>5. QED
    BY <1>1, <2>1, <2>2, <2>3, <2>4 DEF Init, TypeOK
<1>3. PendingConsistent
  <2>1. \A s \in Ids : waiting[s] = <<>> /\ Len(<<>>) = 0
    BY <1>1 DEF Init
  <2>2. ListedWaiters /\ ListedOnce
    BY <2>1 DEF ListedWaiters, ListedOnce
  <2>3. WaitersListed
    BY <1>1 DEF Init, WaitersListed
  <2>4. QED
    BY <2>2, <2>3 DEF PendingConsistent
<1>4. AnsweredOnce /\ (Mute => muted) /\ NoLostWakeup
  <2>1. AnsweredOnce
    BY <1>1 DEF Init, AnsweredOnce
  <2>2. Mute => muted
    BY <1>1, Zenon DEF Init, Mute
  <2>3. NoLostWakeup
    BY <1>1 DEF Init, NoLostWakeup
  <2>4. QED
    BY <2>1, <2>2, <2>3
<1>5. Conservation
  BY <1>1 DEF Init, Conservation
<1>6. QED
  BY <1>2, <1>3, <1>4, <1>5 DEF IInv

LEMMA ResolveType == \A p, to : Resolve(p, to) \in SUBSET subs
BY DEF Resolve, Found

LEMMA StutterKeeps ==
  ASSUME IInv, UNCHANGED vars
  PROVE  IInv'
<1>1. UNCHANGED <<subs, filter, path, ttl, queue, got, dropped, offered, waiting, on,
                  limit, left, answers, counter, nextPort, quirks, produced, muted>>
  BY DEF vars, store, pulls, names
<1>2. TypeOK'
  BY <1>1 DEF IInv, TypeOK
<1>3. QED
  BY <1>1, <1>2, QueuesAndPullsKept DEF IInv, PendingConsistent, Mute

LEMMA NextIInv == IInv /\ [Next]_vars => IInv'
<1> SUFFICES ASSUME IInv, [Next]_vars
             PROVE  IInv'
  OBVIOUS
<1>1. ASSUME NEW f \in SUBSET Topics \ {{}}, NEW d \in Durations \cup {NoDuration},
             Create(f, d)
      PROVE  IInv'
  BY <1>1, CreateKeeps
<1>2. CASE CreateRefused
  <2>1. Reapable \in SUBSET subs
    BY DEF Reapable
  <2>2. QED
    BY <1>2, <2>1, DestroyKeeps DEF CreateRefused
<1>3. ASSUME NEW p, NEW to, Request(Resolve(p, to))
      PROVE  IInv'
  <2> DEFINE hit == Resolve(p, to)
  <2>1. hit \in SUBSET subs
    BY ResolveType
  <2> HIDE DEF hit
  <2>2. ASSUME NEW c \in Conns, PullRefused(c, hit) PROVE IInv'
    BY <2>2, PullRefusedKeeps
  <2>3. ASSUME NEW c \in Conns, NEW lim \in Limits, PullServed(c, hit, lim) PROVE IInv'
    BY <2>1, <2>3, PullServedKeeps
  <2>4. ASSUME NEW c \in Conns, NEW lim \in Limits, NEW t \in Timeouts,
               PullEmpty(c, hit, lim, t)
        PROVE  IInv'
    BY <2>1, <2>4, PullEmptyKeeps
  <2>5. ASSUME NEW d \in Durations \cup {NoDuration}, Renew(hit, d) PROVE IInv'
    BY <2>5, RenewKeeps
  <2>6. CASE Unsubscribe(hit)
    <3>1. PICK s \in hit : Destroy({s})
      BY <2>6 DEF Unsubscribe
    <3>2. {s} \in SUBSET subs /\ UNCHANGED <<names, quirks, produced, muted>>
      BY <2>1, <2>6 DEF Unsubscribe
    <3>3. QED
      BY <3>1, <3>2, DestroyKeeps
  <2>7. QED
    BY <1>3, <2>2, <2>3, <2>4, <2>5, <2>6 DEF Request, hit
<1>4. ASSUME NEW c \in Conns, PullTimeout(c) PROVE IInv'
  BY <1>4, PullTimeoutKeeps
<1>5. ASSUME NEW c \in Conns, Abort(c) PROVE IInv'
  BY <1>5, AbortKeeps
<1>6. CASE Clear
  BY <1>6, subs \in SUBSET subs, DestroyKeeps DEF Clear
<1>7. CASE Reap
  <2>1. Reapable \in SUBSET subs
    BY DEF Reapable
  <2>2. QED
    BY <1>7, <2>1, DestroyKeeps DEF Reap
<1>8. ASSUME NEW topic \in Topics, Deliver(topic) PROVE IInv'
  BY <1>8, DeliverKeeps
<1>9. CASE Tick
  BY <1>9, TickKeeps
<1>10. ASSUME NEW q \in SUBSET Toggles, SetQuirks(q) PROVE IInv'
  BY <1>10, SetQuirksKeeps
<1>11. CASE UNCHANGED vars
  BY <1>11, StutterKeeps
<1>12. QED
  <2>1. CASE Next
    <3>1. ASSUME \E f \in SUBSET Topics \ {{}}, d \in Durations \cup {NoDuration} : Create(f, d)
          PROVE  IInv'
      BY <3>1, <1>1
    <3>2. ASSUME \E hit \in {Resolve(p, to) : p \in Targets, to \in Targets} : Request(hit)
          PROVE  IInv'
      BY <3>2, <1>3
    <3>3. ASSUME \E c \in Conns : PullTimeout(c) \/ Abort(c)
          PROVE  IInv'
      BY <3>3, <1>4, <1>5
    <3>4. ASSUME \E topic \in Topics : Deliver(topic)
          PROVE  IInv'
      BY <3>4, <1>8
    <3>5. ASSUME \E q \in SUBSET Toggles : SetQuirks(q)
          PROVE  IInv'
      BY <3>5, <1>10
    <3>6. QED
      BY <2>1, <3>1, <3>2, <3>3, <3>4, <3>5, <1>2, <1>6, <1>7, <1>9 DEF Next
  <2>2. QED
    BY <2>1, <1>11

\* The invariant holds in every behaviour.
THEOREM Invariance == Spec => []IInv
<1>1. Init => IInv
  BY InitIInv
<1>2. IInv /\ [Next]_vars => IInv'
  BY NextIInv
<1>3. QED
  BY <1>1, <1>2, PTL DEF Spec

\* Every variable keeps its type, however many connections, subscriptions and
\* events there are.
THEOREM TypeCorrect == Spec => []TypeOK
<1>1. IInv => TypeOK
  BY DEF IInv
<1>2. QED
  BY <1>1, Invariance, PTL

\* The list of suspended pulls and the pulls agree; in particular nobody waits
\* on a subscription that was destroyed.
THEOREM WaitersConsistent == Spec => []PendingConsistent
<1>1. IInv => PendingConsistent
  BY DEF IInv
<1>2. QED
  BY <1>1, Invariance, PTL

\* No interleaving of the timer, a wake-up, a disconnection and a removal
\* answers a pull twice, or answers one that is still suspended.
THEOREM PullsAnsweredOnce == Spec => []AnsweredOnce
<1>1. IInv => AnsweredOnce
  BY DEF IInv
<1>2. QED
  BY <1>1, Invariance, PTL

\* The suspended pulls stay consistent, with the types they rest on.
THEOREM PullsStayConsistent == Spec => []PullsConsistent
<1>1. IInv => PullsConsistent
  BY DEF IInv, PullsConsistent
<1>2. QED
  BY <1>1, Invariance, PTL

\* Until always_empty is switched on, a suspended pull never misses an event.
THEOREM NoWakeupLost == Spec => []NoLostWakeup
<1>1. IInv => NoLostWakeup
  BY DEF IInv
<1>2. QED
  BY <1>1, Invariance, PTL

\* Every event offered is handed out, counted as dropped or still queued.
THEOREM EventsConserved == Spec => []Conservation
<1>1. IInv => Conservation
  BY DEF IInv
<1>2. QED
  BY <1>1, Invariance, PTL

-----------------------------------------------------------------------------
(* Addresses.                                                               *)

\* Where subscriptions live: under their own number, or under a port that the cursor
\* has passed.  The cursor moves once for each subscription, so as long as there are
\* more ports than subscriptions it does not come round.
PathInv ==
  /\ counter \in 0 .. MaxId /\ subs \subseteq Ids /\ path \in [Ids -> Paths]
  /\ \A s \in subs : s <= counter
  /\ nextPort \in Nat /\ nextPort <= BasePort + counter
  /\ \A s \in subs : \/ path[s] = <<"sub", s>>
                     \/ \E p \in BasePort .. nextPort - 1 : path[s] = <<"event", p>>
  /\ PathUnique

\* Only a creation gives an address; every other step may take some back.
Fewer == subs' \subseteq subs /\ path' = path /\ counter' = counter /\ nextPort' = nextPort

LEMMA OthersGiveNone ==
  ASSUME [Next]_vars, ~\E f \in SUBSET Topics \ {{}}, d \in Durations \cup {NoDuration} : Create(f, d)
  PROVE  Fewer
<1>1. \A gone : Destroy(gone) => subs' \subseteq subs /\ path' = path
  BY DEF Destroy
<1>2. ASSUME NEW hit, Request(hit) PROVE Fewer
  BY <1>1, <1>2
  DEF Request, PullRefused, PullServed, PullEmpty, Renew, Unsubscribe, Fewer, store, names
<1>3. ASSUME NEW c \in Conns, PullTimeout(c) \/ Abort(c) PROVE Fewer
  BY <1>3 DEF PullTimeout, Abort, Fewer, store, names
<1>4. CASE CreateRefused \/ Clear \/ Reap
  BY <1>1, <1>4 DEF CreateRefused, Clear, Reap, Fewer, names
<1>5. ASSUME NEW topic \in Topics, Deliver(topic) PROVE Fewer
  BY <1>5 DEF Deliver, Fewer, names
<1>6. ASSUME NEW q, Tick \/ SetQuirks(q) PROVE Fewer
  BY <1>6 DEF Tick, SetQuirks, Fewer, store, names
<1>7. CASE UNCHANGED vars
  BY <1>7 DEF vars, store, names, Fewer
<1>8. QED
  BY <1>2, <1>3, <1>4, <1>5, <1>6, <1>7 DEF Next

LEMMA Wider ==
  ASSUME NEW a, NEW b, NEW c, a \in Int, b \in Int, c \in Int, b <= c
  PROVE  \A p \in a .. b - 1 : p \in a .. c - 1
OBVIOUS

LEMMA CreateKeepsPaths ==
  ASSUME PathInv, MaxId <= MaxPort - BasePort,
         NEW f \in SUBSET Topics \ {{}}, NEW d \in Durations \cup {NoDuration}, Create(f, d)
  PROVE  PathInv'
<1> DEFINE new == counter + 1
<1>1. /\ new <= MaxId /\ counter' = new /\ path' = [path EXCEPT ![new] = PathFor(new)]
      /\ nextPort' = IF Port = 0 THEN nextPort
                     ELSE IF Port >= MaxPort THEN BasePort ELSE Port + 1
      /\ subs' \subseteq subs \cup {new}
  BY DEF Create
<1>2. /\ counter \in Nat /\ new \in Ids /\ MaxId \in Nat /\ BasePort \in Nat /\ BasePort # 0
      /\ MaxPort \in Nat /\ nextPort \in Nat /\ nextPort <= BasePort + counter
      /\ counter' \in 0 .. MaxId /\ new \notin subs
  BY <1>1 DEF PathInv, Ids
<1>3. /\ Port \in Nat /\ (Port # 0 => Port >= BasePort /\ Port >= nextPort /\ Port < MaxPort
                                    /\ Port <= BasePort + counter)
      /\ PathFor(new) = IF Port # 0 THEN <<"event", Port>> ELSE <<"sub", new>>
  BY <1>1, <1>2 DEF Port, Greater, PathFor
<1>4. /\ nextPort' \in Nat /\ nextPort' >= nextPort /\ nextPort' <= BasePort + counter'
      /\ Port # 0 => nextPort' = Port + 1
  BY <1>1, <1>2, <1>3
<1>5. PathFor(new) \in Paths
  BY <1>2, <1>3 DEF Paths
<1>6. /\ path' \in [Ids -> Paths] /\ path'[new] = PathFor(new)
      /\ \A s \in subs : s # new /\ path'[s] = path[s]
      /\ subs' \subseteq Ids /\ \A s \in subs' : s <= counter'
  BY <1>1, <1>2, <1>5 DEF PathInv, Ids
<1>7. \A s \in subs' : s \in subs \/ s = new
  BY <1>1
<1>8. ASSUME NEW s \in subs'
      PROVE  \/ path'[s] = <<"sub", s>>
             \/ \E p \in BasePort .. nextPort' - 1 : path'[s] = <<"event", p>>
  <2>1. CASE s = new
    <3>1. CASE Port = 0
      BY <1>3, <1>6, <2>1, <3>1
    <3>2. CASE Port # 0
      <4>1. Port \in BasePort .. Port
        BY <1>2, <1>3, <3>2
      <4>2. nextPort' - 1 = Port
        BY <1>3, <1>4, <3>2
      <4>3. path'[s] = <<"event", Port>>
        BY <1>3, <1>6, <2>1, <3>2
      <4>4. QED
        BY <4>1, <4>2, <4>3
    <3>3. QED
      BY <3>1, <3>2
  <2>2. CASE s \in subs
    <3>1. \/ path[s] = <<"sub", s>>
          \/ \E p \in BasePort .. nextPort - 1 : path[s] = <<"event", p>>
      BY <2>2 DEF PathInv
    <3>2. ASSUME NEW p \in BasePort .. nextPort - 1 PROVE p \in BasePort .. nextPort' - 1
      <4>1. BasePort \in Int /\ nextPort \in Int /\ nextPort' \in Int /\ nextPort <= nextPort'
        BY <1>2, <1>4
      <4>2. QED
        BY <4>1, Wider
    <3>3. QED
      BY <1>6, <2>2, <3>1, <3>2
  <2>3. QED
    BY <1>7, <2>1, <2>2
<1>9. ASSUME NEW s \in subs PROVE path[s] # PathFor(new)
  <2>1. CASE path[s] = <<"sub", s>>
    BY <1>3, <1>6, <2>1
  <2>2. ASSUME NEW p \in BasePort .. nextPort - 1, path[s] = <<"event", p>>
        PROVE  path[s] # PathFor(new)
    <3>1. Port # 0 => p # Port
      BY <1>2, <1>3
    <3>2. QED
      BY <1>3, <2>2, <3>1
  <2>3. QED
    BY <2>1, <2>2 DEF PathInv
<1>10. PathUnique'
  <2> SUFFICES ASSUME NEW s \in subs', NEW t \in subs', path'[s] = path'[t] PROVE s = t
    BY DEF PathUnique
  <2>1. CASE s \in subs /\ t \in subs
    BY <1>6, <2>1 DEF PathInv, PathUnique
  <2>2. CASE s = new \/ t = new
    BY <1>6, <1>7, <1>9, <2>2
  <2>3. QED
    BY <1>7, <2>1, <2>2
<1>11. QED
  BY <1>2, <1>4, <1>6, <1>8, <1>10 DEF PathInv

\* Two live subscriptions never have one address (events/SubscriptionManager), whatever
\* the switching of own_port and the creations refused or reaped in between, as long as
\* fewer are created than there are ports from base_port on: after that the cursor comes
\* round, and a subscription may still be at the address it comes to.
THEOREM PathsStayUnique ==
  ASSUME MaxId <= MaxPort - BasePort
  PROVE  Spec => []PathUnique
<1>1. Init => PathInv
  BY DEF Init, PathInv, Ids, Paths, ServicePath, PathUnique
<1>2. PathInv /\ [Next]_vars => PathInv'
  <2> SUFFICES ASSUME PathInv, [Next]_vars PROVE PathInv'
    OBVIOUS
  <2>1. CASE \E f \in SUBSET Topics \ {{}}, d \in Durations \cup {NoDuration} : Create(f, d)
    BY <2>1, CreateKeepsPaths
  <2>2. CASE Fewer
    BY <2>2 DEF Fewer, PathInv, PathUnique
  <2>3. QED
    BY <2>1, <2>2, OthersGiveNone
<1>3. PathInv => PathUnique
  BY DEF PathInv
<1>4. QED
  BY <1>1, <1>2, <1>3, PTL DEF Spec

=============================================================================
