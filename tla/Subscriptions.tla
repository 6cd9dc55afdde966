---------------------------- MODULE Subscriptions ----------------------------
(***************************************************************************)
(* The PullPoint subscriptions of one virtual camera: SubscriptionManager  *)
(* (src/src/events/SubscriptionManager.cpp) driven by the four SOAP        *)
(* operations of EventsService (src/src/services/events).                  *)
(*                                                                         *)
(* Everything runs on one Qt event loop, so a step is one whole callback:  *)
(* a SOAP request, a timer, an event of the EventEngine, a disconnection   *)
(* or a REST change of the quirks.  The order of these callbacks is free.  *)
(*                                                                         *)
(* A subscription is named by its serial number (sub-N).  Serial numbers   *)
(* grow, so the order of the code's list is the order of the numbers.      *)
(* Time is relative: ttl[s] is the time left until terminationTime (0 once *)
(* it has passed) and left[c] the time left on the timer of a long poll.   *)
(***************************************************************************)
EXTENDS Integers, Sequences, FiniteSets

CONSTANTS
  Conns,       \* HTTP connections; each carries one request at a time
  Topics,      \* event topics
  MaxId,       \* bound: subscriptions created in a behaviour
  MaxMsg,      \* bound: events produced in a behaviour
  MaxQueue,    \* Subscription::maxQueue (1000 in the code)
  SlotMax,     \* parameter "max" of the slot limit quirk (D3)
  Overflow,    \* its "on_overflow": fault, evict_oldest or silent_fail
  Limits,      \* MessageLimit values clients ask for
  Timeouts,    \* Timeout values clients ask for
  Durations,   \* termination times clients ask for, relative to the device clock
  NoDuration,  \* a request that gives no termination time
  DefaultTtl,  \* kDefaultTtlSec
  Skew,        \* device clock minus real clock while the clock quirk (A8) is on
  BasePort,    \* parameter "base_port" of the own-port quirk (D1)
  MaxPort,     \* 65535 in the code
  Toggles      \* quirks that REST may switch while the camera runs

QuirkNames == {"slot_limit", "never_expires", "always_empty", "renew_fails",
               "expires_at_once", "clock_skew", "own_port"}

ASSUME SubscriptionsAssumption ==
  /\ IsFiniteSet(Conns)
  /\ MaxId \in Nat /\ MaxMsg \in Nat
  /\ MaxQueue \in Nat \ {0}
  /\ SlotMax \in Nat \ {0}
  /\ Overflow \in {"fault", "evict_oldest", "silent_fail"}
  /\ Limits \subseteq Nat \ {0}
  /\ Timeouts \subseteq Nat
  /\ Durations \subseteq Int /\ NoDuration \notin Int
  /\ DefaultTtl \in Nat
  /\ Skew \in Int
  /\ BasePort \in Nat \ {0} /\ MaxPort \in Nat /\ BasePort <= MaxPort
  /\ Toggles \subseteq QuirkNames

Ids == 1 .. MaxId
Msgs == 1 .. MaxMsg

\* What a request is addressed to.
Paths == {"sub", "event", "service"} \X Nat
ServicePath == <<"service", 0>>   \* /onvif/events_service
SilentPath == <<"sub", 0>>        \* /onvif/subscription-0, handed out by silent_fail

VARIABLES
  subs,      \* Private::subs: the live subscriptions
  filter,    \* topics each one matches
  path,      \* Subscription::path
  ttl,       \* terminationTime minus now, 0 once expired
  queue,     \* Subscription::queue, oldest first
  waiting,   \* Private::pending restricted to one subscription, oldest first
  on,        \* PendingPull::subscriptionId of each connection, 0 if none
  limit,     \* PendingPull::messageLimit
  left,      \* time left on PendingPull::timer
  answers,   \* times the responder of the connection's last pull was called
  quirks,    \* quirks that are on
  counter,   \* Private::counter
  nextPort,  \* Private::nextPort
  produced,  \* events produced so far; event n is the n-th
  got,       \* history: events handed out by each subscription, in order
  dropped,   \* Subscription::droppedCount
  offered,   \* history: events that matched each subscription
  muted      \* history: always_empty has been on

pulls == <<waiting, on, limit, left, answers>>
store == <<subs, filter, path, ttl, queue, got, dropped, offered>>
names == <<counter, nextPort>>
vars == <<store, pulls, names, quirks, produced, muted>>

-----------------------------------------------------------------------------
Lesser(a, b) == IF a <= b THEN a ELSE b
Greater(a, b) == IF a >= b THEN a ELSE b
Cut(seq, n) == SubSeq(seq, n + 1, Len(seq))   \* without its first n elements
Without(seq, i) == SubSeq(seq, 1, i - 1) \o Cut(seq, i)   \* without its i-th element

Expired(s) == ttl[s] = 0

\* A termination time the client asked for is relative to the device clock, the
\* default one and the "expires at once" quirk are relative to the real clock.
Lifetime(d) ==
  IF "expires_at_once" \in quirks THEN 0
  ELSE IF d = NoDuration THEN DefaultTtl
  ELSE Greater(0, d + (IF "clock_skew" \in quirks THEN Skew ELSE 0))

\* find() on a path: the oldest subscription that has it.
Found(p) ==
  {s \in subs : path[s] = p /\ \A t \in subs : path[t] = p => s <= t}

\* subscriptionKey(): the HTTP path, then wsa:To, then the only subscription.
Resolve(p, to) ==
  IF Found(p) # {} THEN Found(p)
  ELSE IF Found(to) # {} THEN Found(to)
  ELSE {s \in subs : subs = {s}}

\* Every path a client has ever been given, and that of the service itself.
Targets == {ServicePath, SilentPath} \cup {path[s] : s \in 1 .. counter}

\* destroySubscription() of every member of gone: their long polls are
\* answered with "gone" and their queues go with them.
Stranded(gone) == {c \in Conns : on[c] \in gone}
Reset(f, S, v) == [x \in DOMAIN f |-> IF x \in S THEN v ELSE f[x]]
DropPulls(gone) ==
  /\ waiting' = Reset(waiting, gone, <<>>)
  /\ on' = Reset(on, Stranded(gone), 0)
  /\ limit' = Reset(limit, Stranded(gone), 0)
  /\ left' = Reset(left, Stranded(gone), 0)
  /\ answers' = [c \in Conns |-> IF c \in Stranded(gone) THEN answers[c] + 1
                                                          ELSE answers[c]]
ForgetQueues(gone) ==
  /\ queue' = Reset(queue, gone, <<>>)
  /\ got' = Reset(got, gone, <<>>)
  /\ dropped' = Reset(dropped, gone, 0)
  /\ offered' = Reset(offered, gone, 0)
Destroy(gone) ==
  /\ subs' = subs \ gone
  /\ ttl' = Reset(ttl, gone, 0)
  /\ ForgetQueues(gone)
  /\ DropPulls(gone)
  /\ UNCHANGED <<filter, path>>

\* Mutant: a subscription is only reaped once its queue is empty.
Reapable_OnlyDrained ==
  IF "never_expires" \in quirks THEN {} ELSE {s \in subs : Expired(s) /\ queue[s] = <<>>}
Reapable == IF "never_expires" \in quirks THEN {} ELSE {s \in subs : Expired(s)}

-----------------------------------------------------------------------------
(* CreatePullPointSubscription: reap, then make room, then append.          *)

\* Mutant: off by one.
Full_OffByOne(S) == "slot_limit" \in quirks /\ Cardinality(S) > SlotMax
Full(S) == "slot_limit" \in quirks /\ Cardinality(S) >= SlotMax

\* What evict_oldest destroys so that S has room for one more.
Evicted(S) ==
  IF Full(S) /\ Overflow = "evict_oldest"
  THEN {s \in S : Cardinality({t \in S : t > s}) >= SlotMax - 1}
  ELSE {}

\* Mutant: the port cursor is not used.
Port_Fixed == IF "own_port" \in quirks THEN BasePort ELSE 0
Port == IF "own_port" \in quirks THEN Greater(nextPort, BasePort) ELSE 0
PathFor(n) == IF Port # 0 THEN <<"event", Port>> ELSE <<"sub", n>>

Create(f, d) ==
  LET kept == subs \ Reapable
      gone == Reapable \cup Evicted(kept)
      new == counter + 1
  IN /\ new <= MaxId
     /\ ~Full(kept \ Evicted(kept))
     /\ subs' = (subs \ gone) \cup {new}
     /\ counter' = new
     /\ nextPort' = IF Port = 0 THEN nextPort
                    ELSE IF Port >= MaxPort THEN BasePort ELSE Port + 1
     /\ filter' = [filter EXCEPT ![new] = f]
     /\ path' = [path EXCEPT ![new] = PathFor(new)]
     /\ ttl' = [Reset(ttl, gone, 0) EXCEPT ![new] = Lifetime(d)]
     /\ ForgetQueues(gone)
     /\ DropPulls(gone)
     /\ UNCHANGED <<quirks, produced, muted>>

\* No room: slot_limit_fault or slot_limit_silent, but the reaping has happened.
CreateRefused ==
  /\ Overflow # "evict_oldest"
  /\ Full(subs \ Reapable)
  /\ Reapable # {}
  /\ Destroy(Reapable)
  /\ UNCHANGED <<names, quirks, produced, muted>>

-----------------------------------------------------------------------------
(* PullMessages                                                             *)

Idle(c) == on[c] = 0
Mute == "always_empty" \in quirks

\* No such subscription, or an expired one: the responder gets no subscription.
PullRefused(c, hit) ==
  /\ Idle(c)
  /\ \A s \in hit : Expired(s)
  /\ answers' = [answers EXCEPT ![c] = 1]
  /\ UNCHANGED <<store, names, quirks, produced, muted, waiting, on, limit, left>>

\* Events are there: take up to the limit and answer at once.
PullServed(c, hit, lim) ==
  /\ Idle(c)
  /\ ~Mute
  /\ \E s \in hit :
       LET n == Lesser(lim, Len(queue[s]))
       IN /\ ~Expired(s)
          /\ queue[s] # <<>>
          /\ queue' = [queue EXCEPT ![s] = Cut(@, n)]
          /\ got' = [got EXCEPT ![s] = @ \o SubSeq(queue[s], 1, n)]
  /\ answers' = [answers EXCEPT ![c] = 1]
  /\ UNCHANGED <<subs, filter, path, ttl, dropped, offered, names, quirks,
                 produced, muted, waiting, on, limit, left>>

\* Mutant: the queue is not looked at before the exchange is suspended.
PullEmpty_Unchecked(c, hit, lim, t) ==
  /\ Idle(c)
  /\ t # 0
  /\ \E s \in hit :
       /\ ~Expired(s)
       /\ answers' = [answers EXCEPT ![c] = 0]
       /\ waiting' = [waiting EXCEPT ![s] = Append(@, c)]
       /\ on' = [on EXCEPT ![c] = s]
  /\ limit' = [limit EXCEPT ![c] = lim]
  /\ left' = [left EXCEPT ![c] = t]
  /\ UNCHANGED <<store, names, quirks, produced, muted>>

\* Nothing to give: answer empty if the timeout is 0, else suspend the exchange.
PullEmpty(c, hit, lim, t) ==
  /\ Idle(c)
  /\ \E s \in hit :
       /\ ~Expired(s)
       /\ Mute \/ queue[s] = <<>>
       /\ IF t = 0
          THEN /\ answers' = [answers EXCEPT ![c] = 1]
               /\ UNCHANGED <<waiting, on, limit, left>>
          ELSE /\ answers' = [answers EXCEPT ![c] = 0]
               /\ waiting' = [waiting EXCEPT ![s] = Append(@, c)]
               /\ on' = [on EXCEPT ![c] = s]
               /\ limit' = [limit EXCEPT ![c] = lim]
               /\ left' = [left EXCEPT ![c] = t]
  /\ UNCHANGED <<store, names, quirks, produced, muted>>

\* Mutant: the pull is answered and stays in the list.
Forget_StaysListed(c) == UNCHANGED <<waiting, on, limit, left>>
Forget(c) ==
  /\ \E i \in 1 .. Len(waiting[on[c]]) :
       /\ waiting[on[c]][i] = c
       /\ waiting' = [waiting EXCEPT ![on[c]] = Without(@, i)]
  /\ on' = [on EXCEPT ![c] = 0]
  /\ limit' = [limit EXCEPT ![c] = 0]
  /\ left' = [left EXCEPT ![c] = 0]

\* Mutants: the timer does not look at always_empty; it copies the events out and
\* leaves them in the queue; it stays silent while always_empty is on.
PullTimeout_IgnoresMute(c) ==
  /\ ~Idle(c)
  /\ left[c] = 0
  /\ LET n == Lesser(limit[c], Len(queue[on[c]]))
     IN /\ queue' = [queue EXCEPT ![on[c]] = Cut(@, n)]
        /\ got' = [got EXCEPT ![on[c]] = @ \o SubSeq(queue[on[c]], 1, n)]
  /\ Forget(c)
  /\ answers' = [answers EXCEPT ![c] = @ + 1]
  /\ UNCHANGED <<subs, filter, path, ttl, dropped, offered, names, quirks,
                 produced, muted>>
PullTimeout_Copies(c) ==
  /\ ~Idle(c)
  /\ left[c] = 0
  /\ LET n == IF Mute THEN 0 ELSE Lesser(limit[c], Len(queue[on[c]]))
     IN got' = [got EXCEPT ![on[c]] = @ \o SubSeq(queue[on[c]], 1, n)]
  /\ Forget(c)
  /\ answers' = [answers EXCEPT ![c] = @ + 1]
  /\ UNCHANGED <<subs, filter, path, ttl, queue, dropped, offered, names, quirks,
                 produced, muted>>
PullTimeout_SilentWhenMute(c) == ~Mute /\ PullTimeout_IgnoresMute(c)

\* The timer of a long poll: answer with whatever the queue holds by then.
PullTimeout(c) ==
  /\ ~Idle(c)
  /\ left[c] = 0
  /\ LET s == on[c]
         n == IF Mute THEN 0 ELSE Lesser(limit[c], Len(queue[s]))
     IN /\ queue' = [queue EXCEPT ![s] = Cut(@, n)]
        /\ got' = [got EXCEPT ![s] = @ \o SubSeq(queue[s], 1, n)]
  /\ Forget(c)
  /\ answers' = [answers EXCEPT ![c] = @ + 1]
  /\ UNCHANGED <<subs, filter, path, ttl, dropped, offered, names, quirks,
                 produced, muted>>

\* The client disconnects: HttpExchange::aborted drops the pull unanswered.
Abort(c) ==
  /\ ~Idle(c)
  /\ Forget(c)
  /\ UNCHANGED <<store, names, quirks, produced, muted, answers>>

-----------------------------------------------------------------------------
(* Renew, Unsubscribe, clear() and the reaper                               *)

Renew(hit, d) ==
  /\ "renew_fails" \notin quirks
  /\ \E s \in hit : ttl' = [ttl EXCEPT ![s] = Lifetime(d)]
  /\ UNCHANGED <<subs, filter, path, queue, got, dropped, offered, pulls, names,
                 quirks, produced, muted>>

Unsubscribe(hit) ==
  /\ \E s \in hit : Destroy({s})
  /\ UNCHANGED <<names, quirks, produced, muted>>

Clear ==
  /\ subs # {}
  /\ Destroy(subs)
  /\ UNCHANGED <<names, quirks, produced, muted>>

Reap ==
  /\ Reapable # {}
  /\ Destroy(Reapable)
  /\ UNCHANGED <<names, quirks, produced, muted>>

-----------------------------------------------------------------------------
(* deliver(): queue the event at every match, then wake its long polls.     *)

\* Mutants: the capacity is off by one; the newest event goes to the front.
Enqueued_OffByOne(s, m) ==
  Append(IF Len(queue[s]) > MaxQueue THEN Tail(queue[s]) ELSE queue[s], m)
Enqueued_NewestFirst(s, m) ==
  <<m>> \o (IF Len(queue[s]) >= MaxQueue THEN Tail(queue[s]) ELSE queue[s])

Enqueued(s, m) ==
  Append(IF Len(queue[s]) >= MaxQueue THEN Tail(queue[s]) ELSE queue[s], m)

\* upto[c] is how far into queue q of s the wake-up has got once it has served
\* the long poll of c, and from(i) how far before the i-th one.
ServedUpTo(s, i, upto) == IF i = 1 THEN 0 ELSE upto[waiting[s][i - 1]]

\* wakePending(): the first k long polls of s share q, oldest first, each up to
\* its limit; the rest find it empty.
Wakes(s, q, k, upto) ==
  /\ k <= Len(waiting[s])
  /\ \A i \in 1 .. k :
       /\ ServedUpTo(s, i, upto) < Len(q)
       /\ upto[waiting[s][i]] =
            Lesser(ServedUpTo(s, i, upto) + limit[waiting[s][i]], Len(q))
  /\ k < Len(waiting[s]) => ServedUpTo(s, k + 1, upto) >= Len(q)

Deliver(topic) ==
  LET m == produced + 1
      hit == {s \in subs : topic \in filter[s]}
      woken == IF Mute THEN {} ELSE {s \in hit : waiting[s] # <<>>}
      callers == {c \in Conns : on[c] \in woken}
  IN /\ m <= MaxMsg
     /\ produced' = m
     /\ \E k \in [woken -> 1 .. Cardinality(Conns)],
          upto \in [callers -> 0 .. MaxQueue] :
          LET served == {c \in callers : \E i \in 1 .. k[on[c]] : waiting[on[c]][i] = c}
              out(s) == IF s \in woken THEN upto[waiting[s][k[s]]] ELSE 0
          IN /\ \A s \in woken : Wakes(s, Enqueued(s, m), k[s], upto)
             /\ \A c \in callers \ served : upto[c] = MaxQueue
             /\ queue' = [s \in Ids |-> IF s \in hit THEN Cut(Enqueued(s, m), out(s))
                                                     ELSE queue[s]]
             /\ got' = [s \in Ids |-> IF s \in hit
                                      THEN got[s] \o SubSeq(Enqueued(s, m), 1, out(s))
                                      ELSE got[s]]
             /\ waiting' = [s \in Ids |-> IF s \in woken THEN Cut(waiting[s], k[s])
                                                         ELSE waiting[s]]
             /\ on' = Reset(on, served, 0)
             /\ limit' = Reset(limit, served, 0)
             /\ left' = Reset(left, served, 0)
             /\ answers' = [c \in Conns |-> IF c \in served THEN answers[c] + 1
                                                            ELSE answers[c]]
     /\ dropped' = [s \in Ids |-> IF s \in hit /\ Len(queue[s]) >= MaxQueue
                                  THEN dropped[s] + 1 ELSE dropped[s]]
     /\ offered' = [s \in Ids |-> IF s \in hit THEN offered[s] + 1 ELSE offered[s]]
     /\ UNCHANGED <<subs, filter, path, ttl, names, quirks, muted>>

-----------------------------------------------------------------------------
(* The environment: time passes, REST switches quirks.                      *)

Down(x) == IF x > 0 THEN x - 1 ELSE 0

Tick ==
  /\ \/ \E s \in subs : ttl[s] > 0
     \/ \E c \in Conns : left[c] > 0
  /\ ttl' = [s \in Ids |-> Down(ttl[s])]
  /\ left' = [c \in Conns |-> Down(left[c])]
  /\ UNCHANGED <<subs, filter, path, queue, got, dropped, offered, names, quirks,
                 produced, muted, waiting, on, limit, answers>>

SetQuirks(q) ==
  /\ q # quirks
  /\ quirks' = q
  /\ muted' = (muted \/ "always_empty" \in q)
  /\ UNCHANGED <<store, pulls, names, produced>>

-----------------------------------------------------------------------------
Init ==
  /\ subs = {}
  /\ filter = [s \in Ids |-> {}]
  /\ path = [s \in Ids |-> ServicePath]
  /\ ttl = [s \in Ids |-> 0]
  /\ queue = [s \in Ids |-> <<>>]
  /\ waiting = [s \in Ids |-> <<>>]
  /\ on = [c \in Conns |-> 0]
  /\ limit = [c \in Conns |-> 0]
  /\ left = [c \in Conns |-> 0]
  /\ answers = [c \in Conns |-> 0]
  /\ quirks \in SUBSET Toggles
  /\ counter = 0
  /\ nextPort = 0
  /\ produced = 0
  /\ got = [s \in Ids |-> <<>>]
  /\ dropped = [s \in Ids |-> 0]
  /\ offered = [s \in Ids |-> 0]
  /\ muted = ("always_empty" \in quirks)

\* A request that resolves to hit: at most one subscription.
Request(hit) ==
  \/ \E c \in Conns : PullRefused(c, hit)
  \/ \E c \in Conns, lim \in Limits : PullServed(c, hit, lim)
  \/ \E c \in Conns, lim \in Limits, t \in Timeouts : PullEmpty(c, hit, lim, t)
  \/ \E d \in Durations \cup {NoDuration} : Renew(hit, d)
  \/ Unsubscribe(hit)

Next ==
  \/ \E f \in SUBSET Topics \ {{}}, d \in Durations \cup {NoDuration} : Create(f, d)
  \/ CreateRefused
  \/ \E hit \in {Resolve(p, to) : p \in Targets, to \in Targets} : Request(hit)
  \/ \E c \in Conns : PullTimeout(c) \/ Abort(c)
  \/ Clear
  \/ Reap
  \/ \E topic \in Topics : Deliver(topic)
  \/ Tick
  \/ \E q \in SUBSET Toggles : SetQuirks(q)

\* Qt timers fire: the clock advances, a due long poll is answered and the
\* reaper runs.  Nothing is assumed of clients, events or REST.
Fairness ==
  /\ WF_vars(Tick)
  /\ WF_vars(Reap)
  /\ \A c \in Conns : WF_vars(PullTimeout(c))

Spec == Init /\ [][Next]_vars
FairSpec == Spec /\ Fairness

-----------------------------------------------------------------------------
(* Properties.                                                              *)

\* Types of the state; live numbers have been handed out, queues are bounded.
TypeOK ==
  /\ subs \subseteq Ids /\ \A s \in subs : s <= counter
  /\ filter \in [Ids -> SUBSET Topics]
  /\ path \in [Ids -> Paths]
  /\ ttl \in [Ids -> Nat]
  /\ queue \in [Ids -> Seq(Msgs)]
  /\ waiting \in [Ids -> Seq(Conns)]
  /\ on \in [Conns -> Ids \cup {0}]
  /\ limit \in [Conns -> Nat]
  /\ left \in [Conns -> Nat]
  /\ answers \in [Conns -> Nat]
  /\ quirks \subseteq Toggles
  /\ counter \in 0 .. MaxId
  /\ nextPort \in 0 .. MaxPort
  /\ produced \in 0 .. MaxMsg
  /\ got \in [Ids -> Seq(Msgs)]
  /\ dropped \in [Ids -> Nat]
  /\ offered \in [Ids -> Nat]
  /\ muted \in BOOLEAN

\* The list of suspended pulls and the pulls themselves agree: whoever waits is
\* listed once, with the subscription it waits on, and that subscription is
\* live (no long poll is left on one that was destroyed).
ListedWaiters ==
  \A s \in Ids : \A i \in 1 .. Len(waiting[s]) : on[waiting[s][i]] = s
ListedOnce ==
  \A s \in Ids : \A i, j \in 1 .. Len(waiting[s]) :
    waiting[s][i] = waiting[s][j] => i = j
WaitersListed ==
  \A c \in Conns : on[c] # 0 =>
    on[c] \in subs /\ \E i \in 1 .. Len(waiting[on[c]]) : waiting[on[c]][i] = c
PendingConsistent == ListedWaiters /\ ListedOnce /\ WaitersListed

\* However timeouts, wake-ups, disconnections and removals race, the responder
\* of a pull runs at most once, and not before the pull has left the list.
AnsweredOnce == \A c \in Conns : answers[c] <= (IF on[c] = 0 THEN 1 ELSE 0)

\* The suspended pulls: listed exactly once, with a live subscription, and
\* answered at most once.
PullsConsistent == TypeOK /\ PendingConsistent /\ AnsweredOnce

\* As long as always_empty (D10) has never been on, no long poll sleeps while
\* its subscription holds events.
NoLostWakeup == muted \/ \A s \in subs : waiting[s] = <<>> \/ queue[s] = <<>>

\* Every event offered to a subscription was handed out, or counted as
\* dropped, or is still queued; the queue never exceeds maxQueue.
Conservation ==
  \A s \in Ids : /\ offered[s] = Len(got[s]) + dropped[s] + Len(queue[s])
                 /\ Len(queue[s]) <= MaxQueue

\* What a subscription hands out, over all the pulls on it, comes in the order
\* of production and without repetition, and what it still holds is newer.
InOrder ==
  \A s \in Ids : LET all == got[s] \o queue[s]
                 IN \A i, j \in DOMAIN all : i < j => all[i] < all[j]

\* D10: while the quirk is on no client receives an event, whichever way its
\* pull ends.
MuteSilences == [][Mute => \A s \in subs \cap subs' : got'[s] = got[s]]_vars

\* D3: a subscription created while the slot limit is on fits in it, counting
\* what was reaped and evicted to make room.
SlotLimitKept ==
  [][(counter' # counter /\ "slot_limit" \in quirks) => Cardinality(subs') <= SlotMax]_vars

\* A subscription address belongs to one live subscription only.
PathUnique == \A s, t \in subs : path[s] = path[t] => s = t

\* Every suspended pull ends.
PullEnds == \A c \in Conns : on[c] # 0 ~> on[c] = 0

\* Once never_expires (A9) stays off, an expired subscription is destroyed or
\* renewed, whatever else happens to it.
ExpiredReclaimed ==
  <>[]("never_expires" \notin quirks) =>
    \A s \in Ids : (s \in subs /\ Expired(s)) ~> (s \notin subs \/ ~Expired(s))

\* The whole component keeps the promise of PullPoint: its clock, its quirks, its
\* addresses and the race of timers with events and removals never show as a
\* reply out of order, a repeated or a vanished event, or a second answer.
Promise == INSTANCE PullPoint WITH
  Capacity <- MaxQueue, open <- subs, owed <- queue, sent <- got,
  asking <- on, news <- produced
KeepsPromise == Promise!Spec

\* EventsService on the silent_fail refusal: "the subscription was not created
\* at all, every later Pull faults".  Where a refusal hands out SilentPath, a
\* request to that path must find nothing.
SilentRefusalFaults ==
  (Overflow = "silent_fail" /\ Full(subs \ Reapable)) =>
    Resolve(SilentPath, SilentPath) \subseteq Reapable
=============================================================================
