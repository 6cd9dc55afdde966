------------------------------ MODULE PullPoint ------------------------------
(***************************************************************************)
(* What a pull point promises its clients, with no clock, no quirk and no  *)
(* address: each open subscription owes its client a bounded backlog of    *)
(* events, in order; a request takes events from the front of it, at once  *)
(* or after waiting; events leave the backlog in no other way than by      *)
(* being sent or, when it is full, by being lost oldest first.             *)
(***************************************************************************)
EXTENDS Naturals, Sequences

CONSTANTS Ids, Conns, Capacity

VARIABLES
  open,    \* open subscriptions
  owed,    \* events each one holds for its client
  sent,    \* events it has sent, over all requests
  asking,  \* subscription each connection waits on, 0 if none
  news     \* number of the latest event

vars == <<open, owed, sent, asking, news>>

Init ==
  /\ open = {}
  /\ owed = [s \in Ids |-> <<>>]
  /\ sent = [s \in Ids |-> <<>>]
  /\ asking = [c \in Conns |-> 0]
  /\ news = 0

\* Send the first n events of backlog b of subscription s.
Sends(s, b, n) ==
  /\ n <= Len(b)
  /\ owed'[s] = SubSeq(b, n + 1, Len(b))
  /\ sent'[s] = sent[s] \o SubSeq(b, 1, n)
Keeps(s) == owed'[s] = owed[s] /\ sent'[s] = sent[s]

Shape == owed' = [s \in Ids |-> owed'[s]] /\ sent' = [s \in Ids |-> sent'[s]]

\* Subscriptions close, at most one opens; whoever waits on a closed one is let go.
Turnover(gone, new) ==
  /\ open' = (open \ gone) \cup new
  /\ owed' = [s \in Ids |-> IF s \in gone THEN <<>> ELSE owed[s]]
  /\ sent' = [s \in Ids |-> IF s \in gone THEN <<>> ELSE sent[s]]
  /\ asking' = [c \in Conns |-> IF asking[c] \in gone THEN 0 ELSE asking[c]]
  /\ UNCHANGED news

\* A request answered on the spot with n events.
Fetch(s, n) ==
  /\ Shape
  /\ Sends(s, owed[s], n)
  /\ \A t \in Ids \ {s} : Keeps(t)
  /\ UNCHANGED <<open, asking, news>>

\* A request that waits.
Ask(c, s) ==
  /\ asking[c] = 0
  /\ asking' = [asking EXCEPT ![c] = s]
  /\ UNCHANGED <<open, owed, sent, news>>

\* A waiting request answered, with n events, possibly none.
Reply(c, n) ==
  /\ asking[c] # 0
  /\ Shape
  /\ Sends(asking[c], owed[asking[c]], n)
  /\ \A t \in Ids \ {asking[c]} : Keeps(t)
  /\ asking' = [asking EXCEPT ![c] = 0]
  /\ UNCHANGED <<open, news>>

\* A waiting client that disconnects.
Leave(c) ==
  /\ asking[c] # 0
  /\ asking' = [asking EXCEPT ![c] = 0]
  /\ UNCHANGED <<open, owed, sent, news>>

\* The next event reaches the subscriptions in to; the requests in answered,
\* all of them waiting there, share the n[s] events that leave s with it.
After(s) ==
  Append(IF Len(owed[s]) >= Capacity THEN Tail(owed[s]) ELSE owed[s], news + 1)

Publish(to, answered, n) ==
  /\ news' = news + 1
  /\ Shape
  /\ \A s \in to : /\ Sends(s, After(s), n[s])
                   /\ n[s] > 0 <=> \E c \in answered : asking[c] = s
  /\ \A s \in Ids \ to : Keeps(s)
  /\ asking' = [c \in Conns |-> IF c \in answered THEN 0 ELSE asking[c]]
  /\ UNCHANGED open

Next ==
  \/ \E gone \in SUBSET open, new \in {{}} \cup {{s} : s \in Ids \ open} : Turnover(gone, new)
  \/ \E s \in open : \E n \in 0 .. Capacity : Fetch(s, n)
  \/ \E c \in Conns : \E s \in open : Ask(c, s)
  \/ \E c \in Conns : \E n \in 0 .. Capacity : Reply(c, n)
  \/ \E c \in Conns : Leave(c)
  \/ \E to \in SUBSET open :
       \E answered \in SUBSET {c \in Conns : asking[c] \in to} :
         \E n \in [to -> 0 .. Capacity] : Publish(to, answered, n)

Spec == Init /\ [][Next]_vars
=============================================================================
