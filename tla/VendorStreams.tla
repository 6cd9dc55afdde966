---------------------------- MODULE VendorStreams ----------------------------
(***************************************************************************)
(* The event streams of the vendor APIs: the attach of Dahua's             *)
(* eventManager.cgi (src/src/vendor/dahua/DahuaCgiStub.cpp) and            *)
(* Hikvision's alertStream (src/src/vendor/hikvision/IsapiStub.cpp).  A    *)
(* client's exchange stays open; events and heartbeats are pushed into it  *)
(* until the peer leaves, stops reading or the camera goes down.           *)
(*                                                                         *)
(* A peer in stuck has stopped reading: the next write to it fails and     *)
(* drops its connection.                                                   *)
(***************************************************************************)
EXTENDS Integers, Sequences, Functions, Selection

CONSTANTS
  Streams,    \* connections that may attach, and attach again when they are closed
  CodeOf,     \* eventCodeFor()/hikNameFor(): kind of event -> code
  Filters,    \* code lists clients attach with; {} is [All], and all ISAPI has
  MaxEvents   \* bound: events produced in a behaviour

VARIABLES
  clients,    \* m_attachClients / m_alertClients
  filter,     \* AttachClient::codes of every stream
  beating,    \* streams whose heartbeat timer runs
  open,       \* streams whose connection is open
  stuck,      \* open streams whose peer does not read any more
  heard,      \* events written into each stream since it attached
  due,        \* history: events produced for it while it was open
  events      \* events produced so far

streamVars == <<clients, filter, beating, open, stuck, heard, due, events>>

Wants(s, code) == filter[s] = {} \/ code \in filter[s]

\* push() into each of ss: a write that fails drops the client on the way.
Lost(ss) == ss \cap stuck
\* drop(): timer, exchange and list entry go together.
Drop(ss) ==
  /\ clients' = Sifted(clients, Streams \ ss)
  /\ beating' = beating \ ss
  /\ open' = open \ ss
  /\ stuck' = stuck \ ss

Attach(s, codes) ==
  /\ s \notin open
  /\ filter' = [filter EXCEPT ![s] = codes]
  /\ clients' = Append(clients, s)
  /\ beating' = beating \cup {s} /\ open' = open \cup {s}
  /\ heard' = [heard EXCEPT ![s] = <<>>] /\ due' = [due EXCEPT ![s] = <<>>]
  /\ UNCHANGED <<stuck, events>>

\* onEventProduced() goes through a copy of the list, because push() may drop.
\* Mutant: it goes through the list itself, where a drop makes it miss the next.
OnEventProduced_NoCopy(kind) ==
  LET code == CodeOf[kind]
      meant == {s \in Range(clients) : Wants(s, code)}
      missed == {clients[i] : i \in {j \in 2 .. Len(clients) : clients[j - 1] \in Lost(meant)}}
      sent == meant \ (Lost(meant) \cup missed)
  IN
  /\ events < MaxEvents /\ events' = events + 1
  /\ heard' = [s \in Streams |-> IF s \in sent THEN Append(heard[s], code) ELSE heard[s]]
  /\ due' = [s \in Streams |-> IF s \in open \ stuck /\ Wants(s, code) THEN Append(due[s], code) ELSE due[s]]
  /\ Drop(Lost(meant))
  /\ UNCHANGED filter
OnEventProduced(kind) ==
  LET code == CodeOf[kind]
      meant == {s \in Range(clients) : Wants(s, code)}
      sent == meant \ Lost(meant)
  IN
  /\ events < MaxEvents /\ events' = events + 1
  /\ heard' = [s \in Streams |-> IF s \in sent THEN Append(heard[s], code) ELSE heard[s]]
  /\ due' = [s \in Streams |-> IF s \in open \ stuck /\ Wants(s, code) THEN Append(due[s], code) ELSE due[s]]
  /\ Drop(Lost(meant))
  /\ UNCHANGED filter

Heartbeat(s) ==
  /\ s \in beating
  /\ Drop(Lost({s}))
  /\ UNCHANGED <<filter, heard, due, events>>

\* The peer leaves: aborted() reaches the stub, which drops the client.
PeerLeaves(s) ==
  /\ s \in open
  /\ Drop({s})
  /\ UNCHANGED <<filter, heard, due, events>>
StopsReading(s) ==
  /\ s \in open \ stuck
  /\ stuck' = stuck \cup {s}
  /\ UNCHANGED <<clients, filter, beating, open, heard, due, events>>

\* The HTTP server closes every connection, or the stub goes with the camera.
CameraDown ==
  /\ open # {}
  /\ Drop(open)
  /\ UNCHANGED <<filter, heard, due, events>>

StreamInit ==
  /\ clients = <<>> /\ filter = [s \in Streams |-> {}]
  /\ beating = {} /\ open = {} /\ stuck = {}
  /\ heard = [s \in Streams |-> <<>>] /\ due = [s \in Streams |-> <<>>]
  /\ events = 0

StreamNext ==
  \/ \E s \in Streams, codes \in Filters : Attach(s, codes)
  \/ \E kind \in DOMAIN CodeOf : OnEventProduced(kind)
  \/ \E s \in Streams : Heartbeat(s)
  \/ \E s \in Streams : PeerLeaves(s)
  \/ \E s \in Streams : StopsReading(s)
  \/ CameraDown

StreamSpec == StreamInit /\ [][StreamNext]_streamVars

\* List, timers and connections name the same streams, each once: no timer beats
\* for a client that is gone and no open stream is forgotten.  Every stream has
\* heard exactly the events it asked for that were produced while its peer read
\* it, in their order, whoever else dropped out in the middle of a round
\* (push, drop and onEventProduced of both stubs).
StreamsFollow ==
  /\ Range(clients) = open /\ beating = open /\ stuck \subseteq open
  /\ IsInjective(clients)
  /\ \A s \in Streams : heard[s] = due[s]
=============================================================================
