------------------------------ MODULE Discovery ------------------------------
(***************************************************************************)
(* The WS-Discovery responder of the simulator                             *)
(* (src/src/discovery/DiscoveryResponder.cpp, WsdMessages.cpp): Hello and  *)
(* Bye as its cameras come and go and as it is itself started and stopped, *)
(* and the answers to Probe and Resolve, at once, late or twice.           *)
(*                                                                         *)
(* Messages are what they say of a camera; dialect, ids and sequence       *)
(* numbers of the envelope are left out.  A camera that is up has bound    *)
(* its address, so the reply socket can be bound to it too.  Datagrams may *)
(* be lost on the way: said is what was last sent.                         *)
(***************************************************************************)
EXTENDS Integers, Sequences, FiniteSets, SequencesExt

CONSTANTS
  Fleet,       \* the cameras there are to begin with
  Types,       \* advertisedTypes(), without prefixes
  ScopesOf,    \* camera -> scopes of its model, each a sequence of path segments
  QuirkSets,   \* discovery quirks a camera may be given together
  Requests,    \* what clients send: see Probe and Resolve
  MaxPending,  \* bound: answers that wait for a timer
  MaxOwed      \* bound: announceAllHello() calls that wait for the event loop

(* The discovery quirks the state depends on. *)
ReplyQuirks == {"no_reply", "reply_delay", "reply_twice", "differing_xaddrs",
                "no_xaddrs", "bad_xaddr_first", "bad_xaddr_last"}
ScopeRules == {"rfc3986", "strcmp0", "other"}
Answers == [camera : Fleet, resolve : BOOLEAN, second : BOOLEAN]

ASSUME DiscoveryAssumption ==
  /\ IsFiniteSet(Fleet)
  /\ QuirkSets \subseteq SUBSET ReplyQuirks
  /\ DOMAIN ScopesOf = Fleet
  /\ \A m \in Requests :
       \/ m.kind = "probe" /\ m.rule \in ScopeRules
       \/ m.kind = "resolve" /\ m.epr \in Fleet \cup {"other"}
       \/ m.kind = "other"
  /\ MaxPending \in Nat /\ MaxOwed \in Nat

VARIABLES
  fleet,      \* simulator->cameras()
  up,         \* cameras that run
  out,        \* cameras that are offline
  twists,     \* camera -> its discovery quirks
  listening,  \* Private::running
  owed,       \* timers of start() that have not fired
  senders,    \* cameras with a socket in Private::senders
  pending,    \* answers that wait for their timer
  said,       \* history: what clients were last told of each camera
  late,       \* history: cameras last told of by an answer sent while they were down
  unsaid,     \* history: cameras whose last Hello was held back by a quirk
  answer      \* history: the matches the last step sent

discoveryVars == <<fleet, up, out, twists, listening, owed, senders, pending,
                   said, late, unsaid, answer>>

-----------------------------------------------------------------------------
\* probeMatchesTypes(): any of the types will do.  probeMatchesScopes(): all of
\* the scopes must be found, by a rule it knows.
MatchesTypes(wanted) == wanted = {} \/ wanted \cap Types # {}
MatchesScope(p, d, rule) == IF rule = "strcmp0" THEN p = d ELSE IsPrefix(p, d)
MatchesScopes(wanted, c, rule) ==
  rule = "other" \/ \A p \in wanted : \E d \in ScopesOf[c] : MatchesScope(p, d, rule)

\* applyBadXAddr(): one more address, which leads nowhere, before or after the rest.
BadXAddr(c, xs) ==
  IF "bad_xaddr_first" \in twists[c] THEN <<"bad">> \o xs
  ELSE IF "bad_xaddr_last" \in twists[c] THEN xs \o <<"bad">> ELSE xs
\* makeMatch() and the switches in sendMatch(): which addresses an answer gives.
XAddrs(c, resolve, second) ==
  IF ~resolve /\ "no_xaddrs" \in twists[c] THEN <<>>
  ELSE IF second /\ "differing_xaddrs" \in twists[c] THEN <<"bad">> ELSE BadXAddr(c, <<"own">>)

\* sendMatch() for each of as.
SendMatches(as) ==
  LET cs == {a.camera : a \in as} IN
  /\ answer' = {[match |-> a, xaddrs |-> XAddrs(a.camera, a.resolve, a.second)] : a \in as}
  /\ said' = [c \in Fleet |-> IF c \in cs THEN "here" ELSE said[c]]
  /\ late' = late \cup {c \in cs \ (up \ out) : said[c] # "here"}
  /\ senders' = senders \cup cs

\* senderFor() each of cs, while there is something to send.
SenderFor(cs) == senders' = IF listening THEN senders \cup cs ELSE senders

\* announceHello() and announceBye() of each of cs.
Hello(cs) ==
  LET heard == {c \in cs : "no_reply" \notin twists[c]} IN
  /\ said' = [c \in Fleet |-> IF listening /\ c \in heard THEN "here" ELSE said[c]]
  /\ SenderFor(heard)
  /\ late' = IF listening THEN late \ heard ELSE late
  /\ unsaid' = IF listening THEN (unsaid \ cs) \cup (cs \ heard) ELSE unsaid
Bye(cs) ==
  /\ said' = [c \in Fleet |-> IF listening /\ c \in cs THEN "gone" ELSE said[c]]
  /\ late' = IF listening THEN late \ cs ELSE late
Silence == UNCHANGED <<said, late>>
Others == pending' = pending /\ answer' = {} /\ owed' = owed

-----------------------------------------------------------------------------
\* VirtualCamera::start(), stop(), goOffline() and the end of an outage.
Appears(c) ==
  /\ c \in fleet \ up
  /\ up' = up \cup {c} /\ out' = out \ {c}
  /\ Hello({c}) /\ Others
  /\ UNCHANGED <<fleet, twists, listening>>
Leaves(c) ==
  /\ c \in up
  /\ up' = up \ {c} /\ out' = out \ {c}
  /\ Bye({c}) /\ Others
  /\ SenderFor({c})
  /\ UNCHANGED <<fleet, twists, listening, unsaid>>
DropsOut(c, bye) ==
  /\ c \in up
  /\ out' = out \cup {c}
  /\ Others
  /\ IF bye THEN Bye({c}) ELSE Silence
  /\ SenderFor(IF bye THEN {c} ELSE {})
  /\ UNCHANGED <<fleet, up, twists, listening, unsaid>>
IsBack(c) ==
  /\ c \in up \cap out
  /\ out' = out \ {c}
  /\ Hello({c}) /\ Others
  /\ UNCHANGED <<fleet, up, twists, listening>>

\* Simulator::removeCamera(): stopped first, so that the Bye still goes out,
\* then its socket is dropped.
RemoveCamera(c) ==
  /\ c \in fleet
  /\ fleet' = fleet \ {c} /\ up' = up \ {c} /\ out' = out \ {c}
  /\ IF c \in up THEN Bye({c}) ELSE Silence
  /\ senders' = senders \ {c}
  /\ Others
  /\ UNCHANGED <<twists, listening, unsaid>>

TwistQuirks(c, qs) ==
  /\ c \in fleet /\ qs # twists[c]
  /\ twists' = [twists EXCEPT ![c] = qs]
  /\ Silence /\ Others
  /\ UNCHANGED <<fleet, up, out, listening, senders, unsaid>>

\* start(): the cameras that are up already get their Hello from the event loop.
StartDiscovery ==
  /\ ~listening /\ owed < MaxOwed
  /\ listening' = TRUE /\ owed' = owed + 1
  /\ Silence /\ answer' = {}
  /\ UNCHANGED <<fleet, up, out, twists, senders, pending, unsaid>>
AnnounceAllHello ==
  /\ owed > 0 /\ owed' = owed - 1
  /\ Hello(up \ out) /\ answer' = {}
  /\ UNCHANGED <<fleet, up, out, twists, listening, pending>>

\* stop(): Bye for every camera that runs, offline or not, while it still may.
\* Mutant: it counts as stopped before the Byes.
StopDiscovery_FlagFirst ==
  /\ listening /\ listening' = FALSE
  /\ Silence /\ senders' = {} /\ Others
  /\ UNCHANGED <<fleet, up, out, twists, unsaid>>
StopDiscovery ==
  /\ listening /\ listening' = FALSE
  /\ Bye(up) /\ senders' = {} /\ Others
  /\ UNCHANGED <<fleet, up, out, twists, unsaid>>

-----------------------------------------------------------------------------
\* parseWsdMessage(): anything but Probe and Resolve concerns nobody.
Understood(m) == m.kind \in {"probe", "resolve"}

\* handleDatagram(): every copy of a request is answered by every camera that is
\* up and meant.
Meant(m) ==
  {c \in up \ out :
     /\ Understood(m)
     /\ IF m.kind = "probe" THEN MatchesTypes(m.types) /\ MatchesScopes(m.scopes, c, m.rule)
        ELSE m.epr = c}

\* respond(): held back, after a while, or at once; and perhaps again.
Match(c, m, second) == [camera |-> c, resolve |-> m.kind = "resolve", second |-> second]
HandleDatagram(m) ==
  LET talking == {c \in Meant(m) : "no_reply" \notin twists[c]}
      waiting == {c \in talking : "reply_delay" \in twists[c]}
      again == {c \in talking \ waiting : "reply_twice" \in twists[c]}
  IN
  /\ listening
  /\ Len(pending) + Cardinality(waiting \cup again) <= MaxPending
  /\ pending' = pending \o SetToSeq({Match(c, m, FALSE) : c \in waiting})
                        \o SetToSeq({Match(c, m, TRUE) : c \in again})
  /\ SendMatches({Match(c, m, FALSE) : c \in talking \ waiting})
  /\ UNCHANGED <<fleet, up, out, twists, listening, owed, unsaid>>

\* A delayed answer looks at the camera's existence and at the responder only.
Fire(i) ==
  LET a == pending[i]
      sent == listening /\ a.camera \in fleet
      again == sent /\ ~a.second /\ "reply_twice" \in twists[a.camera]
  IN
  /\ pending' = RemoveAt(pending, i) \o IF again THEN <<[a EXCEPT !.second = TRUE]>> ELSE <<>>
  /\ SendMatches(IF sent THEN {a} ELSE {})
  /\ UNCHANGED <<fleet, up, out, twists, listening, owed, unsaid>>

DiscoveryInit ==
  /\ fleet = Fleet /\ up = {} /\ out = {}
  /\ twists = [c \in Fleet |-> {}]
  /\ listening = FALSE /\ owed = 0 /\ senders = {} /\ pending = <<>>
  /\ said = [c \in Fleet |-> "nothing"] /\ late = {} /\ unsaid = {} /\ answer = {}

DiscoveryNext ==
  \/ \E c \in Fleet :
       \/ Appears(c) \/ Leaves(c) \/ IsBack(c) \/ RemoveCamera(c)
       \/ \E bye \in BOOLEAN : DropsOut(c, bye)
       \/ \E qs \in QuirkSets : TwistQuirks(c, qs)
  \/ StartDiscovery \/ AnnounceAllHello \/ StopDiscovery
  \/ \E m \in Requests : HandleDatagram(m)
  \/ \E i \in DOMAIN pending : Fire(i)

DiscoverySpec == DiscoveryInit /\ [][DiscoveryNext]_discoveryVars

-----------------------------------------------------------------------------
\* What clients were last told of the cameras is so, however cameras and
\* responder are started and stopped, in whichever order: a camera that is up
\* has been announced once the responder serves, one that is not running has
\* been taken back, and so have all of them once the responder has stopped (the
\* comment in stop()).  Excepted are a camera that a quirk keeps silent, and one
\* that a delayed answer brought back after its Bye (respond() looks at the
\* camera's existence only).
AnnouncedRight ==
  /\ \A c \in up \ out : listening /\ owed = 0 => said[c] = "here" \/ c \in unsaid
  /\ \A c \in Fleet : said[c] = "here" => c \in late \/ (listening /\ c \in up)

\* Reply sockets belong to cameras there are and to a responder that runs, or
\* they would keep an address busy (cameraRemoved, stop()).
SendersFollow == senders \subseteq fleet /\ (~listening => senders = {})

\* A Resolve is answered with the camera's own address among the addresses,
\* whatever the address quirks do (the comment in sendMatch()), and no answer
\* goes out while the responder is stopped or for a camera that is gone.
AnswersUsable ==
  \A a \in answer :
    /\ a.match.resolve /\ ~a.match.second => "own" \in ToSet(a.xaddrs)
    /\ listening /\ a.match.camera \in fleet

\* Cameras, sockets, timers and what clients were told agree.
DiscoveryTrue ==
  /\ out \subseteq up /\ up \subseteq fleet /\ fleet \subseteq Fleet
  /\ pending \in Seq(Answers) /\ owed \in 0 .. MaxOwed
  /\ AnnouncedRight /\ SendersFollow /\ AnswersUsable
=============================================================================
