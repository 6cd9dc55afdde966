-------------------------- MODULE CameraLifecycle ---------------------------
(***************************************************************************)
(* The life cycle of one virtual camera (src/src/core/VirtualCamera.cpp):  *)
(* start and stop, simulated outages with their timer, the rebinding of    *)
(* its listeners when the model changes, the listeners opened for          *)
(* subscriptions with a port of their own, and the Hello and Bye           *)
(* announcements, while other processes take and give back ports.          *)
(*                                                                         *)
(* With them go the routes of the vendor's private API, which every change *)
(* of the model tears down, and the private port of the VIGI stub          *)
(* (src/src/vendor/vigi/VigiStub.cpp).                                     *)
(*                                                                         *)
(* A step is one callback of the event loop.  A listener is a record: open *)
(* (the socket listens), port (boundPort, the last one it listened on) and *)
(* suspended (the flag resume() looks at).                                 *)
(***************************************************************************)
EXTENDS Integers, FiniteSets, FiniteSetsExt

CONSTANTS
  HttpPorts,   \* httpPort values the model may be given
  RtspPorts,   \* rtspPort values
  SubPorts,    \* ports the own-port quirk (D1) hands to subscriptions
  Stubs,       \* vendor APIs: "none", "routes" (HTTP routes only) or "vigi"
  VigiPort,    \* private port of the VIGI stub
  TlsPort,     \* private port while the self-signed TLS quirk (F2) is on
  Contested,   \* ports other processes may take
  MaxOutages   \* bound: outages begun in a behaviour

Ports == HttpPorts \cup RtspPorts \cup SubPorts
PrivatePorts == {VigiPort, TlsPort}

ASSUME CameraLifecycleAssumption ==
  /\ Ports \subseteq Nat /\ IsFiniteSet(Ports)
  /\ HttpPorts # {} /\ RtspPorts # {}
  /\ Stubs \subseteq {"none", "routes", "vigi"}
  /\ PrivatePorts \subseteq Nat \ ({0} \cup Ports)
  /\ Contested \subseteq Ports \cup PrivatePorts
  /\ MaxOutages \in Nat

VARIABLES
  running,    \* Private::running
  offline,    \* Private::offline
  timer,      \* offlineTimer runs
  reboots,    \* SystemReboot timers (500 ms) that have not fired
  model,      \* httpPort and rtspPort of the model
  http,       \* the HTTP listener
  rtsp,       \* the RTSP listener
  servers,    \* Private::subscriptionServers: port -> listener
  owned,      \* ports of the live subscriptions that have one of their own
  taken,      \* ports other processes hold
  outages,    \* outages begun so far
  stub,       \* which vendor API the camera has
  asked,      \* Private::vendorRoutesRegistered
  added,      \* the stub's m_routesRegistered
  routed,     \* the vendor's routes are in the HTTP route table
  private,    \* port of the VIGI listener, 0 when it is closed
  tls,        \* the self-signed TLS quirk is on
  stray,      \* history: the private port was asked for while the camera was down
  announced,  \* history: the last announcement clients were sent
  botched     \* history: a rebinding failed or came during an outage, and the
              \* camera has not been stopped since

vendor == <<stub, asked, added, routed, private, tls, stray>>
vars == <<running, offline, timer, reboots, model, http, rtsp, servers, owned,
          taken, outages, vendor, announced, botched>>

-----------------------------------------------------------------------------
Open(p) == [open |-> TRUE, port |-> p, suspended |-> FALSE]
Closed(l) == [l EXCEPT !.open = FALSE]
Suspended(l) == [l EXCEPT !.open = FALSE, !.suspended = TRUE]

InUse(l) == IF l.open THEN {l.port} ELSE {}
Served == {p \in DOMAIN servers : servers[p].open}
Free(p, own) == p \notin taken \cup own   \* a socket can listen on p
NoServers == [p \in {} |-> Open(p)]

\* listen() on both ports of model m, HTTP first; a failure of the second closes
\* the first again.  own is what the camera itself holds when the first is tried,
\* h and r the two listeners as they are then.
Bind(m, h, r, own, ok) ==
  IF ~Free(m.http, own) THEN ~ok /\ http' = Closed(h) /\ rtsp' = r
  ELSE IF ~Free(m.rtsp, Served \cup {m.http})
    THEN ~ok /\ http' = Closed(Open(m.http)) /\ rtsp' = Closed(r)
    ELSE ok /\ http' = Open(m.http) /\ rtsp' = Open(m.rtsp)

-----------------------------------------------------------------------------
\* startPrivateListener(): moves to the port wanted now, or loses the old one
\* when that cannot be had.  It does not ask whether the camera is up.
PrivatePort(on) == IF on THEN TlsPort ELSE VigiPort
StartPrivate(on) ==
  LET p == PrivatePort(on) IN
  private' = IF private = p \/ p \notin taken THEN p ELSE 0

\* registerVendorRoutes() and the stub's registerRoutes(): each remembers that it
\* has been here, but only the camera is made to forget.
RegisterVendorRoutes(before) ==
  IF stub = "none" \/ before
  THEN asked' = before /\ UNCHANGED <<added, private>>
  ELSE /\ asked' = TRUE /\ added' = TRUE
       /\ IF stub = "vigi" THEN StartPrivate(tls) ELSE UNCHANGED private

\* stop() and wentOffline: the VIGI stub closes its port.
StopPrivate == private' = 0 /\ stray' = FALSE /\ UNCHANGED <<stub, asked, added, routed, tls>>

Start ==
  /\ ~running
  /\ \/ /\ Bind(model, http, rtsp, Served \cup InUse(rtsp), TRUE)
        /\ running' = TRUE /\ offline' = FALSE
        /\ RegisterVendorRoutes(asked)
        /\ routed' = (routed \/ (asked' /\ ~added))
        /\ UNCHANGED <<stub, tls, stray>>
        /\ announced' = "hello"
     \/ /\ Bind(model, http, rtsp, Served \cup InUse(rtsp), FALSE)
        /\ UNCHANGED <<running, offline, vendor, announced>>
  /\ UNCHANGED <<timer, reboots, model, servers, owned, taken, outages, botched>>

Stop ==
  /\ running
  /\ running' = FALSE /\ offline' = FALSE /\ timer' = FALSE
  /\ http' = Closed(http) /\ rtsp' = Closed(rtsp)
  /\ servers' = NoServers /\ owned' = {}
  /\ StopPrivate
  /\ announced' = "bye" /\ botched' = FALSE
  /\ UNCHANGED <<reboots, model, taken, outages>>

-----------------------------------------------------------------------------
\* goOffline(): from REST and the window with a Bye, from a random dropout
\* without.
\* Mutant: the length of the outage overflows and the timer never starts.
GoOffline_TimerOverflow(bye) ==
  /\ outages < MaxOutages /\ outages' = outages + 1
  /\ offline' = TRUE /\ timer' = FALSE
  /\ http' = Suspended(http) /\ rtsp' = Suspended(rtsp)
  /\ servers' = [p \in DOMAIN servers |-> Suspended(servers[p])]
  /\ StopPrivate
  /\ announced' = IF bye THEN "bye" ELSE announced
  /\ UNCHANGED <<running, model, owned, taken, botched>>
GoOffline(bye) ==
  /\ outages < MaxOutages /\ outages' = outages + 1
  /\ offline' = TRUE /\ timer' = TRUE
  /\ http' = Suspended(http) /\ rtsp' = Suspended(rtsp)
  /\ servers' = [p \in DOMAIN servers |-> Suspended(servers[p])]
  /\ StopPrivate
  /\ announced' = IF bye THEN "bye" ELSE announced
  /\ UNCHANGED <<running, model, owned, taken, botched>>

Outage(bye) == running /\ GoOffline(bye) /\ UNCHANGED reboots

\* SystemReboot answers first and goes offline half a second later, whatever
\* has become of the camera by then.
SystemReboot ==
  /\ http.open
  /\ reboots + outages < MaxOutages
  /\ reboots' = reboots + 1
  /\ UNCHANGED <<running, offline, timer, model, http, rtsp, servers, owned,
                 taken, outages, vendor, announced, botched>>
RebootFires ==
  /\ reboots > 0
  /\ reboots' = reboots - 1
  /\ \/ running /\ GoOffline(TRUE)
     \/ ~running /\ UNCHANGED <<running, offline, timer, model, http, rtsp, servers,
                                owned, taken, outages, vendor, announced, botched>>

\* offlineTimer: every suspended listener tries its old port again, HTTP, then
\* RTSP, then the subscriptions.  Unless all of them are back the camera stays
\* offline, and nothing tries again.
Resumed(l, own) ==
  IF ~l.suspended THEN l ELSE IF Free(l.port, own) THEN Open(l.port) ELSE Closed(l)
\* Mutant: only the error of the RTSP listener counts.
OutageEnds_LastErrorOnly ==
  LET h == Resumed(http, InUse(rtsp) \cup Served)
      r == Resumed(rtsp, InUse(h) \cup Served)
      s == [p \in DOMAIN servers |-> Resumed(servers[p], InUse(h) \cup InUse(r))]
      back == ~r.suspended
  IN
  /\ timer /\ timer' = FALSE
  /\ http' = h /\ rtsp' = r /\ servers' = s
  /\ offline' = ~back
  /\ IF back /\ stub = "vigi" THEN StartPrivate(tls) ELSE UNCHANGED private
  /\ UNCHANGED <<stub, asked, added, routed, tls, stray>>
  /\ announced' = IF back THEN "hello" ELSE announced
  /\ UNCHANGED <<running, reboots, model, owned, taken, outages, botched>>
OutageEnds ==
  LET h == Resumed(http, InUse(rtsp) \cup Served)
      r == Resumed(rtsp, InUse(h) \cup Served)
      s == [p \in DOMAIN servers |-> Resumed(servers[p], InUse(h) \cup InUse(r))]
      back == ~h.suspended /\ ~r.suspended /\ \A p \in DOMAIN s : ~s[p].suspended
  IN
  /\ timer /\ timer' = FALSE
  /\ http' = h /\ rtsp' = r /\ servers' = s
  /\ offline' = ~back
  /\ IF back /\ stub = "vigi" THEN StartPrivate(tls) ELSE UNCHANGED private
  /\ UNCHANGED <<stub, asked, added, routed, tls, stray>>
  /\ announced' = IF back THEN "hello" ELSE announced
  /\ UNCHANGED <<running, reboots, model, owned, taken, outages, botched>>

-----------------------------------------------------------------------------
\* restartListeners(): everything is closed, then bound again; when that fails
\* the camera counts as stopped, but neither the subscriptions nor the timer
\* nor the announcements are touched.
RestartListeners(m) ==
  \/ /\ Bind(m, Closed(http), Closed(rtsp), Served, TRUE)
     /\ UNCHANGED running
     /\ botched' = (botched \/ offline)
  \/ /\ Bind(m, Closed(http), Closed(rtsp), Served, FALSE)
     /\ running' = FALSE
     /\ botched' = TRUE

\* setupServices(): the route table is emptied and laid again, and a running
\* camera asks its stub for the vendor's routes.
SetupServices ==
  /\ IF running THEN RegisterVendorRoutes(FALSE) ELSE asked' = FALSE /\ UNCHANGED <<added, private>>
  /\ routed' = (asked' /\ ~added)
  /\ stray' = (stray \/ (private' # 0 /\ offline))
  /\ UNCHANGED <<stub, tls>>

\* setModel()/applyModelChanges(): a running camera rebinds when a port changed, or
\* when it moved to another address of the machine; who holds a port holds it there too.
ApplyModelChanges(m, moved) ==
  /\ model' = m
  /\ SetupServices
  /\ IF running /\ (moved \/ http.port # m.http \/ rtsp.port # m.rtsp)
     THEN RestartListeners(m)
     ELSE UNCHANGED <<running, http, rtsp, botched>>
  /\ UNCHANGED <<offline, timer, reboots, servers, owned, taken, outages, announced>>

\* openSubscriptionPort(), called by the creation of a subscription that was
\* allotted port p: an open port is shared, a port that cannot be had makes
\* the subscription fall back to the main one.
Subscribe(p) ==
  /\ http.open
  /\ \/ p \in InUse(http) /\ UNCHANGED <<servers, owned>>
     \/ p \in DOMAIN servers \ InUse(http) /\ owned' = owned \cup {p} /\ UNCHANGED servers
     \/ /\ p \notin DOMAIN servers \cup InUse(http) /\ Free(p, InUse(rtsp))
        /\ servers' = [q \in DOMAIN servers \cup {p} |-> IF q = p THEN Open(p) ELSE servers[q]]
        /\ owned' = owned \cup {p}
     \/ /\ p \notin DOMAIN servers \cup InUse(http) /\ ~Free(p, InUse(rtsp))
        /\ UNCHANGED <<servers, owned>>
  /\ UNCHANGED <<running, offline, timer, reboots, model, http, rtsp, taken,
                 outages, vendor, announced, botched>>

\* The last subscription on a port ends, on request or by the reaper; the
\* listener stays.
SubscriptionEnds(p) ==
  /\ p \in owned
  /\ owned' = owned \ {p}
  /\ UNCHANGED <<running, offline, timer, reboots, model, http, rtsp, servers,
                 taken, outages, vendor, announced, botched>>

\* setQuirks(), where F2 may go on or off: quirksChanged reaches the VIGI stub
\* once it has registered, whether the camera is up or not.
SetQuirks(on) ==
  /\ stub = "vigi" /\ tls' = on
  /\ IF added
     THEN StartPrivate(on) /\ stray' = (stray \/ (private' # 0 /\ (~running \/ offline)))
     ELSE UNCHANGED <<private, stray>>
  /\ UNCHANGED <<stub, asked, added, routed>>
  /\ UNCHANGED <<running, offline, timer, reboots, model, http, rtsp, servers,
                 owned, taken, outages, announced, botched>>

\* Another process takes a port or gives it back.
OthersTake(p) ==
  /\ p \in Contested \ (taken \cup InUse(http) \cup InUse(rtsp) \cup Served \cup {private})
  /\ taken' = taken \cup {p}
  /\ UNCHANGED <<running, offline, timer, reboots, model, http, rtsp, servers,
                 owned, outages, vendor, announced, botched>>
OthersRelease(p) ==
  /\ p \in taken
  /\ taken' = taken \ {p}
  /\ UNCHANGED <<running, offline, timer, reboots, model, http, rtsp, servers,
                 owned, outages, vendor, announced, botched>>

Models == [http : HttpPorts, rtsp : RtspPorts]

Init ==
  /\ running = FALSE /\ offline = FALSE /\ timer = FALSE
  /\ reboots = 0 /\ outages = 0
  /\ model \in {m \in Models : m.http # m.rtsp}
  /\ http = [open |-> FALSE, port |-> 0, suspended |-> FALSE]
  /\ rtsp = [open |-> FALSE, port |-> 0, suspended |-> FALSE]
  /\ servers = NoServers
  /\ owned = {}
  /\ taken = {}
  /\ stub \in Stubs /\ tls = FALSE
  /\ asked = FALSE /\ added = FALSE /\ routed = FALSE
  /\ private = 0 /\ stray = FALSE
  /\ announced = "nothing" /\ botched = FALSE

Next ==
  \/ Start
  \/ Stop
  \/ \E bye \in BOOLEAN : Outage(bye)
  \/ SystemReboot
  \/ RebootFires
  \/ OutageEnds
  \/ \E m \in Models, moved \in BOOLEAN : ApplyModelChanges(m, moved)
  \/ \E p \in SubPorts : Subscribe(p)
  \/ \E p \in SubPorts : SubscriptionEnds(p)
  \/ \E on \in BOOLEAN : SetQuirks(on)
  \/ \E p \in Contested : OthersTake(p)
  \/ \E p \in Contested : OthersRelease(p)

Spec == Init /\ [][Next]_vars

-----------------------------------------------------------------------------
Listener == [open : BOOLEAN, port : Ports \cup {0}, suspended : BOOLEAN]

TypeOK ==
  /\ running \in BOOLEAN /\ offline \in BOOLEAN /\ timer \in BOOLEAN
  /\ reboots \in 0 .. MaxOutages /\ outages \in 0 .. MaxOutages
  /\ model \in Models
  /\ http \in Listener /\ rtsp \in Listener
  /\ DOMAIN servers \subseteq SubPorts
  /\ \A p \in DOMAIN servers : servers[p] \in Listener /\ servers[p].port = p
  /\ owned \subseteq SubPorts /\ taken \subseteq Contested
  /\ stub \in Stubs /\ asked \in BOOLEAN /\ added \in BOOLEAN /\ routed \in BOOLEAN
  /\ private \in PrivatePorts \cup {0} /\ tls \in BOOLEAN /\ stray \in BOOLEAN
  /\ announced \in {"nothing", "hello", "bye"} /\ botched \in BOOLEAN

\* A camera that is up serves both protocols on the ports its model names:
\* what start(), the rollback in it, resume and restartListeners are for.
UpMeansListening ==
  running /\ ~offline =>
    /\ http.open /\ rtsp.open
    /\ http.port = model.http /\ rtsp.port = model.rtsp

\* A live subscription with a port of its own can be reached there while the
\* camera is up: pulls go to that port only (openSubscriptionPort, resume).
OwnPortsServed == running /\ ~offline => botched \/ owned \subseteq Served

\* A stopped camera leaves nothing behind, however it was started, lost its
\* ports or went offline before: no open port, no timer that could open one.
StoppedIsClosed ==
  ~running => botched \/ (~http.open /\ ~rtsp.open /\ Served = {} /\ ~timer)

\* Until the timer of an outage has fired the camera counts as offline and all
\* its ports are closed.
OutageIsSilent ==
  timer => botched \/ (running /\ offline /\ ~http.open /\ ~rtsp.open /\ Served = {})

\* The private port serves only with the camera, unless a quirk or a model
\* change opened it behind the camera's back (VigiStub.cpp:163), and routes are
\* in the table only of a camera that asked for them since it was last laid.
PrivateFollows ==
  /\ private # 0 => botched \/ stray \/ (running /\ ~offline)
  /\ routed => asked /\ added
  /\ running /\ stub # "none" => asked /\ added

\* Clients were last told what is so: a Hello when the camera is up, a Bye when
\* it was stopped.
AnnouncementsTrue ==
  \/ botched
  \/ /\ running /\ ~offline => announced = "hello"
     /\ ~running => announced # "hello"

\* Listeners, flags, model and announcements agree through every start, stop,
\* rebinding and outage: up means that all ports serve and clients were told so,
\* stopped that none does.
ListenersFollow ==
  /\ TypeOK /\ UpMeansListening /\ OwnPortsServed /\ StoppedIsClosed /\ OutageIsSilent
  /\ PrivateFollows /\ AnnouncementsTrue

\* Where nobody else takes its ports and no rebinding interferes, a camera that
\* went offline comes back or is stopped.
ComesBack == [](taken = {} /\ ~botched) => (offline ~> ~offline)

\* What the comment in setupServices() says: the vendor's routes went with the
\* route table, and a camera that runs gets them back at once.
VendorRoutesBack == running /\ stub # "none" => routed

\* What the comment on restartListeners() says: when rebinding fails the camera
\* is stopped rather than left half bound, so no port of it is open.
FailureStops == ~running => ~http.open /\ ~rtsp.open /\ Served = {}
=============================================================================
