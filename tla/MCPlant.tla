------------------------------- MODULE MCPlant -------------------------------
(***************************************************************************)
(* TLC instance of a camera's life cycle and event engine, of its vendor   *)
(* API (streams, logins, control) and of what the simulator keeps around   *)
(* its cameras: discovery, the log panel, the address aliases and the      *)
(* window.  They share no state here, so a behaviour works on one of them  *)
(* and leaves the others as they were.                                     *)
(***************************************************************************)
EXTENDS CameraLifecycle, MCEventEngine, VendorStreams, VendorSessions, MCVendorControl,
        Discovery, LogPanel, IpAlias, Desktop

VARIABLE worked   \* which of them this behaviour works on

MCCodeOf == [motion |-> "VMD", people |-> "Human", animal |-> "Human"]
MCFilters == {{}, {"Human"}}

MCBatches ==
  {<<"work">>, <<"login", "work">>, <<"work", "login">>, <<"snap", "login">>,
   <<"bad login", "unknown">>, <<"missing">>, <<"login", "login">>}

MCScopesOf == [c \in Fleet |-> {<<"type">>, <<"name", "x">>}]
MCQuirkSets ==
  {{}, {"no_reply"},
   {"reply_delay", "reply_twice", "differing_xaddrs", "no_xaddrs", "bad_xaddr_first"}}
Probe(types, scopes, rule) ==
  [kind |-> "probe", types |-> types, scopes |-> scopes, rule |-> rule]
MCRequests ==
  {Probe({}, {}, "rfc3986"), Probe({"Other"}, {}, "rfc3986"),
   Probe({}, {<<"name">>}, "strcmp0"), Probe({"Device"}, {<<"name">>}, "rfc3986"),
   [kind |-> "resolve", epr |-> "c1"], [kind |-> "other"]}

MCCameraIds == <<1, 2>>
MCScenarioFiles == {<<1>>, <<2, 1>>}
MCSentTables ==
  {[naming |-> "unset", other |-> "unset"], [naming |-> "on", other |-> "off"],
   [naming |-> "unset", other |-> "on"]}

plantVars == <<vars, engineVars, streamVars, sessionVars, controlVars, discoveryVars,
               logVars, aliasVars, desktopVars, worked>>

(* The one that is worked on starts in any of its initial states. *)
One(name, P, Plain) == P /\ (worked = name \/ Plain)
PlantInit ==
  /\ worked \in {"camera", "engine", "streams", "sessions", "control", "discovery", "log", "alias", "desktop"}
  /\ One("camera", Init, stub = "none" /\ \A m \in Models : m.http # m.rtsp => model.http <= m.http)
  /\ One("engine", EngineInit, persona = "onvif")
  /\ StreamInit
  /\ One("sessions", SessionInit, api = "vigi")
  /\ ControlInit
  /\ DiscoveryInit
  /\ One("log", LogInit, history = <<>> /\ limit = 1)
  /\ One("alias", AliasInit, there = {})
  /\ One("desktop", DesktopInit, tab = "identity")

(* Bounds, beside those in the constants: others hold one port at a time, and  *)
(* a camera without a vendor API has one outage; the storm and the missing     *)
(* pairs are not switched on together; the head is commanded while the filter  *)
(* is automatic.                                                               *)
OnCamera(A) ==
  /\ worked = "camera" /\ A /\ Cardinality(taken') <= 1 /\ (stub = "none" => outages' <= 1)
  /\ UNCHANGED <<engineVars, streamVars, sessionVars, controlVars, discoveryVars,
                 logVars, aliasVars, desktopVars, worked>>
OnEngine(A) ==
  /\ worked = "engine" /\ A /\ ~({"storm", "unpaired"} \subseteq quirks')
  /\ UNCHANGED <<vars, streamVars, sessionVars, controlVars, discoveryVars,
                 logVars, aliasVars, desktopVars, worked>>
OnStreams(A) ==
  /\ worked = "streams" /\ A
  /\ UNCHANGED <<vars, engineVars, sessionVars, controlVars, discoveryVars,
                 logVars, aliasVars, desktopVars, worked>>
OnSessions(A) ==
  /\ worked = "sessions" /\ A
  /\ UNCHANGED <<vars, engineVars, streamVars, controlVars, discoveryVars, logVars,
                 aliasVars, desktopVars, worked>>
OnControl(A) ==
  /\ worked = "control" /\ A /\ (cut' = "AUTO" \/ \A g \in DOMAIN head : head'[g] = Still)
  /\ UNCHANGED <<vars, engineVars, streamVars, sessionVars, discoveryVars, logVars,
                 aliasVars, desktopVars, worked>>
OnDiscovery(A) ==
  /\ worked = "discovery" /\ A
  /\ UNCHANGED <<vars, engineVars, streamVars, sessionVars, controlVars, logVars,
                 aliasVars, desktopVars, worked>>
OnLog(A) ==
  /\ worked = "log" /\ A
  /\ UNCHANGED <<vars, engineVars, streamVars, sessionVars, controlVars,
                 discoveryVars, aliasVars, desktopVars, worked>>
OnAlias(A) ==
  /\ worked = "alias" /\ A
  /\ UNCHANGED <<vars, engineVars, streamVars, sessionVars, controlVars,
                 discoveryVars, logVars, desktopVars, worked>>
OnDesktop(A) ==
  /\ worked = "desktop" /\ A
  /\ UNCHANGED <<vars, engineVars, streamVars, sessionVars, controlVars,
                 discoveryVars, logVars, aliasVars, worked>>

PlantNext ==
  \/ OnCamera(Next) \/ OnEngine(EngineNext) \/ OnStreams(StreamNext)
  \/ OnSessions(SessionNext) \/ OnControl(ControlNext) \/ OnDiscovery(DiscoveryNext)
  \/ OnLog(LogNext) \/ OnAlias(AliasNext) \/ OnDesktop(DesktopNext)

PlantSpec == PlantInit /\ [][PlantNext]_plantVars

\* The outage timer and the pairing timers of a camera fire: the event loop serves
\* every timer that is due.  Outages are not begun again for ever (MaxOutages).
PlantFairSpec ==
  /\ PlantSpec
  /\ WF_plantVars(OnCamera(OutageEnds))
  /\ \A t \in Topics : WF_plantVars(OnEngine(FallBack(t)))
=============================================================================
