----------------------------- MODULE EventEngine ----------------------------
(***************************************************************************)
(* The event engine of one virtual camera (src/src/events/EventEngine.cpp) *)
(* with the calls VirtualCamera and the Events tab make into it: property  *)
(* topics that are raised and fall again after a while, schedules, event   *)
(* storms, and the quirk refreshes that rebuild the topic table under      *)
(* running timers.                                                         *)
(*                                                                         *)
(* A step is one callback of the event loop.  Durations are not modelled:  *)
(* a timer that is running may fire at any moment, so off and armed only   *)
(* say which timers run.  An event goes out by a synchronous signal; told  *)
(* keeps what clients last heard of each topic.                            *)
(***************************************************************************)
EXTENDS Integers, Sequences, FiniteSets, Functions

CONSTANTS
  Kinds,         \* EventKind
  Catalog,       \* TopicCatalog::topicsForStyle: style -> kind -> topic
  Instant,       \* topics that are not properties: one message, no state
  PersonaStyles, \* topicStyle of the personas the camera may be given
  NamingStyle,   \* parameter of the topic naming quirk (D9)
  Toggles,       \* quirks REST may switch
  GlobalQuirks,  \* quirks the simulator hands every camera it adds
  QuirkRate,     \* parameter "per_second" of the storm quirk
  ManualRates,   \* rates the user may start a storm with
  MaxRows,       \* bound: rows of the schedule table
  MaxTriggers    \* bound: events raised in a behaviour, storms not counted

EngineQuirks == {"storm", "unpaired", "naming"}
Styles == DOMAIN Catalog
Topics == UNION {Range(Catalog[st]) : st \in Styles}
Props(st) == Range(Catalog[st]) \ Instant

ASSUME EventEngineAssumption ==
  /\ \A st \in Styles : DOMAIN Catalog[st] = Kinds
  /\ Instant \subseteq Topics
  /\ PersonaStyles \subseteq Styles /\ NamingStyle \in Styles
  /\ Toggles \subseteq EngineQuirks /\ GlobalQuirks \subseteq EngineQuirks
  /\ QuirkRate \in Nat \ {0}
  /\ ManualRates \subseteq Nat \ {0}
  /\ MaxRows \in Nat /\ MaxTriggers \in Nat

Rows == [kind : Kinds, enabled : BOOLEAN]   \* EventSchedule
Tables == UNION {[1 .. n -> Rows] : n \in 0 .. MaxRows}

VARIABLES
  persona,    \* topicStyle of the camera's persona
  quirks,     \* quirks that are on
  started,    \* the camera is started
  style,      \* Private::style; Private::topics is Catalog[style]
  state,      \* Private::propertyStates
  off,        \* topics with a timer in Private::offTimers
  schedules,  \* Private::schedules
  armed,      \* kinds with a timer in Private::scheduleTimers
  rate,       \* Private::stormPerSecond; the storm timer runs iff it is not 0
  fromQuirk,  \* Private::stormFromQuirk
  triggers,   \* events raised so far
  told,       \* history: the value last sent to clients for each topic
  astray,     \* history: topics whose last message no state change backs
  unpaired,   \* history: topics raised while no pairing false was planned
  manual      \* history: the storm that runs was started by the user

storm == <<rate, fromQuirk, manual>>
topics == <<style, state, off, told, astray, unpaired>>
camera == <<persona, quirks, started>>
engineVars == <<camera, topics, schedules, armed, storm, triggers>>

-----------------------------------------------------------------------------
StyleOf(qs, p) == IF "naming" \in qs THEN NamingStyle ELSE p

Updated(f, x, v) == [y \in DOMAIN f \cup {x} |-> IF y = x THEN v ELSE f[y]]
With(S, x, b) == IF b THEN S \cup {x} ELSE S \ {x}

StopStorm == rate' = 0 /\ manual' = FALSE
StartStorm(n, byUser) == rate' = n /\ manual' = byUser

\* syncStormWithQuirk(): with the quirk on the storm is (re)started at its
\* rate; with it off only a storm the quirk started is stopped.
SyncStorm(qs) ==
  \/ "storm" \in qs /\ StartStorm(QuirkRate, FALSE) /\ fromQuirk' = TRUE
  \/ "storm" \notin qs /\ fromQuirk /\ StopStorm /\ fromQuirk' = FALSE
  \/ "storm" \notin qs /\ ~fromQuirk /\ UNCHANGED storm

\* reloadTopics(): topics both catalogs have keep their state; a topic that
\* leaves takes its pairing timer with it, so clients never hear it fall.
Leaving(st) == DOMAIN state \ Props(st)
\* Mutant: the pairing timers of the topics that leave keep running.
ReloadTopics_TimersKept(qs, p) ==
  LET st == StyleOf(qs, p) IN
  /\ style' = st
  /\ state' = [t \in Props(st) |-> t \in DOMAIN state /\ state[t]]
  /\ off' = off
  /\ unpaired' = unpaired \ Leaving(st)
  /\ astray' = astray \cup {t \in Leaving(st) : state[t]}
  /\ UNCHANGED told
  /\ SyncStorm(qs)
ReloadTopics(qs, p) ==
  LET st == StyleOf(qs, p) IN
  /\ style' = st
  /\ state' = [t \in Props(st) |-> t \in DOMAIN state /\ state[t]]
  /\ off' = off \ Leaving(st)
  /\ unpaired' = unpaired \ Leaving(st)
  /\ astray' = astray \cup {t \in Leaving(st) : state[t]}
  /\ UNCHANGED told
  /\ SyncStorm(qs)

\* What trigger() does with a property topic: the running pairing timer is
\* dropped, and a new one started after a true unless D11 forbids it.
SetProperty(t, value) ==
  LET paired == value /\ "unpaired" \notin quirks IN
  /\ state' = Updated(state, t, value)
  /\ off' = With(off, t, paired)
  /\ unpaired' = With(unpaired, t, value /\ ~paired)
  /\ told' = [told EXCEPT ![t] = value]
  /\ astray' = astray \ {t}
  /\ UNCHANGED style

\* A message about t that changes no state.
SendOnly(t, value, backed) ==
  /\ told' = [told EXCEPT ![t] = value]
  /\ astray' = With(astray, t, value /\ ~backed)
  /\ UNCHANGED <<style, state, off, unpaired>>

Raise(t, value) ==
  /\ triggers < MaxTriggers
  /\ triggers' = triggers + 1
  /\ IF t \in Props(style) THEN SetProperty(t, value) ELSE SendOnly(t, value, FALSE)

-----------------------------------------------------------------------------
\* A camera as addCamera() leaves it: the engine was built on the quirks of
\* the persona, the global ones were written over them afterwards.
EngineInit ==
  /\ persona \in PersonaStyles
  /\ quirks = GlobalQuirks
  /\ started = FALSE
  /\ style = persona
  /\ state = [t \in Props(style) |-> FALSE]
  /\ off = {} /\ schedules = <<>> /\ armed = {}
  /\ rate = 0 /\ fromQuirk = FALSE /\ manual = FALSE
  /\ triggers = 0
  /\ told = [t \in Topics |-> FALSE] /\ astray = {} /\ unpaired = {}

\* A button, POST /events, a vendor relay route: by kind always a true, by
\* topic either value, and the topic need not be one of the catalog's.
Trigger ==
  /\ \/ \E k \in Kinds : Raise(Catalog[style][k], TRUE)
     \/ \E t \in Topics, value \in BOOLEAN : Raise(t, value)
  /\ UNCHANGED <<camera, schedules, armed, storm>>

\* The pairing timer of a topic.
\* Mutant: the message goes out but the state stays.
FallBack_StateKept(t) ==
  /\ t \in off
  /\ off' = off \ {t}
  /\ told' = [told EXCEPT ![t] = FALSE]
  /\ astray' = astray \ {t}
  /\ UNCHANGED <<camera, style, state, unpaired, schedules, armed, storm, triggers>>
FallBack(t) ==
  /\ t \in off
  /\ off' = off \ {t}
  /\ state' = Updated(state, t, FALSE)
  /\ told' = [told EXCEPT ![t] = FALSE]
  /\ astray' = astray \ {t}
  /\ UNCHANGED <<camera, style, unpaired, schedules, armed, storm, triggers>>

\* setSchedules(): every timer is dropped, then rearm() for each row in turn.
\* rearm() clears the timer of the row's kind first, so the last row counts.
LastRow(rows, k) == {i \in DOMAIN rows : rows[i].kind = k
                       /\ \A j \in DOMAIN rows : rows[j].kind = k => j <= i}
Rearmed(rows) == {k \in Kinds : \E i \in LastRow(rows, k) : rows[i].enabled}
SetSchedules(rows) ==
  /\ schedules' = rows
  /\ armed' = Rearmed(rows)
  /\ UNCHANGED <<camera, topics, storm, triggers>>

\* A schedule's timer: the first enabled row of its kind is raised and rearmed.
ScheduleFires(k) ==
  /\ k \in armed
  /\ IF \E i \in DOMAIN schedules : schedules[i] = [kind |-> k, enabled |-> TRUE]
     THEN Raise(Catalog[style][k], TRUE) /\ UNCHANGED armed
     ELSE armed' = armed \ {k} /\ UNCHANGED <<topics, triggers>>
  /\ UNCHANGED <<camera, schedules, storm>>

\* The storm button of the Events tab starts and stops.
PressStorm ==
  /\ \/ rate = 0 /\ \E n \in ManualRates : StartStorm(n, TRUE)
     \/ rate > 0 /\ StopStorm
  /\ UNCHANGED <<camera, topics, schedules, armed, fromQuirk, triggers>>

\* One event of a tick: a true for a topic of the catalog, whatever its state.
StormTick ==
  /\ rate > 0
  /\ \E t \in Range(Catalog[style]) : SendOnly(t, TRUE, t \in DOMAIN state /\ state[t])
  /\ UNCHANGED <<camera, schedules, armed, storm, triggers>>

\* setQuirks(): the table is rebuilt and the storm synchronised (twice, which
\* changes nothing more).
QuirksChange ==
  /\ \E on \in SUBSET Toggles :
       /\ quirks' = (quirks \ Toggles) \cup on
       /\ ReloadTopics(quirks', persona)
  /\ UNCHANGED <<persona, started, schedules, armed, triggers>>

\* applyModelChanges(), where another persona may bring another style.
PersonaChanges ==
  /\ persona' \in PersonaStyles
  /\ ReloadTopics(quirks, persona')
  /\ UNCHANGED <<quirks, started, schedules, armed, triggers>>

CameraStarts ==
  /\ ~started
  /\ started' = TRUE
  /\ SyncStorm(quirks)
  /\ UNCHANGED <<persona, quirks, topics, schedules, armed, triggers>>

CameraStops ==
  /\ started
  /\ started' = FALSE
  /\ StopStorm
  /\ UNCHANGED <<persona, quirks, topics, schedules, armed, fromQuirk, triggers>>

EngineNext ==
  \/ Trigger
  \/ \E t \in Topics : FallBack(t)
  \/ \E rows \in Tables : SetSchedules(rows)
  \/ \E k \in Kinds : ScheduleFires(k)
  \/ PressStorm
  \/ StormTick
  \/ QuirksChange
  \/ PersonaChanges
  \/ CameraStarts
  \/ CameraStops

EngineSpec == EngineInit /\ [][EngineNext]_engineVars

-----------------------------------------------------------------------------
EngineTypeOK ==
  /\ persona \in PersonaStyles /\ style \in Styles
  /\ quirks \subseteq EngineQuirks /\ started \in BOOLEAN
  /\ state \in [Props(style) -> BOOLEAN]
  /\ off \subseteq Topics \ Instant /\ unpaired \subseteq Topics \ Instant
  /\ schedules \in Tables /\ armed \subseteq Kinds
  /\ rate \in Nat /\ fromQuirk \in BOOLEAN /\ manual \in BOOLEAN
  /\ triggers \in 0 .. MaxTriggers
  /\ told \in [Topics -> BOOLEAN] /\ astray \subseteq Topics

\* Every pairing timer belongs to a topic the catalog has now and that is true:
\* no client hears a second false, or one about a topic of an older naming
\* style (scheduleOff, cancelOff, reloadTopics).
TimersMatchStates == \A t \in off : t \in DOMAIN state /\ state[t]

\* A true property is going to fall, unless it was raised while D11 kept the
\* pairing false away: events come in pairs (EventEngine.h).
RaisedWillFall == \A t \in DOMAIN state : state[t] => t \in off \cup unpaired

\* The snapshot SetSynchronizationPoint sends does not contradict what clients
\* heard last, except about topics a storm, a message outside the catalog or a
\* change of naming style led them astray on.
SnapshotAgrees == \A t \in DOMAIN state \ astray : told[t] = state[t]

\* Only kinds with an enabled row are on a timer (setSchedules, rearm).
TimersHaveRows ==
  \A k \in armed : [kind |-> k, enabled |-> TRUE] \in Range(schedules)

\* The topics are those of the naming style in force (EventEngine.h), which the
\* naming quirk decides over the persona, however the two have changed; the topics
\* advertised and the topics sent are the same table.  With GlobalQuirks it fails
\* until the first refresh, because addCamera() writes them behind setQuirks().
CatalogInForce == style = StyleOf(quirks, persona)

\* A storm nobody started by hand goes on only while its quirk is on, and so
\* does the flag that lets a refresh stop a storm, whatever the camera's starts
\* and stops and the user's button did in between (syncStormWithQuirk).
StormEndsWithQuirk == fromQuirk \/ (rate > 0 /\ ~manual) => "storm" \in quirks

\* The topic table, its states, both kinds of timers and what clients were told
\* agree, and are those of the style in force, and a storm runs only for who wants
\* it, however triggers, storms, schedules and rebuilds of the table meet.
TableConsistent ==
  /\ EngineTypeOK /\ TimersMatchStates /\ RaisedWillFall /\ SnapshotAgrees
  /\ TimersHaveRows /\ CatalogInForce /\ StormEndsWithQuirk

\* A true property falls in the end, once nobody raises it any more, unless
\* D11 was on when it was raised.
PropertiesFall ==
  \A t \in Topics :
    (t \in DOMAIN state /\ state[t] /\ t \notin unpaired)
      ~> (t \notin DOMAIN state \/ ~state[t] \/ t \in unpaired)

\* What EventEngine.h and syncStormWithQuirk() promise: a refresh of the quirks
\* does not stop a storm the user started by hand.
ManualStormKept ==
  [][manual /\ quirks' # quirks /\ "storm" \notin quirks' => rate' = rate]_engineVars
=============================================================================
