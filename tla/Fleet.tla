------------------------------- MODULE Fleet -------------------------------
(***************************************************************************)
(* The cameras of a simulator in port mode: how Simulator and the REST     *)
(* interface add, change and remove them, how ports and ids are found,     *)
(* which quirks a camera starts with and gets, what a scenario file keeps  *)
(* of it.  Whether a camera listens is CameraLifecycle's; a port typed into *)
(* a PATCH or the window is not here.                                      *)
(***************************************************************************)
EXTENDS Integers, Sequences, FiniteSets, SequencesExt

CONSTANTS
  HttpBase, RtspBase, \* httpBasePort and rtspBasePort
  Foreign,      \* ports other processes hold
  MaxCameras,   \* bound: cameras at a time
  MaxIndex,     \* bound: where the search for a port ends
  Presets,      \* brand presets: name to the quirks they switch on
  QuirkKeys,
  Tuned,        \* quirks with parameters
  Wishes,       \* quirk tables a client sends for a camera
  GlobalWishes, \* quirk tables a client sends for all
  Written       \* cameras of a scenario written by hand

VARIABLES
  cameras,    \* d->cameras, in order
  nextIndex,
  global      \* globalQuirks

fleetVars == <<cameras, nextIndex, global>>

-----------------------------------------------------------------------------
(* Quirk tables.  "unset" is a quirk the table does not mention; one with  *)
(* parameters is written to a file even when it is off.                    *)

States == {"unset", "on", "off"}
Tables == [QuirkKeys -> [state : States, params : BOOLEAN]]
Unset == [state |-> "unset", params |-> FALSE]
NoQuirks == [q \in QuirkKeys |-> Unset]

OnIn(table) == {q \in QuirkKeys : table[q].state = "on"}

(* merge(): what the other table does not mention stays. *)
Merged(table, other) ==
  [q \in QuirkKeys |->
     IF other[q].state = "unset" THEN table[q]
     ELSE [state |-> other[q].state, params |-> table[q].params \/ other[q].params]]

(* setEnabled(), with the parameters of the definition if it has any. *)
Switched(table, keys, withParams) ==
  [q \in QuirkKeys |->
     IF q \in keys
     THEN [state |-> "on", params |-> table[q].params \/ (withParams /\ q \in Tuned)]
     ELSE table[q]]

(* toJson() and fromJson(): "off" without parameters is not written. *)
FromFile(table) ==
  [q \in QuirkKeys |->
     IF table[q].state = "on" \/ table[q].params THEN table[q] ELSE Unset]

-----------------------------------------------------------------------------
CameraRecords == [id : Int, preset : DOMAIN Presets, http : Int, rtsp : Int, quirks : Tables]

(* A scenario written by hand may give an id twice, but no port, and none  *)
(* that another process holds: nothing in applyScenario() looks at ports.  *)
ASSUME FleetAssumption ==
  /\ HttpBase \in Int /\ RtspBase \in Int
  /\ MaxCameras \in Nat /\ MaxIndex \in Nat
  /\ \A p \in DOMAIN Presets : Presets[p] \subseteq QuirkKeys
  /\ Wishes \subseteq Tables /\ GlobalWishes \subseteq Tables
  /\ Written \in Seq(CameraRecords) /\ Len(Written) <= MaxCameras
  /\ \A i, j \in DOMAIN Written : i # j =>
       {Written[i].http, Written[i].rtsp} \cap {Written[j].http, Written[j].rtsp} = {}
  /\ \A i \in DOMAIN Written : {Written[i].http, Written[i].rtsp} \cap Foreign = {}

-----------------------------------------------------------------------------
(* Adding.                                                                 *)

IdsIn(cams) == {c.id : c \in Range(cams)}
Ports(c) == {c.http, c.rtsp}
HeldBy(cams) == UNION {Ports(c) : c \in Range(cams)}

Least(S) == CHOOSE n \in S : \A m \in S : n <= m

(* nextCameraId(). *)
NextId(cams) == Least((Len(cams) + 1 .. 2 * Len(cams) + 1) \ IdsIn(cams))

(* The lambda of addCamera(): either port in either role, held by a camera *)
(* of this process or by another process.                                  *)
(* Mutant: each port is compared with ports of its own kind only. *)
Taken_SameKind(cams, index) ==
  \/ \E c \in Range(cams) : c.http = HttpBase + index \/ c.rtsp = RtspBase + index
  \/ {HttpBase + index, RtspBase + index} \cap Foreign # {}

Taken(cams, index) ==
  {HttpBase + index, RtspBase + index} \cap (HeldBy(cams) \cup Foreign) # {}

FreeIndices == {i \in nextIndex..MaxIndex : ~Taken(cameras, i)}

(* A new VirtualCamera has the quirks of its preset, the global ones on    *)
(* top; what its client or the file says of them is merged over both.      *)
Defaults(preset, globally) ==
  Switched(Switched(NoQuirks, Presets[preset], FALSE), OnIn(globally), TRUE)
Born(c, globally) ==
  [c EXCEPT !.quirks = Merged(Defaults(c.preset, globally), c.quirks)]

(* POST /api/cameras. *)
AddCamera ==
  \E preset \in DOMAIN Presets, wish \in Wishes \cup {NoQuirks} :
    /\ Len(cameras) < MaxCameras
    /\ FreeIndices # {}
    /\ LET index == Least(FreeIndices)
           new == [id |-> NextId(cameras), preset |-> preset,
                   http |-> HttpBase + index, rtsp |-> RtspBase + index, quirks |-> wish]
       IN  /\ cameras' = Append(cameras, Born(new, global))
           /\ nextIndex' = index + 1
    /\ UNCHANGED global

RemoveCamera ==
  \E i \in DOMAIN cameras :
    /\ cameras' = RemoveAt(cameras, i)
    /\ UNCHANGED <<nextIndex, global>>

-----------------------------------------------------------------------------
(* Quirks and presets.                                                     *)

(* PATCH /api/cameras/{id}. *)
PatchQuirks ==
  \E i \in DOMAIN cameras, wish \in Wishes :
    /\ cameras' = [cameras EXCEPT ![i].quirks = Merged(@, wish)]
    /\ UNCHANGED <<nextIndex, global>>

(* setPersona() leaves the quirks alone. *)
PatchPreset ==
  \E i \in DOMAIN cameras, preset \in DOMAIN Presets :
    /\ cameras' = [cameras EXCEPT ![i].preset = preset]
    /\ UNCHANGED <<nextIndex, global>>

SetGlobalQuirks ==
  \E wish \in GlobalWishes :
    /\ global' = wish
    /\ UNCHANGED <<cameras, nextIndex>>

(* Merged, not replaced: what a preset or a client set stays. *)
ApplyGlobalQuirksToAll ==
  /\ cameras' = [i \in DOMAIN cameras |->
                   [cameras[i] EXCEPT !.quirks = Merged(@, global)]]
  /\ UNCHANGED <<nextIndex, global>>

-----------------------------------------------------------------------------
(* Scenarios.                                                              *)

(* saveScenario(), GET /api/scenario. *)
Exported ==
  [global |-> FromFile(global),
   cameras |-> [i \in DOMAIN cameras |->
                  [cameras[i] EXCEPT !.quirks = FromFile(@)]]]

HandWritten == [global |-> NoQuirks, cameras |-> Written]

(* applyScenario() from its loop on: an id that is there already is        *)
(* skipped; the file's quirks are merged on top of those of the preset,    *)
(* "or a scenario that adjusts one would wipe out the others".             *)
Brought(cams, c, globally) ==
  IF c.id \in IdsIn(cams) THEN cams ELSE Append(cams, Born(c, globally))
Loaded(scenario) ==
  LET upTo[n \in 0 .. Len(scenario.cameras)] ==
        IF n = 0 THEN <<>> ELSE Brought(upTo[n - 1], scenario.cameras[n], scenario.global)
  IN  upTo[Len(scenario.cameras)]

(* Everything is stopped and removed first, and the count starts again;    *)
(* the simulator is started again if it ran.                               *)
LoadScenario ==
  \E scenario \in {Exported, HandWritten} :
    /\ cameras' = Loaded(scenario)
    /\ nextIndex' = 0
    /\ global' = scenario.global

-----------------------------------------------------------------------------
FleetInit ==
  /\ cameras = <<>> /\ nextIndex = 0 /\ global = NoQuirks

FleetNext ==
  \/ AddCamera \/ RemoveCamera
  \/ PatchQuirks \/ PatchPreset \/ SetGlobalQuirks \/ ApplyGlobalQuirksToAll
  \/ LoadScenario

FleetSpec == FleetInit /\ [][FleetNext]_fleetVars

-----------------------------------------------------------------------------
(* Properties.                                                             *)

(* IdsIn find one camera each, and no two cameras are given a port in        *)
(* common, in whatever roles, though a load makes the count start again    *)
(* below the ports of what it loaded.                                      *)
Separate ==
  /\ \A i, j \in DOMAIN cameras : i # j =>
       /\ cameras[i].id # cameras[j].id
       /\ Ports(cameras[i]) \cap Ports(cameras[j]) = {}
  /\ HeldBy(cameras) \cap Foreign = {}

(* An exported scenario, loaded, gives the same cameras at the same ports  *)
(* in the same order, and no quirk that was on is lost.  It does not say   *)
(* that nothing comes on besides: a default of the preset or of the        *)
(* globals may, and see ExportExact.                                       *)
ExportKeeps ==
  LET again == Loaded(Exported)
  IN  /\ Len(again) = Len(cameras)
      /\ \A i \in DOMAIN cameras :
           LET c == cameras[i]
               on == OnIn(again[i].quirks)
           IN  /\ again[i].id = c.id /\ again[i].preset = c.preset
               /\ again[i].http = c.http /\ again[i].rtsp = c.rtsp
               /\ OnIn(c.quirks) \subseteq on
               /\ on \subseteq OnIn(c.quirks) \cup Presets[c.preset] \cup OnIn(global)

(* What a saved scenario says of a camera, read back, is the same camera:  *)
(* exactly the quirks that were on are on (tst_model.cpp:3, scenarios.md,  *)
(* "export it, and use it next time").  The code loses a client's "off".   *)
ExportExact ==
  LET again == Loaded(Exported)
  IN  /\ Len(again) = Len(cameras)
      /\ \A i \in DOMAIN cameras :
           OnIn(again[i].quirks) = OnIn(cameras[i].quirks)

(* What holds of the fleet in every state. *)
FleetConsistent ==
  /\ Len(cameras) <= MaxCameras /\ nextIndex <= MaxIndex + 1
  /\ \A q \in QuirkKeys : global[q].state \in States
  /\ Separate /\ ExportKeeps
=============================================================================
