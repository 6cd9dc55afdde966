----------------------------- MODULE MCServices -----------------------------
(***************************************************************************)
(* TLC instance of what a camera's services and the simulator around it    *)
(* keep: the subscriptions of the event service, the focus with the        *)
(* picture settings, the media profiles, the users and scopes, the gate in *)
(* front of them all, and the fleet of cameras.  They share no state here, *)
(* so a behaviour works on one of them and leaves the others as they were. *)
(***************************************************************************)
EXTENDS MCSubscriptions, ImagingState, MediaConfig, DeviceAdmin, SoapDispatch, MCFleet

CONSTANT PulledIds   \* bound: subscriptions in a behaviour with pulls

VARIABLE worked   \* which of them this behaviour works on

MCLevels == {-1, 0, 3}
MCFocusSpeeds == {-1, 2}

Size(w, h) == [w |-> w, h |-> h]
MCFactorySizes == <<Size(1920, 1080), Size(640, 360)>>
MCSizes == {Size(1280, 720)}

MCFirstUsers == <<[name |-> "admin", level |-> "Administrator"],
                  [name |-> "viewer", level |-> "User"]>>
MCAccounts == [admin |-> 3, viewer |-> 1]
MCDrifts == {0, 3}

servicesVars == <<vars, imagingVars, mediaVars, adminVars, gateVars, fleetVars, worked>>

(* The one that is worked on starts in any of its initial states. *)
ServicesInit ==
  /\ worked \in {"pulls", "slots", "picture", "media", "admin", "gate", "fleet"}
  /\ Init /\ IF worked = "slots" THEN ~Mute ELSE "own_port" \notin quirks
           /\ (worked \in {"pulls", "slots"} \/ quirks = {})
  /\ ImagingInit
  /\ MediaInit
  /\ worked = "media" \/ (/\ persona = "generic"
                          /\ \A p \in Range(profiles) : p.hasPtz /\ p.hasAudio /\ p.asset # "own")
  /\ AdminInit
  /\ GateInit /\ (worked = "gate" \/ gateQuirks = {})
  /\ FleetInit

(* Few subscriptions, on one port, with events and pulls; or more of them    *)
(* without either: then the limit on their number may be switched on over    *)
(* too many.  Where there are pulls, the limit and the quirk that empties     *)
(* the answers are not switched on together; under the first there is one     *)
(* event, under the other there are two.  Where there are none, the limit is  *)
(* not switched on with the quirk that gives every subscription a port.       *)
OnSubscriptions(A) ==
  /\ worked \in {"pulls", "slots"} /\ A
  /\ IF worked = "pulls" THEN /\ counter' <= PulledIds /\ "own_port" \notin quirks'
                              /\ "slot_limit" \in quirks' => "always_empty" \notin quirks' /\ produced' <= 1
                              /\ "always_empty" \in quirks' => produced' <= 2
                         ELSE produced' = 0 /\ answers' = answers /\ ~Mute'
                              /\ ~({"slot_limit", "own_port"} \subseteq quirks')
  /\ UNCHANGED <<imagingVars, mediaVars, adminVars, gateVars, fleetVars, worked>>
OnPicture(A) ==
  /\ worked = "picture" /\ A
  /\ UNCHANGED <<vars, mediaVars, adminVars, gateVars, fleetVars, worked>>
OnMedia(A) ==
  /\ worked = "media" /\ A
  /\ UNCHANGED <<vars, imagingVars, adminVars, gateVars, fleetVars, worked>>
OnAdmin(A) ==
  /\ worked = "admin" /\ A
  /\ UNCHANGED <<vars, imagingVars, mediaVars, gateVars, fleetVars, worked>>
(* With the lasting quirks on, the others stay on as well; without them, one  *)
(* of the others is on at a time.                                             *)
OnGate(A) ==
  /\ worked = "gate" /\ A
  /\ gateQuirks' = gateQuirks \/ \E quirk \in QuirkIds : gateQuirks' \subseteq {quirk}
  /\ UNCHANGED <<vars, imagingVars, mediaVars, adminVars, fleetVars, worked>>
OnFleet(A) ==
  /\ worked = "fleet" /\ A
  /\ UNCHANGED <<vars, imagingVars, mediaVars, adminVars, gateVars, worked>>

ServicesNext ==
  \/ OnSubscriptions(Next) \/ OnPicture(ImagingNext) \/ OnMedia(MediaNext)
  \/ OnAdmin(AdminNext) \/ OnGate(GateNext) \/ OnFleet(FleetNext)

ServicesSpec == ServicesInit /\ [][ServicesNext]_servicesVars
=============================================================================
