---------------------------- MODULE VendorControl ----------------------------
(***************************************************************************)
(* What the vendor APIs do to the camera: one lamp, one list of presets    *)
(* and one pan/tilt/zoom head, commanded in five dialects                  *)
(* (src/src/vendor: reolink, tplink, vigi, dahua, hikvision).  Requests    *)
(* that reach a handler here have passed its login.                        *)
(*                                                                         *)
(* A number of a request is Absent, Bad (it cannot be read), or a value.   *)
(* toInt() without a look at its flag makes 0 of a Bad one.  What the head *)
(* does with a command is the module PtzState; here it is what it was told.*)
(***************************************************************************)
EXTENDS Integers, Sequences, Functions

CONSTANTS
  Absent, Bad,
  Numbers,    \* values of switches and brightness in requests
  Steps,      \* speed steps in requests
  Full,       \* fastest speed step
  Top,        \* brightest
  Ids,        \* preset numbers
  Named,      \* preset tokens that are not numbers (ISAPI and ONVIF)
  MaxPresets, \* ptzNode.maxPresets
  FirstLamps  \* whiteLightOn and whiteLightBrightness to begin with

ASSUME VendorControlAssumption ==
  /\ Numbers \subseteq Int /\ Steps \subseteq Int
  /\ Top \in Nat \ {0} /\ Full \in Nat \ {0}
  /\ FirstLamps \subseteq [on : BOOLEAN, bright : 0 .. Top]

VARIABLES
  lamp,     \* ImagingState: whiteLightOn, whiteLightBrightness
  cut,      \* ImagingState: irCutFilter
  slots,    \* tokens of the presets, in the order of the list
  head,     \* what pan/tilt and zoom were last told: speeds, or where to go
  reply,    \* the last request was answered with success
  last      \* history of the last request, see Note

controlVars == <<lamp, cut, slots, head, reply, last>>

Given(v) == v # Absent
Read(v) == Given(v) /\ v # Bad
Loose(v) == IF Read(v) THEN v ELSE 0
Within(v, lo, hi) == IF v < lo THEN lo ELSE IF v > hi THEN hi ELSE v

\* What was asked, as far as it can be read: whether the lamp off, which groups to
\* stop, and which of these beside a number that is Bad.  "by" tells the handlers
\* apart whose lamp is judged on its own.
Wanted(by, off, stops) == [by |-> by, off |-> off, stops |-> stops, doubt |-> {}]
Note(by, off, stops) == last' = Wanted(by, off, stops)
NothingOff == Note("other", FALSE, {})

-----------------------------------------------------------------------------
\* The lamp.  ImagingState::setWhiteLight(): a negative level keeps the old.
SetWhiteLight(on, level) ==
  lamp' = [on |-> on, bright |-> IF level < 0 THEN lamp.bright ELSE Within(level, 0, Top)]
LampOnly == UNCHANGED <<cut, slots, head>>

\* Reolink: state goes before mode; nothing checks that they can be read.
SetWhiteLed(state, mode, bright) ==
  /\ reply' = (Given(state) \/ Given(mode) \/ Given(bright))
  /\ IF reply'
     THEN SetWhiteLight(IF Given(state) THEN Loose(state) # 0
                        ELSE IF Given(mode) THEN Loose(mode) # 0 ELSE lamp.on,
                        IF Given(bright) THEN Within(Loose(bright), 0, Top) ELSE -1)
     ELSE UNCHANGED lamp
  /\ Note("unchecked", 0 \in {state, mode}, {}) /\ LampOnly

\* TP-Link: enabled and status are words, brightness 0 alone means off.
WriteLight(on, brightness, status) ==
  LET level == IF Read(brightness) THEN Within(brightness, 0, Top) ELSE -1
      first == IF Read(on) THEN on ELSE lamp.on
      second == IF level = 0 /\ ~Given(on) THEN FALSE ELSE first
  IN
  /\ reply' = (Given(on) \/ level >= 0 \/ Given(status))
  /\ IF reply' THEN SetWhiteLight(IF Read(status) THEN status ELSE second, level)
     ELSE UNCHANGED lamp
  /\ Note("other", on = FALSE \/ status = FALSE \/ level = 0, {}) /\ LampOnly

\* Dahua: the items of the query in their order, [mode |-> word] or
\* [light |-> number]; a lamp that is on is at least at 1.
After(acc, item) ==
  IF "mode" \in DOMAIN item
  THEN [acc EXCEPT !.on = item.mode # "Off", !.touched = TRUE]
  ELSE IF Read(item.light)
  THEN [on |-> acc.on /\ item.light > 0, level |-> item.light, touched |-> TRUE]
  ELSE acc
Applied(items) ==
  LET upTo[n \in 0 .. Len(items)] ==
        IF n = 0 THEN [on |-> lamp.on, level |-> lamp.bright, touched |-> FALSE]
        ELSE After(upTo[n - 1], items[n])
  IN  upTo[Len(items)]
PutsOut(item) ==
  IF "mode" \in DOMAIN item THEN item.mode = "Off" ELSE Read(item.light) /\ item.light <= 0
\* Mutant: a number that cannot be read counts as 0.
SetConfig_Unchecked(items) ==
  LET loose == [i \in DOMAIN items |-> IF "light" \in DOMAIN items[i]
                  THEN [light |-> Loose(items[i].light)] ELSE items[i]]
      end == Applied(loose) IN
  /\ reply' = TRUE
  /\ IF end.touched
     THEN SetWhiteLight(end.on, IF end.on /\ end.level < 1 THEN 1 ELSE end.level)
     ELSE UNCHANGED lamp
  /\ Note("SetConfig", \E i \in DOMAIN items : PutsOut(items[i]), {}) /\ LampOnly
SetConfig(items) ==
  LET end == Applied(items) IN
  /\ reply' = TRUE
  /\ IF end.touched
     THEN SetWhiteLight(end.on, IF end.on /\ end.level < 1 THEN 1 ELSE end.level)
     ELSE UNCHANGED lamp
  /\ Note("SetConfig", \E i \in DOMAIN items : PutsOut(items[i]), {}) /\ LampOnly
\* What getConfig says of it: the mode, and a light of 0 while it is off.
LightingV2 == [manual |-> lamp.on, light |-> IF lamp.on THEN lamp.bright ELSE 0]

\* Dahua's coaxial control: 1 is on; everything else, what cannot be read too, off.
CoaxialControl(io) ==
  /\ reply' = TRUE
  /\ SetWhiteLight(Loose(io) = 1, -1)
  /\ Note("unchecked", io \notin {1, Bad}, {}) /\ LampOnly

\* Hikvision: without a mode nothing happens; infrared counts as off.
SupplementLight(mode, brightness) ==
  /\ reply' = Given(mode)
  /\ IF Given(mode)
     THEN SetWhiteLight(mode \notin {"irLight", "close"}, IF Read(brightness) THEN brightness ELSE -1)
     ELSE UNCHANGED lamp
  /\ Note("other", mode \in {"irLight", "close"}, {}) /\ LampOnly

\* Hikvision's day and night filter.
FilterOf == [day |-> "ON", night |-> "OFF", auto |-> "AUTO", schedule |-> "AUTO"]
IrcutFilter(type) ==
  /\ reply' = (type \in DOMAIN FilterOf)
  /\ cut' = IF reply' THEN FilterOf[type] ELSE cut
  /\ NothingOff
  /\ UNCHANGED <<lamp, slots, head>>

-----------------------------------------------------------------------------
\* The head.  continuousMove() drives the groups it names, stop() stills them.
Still == [told |-> "stop", pan |-> 0, tilt |-> 0, zoom |-> 0]
Vector(p, t, z) == [pan |-> p, tilt |-> t, zoom |-> z]
Drive(groups, v) ==
  head' = [panTilt |-> IF "panTilt" \in groups
             THEN [told |-> "drive", pan |-> v.pan, tilt |-> v.tilt, zoom |-> 0] ELSE head.panTilt,
           zoom |-> IF "zoom" \in groups
             THEN [told |-> "drive", pan |-> 0, tilt |-> 0, zoom |-> v.zoom] ELSE head.zoom]
Halt(groups) == head' = [g \in DOMAIN head |-> IF g \in groups THEN Still ELSE head[g]]
Go == head' = [g \in DOMAIN head |-> [Still EXCEPT !.told = "go"]]
HeadOnly == UNCHANGED <<lamp, cut, slots>>

\* One word of each sort: an axis, a diagonal and the lens.  The others differ in
\* sign only.
Directions == [Left |-> Vector(-1, 0, 0), LeftUp |-> Vector(-1, 1, 0), In |-> Vector(0, 0, 1)]
Steer(d, s) ==
  Drive(IF d = "In" THEN {"zoom"} ELSE {"panTilt"},
        [x \in {"pan", "tilt", "zoom"} |-> Directions[d][x] * s])

\* speedFromReolink(): no speed is full speed.  speedFromDahua(): at least 1.
ReolinkSpeed(v) == IF Loose(v) <= 0 THEN Full ELSE Within(v, 1, Full)
DahuaSpeed(arg1, arg2) ==
  LET most == IF Loose(arg1) > Loose(arg2) THEN Loose(arg1) ELSE Loose(arg2) IN Within(most, 1, Full)

PtzCtrl(op, speed) ==
  /\ IF op \in DOMAIN Directions THEN reply' = TRUE /\ Steer(op, ReolinkSpeed(speed))
     ELSE IF op = "Stop" THEN reply' = TRUE /\ Halt({"panTilt", "zoom"})
     ELSE reply' = FALSE /\ UNCHANGED head
  /\ Note("other", FALSE, IF op = "Stop" THEN {"panTilt", "zoom"} ELSE {}) /\ HeadOnly

DahuaStart(code, arg1, arg2) ==
  /\ IF code \in DOMAIN Directions THEN reply' = TRUE /\ Steer(code, DahuaSpeed(arg1, arg2))
     ELSE reply' = FALSE /\ UNCHANGED head
  /\ NothingOff /\ HeadOnly
DahuaStop ==
  reply' = TRUE /\ Halt({"panTilt", "zoom"}) /\ Note("other", FALSE, {"panTilt", "zoom"}) /\ HeadOnly

\* ISAPI: speeds that cannot be read are left out, and speeds that are all zero
\* stop the groups they name.
PtzData(pan, tilt, zoom) ==
  [groups |-> (IF Read(pan) \/ Read(tilt) THEN {"panTilt"} ELSE {})
                \cup (IF Read(zoom) THEN {"zoom"} ELSE {}),
   v |-> Vector(Loose(pan), Loose(tilt), Loose(zoom))]
Continuous(pan, tilt, zoom) ==
  LET data == PtzData(pan, tilt, zoom)
      stops == {g \in data.groups : IF g = "zoom" THEN data.v.zoom = 0
                                    ELSE data.v.pan = 0 /\ data.v.tilt = 0}
  IN
  /\ reply' = TRUE
  /\ IF data.v = Vector(0, 0, 0) THEN Halt(data.groups) ELSE Drive(data.groups, data.v)
  /\ last' = [Wanted("other", FALSE, stops) EXCEPT
               !.doubt = stops \cap (IF Bad \in {pan, tilt} THEN {"panTilt"} ELSE {})]
  /\ HeadOnly

\* VIGI: absolute, and the axes it does not name are told to stay where they are.
MotorMove(x, y) ==
  /\ reply' = (Given(x) \/ Given(y))
  /\ IF reply' THEN Go ELSE UNCHANGED head
  /\ NothingOff /\ HeadOnly

-----------------------------------------------------------------------------
\* Presets, by token.  setPreset() takes an unknown token as a new slot while
\* there is room.
PresetsOnly == NothingOff /\ UNCHANGED <<lamp, cut>>
SetSlot(token) ==
  LET there == token \in Range(slots) IN
  /\ reply' = (there \/ Len(slots) < MaxPresets)
  /\ slots' = IF ~there /\ reply' THEN Append(slots, token) ELSE slots
  /\ PresetsOnly /\ UNCHANGED head
\* removePreset(): the vendors do not say whether there was one.
ClearSlot(token) ==
  /\ reply' = TRUE
  /\ slots' = SelectSeq(slots, LAMBDA t : t # token)
  /\ PresetsOnly /\ UNCHANGED head
GotoSlot(token) ==
  /\ reply' = (token \in Range(slots))
  /\ IF reply' THEN Go ELSE UNCHANGED head
  /\ PresetsOnly /\ UNCHANGED slots

\* Reolink and Dahua know presets by number, ISAPI by any token; so does ONVIF.
PresetCommand(token) == SetSlot(token) \/ ClearSlot(token) \/ GotoSlot(token)

ControlInit ==
  /\ lamp \in FirstLamps /\ cut = "AUTO" /\ slots = <<>>
  /\ head = [panTilt |-> Still, zoom |-> Still]
  /\ reply = TRUE /\ last = Wanted("other", FALSE, {})

Loosely == Numbers \cup {Absent, Bad}
Words == {TRUE, FALSE, Absent, Bad}
Paces == Steps \cup {Bad}
Items == [mode : {"Off", "Manual"}] \cup [light : Numbers \cup {Bad}]

ControlNext ==
  \/ \E state, mode, bright \in Loosely : SetWhiteLed(state, mode, bright)
  \/ \E on, status \in Words, b \in Loosely : WriteLight(on, b, status)
  \/ \E items \in UNION {[1 .. n -> Items] : n \in 0 .. 2} : SetConfig(items)
  \/ \E io \in Loosely : CoaxialControl(io)
  \/ \E mode \in {"colorVuWhiteLight", "irLight", "close", Absent}, b \in Loosely : SupplementLight(mode, b)
  \/ \E type \in {"day", "night", "auto", "schedule", "other"} : IrcutFilter(type)
  \/ \E op \in DOMAIN Directions \cup {"Stop", "other"}, v \in Paces : PtzCtrl(op, v)
  \/ \E code \in DOMAIN Directions \cup {"other"}, v, w \in Paces : DahuaStart(code, v, w)
  \/ DahuaStop
  \/ \E p, t, z \in Paces \cup {Absent} : Continuous(p, t, z)
  \/ \E x, y \in {0, Absent, Bad} : MotorMove(x, y)
  \/ \E token \in Ids \cup Named : PresetCommand(token)

ControlSpec == ControlInit /\ [][ControlNext]_controlVars

\* It is on its way: driven at some speed, or sent somewhere.
Moves(h) == h.told = "go" \/ (h.told = "drive" /\ (h.pan # 0 \/ h.tilt # 0 \/ h.zoom # 0))

\* The lamp goes out only when something that can be read asks for it,
LampKept == lamp.on /\ ~last'.off => lamp'.on
\* and a group that moves stops only when something that can be read does.
HeadKept(asked) == \A g \in DOMAIN head : Moves(head[g]) /\ g \notin asked => Moves(head'[g])
\* What was set reads back.
ReadsBack == lamp' # lamp => (LightingV2'.manual <=> LightingV2'.light > 0)

HonestWrite ==
  /\ last'.by # "unchecked" => LampKept
  /\ HeadKept(last'.stops)
  /\ last'.by = "SetConfig" => ReadsBack

\* In the handlers that look whether a number can be read, one that cannot does
\* not do the opposite of what was asked: the lamp goes out and a group stops
\* only when a word or number that can be read asks for it (TplinkDsStub.cpp:50,
\* DahuaCgiStub.cpp:451, IsapiStub.cpp:453).  Reolink's SetWhiteLed and Dahua's
\* coaxial control are not among them, and for ISAPI a readable 0 asks to stop
\* both axes of its group, even beside one that cannot be read: these are what
\* UnreadableHarmless is about.  And a Dahua client that set the lamp reads it
\* back as it is: lit means Manual and a light above 0 (DahuaCgiStub.cpp:426).
VendorWritesHonest == [][HonestWrite]_controlVars

\* A number that cannot be read is never a successful switch off or stop, in any
\* handler: the lamp stays lit and what moves goes on, unless something readable
\* asks otherwise, and a 0 beside an unreadable axis does not.  The comments at
\* DahuaCgiStub.cpp:451 and IsapiStub.cpp:453 promise it; the code does not.
UnreadableHarmless == [][LampKept /\ HeadKept(last'.stops \ last'.doubt)]_controlVars
=============================================================================
