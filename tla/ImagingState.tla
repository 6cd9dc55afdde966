---------------------------- MODULE ImagingState ----------------------------
(***************************************************************************)
(* The picture settings, the supplement light and the focus motor of a     *)
(* camera (ImagingState) behind ImagingService, the vendors' private       *)
(* interfaces and the desktop's camera tab, which all work on this one     *)
(* state.  The focus is one axis of LazyMotion, in a group of its own.     *)
(***************************************************************************)
EXTENDS LazyMotion

CONSTANTS
  FocusMax,     \* the far limit of the focus; the near limit is 0
  FocusRate,    \* grid units per tick and speed unit
  FocusFull,    \* the speed that stands for 1.0
  DefaultSpeed, \* the speed of a Move that names none
  FocusSpeeds,  \* the speeds a client sends
  CutModes,     \* the modes of the infrared filter
  Top,          \* the upper end of every picture setting
  Levels,       \* levels a client asks for, some beyond the ends
  MaxFocusLag   \* longest time without any read or command

ASSUME ImagingAssumption ==
  /\ FocusMax \in Nat /\ FocusRate \in Nat /\ FocusFull \in Nat /\ MaxFocusLag \in Nat
  /\ DefaultSpeed \in Int /\ FocusSpeeds \subseteq Int
  /\ Top \in Nat /\ Levels \subseteq Int

VARIABLES
  focus,        \* the motion of the focus as last integrated
  focusLag,     \* time since it was integrated
  sent,         \* where the last absolute move sent it, or NoGoal
  settings,     \* the settings in force
  panel         \* what the desktop's controls show

imagingVars == <<focus, focusLag, sent, settings, panel>>

NoGoal == -1

FocusLo == [f |-> 0]
FocusHi == [f |-> FocusMax]

FocusNow == StepGroup(focus, focusLag, FocusLo, FocusHi)
Where(m) == m.value["f"]
Whole(v) == [f |-> v]

-----------------------------------------------------------------------------
(* Focus.                                                                  *)

(* moveFocus(): a distance goes there, no distance runs with the speed     *)
(* until stopped, neither stops.                                           *)
Refocused(m, distance, speed) ==
  IF distance # 0
  THEN Aim(m, Whole(Clamp(Where(m) + distance, 0, FocusMax)),
           Whole(FocusRate * SpeedFactor(speed, FocusFull)), 0)
  ELSE IF speed # 0
  THEN Drive(m, Whole(FocusRate * Clamp(speed, -FocusFull, FocusFull)), 0)
  ELSE Still(m, m.value)

(* A manual move, from where m stands by now, takes the camera out of      *)
(* autofocus, and says so.                                                 *)
MoveFocus(m, distance, speed) ==
  /\ focus' = StepGroup(Refocused(m, distance, speed), 0, FocusLo, FocusHi)
  /\ focusLag' = 0
  /\ settings' = [settings EXCEPT !.focusMode = "MANUAL"]
  /\ panel' = IF settings.focusMode # "MANUAL" THEN settings' ELSE panel

(* Move, absolute: the distance to the position named is computed from one *)
(* reading of the clock and gone from another, a moment later: what the    *)
(* focus moved in between is missing at the end.  To where it stands       *)
(* already the distance is 0, and it starts to run.                        *)
FocusAbsolute ==
  \E goal \in 0..FocusMax, speed \in {s \in FocusSpeeds : s > 0} \cup {DefaultSpeed},
     moment \in 0..1 :
    LET onwards == StepGroup(FocusNow, moment, FocusLo, FocusHi)
        distance == goal - Where(FocusNow)
    IN  /\ MoveFocus(onwards, distance, speed)
        /\ sent' = IF distance = 0 THEN NoGoal
                   ELSE Clamp(Where(onwards) + distance, 0, FocusMax)

FocusRelative ==
  \E distance \in {-1, 0, 1}, speed \in {s \in FocusSpeeds : s > 0} \cup {DefaultSpeed} :
    /\ MoveFocus(FocusNow, distance, speed)
    /\ sent' = NoGoal

(* Move, continuous: without a speed it stops. *)
FocusContinuous ==
  \E speed \in FocusSpeeds \cup {0} :
    /\ MoveFocus(FocusNow, 0, speed)
    /\ sent' = NoGoal

FocusStop ==
  /\ focus' = Still(FocusNow, FocusNow.value)
  /\ focusLag' = 0
  /\ sent' = NoGoal
  /\ UNCHANGED <<settings, panel>>

(* GetStatus reads the position and the move status. *)
FocusStatus ==
  /\ focus' = FocusNow
  /\ focusLag' = 0
  /\ UNCHANGED <<sent, settings, panel>>

FocusElapse ==
  /\ focusLag < MaxFocusLag
  /\ focusLag' = IF focus.mode # "idle" THEN focusLag + 1 ELSE focusLag
  /\ UNCHANGED <<focus, sent, settings, panel>>

-----------------------------------------------------------------------------
(* Settings.  settingsChanged makes the desktop read everything again.     *)

Changed(new) ==
  /\ settings' = new
  /\ panel' = IF new # settings THEN new ELSE panel
  /\ UNCHANGED <<focus, focusLag, sent>>

(* SetImagingSettings writes back the state with the fields the request    *)
(* carries: a field it lacks, or cannot be read, keeps its value.          *)
SetImagingSettings ==
  \E level \in Levels \cup {settings.level}, cut \in CutModes, mode \in {"AUTO", "MANUAL"} :
    LET new == [settings EXCEPT !.level = Clamp(level, 0, Top), !.irCut = cut,
                                !.focusMode = mode]
    IN  /\ settings' = new
        /\ panel' = new
        /\ UNCHANGED <<focus, focusLag, sent>>

(* setBrightness(), setContrast(): the desktop's sliders. *)
SetLevel ==
  \E level \in Levels : Changed([settings EXCEPT !.level = Clamp(level, 0, Top)])

(* setIrCutFilter(): the desktop and ISAPI. *)
SetIrCutFilter ==
  \E cut \in CutModes : Changed([settings EXCEPT !.irCut = cut])

(* setWhiteLight(): four vendors' interfaces and the desktop; a negative   *)
(* brightness keeps the level.                                             *)
(* Mutant: the light is switched without settingsChanged. *)
SetWhiteLightSilently ==
  \E on \in BOOLEAN, level \in Levels :
    /\ settings' = [settings EXCEPT !.light = on,
                      !.lightLevel = IF level < 0 THEN @ ELSE Clamp(level, 0, Top)]
    /\ UNCHANGED <<focus, focusLag, sent, panel>>

SetWhiteLight ==
  \E on \in BOOLEAN, level \in Levels :
    Changed([settings EXCEPT !.light = on,
               !.lightLevel = IF level < 0 THEN @ ELSE Clamp(level, 0, Top)])

-----------------------------------------------------------------------------
ImagingInit ==
  /\ focus = [mode |-> "idle", value |-> Whole(FocusMax \div 2), vel |-> Whole(0),
              target |-> Whole(0), left |-> None, hold |-> None]
  /\ focusLag = 0
  /\ sent = NoGoal
  /\ settings = [level |-> Top \div 2, irCut |-> "AUTO", focusMode |-> "AUTO",
                 light |-> FALSE, lightLevel |-> Top]
  /\ panel = settings

ImagingNext ==
  \/ FocusAbsolute \/ FocusRelative \/ FocusContinuous \/ FocusStop
  \/ FocusStatus \/ FocusElapse
  \/ SetImagingSettings \/ SetLevel \/ SetIrCutFilter \/ SetWhiteLight

ImagingSpec == ImagingInit /\ [][ImagingNext]_imagingVars

-----------------------------------------------------------------------------
(* Properties.                                                             *)

FocusTypeOK ==
  /\ focus.mode \in {"idle", "continuous", "target"}
  /\ Where(focus) \in 0..FocusMax
  /\ focus.vel["f"] \in Int /\ focus.target["f"] \in 0..FocusMax
  /\ focusLag \in 0..MaxFocusLag
  /\ sent \in 0..FocusMax \cup {NoGoal}

(* Whoever changes the picture - ONVIF, a vendor's interface, the desktop  *)
(* or a focus move - the desktop shows what is in force, and every level   *)
(* stays between its ends.                                                 *)
OneState ==
  /\ panel = settings
  /\ settings.level \in 0..Top /\ settings.lightLevel \in 0..Top

(* A focus sent to a position other than its own stands there once it      *)
(* reports IDLE, whoever asked on the way; one that was moving when it was *)
(* sent may be off by what it moved between the two readings.              *)
FocusArrives == FocusNow.mode = "idle" /\ sent # NoGoal => Where(FocusNow) = sent

(* An idle focus has no speed left over that would carry it off.           *)
FocusRests == focus.mode = "idle" => focus.vel["f"] = 0

(* What holds of the picture and the focus in every state. *)
ImagingConsistent == FocusTypeOK /\ OneState /\ FocusArrives /\ FocusRests
=============================================================================
