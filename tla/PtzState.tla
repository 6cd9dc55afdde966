------------------------------ MODULE PtzState ------------------------------
(***************************************************************************)
(* The pan/tilt/zoom head of a camera (PtzState) behind its SOAP service   *)
(* (PtzService).  The position is integrated lazily: every command, every  *)
(* read and the signal ticker first catch up with the clock, and nothing   *)
(* else moves the head.  A request that faults leaves the head alone, so   *)
(* the actions below are the requests PtzService lets through; the gate    *)
(* that looks at the profile is in MediaConfig.  Coordinates are numbers   *)
(* on a grid; those that toDouble() reads as no finite number, which the   *)
(* code does not refuse, are outside it.                                   *)
(***************************************************************************)
EXTENDS LazyMotion, Sequences, SequencesExt, FiniteSets

CONSTANTS
  GroupAxes,    \* the axes of each group that starts and stops together
  Lo, Hi,       \* the limits of each axis
  BaseRate,     \* grid units per tick and speed unit
  FullSpeed,         \* the speed that stands for 1.0
  Speeds,       \* the speeds a client sends with a move; 0 stands for none
  Velocities,   \* the velocities it sends with a ContinuousMove
  Goals,        \* positions a client or the REST interface names
  Spots,        \* positions at which a client stores a preset or the home
  MoveTimeouts,     \* timeouts of a ContinuousMove; 0 stands for none
  SlowTime,     \* the "ms" of the slow GotoPreset quirk
  NoHome,       \* what home is before SetHomePosition
  MaxPresets,   \* ptzNode.maxPresets
  Tokens,       \* preset tokens a client may choose itself
  FactoryCount, \* the "count" of the factory preset quirk
  MaxLag,       \* longest time without any read, command or tick
  Switches      \* quirks that may be switched while the camera runs

Groups == DOMAIN GroupAxes
Axes == UNION {GroupAxes[g] : g \in Groups}

\* A camera that declares no capacity for presets is not bound by one.
ASSUME PtzAssumption ==
  /\ \A a \in Axes : Lo[a] \in Int /\ Hi[a] \in Int /\ Lo[a] <= Hi[a] /\ BaseRate[a] \in Nat
  /\ FullSpeed \in Nat /\ Speeds \subseteq Int /\ MoveTimeouts \subseteq Nat
  /\ Velocities \cup Goals \cup Spots \subseteq [Axes -> Int]
  /\ SlowTime \in Nat /\ MaxLag \in Nat /\ FactoryCount \in Nat
  /\ MaxPresets \in Nat \ {0}

VARIABLES
  head,         \* the motion of each group as last integrated
  lag,          \* time since it was integrated
  ticker,       \* the signal ticker runs
  notified,     \* lastNotifiedMoving: the status last signalled
  pad,          \* the desktop's crosshair shows where the head was integrated
  presets,      \* the stored presets, in order
  home,         \* the home position, or NoHome
  ptzQuirks,    \* which of frozen, slow, malformed are on
  attended      \* some client, REST user or window is still there

ptzVars == <<head, lag, ticker, notified, pad, presets, home, ptzQuirks, attended>>

(* advance(): both groups catch up. *)
Advance(h, dt) ==
  [g \in Groups |-> StepGroup(h[g], dt, Lo, Hi)]

Moving(h) == \E g \in Groups : h[g].mode # "idle"

(* snapshot(): the position of all three axes. *)
Position(h) ==
  [a \in Axes |-> h[CHOOSE g \in Groups : a \in GroupAxes[g]].value[a]]

(* Did the integration change a position? *)
Moved(h, old) == \E g \in Groups : h[g].value # old[g].value

(* What every command ends with: a zero-length integration, the position   *)
(* signal if the caller saw it move, the status signal if the status is    *)
(* not the one last signalled, and the ticker on exactly while the head    *)
(* moves.  The crosshair redraws on either signal.                         *)
(* Mutant: the status is compared with the status before the command. *)
SettleForgetful(h, moved) ==
  /\ head' = Advance(h, 0)
  /\ lag' = 0
  /\ notified' = IF Moving(head') = Moving(head) THEN notified ELSE Moving(head')
  /\ ticker' = Moving(head')
  /\ pad' = (moved \/ notified' # notified \/ (pad /\ ~Moved(head', head)))

Settle(h, moved) ==
  /\ head' = Advance(h, 0)
  /\ lag' = 0
  /\ notified' = Moving(head')
  /\ ticker' = Moving(head')
  /\ pad' = (moved \/ notified' # notified \/ (pad /\ ~Moved(head', head)))

(* rateFor(): a slow move is stretched over its whole duration; on the     *)
(* grid the rate is rounded up.                                            *)
Rate(a, from, to, speed, slow) ==
  IF slow > 0
  THEN (Magnitude(to - from) + slow - 1) \div slow
  ELSE BaseRate[a] * SpeedFactor(speed, FullSpeed)

(* startTarget() for the groups the request names. *)
Aimed(h, gs, goal, speed, slow) ==
  [g \in Groups |->
     IF g \notin gs THEN h[g]
     ELSE LET to == [a \in GroupAxes[g] |-> Clamp(goal[a], Lo[a], Hi[a])]
          IN  Aim(h[g], to,
                  [a \in GroupAxes[g] |-> Rate(a, h[g].value[a], to[a], speed, slow)], slow)]

StartTarget(gs, goal, speed, slow) ==
  IF "frozen" \in ptzQuirks
  THEN UNCHANGED <<head, lag, ticker, notified, pad>>
  ELSE LET h == Aimed(Advance(head, lag), gs, goal, speed, slow)
       IN  Settle(h, Moved(Advance(h, 0), h))

(* position(): a read catches up and leaves signals and ticker alone. *)
Read ==
  /\ head' = Advance(head, lag)
  /\ lag' = 0
  /\ pad' = (pad /\ ~Moved(head', head))
  /\ UNCHANGED <<ticker, notified>>

Stopped(h, gs) ==
  [g \in Groups |-> IF g \in gs THEN Still(h[g], h[g].value) ELSE h[g]]

-----------------------------------------------------------------------------
(* Requests.                                                               *)

(* continuousMove() for the groups the request names.                      *)
Driven(h, gs, velocity, t) ==
  [g \in Groups |->
     IF g \in gs
     THEN Drive(h[g], [a \in GroupAxes[g] |->
                         Clamp(velocity[a], -FullSpeed, FullSpeed) * BaseRate[a]], t)
     ELSE h[g]]

(* ContinuousMove names at least one group.  The malformed-zoom quirk cuts *)
(* the connection before the head is touched.                              *)
ContinuousMove ==
  \E gs \in SUBSET Groups \ {{}}, velocity \in Velocities, t \in MoveTimeouts :
    /\ \A a \in Axes : velocity[a] # 0 => \E g \in gs : a \in GroupAxes[g]
    /\ ~("malformed" \in ptzQuirks /\ "zoom" \in gs /\ velocity["zoom"] # 0)
    /\ IF "frozen" \in ptzQuirks
       THEN UNCHANGED <<head, lag, ticker, notified, pad>>
       ELSE LET h == Driven(Advance(head, lag), gs, velocity, t)
            IN  Settle(h, Moved(Advance(h, 0), h))
    /\ UNCHANGED <<presets, home, ptzQuirks>>

(* AbsoluteMove: the components the request lacks stay where they are. *)
AbsoluteMove ==
  /\ \E gs \in SUBSET Groups, goal \in Goals, speed \in Speeds :
       StartTarget(gs, goal, speed, 0)
  /\ UNCHANGED <<presets, home, ptzQuirks>>

(* RelativeMove reads the position first, frozen or not, and goes to the   *)
(* sum.                                                                    *)
RelativeMove ==
  /\ \E gs \in SUBSET Groups, by \in Goals, speed \in Speeds :
       LET here == Position(Advance(head, lag))
       IN  IF "frozen" \in ptzQuirks THEN Read
           ELSE StartTarget(gs, [a \in Axes |-> here[a] + by[a]], speed, 0)
  /\ UNCHANGED <<presets, home, ptzQuirks>>

(* Stop works under every quirk; both of its flags default to true. *)
Stop ==
  /\ \E gs \in SUBSET Groups :
       Settle(Stopped(Advance(head, lag), gs), Moved(Advance(head, lag), head))
  /\ UNCHANGED <<presets, home, ptzQuirks>>

(* GetStatus, and any other read of the position or the move status. *)
GetStatus ==
  /\ Read
  /\ UNCHANGED <<presets, home, ptzQuirks>>

(* setPosition(): REST, the desktop and scenarios place the head. *)
SetPosition ==
  /\ \E gs \in SUBSET Groups, goal \in Goals :
       LET h == Advance(head, lag)
       IN  Settle([g \in Groups |->
             IF g \in gs
             THEN Still(h[g], [a \in GroupAxes[g] |-> Clamp(goal[a], Lo[a], Hi[a])])
             ELSE h[g]], TRUE)
  /\ UNCHANGED <<presets, home, ptzQuirks>>

-----------------------------------------------------------------------------
(* Presets and home.                                                       *)

IndexOf(token) == {i \in DOMAIN presets : presets[i].token = token}

(* allocateToken(): the smallest free positive number. *)
(* Mutant: the number after the count of the presets. *)
NextToken == Len(presets) + 1

FreeToken ==
  CHOOSE n \in 1..Len(presets) + 1 :
    /\ IndexOf(n) = {}
    /\ \A m \in 1..n - 1 : IndexOf(m) # {}

(* SetPreset: a token that exists is overwritten, a new one needs room.    *)
SetPreset ==
  /\ LET here == Position(Advance(head, lag))
     IN  /\ here \in Spots
         /\ \/ \E token \in Tokens : \E i \in IndexOf(token) :
                 presets' = [presets EXCEPT ![i].at = here]
            \/ /\ Len(presets) < MaxPresets
               /\ \E token \in {t \in Tokens : IndexOf(t) = {}} \cup {FreeToken} :
                    presets' = Append(presets, [token |-> token, at |-> here])
            \/ Len(presets) >= MaxPresets /\ UNCHANGED presets
  /\ Read
  /\ UNCHANGED <<home, ptzQuirks>>

RemovePreset ==
  /\ \E i \in DOMAIN presets : presets' = RemoveAt(presets, i)
  /\ UNCHANGED <<head, lag, ticker, notified, pad, home, ptzQuirks>>

(* GotoPreset goes with all axes, slowly under the quirk. *)
GotoPreset ==
  /\ \E i \in DOMAIN presets, speed \in Speeds :
       StartTarget(Groups, presets[i].at, speed, IF "slow" \in ptzQuirks THEN SlowTime ELSE 0)
  /\ UNCHANGED <<presets, home, ptzQuirks>>

(* generateFactoryPresets(): replaces the table, within the capacity       *)
(* unless that is 0; every slot points at the same place.                  *)
Factory ==
  [i \in 1..(IF MaxPresets > 0 /\ FactoryCount > MaxPresets THEN MaxPresets ELSE FactoryCount) |->
     [token |-> i,
      at |-> [a \in Axes |-> IF a = "tilt" THEN Hi[a] ELSE Clamp(0, Lo[a], Hi[a])]]]

FactoryPresets ==
  /\ presets' = Factory
  /\ UNCHANGED <<head, lag, ticker, notified, pad, home, ptzQuirks>>

ClearPresets ==
  /\ presets # <<>>
  /\ presets' = <<>>
  /\ UNCHANGED <<head, lag, ticker, notified, pad, home, ptzQuirks>>

SetHomePosition ==
  /\ Position(Advance(head, lag)) \in Spots
  /\ home' = Position(Advance(head, lag))
  /\ Read
  /\ UNCHANGED <<presets, ptzQuirks>>

GotoHomePosition ==
  /\ home # NoHome
  /\ \E speed \in Speeds : StartTarget(Groups, home, speed, 0)
  /\ UNCHANGED <<presets, home, ptzQuirks>>

-----------------------------------------------------------------------------
(* Time and signals.                                                       *)

(* A head at rest has nothing to integrate: only a moving one falls behind.*)
Elapse ==
  /\ lag < MaxLag
  /\ lag' = IF Moving(head) THEN lag + 1 ELSE lag
  /\ UNCHANGED <<head, ticker, notified, pad, presets, home, ptzQuirks>>

(* The ticker runs while the head moves, for whoever draws the crosshair.  *)
(* It may find that a read has already ended the move.                     *)
Ticker ==
  /\ ticker
  /\ lag > 0 \/ ~Moving(head)
  /\ Settle(Advance(head, lag), Moving(head) \/ Moved(Advance(head, lag), head))
  /\ UNCHANGED <<presets, home, ptzQuirks>>

SwitchQuirk ==
  /\ \E q \in Switches :
       ptzQuirks' = IF q \in ptzQuirks THEN ptzQuirks \ {q} ELSE ptzQuirks \cup {q}
  /\ UNCHANGED <<head, lag, ticker, notified, pad, presets, home>>

-----------------------------------------------------------------------------
AtRest(g) ==
  [mode   |-> "idle",
   value  |-> [a \in GroupAxes[g] |-> Clamp(0, Lo[a], Hi[a])],
   vel    |-> [a \in GroupAxes[g] |-> 0],
   target |-> [a \in GroupAxes[g] |-> 0],
   left   |-> None,
   hold   |-> None]

PtzInit ==
  /\ head = [g \in Groups |-> AtRest(g)]
  /\ lag = 0
  /\ ticker = FALSE
  /\ notified = FALSE
  /\ pad = TRUE
  /\ presets \in {<<>>, Factory}
  /\ home = NoHome
  /\ ptzQuirks = {}
  /\ attended = TRUE

Command ==
  \/ ContinuousMove \/ AbsoluteMove \/ RelativeMove \/ Stop \/ SetPosition
  \/ GotoPreset \/ GotoHomePosition

Bookkeeping ==
  \/ SetPreset \/ RemovePreset \/ FactoryPresets \/ ClearPresets
  \/ SetHomePosition \/ SwitchQuirk

(* Everybody leaves while the head moves: no more requests and no reads. *)
Leave ==
  /\ attended /\ ticker
  /\ attended' = FALSE
  /\ UNCHANGED <<head, lag, ticker, notified, pad, presets, home, ptzQuirks>>

PtzNext ==
  \/ attended /\ (Command \/ Bookkeeping \/ GetStatus) /\ UNCHANGED attended
  \/ (Elapse \/ Ticker) /\ UNCHANGED attended
  \/ Leave

PtzSpec == PtzInit /\ [][PtzNext]_ptzVars
PtzFairSpec == PtzSpec /\ WF_ptzVars((Elapse \/ Ticker) /\ UNCHANGED attended)

-----------------------------------------------------------------------------
(* Properties.                                                             *)

MotionOK(m, axes) ==
  /\ m.mode \in {"idle", "continuous", "target"}
  /\ m.left \in Nat \cup {None} /\ m.hold \in Nat \cup {None}
  /\ DOMAIN m.value = axes /\ DOMAIN m.vel = axes /\ DOMAIN m.target = axes
  /\ \A a \in axes : m.value[a] \in Int /\ m.vel[a] \in Int /\ m.target[a] \in Int

HeadTypeOK ==
  /\ DOMAIN head = Groups
  /\ \A g \in Groups : MotionOK(head[g], GroupAxes[g])
  /\ lag \in 0..MaxLag
  /\ ticker \in BOOLEAN /\ notified \in BOOLEAN /\ pad \in BOOLEAN

(* No axis stands outside its limits, whoever drove it there with finite   *)
(* coordinates: clampRange() lets "nan" through.                           *)
WithinLimits ==
  \A g \in Groups : \A a \in GroupAxes[g] : head[g].value[a] \in Lo[a]..Hi[a]

(* While the head may be moving the ticker runs, and it runs exactly until *)
(* the status last signalled is IDLE: a move that some read ended silently *)
(* is still announced (notifyStatusIfChanged, syncTicker).                 *)
StatusFollowed ==
  /\ Moving(head) => ticker
  /\ ticker <=> notified

(* The crosshair may lag behind a moving head, but once the head rests and *)
(* has said so it shows the true position, even when the move was ended by *)
(* a read that signals nothing.                                            *)
PadSettles == ~ticker => pad

(* Presets keep distinct tokens, within the capacity the node declares,    *)
(* whether stored by clients, by the factory quirk or over REST.           *)
PresetsFit ==
  /\ \A i, j \in DOMAIN presets : presets[i].token = presets[j].token => i = j
  /\ Len(presets) <= MaxPresets

(* What holds of the head in every state. *)
HeadConsistent == HeadTypeOK /\ WithinLimits /\ StatusFollowed /\ PadSettles /\ PresetsFit

(* Once everybody has left, whatever was moving comes to rest and IDLE is  *)
(* signalled, though no read integrates the move any more.                 *)
MovesEnd == ~attended ~> (~notified /\ ~ticker /\ ~Moving(head))

(* Where the head is now, whether or not anybody has asked. *)
Now == Advance(head, lag)

(* The lazily integrated head is at every moment where a head would be     *)
(* that moves by itself at every tick of the clock: time moves it one      *)
(* tick's way, and integrating - a read, the ticker - does not move it.    *)
MovesOnItsOwn ==
  [][/\ lag' = lag + 1 => Now' = Advance(Now, 1)
     /\ head' = Now /\ lag' = 0 => Now' = Now]_<<head, lag>>
=============================================================================
