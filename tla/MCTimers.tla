------------------------------ MODULE MCTimers ------------------------------
(***************************************************************************)
(* TLC instance of two parts of a camera in which time alone must make     *)
(* things end: the subscriptions with their long polls and expiries, and   *)
(* the pan/tilt/zoom head with its moves.  They share no state, so a       *)
(* behaviour works on one of them and leaves the other as it was.          *)
(***************************************************************************)
EXTENDS MCSubscriptions, PtzState

VARIABLE worked   \* which of the two this behaviour works on

MCGroups == [pantilt |-> {"pan", "tilt"}, zoom |-> {"zoom"}]
MCLo == [pan |-> -1, tilt |-> 0, zoom |-> 0]
MCHi == [pan |-> 1, tilt |-> 0, zoom |-> 1]
MCRate == [pan |-> 1, tilt |-> 1, zoom |-> 1]
At(p, t, z) == [pan |-> p, tilt |-> t, zoom |-> z]
MCVelocities == {At(-1, 1, 0)}
MCGoals == {At(1, 1, 1)}
MCSpots == {At(0, 0, 0)}

timersVars == <<vars, ptzVars, worked>>

(* The one that is worked on starts in any of its initial states. *)
TimersInit ==
  /\ worked \in {"subscriptions", "head"}
  /\ Init /\ (worked = "subscriptions" \/ quirks = {})
  /\ PtzInit /\ (worked = "head" \/ presets = <<>>)

OnSubscriptions(A) == worked = "subscriptions" /\ A /\ UNCHANGED <<ptzVars, worked>>
OnHead(A) == worked = "head" /\ A /\ UNCHANGED <<vars, worked>>

TimersNext == OnSubscriptions(Next) \/ OnHead(PtzNext)

\* The timers of both fire: the event loop serves every timer that is due.
TimersSpec ==
  /\ TimersInit /\ [][TimersNext]_timersVars
  /\ WF_timersVars(OnSubscriptions(Tick))
  /\ WF_timersVars(OnSubscriptions(Reap))
  /\ \A c \in Conns : WF_timersVars(OnSubscriptions(PullTimeout(c)))
  /\ WF_timersVars(OnHead((Elapse \/ Ticker) /\ UNCHANGED attended))
=============================================================================
