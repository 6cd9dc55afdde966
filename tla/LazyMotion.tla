----------------------------- MODULE LazyMotion -----------------------------
(***************************************************************************)
(* The arithmetic of a motor whose position nobody computes until somebody *)
(* asks: PtzState moves pan, tilt and zoom with it, ImagingState the focus.*)
(* Positions lie on an integer grid, one unit of time is the grid's tick.  *)
(* A group of axes starts and stops together.  A group's motion is a record*)
(*   mode    "idle", "continuous" or "target"                              *)
(*   value   where each axis stands                                        *)
(*   vel     continuous: the signed velocity; target: the positive rate    *)
(*   target  where each axis is going                                      *)
(*   left    time to the deadline of a ContinuousMove, None if unlimited   *)
(*   hold    time for which a slow move still reports MOVING, None if none *)
(* Times are counted from the last integration, so nothing in the record   *)
(* grows with the clock.                                                   *)
(***************************************************************************)
EXTENDS Integers

None == -1

Clamp(v, lo, hi) == IF v < lo THEN lo ELSE IF v > hi THEN hi ELSE v

Magnitude(v) == IF v < 0 THEN -v ELSE v

(* A move without a speed, or with speed 0, goes at full speed. *)
SpeedFactor(raw, full) ==
  IF raw = 0 THEN full ELSE Clamp(Magnitude(raw), 0, full)

(* One axis after dt: it is driven into a limit, or snaps to its target. *)
Cruised(v, vel, dt, lo, hi) == Clamp(v + vel * dt, lo, hi)

Approached(v, goal, rate, dt) ==
  IF Magnitude(goal - v) <= rate * dt
  THEN goal
  ELSE IF goal > v THEN v + rate * dt ELSE v - rate * dt

CanMove(v, vel, lo, hi) == (vel > 0 /\ v < hi) \/ (vel < 0 /\ v > lo)

(* Time past the deadline is not integrated. *)
Allowed(g, dt) == IF g.left = None \/ dt <= g.left THEN dt ELSE g.left

Values(g, dt, lo, hi) ==
  [a \in DOMAIN g.value |->
     IF g.mode = "continuous"
     THEN Cruised(g.value[a], g.vel[a], Allowed(g, dt), lo[a], hi[a])
     ELSE Approached(g.value[a], g.target[a], g.vel[a], Allowed(g, dt))]

(* Does any axis still have somewhere to go once it stands at val? *)
Driving(g, val, lo, hi) ==
  \E a \in DOMAIN g.value :
    IF g.mode = "continuous"
    THEN CanMove(val[a], g.vel[a], lo[a], hi[a])
    ELSE val[a] # g.target[a]

(* The group is done at its deadline, or when no axis is driven and no     *)
(* minimum duration still runs.                                            *)
Finished(g, val, dt, lo, hi) ==
  \/ g.left # None /\ dt >= g.left
  \/ ~Driving(g, val, lo, hi) /\ (g.hold = None \/ dt >= g.hold)

Later(t, dt) == IF t = None THEN None ELSE IF dt < t THEN t - dt ELSE 0

(* At rest.  What an idle group keeps of its last move nobody reads, so it *)
(* is cleared.                                                             *)
Still(g, val) ==
  [mode   |-> "idle",
   value  |-> val,
   vel    |-> [a \in DOMAIN g.vel |-> 0],
   target |-> [a \in DOMAIN g.target |-> 0],
   left   |-> None,
   hold   |-> None]

(* On its way, dt later. *)
Running(g, val, dt) ==
  [mode   |-> g.mode,
   value  |-> val,
   vel    |-> g.vel,
   target |-> g.target,
   left   |-> Later(g.left, dt),
   hold   |-> Later(g.hold, dt)]

(* Integrates dt units of time into the group.                             *)
(* Mutant: time past the deadline is integrated too. *)
StepGroupPastDeadline(g, dt, lo, hi) ==
  IF g.mode = "idle" THEN g
  ELSE LET val == Values([g EXCEPT !.left = None], dt, lo, hi)
       IN  IF Finished(g, val, dt, lo, hi) THEN Still(g, val)
           ELSE Running(g, val, dt)

StepGroup(g, dt, lo, hi) ==
  IF g.mode = "idle" THEN g
  ELSE LET val == Values(g, dt, lo, hi)
       IN  IF Finished(g, val, dt, lo, hi) THEN Still(g, val)
           ELSE Running(g, val, dt)

(* How a group is set going; the caller then integrates a step of length 0 *)
(* so that a move with nowhere to go is over at once.                      *)
Drive(g, vel, timeout) ==
  [mode   |-> "continuous",
   value  |-> g.value,
   vel    |-> vel,
   target |-> [a \in DOMAIN g.target |-> 0],
   left   |-> IF timeout > 0 THEN timeout ELSE None,
   hold   |-> None]

Aim(g, target, rate, hold) ==
  [mode   |-> "target",
   value  |-> g.value,
   vel    |-> rate,
   target |-> target,
   left   |-> None,
   hold   |-> IF hold > 0 THEN hold ELSE None]
=============================================================================
