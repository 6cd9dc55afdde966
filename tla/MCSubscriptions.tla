-------------------------- MODULE MCSubscriptions ---------------------------
(* The instances of Subscriptions that TLC checks. *)
EXTENDS Subscriptions, TLC

\* Connections are interchangeable; used by the safety runs only.
ConnSymmetry == Permutations(Conns)

\* A value a configuration cannot write: a device clock that runs behind.
SlowClock == -2
=============================================================================
