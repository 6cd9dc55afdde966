--------------------------- MODULE MCEventEngine ----------------------------
(* The instances of EventEngine that TLC checks. *)
EXTENDS EventEngine

\* Two kinds of the real catalogs: motion has one topic in both styles, line
\* crossing has a topic of its own in each and is a property in one only.
TwoStyles ==
  [onvif |-> [Motion |-> "Motion", LineCrossing |-> "Crossed"],
   tplink |-> [Motion |-> "Motion", LineCrossing |-> "LineCross"]]
=============================================================================
