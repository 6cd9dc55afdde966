------------------------------- MODULE MCFleet -------------------------------
(* The instances of Fleet that TLC checks. *)
EXTENDS Fleet

MCPresets == [generic |-> {}, brand |-> {"plain"}]
Says(q, state) ==
  [NoQuirks EXCEPT ![q] = [state |-> state, params |-> FALSE]]
MCWishes == {Says("plain", "off"), Says("tuned", "on")}
MCGlobalWishes == {Says("tuned", "on")}
MCWritten ==
  <<[id |-> 1, preset |-> "brand", http |-> 10, rtsp |-> 12, quirks |-> Says("tuned", "on")],
    [id |-> 1, preset |-> "generic", http |-> 13, rtsp |-> 15, quirks |-> NoQuirks]>>
=============================================================================
