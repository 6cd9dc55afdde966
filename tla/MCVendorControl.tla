--------------------------- MODULE MCVendorControl ---------------------------
(* The instances of VendorControl that TLC checks. *)
EXTENDS VendorControl

MCFirstLamps == {[on |-> FALSE, bright |-> 1]}
=============================================================================
