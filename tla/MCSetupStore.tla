---------------------------- MODULE MCSetupStore ----------------------------
(* A small instrument for TLC: one persistent item that a factory reset    *)
(* puts back, and one volatile item, or two persistent ones.               *)
EXTENDS SetupStore, TLC

AllOff == [k \in Item |-> "off"]
=============================================================================
