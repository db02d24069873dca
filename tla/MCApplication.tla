---------------------------- MODULE MCApplication ----------------------------
(* Instances of Application for TLC.                                       *)
EXTENDS Application

OneAddress == {1}
ThreeAddresses == 1..3

BothFrontends == {"gtk3", "gtk4"}
=============================================================================
