----------------------------- MODULE MCDiscovery -----------------------------
(* Instances of Discovery for TLC.                                         *)
EXTENDS Discovery, TLC

CONSTANTS window, rescan, cam, nvr

\* The window searches twice, a rescan once.
TwoAndOne == window :> 2 @@ rescan :> 1

\* A camera that answers in layer 2 and a recorder whose answer has no MAC
\* address.
OneEach == cam :> {"l2"} @@ nvr :> {"ssdp"}
Unnamed == cam :> "lower" @@ nvr :> "none"
===============================================================================
