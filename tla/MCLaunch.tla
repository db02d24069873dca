------------------------------- MODULE MCLaunch -------------------------------
(* Instances of Launch for TLC.                                            *)
EXTENDS Launch

\* On both sides of both limits.
TimeoutsAtLimits == {249, 250, 30000, 30001}
===============================================================================
