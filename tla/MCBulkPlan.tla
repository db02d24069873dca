------------------------------ MODULE MCBulkPlan ------------------------------
(* Instances of BulkPlan for TLC: octets of two bits, 256 addresses.       *)
EXTENDS PlannedBatch, TLC

TwoTwo == <<2, 2>>

\* Usable are 128..159 and 176..191.  Addresses around ends of subnets and of
\* special ranges, and no address.
Starts == {127, 128, NotAnAddress} \cup 136..140 \cup {142, 143, 158, 159, 175, 176, 190, 191}

OneStart == {139}

\* Subnets of all sizes that matter, from all addresses to one, and masks
\* with a hole, at either end.
Masks == {0, 128, 240, 248, 252, 254, 255, 170, 15}
OneRowMask == {248}

Gateways == {0, 137, 190}
GatewayInside == {137}
Places == {138, 140, 143}

Symmetry == Permutations(Row) \cup Permutations(Mac)
===============================================================================
