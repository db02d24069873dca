---------------------------- MODULE MCModifyBatch ----------------------------
(* Instances of ModifyBatch for TLC.                                       *)
EXTENDS ModifyBatch, TLC

TwoAddresses == 1..2
ThreeAddresses == 1..3

AllModes == BOOLEAN
StaticOnly == {FALSE}
AllLengths == Length
ShortOnly == {"short"}
ShortOrLong == {"short", "long"}

Symmetry == Permutations(Device)
WorkerSymmetry == Permutations(Worker)
=============================================================================
