-------------------------- MODULE MCSlotMigration --------------------------
(* Small instances of SlotMigration for TLC.                                *)
EXTENDS SlotMigration, TLC

NodeSymmetry == Permutations(Nodes)
KeySymmetry  == Permutations(Keys)
Symmetry     == NodeSymmetry \cup KeySymmetry
=============================================================================
