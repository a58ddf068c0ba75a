---------------------------- MODULE MCRaftChecks ----------------------------
(***************************************************************************)
(* Instances of RaftChecks for TLC.                                         *)
(***************************************************************************)
EXTENDS RaftChecks, TLC

CONSTANTS cmdA, cmdB

\* The harness only compares commands.
CommandSymmetry == Permutations({cmdA, cmdB})
=============================================================================
