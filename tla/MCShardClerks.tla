---------------------------- MODULE MCShardClerks ----------------------------
(***************************************************************************)
(* An instance of ShardClerks for TLC.                                      *)
(***************************************************************************)
EXTENDS ShardClerks

\* The key "a", of the second of two shards.
MCKeys == {<<97>>}
=============================================================================
