---------------------------- MODULE MCMapReduce ----------------------------
(***************************************************************************)
(* Small instances of MapReduce for TLC.                                    *)
(***************************************************************************)
EXTENDS MapReduce, TLC

CONSTANTS w1, w2, w3, a, b

\* Both input files emit the key "a", so that its values come from two
\* intermediate files; file mr-1-1 stays empty.
MCmapf == (0 :> <<a, b>>) @@ (1 :> <<a>>)

\* One key for each reduce task when there are two; both keys for one.
MCihash == (a :> 0) @@ (b :> 1)

\* Workers are interchangeable in runs that check safety only.
WorkerSymmetry == Permutations(Workers)
=============================================================================
