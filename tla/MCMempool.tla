----------------------------- MODULE MCMempool -----------------------------
(***************************************************************************)
(* A small transaction graph for Mempool:                                  *)
(*   G (genesis, outputs 1 and 2)                                          *)
(*   A spends G:1          X spends G:2          Y spends G:2 (zero fee,   *)
(*   D spends A:1 and X:1  (a diamond child)     conflicts with X)         *)
(*   Z spends Y:1          W spends A:1 (conflicts with D: two orphans       *)
(*                         waiting on one parent)                          *)
(***************************************************************************)
EXTENDS Mempool

CONSTANTS A, X, D, Y, Z, W, G

MCTxIds == {A, X, D, Y, Z, W}

\* The graph without W, for the runs that also connect and disconnect blocks.
MCChainTxIds == {A, X, D, Y, Z}
MCGenesis == G

\* A parent and its only child, no diamond: for the run in which the rollup
\* goes wrong only through remove_block re-inserting the parent.
MCParentChildTxIds == {A, W}

MCInputSeq ==
    (A :> << <<G, 1>> >>) @@ (X :> << <<G, 2>> >>) @@
    (D :> << <<A, 1>>, <<X, 1>> >>) @@ (Y :> << <<G, 2>> >>) @@
    (Z :> << <<Y, 1>> >>) @@ (W :> << <<A, 1>> >>)

MCNOut == [t \in MCTxIds |-> 1] @@ (G :> 2)

MCFee == (A :> 2) @@ (X :> 1) @@ (D :> 1) @@ (Y :> 0) @@ (Z :> 1) @@ (W :> 1)

MCSize == [t \in MCTxIds |-> 1]

\* No lock times: every tx is final and has no relative locks.
MCLockTime == [t \in MCTxIds |-> 0]
MCSeqLock == [t \in MCTxIds |-> 0]

\* For the main run: D is final only from height 2 on, and X's input must
\* be two blocks deep, so both are admissible only after a block and are
\* invalidated when the chain falls back to the genesis.
MCReorgLockTime == (D :> 1) @@ MCLockTime
MCReorgSeqLock == (X :> 2) @@ MCSeqLock

\* desc_fee can drift upward without bound (see RollupExact); the search
\* stops extending a state once some rollup exceeds MaxDescFee.
MaxDescFee == 6

DescBounded == \A t \in DOMAIN mp.map : mp.map[t].desc_fee <= MaxDescFee
=============================================================================
