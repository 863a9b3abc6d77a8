------------------------------- MODULE MCBlock -------------------------------
(***************************************************************************)
(* Checks of the block-body helpers over every small block.  The block is  *)
(* a variable fixed in the initial state, one initial state per block, and *)
(* never changes: each property is a statement about one call.            *)
(***************************************************************************)
EXTENDS Block

CONSTANTS c1, c2, none

VARIABLE blk

MCCommitments == {c1, c2}

\* Transactions with no outputs that matter to check_body: a coinbase or
\* not, sane or not, up to two legacy sigops, one or two bytes of base size.
BodyTxs == [coinbase : BOOLEAN, sane : BOOLEAN, sigops : 0..2, base : 1..2,
            outputs : {<<>>}]

\* Blocks of up to three such transactions, with every verdict of
\* btc_merkle_root.
BodyBlocks == [mutated : BOOLEAN, rootok : BOOLEAN,
               txs : UNION {[1..k -> BodyTxs] : k \in 0..3}]

\* Blocks with one sane coinbase whose up to four outputs carry c1, c2 or
\* no commitment, and the block with no transactions.
CommitBlocks ==
    LET cb(o) == [coinbase |-> TRUE, sane |-> TRUE, sigops |-> 0, base |-> 1, outputs |-> o]
    IN {[mutated |-> FALSE, rootok |-> TRUE, txs |-> txs] :
            txs \in {<<>>} \cup {<<cb(o)>> : o \in UNION {[1..k -> MCCommitments \cup {none}] : k \in 0..4}}}

BlockSpec == blk \in BodyBlocks \cup CommitBlocks /\ [][UNCHANGED blk]_blk

\* The rules of check_body, each stated of the whole block: the reasons
\* whose rule the block breaks.
BrokenRules(b) ==
    LET txs == b.txs
        n == Len(txs)
        rules == { <<n = 0 \/ n > MaxBlockSize \/ BaseSize(b) > MaxBlockSize, "bad-blk-length">>,
                   <<n > 0 /\ ~txs[1].coinbase, "bad-cb-missing">>,
                   <<b.mutated, "bad-txns-duplicate">>,
                   <<~b.rootok, "bad-txnmrklroot">>,
                   <<\E i \in 2..n : txs[i].coinbase, "bad-cb-multiple">>,
                   <<\E i \in 1..n : ~txs[i].sane, "bad-tx-sanity">>,
                   <<FoldSeq(LAMBDA tx, s : s + tx.sigops, 0, txs) * ScaleFactor > MaxSigopsCost,
                     "bad-blk-sigops">> }
    IN {r[2] : r \in {r \in rules : r[1]}}

\* btc_block_check_body accepts exactly the blocks that break no rule, and
\* rejects the others for a rule they really break: the sigops limit is
\* tested in the loop on a running count, interleaved with the coinbase
\* and sanity tests of each tx, yet must bound the whole block's sigops.
CheckBodyExact ==
    IF BrokenRules(blk) = {} THEN CheckBody(blk) = "OK"
    ELSE CheckBody(blk) \in BrokenRules(blk)

\* The commitment is the one in the highest-index coinbase output that has
\* one: btc_block_get_commitment_hash walks down to index 0 inclusive and
\* stops only when the size_t index wraps, also for a coinbase with no
\* outputs.
CommitmentIsLast ==
    LET outs == IF blk.txs = <<>> THEN <<>> ELSE blk.txs[1].outputs
        I == {i \in DOMAIN outs : outs[i] # none}
    IN GetCommitmentHash(blk) = IF I = {} THEN none ELSE outs[Max(I)]
=============================================================================
