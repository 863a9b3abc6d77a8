------------------------------- MODULE Block -------------------------------
(***************************************************************************)
(* The block-body helpers of mako (src/src/block.c) that decide something: *)
(* btc_block_check_body, the context-free validity test a block passes     *)
(* before it is connected, with btc_block_base_size, which it reads; and   *)
(* btc_block_get_commitment_hash, which finds the witness commitment among *)
(* the coinbase outputs.  They are pure functions, written as operators.   *)
(*                                                                         *)
(* What these functions get from the library outside this repository is   *)
(* an input here: btc_merkle_root's verdict (mutated or not, and whether   *)
(* the root it computes equals the header's), and per transaction         *)
(* btc_tx_is_coinbase, btc_tx_check_sanity, btc_tx_legacy_sigops,         *)
(* btc_tx_base_size, and btc_script_get_commitment of each output.  A    *)
(* block b is a record: mutated, rootok (btc_merkle_root's verdict) and   *)
(* txs, each tx a record of those inputs with its outputs as a sequence   *)
(* of the commitments found in them, or NoCommitment.                      *)
(***************************************************************************)
EXTENDS Integers, SequencesExt, FiniteSets

CONSTANTS
    MaxBlockSize,   \* BTC_MAX_BLOCK_SIZE
    MaxSigopsCost,  \* BTC_MAX_BLOCK_SIGOPS_COST
    ScaleFactor,    \* BTC_WITNESS_SCALE_FACTOR
    HeaderSize,     \* btc_header_size
    CountSize,      \* btc_size_size(txs.length), the tx-count prefix
    SizeWidth,      \* bits of size_t
    Commitments,    \* the hashes a commitment output can carry
    NoCommitment    \* an output that carries no commitment

ASSUME NoCommitment \notin Commitments

\* The largest size_t, the value (size_t)-1 the commitment loop stops at.
SizeMax == 2^SizeWidth - 1

\* size_t arithmetic.
SizeT(n) == n % 2^SizeWidth

-----------------------------------------------------------------------------
(* btc_block_base_size and btc_block_check_body.                           *)

\* btc_block_base_size: header, the count prefix and each tx's base size.
BaseSize(b) == HeaderSize + CountSize + FoldSeq(LAMBDA tx, s : s + tx.base, 0, b.txs)

\* Mutant: the loop sets the running count instead of adding to it.
RECURSIVE CheckTxsNoSum(_, _, _)
CheckTxsNoSum(txs, i, sigops) ==
    IF i > Len(txs) THEN "OK"
    ELSE LET tx == txs[i] IN
         IF i > 1 /\ tx.coinbase THEN "bad-cb-multiple"
         ELSE IF ~tx.sane THEN "bad-tx-sanity"
         ELSE IF tx.sigops * ScaleFactor > MaxSigopsCost THEN "bad-blk-sigops"
         ELSE CheckTxsNoSum(txs, i + 1, tx.sigops)

\* The loop of btc_block_check_body over txs[i..], with the legacy sigops
\* counted so far.  A failing btc_tx_check_sanity returns its own reason.
RECURSIVE CheckTxs(_, _, _)
CheckTxs(txs, i, sigops) ==
    IF i > Len(txs) THEN "OK"
    ELSE LET tx == txs[i] IN
         IF i > 1 /\ tx.coinbase THEN "bad-cb-multiple"
         ELSE IF ~tx.sane THEN "bad-tx-sanity"
         ELSE IF (sigops + tx.sigops) * ScaleFactor > MaxSigopsCost THEN "bad-blk-sigops"
         ELSE CheckTxs(txs, i + 1, sigops + tx.sigops)

\* btc_block_check_body: the reason of the first failing check, or "OK".
CheckBody(b) ==
    LET n == Len(b.txs) IN
    IF n = 0 \/ n > MaxBlockSize \/ BaseSize(b) > MaxBlockSize THEN "bad-blk-length"
    ELSE IF ~b.txs[1].coinbase THEN "bad-cb-missing"
    ELSE IF b.mutated THEN "bad-txns-duplicate"
    ELSE IF ~b.rootok THEN "bad-txnmrklroot"
    ELSE CheckTxs(b.txs, 1, 0)

-----------------------------------------------------------------------------
(* btc_block_get_commitment_hash.                                          *)

\* Mutant: the loop runs upward from output 0, so the first commitment wins.
FindCommitmentAscending(outs, i) ==
    LET I == {k \in 0..i : outs[k + 1] # NoCommitment}
    IN IF i = SizeMax \/ I = {} THEN NoCommitment ELSE outs[Min(I) + 1]

\* The loop over the coinbase outputs from index i (0-based) down, ending
\* when i wraps to (size_t)-1.
RECURSIVE FindCommitment(_, _)
FindCommitment(outs, i) ==
    IF i = SizeMax THEN NoCommitment
    ELSE IF outs[i + 1] # NoCommitment THEN outs[i + 1]
    ELSE FindCommitment(outs, SizeT(i - 1))

\* btc_block_get_commitment_hash: the commitment found, or NoCommitment
\* when the function returns 0.  With no outputs the start index
\* outputs.length - 1 is already (size_t)-1.
GetCommitmentHash(b) ==
    IF b.txs = <<>> THEN NoCommitment
    ELSE LET outs == b.txs[1].outputs IN FindCommitment(outs, SizeT(Len(outs) - 1))
=============================================================================
