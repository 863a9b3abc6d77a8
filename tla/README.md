# TLA+ models of the mako mempool

This directory holds TLA+ specifications of the mempool core of mako
(`src/src/node/mempool.c`) and of the block-body checks in
`src/src/block.c`. It also holds the TLC configurations that check
them and `PROJECT.json`. That file lists every component, run, mutant and
hazard, and maps each definition to the source lines it models.

## The system

The mempool sits between the peer-to-peer layer and the chain. Three
public calls change its state:

- `btc_mempool_add` (line 1123): a peer relays a transaction.
  - `btc_mempool_insert` runs the policy checks, builds a view of chain
    coins plus pool outputs, and tries `btc_mempool_verify`.
  - If inputs are missing, the tx goes to the orphan table
    (`check_orphan`, `add_orphan`, `limit_orphans`).
  - Otherwise `add_entry` tracks the entry in the `map` and `spents`
    indexes and rolls its fee up into all ancestors
    (`update_ancestors`/`add_fee`). It then calls `handle_orphans`, which
    resolves orphans waiting on this tx and re-enters `btc_mempool_add` for
    each of them.
  - Finally `limit_size` evicts expired root packages, then the cheapest
    root packages by `cmp_rate`, until the pool is under its threshold.
  - A failed add puts the txid in the `rejects` bloom filter.
- `btc_mempool_add_block` (line 1157): the chain connected a block. Walking
  the block backwards, it does one of two things per tx:
  - a confirmed entry is removed;
  - any other tx loses its orphan record, its pool conflicts are evicted with
    their subtrees, and orphans waiting on it are resolved.

  Then the reject filter is reset.
- `btc_mempool_remove_block` (line 1197): the chain disconnected a block. Its
  txs are re-inserted first to last, and the reject filter is reset.
- `btc_mempool_handle_reorg` (line 1224): after the chain's disconnects, the
  chain's reorganize event walks the entries. It evicts, with their
  descendants, those no longer final at the next height, and those whose
  sequence locks no longer hold.

The node is single-threaded with respect to the pool. Each of these calls
runs to completion before the next, so **each call is one atomic step**.
The concurrency-like hazards come from inside a call:

- the recursive cascade add → add_entry → handle_orphans → add;
- evictions while iterating hash maps;
- the order in which resolved orphans are resubmitted.

## Inventory

| component | source | state | operations | status |
|---|---|---|---|---|
| mempool | `src/src/node/mempool.c` | `map`, `spents`, `orphans`, `waiting`, `size`, `rejects` | add, add_block, remove_block, handle_reorg, open/close, read API | modelled (`Mempool`, `MempoolAbstract`) |
| block helpers | `src/src/block.c` | none | check_body, base_size, get_commitment_hash; serialise, hash, merkle and witness roots | partly (`Block`): the functions that decide are modelled; the rest wraps library calls outside this repository or is I/O |
| network parameters | `src/src/mainnet.c` | constant table | none | not modelled: constants enter as CONSTANTS |
| hash maps | `src/src/map/*.c` | generic | macro instantiations | not modelled: TLA+ functions instead; iteration order is nondeterminism |
| wire messages | `src/include/mako/netmsg.h` | none | declarations | not modelled |
| tests | `src/test/t-tx.c` | none | tx vectors | not modelled |

Every call that changes the pool is a step of `Mempool`. Some parts are
left out, each for a reason:

- `open`/`close` only resolve a file path and log. Nothing is persisted,
  so there is no crash or restart to model.
- The read-only API (`size`, `has`, `get`, `missing`, iterate) changes
  nothing.
- No public call prioritises a tx (`preprioritise` and `postprioritise`
  are unused), so `delta_fee` equals `fee`.
- Coinbase maturity (`handle_reorg` lines 1256-1277) is left out: the model
  has no coinbase transactions.

## Module `Mempool`

### State

| variable | code |
|---|---|
| `mp.map` | txid → `[time, desc_fee, desc_size]`, the `btc_mpentry_t` fields the logic reads |
| `mp.spents` | outpoint → spending entry (`btc_outmap_t`) |
| `mp.orphans` | orphan txid → its `missing` counter |
| `mp.waiting` | parent txid → set of orphans waiting on it |
| `mp.size` | `mp->size` |
| `mp.rejects` | the reject filter, as an exact set |
| `chain` | the environment: a stack of blocks; the UTXO set and coin heights are derived from it |
| `now` | `btc_now()` |
| `reorg` | the chain has disconnected blocks and has not yet emitted its reorganize event |

### Structure

A transaction is a model value. Its inputs (`InputSeq`), outputs (`NOut`),
fee and size are CONSTANTS.

Each C function that changes the pool is an operator from a pool state to
the set of states it may end in. For example:

- `Insert`, `Add`, `HandleOrphans` and `ResubmitAll` are mutually RECURSIVE,
  as the C calls are.
- `LimitOrphans` yields one outcome per random victim (`btc_uniform`, line 379).
- `ResubmitAll` explores every order of the resolved orphan set (a hash-set
  iteration, line 538).
- `PopCheapest` branches on heap ties.

The actions `Receive`, `ConnectBlock` and `DisconnectBlock` call `Add`,
`AddBlock` and `RemoveBlock` with the environment `Env(chain, now)`, which
is what `btc_mempool_view` reads.

`ConnectBlock` picks any block a miner could build on the tip:
- no tx that is already confirmed;
- no script failure;
- inputs spent in order.

- no tx that is final only later (`LockTime`);
- no tx whose inputs are not yet deep enough for its relative lock
  (`SeqLock`).

`DisconnectBlock` sets `reorg`. The action `Reorg` runs `HandleReorg` and
clears it. `ConnectBlock` waits for it, as a chain that disconnects, emits
reorganize, then connects does. Relays may come in between.

`HandleReorg` evicts the failing entries in every order the map walk could
visit them (`EvictAll`). The set of failing entries is fixed at the start:
- finality reads only the tip;
- an entry's locks read its parents' coins, and a pool parent leaves only
  together with its descendants.

Finality and locks are per-tx constants:
- `btc_chain_verify_final` at tip + 1 is `LockTime[t] < height + 1`.
- `btc_chain_verify_locks` wants each input coin `SeqLock[t]` blocks deep.
  A pool coin, or one the view lacks, counts at the next height, so a
  lock-using child of an unconfirmed parent is refused.

`Tick` advances the clock, so entries can expire in `limit_size`.

## Module `MempoolAbstract` and the refinement

`MempoolAbstract` says what the pool promises about its set of
transactions:
- it never holds two transactions spending one outpoint;
- whatever enters is spendable from the chain and the pool it enters;
- whatever leaves, other than by confirmation, takes every pool transaction
  spending its outputs with it;
- a connected block clears every pool transaction that conflicts with it.

`Mempool` instantiates it with `pool <- DOMAIN mp.map`. `RefinesAbstract`
(its `Spec`) is checked as a temporal property of `Mempool`'s `Spec`.

The abstract spec promises nothing about transactions that merely stay in
the pool. That is where the `reorg_dangling` finding lives.

## Module `Block`

`Block` writes two functions of `src/src/block.c` as operators:

- `CheckBody` is `btc_block_check_body`. It has the same tests in the same
  order. The loop over the txs is `CheckTxs`, which carries the running
  legacy-sigops count.
- `GetCommitmentHash` is `btc_block_get_commitment_hash`. Its loop,
  `FindCommitment`, counts a `size_t` index down from `outputs.length - 1`
  and stops when the index wraps to `(size_t)-1`. `SizeT` is arithmetic
  modulo `2^SizeWidth`.

Whatever these functions get from the library outside this repository is an
input:
- `btc_merkle_root`'s verdict on the block, `mutated` and `rootok`;
- per tx: coinbase, sanity, legacy sigops and base size;
- per coinbase output: the commitment `btc_script_get_commitment` finds, or
  `NoCommitment`.

`MCBlock` holds the block in a variable fixed in the initial state, one
initial state per block, so each run is a check of one call over every
input.

## Module `MCAncestors`

`MCAncestors` is a check of the algorithm alone, over every set of entries
of a seven-transaction graph. The graph has two diamonds and a tx with five
ancestors. It compares `Traverse` (`traverse_ancestors`) with a least-fixpoint
ancestor set. The transitive closure of the `Relation` module recomputes each
level without sharing, and is far too slow for eight nodes.

### Abstractions

The control of the modelled functions is kept: their early returns, the
order of their checks and the error paths that the chosen transactions can
reach. Some guards are dropped, as listed below. What is abstracted:

- Checks that depend on data the model does not carry collapse into sets of
  txids: `NonStandard` for `btc_tx_check_standard`, `ScriptFail` for script
  verification.
- Sanity, coinbase, premature CSV/witness and sigops cannot fail for the
  chosen constants, and are left out. So are `check_orphan`'s TX_WEIGHT
  refusal (lines 442-445) and `verify`'s nonstandard-input, SCRIPT_POLICY
  and negative-rc paths (lines 951-1005). `FEE_HIGH`, finality and sequence
  locks are kept in their places in the order.
- No error is malleable and no tx has a witness, so every failed add enters
  `rejects`.
- RBF is not enabled, so `REPLACEMENT` is `INPUTS_SPENT`.
- The callbacks `on_tx` and `on_badorphan` have no effect on the pool and
  are left out.
- The heap of `limit_size` is a min-heap on `cmp_rate`: the cheapest package
  goes first.

## Runs

The runs use `MCMempool`, a graph over the genesis coin G (outputs 1 and 2):

| tx | spends | fee | note |
|---|---|---|---|
| A | G:1 | 2 | |
| X | G:2 | 1 | |
| D | A:1 and X:1 | 1 | a diamond child |
| Y | G:2 | 0 | conflicts with X; zero fee, so below the relay fee |
| Z | Y:1 | 1 | |
| W | A:1 | 1 | conflicts with D |

Every size is 1. The other constants are:

- `MinRelay = 1`, `MaxAncestors = 3`.
- `MaxSize = 2`, `Threshold = 1`: a third entry forces eviction.
- `Expiry = 1`, `MaxTime = 1`.

This graph reaches, in a few steps:

- orphans with two missing parents;
- two orphans waiting on one parent (D and W on A);
- resolution cascades;
- eviction of a diamond;
- block conflicts that evict a subtree;
- a disconnect whose tx is refused on re-admission.

`CONSTRAINT DescBounded` cuts off states where a rollup has drifted above
6. Such drift only happens through the bug `rollup_diamond` shows.

| run | cfg | expect | what it shows |
|---|---|---|---|
| `mempool_core` | `MCMempool.cfg` | pass | Txs A, X, D, Y, Z; up to 2 blocks of up to 2 txs; 1 orphan slot; D final only from height 2 and X's input needing two blocks of depth. `TypeOK`, `IndexConsistent`, `OrphanIndexConsistent`, `OrphansBounded` and `SizeBounded` (spec invariant 8: within the hard cap after every call) hold, the indexes staying exact through `handle_reorg`'s evictions in any walk order. Outside a reorganisation every entry is final and its locks hold at the next height (`PoolValidAtTip`). A block connect keeps a spendable pool spendable (`ConnectKeepsPoolSpendable`). Every step refines `MempoolAbstract` (`RefinesAbstract`). About 35,600 states, 30 s. |
| `orphan_cascade` | `MCOrphans.cfg` | pass | W added, 2 orphan slots, no blocks. Conflicting orphans resolved in either order, re-orphaning and random victims keep the orphan and spender indexes exact. Every orphan left in the table still misses a parent (`OrphansHaveMissingParent`, spec invariant 6): without blocks, `resolve_orphans` and `handle_orphans` never strand an orphan whose parents are all present. About 6,500 states. |
| `rollup_diamond` | `MC_RollupExact.cfg` | violation | `RollupExact` (spec invariant 5) fails. Admit A, X, then D: the size limit evicts X with its child D, and A's `desc_fee`/`desc_size` still count D. The cause is `remove_spenders` at line 782, which never rolls back other ancestors. |
| `orphan_stranded` | `MC_OrphansHaveMissingParent.cfg` | violation | `OrphansHaveMissingParent` (spec invariant 6) fails. D is an orphan and the pool has no entries; block [A, X] confirms both parents. `add_block` returns at line 1164 before resolving orphans, so D waits forever. |
| `reorg_dangling` | `MC_PoolSpendable.cfg` | violation | `PoolSpendable` fails after the reorganisation is done. Z is resolved from the orphan table after block [A, Y] confirms its parent. Disconnecting the block re-inserts Y, which fails with FEE_LOW. `remove_block` (line 1213) ignores the failure and `handle_reorg` does not look at inputs, so Z stays, spending a coin that exists nowhere. |
| `ancestors_exact` | `MCAncestors.cfg` | pass | For all 128 sets of entries and all 7 txs, with `MaxAncestors = 3`: `Traverse` visits each in-pool ancestor once. Its length is the ancestor count, or `MaxAncestors + 1` when the count is larger (`AncestorsExact`). |
| `reorg_lost_tx` | `MC_ReorgRestores.cfg` | violation | `ReorgRestores` (spec invariant 9) fails. The pool is {A}, and connecting then disconnecting block [A] leaves it empty: `add_block` removes A, and `remove_block` returns at line 1204 because the pool is empty. |
| `reinsert_rollup` | `MC_ReinsertRollup.cfg` | violation | `RollupExact` (spec invariant 5) fails with no diamond: only A and its child W exist. Block [A] confirms A, and W is admitted spending the chain coin A:1. Disconnecting the block re-inserts A through `insert` (line 1207), which rolls A's fee into A's ancestors but never counts W, already in the pool, into A. |
| `rejects_stale` | `MC_RejectsReset.cfg` | violation | `RejectsResetOnBlock` (spec 4.6: the filter is reset on every block apply or revert) fails. With the `mempool_core` locks, X is refused for its sequence lock while the pool is empty. Block [A] is then connected, and `add_block` returns at line 1164 before the reset at line 1189, so X stays rejected. |
| `block_checks` | `MCBlock.cfg` | pass | Every block of up to three txs, with every merkle verdict, and every coinbase of up to four outputs, each carrying c1, c2 or nothing: 57,822 blocks. `CheckBody` accepts exactly the blocks that break no rule of check_body stated of the whole block, and otherwise names a rule the block breaks (`CheckBodyExact`). `GetCommitmentHash` returns the commitment of the highest-index output that has one (`CommitmentIsLast`). |
| `orphan_waiting_stale` | `MC_OrphanWaitingExact.cfg` | violation | `OrphanWaitingExact` (spec invariant 6) fails. No blocks, and `MaxSize = 1`. A is admitted, D becomes an orphan waiting on X only, then admitting W evicts A with W. D misses A again, but `waiting` records only X. `evict_entry` (line 786) never re-registers orphans. |

Why these bounds are enough:

- Every branch of every modelled function is reached, with at most five
  relays.
- The two-slot orphan table needs a third orphan before a victim is chosen.
  Its run therefore has no blocks, so the state space stays small.
- In `mempool_core`, one block at height 1 is enough to make D and X
  admissible. Disconnecting it invalidates them, along with any children.
- `orphan_waiting_stale` needs an eviction with no blocks. With
  `MaxSize = 2`, this graph never fills the pool, so the cap is 1.
- `reinsert_rollup` uses the parent-child pair alone, so a stale rollup can
  come only from the re-insertion, never from a diamond.
- Block checks: `MaxBlockSize = 6` with one byte of header and one of
  count prefix, so three txs of one or two bytes can go either way.
  `MaxSigopsCost = 8` and `ScaleFactor = 4` allow two sigops in all, so
  two txs can pass the limit each on its own and exceed it together.
  `SizeWidth = 16`: the wrap at `(size_t)-1` behaves the same at any width.
- Larger graphs repeat the same shapes.

### Mutants

Each property of the passing runs is broken by a plausible bug in the code
it is about:

| property | mutant | bug |
|---|---|---|
| `TypeOK` | `TrackEntryDeadline` | entry time set to the deadline |
| `IndexConsistent` | `RemoveEntriesKeepSpents` | untrack without `outmap_del` |
| `OrphanIndexConsistent` | `RemoveOrphanKeepEmpty` | an empty waiting set is not freed |
| `OrphansBounded` | `LimitOrphansOffByOne` | `<=` in `limit_orphans` |
| `OrphansHaveMissingParent` | `ResolveOrphansNoDecrement` | `resolve_orphans` drops the waiting set without decrementing `missing` |
| `ConnectKeepsPoolSpendable` | `ConnectTxsNoConflicts` | `add_block` skips `remove_double_spends` |
| `PoolValidAtTip` | `ReorgInvalidNoLocks` | `handle_reorg` skips the lock re-check |
| `RefinesAbstract` | `EvictEntryKeepDescendants` | `evict_entry` skips `remove_spenders` |
| `AncestorsExact` | `TraverseNoDedup` | `traverse_ancestors` without the hash-set test |
| `SizeBounded` | `LimitSizeExpiryOnly` | `limit_size` without the heap pass |
| `CheckBodyExact` | `CheckTxsNoSum` | `sigops = ` instead of `sigops += ` in check_body |
| `CommitmentIsLast` | `FindCommitmentAscending` | the commitment loop runs upward, so the first commitment wins |

## Fairness

None. Everything checked is safety. Every public call terminates, because
its recursion is over a shrinking set. Any progress beyond one call depends
on peers relaying, miners producing blocks and the chain emitting its
reorganize event, and nothing in this code schedules or guarantees those.
One example is a transiently rejected tx becoming acceptable after a block
resets `rejects`. What the code must do when a block does come (reset the
filter) is checked as safety by `rejects_stale`.

## Not modelled, and the plan

1. Bloom false positives of `rejects` (line 1140), as a membership the
   filter may report for txids it never saw. The model keeps the filter as
   an exact set, because a false positive depends on hashes, which are
   model values here. A false positive only makes
   `check_orphan` refuse an orphan that would otherwise be stored. The
   spec tolerates that, and no property of the pool depends on it.
2. `cmp_rate` overflow (line 853). TLC's integers are 32-bit, so the
   int64 products cannot be kept at their width. Fees are bounded by
   FEE_HIGH, so only the stale rollups of `rollup_diamond` could grow the
   products that far.
3. Coinbase maturity in `handle_reorg`. This needs coinbase outputs and
   block heights below which they are immature.
4. The ancestor cap after `remove_block` re-inserts a parent. The spec
   calls the cap soft; `reinsert_rollup` shows the path.
5. In `block.c`, the merkle and witness roots, the witness nonce, the
   commitment hash, the coinbase height and the sizes and weights only
   glue calls into the library outside this repository (`btc_merkle_root`,
   `hash256`, `btc_script_*`, `btc_tx_*`). Serialisation is I/O.
6. `mainnet.c` is a parameter table, the hash-map files are macro
   instantiations, `netmsg.h` holds declarations, and `t-tx.c` holds test
   vectors. None of them has behaviour across calls.
