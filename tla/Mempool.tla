------------------------------ MODULE Mempool ------------------------------
(***************************************************************************)
(* The mempool core of mako (src/src/node/mempool.c).                      *)
(*                                                                         *)
(* The pool is single-writer and every public call runs to completion      *)
(* (btc_mempool_add, btc_mempool_add_block, btc_mempool_remove_block), so  *)
(* each call is ONE step of this specification.  A call is written as an   *)
(* operator from a pool state to the SET of pool states it may end in:     *)
(* the set holds one element per outcome of the choices the code leaves    *)
(* open (the random orphan victim, the hash-set iteration order of         *)
(* resolved orphans, ties in the eviction heap).  The nested cascade       *)
(* add -> add_entry -> handle_orphans -> add is a mutual recursion of      *)
(* those operators, exactly as in the C call graph.                        *)
(*                                                                         *)
(* The pool state mp is a record with the fields of struct btc_mempool_s   *)
(* that the code changes: map (txid -> entry), spents (outpoint ->         *)
(* spender), orphans (txid -> missing count), waiting (parent txid -> set  *)
(* of orphans), size, and the rejects filter.  The chain is the            *)
(* environment: a stack of blocks from which the UTXO set is derived.      *)
(***************************************************************************)
EXTENDS Integers, SequencesExt, FiniteSets, TLC

CONSTANTS
    TxIds,          \* the non-coinbase transactions peers and blocks carry
    Genesis,        \* a confirmed transaction whose outputs are the first coins
    InputSeq,       \* InputSeq[t]: the prevouts <<txid, index>> of t, in order
    NOut,           \* NOut[t]: number of outputs of t (t \in TxIds \cup {Genesis})
    Fee,            \* Fee[t]: the fee btc_tx_check_inputs derives for t
    Size,           \* Size[t]: the sigops-adjusted virtual size of t
    NonStandard,    \* txs failing btc_tx_check_standard (can still be mined)
    LockTime,       \* LockTime[t]: height lock time of t (0: none)
    SeqLock,        \* SeqLock[t]: relative height lock of t's inputs (0: none)
    ScriptFail,     \* txs failing script verification (never mined)
    MinRelay,       \* relay fee per size unit: btc_get_fee(min_relay, size)
    MaxOrphans,     \* BTC_MEMPOOL_MAX_ORPHANS
    MaxAncestors,   \* BTC_MEMPOOL_MAX_ANCESTORS
    MaxSize,        \* BTC_MEMPOOL_MAX_SIZE (hard cap)
    Threshold,      \* BTC_MEMPOOL_THRESHOLD (eviction target)
    Expiry,         \* BTC_MEMPOOL_EXPIRY_TIME
    MaxTime,        \* bound on the clock
    MaxHeight,      \* bound on the chain length
    MaxBlockTxs     \* bound on non-coinbase txs per block

ASSUME Genesis \notin TxIds /\ Threshold <= MaxSize /\ MaxAncestors >= 1

VARIABLES
    mp,     \* the btc_mempool_t record
    chain,  \* sequence of blocks, each a sequence of non-coinbase txids
    now,    \* btc_now()
    reorg   \* blocks were disconnected and handle_reorg has not run yet

vars == <<mp, chain, now, reorg>>

-----------------------------------------------------------------------------
(* Transactions, outpoints and the chain's UTXO set.                       *)

AllTx == TxIds \cup {Genesis}
Inputs(t) == Range(InputSeq[t])
Parents(t) == {op[1] : op \in Inputs(t)}
Outputs(t) == {<<t, i>> : i \in 1..NOut[t]}
Outpoints == UNION {Outputs(t) : t \in AllTx} \cup UNION {Inputs(t) : t \in TxIds}

Confirmed(c) == UNION {Range(c[h]) : h \in DOMAIN c}

Utxo(c) == (Outputs(Genesis) \cup UNION {Outputs(t) : t \in Confirmed(c)})
              \ UNION {Inputs(t) : t \in Confirmed(c)}

\* The height of the block that confirmed t (the genesis tx is at height 0).
ConfirmedAt(c, t) == IF t = Genesis THEN 0 ELSE CHOOSE h \in DOMAIN c : t \in Range(c[h])

\* What the pool reads from its collaborators during one call: the coins,
\* the tip height, the height of each confirmed tx, and the clock.
Env(c, clock) ==
    [utxo |-> Utxo(c), height |-> Len(c), now |-> clock,
     coinh |-> [t \in Confirmed(c) \cup {Genesis} |-> ConfirmedAt(c, t)]]

\* Remove the keys S from function f.
Drop(f, S) == Restrict(f, DOMAIN f \ S)

EmptyPool == [map |-> <<>>, spents |-> <<>>, orphans |-> <<>>,
              waiting |-> <<>>, size |-> 0, rejects |-> {}]

-----------------------------------------------------------------------------
(* Views and indexes.                                                      *)

\* btc_mempool_view: an output of an in-pool parent (index in range), or a
\* coin btc_chain_get_coins finds in the chain.
InView(m, e, op) ==
    \/ op[1] \in DOMAIN m.map /\ op[2] <= NOut[op[1]]
    \/ op \in e.utxo

HasCoins(m, e, t) == \A op \in Inputs(t) : InView(m, e, op)

ChainHasCoins(e, t) == Outputs(t) \cap e.utxo # {}

IsDoubleSpend(m, t) == Inputs(t) \cap DOMAIN m.spents # {}

\* btc_chain_verify_final at the tip height + 1: a height lock time below it.
IsFinal(e, t) == LockTime[t] < e.height + 1

\* btc_chain_verify_locks on the view: each input's coin is SeqLock[t]
\* blocks deep at the next height.  A coin of the pool, or one the view
\* lacks, counts as being at the next height.
CoinHeight(e, op) == IF op \in e.utxo THEN e.coinh[op[1]] ELSE e.height + 1

LocksHold(e, t) == \A op \in Inputs(t) : CoinHeight(e, op) + SeqLock[t] <= e.height + 1

HasDependencies(m, t) == Parents(t) \cap DOMAIN m.map # {}

\* traverse_ancestors: depth-first over the inputs in order, deduplicated,
\* stopping once more than MaxAncestors parents have been visited.  The
\* result is the visited sequence (its length is the returned count).
\* Mutant: the visited-set test (btc_hashset_has) is left out.
RECURSIVE TraverseNoDedup(_, _, _)
TraverseNoDedup(m, ins, vis) ==
    IF ins = <<>> \/ Len(vis) > MaxAncestors THEN vis
    ELSE LET p == Head(ins)[1] IN
         IF p \notin DOMAIN m.map
         THEN TraverseNoDedup(m, Tail(ins), vis)
         ELSE TraverseNoDedup(m, Tail(ins), TraverseNoDedup(m, InputSeq[p], Append(vis, p)))

RECURSIVE Traverse(_, _, _)
Traverse(m, ins, vis) ==
    IF ins = <<>> \/ Len(vis) > MaxAncestors THEN vis
    ELSE LET p == Head(ins)[1] IN
         IF p \notin DOMAIN m.map \/ p \in Range(vis)
         THEN Traverse(m, Tail(ins), vis)
         ELSE Traverse(m, Tail(ins), Traverse(m, InputSeq[p], Append(vis, p)))

AncestorSeq(m, t) == Traverse(m, InputSeq[t], <<>>)

\* btc_mempool_update_ancestors with add_fee / remove_fee as the map.
UpdateAncestors(m, t, dfee, dsize) ==
    LET A == Range(AncestorSeq(m, t))
        ent == m.map
    IN [m EXCEPT !.map = [x \in DOMAIN ent |->
            IF x \in A
            THEN [ent[x] EXCEPT !.desc_fee = @ + dfee, !.desc_size = @ + dsize]
            ELSE ent[x]]]

AddFee(m, t) == UpdateAncestors(m, t, Fee[t], Size[t])

RemoveFee(m, t) == UpdateAncestors(m, t, -m.map[t].desc_fee, -m.map[t].desc_size)

\* Mutant: the entry records its expiry deadline instead of btc_now().
TrackEntryDeadline(m, e, t) ==
    [m EXCEPT
        !.map = (t :> [time |-> e.now + Expiry, desc_fee |-> Fee[t], desc_size |-> Size[t]]) @@ @,
        !.spents = [op \in Inputs(t) |-> t] @@ @,
        !.size = @ + Size[t]]

\* btc_mempool_track_entry (btc_outmap_put overwrites an existing key).
TrackEntry(m, e, t) ==
    [m EXCEPT
        !.map = (t :> [time |-> e.now, desc_fee |-> Fee[t], desc_size |-> Size[t]]) @@ @,
        !.spents = [op \in Inputs(t) |-> t] @@ @,
        !.size = @ + Size[t]]

\* Mutant: untrack forgets the btc_outmap_del of the inputs.
RemoveEntriesKeepSpents(m, S) ==
    [m EXCEPT !.map = Drop(@, S), !.size = @ - MapThenSumSet(LAMBDA t : Size[t], S)]

\* btc_mempool_remove_entry of each entry in S (untrack, no fee rollback).
RemoveEntries(m, S) ==
    [m EXCEPT
        !.map = Drop(@, S),
        !.spents = Drop(@, UNION {Inputs(t) : t \in S}),
        !.size = @ - MapThenSumSet(LAMBDA t : Size[t], S) ]

Spenders(m, t) == {m.spents[op] : op \in Outputs(t) \cap DOMAIN m.spents}

RECURSIVE Reach(_, _)
Reach(m, S) ==
    LET N == UNION {Spenders(m, x) : x \in S} \ S
    IN IF N = {} THEN S ELSE Reach(m, S \cup N)

\* btc_mempool_remove_spenders: every transitive spender, via the spents index.
Descendants(m, t) == Reach(m, {t}) \ {t}

\* Mutant: evict_entry forgets btc_mempool_remove_spenders.
EvictEntryKeepDescendants(m, t) == RemoveEntries(RemoveFee(m, t), {t})

\* btc_mempool_evict_entry.
EvictEntry(m, t) ==
    LET m1 == RemoveEntries(m, Descendants(m, t))
    IN RemoveEntries(RemoveFee(m1, t), {t})

\* btc_mempool_remove_double_spends, input by input.
RECURSIVE RemoveDoubleSpends(_, _)
RemoveDoubleSpends(m, ins) ==
    IF ins = <<>> THEN m
    ELSE LET op == Head(ins) IN
         RemoveDoubleSpends(IF op \in DOMAIN m.spents
                            THEN EvictEntry(m, m.spents[op]) ELSE m,
                            Tail(ins))
-----------------------------------------------------------------------------
(* Orphans.                                                                *)

\* Mutant: an emptied waiting set is not freed.
RemoveOrphanKeepEmpty(m, t) ==
    IF t \notin DOMAIN m.orphans THEN m
    ELSE [m EXCEPT
            !.waiting = [p \in DOMAIN @ |-> IF p \in Parents(t) THEN @[p] \ {t} ELSE @[p]],
            !.orphans = Drop(@, {t})]

\* btc_mempool_remove_orphan: unlink from the waiting sets of its parents,
\* freeing a set that becomes empty.
RemoveOrphan(m, t) ==
    IF t \notin DOMAIN m.orphans THEN m
    ELSE LET W == [p \in DOMAIN m.waiting |->
                      IF p \in Parents(t) THEN m.waiting[p] \ {t} ELSE m.waiting[p]]
         IN [m EXCEPT
                !.waiting = Drop(W, {p \in Parents(t) \cap DOMAIN W : W[p] = {}}),
                !.orphans = Drop(@, {t})]

\* Mutant: the cap test is off by one.
LimitOrphansOffByOne(m) ==
    IF Cardinality(DOMAIN m.orphans) <= MaxOrphans THEN {m}
    ELSE {RemoveOrphan(m, v) : v \in DOMAIN m.orphans}

\* btc_mempool_limit_orphans: at the cap, a uniformly chosen victim goes.
LimitOrphans(m) ==
    IF Cardinality(DOMAIN m.orphans) < MaxOrphans THEN {m}
    ELSE {RemoveOrphan(m, v) : v \in DOMAIN m.orphans}

\* btc_mempool_check_orphan: the first input missing from the view whose
\* parent is rejected, or is in the pool, refuses the orphan.
RECURSIVE CheckOrphan(_, _, _)
CheckOrphan(m, e, ins) ==
    IF ins = <<>> THEN "OK"
    ELSE LET op == Head(ins) IN
         IF InView(m, e, op) THEN CheckOrphan(m, e, Tail(ins))
         ELSE IF op[1] \in m.rejects THEN "DUPLICATE"
         ELSE IF op[1] \in DOMAIN m.map THEN "INPUTS_MISSING"
         ELSE CheckOrphan(m, e, Tail(ins))

\* btc_mempool_add_orphan: register under each distinct missing parent.
AddOrphan(m, e, t) ==
    LET missing == {op[1] : op \in {op \in Inputs(t) : ~InView(m, e, op)}}
        Register(m1) ==
            [m1 EXCEPT
                !.waiting = [p \in DOMAIN @ \cup missing |->
                                (IF p \in DOMAIN @ THEN @[p] ELSE {})
                                \cup (IF p \in missing THEN {t} ELSE {})],
                !.orphans = (t :> Cardinality(missing)) @@ @]
    IN {Register(m1) : m1 \in LimitOrphans(m)}

\* Mutant: the waiting set is fetched and dropped, but the missing count of
\* its orphans is not decremented.
ResolveOrphansNoDecrement(m, parent) ==
    LET W == m.waiting[parent]
        R == {o \in W : m.orphans[o] = 0}
    IN [m |-> [m EXCEPT !.orphans = Drop(@, R), !.waiting = Drop(@, {parent})],
        resolved |-> R]

\* btc_mempool_resolve_orphans: decrement the orphans waiting on parent and
\* take out the ones that reach zero; the waiting set of parent is freed.
ResolveOrphans(m, parent) ==
    LET W == m.waiting[parent]
        dec == [o \in DOMAIN m.orphans |->
                    IF o \in W THEN m.orphans[o] - 1 ELSE m.orphans[o]]
        R == {o \in W : dec[o] = 0}
    IN [m |-> [m EXCEPT !.orphans = Drop(dec, R), !.waiting = Drop(@, {parent})],
        resolved |-> R]

-----------------------------------------------------------------------------
(* Size limiting.                                                          *)

\* use_desc: the descendants sweeten the package rate of entry t.
UseDesc(m, t) == m.map[t].desc_fee * Size[t] > Fee[t] * m.map[t].desc_size

\* The (fee, size) pair cmp_rate uses for entry t.
Rate(m, t) ==
    IF UseDesc(m, t) THEN <<m.map[t].desc_fee, m.map[t].desc_size>>
    ELSE <<Fee[t], Size[t]>>

\* cmp_rate(a, b) < 0: a is cheaper, ties broken by the older time.
Cheaper(m, a, b) ==
    LET ra == Rate(m, a)
        rb == Rate(m, b)
        x == ra[1] * rb[2]
        y == ra[2] * rb[1]
    IN IF x = y THEN m.map[a].time < m.map[b].time ELSE x < y

\* The expiry pass of btc_mempool_limit_size.  Evicting an expired root
\* removes its subtree and rolls back no fee (a root has no ancestors), so
\* the result does not depend on the hash-map iteration order.
RECURSIVE ExpireRoots(_, _)
ExpireRoots(m, S) ==
    IF S = {} THEN m
    ELSE LET x == CHOOSE x \in S : TRUE IN
         ExpireRoots(IF x \in DOMAIN m.map THEN EvictEntry(m, x) ELSE m, S \ {x})

\* The heap pass: pop the cheapest queued root until under Threshold.
RECURSIVE PopCheapest(_, _)
PopCheapest(m, Q) ==
    IF Q = {} \/ m.size <= Threshold THEN {m}
    ELSE UNION {PopCheapest(EvictEntry(m, x), Q \ {x}) :
                    x \in {a \in Q : \A b \in Q : ~Cheaper(m, b, a)}}

\* Mutant: limit_size runs the expiry pass only, never the heap.
LimitSizeExpiryOnly(m, e, added) ==
    IF m.size <= MaxSize THEN {[m |-> m, rc |-> "OK"]}
    ELSE LET roots == {x \in DOMAIN m.map : ~HasDependencies(m, x)}
             m1 == ExpireRoots(m, {x \in roots : e.now >= m.map[x].time + Expiry})
         IN {[m |-> m1, rc |-> IF added \in DOMAIN m1.map THEN "OK" ELSE "MEMPOOL_FULL"]}

\* btc_mempool_limit_size, with the MEMPOOL_FULL mapping of btc_mempool_insert.
LimitSize(m, e, added) ==
    IF m.size <= MaxSize THEN {[m |-> m, rc |-> "OK"]}
    ELSE LET roots == {x \in DOMAIN m.map : ~HasDependencies(m, x)}
             old == {x \in roots : e.now >= m.map[x].time + Expiry}
             m1 == ExpireRoots(m, old)
         IN {[m |-> m2, rc |-> IF added \in DOMAIN m2.map THEN "OK" ELSE "MEMPOOL_FULL"] :
                m2 \in PopCheapest(m1, roots \ old)}

-----------------------------------------------------------------------------
(* Admission.                                                              *)

\* The code of the first failing check of an ordered list <<cond, code>>.
FirstFailure(checks) ==
    LET failed == {i \in DOMAIN checks : checks[i][1]}
    IN IF failed = {} THEN "OK" ELSE checks[Min(failed)][2]

\* The checks of btc_mempool_insert before the view is built.
PreChecks(m, e, t) ==
    << <<t \in NonStandard, "STANDARD">>,
       <<~IsFinal(e, t), "FINALITY">>,
       <<t \in DOMAIN m.orphans \/ t \in DOMAIN m.map, "TX_IN_MEMPOOL">>,
       <<ChainHasCoins(e, t), "TX_KNOWN">>,
       <<IsDoubleSpend(m, t), "INPUTS_SPENT">> >>

MinFee(t) == MinRelay * Size[t]

\* btc_mempool_verify, in its order.
Verify(m, e, t) ==
    FirstFailure(<< <<~LocksHold(e, t), "FINALITY">>,
                    <<Fee[t] < MinFee(t), "FEE_LOW">>,
                    <<Fee[t] > MinFee(t) * 10000, "FEE_HIGH">>,
                    <<Len(AncestorSeq(m, t)) + 1 > MaxAncestors, "MEMPOOL_CHAIN">>,
                    <<t \in ScriptFail, "SCRIPT_CONSENSUS">> >>)

Result(m, rc) == [m |-> m, rc |-> rc]

RECURSIVE Insert(_, _, _), Add(_, _, _), HandleOrphans(_, _, _),
          ResubmitAll(_, _, _)

\* btc_mempool_insert: the set of [m, rc] outcomes of inserting t.
Insert(m, e, t) ==
    LET pre == FirstFailure(PreChecks(m, e, t)) IN
    IF pre # "OK" THEN {Result(m, pre)}
    ELSE IF ~HasCoins(m, e, t)
    THEN LET orc == CheckOrphan(m, e, InputSeq[t]) IN
         IF orc # "OK" THEN {Result(m, orc)}
         ELSE {Result(m1, "OK") : m1 \in AddOrphan(m, e, t)}
    ELSE LET vrc == Verify(m, e, t) IN
         IF vrc # "OK" THEN {Result(m, vrc)}
         ELSE UNION {LimitSize(m1, e, t) :
                        m1 \in HandleOrphans(AddFee(TrackEntry(m, e, t), t), e, t)}

\* btc_mempool_add: a failed insert puts t in the rejects filter (no error
\* of this model is malleable and no tx of it has a witness).
Add(m, e, t) ==
    {IF r.rc = "OK" THEN r
     ELSE Result([r.m EXCEPT !.rejects = @ \cup {t}], r.rc) : r \in Insert(m, e, t)}

\* btc_mempool_handle_orphans: resubmit each resolved orphan, in any order,
\* dropping one that comes back as an orphan again.
HandleOrphans(m, e, parent) ==
    IF parent \notin DOMAIN m.waiting THEN {m}
    ELSE LET r == ResolveOrphans(m, parent) IN ResubmitAll(r.m, e, r.resolved)

ResubmitAll(m, e, R) ==
    IF R = {} THEN {m}
    ELSE UNION {UNION {ResubmitAll(IF r.rc = "OK" /\ o \in DOMAIN r.m.orphans
                                   THEN RemoveOrphan(r.m, o) ELSE r.m,
                                   e, R \ {o}) : r \in Add(m, e, o)} : o \in R}

-----------------------------------------------------------------------------
(* Block handling.                                                         *)

\* Mutant: the loop skips btc_mempool_remove_double_spends.
RECURSIVE ConnectTxsNoConflicts(_, _, _)
ConnectTxsNoConflicts(m, e, txs) ==
    IF txs = <<>> THEN {m}
    ELSE LET t == Last(txs) IN
         IF t \in DOMAIN m.map
         THEN ConnectTxsNoConflicts(RemoveEntries(m, {t}), e, Front(txs))
         ELSE UNION {ConnectTxsNoConflicts(m1, e, Front(txs)) :
                m1 \in HandleOrphans(RemoveOrphan(m, t), e, t)}

\* The loop of btc_mempool_add_block, from the last tx of the block down.
RECURSIVE ConnectTxs(_, _, _)
ConnectTxs(m, e, txs) ==
    IF txs = <<>> THEN {m}
    ELSE LET t == Last(txs) IN
         IF t \in DOMAIN m.map
         THEN ConnectTxs(RemoveEntries(m, {t}), e, Front(txs))
         ELSE UNION {ConnectTxs(m1, e, Front(txs)) :
                m1 \in HandleOrphans(RemoveDoubleSpends(RemoveOrphan(m, t), InputSeq[t]), e, t)}

\* btc_mempool_add_block: returns at once when the pool has no entries.
AddBlock(m, e, b) ==
    IF DOMAIN m.map = {} THEN {m}
    ELSE {[m1 EXCEPT !.rejects = {}] : m1 \in ConnectTxs(m, e, b)}

\* The loop of btc_mempool_remove_block: btc_mempool_insert, first to last.
RECURSIVE DisconnectTxs(_, _, _)
DisconnectTxs(m, e, txs) ==
    IF txs = <<>> THEN {m}
    ELSE LET t == Head(txs) IN
         IF t \in DOMAIN m.map THEN DisconnectTxs(m, e, Tail(txs))
         ELSE UNION {DisconnectTxs(r.m, e, Tail(txs)) : r \in Insert(m, e, t)}

\* btc_mempool_remove_block: returns at once when the pool has no entries.
RemoveBlock(m, e, b) ==
    IF DOMAIN m.map = {} THEN {m}
    ELSE {[m1 EXCEPT !.rejects = {}] : m1 \in DisconnectTxs(m, e, b)}

\* Mutant: handle_reorg forgets the sequence-lock re-check.
ReorgInvalidNoLocks(e, t) == ~IsFinal(e, t)

\* The checks of btc_mempool_handle_reorg for entry t at the new tip.  No tx
\* of the model spends a coinbase output, so the maturity branch is void.
ReorgInvalid(e, t) == ~IsFinal(e, t) \/ (SeqLock[t] > 0 /\ ~LocksHold(e, t))

\* Evict the entries S one after another, in every order the hash-map walk
\* may visit them; one already removed with an ancestor is skipped.
RECURSIVE EvictAll(_, _)
EvictAll(m, S) ==
    IF S = {} THEN {m}
    ELSE UNION {EvictAll(IF x \in DOMAIN m.map THEN EvictEntry(m, x) ELSE m, S \ {x}) :
                    x \in S}

\* btc_mempool_handle_reorg.  Whether an entry fails does not change during
\* the walk: finality reads only the tip, and the coins an entry's locks
\* read are chain coins or outputs of pool parents, and a parent leaves the
\* pool only together with its descendants.  So the walk evicts exactly the
\* entries failing at the start, in the order it meets them.
HandleReorg(m, e) == EvictAll(m, {t \in DOMAIN m.map : ReorgInvalid(e, t)})

-----------------------------------------------------------------------------
(* The environment: blocks a miner may produce on the current chain.       *)

RECURSIVE SpendsValid(_, _)
SpendsValid(u, txs) ==
    txs = <<>> \/
    /\ Inputs(Head(txs)) \subseteq u
    /\ SpendsValid((u \ Inputs(Head(txs))) \cup Outputs(Head(txs)), Tail(txs))

\* Consensus lock rules for t in block b at the next height: final there,
\* and each input's coin SeqLock[t] blocks deep (a coin of b itself is at
\* the block's own height).
LocksValidIn(c, b, t) ==
    LET h == Len(c) + 1
        coinh(op) == IF op[1] \in Range(b) THEN h ELSE ConfirmedAt(c, op[1])
    IN LockTime[t] < h /\ \A op \in Inputs(t) : coinh(op) + SeqLock[t] <= h

ValidBlocks(c) ==
    {b \in UNION {[1..k -> TxIds \ (Confirmed(c) \cup ScriptFail)] : k \in 1..MaxBlockTxs} :
        /\ IsInjective(b)
        /\ SpendsValid(Utxo(c), b)
        /\ \A i \in DOMAIN b : LocksValidIn(c, b, b[i])}

-----------------------------------------------------------------------------
(* The specification.                                                      *)

Init ==
    /\ mp = EmptyPool
    /\ chain = <<>>
    /\ now = 0
    /\ reorg = FALSE

\* A peer relays t: btc_mempool_add(mp, tx, id).
Receive(t) ==
    /\ \E r \in Add(mp, Env(chain, now), t) : mp' = r.m
    /\ UNCHANGED <<chain, now, reorg>>

\* The chain connects a block, then calls btc_mempool_add_block.  During a
\* reorganisation the chain connects only after its reorganize event.
ConnectBlock ==
    /\ ~reorg
    /\ Len(chain) < MaxHeight
    /\ \E b \in ValidBlocks(chain) :
          /\ chain' = Append(chain, b)
          /\ mp' \in AddBlock(mp, Env(chain', now), b)
    /\ UNCHANGED <<now, reorg>>

\* The chain disconnects its tip, then calls btc_mempool_remove_block.
DisconnectBlock ==
    /\ chain # <<>>
    /\ chain' = Front(chain)
    /\ mp' \in RemoveBlock(mp, Env(chain', now), Last(chain))
    /\ reorg' = TRUE
    /\ UNCHANGED now

\* The chain's reorganize event, after its disconnects: handle_reorg.
Reorg ==
    /\ reorg
    /\ mp' \in HandleReorg(mp, Env(chain, now))
    /\ reorg' = FALSE
    /\ UNCHANGED <<chain, now>>

\* Wall-clock time passes.
Tick ==
    /\ now < MaxTime
    /\ now' = now + 1
    /\ UNCHANGED <<mp, chain, reorg>>

Next ==
    \/ \E t \in TxIds : Receive(t)
    \/ ConnectBlock
    \/ DisconnectBlock
    \/ Reorg
    \/ Tick

Spec == Init /\ [][Next]_vars

-----------------------------------------------------------------------------
(* Properties.                                                             *)

Entry == [time : 0..MaxTime, desc_fee : Int, desc_size : Int]

TypeOK ==
    /\ DOMAIN mp.map \subseteq TxIds
    /\ \A t \in DOMAIN mp.map : mp.map[t] \in Entry
    /\ DOMAIN mp.spents \subseteq Outpoints /\ Range(mp.spents) \subseteq TxIds
    /\ DOMAIN mp.orphans \subseteq TxIds /\ Range(mp.orphans) \subseteq Nat
    /\ DOMAIN mp.waiting \subseteq AllTx /\ Range(mp.waiting) \subseteq SUBSET TxIds
    /\ mp.size \in Nat
    /\ mp.rejects \subseteq TxIds
    /\ chain \in Seq(Seq(TxIds))
    /\ now \in 0..MaxTime
    /\ reorg \in BOOLEAN

\* The spender index holds exactly the inputs of the entries, each pointing
\* at its entry (so no two entries spend one outpoint, and the CHECKs of
\* btc_mempool_untrack_entry hold), and mp->size is the sum of the entry
\* sizes: after any sequence of add, add_block and remove_block calls.
IndexConsistent ==
    /\ DOMAIN mp.spents = UNION {Inputs(t) : t \in DOMAIN mp.map}
    /\ \A t \in DOMAIN mp.map : \A op \in Inputs(t) : mp.spents[op] = t
    /\ mp.size = MapThenSumSet(LAMBDA t : Size[t], DOMAIN mp.map)

\* The orphan indexes agree: no tx is both an entry and an orphan; every
\* waiting set is non-empty and holds only orphans (the CHECKs of
\* btc_mempool_resolve_orphans); each orphan's missing count is the number
\* of waiting sets it is in and is positive, so it can still be resolved.
OrphanIndexConsistent ==
    /\ DOMAIN mp.orphans \cap DOMAIN mp.map = {}
    /\ \A p \in DOMAIN mp.waiting :
          mp.waiting[p] # {} /\ mp.waiting[p] \subseteq DOMAIN mp.orphans
    /\ \A o \in DOMAIN mp.orphans :
          /\ mp.orphans[o] = Cardinality({p \in DOMAIN mp.waiting : o \in mp.waiting[p]})
          /\ mp.orphans[o] > 0

\* btc_mempool_limit_orphans keeps the orphan table within its cap.
OrphansBounded == Cardinality(DOMAIN mp.orphans) <= MaxOrphans

\* Every input of every entry is a coin of the chain or an output of an
\* entry: the pool could be mined on top of the current tip.
EntriesSpendable(m, c) ==
    \A t \in DOMAIN m.map : \A op \in Inputs(t) : InView(m, Env(c, now), op)

\* Spec invariant 8: once a call is done, the pool is within the hard cap.
\* The inner adds of handle_orphans grow the pool before the outer insert
\* reaches its limit_size, and remove_block re-inserts several txs, so every
\* insert that grows the pool must leave it under the cap itself.
SizeBounded == mp.size <= MaxSize

\* btc_mempool_add_block keeps a spendable pool spendable: confirmed entries
\* go, and every entry conflicting with a block tx goes with its subtree.
ConnectKeepsPoolSpendable ==
    [][ConnectBlock /\ EntriesSpendable(mp, chain) => EntriesSpendable(mp', chain')]_vars

\* The pool stays spendable across a reorganisation too: once the chain's
\* disconnects (remove_block) and its reorganize event (handle_reorg) are
\* done, every entry's inputs are chain coins or entry outputs.
PoolSpendable == ~reorg => EntriesSpendable(mp, chain)

\* Outside a reorganisation every entry is final at the next height and
\* its sequence locks hold there: add and orphan resolution check it at
\* admission, connecting a block only deepens coins, and handle_reorg
\* evicts what a disconnect invalidated, with its descendants.
PoolValidAtTip ==
    ~reorg => \A t \in DOMAIN mp.map : IsFinal(Env(chain, now), t) /\ LocksHold(Env(chain, now), t)

\* Spec 4.6: the reject filter is reset on every block apply or revert, so
\* a tx refused because its lock time had not passed is not held against
\* it, or against its children in check_orphan, once the chain has moved.
RejectsResetOnBlock == [][ConnectBlock \/ DisconnectBlock => mp'.rejects = {}]_vars

\* Spec invariant 9: connecting any block the chain could build now, then
\* disconnecting it again (add_block, remove_block, handle_reorg) gives back
\* a pool holding every entry of the pool before: the chain context is the
\* same, so no entry has been invalidated by it.
ReorgRestores ==
    ~reorg =>
        \A b \in ValidBlocks(chain) :
        \A m1 \in AddBlock(mp, Env(Append(chain, b), now), b) :
        \A m2 \in RemoveBlock(m1, Env(chain, now), b) :
        \A m3 \in HandleReorg(m2, Env(chain, now)) :
            DOMAIN mp.map \subseteq DOMAIN m3.map

\* Spec invariant 6, second half: the waiting index records exactly the
\* parents an orphan still misses (add_orphan, resolve_orphans).
OrphanWaitingExact ==
    \A o \in DOMAIN mp.orphans :
        {p \in DOMAIN mp.waiting : o \in mp.waiting[p]}
            = {op[1] : op \in {op \in Inputs(o) : ~InView(mp, Env(chain, now), op)}}

\* Spec invariant 5: desc_fee / desc_size of every entry are its own fee and
\* size plus those of all its in-pool descendants (add_fee / remove_fee).
RollupExact ==
    \A a \in DOMAIN mp.map :
        /\ mp.map[a].desc_fee = Fee[a] + MapThenSumSet(LAMBDA d : Fee[d], Descendants(mp, a))
        /\ mp.map[a].desc_size = Size[a] + MapThenSumSet(LAMBDA d : Size[d], Descendants(mp, a))

\* Spec invariant 6: every orphan still misses an input (neither a chain
\* coin nor an entry's output); otherwise it can never be resolved.  It is
\* about resolve_orphans and handle_orphans, which must take an orphan out
\* of the table once its last missing parent is admitted, and about
\* add_block, which must do the same when a block confirms that parent.
OrphansHaveMissingParent ==
    \A o \in DOMAIN mp.orphans : ~HasCoins(mp, Env(chain, now), o)

-----------------------------------------------------------------------------
(* Refinement: the set of entries behaves as MempoolAbstract says.         *)

Abstract == INSTANCE MempoolAbstract WITH
    pool <- DOMAIN mp.map,
    Spends <- [t \in TxIds |-> Inputs(t)],
    Creates <- [t \in TxIds |-> Outputs(t)],
    GenesisCoins <- Outputs(Genesis)

\* Every add, add_block, remove_block and handle_reorg call changes the set
\* of entries as MempoolAbstract allows: no two entries ever spend one
\* outpoint, an admitted or resolved tx is spendable where it lands, every
\* eviction (size, expiry, conflict, reorg) takes the evicted tx's
\* spenders with it, and a connected block clears all its conflicts.
RefinesAbstract == Abstract!Spec
=============================================================================
