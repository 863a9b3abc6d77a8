---------------------------- MODULE MCAncestors ----------------------------
(***************************************************************************)
(* traverse_ancestors / btc_mempool_count_ancestors (the operator          *)
(* Traverse of Mempool) against a reference ancestor set, a least fixpoint *)
(* closure, for every transaction and every set of entries over a graph  *)
(* with two diamonds and a path of five ancestors:                         *)
(*   a <- G:1    b <- G:2    c <- a:1, b:1    d <- c:1, a:2               *)
(*   e <- d:1, b:2    f <- G:3, e:1    g <- e:2                           *)
(***************************************************************************)
EXTENDS Mempool

CONSTANTS a, b, c, d, e, f, g, G

AncTxIds == {a, b, c, d, e, f, g}

AncInputSeq ==
    (a :> << <<G, 1>> >>) @@ (b :> << <<G, 2>> >>) @@
    (c :> << <<a, 1>>, <<b, 1>> >>) @@ (d :> << <<c, 1>>, <<a, 2>> >>) @@
    (e :> << <<d, 1>>, <<b, 2>> >>) @@ (f :> << <<G, 3>>, <<e, 1>> >>) @@
    (g :> << <<e, 2>> >>)

AncNOut == (a :> 2) @@ (b :> 2) @@ (e :> 2) @@ [t \in AncTxIds \cup {G} |-> IF t = G THEN 3 ELSE 1]

AncOnes == [t \in AncTxIds |-> 1]
AncZeros == [t \in AncTxIds |-> 0]

\* Every set of entries, each with its index bookkeeping left empty.
AncInit ==
    /\ mp \in {[EmptyPool EXCEPT !.map = [t \in S |-> [time |-> 0, desc_fee |-> 0, desc_size |-> 0]]] :
                  S \in SUBSET TxIds}
    /\ chain = <<>>
    /\ now = 0
    /\ reorg = FALSE

AncSpec == AncInit /\ [][UNCHANGED vars]_vars

\* The reference: the least set holding t's in-pool parents and closed
\* under in-pool parents (the transitive closure of Relation recomputes each
\* level without sharing and is out of reach for eight nodes).
PoolParents(S) == UNION {Parents(x) \cap DOMAIN mp.map : x \in S}

RECURSIVE AncClosure(_)
AncClosure(S) == IF PoolParents(S) \subseteq S THEN S ELSE AncClosure(S \cup PoolParents(S))

PoolAncestors(t) == AncClosure(PoolParents({t}))

\* count_ancestors visits each in-pool ancestor of t at most once and stops
\* one past MaxAncestors: the count btc_mempool_verify compares is the
\* number of ancestors, capped at MaxAncestors + 1, and when it is below the
\* cap update_ancestors reaches every ancestor (so add_fee rolls up into
\* all of them).
AncestorsExact ==
    \A t \in TxIds :
        LET seq == AncestorSeq(mp, t)
            anc == PoolAncestors(t)
        IN /\ IsInjective(seq)
           /\ Range(seq) \subseteq anc
           /\ Len(seq) = IF Cardinality(anc) <= MaxAncestors
                         THEN Cardinality(anc) ELSE MaxAncestors + 1
=============================================================================
