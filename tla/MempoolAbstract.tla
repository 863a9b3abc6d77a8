-------------------------- MODULE MempoolAbstract --------------------------
(***************************************************************************)
(* What the mempool promises about the SET of transactions it holds, with  *)
(* no indexes, fees, orphans or order inside a call.  A step either leaves *)
(* the chain alone (a relay, a reorganize event), connects a block or      *)
(* disconnects the tip.  In every step:                                    *)
(*   - the pool never holds two transactions spending one outpoint;        *)
(*   - a transaction that enters the pool can be spent from the chain's    *)
(*     coins and the outputs of the pool it enters;                        *)
(*   - a transaction that leaves the pool, other than by being confirmed,  *)
(*     takes every pool transaction spending its outputs with it;          *)
(*   - connecting a block removes every pool transaction that spends an    *)
(*     outpoint a block transaction spends.                                *)
(***************************************************************************)
EXTENDS Sequences, SequencesExt

CONSTANTS
    TxIds,          \* transactions
    Spends,         \* Spends[t]: the outpoints t consumes
    Creates,        \* Creates[t]: the outpoints t creates
    GenesisCoins    \* the coins before the first block

VARIABLES
    pool,   \* the set of transactions in the mempool
    chain   \* the blocks, each a sequence of transactions

AbsConfirmed(c) == UNION {Range(c[h]) : h \in DOMAIN c}

AbsUtxo(c) ==
    (GenesisCoins \cup UNION {Creates[t] : t \in AbsConfirmed(c)})
        \ UNION {Spends[t] : t \in AbsConfirmed(c)}

ConflictFree(P) == \A a, b \in P : a # b => Spends[a] \cap Spends[b] = {}

SpendableIn(t, P, c) == Spends[t] \subseteq AbsUtxo(c) \cup UNION {Creates[p] : p \in P}

SpentBy(P, x) == {y \in P : Spends[y] \cap Creates[x] # {}}

\* The pool moves to pool', the chain to chain'; conf left by confirmation.
Update(conf) ==
    LET gone == pool \ (pool' \cup conf) IN
    /\ ConflictFree(pool')
    /\ \A t \in pool' \ pool : SpendableIn(t, pool', chain')
    /\ \A x \in gone : SpentBy(pool, x) \subseteq gone

\* A relay, or a reorganize event: the chain stays.
Change ==
    /\ chain' = chain
    /\ Update({})

\* A block b is connected on the tip.
Connect ==
    /\ Len(chain') = Len(chain) + 1
    /\ SubSeq(chain', 1, Len(chain)) = chain
    /\ LET b == Range(Last(chain'))
           spent == UNION {Spends[u] : u \in b}
       IN /\ Update(b)
          /\ \A t \in pool \ b : Spends[t] \cap spent # {} => t \notin pool'

\* The tip is disconnected.
Disconnect ==
    /\ chain # <<>>
    /\ chain' = Front(chain)
    /\ Update({})

Init == pool = {} /\ chain = <<>>

Next == Change \/ Connect \/ Disconnect

Spec == Init /\ [][Next]_<<pool, chain>>

=============================================================================
