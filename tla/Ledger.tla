------------------------------- MODULE Ledger -------------------------------
(***************************************************************************)
(* What the index database promises to the rest of Flow Rosetta: it is a   *)
(* chain of blocks, one per height from the genesis block up, that grows   *)
(* at its end, and that records the balance of every account after every   *)
(* block.  The operator can cut the chain back to a height, and can give   *)
(* up accounts.  Nothing else ever changes it; in particular a crash does  *)
(* not.  IndexDB implements this specification.                            *)
(***************************************************************************)
EXTENDS Integers

CONSTANTS
  Accounts,      \* account addresses
  Hashes,        \* block hashes
  Blocks,        \* contents of blocks
  Root,          \* height of the genesis block
  Genesis,       \* content of the genesis block
  Effect(_, _)   \* Effect(b, a): change of the balance of a in block b

VARIABLES
  chain,         \* set of entries, one per indexed block
  accounts       \* accounts whose balances are recorded

vars == <<chain, accounts>>

Init ==
  /\ chain = {}
  /\ accounts = Accounts

\* The genesis block: all balances are zero.
Found ==
  /\ chain = {}
  /\ \E x \in Hashes :
       chain' = {[height   |-> Root,
                  hash     |-> x,
                  block    |-> Genesis,
                  balances |-> [a \in accounts |-> 0]]}
  /\ UNCHANGED accounts

\* The next block: it settles the balances of the block before it.
Append ==
  /\ \E tip \in chain, x \in Hashes, b \in Blocks :
       LET entry == [height   |-> tip.height + 1,
                     hash     |-> x,
                     block    |-> b,
                     balances |-> [a \in accounts |->
                                     tip.balances[a] + Effect(b, a)]]
       IN  /\ \A e \in chain : e.height <= tip.height
           /\ \A a \in accounts : entry.balances[a] >= 0
           /\ chain' = chain \cup {entry}
  /\ UNCHANGED accounts

\* Cut the chain back to the block at height base.
Truncate ==
  /\ \E base \in {e.height : e \in chain} :
       chain' = {e \in chain : e.height <= base}
  /\ UNCHANGED accounts

\* Give up the balances of some accounts.
Forget ==
  \E S \in SUBSET Accounts :
    /\ accounts' = accounts \ S
    /\ chain' = {[e EXCEPT !.balances = [a \in accounts' |-> e.balances[a]]] :
                   e \in chain}

Next == Found \/ Append \/ Truncate \/ Forget

Spec == Init /\ [][Next]_vars

=============================================================================
