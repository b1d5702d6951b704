----------------------------- MODULE Operations -----------------------------
(***************************************************************************)
(* The operations of an indexed block (model.Operation) and what Index     *)
(* (src/indexdb/indexdb.go) makes of them before it touches the database:  *)
(* the map accts of balance changes, and the proxy accounts that the block *)
(* creates.                                                                *)
(***************************************************************************)
EXTENDS Integers, Sequences, SequencesExt

CONSTANT NoAccount   \* an empty account or receiver field of an operation

\* map[key] = value, and the same for every entry of another map.
Put(map, key, value) ==
  [k \in DOMAIN map \cup {key} |-> IF k = key THEN value ELSE map[k]]

PutAll(map, other) ==
  [k \in DOMAIN map \cup DOMAIN other |->
     IF k \in DOMAIN other THEN other[k] ELSE map[k]]

AddDiff(accts, acct, n) ==
  IF acct = NoAccount
    THEN accts
    ELSE Put(accts, acct, IF acct \in DOMAIN accts THEN accts[acct] + n ELSE n)

ApplyOp(accts, op) ==
  IF op.type = "CREATE_ACCOUNT"
    THEN AddDiff(accts, op.account, 0)
    ELSE AddDiff(AddDiff(accts, op.account, -op.amount), op.receiver, op.amount)

Diffs(block) == FoldLeft(ApplyOp, << >>, block)

ProxiesCreated(block) ==
  {block[i].account : i \in {j \in DOMAIN block :
                               /\ block[j].type = "CREATE_ACCOUNT"
                               /\ block[j].proxy}}

=============================================================================
