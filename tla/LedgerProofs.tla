---------------------------- MODULE LedgerProofs ----------------------------
(***************************************************************************)
(* The index database implements the ledger, and what it has served for a  *)
(* block stays: proofs for every set of accounts, every set of blocks and  *)
(* every chain length.                                                     *)
(***************************************************************************)
EXTENDS IndexDBProofs

USE DEF Metas, Heights, Hashes

(***************************************************************************)
(* While requests are served, no answer for an indexed block changes.      *)
(***************************************************************************)

\* Once the process is ready, only the transaction of Index writes.
LEMMA ReadySteps ==
  ASSUME pc = "ready", [Next]_vars
  PROVE  \/ UNCHANGED db
         \/ \E h \in Heights, f \in Forks, b \in Blocks :
              IndexCommit(h, <<h, f>>, b)
<1>1. ~ (Boot \/ Start)
  BY DEF Boot, Start, LoadStore, SetGenesisCommit, SetGenesisPublish, Purge,
         ResyncSkip, ResyncFatal, ResetTo, ResetScan, DeleteBalance,
         DeleteBlock, DeleteHash2Height, DeleteHeight2Hash, DeleteProxy,
         ResetLatest, ResetPublish, InitState
<1>2. CASE IndexPublish \/ (\E h \in Heights : IndexGap(h)) \/ Crash \/ Exit
           \/ UNCHANGED vars
  BY <1>2 DEF IndexPublish, IndexGap, Crash, Exit, Stop, vars
<1> QED BY <1>1, <1>2 DEF Next, Index

LEMMA ReadyStep ==
  ASSUME IndexInv, IndexInv', pc = "ready", [Next]_vars
  PROVE  AnswersStay
<1> USE Constants
<1>1. CASE UNCHANGED db
  BY <1>1 DEF AnswersStay, balanceByHeight, db
<1>2. ASSUME NEW h \in Heights, NEW f \in Forks, NEW b \in Blocks,
             IndexCommit(h, <<h, f>>, b)
      PROVE  AnswersStay
  <2>1. h = latest.height + 1 /\ latest.height \in Heights
    BY <1>2 DEF IndexCommit, IsNext, IndexInv, Control, TypeOK
  <2> SUFFICES ASSUME NEW k \in Root..latest.height
               PROVE  /\ blockAt'[k] = blockAt[k] /\ hashAt'[k] = hashAt[k]
                      /\ \A a \in Accounts :
                           balanceByHeight(a, k)' = balanceByHeight(a, k)
    BY DEF AnswersStay
  <2>2. k \in Heights /\ k # h /\ k \in Root..(h - 1)
    BY <2>1
  <2>3. blockAt'[k] = blockAt[k] /\ hashAt'[k] = hashAt[k]
    BY <1>2, <2>2 DEF IndexCommit, IndexInv, TypeOK
  <2>4. ASSUME NEW a \in Accounts
        PROVE  balanceByHeight(a, k)' = balanceByHeight(a, k)
    BY <1>2, <2>2, IndexBalances
  <2> QED BY <2>3, <2>4
<1> QED BY <1>1, <1>2, ReadySteps

\* What was served for a block is served for it ever after, while the
\* process is up: the next block can change neither an earlier block nor a
\* balance at an earlier height.
THEOREM HistoryIsStable ==
  ASSUME RepeatReset
  PROVE  Spec => ServedHistoryStable
<1>1. IndexInv /\ IndexInv' /\ [Next]_vars => (pc = "ready" => AnswersStay)
  BY ReadyStep
<1> QED BY <1>1, IndexDBInvariant, PTL DEF Spec, ServedHistoryStable

(***************************************************************************)
(* The refinement.                                                         *)
(***************************************************************************)

\* A step that adds no block keeps the chain, cuts it back or gives up
\* accounts, but does not do the last two at once.
LEMMA CutOrForget ==
  ASSUME RepeatReset, IndexInv, [Next]_vars, Kept
  PROVE  purged' = purged \/ Intact' = Intact
<1>1. CASE Purge
  BY <1>1 DEF Purge, Intact
<1>2. CASE ~ Purge
  BY <1>2 DEF Next, Boot, ResetTo, Index, Start, LoadStore, SetGenesisCommit,
       SetGenesisPublish, ResyncSkip, ResyncFatal, ResetScan, DeleteBalance,
       DeleteBlock, DeleteHash2Height, DeleteHeight2Hash, DeleteProxy,
       ResetLatest, ResetPublish, InitState, IndexCommit, IndexPublish,
       IndexGap, Crash, Exit, Stop, vars, history
<1> QED BY <1>1, <1>2

\* The empty database is the empty ledger.
LEMMA LedgerInit == Init => L!Init
BY DEF Init, L!Init, LedgerChain, LedgerAccounts

\* The genesis block founds the ledger: every balance is zero.
LEMMA LedgerFound ==
  ASSUME IndexInv, IndexInv', SetGenesisCommit
  PROVE  L!Found
<1> USE Constants
<1>1. PICK f \in Forks :
        /\ dbGenesis' = [height |-> Root, hash |-> <<Root, f>>]
        /\ dbLatest' = [height |-> Root, hash |-> <<Root, f>>]
        /\ blockAt' = [blockAt EXCEPT ![Root] = << >>]
        /\ hashAt' = [hashAt EXCEPT ![Root] = <<Root, f>>]
  BY DEF SetGenesisCommit
<1>2. /\ dbGenesis = None /\ resetBase = None
      /\ UNCHANGED <<balanceAt, resetBase, purged>>
  BY DEF SetGenesisCommit, IndexInv, Control, history
<1>3. Intact' = Root /\ dbGenesis' # None
  BY <1>1, <1>2 DEF Intact
<1>4. blockAt'[Root] = << >> /\ hashAt'[Root] = <<Root, f>>
  BY <1>1 DEF IndexInv, TypeOK
<1>5. \A a \in Accounts : balanceByHeight(a, Root)' = 0
  <2> TAKE a \in Accounts
  <2>1. \A h \in Heights : balanceAt[a][h] = None
    BY <1>2 DEF IndexInv, Control, DbInv, NothingBeyondLatest
  <2>2. ~ \E k \in Heights : SeekStopsAt(balanceAt[a], Root, k)
    BY <2>1 DEF SeekStopsAt
  <2> QED BY <1>2, <2>2, SeekFails DEF balanceByHeight
<1>6. LedgerAccounts' = LedgerAccounts /\ LedgerAccounts \subseteq Accounts
  BY <1>2 DEF LedgerAccounts
<1>7. LedgerEntry(Root)' = [height   |-> Root,
                            hash     |-> <<Root, f>>,
                            block    |-> << >>,
                            balances |-> [a \in LedgerAccounts |-> 0]]
  BY <1>4, <1>5, <1>6 DEF LedgerEntry
<1>8. LedgerChain' = {LedgerEntry(Root)'}
  <2>1. LedgerChain' = {LedgerEntry(h)' : h \in Root..Root}
    BY <1>3 DEF LedgerChain
  <2>2. Root..Root = {Root}
    OBVIOUS
  <2> QED BY <2>1, <2>2
<1>9. LedgerChain = {}
  BY <1>2 DEF LedgerChain
<1>10. <<Root, f>> \in Hashes
  OBVIOUS
<1> QED BY <1>6, <1>7, <1>8, <1>9, <1>10 DEF L!Found

\* The transaction of Index appends an entry that settles the balances of
\* the one before it.
LEMMA LedgerAppend ==
  ASSUME IndexInv, IndexInv', NEW h \in Heights, NEW f \in Forks,
         NEW b \in Blocks, IndexCommit(h, <<h, f>>, b)
  PROVE  L!Append
<1> USE Constants
<1>1. /\ pc = "ready" /\ h = dbLatest.height + 1 /\ dbLatest'.height = h
      /\ resetBase = None /\ resetBase' = None
      /\ dbGenesis # None /\ dbLatest # None /\ dbGenesis' = dbGenesis
      /\ purged' = purged
      /\ blockAt' = [blockAt EXCEPT ![h] = b]
      /\ hashAt' = [hashAt EXCEPT ![h] = <<h, f>>]
  BY DEF IndexCommit, IsNext, IndexInv, Control, history
<1>2. /\ dbLatest.height \in Heights /\ Intact = h - 1 /\ Intact' = h
      /\ h - 1 \in Heights /\ h > Root
  <2>1. dbLatest.height \in Heights
    BY <1>1 DEF IndexInv, TypeOK
  <2> QED BY <1>1, <2>1 DEF Intact
<1>3. LedgerAccounts' = LedgerAccounts /\ LedgerAccounts \subseteq Accounts
  BY <1>1 DEF LedgerAccounts
<1> DEFINE tip == LedgerEntry(h - 1)
<1>4. /\ tip.height = h - 1
      /\ \A a \in LedgerAccounts : tip.balances[a] = balanceByHeight(a, h - 1)
  BY DEF LedgerEntry
<1>5. LedgerChain = {LedgerEntry(k) : k \in Root..(h - 1)}
  BY <1>1, <1>2 DEF LedgerChain
<1>6. tip \in LedgerChain /\ \A e \in LedgerChain : e.height <= tip.height
  BY <1>2, <1>4, <1>5 DEF LedgerEntry
<1> DEFINE entry == [height   |-> tip.height + 1,
                     hash     |-> <<h, f>>,
                     block    |-> b,
                     balances |-> [a \in LedgerAccounts |->
                                     tip.balances[a] + Effect(b, a)]]
<1>7. \A a \in LedgerAccounts :
        /\ balanceByHeight(a, h)' = tip.balances[a] + Effect(b, a)
        /\ balanceByHeight(a, h)' \in Nat
  BY <1>3, <1>4, IndexBalances
<1>8. LedgerEntry(h)' = entry
  <2>1. blockAt'[h] = b /\ hashAt'[h] = <<h, f>>
    BY <1>1 DEF IndexInv, TypeOK
  <2>2. tip.height + 1 = h
    BY <1>4
  <2> HIDE DEF tip
  <2> QED BY <1>3, <1>7, <2>1, <2>2 DEF LedgerEntry
<1>9. \A k \in Root..(h - 1) : LedgerEntry(k)' = LedgerEntry(k)
  <2> TAKE k \in Root..(h - 1)
  <2>0. k \in Heights /\ k # h
    BY <1>2
  <2>1. blockAt'[k] = blockAt[k] /\ hashAt'[k] = hashAt[k]
    BY <1>1, <2>0 DEF IndexInv, TypeOK
  <2>2. \A a \in Accounts : balanceByHeight(a, k)' = balanceByHeight(a, k)
    BY IndexBalances
  <2> QED BY <1>3, <2>1, <2>2 DEF LedgerEntry
<1>10. LedgerChain' = LedgerChain \cup {entry}
  <2>1. LedgerChain' = {LedgerEntry(k)' : k \in Root..h}
    BY <1>1, <1>2 DEF LedgerChain
  <2>2. Root..h = (Root..(h - 1)) \cup {h}
    BY <1>2
  <2> HIDE DEF entry, tip
  <2> QED BY <1>5, <1>8, <1>9, <2>1, <2>2
<1>11. \A a \in LedgerAccounts : entry.balances[a] >= 0
  <2> HIDE DEF tip
  <2> QED BY <1>7
<1>12. <<h, f>> \in Hashes
  OBVIOUS
<1> HIDE DEF tip
<1> QED BY <1>3, <1>6, <1>10, <1>11, <1>12 DEF L!Append

\* An entry with other balances.
LEMMA EntryWith ==
  ASSUME NEW h, NEW hash, NEW block, NEW old, NEW new
  PROVE  [[height |-> h, hash |-> hash, block |-> block, balances |-> old]
            EXCEPT !.balances = new]
           = [height |-> h, hash |-> hash, block |-> block, balances |-> new]
OBVIOUS

\* A step that adds no block cuts the ledger back, gives up accounts, or
\* changes nothing.
LEMMA LedgerKept ==
  ASSUME RepeatReset, IndexInv, IndexInv', [Next]_vars, Kept
  PROVE  [L!Next]_(L!vars)
<1> USE Constants
<1>1. LedgerAccounts' \subseteq LedgerAccounts /\ LedgerAccounts \subseteq Accounts
  BY DEF Kept, LedgerAccounts
<1>2. CASE dbGenesis = None
  <2>1. LedgerChain = {} /\ LedgerChain' = {}
    BY <1>2 DEF Kept, LedgerChain
  <2>2. L!Forget
    <3>1. purged' \in SUBSET Accounts /\ LedgerAccounts' = LedgerAccounts \ purged'
      BY DEF Kept, LedgerAccounts, IndexInv, TypeOK
    <3> QED BY <2>1, <3>1 DEF L!Forget
  <2> QED BY <2>2 DEF L!Next
<1>3. CASE dbGenesis # None
  <2>1. /\ Intact \in Heights /\ Intact' \in Heights /\ Intact' <= Intact
        /\ LedgerChain = {LedgerEntry(h) : h \in Root..Intact}
        /\ LedgerChain' = {LedgerEntry(h)' : h \in Root..Intact'}
    BY <1>3 DEF Kept, LedgerChain
  <2>2. \A h \in Root..Intact' :
          LedgerEntry(h)' =
            [LedgerEntry(h) EXCEPT
               !.balances = [a \in LedgerAccounts' |-> LedgerEntry(h).balances[a]]]
    <3> TAKE h \in Root..Intact'
    <3>1. blockAt'[h] = blockAt[h] /\ hashAt'[h] = hashAt[h]
      BY <1>3 DEF Kept
    <3>2. \A a \in LedgerAccounts' : balanceByHeight(a, h)' = balanceByHeight(a, h)
      BY <1>3, KeptBalances DEF LedgerAccounts
    <3>3. \A a \in LedgerAccounts' :
            LedgerEntry(h).balances[a] = balanceByHeight(a, h)
      BY <1>1 DEF LedgerEntry
    <3>4. [a \in LedgerAccounts' |-> LedgerEntry(h).balances[a]]
            = [a \in LedgerAccounts' |-> balanceByHeight(a, h)']
      BY <3>2, <3>3
    <3> DEFINE old == [a \in LedgerAccounts |-> balanceByHeight(a, h)]
               bal == [a \in LedgerAccounts' |-> LedgerEntry(h).balances[a]]
    <3>5. LedgerEntry(h)' = [height |-> h, hash |-> hashAt[h],
                             block |-> blockAt[h], balances |-> bal]
      BY <3>1, <3>4 DEF LedgerEntry
    <3>6. LedgerEntry(h) = [height |-> h, hash |-> hashAt[h],
                            block |-> blockAt[h], balances |-> old]
      BY DEF LedgerEntry
    <3> HIDE DEF bal, old
    <3>7. [LedgerEntry(h) EXCEPT !.balances = bal]
            = [height |-> h, hash |-> hashAt[h],
               block |-> blockAt[h], balances |-> bal]
      BY <3>6, EntryWith
    <3> QED BY <3>5, <3>7 DEF bal
  <2>3. CASE purged' = purged
    <3>1. LedgerAccounts' = LedgerAccounts
      BY <2>3 DEF LedgerAccounts
    <3>2. \A h \in Root..Intact' : LedgerEntry(h)' = LedgerEntry(h)
      BY <2>2, <3>1 DEF LedgerEntry
    <3>3. \A h \in Root..Intact : LedgerEntry(h).height = h
      BY DEF LedgerEntry
    <3>4. LedgerChain' = {e \in LedgerChain : e.height <= Intact'}
      <4>1. Root..Intact' = {h \in Root..Intact : h <= Intact'}
        BY <2>1
      <4> QED BY <2>1, <3>2, <3>3, <4>1
    <3>5. Intact' \in {e.height : e \in LedgerChain}
      BY <2>1, <3>3
    <3>6. L!Truncate
      BY <3>1, <3>4, <3>5 DEF L!Truncate
    <3> QED BY <3>6 DEF L!Next
  <2>4. CASE Intact' = Intact
    <3>1. purged' \in SUBSET Accounts /\ LedgerAccounts' = LedgerAccounts \ purged'
      BY DEF Kept, LedgerAccounts, IndexInv, TypeOK
    <3>2. LedgerChain' =
            {[e EXCEPT !.balances = [a \in LedgerAccounts' |-> e.balances[a]]] :
               e \in LedgerChain}
      BY <2>1, <2>2, <2>4
    <3>3. L!Forget
      BY <3>1, <3>2 DEF L!Forget
    <3> QED BY <3>3 DEF L!Next
  <2> QED BY <2>3, <2>4, CutOrForget
<1> QED BY <1>2, <1>3

\* The index database, with its crashes, resets of many steps, purges and
\* restarts, is a chain that grows at its end, is cut back or forgets
\* accounts: none of the states in between can be told from outside.
THEOREM Implements ==
  ASSUME RepeatReset
  PROVE  Spec => ImplementsLedger
<1>1. Init => L!Init
  BY LedgerInit
<1>2. IndexInv /\ IndexInv' /\ [Next]_vars => [L!Next]_(L!vars)
  <2> SUFFICES ASSUME IndexInv, IndexInv', [Next]_vars
               PROVE  [L!Next]_(L!vars)
    OBVIOUS
  <2>1. CASE SetGenesisCommit
    BY <2>1, LedgerFound DEF L!Next
  <2>2. CASE \E h \in Heights, f \in Forks, b \in Blocks :
               IndexCommit(h, <<h, f>>, b)
    BY <2>2, LedgerAppend DEF L!Next
  <2>3. CASE Kept
    BY <2>3, LedgerKept
  <2> QED BY <2>1, <2>2, <2>3, StepKinds
<1> QED BY <1>1, <1>2, IndexDBInvariant, PTL DEF Spec, ImplementsLedger, L!Spec

============================================================================
