--------------------------- MODULE IndexDBProofs ---------------------------
(***************************************************************************)
(* Proofs about the index database, for every set of accounts, every set   *)
(* of blocks and every chain length.                                       *)
(***************************************************************************)
EXTENDS IndexDB, TLAPS

USE DEF Metas, Heights, Hashes

\* The heights are integers, and None is not one of the stored values.
LEMMA Constants ==
  /\ Root \in Nat /\ MaxHeight \in Nat /\ Root <= MaxHeight
  /\ Root \in Heights
  /\ None \notin Heights /\ None \notin Hashes /\ None \notin Metas
  /\ None \notin Blocks /\ None \notin Nat
  /\ << >> \in Blocks
  BY ConstantsAssumption

\* The empty database satisfies the invariant.
LEMMA InitInv == Init => IndexInv
<1> SUFFICES ASSUME Init PROVE IndexInv
  OBVIOUS
<1> USE Constants DEF Init
<1>1. TypeOK
  BY DEF TypeOK, NoConfig, NothingToDelete
<1>2. Control /\ PendingReset /\ ResetProgress
  BY DEF Control, PendingReset, ResetProgress
<1>3. DbInv
  BY DEF DbInv, HashesOfHeights, LatestStored, ChainIntact, NoOrphans,
         NothingBeyondLatest, ProxyKeys
<1> QED BY <1>1, <1>2, <1>3 DEF IndexInv

\* DbInv depends on the database and on the pending reset only.
LEMMA DbFrame ==
  ASSUME DbInv, UNCHANGED db, UNCHANGED resetBase
  PROVE  DbInv'
  BY DEF DbInv, db, HashesOfHeights, LatestStored, ChainIntact, NoOrphans,
         NothingBeyondLatest, ProxyKeys, Intact

\* The steps that leave the database alone.
LEMMA QuietSteps ==
  ASSUME RepeatReset, IndexInv,
         \/ Start \/ LoadStore \/ SetGenesisPublish \/ ResyncSkip
         \/ ResyncFatal \/ ResetPublish \/ InitState \/ IndexPublish
         \/ (\E h \in Heights : IndexGap(h)) \/ Crash \/ Exit
         \/ UNCHANGED vars
  PROVE  IndexInv'
<1> USE Constants DEF IndexInv
<1>1. UNCHANGED db /\ UNCHANGED resetBase
  BY DEF Start, LoadStore, SetGenesisPublish, ResyncSkip, ResyncFatal,
         ResetPublish, InitState, IndexPublish, IndexGap, Crash, Exit, Stop,
         vars, db, history
<1>2. DbInv'
  BY <1>1, DbFrame
<1>3. TypeOK'
  <2>1. CASE Start
    BY <1>1, <2>1 DEF TypeOK, Start, NoConfig, db, store, reset, history
  <2>2. CASE LoadStore
    BY <1>1, <2>2 DEF TypeOK, LoadStore, db, store, reset, history
  <2>3. CASE SetGenesisPublish
    BY <1>1, <2>3 DEF TypeOK, SetGenesisPublish, db, store, reset, history
  <2>4. CASE ResyncSkip
    BY <1>1, <2>4 DEF TypeOK, ResyncSkip, NothingToReset, db, store, reset, history
  <2>5. CASE ResyncFatal
    BY <1>1, <2>5 DEF TypeOK, ResyncFatal, db, store, reset, history
  <2>6. CASE ResetPublish
    BY <1>1, <2>6 DEF TypeOK, ResetPublish, ResetResult, db, store, reset, history
  <2>7. CASE InitState
    BY <1>1, <2>7 DEF TypeOK, InitState, NoConfig, db, store, reset, history
  <2>8. CASE IndexPublish
    BY <1>1, <2>8 DEF TypeOK, IndexPublish, db, store, reset, history
  <2>9. CASE \E h \in Heights : IndexGap(h)
    BY <1>1, <2>9 DEF TypeOK, IndexGap, db, store, reset, history
  <2>10. CASE Crash \/ Exit
    <3>1. NothingToDelete \in
            [a : SUBSET (Accounts \X Heights), b : SUBSET Heights,
             c : SUBSET Hashes, d : SUBSET Heights,
             p : SUBSET (Accounts \X Heights)]
      BY DEF NothingToDelete
    <3>2. NoConfig \in [purge : BOOLEAN, resync : 0..MaxHeight]
      BY DEF NoConfig
    <3> QED
      BY <1>1, <2>10, <3>1, <3>2 DEF TypeOK, Crash, Exit, Stop, db, history
  <2>11. CASE UNCHANGED vars
    BY <1>1, <2>11 DEF TypeOK, vars, db, store, reset, history
  <2> QED BY <2>1, <2>2, <2>3, <2>4, <2>5, <2>6, <2>7, <2>8, <2>9, <2>10, <2>11
<1>4. Control'
  <2>1. CASE Start
    BY <1>1, <2>1 DEF TypeOK, Control, PendingReset, DbInv, LatestStored,
       Start, NoConfig, db, store, reset, history
  <2>2. CASE LoadStore
    BY <1>1, <2>2 DEF TypeOK, Control, PendingReset, DbInv, LatestStored,
       LoadStore, db, store, reset, history
  <2>3. CASE SetGenesisPublish
    BY <1>1, <2>3 DEF TypeOK, Control, PendingReset, DbInv, LatestStored,
       SetGenesisPublish, db, store, reset, history
  <2>4. CASE ResyncSkip
    BY <1>1, <2>4 DEF TypeOK, Control, PendingReset, DbInv, LatestStored,
       ResyncSkip, NothingToReset, db, store, reset, history
  <2>5. CASE ResyncFatal
    BY <1>1, <2>5 DEF TypeOK, Control, PendingReset, DbInv, LatestStored,
       ResyncFatal, db, store, reset, history
  <2>6. CASE ResetPublish
    BY <1>1, <2>6 DEF TypeOK, Control, PendingReset, DbInv, LatestStored,
       ResetPublish, ResetResult, db, store, reset, history
  <2>7. CASE InitState
    BY <1>1, <2>7 DEF TypeOK, Control, PendingReset, DbInv, LatestStored,
       InitState, NoConfig, db, store, reset, history
  <2>8. CASE IndexPublish
    BY <1>1, <2>8 DEF TypeOK, Control, PendingReset, DbInv, LatestStored,
       IndexPublish, db, store, reset, history
  <2>9. CASE \E h \in Heights : IndexGap(h)
    BY <1>1, <2>9 DEF TypeOK, Control, PendingReset, DbInv, LatestStored,
       IndexGap, db, store, reset, history
  <2>10. CASE Crash \/ Exit
    BY <1>1, <2>10 DEF TypeOK, Control, PendingReset, DbInv, LatestStored,
       Crash, Exit, Stop, NoConfig, NothingToDelete, db, store, reset, history
  <2>11. CASE UNCHANGED vars
    BY <1>1, <2>11 DEF TypeOK, Control, PendingReset, DbInv, LatestStored,
       vars, db, store, reset, history
  <2> QED BY <2>1, <2>2, <2>3, <2>4, <2>5, <2>6, <2>7, <2>8, <2>9, <2>10, <2>11
<1>5. PendingReset'
  BY <1>1 DEF TypeOK, Control, PendingReset, Start,
         LoadStore, SetGenesisPublish, ResyncSkip, ResyncFatal, ResetPublish,
         InitState, IndexPublish, IndexGap, Crash, Exit, Stop, vars, db,
         store, reset, history
<1>6. ResetProgress'
  BY <1>1 DEF ResetProgress, Start,
         LoadStore, SetGenesisPublish, ResyncSkip, ResyncFatal, ResetPublish,
         InitState, IndexPublish, IndexGap, Crash, Exit, Stop, vars, db,
         store, reset, history
<1> QED BY <1>2, <1>3, <1>4, <1>5, <1>6

\* The transaction of SetGenesis.
LEMMA SetGenesisStep ==
  ASSUME IndexInv, SetGenesisCommit
  PROVE  IndexInv'
<1> USE Constants DEF IndexInv
<1>1. PICK f \in Forks :
        /\ dbGenesis' = [height |-> Root, hash |-> <<Root, f>>]
        /\ dbLatest' = [height |-> Root, hash |-> <<Root, f>>]
        /\ blockAt' = [blockAt EXCEPT ![Root] = << >>]
        /\ heightOf' = [heightOf EXCEPT ![<<Root, f>>] = Root]
        /\ hashAt' = [hashAt EXCEPT ![Root] = <<Root, f>>]
  BY DEF SetGenesisCommit
<1>2. /\ pc' = "setGenesis" /\ resetBase = None /\ dbGenesis = None
      /\ dbLatest = None
      /\ UNCHANGED <<balanceAt, proxyAt, genesis, latest, del, last, resetBase,
                     purged, config>>
  BY DEF SetGenesisCommit, Control, store, reset, history
<1>3. <<Root, f>> \in Hashes /\ dbGenesis' \in Metas
  BY <1>1
<1>4. /\ \A h \in Heights : /\ hashAt[h] = None /\ blockAt[h] = None
                            /\ \A a \in Accounts : /\ balanceAt[a][h] = None
                                                   /\ h \notin proxyAt[a]
      /\ \A x \in Hashes : heightOf[x] = None
  BY <1>2 DEF DbInv, NothingBeyondLatest, NoOrphans, TypeOK
<1>5. TypeOK'
  BY <1>1, <1>2, <1>3 DEF TypeOK
<1>6. Control' /\ PendingReset' /\ ResetProgress'
  BY <1>1, <1>2, <1>3 DEF Control, PendingReset, ResetProgress
<1>7. Intact' = Root
  BY <1>1, <1>2 DEF Intact
<1>8. (HashesOfHeights /\ LatestStored /\ ChainIntact)'
  BY <1>1, <1>2, <1>3, <1>4, <1>7
     DEF HashesOfHeights, LatestStored, ChainIntact, TypeOK
<1>9. NoOrphans' /\ NothingBeyondLatest'
  BY <1>1, <1>2, <1>3, <1>4 DEF NoOrphans, NothingBeyondLatest, TypeOK
<1>10. ProxyKeys'
  BY <1>2, <1>4 DEF ProxyKeys, TypeOK
<1> QED BY <1>5, <1>6, <1>8, <1>9, <1>10 DEF DbInv

\* PurgeProxyAccounts: the only proxy key of an account goes together with
\* its balances.
LEMMA PurgeStep ==
  ASSUME IndexInv, Purge
  PROVE  IndexInv'
<1> USE Constants DEF IndexInv
<1>1. /\ pc = "purge" /\ pc' = "resync"
      /\ UNCHANGED <<blockAt, heightOf, hashAt, dbGenesis, dbLatest, genesis,
                     latest, del, last, resetBase, config>>
  BY DEF Purge, store, reset
<1>2. \A a \in Accounts :
        \/ proxyAt'[a] = proxyAt[a] /\ balanceAt'[a] = balanceAt[a]
        \/ proxyAt'[a] = {} /\ balanceAt'[a] = [h \in Heights |-> None]
  <2> SUFFICES ASSUME NEW a \in Accounts
               PROVE  \/ proxyAt'[a] = proxyAt[a] /\ balanceAt'[a] = balanceAt[a]
                      \/ /\ proxyAt'[a] = {}
                         /\ balanceAt'[a] = [h \in Heights |-> None]
    OBVIOUS
  <2>1. proxyAt[a] \ PurgedKeys(a) = {}
    BY DEF PurgedKeys, DbInv, ProxyKeys, TypeOK
  <2>2. CASE config.purge
    BY <2>1, <2>2 DEF Purge
  <2>3. CASE ~ config.purge
    BY <2>3 DEF Purge
  <2> QED BY <2>2, <2>3
<1>3. balanceAt' \in [Accounts -> [Heights -> Nat \cup {None}]]
  <2>1. CASE config.purge
    <3>1. PICK S : balanceAt' = [a \in Accounts |->
                                   IF a \in S THEN [h \in Heights |-> None]
                                              ELSE balanceAt[a]]
      BY <2>1 DEF Purge
    <3>2. \A a \in Accounts : balanceAt[a] \in [Heights -> Nat \cup {None}]
      BY DEF TypeOK
    <3>3. [h \in Heights |-> None] \in [Heights -> Nat \cup {None}]
      OBVIOUS
    <3> HIDE DEF Heights
    <3> QED BY <3>1, <3>2, <3>3
  <2>2. CASE ~ config.purge
    BY <2>2 DEF Purge, TypeOK
  <2> QED BY <2>1, <2>2
<1>4. /\ proxyAt' \in [Accounts -> SUBSET Heights]
      /\ purged' \subseteq Accounts
  <2>1. CASE config.purge
    <3>1. proxyAt' = [a \in Accounts |-> proxyAt[a] \ PurgedKeys(a)]
      BY <2>1 DEF Purge
    <3>2. purged' = purged \cup {a \in Accounts : proxyAt[a] # {}}
      BY <2>1 DEF Purge
    <3>3. \A a \in Accounts : proxyAt[a] \ PurgedKeys(a) \in SUBSET Heights
      BY DEF TypeOK
    <3> QED BY <3>1, <3>2, <3>3 DEF TypeOK
  <2>2. CASE ~ config.purge
    BY <2>2 DEF Purge, TypeOK
  <2> QED BY <2>1, <2>2
<1>5. TypeOK'
  BY <1>1, <1>3, <1>4 DEF TypeOK
<1>6. Control' /\ PendingReset' /\ ResetProgress'
  BY <1>1 DEF Control, PendingReset, ResetProgress
<1>7. UNCHANGED Intact
  BY <1>1 DEF Intact
<1>8. (HashesOfHeights /\ LatestStored /\ ChainIntact /\ NoOrphans)'
  BY <1>1, <1>7
     DEF DbInv, HashesOfHeights, LatestStored, ChainIntact, NoOrphans
<1>9. NothingBeyondLatest'
  BY <1>1, <1>2 DEF DbInv, NothingBeyondLatest
<1>10. ProxyKeys'
  BY <1>1, <1>2, <1>7 DEF DbInv, ProxyKeys
<1> QED BY <1>5, <1>6, <1>8, <1>9, <1>10 DEF DbInv

\* The scans of ResetTo.  The base is a height of the intact chain, so it is
\* also the highest height up to the base that has a hash.
LEMMA ResetScanStep ==
  ASSUME RepeatReset, IndexInv, ResetScan
  PROVE  IndexInv'
<1> DEFINE base == config.resync
<1> USE Constants DEF IndexInv
<1>1. /\ pc = "resync" /\ pc' = "delete" /\ resetBase' = base
      /\ base # 0 /\ genesis.height <= base /\ ~(latest.height <= base)
      /\ last' = LastUpTo(base)
      /\ UNCHANGED <<balanceAt, blockAt, heightOf, hashAt, proxyAt, dbGenesis,
                     dbLatest, genesis, latest, purged, config>>
  BY DEF ResetScan, NothingToReset, db, store
<1>2. /\ genesis = dbGenesis /\ latest = dbLatest
      /\ dbGenesis # None /\ dbLatest # None
      /\ dbGenesis.height = Root /\ dbLatest.height \in Heights
  BY <1>1 DEF Control, TypeOK
<1>3. base \in Heights
  BY <1>1, <1>2 DEF TypeOK
<1>4. base <= Intact /\ Intact \in Heights
  BY <1>1, <1>2, <1>3 DEF Intact, PendingReset, TypeOK
<1>5. \A h \in Root..base : /\ blockAt[h] # None /\ hashAt[h] # None
                            /\ heightOf[hashAt[h]] = h
  BY <1>2, <1>3, <1>4 DEF DbInv, ChainIntact
<1>6. LastUpTo(base) = base
  <2>1. base \in Heights /\ hashAt[base] # None
    BY <1>3, <1>5
  <2>2. \A h \in Heights :
          (/\ h <= base /\ hashAt[h] # None
           /\ \A k \in Heights : (k <= base /\ hashAt[k] # None) => k <= h)
          <=> h = base
    BY <2>1
  <2> QED BY <2>1, <2>2 DEF LastUpTo
<1>7. del' = [a |-> DroppedBalances(base),
              b |-> DroppedHeights(base),
              c |-> {hashAt[h] : h \in DroppedHeights(base)},
              d |-> DroppedHeights(base),
              p |-> {k \in Accounts \X Heights :
                       k[2] > base /\ k[2] \in proxyAt[k[1]]}]
  BY DEF ResetScan
<1>8. TypeOK'
  <2>1. /\ DroppedBalances(base) \in SUBSET (Accounts \X Heights)
        /\ DroppedHeights(base) \in SUBSET Heights
    BY DEF DroppedBalances, DroppedHeights
  <2>2. {hashAt[h] : h \in DroppedHeights(base)} \in SUBSET Hashes
    BY DEF DroppedHeights, TypeOK
  <2>3. {k \in Accounts \X Heights : k[2] > base /\ k[2] \in proxyAt[k[1]]}
          \in SUBSET (Accounts \X Heights)
    OBVIOUS
  <2>4. del' \in [a : SUBSET (Accounts \X Heights), b : SUBSET Heights,
                  c : SUBSET Hashes, d : SUBSET Heights,
                  p : SUBSET (Accounts \X Heights)]
    BY <1>7, <2>1, <2>2, <2>3
  <2> QED BY <1>1, <1>3, <1>6, <2>4 DEF TypeOK
<1>9. Control'
  BY <1>1, <1>2 DEF Control
<1>10. PendingReset'
  BY <1>1, <1>2, <1>3 DEF PendingReset
<1>11. Intact' = base
  BY <1>1, <1>3 DEF Intact
<1>12. DbInv'
  <2>1. HashesOfHeights' /\ LatestStored' /\ ChainIntact'
    BY <1>1, <1>3, <1>5, <1>11
       DEF DbInv, HashesOfHeights, LatestStored, ChainIntact
  <2>2. NoOrphans' /\ NothingBeyondLatest'
    BY <1>1 DEF DbInv, NoOrphans, NothingBeyondLatest
  <2>3. ProxyKeys'
    BY <1>1, <1>3, <1>4, <1>11 DEF DbInv, ProxyKeys, TypeOK
  <2> QED BY <2>1, <2>2, <2>3 DEF DbInv
<1>13. ResetProgress'
  <2>1. /\ resetBase' = base /\ last' = base /\ config' = config
    BY <1>1, <1>6
  <2>2. \A a \in Accounts, h \in Heights :
          /\ h > base /\ balanceAt[a][h] # None => <<a, h>> \in del'.a
          /\ h > base /\ h \in proxyAt[a] => <<a, h>> \in del'.p
    BY <1>7 DEF DroppedBalances
  <2>3. \A h \in Heights :
          /\ h > base /\ blockAt[h] # None => h \in del'.b
          /\ h > base /\ hashAt[h] # None => h \in del'.d
    BY <1>7 DEF DroppedHeights, DbInv, NoOrphans
  <2>4. \A x \in Hashes :
          heightOf[x] # None /\ heightOf[x] > base => x \in del'.c
    BY <1>7 DEF DroppedHeights, DbInv, NoOrphans, TypeOK
  <2>5. \A k \in del'.a \cup del'.p : k[2] > base
    BY <1>7 DEF DroppedBalances
  <2>6. \A h \in del'.b \cup del'.d : h > base
    BY <1>7 DEF DroppedHeights
  <2>7. \A x \in del'.c : x[1] > base
    BY <1>7 DEF DroppedHeights, DbInv, HashesOfHeights
  <2> QED
    BY <1>1, <2>1, <2>2, <2>3, <2>4, <2>5, <2>6, <2>7 DEF ResetProgress
<1> QED BY <1>8, <1>9, <1>10, <1>12, <1>13

\* What every deletion starts from: the list covers all keys above the base.
LEMMA Deleting ==
  ASSUME IndexInv, pc = "delete"
  PROVE  /\ resetBase = last /\ last = config.resync /\ last \in Heights
         /\ Intact = last /\ dbGenesis # None /\ dbLatest # None
         /\ dbLatest.height \in Heights /\ last < dbLatest.height
BY Constants DEF IndexInv, Control, PendingReset, ResetProgress, Intact, TypeOK

\* The batch of ResetTo deletes a balance key: one above the base, so that no
\* kept block loses a balance.
LEMMA DeleteBalanceStep ==
  ASSUME IndexInv, DeleteBalance
  PROVE  IndexInv'
<1> USE Constants DEF IndexInv
<1>1. PICK k \in FirstOf(del.a) :
        /\ balanceAt' = [balanceAt EXCEPT ![k[1]][k[2]] = None]
        /\ del' = [del EXCEPT !.a = @ \ {k}]
  BY DEF DeleteBalance
<1>2. /\ pc = "delete"
      /\ UNCHANGED <<blockAt, heightOf, hashAt, proxyAt, dbGenesis, dbLatest,
                     genesis, latest, last, resetBase, purged, pc, config>>
  BY DEF DeleteBalance, store, history
<1>3. k \in Accounts \X Heights /\ k[1] \in Accounts /\ k[2] \in Heights
      /\ k = <<k[1], k[2]>> /\ k[2] > last
  BY <1>1, <1>2 DEF FirstOf, TypeOK, ResetProgress
<1>4. /\ del'.a = del.a \ {k} /\ del'.b = del.b /\ del'.c = del.c
      /\ del'.d = del.d /\ del'.p = del.p
  BY <1>1 DEF TypeOK
<1>5. TypeOK'
  <2>1. balanceAt' \in [Accounts -> [Heights -> Nat \cup {None}]]
    BY <1>1, <1>3 DEF TypeOK
  <2>2. del' \in [a : SUBSET (Accounts \X Heights), b : SUBSET Heights,
                  c : SUBSET Hashes, d : SUBSET Heights,
                  p : SUBSET (Accounts \X Heights)]
    BY <1>1 DEF TypeOK
  <2> QED BY <1>2, <2>1, <2>2 DEF TypeOK
<1>6. Control' /\ PendingReset'
  BY <1>2 DEF Control, PendingReset
<1>7. \A a \in Accounts, h \in Heights :
        balanceAt'[a][h] = IF <<a, h>> = k THEN None ELSE balanceAt[a][h]
  BY <1>1, <1>3 DEF TypeOK
<1>8. UNCHANGED Intact /\ Intact = last
  BY <1>2, Deleting DEF Intact
<1>9. DbInv'
  <2>1. (HashesOfHeights /\ LatestStored /\ ChainIntact /\ NoOrphans)'
    BY <1>2, <1>8
       DEF DbInv, HashesOfHeights, LatestStored, ChainIntact, NoOrphans
  <2>2. NothingBeyondLatest'
    BY <1>2, <1>7 DEF DbInv, NothingBeyondLatest
  <2>3. ProxyKeys'
    <3>1. ASSUME NEW a \in Accounts, NEW h \in proxyAt[a], h <= last
          PROVE  balanceAt'[a][h] # None
      <4>1. h \in Heights /\ balanceAt[a][h] # None
        BY <3>1, <1>8 DEF DbInv, ProxyKeys, TypeOK
      <4>2. <<a, h>> # k
        BY <3>1, <4>1, <1>3, <1>2, Deleting
      <4> QED BY <4>1, <4>2, <1>7
    <3> QED BY <3>1, <1>2, <1>8 DEF DbInv, ProxyKeys
  <2> QED BY <2>1, <2>2, <2>3 DEF DbInv
<1>10. ResetProgress'
  BY <1>2, <1>4, <1>7 DEF ResetProgress
<1> QED BY <1>5, <1>6, <1>9, <1>10

\* The batch deletes a block key: only of a height that is being dropped, so
\* the kept chain stays whole.
LEMMA DeleteBlockStep ==
  ASSUME IndexInv, DeleteBlock
  PROVE  IndexInv'
<1> USE Constants DEF IndexInv
<1>1. PICK k \in Lowest(del.b) :
        /\ blockAt' = [blockAt EXCEPT ![k] = None]
        /\ del' = [del EXCEPT !.b = @ \ {k}]
  BY DEF DeleteBlock
<1>2. /\ pc = "delete"
      /\ UNCHANGED <<balanceAt, heightOf, hashAt, proxyAt, dbGenesis, dbLatest,
                     genesis, latest, last, resetBase, purged, pc, config>>
  BY DEF DeleteBlock, store, history
<1>3. k \in Heights /\ k > last
  BY <1>1, <1>2 DEF Lowest, TypeOK, ResetProgress
<1>4. /\ del'.a = del.a /\ del'.b = del.b \ {k} /\ del'.c = del.c
      /\ del'.d = del.d /\ del'.p = del.p
  BY <1>1 DEF TypeOK
<1>5. TypeOK'
  <2>1. blockAt' \in [Heights -> Blocks \cup {None}]
    BY <1>1 DEF TypeOK
  <2>2. del' \in [a : SUBSET (Accounts \X Heights), b : SUBSET Heights,
                  c : SUBSET Hashes, d : SUBSET Heights,
                  p : SUBSET (Accounts \X Heights)]
    BY <1>1 DEF TypeOK
  <2> QED BY <1>2, <2>1, <2>2 DEF TypeOK
<1>6. Control' /\ PendingReset'
  BY <1>2 DEF Control, PendingReset
<1>7. \A h \in Heights : blockAt'[h] = IF h = k THEN None ELSE blockAt[h]
  BY <1>1 DEF TypeOK
<1>8. UNCHANGED Intact /\ Intact = last
  BY <1>2, Deleting DEF Intact
<1>9. DbInv'
  <2>1. (HashesOfHeights /\ LatestStored /\ NoOrphans /\ NothingBeyondLatest)'
    BY <1>2, <1>7 DEF DbInv, HashesOfHeights, LatestStored, NoOrphans,
                      NothingBeyondLatest
  <2>2. ChainIntact'
    BY <1>2, <1>3, <1>7, <1>8, Deleting DEF DbInv, ChainIntact
  <2>3. ProxyKeys'
    BY <1>2, <1>8 DEF DbInv, ProxyKeys
  <2> QED BY <2>1, <2>2, <2>3 DEF DbInv
<1>10. ResetProgress'
  BY <1>2, <1>4, <1>7 DEF ResetProgress
<1> QED BY <1>5, <1>6, <1>9, <1>10

\* The batch deletes a hash-to-height key: it goes before the height-to-hash
\* key that leads to it.
LEMMA DeleteHash2HeightStep ==
  ASSUME IndexInv, DeleteHash2Height
  PROVE  IndexInv'
<1> USE Constants DEF IndexInv
<1>1. PICK x \in del.c :
        /\ heightOf' = [heightOf EXCEPT ![x] = None]
        /\ del' = [del EXCEPT !.c = @ \ {x}]
  BY DEF DeleteHash2Height
<1>2. /\ pc = "delete"
      /\ UNCHANGED <<balanceAt, blockAt, hashAt, proxyAt, dbGenesis, dbLatest,
                     genesis, latest, last, resetBase, purged, pc, config>>
  BY DEF DeleteHash2Height, store, history
<1>3. x \in Hashes /\ x[1] > last
  BY <1>1, <1>2 DEF TypeOK, ResetProgress
<1>4. /\ del'.a = del.a /\ del'.b = del.b /\ del'.c = del.c \ {x}
      /\ del'.d = del.d /\ del'.p = del.p
  BY <1>1 DEF TypeOK
<1>5. TypeOK'
  <2>1. heightOf' \in [Hashes -> Heights \cup {None}]
    BY <1>1 DEF TypeOK
  <2>2. del' \in [a : SUBSET (Accounts \X Heights), b : SUBSET Heights,
                  c : SUBSET Hashes, d : SUBSET Heights,
                  p : SUBSET (Accounts \X Heights)]
    BY <1>1 DEF TypeOK
  <2> QED BY <1>2, <2>1, <2>2 DEF TypeOK
<1>6. Control' /\ PendingReset'
  BY <1>2 DEF Control, PendingReset
<1>7. \A y \in Hashes : heightOf'[y] = IF y = x THEN None ELSE heightOf[y]
  BY <1>1 DEF TypeOK
<1>8. UNCHANGED Intact /\ Intact = last
  BY <1>2, Deleting DEF Intact
<1>9. DbInv'
  <2>1. (HashesOfHeights /\ LatestStored /\ NoOrphans /\ NothingBeyondLatest)'
    BY <1>2, <1>7 DEF DbInv, HashesOfHeights, LatestStored, NoOrphans,
                      NothingBeyondLatest
  <2>2. ChainIntact'
    BY <1>2, <1>3, <1>7, <1>8, Deleting
       DEF DbInv, ChainIntact, HashesOfHeights, TypeOK
  <2>3. ProxyKeys'
    BY <1>2, <1>8 DEF DbInv, ProxyKeys
  <2> QED BY <2>1, <2>2, <2>3 DEF DbInv
<1>10. ResetProgress'
  BY <1>2, <1>4, <1>7 DEF ResetProgress
<1> QED BY <1>5, <1>6, <1>9, <1>10

\* A height-to-hash key goes after the keys that are found through it.
LEMMA DeleteHeight2HashStep ==
  ASSUME IndexInv, DeleteHeight2Hash
  PROVE  IndexInv'
<1> USE Constants DEF IndexInv
<1>1. PICK k \in Lowest(del.d) :
        /\ hashAt' = [hashAt EXCEPT ![k] = None]
        /\ del' = [del EXCEPT !.d = @ \ {k}]
  BY DEF DeleteHeight2Hash
<1>2. /\ pc = "delete"
      /\ del.a = {} /\ del.b = {} /\ del.c = {}
      /\ UNCHANGED <<balanceAt, blockAt, heightOf, proxyAt, dbGenesis, dbLatest,
                     genesis, latest, last, resetBase, purged, pc, config>>
  BY DEF DeleteHeight2Hash, SortsBeforeHeight2Hash, store, history
<1>3. k \in Heights /\ k > last
  BY <1>1, <1>2 DEF Lowest, TypeOK, ResetProgress
<1>4. /\ del'.a = del.a /\ del'.b = del.b /\ del'.c = del.c
      /\ del'.d = del.d \ {k} /\ del'.p = del.p
  BY <1>1 DEF TypeOK
<1>5. TypeOK'
  <2>1. hashAt' \in [Heights -> Hashes \cup {None}]
    BY <1>1 DEF TypeOK
  <2>2. del' \in [a : SUBSET (Accounts \X Heights), b : SUBSET Heights,
                  c : SUBSET Hashes, d : SUBSET Heights,
                  p : SUBSET (Accounts \X Heights)]
    BY <1>1 DEF TypeOK
  <2> QED BY <1>2, <2>1, <2>2 DEF TypeOK
<1>6. Control' /\ PendingReset'
  BY <1>2 DEF Control, PendingReset
<1>7. \A h \in Heights : hashAt'[h] = IF h = k THEN None ELSE hashAt[h]
  BY <1>1 DEF TypeOK
<1>8. UNCHANGED Intact /\ Intact = last
  BY <1>2, Deleting DEF Intact
<1>9. blockAt[k] = None /\ \A x \in Hashes : heightOf[x] # k
  BY <1>2, <1>3 DEF ResetProgress, TypeOK
<1>10. DbInv'
  <2>1. HashesOfHeights' /\ LatestStored' /\ NothingBeyondLatest'
    BY <1>2, <1>7, Deleting
       DEF DbInv, HashesOfHeights, LatestStored, NothingBeyondLatest
  <2>2. NoOrphans'
    BY <1>2, <1>7, <1>9 DEF DbInv, NoOrphans, TypeOK
  <2>3. ChainIntact'
    BY <1>2, <1>3, <1>7, <1>8, Deleting DEF DbInv, ChainIntact
  <2>4. ProxyKeys'
    BY <1>2, <1>8 DEF DbInv, ProxyKeys
  <2> QED BY <2>1, <2>2, <2>3, <2>4 DEF DbInv
<1>11. ResetProgress'
  BY <1>2, <1>4, <1>7 DEF ResetProgress
<1> QED BY <1>5, <1>6, <1>10, <1>11

\* The batch deletes an isProxy key above the base: every isProxy key that
\* stays still has a balance below it.
LEMMA DeleteProxyStep ==
  ASSUME IndexInv, DeleteProxy
  PROVE  IndexInv'
<1> USE Constants DEF IndexInv
<1>1. PICK k \in FirstOf(del.p) :
        /\ proxyAt' = [proxyAt EXCEPT ![k[1]] = @ \ {k[2]}]
        /\ del' = [del EXCEPT !.p = @ \ {k}]
  BY DEF DeleteProxy
<1>2. /\ pc = "delete"
      /\ UNCHANGED <<balanceAt, blockAt, heightOf, hashAt, dbGenesis, dbLatest,
                     genesis, latest, last, resetBase, purged, pc, config>>
  BY DEF DeleteProxy, store, history
<1>3. k \in Accounts \X Heights /\ k[1] \in Accounts /\ k[2] \in Heights
      /\ k = <<k[1], k[2]>> /\ k[2] > last
  BY <1>1, <1>2 DEF FirstOf, TypeOK, ResetProgress
<1>4. /\ del'.a = del.a /\ del'.b = del.b /\ del'.c = del.c
      /\ del'.d = del.d /\ del'.p = del.p \ {k}
  BY <1>1 DEF TypeOK
<1>5. TypeOK'
  <2>1. proxyAt' \in [Accounts -> SUBSET Heights]
    BY <1>1, <1>3 DEF TypeOK
  <2>2. del' \in [a : SUBSET (Accounts \X Heights), b : SUBSET Heights,
                  c : SUBSET Hashes, d : SUBSET Heights,
                  p : SUBSET (Accounts \X Heights)]
    BY <1>1 DEF TypeOK
  <2> QED BY <1>2, <2>1, <2>2 DEF TypeOK
<1>6. Control' /\ PendingReset'
  BY <1>2 DEF Control, PendingReset
<1>7. \A a \in Accounts, h \in Heights :
        h \in proxyAt'[a] <=> h \in proxyAt[a] /\ <<a, h>> # k
  BY <1>1, <1>3 DEF TypeOK
<1>8. \A a \in Accounts : proxyAt'[a] \subseteq proxyAt[a]
  BY <1>1, <1>3 DEF TypeOK
<1>9. UNCHANGED Intact
  BY <1>2 DEF Intact
<1>10. DbInv'
  <2>1. (HashesOfHeights /\ LatestStored /\ ChainIntact /\ NoOrphans)'
    BY <1>2, <1>9
       DEF DbInv, HashesOfHeights, LatestStored, ChainIntact, NoOrphans
  <2>2. NothingBeyondLatest' /\ ProxyKeys'
    BY <1>2, <1>8, <1>9 DEF DbInv, NothingBeyondLatest, ProxyKeys
  <2> QED BY <2>1, <2>2 DEF DbInv
<1>11. ResetProgress'
  BY <1>2, <1>4, <1>7 DEF ResetProgress
<1> QED BY <1>5, <1>6, <1>10, <1>11

\* The batch is flushed.  The base block is still there, so "latest" is set
\* to it, and nothing is left above it.
LEMMA ResetLatestStep ==
  ASSUME IndexInv, ResetLatest
  PROVE  IndexInv'
<1> USE Constants DEF IndexInv
<1>1. /\ pc = "delete" /\ del = NothingToDelete
      /\ UNCHANGED <<balanceAt, blockAt, heightOf, hashAt, proxyAt, dbGenesis,
                     genesis, latest, del, last, purged, config>>
  BY DEF ResetLatest, store, reset
<1>2. /\ resetBase = last /\ last = config.resync /\ last \in Heights
      /\ Intact = last /\ dbGenesis # None /\ dbLatest # None
      /\ dbLatest.height \in Heights /\ last < dbLatest.height
  BY <1>1, Deleting
<1>3. /\ blockAt[last] # None /\ hashAt[last] # None
      /\ hashAt[last] \in Hashes
  BY <1>2 DEF DbInv, ChainIntact, TypeOK
<1>4. /\ dbLatest' = [height |-> last, hash |-> hashAt[last]]
      /\ resetBase' = None
      /\ pc' = "resetDone"
  BY <1>2, <1>3 DEF ResetLatest
<1>5. TypeOK'
  BY <1>1, <1>2, <1>3, <1>4 DEF TypeOK
<1>6. Control' /\ PendingReset' /\ ResetProgress'
  BY <1>1, <1>2, <1>3, <1>4 DEF Control, PendingReset, ResetProgress, TypeOK
<1>7. Intact' = last
  BY <1>4 DEF Intact
<1>8. DbInv'
  <2>1. HashesOfHeights' /\ LatestStored' /\ ChainIntact' /\ NoOrphans'
    BY <1>1, <1>2, <1>4, <1>7
       DEF DbInv, HashesOfHeights, LatestStored, ChainIntact, NoOrphans
  <2>2. NothingBeyondLatest'
    <3>1. del.a = {} /\ del.b = {} /\ del.d = {} /\ del.p = {}
      BY <1>1 DEF NothingToDelete
    <3>2. \A h \in Heights :
            h > last => /\ hashAt[h] = None /\ blockAt[h] = None
                        /\ \A a \in Accounts : /\ balanceAt[a][h] = None
                                               /\ h \notin proxyAt[a]
      BY <1>1, <3>1 DEF ResetProgress
    <3>3. dbLatest' # None /\ dbLatest'.height = last
      BY <1>2, <1>3, <1>4
    <3> QED BY <1>1, <3>2, <3>3 DEF NothingBeyondLatest
  <2>3. ProxyKeys'
    BY <1>1, <1>2, <1>7 DEF DbInv, ProxyKeys
  <2> QED BY <2>1, <2>2, <2>3 DEF DbInv
<1> QED BY <1>5, <1>6, <1>8

(***************************************************************************)
(* Balances.                                                               *)
(***************************************************************************)
BalanceKeys == [Heights -> Nat \cup {None}]

\* The seek stops at one height at most, and the balance is the one stored
\* there.
LEMMA SeekFinds ==
  ASSUME NEW keys \in BalanceKeys, NEW h \in Int, NEW k \in Heights,
         SeekStopsAt(keys, h, k)
  PROVE  SeekBalance(keys, h) = keys[k] /\ keys[k] \in Nat
<1> USE Constants
<1>1. ASSUME NEW j \in Heights, SeekStopsAt(keys, h, j)
      PROVE  j = k
  BY <1>1 DEF SeekStopsAt
<1>2. (CHOOSE i \in Heights : SeekStopsAt(keys, h, i)) = k
  BY <1>1
<1>3. SeekBalance(keys, h) = keys[k]
  BY <1>2 DEF SeekBalance
<1>4. keys[k] # None
  BY DEF SeekStopsAt
<1> QED BY <1>3, <1>4 DEF BalanceKeys

\* The balance is zero before the first key.
LEMMA SeekFails ==
  ASSUME NEW keys, NEW h, ~ \E k \in Heights : SeekStopsAt(keys, h, k)
  PROVE  SeekBalance(keys, h) = 0
BY DEF SeekBalance

\* The balance at a height is a natural number.
LEMMA BalanceType ==
  ASSUME NEW keys \in BalanceKeys, NEW h \in Int
  PROVE  SeekBalance(keys, h) \in Nat
BY SeekFinds, SeekFails

\* The balance at a height depends on the keys up to that height only.
LEMMA BalanceLocal ==
  ASSUME NEW f \in BalanceKeys, NEW g \in BalanceKeys, NEW h \in Heights,
         \A k \in Root..h : f[k] = g[k]
  PROVE  SeekBalance(f, h) = SeekBalance(g, h)
<1> USE Constants
<1>1. \A k \in Heights : SeekStopsAt(f, h, k) <=> SeekStopsAt(g, h, k)
  BY DEF SeekStopsAt
<1>2. CASE \E k \in Heights : SeekStopsAt(f, h, k)
  <2>1. PICK k \in Heights : SeekStopsAt(f, h, k)
    BY <1>2
  <2>2. f[k] = g[k]
    BY <2>1 DEF SeekStopsAt
  <2> QED BY <1>1, <2>1, <2>2, SeekFinds
<1>3. CASE ~ \E k \in Heights : SeekStopsAt(f, h, k)
  BY <1>1, <1>3, SeekFails
<1> QED BY <1>2, <1>3

\* A height without a key has the balance of the height before it.
LEMMA BalanceInherited ==
  ASSUME NEW keys \in BalanceKeys, NEW h \in Heights, h > Root, keys[h] = None
  PROVE  SeekBalance(keys, h) = SeekBalance(keys, h - 1)
<1> USE Constants
<1>1. \A k \in Heights : SeekStopsAt(keys, h, k) <=> SeekStopsAt(keys, h - 1, k)
  <2> TAKE k \in Heights
  <2>1. SeekStopsAt(keys, h, k) => SeekStopsAt(keys, h - 1, k)
    BY DEF SeekStopsAt
  <2>2. SeekStopsAt(keys, h - 1, k) => SeekStopsAt(keys, h, k)
    BY DEF SeekStopsAt
  <2> QED BY <2>1, <2>2
<1>2. CASE \E k \in Heights : SeekStopsAt(keys, h, k)
  BY <1>1, <1>2, SeekFinds
<1>3. CASE ~ \E k \in Heights : SeekStopsAt(keys, h, k)
  BY <1>1, <1>3, SeekFails
<1> QED BY <1>2, <1>3

\* A height with a key has the balance stored there.
LEMMA BalanceStored ==
  ASSUME NEW keys \in BalanceKeys, NEW h \in Heights, keys[h] # None
  PROVE  SeekBalance(keys, h) = keys[h]
BY Constants, SeekFinds DEF SeekStopsAt

\* The transaction of Index.
LEMMA IndexCommitStep ==
  ASSUME IndexInv, NEW h \in Heights, NEW f \in Forks, NEW b \in Blocks,
         IndexCommit(h, <<h, f>>, b)
  PROVE  IndexInv'
<1> DEFINE hash == <<h, f>>
<1> USE Constants DEF IndexInv
<1>1. /\ pc = "ready" /\ pc' = "publish"
      /\ h = latest.height + 1
      /\ blockAt' = [blockAt EXCEPT ![h] = b]
      /\ heightOf' = [heightOf EXCEPT ![hash] = h]
      /\ hashAt' = [hashAt EXCEPT ![h] = hash]
      /\ dbLatest' = [height |-> h, hash |-> hash]
      /\ UNCHANGED <<dbGenesis, genesis, latest, del, last, resetBase, purged,
                     config>>
  BY DEF IndexCommit, IsNext, store, reset, history
<1>2. /\ latest = dbLatest /\ genesis = dbGenesis /\ resetBase = None
      /\ dbGenesis # None /\ dbLatest # None
      /\ dbLatest.height \in Heights /\ dbLatest.hash \in Hashes
      /\ Intact = dbLatest.height
  BY <1>1 DEF Control, TypeOK, Intact
<1>3. hash \in Hashes /\ dbLatest' \in Metas /\ hash # None
  BY <1>1
<1>4. h > dbLatest.height /\ Intact' = h
  BY <1>1, <1>2 DEF Intact
<1>5. /\ hashAt[h] = None /\ blockAt[h] = None
      /\ \A a \in Accounts : balanceAt[a][h] = None /\ h \notin proxyAt[a]
  BY <1>4 DEF DbInv, NothingBeyondLatest
<1>6. \A a \in Accounts :
        \/ balanceAt'[a] = balanceAt[a] /\ a \notin Touched(b)
        \/ \E n \in Nat : balanceAt'[a] = [balanceAt[a] EXCEPT ![h] = n]
  <2> SUFFICES ASSUME NEW a \in Accounts, a \in Touched(b)
               PROVE  \E n \in Nat :
                        balanceAt'[a] = [balanceAt[a] EXCEPT ![h] = n]
    BY DEF IndexCommit
  <2>1. balanceAt'[a] = [balanceAt[a] EXCEPT ![h] = NewBalance(b, h, a)]
    BY DEF IndexCommit
  <2>2. NewBalance(b, h, a) \in Int
    <3>1. CurrentBalance(balanceAt[a], h) \in Nat
      <4> HIDE DEF IndexInv
      <4>1. balanceAt[a] \in BalanceKeys
        BY DEF IndexInv, TypeOK, BalanceKeys
      <4>2. CurrentBalance(balanceAt[a], h) = SeekBalance(balanceAt[a], h)
        BY <1>5 DEF CurrentBalance
      <4> QED BY <4>1, <4>2, BalanceType
    <3>2. AcctDiffs[b][a] \in Int
      BY BlocksAssumption
    <3> QED BY <3>1, <3>2 DEF NewBalance
  <2>3. NewBalance(b, h, a) >= 0
    BY DEF IndexCommit, BalancesValid
  <2> QED BY <2>1, <2>2, <2>3
<1>7. balanceAt' \in [Accounts -> [Heights -> Nat \cup {None}]]
  <2>1. DOMAIN balanceAt' = Accounts
        /\ balanceAt' = [a \in Accounts |-> balanceAt'[a]]
    BY DEF IndexCommit
  <2>2. ASSUME NEW a \in Accounts
        PROVE  balanceAt'[a] \in [Heights -> Nat \cup {None}]
    <3>1. balanceAt[a] \in [Heights -> Nat \cup {None}]
      BY DEF TypeOK
    <3>2. \A n \in Nat :
            [balanceAt[a] EXCEPT ![h] = n] \in [Heights -> Nat \cup {None}]
      BY <3>1
    <3> QED BY <1>6, <3>1, <3>2
  <2> QED BY <2>1, <2>2
<1>8. /\ \A a \in Accounts : \A k \in Heights :
           k # h => balanceAt'[a][k] = balanceAt[a][k]
      /\ \A a \in Touched(b) : balanceAt'[a][h] # None
  <2>1. ASSUME NEW a \in Accounts
        PROVE  /\ \A k \in Heights : k # h => balanceAt'[a][k] = balanceAt[a][k]
               /\ a \in Touched(b) => balanceAt'[a][h] # None
    <3>1. balanceAt[a] \in [Heights -> Nat \cup {None}]
      BY DEF TypeOK
    <3>2. CASE balanceAt'[a] = balanceAt[a] /\ a \notin Touched(b)
      BY <3>2
    <3>3. ASSUME NEW n \in Nat, balanceAt'[a] = [balanceAt[a] EXCEPT ![h] = n]
          PROVE  /\ \A k \in Heights :
                      k # h => balanceAt'[a][k] = balanceAt[a][k]
                 /\ balanceAt'[a][h] # None
      BY <3>1, <3>3
    <3> QED BY <1>6, <3>2, <3>3
  <2>2. Touched(b) \subseteq Accounts
    BY BlocksAssumption
  <2> QED BY <2>1, <2>2
<1>9. \A a \in Accounts :
        \/ proxyAt'[a] = proxyAt[a]
        \/ proxyAt[a] = {} /\ proxyAt'[a] = {h} /\ a \in Touched(b)
  BY BlocksAssumption DEF IndexCommit, CreatesOnce
<1>10. proxyAt' \in [Accounts -> SUBSET Heights]
  <2>1. proxyAt' = [a \in Accounts |-> proxyAt'[a]]
    BY DEF IndexCommit
  <2>2. \A a \in Accounts : proxyAt'[a] \in SUBSET Heights
    BY <1>9 DEF TypeOK
  <2> QED BY <2>1, <2>2
<1>11. TypeOK'
  BY <1>1, <1>3, <1>7, <1>10 DEF TypeOK
<1>12. \A k \in Heights : /\ blockAt'[k] = IF k = h THEN b ELSE blockAt[k]
                          /\ hashAt'[k] = IF k = h THEN hash ELSE hashAt[k]
  BY <1>1 DEF TypeOK
<1>13. \A x \in Hashes : heightOf'[x] = IF x = hash THEN h ELSE heightOf[x]
  BY <1>1, <1>3 DEF TypeOK
<1>14. Control' /\ PendingReset' /\ ResetProgress'
  <2>1. hashAt'[latest.height] = latest.hash
    BY <1>2, <1>4, <1>12 DEF DbInv, LatestStored
  <2> QED BY <1>1, <1>2, <1>3, <2>1 DEF Control, PendingReset, ResetProgress
<1>15. HashesOfHeights' /\ LatestStored'
  BY <1>1, <1>3, <1>12 DEF DbInv, HashesOfHeights, LatestStored
<1>16. ChainIntact'
  <2>1. ASSUME NEW k \in Root..h
        PROVE  blockAt'[k] # None /\ hashAt'[k] # None /\ heightOf'[hashAt'[k]] = k
    <3>1. CASE k = h
      BY <3>1, <1>3, <1>12, <1>13
    <3>2. CASE k # h
      <4>1. /\ k \in Heights /\ blockAt[k] # None /\ hashAt[k] # None
            /\ heightOf[hashAt[k]] = k /\ hashAt[k] \in Hashes
        BY <3>2, <1>1, <1>2 DEF DbInv, ChainIntact, TypeOK
      <4>2. hashAt[k] # hash
        BY <4>1, <3>2 DEF DbInv, HashesOfHeights
      <4> QED BY <3>2, <4>1, <4>2, <1>12, <1>13
    <3> QED BY <3>1, <3>2
  <2> QED BY <2>1, <1>4 DEF ChainIntact
<1>17. NoOrphans'
  <2>1. \A k \in Heights : blockAt'[k] # None => hashAt'[k] # None
    BY <1>3, <1>12 DEF DbInv, NoOrphans
  <2>2. ASSUME NEW x \in Hashes, heightOf'[x] # None
        PROVE  hashAt'[heightOf'[x]] = x
    <3>1. CASE x = hash
      BY <3>1, <1>12, <1>13
    <3>2. CASE x # hash
      <4>1. heightOf'[x] = heightOf[x] /\ heightOf[x] \in Heights
        BY <2>2, <3>2, <1>13 DEF TypeOK
      <4>2. hashAt[heightOf[x]] = x
        BY <2>2, <4>1 DEF DbInv, NoOrphans
      <4>3. heightOf[x] # h
        BY <4>1, <4>2, <1>5
      <4> QED BY <4>1, <4>2, <4>3, <1>12
    <3> QED BY <3>1, <3>2
  <2> QED BY <2>1, <2>2 DEF NoOrphans
<1>18. NothingBeyondLatest'
  <2> SUFFICES ASSUME NEW k \in Heights, k > h
               PROVE  /\ hashAt'[k] = None /\ blockAt'[k] = None
                      /\ \A a \in Accounts : /\ balanceAt'[a][k] = None
                                             /\ k \notin proxyAt'[a]
    BY <1>1, <1>3 DEF NothingBeyondLatest
  <2>1. /\ hashAt[k] = None /\ blockAt[k] = None
        /\ \A a \in Accounts : balanceAt[a][k] = None /\ k \notin proxyAt[a]
    BY <1>2, <1>4 DEF DbInv, NothingBeyondLatest
  <2> QED BY <2>1, <1>8, <1>9, <1>12
<1>19. ProxyKeys'
  <2> SUFFICES ASSUME NEW a \in Accounts
               PROVE  /\ \A j, k \in proxyAt'[a] : j = k
                      /\ \A k \in proxyAt'[a] : balanceAt'[a][k] # None
    BY DEF ProxyKeys
  <2>1. CASE proxyAt'[a] = proxyAt[a]
    <3>1. \A k \in proxyAt[a] : k \in Heights /\ k # h /\ k <= dbLatest.height
      <4>1. \A k \in proxyAt[a] : k \in Heights
        BY DEF TypeOK
      <4>2. \A k \in Heights :
              k > dbLatest.height => k \notin proxyAt[a]
        BY DEF DbInv, NothingBeyondLatest
      <4> QED BY <4>1, <4>2, <1>2, <1>5
    <3> QED BY <2>1, <3>1, <1>2, <1>8 DEF DbInv, ProxyKeys
  <2>2. CASE proxyAt'[a] = {h} /\ a \in Touched(b)
    BY <2>2, <1>8
  <2> QED BY <2>1, <2>2, <1>9
<1> QED BY <1>11, <1>14, <1>15, <1>16, <1>17, <1>18, <1>19 DEF DbInv

\* Every step preserves the invariant.
LEMMA NextInv ==
  ASSUME RepeatReset, IndexInv, [Next]_vars
  PROVE  IndexInv'
BY QuietSteps, SetGenesisStep, PurgeStep, ResetScanStep, DeleteBalanceStep,
   DeleteBlockStep, DeleteHash2HeightStep, DeleteHeight2HashStep,
   DeleteProxyStep, ResetLatestStep, IndexCommitStep
   DEF Next, Boot, ResetTo, Index

\* Whatever sequence of blocks, crashes, restarts, purges and resets the
\* index database goes through, its invariant holds, provided that a reset
\* that was cut short is run again.
THEOREM IndexDBInvariant ==
  ASSUME RepeatReset
  PROVE  Spec => []IndexInv
<1>1. Init => IndexInv
  BY InitInv
<1>2. IndexInv /\ [Next]_vars => IndexInv'
  BY NextInv
<1> QED BY <1>1, <1>2, PTL DEF Spec

\* Every variable keeps its type.
THEOREM TypeCorrect ==
  ASSUME RepeatReset
  PROVE  Spec => []TypeOK
<1>1. IndexInv => TypeOK
  BY DEF IndexInv
<1> QED BY <1>1, IndexDBInvariant, PTL

\* However the process was stopped, every block from the genesis block up to
\* the latest one, or up to the base of an unfinished reset, is found by
\* height and by hash.
THEOREM StaysIntact ==
  ASSUME RepeatReset
  PROVE  Spec => []ChainIntact
<1>1. IndexInv => ChainIntact
  BY DEF IndexInv, DbInv
<1> QED BY <1>1, IndexDBInvariant, PTL

\* No block or hash key ever outlives its height-to-hash key, through which
\* ResetTo would find it.
THEOREM LeavesNoOrphans ==
  ASSUME RepeatReset
  PROVE  Spec => []NoOrphans
<1>1. IndexInv => NoOrphans
  BY DEF IndexInv, DbInv
<1> QED BY <1>1, IndexDBInvariant, PTL

\* Nothing is left of a dropped block, and Index never meets a key of the
\* height that it is about to write.
THEOREM NothingIsLeft ==
  ASSUME RepeatReset
  PROVE  Spec => []NothingBeyondLatest
<1>1. IndexInv => NothingBeyondLatest
  BY DEF IndexInv, DbInv
<1> QED BY <1>1, IndexDBInvariant, PTL

\* The latest block that requests are answered for is a block of the stored
\* chain, which is ahead of it by the block being published at most.
THEOREM LatestIsServed ==
  ASSUME RepeatReset
  PROVE  Spec => []LatestServable
<1>1. IndexInv => LatestServable
  BY Constants
     DEF IndexInv, TypeOK, Control, DbInv, LatestStored, LatestServable
<1> QED BY <1>1, IndexDBInvariant, PTL

\* The invariant gives every proxy account a balance.
LEMMA FundedProxies ==
  ASSUME IndexInv
  PROVE  ProxiesHaveBalances
<1> SUFFICES ASSUME resetBase = None,
                    NEW a \in Accounts, NEW h \in proxyAt[a]
             PROVE  balanceAt[a][h] # None
  BY DEF ProxiesHaveBalances
<1>1. h \in Heights
  BY DEF IndexInv, TypeOK
<1>2. dbLatest # None /\ dbLatest.height \in Heights /\ h <= dbLatest.height
  BY <1>1, Constants DEF IndexInv, TypeOK, DbInv, NothingBeyondLatest
<1> QED BY <1>2 DEF IndexInv, DbInv, ProxyKeys, Intact

\* Store.Accounts finds a balance for every proxy account, unless a reset is
\* unfinished: it does not keep the indexer from starting.
THEOREM ProxiesAreFunded ==
  ASSUME RepeatReset
  PROVE  Spec => []ProxiesHaveBalances
<1>1. IndexInv => ProxiesHaveBalances
  BY FundedProxies
<1> QED BY <1>1, IndexDBInvariant, PTL

\* A completed reset ends exactly at the height that was asked for.
THEOREM ResetIsExact ==
  ASSUME RepeatReset
  PROVE  Spec => []ResetLandsOnBase
<1>1. IndexInv => ResetLandsOnBase
  BY DEF IndexInv, Control, ResetLandsOnBase
<1> QED BY <1>1, IndexDBInvariant, PTL

\* Start-up is given up for a resync_from below the genesis block only: the
\* deletions of ResetTo leave the block that is to become the latest, and
\* after them every proxy account has a balance.
THEOREM StartUpAccepts ==
  ASSUME RepeatReset
  PROVE  Spec => NoNeedlessExit
<1>1. IndexInv /\ [Next]_vars =>
        [Starting /\ pc' = "exit" => config.resync \in 1..(Root - 1)]_vars
  <2> SUFFICES ASSUME IndexInv, Next, Starting, pc' = "exit"
               PROVE  config.resync \in 1..(Root - 1)
    OBVIOUS
  <2>1. ResyncFatal \/ ResetLatest \/ InitState
    BY DEF Next, Start, Boot, LoadStore, SetGenesisCommit, SetGenesisPublish, Purge,
           ResyncSkip, ResetTo, ResetScan, DeleteBalance, DeleteBlock, DeleteHash2Height,
           DeleteHeight2Hash, DeleteProxy, ResetPublish, Index, IndexCommit, IndexPublish,
           IndexGap, Crash, Exit, Stop, Starting
  <2>2. CASE ResyncFatal
    BY <2>2, Constants DEF ResyncFatal, IndexInv, Control, TypeOK
  <2>3. CASE ResetLatest
    <3>1. pc = "delete" /\ ~(last \in Heights /\ blockAt[last] # None /\ hashAt[last] # None)
      BY <2>3 DEF ResetLatest
    <3> QED BY <3>1, Deleting DEF IndexInv, DbInv, ChainIntact, Intact
  <2>4. CASE InitState
    <3>1. pc = "initState" /\ ~AccountsOK
      BY <2>4 DEF InitState
    <3>2. resetBase = None
      BY <3>1 DEF IndexInv, Control, PendingReset
    <3>3. \A a \in Accounts : \A h \in proxyAt[a] : h \in Heights /\ balanceAt[a][h] # None
      BY <3>2, FundedProxies DEF ProxiesHaveBalances, IndexInv, TypeOK
    <3> QED BY <3>1, <3>3 DEF AccountsOK
  <2> QED BY <2>1, <2>2, <2>3, <2>4
<1> QED BY <1>1, IndexDBInvariant, PTL DEF Spec, NoNeedlessExit

(***************************************************************************)
(* Balances reconcile with blocks.                                         *)
(***************************************************************************)

\* The blocks that stay keep their content and their balances.
Kept ==
  /\ dbGenesis' = dbGenesis
  /\ purged \subseteq purged'
  /\ dbGenesis # None =>
       /\ Intact \in Heights /\ Intact' \in Heights /\ Intact' <= Intact
       /\ \A h \in Root..Intact' :
            /\ blockAt'[h] = blockAt[h] /\ hashAt'[h] = hashAt[h]
            /\ \A a \in Accounts \ purged' : balanceAt'[a][h] = balanceAt[a][h]

\* The top of the part of the chain that no pending reset will drop is a
\* height.
LEMMA IntactType ==
  ASSUME IndexInv, dbGenesis # None
  PROVE  Intact \in Heights
BY Constants DEF IndexInv, TypeOK, Control, Intact

\* The first block, the next block, or no new block at all.
LEMMA StepKinds ==
  ASSUME RepeatReset, IndexInv, [Next]_vars
  PROVE  \/ SetGenesisCommit
         \/ \E h \in Heights, f \in Forks, b \in Blocks :
              IndexCommit(h, <<h, f>>, b)
         \/ Kept
<1> USE Constants
<1>1. ASSUME UNCHANGED <<balanceAt, blockAt, hashAt, dbGenesis, dbLatest,
                         resetBase, purged>>
      PROVE  Kept
  BY <1>1, IntactType DEF Kept, Intact
<1>2. CASE \/ Start \/ LoadStore \/ SetGenesisPublish \/ ResyncSkip
           \/ ResyncFatal \/ ResetPublish \/ InitState \/ IndexPublish
           \/ (\E h \in Heights : IndexGap(h)) \/ Crash \/ Exit
           \/ UNCHANGED vars
  <2>1. UNCHANGED db /\ UNCHANGED history
    BY <1>2 DEF Start, LoadStore, SetGenesisPublish, ResyncSkip, ResyncFatal,
         ResetPublish, InitState, IndexPublish, IndexGap, Crash, Exit, Stop,
         vars
  <2> QED BY <1>1, <2>1 DEF db, history
<1>3. CASE Purge
  <2>1. /\ UNCHANGED <<blockAt, hashAt, dbGenesis, dbLatest, resetBase>>
    BY <1>3 DEF Purge
  <2>2. /\ purged \subseteq purged'
        /\ \A a \in Accounts \ purged' : balanceAt'[a] = balanceAt[a]
    <3>1. CASE config.purge
      BY <1>3, <3>1 DEF Purge
    <3>2. CASE ~ config.purge
      BY <1>3, <3>2 DEF Purge
    <3> QED BY <3>1, <3>2
  <2> QED BY <2>1, <2>2, IntactType DEF Kept, Intact
<1>4. CASE ResetScan
  <2>1. UNCHANGED <<balanceAt, blockAt, hashAt, dbGenesis, dbLatest, purged>>
    BY <1>4 DEF ResetScan, db
  <2>2. /\ Intact \in Heights /\ Intact' = config.resync
        /\ config.resync \in Heights /\ config.resync <= Intact
    BY <1>4 DEF ResetScan, NothingToReset, IndexInv, Control, TypeOK, PendingReset, Intact
  <2> QED BY <2>1, <2>2 DEF Kept
<1>5. CASE \/ DeleteBalance \/ DeleteBlock \/ DeleteHash2Height
           \/ DeleteHeight2Hash \/ DeleteProxy
  <2>1. /\ pc = "delete"
        /\ UNCHANGED <<dbGenesis, dbLatest, resetBase, purged>>
    BY <1>5 DEF DeleteBalance, DeleteBlock, DeleteHash2Height,
                DeleteHeight2Hash, DeleteProxy, history
  <2>2. UNCHANGED Intact /\ Intact = last /\ last \in Heights
    BY <2>1, Deleting DEF Intact
  <2>3. \A h \in Root..last :
          /\ h \in Heights
          /\ h \notin del.b /\ h \notin del.d
          /\ \A a \in Accounts : <<a, h>> \notin del.a
    BY <2>1, <2>2 DEF IndexInv, ResetProgress
  <2>4. \A h \in Root..last : blockAt'[h] = blockAt[h]
    <3>1. CASE DeleteBlock
      BY <3>1, <2>3 DEF DeleteBlock, Lowest, IndexInv, TypeOK
    <3>2. CASE ~ DeleteBlock
      BY <3>2, <1>5 DEF DeleteBalance, DeleteHash2Height, DeleteHeight2Hash,
                        DeleteProxy
    <3> QED BY <3>1, <3>2
  <2>5. \A h \in Root..last : hashAt'[h] = hashAt[h]
    <3>1. CASE DeleteHeight2Hash
      BY <3>1, <2>3 DEF DeleteHeight2Hash, Lowest, IndexInv, TypeOK
    <3>2. CASE ~ DeleteHeight2Hash
      BY <3>2, <1>5 DEF DeleteBalance, DeleteHash2Height, DeleteBlock,
                        DeleteProxy
    <3> QED BY <3>1, <3>2
  <2>6. \A h \in Root..last : \A a \in Accounts :
          balanceAt'[a][h] = balanceAt[a][h]
    <3>1. CASE DeleteBalance
      <4>1. PICK k \in del.a :
              balanceAt' = [balanceAt EXCEPT ![k[1]][k[2]] = None]
        BY <3>1 DEF DeleteBalance, FirstOf
      <4>2. k = <<k[1], k[2]>> /\ k[1] \in Accounts /\ k[2] \in Heights
        BY DEF IndexInv, TypeOK
      <4> QED BY <4>1, <4>2, <2>3 DEF IndexInv, TypeOK
    <3>2. CASE ~ DeleteBalance
      BY <3>2, <1>5 DEF DeleteBlock, DeleteHash2Height, DeleteHeight2Hash,
                        DeleteProxy
    <3> QED BY <3>1, <3>2
  <2> QED BY <2>1, <2>2, <2>4, <2>5, <2>6 DEF Kept
<1>6. CASE ResetLatest
  <2>1. /\ pc = "delete"
        /\ UNCHANGED <<balanceAt, blockAt, hashAt, dbGenesis, purged>>
    BY <1>6 DEF ResetLatest
  <2>2. Intact = last /\ last \in Heights /\ resetBase = last
    BY <2>1, Deleting
  <2>3. Intact' = last
    BY <1>6, <2>2 DEF ResetLatest, Intact
  <2> QED BY <2>1, <2>2, <2>3 DEF Kept
<1> QED BY <1>2, <1>3, <1>4, <1>5, <1>6 DEF Next, Boot, ResetTo, Index

\* What Index does to balances: the new height settles the block, and the
\* heights before it keep theirs.
LEMMA IndexBalances ==
  ASSUME IndexInv, IndexInv', NEW h \in Heights, NEW f \in Forks,
         NEW b \in Blocks, IndexCommit(h, <<h, f>>, b), NEW a \in Accounts
  PROVE  /\ balanceByHeight(a, h)' = balanceByHeight(a, h - 1) + Effect(b, a)
         /\ balanceByHeight(a, h)' \in Nat
         /\ \A k \in Root..(h - 1) :
              balanceByHeight(a, k)' = balanceByHeight(a, k)
<1> USE Constants
<1>1. /\ h = dbLatest.height + 1 /\ dbLatest # None
      /\ dbLatest.height \in Heights /\ h - 1 \in Heights /\ h > Root
  BY DEF IndexCommit, IsNext, IndexInv, Control, TypeOK
<1>2. balanceAt[a] \in BalanceKeys /\ balanceAt'[a] \in BalanceKeys
  BY DEF IndexInv, TypeOK, BalanceKeys
<1>3. balanceAt[a][h] = None
  BY <1>1 DEF IndexInv, DbInv, NothingBeyondLatest
<1>4. \A k \in Root..(h - 1) : k \in Heights /\ balanceAt'[a][k] = balanceAt[a][k]
  BY <1>1, <1>2 DEF IndexCommit, BalanceKeys
<1>5. \A k \in Root..(h - 1) :
        balanceByHeight(a, k)' = balanceByHeight(a, k)
  <2> TAKE k \in Root..(h - 1)
  <2>1. k \in Heights /\ \A j \in Root..k : balanceAt'[a][j] = balanceAt[a][j]
    BY <1>1, <1>4
  <2>2. SeekBalance(balanceAt'[a], k) = SeekBalance(balanceAt[a], k)
    BY <1>2, <2>1, BalanceLocal
  <2> QED BY <2>2 DEF balanceByHeight
<1>6. SeekBalance(balanceAt[a], h) = SeekBalance(balanceAt[a], h - 1)
  BY <1>1, <1>2, <1>3, BalanceInherited
<1>7. SeekBalance(balanceAt'[a], h - 1) = SeekBalance(balanceAt[a], h - 1)
  BY <1>1, <1>5 DEF balanceByHeight
<1>0. h \in Int /\ h - 1 \in Int
  OBVIOUS
<1>8. SeekBalance(balanceAt[a], h - 1) \in Nat
  BY <1>0, <1>2, BalanceType
<1>9. SeekBalance(balanceAt'[a], h)
        = SeekBalance(balanceAt[a], h - 1) + Effect(b, a)
  <2>1. CASE a \in Touched(b)
    <3>1. /\ balanceAt'[a][h] = NewBalance(b, h, a)
          /\ NewBalance(b, h, a) >= 0
      BY <1>2, <2>1 DEF IndexCommit, BalancesValid, BalanceKeys
    <3>2. NewBalance(b, h, a) = SeekBalance(balanceAt[a], h) + AcctDiffs[b][a]
      BY <1>3 DEF NewBalance, CurrentBalance
    <3>3. AcctDiffs[b][a] \in Int
      BY <2>1, BlocksAssumption
    <3>4. balanceAt'[a][h] # None
      BY <1>6, <1>8, <3>1, <3>2, <3>3
    <3>5. SeekBalance(balanceAt'[a], h) = balanceAt'[a][h]
      BY <1>2, <3>4, BalanceStored
    <3> QED BY <1>6, <2>1, <3>1, <3>2, <3>5 DEF Effect
  <2>2. CASE a \notin Touched(b)
    <3>1. balanceAt'[a] = balanceAt[a]
      BY <2>2 DEF IndexCommit
    <3> QED BY <1>6, <1>8, <2>2, <3>1 DEF Effect
  <2> QED BY <2>1, <2>2
<1>10. SeekBalance(balanceAt'[a], h) \in Nat
  BY <1>0, <1>2, BalanceType
<1> QED BY <1>5, <1>9, <1>10 DEF balanceByHeight

\* Balances of kept blocks do not change.
LEMMA KeptBalances ==
  ASSUME IndexInv, IndexInv', Kept, dbGenesis # None,
         NEW a \in Accounts \ purged', NEW h \in Root..Intact'
  PROVE  balanceByHeight(a, h)' = balanceByHeight(a, h)
<1>1. balanceAt[a] \in BalanceKeys /\ balanceAt'[a] \in BalanceKeys
  BY DEF IndexInv, TypeOK, BalanceKeys
<1>2. h \in Heights /\ \A k \in Root..h : balanceAt'[a][k] = balanceAt[a][k]
  BY Constants DEF Kept
<1>3. SeekBalance(balanceAt'[a], h) = SeekBalance(balanceAt[a], h)
  BY <1>1, <1>2, BalanceLocal
<1> QED BY <1>3 DEF balanceByHeight

\* Every step keeps the balances reconciled with the stored operations.
LEMMA ReconcilesStep ==
  ASSUME RepeatReset, IndexInv, IndexInv', Reconciles, [Next]_vars
  PROVE  Reconciles'
<1> USE Constants
<1> SUFFICES ASSUME dbGenesis' # None, NEW h \in (Root + 1)..Intact',
                    NEW a \in Accounts \ purged'
             PROVE  balanceByHeight(a, h)'
                      = balanceByHeight(a, h - 1)' + Effect(blockAt'[h], a)
  BY DEF Reconciles
<1>1. CASE SetGenesisCommit
  <2>1. Intact' = Root
    BY <1>1 DEF SetGenesisCommit, IndexInv, Control, Intact, history
  <2> QED BY <2>1
<1>2. ASSUME NEW k \in Heights, NEW f \in Forks, NEW b \in Blocks,
             IndexCommit(k, <<k, f>>, b)
      PROVE  balanceByHeight(a, h)'
               = balanceByHeight(a, h - 1)' + Effect(blockAt'[h], a)
  <2>0. /\ k = dbLatest.height + 1 /\ dbLatest'.height = k
        /\ resetBase = None /\ resetBase' = None
        /\ dbGenesis # None /\ dbLatest # None
        /\ purged' = purged /\ blockAt' = [blockAt EXCEPT ![k] = b]
    BY <1>2 DEF IndexCommit, IsNext, IndexInv, Control, history
  <2>1. /\ Intact' = k /\ Intact = k - 1 /\ k - 1 \in Heights
        /\ dbGenesis # None
        /\ purged' = purged /\ blockAt' = [blockAt EXCEPT ![k] = b]
    <3>1. dbLatest.height \in Heights
      BY <2>0 DEF IndexInv, TypeOK
    <3> QED BY <2>0, <3>1 DEF Intact
  <2>2. \A j \in Root..(k - 1) :
          balanceByHeight(a, j)' = balanceByHeight(a, j)
    BY <1>2, IndexBalances
  <2>3. CASE h = k
    <3>1. balanceByHeight(a, k)' = balanceByHeight(a, k - 1) + Effect(b, a)
      BY <1>2, IndexBalances
    <3>2. blockAt'[k] = b
      BY <2>1 DEF IndexInv, TypeOK
    <3> QED BY <2>2, <2>3, <3>1, <3>2
  <2>4. CASE h # k
    <3>1. /\ h \in (Root + 1)..Intact /\ h \in Root..(k - 1)
          /\ h - 1 \in Root..(k - 1)
      BY <2>1, <2>4
    <3>2. blockAt'[h] = blockAt[h]
      BY <2>1, <2>4, <3>1 DEF IndexInv, TypeOK
    <3> QED BY <2>1, <2>2, <3>1, <3>2 DEF Reconciles
  <2> QED BY <2>3, <2>4
<1>3. CASE Kept
  <2>1. /\ dbGenesis # None /\ a \in Accounts \ purged
        /\ h \in (Root + 1)..Intact /\ blockAt'[h] = blockAt[h]
        /\ h \in Root..Intact' /\ h - 1 \in Root..Intact'
    BY <1>3 DEF Kept
  <2>2. /\ balanceByHeight(a, h)' = balanceByHeight(a, h)
        /\ balanceByHeight(a, h - 1)' = balanceByHeight(a, h - 1)
    BY <1>3, <2>1, KeptBalances
  <2> QED BY <2>1, <2>2 DEF Reconciles
<1> QED BY <1>1, <1>2, <1>3, StepKinds

\* From one block to the next, the balance of an account changes by what
\* the operations of the block say: this is what Rosetta's reconciliation
\* tests of the API rely on.
THEOREM BalancesReconcile ==
  ASSUME RepeatReset
  PROVE  Spec => []Reconciles
<1>1. Init => Reconciles
  BY DEF Init, Reconciles
<1>2. IndexInv /\ IndexInv' /\ Reconciles /\ [Next]_vars => Reconciles'
  BY ReconcilesStep
<1> QED BY <1>1, <1>2, IndexDBInvariant, PTL DEF Spec

============================================================================
