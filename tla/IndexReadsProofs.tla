-------------------------- MODULE IndexReadsProofs --------------------------
(***************************************************************************)
(* Requests read the index database in several Views while blocks are      *)
(* indexed: proofs that the answers are right all the same, for every set  *)
(* of accounts, every set of blocks and every chain length.                *)
(***************************************************************************)
EXTENDS IndexReads, LedgerProofs

USE DEF Metas, Heights, Hashes

(***************************************************************************)
(* The database that requests read.                                        *)
(***************************************************************************)

\* While requests are served, the stored chain is whole.
LEMMA ServedChain ==
  ASSUME IndexInv, GenesisStored, Serving
  PROVE  /\ dbLatest.height \in Heights
         /\ latest.height \in Root..dbLatest.height
         /\ hashAt[latest.height] = latest.hash
         /\ genesis.height = Root /\ hashAt[Root] = genesis.hash
         /\ \A h \in Root..dbLatest.height :
              /\ blockAt[h] \in Blocks /\ hashAt[h] \in Hashes
              /\ heightOf[hashAt[h]] = h
         /\ \A h \in Heights : hashAt[h] # None => Stored(h)
         /\ \A x \in Hashes : heightOf[x] # None =>
              Stored(heightOf[x]) /\ hashAt[heightOf[x]] = x
<1> USE Constants DEF IndexInv
<1>1. /\ pc \in {"ready", "publish"}
      /\ genesis = dbGenesis /\ dbGenesis # None /\ dbLatest # None
      /\ latest # None /\ dbGenesis.height = Root /\ resetBase = None
  BY DEF Serving, Control
<1>2. dbLatest.height \in Heights /\ Intact = dbLatest.height
  BY <1>1 DEF TypeOK, Intact
<1>3. /\ latest.height \in Root..dbLatest.height
      /\ hashAt[latest.height] = latest.hash
  BY <1>1, <1>2 DEF TypeOK, Control, DbInv, LatestStored
<1>4. hashAt[Root] = genesis.hash
  BY <1>1 DEF GenesisStored
<1>5. \A h \in Root..dbLatest.height :
        /\ blockAt[h] \in Blocks /\ hashAt[h] \in Hashes
        /\ heightOf[hashAt[h]] = h
  BY <1>1, <1>2 DEF TypeOK, DbInv, ChainIntact
<1>6. \A h \in Heights : hashAt[h] # None => Stored(h)
  BY <1>1, <1>2 DEF DbInv, NothingBeyondLatest, Stored
<1>7. ASSUME NEW x \in Hashes, heightOf[x] # None
      PROVE  Stored(heightOf[x]) /\ hashAt[heightOf[x]] = x
  <2>1. hashAt[heightOf[x]] = x /\ heightOf[x] \in Heights
    BY <1>7 DEF TypeOK, DbInv, NoOrphans
  <2>2. x # None
    OBVIOUS
  <2> QED BY <1>6, <2>1, <2>2
<1> QED BY <1>1, <1>2, <1>3, <1>4, <1>5, <1>6, <1>7

\* A balance that is read is a natural number.
LEMMA ServedBalance ==
  ASSUME IndexInv, NEW a \in Accounts, NEW h \in Heights
  PROVE  balanceByHeight(a, h) \in Nat
<1>1. balanceAt[a] \in BalanceKeys /\ h \in Int
  BY Constants DEF IndexInv, TypeOK, BalanceKeys
<1> QED BY <1>1, BalanceType DEF balanceByHeight

\* While requests are served, only the transaction of Index writes.
LEMMA ServingSteps ==
  ASSUME Serving, [Next]_vars
  PROVE  \/ UNCHANGED db
         \/ \E h \in Heights, f \in Forks, b \in Blocks :
              IndexCommit(h, <<h, f>>, b)
<1>1. CASE pc = "ready"
  BY <1>1, ReadySteps
<1>2. CASE pc = "publish"
  <2>1. ~ (Boot \/ Start)
    BY <1>2 DEF Boot, Start, LoadStore, SetGenesisCommit, SetGenesisPublish,
         Purge, ResyncSkip, ResyncFatal, ResetTo, ResetScan, DeleteBalance,
         DeleteBlock, DeleteHash2Height, DeleteHeight2Hash, DeleteProxy,
         ResetLatest, ResetPublish, InitState
  <2>2. CASE IndexPublish \/ (\E h \in Heights : IndexGap(h)) \/ Crash \/ Exit
             \/ UNCHANGED vars
    BY <2>2 DEF IndexPublish, IndexGap, Crash, Exit, Stop, vars
  <2> QED BY <2>1, <2>2 DEF Next, Index
<1> QED BY <1>1, <1>2 DEF Serving

\* What a request may have found is not changed by the writer.
FoundStays ==
  /\ dbLatest.height \in Heights /\ dbLatest'.height \in Heights
  /\ dbLatest.height <= dbLatest'.height
  /\ \A h \in Root..dbLatest.height :
       /\ blockAt'[h] = blockAt[h] /\ hashAt'[h] = hashAt[h]
       /\ \A a \in Accounts : balanceByHeight(a, h)' = balanceByHeight(a, h)
  /\ \A x \in Hashes : heightOf[x] # None => heightOf'[x] # None

LEMMA ServingStep ==
  ASSUME IndexInv, IndexInv', GenesisStored, Serving, [Next]_vars
  PROVE  FoundStays
<1> USE Constants
<1>0. dbLatest.height \in Heights
  BY ServedChain
<1>1. CASE UNCHANGED db
  BY <1>0, <1>1 DEF FoundStays, balanceByHeight, db
<1>2. ASSUME NEW h \in Heights, NEW f \in Forks, NEW b \in Blocks,
             IndexCommit(h, <<h, f>>, b)
      PROVE  FoundStays
  <2>1. h = dbLatest.height + 1 /\ dbLatest'.height = h
    BY <1>2 DEF IndexCommit, IsNext, IndexInv, Control
  <2>2. \A k \in Root..dbLatest.height :
          k \in Heights /\ k # h /\ k \in Root..(h - 1)
    BY <1>0, <2>1
  <2>3. \A k \in Root..dbLatest.height :
          blockAt'[k] = blockAt[k] /\ hashAt'[k] = hashAt[k]
    BY <1>2, <2>2 DEF IndexCommit, IndexInv, TypeOK
  <2>4. \A k \in Root..dbLatest.height : \A a \in Accounts :
          balanceByHeight(a, k)' = balanceByHeight(a, k)
    BY <1>2, <2>2, IndexBalances
  <2>5. \A x \in Hashes : heightOf[x] # None => heightOf'[x] # None
    BY <1>2 DEF IndexCommit, IndexInv, TypeOK
  <2> QED BY <1>0, <2>1, <2>3, <2>4, <2>5 DEF FoundStays
<1> QED BY <1>1, <1>2, ServingSteps

\* The genesis block stays the first block of the chain.
LEMMA GenesisStep ==
  ASSUME RepeatReset, IndexInv, IndexInv', GenesisStored, [Next]_vars
  PROVE  GenesisStored'
<1> USE Constants
<1>1. CASE SetGenesisCommit
  BY <1>1 DEF SetGenesisCommit, GenesisStored, IndexInv, TypeOK
<1>2. ASSUME NEW h \in Heights, NEW f \in Forks, NEW b \in Blocks,
             IndexCommit(h, <<h, f>>, b)
      PROVE  GenesisStored'
  <2>1. h # Root
    BY <1>2 DEF IndexCommit, IsNext, IndexInv, Control, TypeOK
  <2> QED BY <1>2, <2>1 DEF IndexCommit, GenesisStored, IndexInv, TypeOK
<1>3. CASE Kept
  BY <1>3 DEF Kept, GenesisStored
<1> QED BY <1>1, <1>2, <1>3, StepKinds

(***************************************************************************)
(* Requests.                                                               *)
(***************************************************************************)

\* The writer goes on while a request is in progress.
LEMMA WriteStep ==
  ASSUME IndexInv, IndexInv', GenesisStored, RequestInv, Write
  PROVE  RequestInv'
<1> SUFFICES ASSUME request' # Idle
             PROVE  /\ Serving' /\ request' \in RequestType
                    /\ (ByHash /\ OfLatest /\ ByHeight /\ OfBlock /\ OfAccounts)'
  BY DEF RequestInv
<1>1. Next /\ Serving' /\ request' = request
  BY DEF Write, Next, Serving
<1>2. /\ Serving /\ request \in RequestType
      /\ ByHash /\ OfLatest /\ ByHeight /\ OfBlock /\ OfAccounts
  BY <1>1 DEF RequestInv
<1>3. FoundStays
  BY <1>1, <1>2, ServingStep
<1>4. /\ FoundBlock => FoundBlock'
      /\ Stored(request.height) =>
           /\ Stored(request.height)'
           /\ blockAt'[request.height] = blockAt[request.height]
           /\ request.acct \in Accounts /\ FoundBalance => FoundBalance'
  BY <1>1, <1>3, Constants DEF FoundStays, FoundBlock, FoundBalance, Stored
<1>5. ByHash'
  BY <1>1, <1>2, <1>4 DEF ByHash, FoundBlock
<1>6. OfLatest'
  BY <1>1, <1>2, <1>3 DEF OfLatest, ByHash, FoundStays
<1>7. ByHeight'
  BY <1>1, <1>2, <1>4 DEF ByHeight
<1>8. OfBlock'
  <2>1. hashAt'[Root] = hashAt[Root]
    BY <1>3, Constants DEF FoundStays
  <2>2. FoundBlock /\ request.height > Root =>
          hashAt'[request.height - 1] = hashAt[request.height - 1]
    BY <1>3, Constants DEF FoundStays, FoundBlock, Stored
  <2> QED BY <1>1, <1>2, <1>4, <2>1, <2>2 DEF OfBlock, FoundBlock
<1>9. OfAccounts'
  BY <1>1, <1>2 DEF OfAccounts
<1> QED BY <1>1, <1>2, <1>5, <1>6, <1>7, <1>8, <1>9

\* A request comes in.
LEMMA AskStep ==
  ASSUME IndexInv, GenesisStored, Serving, Ask
  PROVE  RequestInv'
<1> USE Constants
<1>0. Serving'
  BY DEF Ask, AskLatestBalance, AskBalanceAtHeight, AskBalanceAtHash,
         AskBlockAtHeight, AskBlockAtHash, AskAccounts, Receive, ReadOnly,
         vars, Serving
<1>1. ASSUME NEW a \in Accounts, AskLatestBalance(a)
      PROVE  RequestInv'
  <2>1. /\ latest.hash \in Hashes /\ heightOf[latest.hash] # None
    BY ServedChain
  <2>2. /\ request' = [op |-> "balanceLatest", at |-> "heightForHash",
                       acct |-> a, height |-> None, hash |-> latest.hash,
                       balance |-> 0, block |-> << >>, parent |-> None,
                       scanned |-> {}, known |-> FALSE]
        /\ UNCHANGED heightOf
    BY <1>1 DEF AskLatestBalance, Receive, ReadOnly, vars, db
  <2>3. request' \in RequestType
    BY <2>1, <2>2 DEF RequestType
  <2> QED
    BY <1>0, <2>1, <2>2, <2>3
       DEF RequestInv, ByHash, OfLatest, ByHeight, OfBlock, OfAccounts
<1>2. ASSUME NEW a \in Accounts, NEW h \in Heights, AskBalanceAtHeight(a, h)
      PROVE  RequestInv'
  <2>1. PICK known \in BOOLEAN :
          /\ request' = [op |-> "balanceAtHeight", at |-> "balance",
                         acct |-> a, height |-> h, hash |-> None,
                         balance |-> 0, block |-> << >>, parent |-> None,
                         scanned |-> {}, known |-> known]
          /\ known <=> hashAt[h] # None
    BY <1>2 DEF AskBalanceAtHeight, Receive
  <2>2. request' \in RequestType
    BY <2>1 DEF RequestType
  <2>3. known => Stored(h)'
    BY <1>2, <2>1, ServedChain
       DEF AskBalanceAtHeight, Receive, ReadOnly, vars, db, Stored
  <2> QED
    BY <1>0, <2>1, <2>2, <2>3
       DEF RequestInv, ByHash, OfLatest, ByHeight, OfBlock, OfAccounts
<1>3. ASSUME NEW a \in Accounts, NEW x \in Hashes, AskBalanceAtHash(a, x)
      PROVE  RequestInv'
  <2>1. request' = [op |-> "balanceAtHash", at |-> "heightForHash",
                    acct |-> a, height |-> None, hash |-> x,
                    balance |-> 0, block |-> << >>, parent |-> None,
                    scanned |-> {}, known |-> FALSE]
    BY <1>3 DEF AskBalanceAtHash, Receive
  <2>2. request' \in RequestType
    BY <2>1 DEF RequestType
  <2> QED
    BY <1>0, <2>1, <2>2
       DEF RequestInv, ByHash, OfLatest, ByHeight, OfBlock, OfAccounts
<1>4. ASSUME NEW h \in Heights, AskBlockAtHeight(h)
      PROVE  RequestInv'
  <2>1. PICK known \in BOOLEAN :
          request' = [op |-> "blockAtHeight", at |-> "hashForHeight",
                      acct |-> None, height |-> h, hash |-> None,
                      balance |-> 0, block |-> << >>, parent |-> None,
                      scanned |-> {}, known |-> known]
    BY <1>4 DEF AskBlockAtHeight, Receive
  <2>2. request' \in RequestType
    BY <2>1 DEF RequestType
  <2>3. h > Root
    BY <1>4, ServedChain DEF AskBlockAtHeight
  <2> QED
    BY <1>0, <2>1, <2>2, <2>3
       DEF RequestInv, ByHash, OfLatest, ByHeight, OfBlock, OfAccounts
<1>5. ASSUME NEW x \in Hashes, AskBlockAtHash(x)
      PROVE  RequestInv'
  <2>1. request' = [op |-> "blockAtHash", at |-> "heightForHash",
                    acct |-> None, height |-> None, hash |-> x,
                    balance |-> 0, block |-> << >>, parent |-> None,
                    scanned |-> {}, known |-> FALSE]
    BY <1>5 DEF AskBlockAtHash, Receive
  <2>2. request' \in RequestType
    BY <2>1 DEF RequestType
  <2>3. x # hashAt'[Root]
    BY <1>5, ServedChain DEF AskBlockAtHash, Receive, ReadOnly, vars, db
  <2> QED
    BY <1>0, <2>1, <2>2, <2>3
       DEF RequestInv, ByHash, OfLatest, ByHeight, OfBlock, OfAccounts
<1>6. ASSUME AskAccounts
      PROVE  RequestInv'
  <2>1. request' = [op |-> "listAccounts", at |-> "scanBalances",
                    acct |-> None, height |-> None, hash |-> None,
                    balance |-> 0, block |-> << >>, parent |-> None,
                    scanned |-> {}, known |-> FALSE]
    BY <1>6 DEF AskAccounts, Receive
  <2>2. request' \in RequestType
    BY <2>1 DEF RequestType
  <2> QED
    BY <1>0, <2>1, <2>2
       DEF RequestInv, ByHash, OfLatest, ByHeight, OfBlock, OfAccounts
<1> QED BY <1>1, <1>2, <1>3, <1>4, <1>5, <1>6 DEF Ask

\* A View of the request in progress.
LEMMA ReadStep ==
  ASSUME IndexInv, GenesisStored, RequestInv, Read
  PROVE  RequestInv'
<1> USE Constants
<1>1. UNCHANGED <<balanceAt, blockAt, heightOf, hashAt, proxyAt, dbLatest, pc>>
  BY DEF Read, HeightForHash, HashForHeight, ReadBalance, ReadBlock,
         ReadParent, ScanBalances, ScanProxies, ReadOnly, vars, db
<1>2. request # Idle
  BY DEF Read, HeightForHash, HashForHeight, ReadBalance, ReadBlock,
         ReadParent, ScanBalances, ScanProxies, Idle
<1>3. /\ Serving /\ Serving' /\ request \in RequestType
      /\ ByHash /\ OfLatest /\ ByHeight /\ OfBlock /\ OfAccounts
  BY <1>1, <1>2 DEF RequestInv, Serving
<1> USE DEF RequestInv
<1>4. CASE HeightForHash
  <2> DEFINE h == heightOf[request.hash]
  <2>1. /\ request.at = "heightForHash" /\ request.hash \in Hashes
        /\ request.op \in {"balanceLatest", "balanceAtHash", "blockAtHash"}
    BY <1>3, <1>4
       DEF HeightForHash, RequestType, ByHash, ByHeight, OfBlock, OfAccounts
  <2>2. CASE h = None
    <3>1. request' = [request EXCEPT !.at = "error"]
      BY <1>4, <2>2 DEF HeightForHash, Fail
    <3>2. request' \in RequestType
      BY <1>3, <3>1 DEF RequestType
    <3> QED
      BY <1>1, <1>3, <2>1, <2>2, <3>1, <3>2
         DEF RequestType, ByHash, OfLatest, ByHeight, OfBlock, OfAccounts
  <2>3. CASE h # None
    <3>1. Stored(h) /\ hashAt[h] = request.hash /\ h \in Heights
      BY <1>3, <2>1, <2>3, ServedChain DEF Stored
    <3>2. request' = [request EXCEPT !.height = h,
                                     !.at = AfterHeightForHash(request.op)]
      BY <1>4, <2>3 DEF HeightForHash
    <3>3. request' \in RequestType
      BY <1>3, <3>1, <3>2 DEF RequestType, AfterHeightForHash
    <3>4. /\ request'.height = h /\ request'.op = request.op
          /\ request'.at = AfterHeightForHash(request.op)
          /\ request'.hash = request.hash /\ request'.acct = request.acct
      BY <1>3, <3>2 DEF RequestType
    <3>5. FoundBlock'
      BY <1>1, <3>1, <3>4 DEF FoundBlock, Stored
    <3>6. request.op = "blockAtHash" => h > Root
      BY <1>3, <2>1, <3>1 DEF OfBlock
    <3> QED
      BY <1>1, <1>3, <2>1, <3>3, <3>4, <3>5, <3>6
         DEF ByHash, OfLatest, ByHeight, OfBlock, OfAccounts, AfterHeightForHash
  <2> QED BY <2>2, <2>3
<1>5. CASE HashForHeight
  <2> DEFINE x == hashAt[request.height]
  <2>1. /\ request.at = "hashForHeight" /\ request.height \in Heights
        /\ request.op \in {"balanceAtHeight", "blockAtHeight"}
    BY <1>3, <1>5
       DEF HashForHeight, RequestType, ByHash, ByHeight, OfBlock, OfAccounts
  <2>2. CASE x = None
    <3>1. request' = [request EXCEPT !.at = "error"]
      BY <1>5, <2>2 DEF HashForHeight, Fail
    <3>2. request' \in RequestType
      BY <1>3, <3>1 DEF RequestType
    <3> QED
      BY <1>1, <1>3, <2>1, <2>2, <3>1, <3>2
         DEF RequestType, ByHash, OfLatest, ByHeight, OfBlock, OfAccounts, Stored
  <2>3. CASE x # None
    <3>1. Stored(request.height) /\ x \in Hashes
      BY <1>3, <2>1, <2>3, ServedChain DEF Stored
    <3>2. request' = [request EXCEPT !.hash = x,
                                     !.at = AfterHashForHeight(request.op)]
      BY <1>5, <2>3 DEF HashForHeight
    <3>3. request' \in RequestType
      BY <1>3, <3>1, <3>2 DEF RequestType, AfterHashForHeight
    <3>4. /\ request'.hash = x /\ request'.op = request.op
          /\ request'.at = AfterHashForHeight(request.op)
          /\ request'.height = request.height /\ request'.acct = request.acct
          /\ request'.known = request.known
          /\ request'.balance = request.balance
      BY <1>3, <3>2 DEF RequestType
    <3>5. FoundBlock' /\ (FoundBalance => FoundBalance')
      BY <1>1, <3>1, <3>4 DEF FoundBlock, FoundBalance, Stored, balanceByHeight
    <3> QED
      BY <1>1, <1>3, <2>1, <3>3, <3>4, <3>5
         DEF ByHash, OfLatest, ByHeight, OfBlock, OfAccounts, Stored,
             AfterHashForHeight
  <2> QED BY <2>2, <2>3
<1>6. CASE ReadBalance
  <2> DEFINE b == balanceByHeight(request.acct, request.height)
  <2>1. /\ request.at = "balance" /\ request.height \in Heights
        /\ request.acct \in Accounts
        /\ request.op \in {"balanceLatest", "balanceAtHash", "balanceAtHeight"}
    BY <1>3, <1>6, ServedChain
       DEF ReadBalance, RequestType, ByHash, ByHeight, OfBlock, OfAccounts,
           FoundBlock, Stored
  <2>2. b \in Nat
    BY <2>1, ServedBalance
  <2>3. request' = [request EXCEPT !.balance = b,
                                   !.at = AfterBalance(request.op)]
    BY <1>6 DEF ReadBalance
  <2> HIDE DEF b
  <2>4. request' \in RequestType
    BY <1>3, <2>2, <2>3 DEF RequestType, AfterBalance
  <2>5. /\ request'.balance = b /\ request'.op = request.op
        /\ request'.at = AfterBalance(request.op)
        /\ request'.height = request.height /\ request'.acct = request.acct
        /\ request'.known = request.known /\ request'.hash = request.hash
    BY <1>3, <2>3 DEF RequestType
  <2>6. FoundBalance' /\ (FoundBlock => FoundBlock')
    BY <1>1, <2>5 DEF FoundBlock, FoundBalance, Stored, balanceByHeight, b
  <2> QED
    BY <1>1, <1>3, <2>1, <2>4, <2>5, <2>6
       DEF ByHash, OfLatest, ByHeight, OfBlock, OfAccounts, Stored, AfterBalance
<1>7. CASE ReadBlock
  <2>1. /\ request.at = "block" /\ FoundBlock /\ request.height > Root
        /\ request.op \in {"blockAtHeight", "blockAtHash"}
    BY <1>3, <1>7
       DEF ReadBlock, RequestType, ByHash, ByHeight, OfBlock, OfAccounts
  <2>2. blockAt[request.height] \in Blocks
    BY <1>3, <2>1, ServedChain DEF FoundBlock, Stored
  <2>3. request' = [request EXCEPT !.block = blockAt[request.height],
                                   !.at = "parent"]
    BY <1>7, <2>2 DEF ReadBlock
  <2>4. request' \in RequestType
    BY <1>3, <2>2, <2>3 DEF RequestType
  <2>5. /\ request'.block = blockAt[request.height]
        /\ request'.at = "parent" /\ request'.op = request.op
        /\ request'.height = request.height /\ request'.hash = request.hash
    BY <1>3, <2>3 DEF RequestType
  <2>6. FoundBlock'
    BY <1>1, <2>1, <2>5 DEF FoundBlock, Stored
  <2> QED
    BY <1>1, <1>3, <2>1, <2>4, <2>5, <2>6
       DEF ByHash, OfLatest, ByHeight, OfBlock, OfAccounts
<1>8. CASE ReadParent
  <2>1. /\ request.at = "parent" /\ FoundBlock /\ request.height > Root
        /\ request.op \in {"blockAtHeight", "blockAtHash"}
        /\ blockAt[request.height] = request.block
    BY <1>3, <1>8
       DEF ReadParent, RequestType, ByHash, ByHeight, OfBlock, OfAccounts
  <2>2. /\ ParentHeight(request.height) = request.height - 1
        /\ hashAt[request.height - 1] \in Hashes
    BY <1>3, <2>1, ServedChain DEF FoundBlock, Stored, ParentHeight
  <2>3. request' = [request EXCEPT !.parent = hashAt[request.height - 1],
                                   !.at = "done"]
    BY <1>8, <2>2 DEF ReadParent
  <2>4. request' \in RequestType
    BY <1>3, <2>2, <2>3 DEF RequestType
  <2>5. /\ request'.parent = hashAt[request.height - 1]
        /\ request'.block = request.block
        /\ request'.at = "done" /\ request'.op = request.op
        /\ request'.height = request.height /\ request'.hash = request.hash
    BY <1>3, <2>3 DEF RequestType
  <2>6. FoundBlock'
    BY <1>1, <2>1, <2>5 DEF FoundBlock, Stored
  <2> QED
    BY <1>1, <1>3, <2>1, <2>4, <2>5, <2>6
       DEF ByHash, OfLatest, ByHeight, OfBlock, OfAccounts
<1>9. CASE ScanBalances \/ ScanProxies
  <2>1. /\ request.at \in {"scanBalances", "scanProxies"}
        /\ request.op = "listAccounts"
    BY <1>3, <1>9
       DEF ScanBalances, ScanProxies, RequestType, ByHash, ByHeight, OfBlock
  <2>2. PICK at \in {"scanProxies", "done", "error"}, S \in SUBSET Accounts :
          request' = [request EXCEPT !.at = at, !.scanned = S]
    <3>1. CASE ScanBalances
      BY <3>1 DEF ScanBalances
    <3>2. CASE ScanProxies
      <4>1. PICK at \in {"done", "error"} : request' = [request EXCEPT !.at = at]
        BY <3>2 DEF ScanProxies, Fail
      <4>2. request' = [request EXCEPT !.at = at, !.scanned = request.scanned]
        BY <1>3, <4>1 DEF RequestType
      <4>3. request.scanned \in SUBSET Accounts
        BY <1>3 DEF RequestType
      <4> QED BY <4>2, <4>3
    <3> QED BY <1>9, <3>1, <3>2
  <2>3. request' \in RequestType
    BY <1>3, <2>2 DEF RequestType
  <2>4. request'.at = at /\ request'.op = "listAccounts"
    BY <1>3, <2>1, <2>2 DEF RequestType
  <2> QED
    BY <1>1, <1>3, <2>3, <2>4
       DEF ByHash, OfLatest, ByHeight, OfBlock, OfAccounts
<1> QED BY <1>4, <1>5, <1>6, <1>7, <1>8, <1>9 DEF Read

\* Every step preserves the invariant.
LEMMA NextReadInv ==
  ASSUME RepeatReset, ReadInv, [ReadNext]_readVars
  PROVE  ReadInv'
<1>0. IndexInv /\ GenesisStored /\ RequestInv
  BY DEF ReadInv
<1>1. [Next]_vars
  BY DEF ReadNext, Ask, AskLatestBalance, AskBalanceAtHeight,
         AskBalanceAtHash, AskBlockAtHeight, AskBlockAtHash, AskAccounts,
         Receive, Read, HeightForHash, HashForHeight, ReadBalance, ReadBlock,
         ReadParent, ScanBalances, ScanProxies, Respond, ReadOnly, Write,
         Next, readVars
<1>2. IndexInv'
  BY <1>0, <1>1, NextInv
<1>3. GenesisStored'
  BY <1>0, <1>1, <1>2, GenesisStep
<1>4. RequestInv'
  <2>1. CASE Serving /\ Ask
    BY <1>0, <2>1, AskStep
  <2>2. CASE Read
    BY <1>0, <2>2, ReadStep
  <2>3. CASE Respond
    BY <2>3 DEF Respond, RequestInv
  <2>4. CASE Write
    BY <1>0, <1>2, <2>4, WriteStep
  <2>5. CASE UNCHANGED readVars
    <3>1. UNCHANGED <<request, balanceAt, blockAt, heightOf, hashAt, dbLatest, pc>>
      BY <2>5 DEF readVars, vars, db
    <3> QED
      BY <1>0, <3>1
         DEF RequestInv, Serving, ByHash, OfLatest, ByHeight, OfBlock,
             OfAccounts, FoundBlock, FoundBalance, Stored, balanceByHeight
  <2> QED BY <2>1, <2>2, <2>3, <2>4, <2>5 DEF ReadNext
<1> QED BY <1>2, <1>3, <1>4 DEF ReadInv

\* However requests and indexing interleave, what a request has found so
\* far belongs to one block of the stored chain.
THEOREM ReadInvariant ==
  ASSUME RepeatReset
  PROVE  ReadSpec => []ReadInv
<1>1. ReadInit => ReadInv
  BY InitInv DEF ReadInit, Init, ReadInv, GenesisStored, RequestInv
<1>2. ReadInv /\ [ReadNext]_readVars => ReadInv'
  BY NextReadInv
<1> QED BY <1>1, <1>2, PTL DEF ReadSpec

\* An answer is the result of a request that is not idle.
LEMMA AnswerHolds ==
  ASSUME ReadInv, request.at \in {"done", "error"}
  PROVE  ByHash /\ OfLatest /\ ByHeight /\ OfBlock
BY DEF ReadInv, RequestInv, Idle

\* /account/balance by hash, and for the latest block, serves the balance at
\* the block that it names, whatever is indexed between its two Views.
THEOREM BalancesByHash ==
  ASSUME RepeatReset
  PROVE  ReadSpec => []BalanceByHashCorrect
<1>1. ReadInv => BalanceByHashCorrect
  BY AnswerHolds DEF BalanceByHashCorrect, BalanceIsOfItsBlock, Answered,
                     ByHash, FoundBlock, FoundBalance
<1> QED BY <1>1, ReadInvariant, PTL

\* /account/balance by height serves the balance at that height, if the
\* block had been indexed when the request came in.
THEOREM KnownBalances ==
  ASSUME RepeatReset
  PROVE  ReadSpec => []KnownBalanceCorrect
<1>1. ReadInv => KnownBalanceCorrect
  BY AnswerHolds DEF KnownBalanceCorrect, Answered, ByHeight, FoundBalance
<1> QED BY <1>1, ReadInvariant, PTL

\* A request for the latest block never fails: the block is in the database
\* before it is the latest one in memory, and stays there.
THEOREM LatestFound ==
  ASSUME RepeatReset
  PROVE  ReadSpec => []LatestIsFound
<1>1. ReadInv => LatestIsFound
  BY AnswerHolds DEF LatestIsFound, At, OfLatest
<1> QED BY <1>1, ReadInvariant, PTL

\* A block is served whole: its content and its parent are those of the
\* stored chain, and a block that was found is not lost in a later View.
THEOREM BlocksAreWhole ==
  ASSUME RepeatReset
  PROVE  ReadSpec => []BlockIsWhole
<1>1. ReadInv => BlockIsWhole
  BY AnswerHolds DEF BlockIsWhole, Answered, OfBlock, FoundBlock
<1> QED BY <1>1, ReadInvariant, PTL

=============================================================================
