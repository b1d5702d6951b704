------------------------------ MODULE IndexDB ------------------------------
(***************************************************************************)
(* The index database of Flow Rosetta (src/indexdb/indexdb.go) together    *)
(* with the part of the indexer's start-up that drives it                  *)
(* (src/state/state.go: Run, initStore, handlePurgeProxyAccounts,          *)
(* handleResyncFrom, initState).                                           *)
(*                                                                         *)
(* The Badger database is the persistent state, one function per key       *)
(* prefix; a key that is absent maps to None.  The Store's genesis and     *)
(* latest fields and the control state of the one goroutine that writes    *)
(* are volatile.  A Badger transaction is one step.  The deletions of      *)
(* ResetTo go through a WriteBatch, which commits a growing prefix of the  *)
(* sorted keys: they are modelled one key at a time, so that a crash can   *)
(* fall between any two of them.                                           *)
(***************************************************************************)
EXTENDS Operations, FiniteSets

CONSTANTS
  Accounts,     \* account addresses
  Forks,        \* what makes two blocks of the same height differ
  Blocks,       \* the operation lists an indexed block may carry
  Root,         \* height of the genesis block (root of the first spork)
  MaxHeight,    \* bound: highest block that is ever offered to Index
  RepeatReset,  \* TRUE: a reset that was cut short is run again before
                \* anything else, with the same base or a lower one
  None          \* an absent key; a nil pointer

Heights == Root..MaxHeight

\* A block hash identifies the height of its block.
Hashes == Heights \X Forks

Metas == [height : Heights, hash : Hashes]

(***************************************************************************)
(* What Index computes from the operations of a block, before it touches   *)
(* the database.                                                           *)
(***************************************************************************)
AcctDiffs == [block \in Blocks |-> Diffs(block)]

Touched(block) == DOMAIN AcctDiffs[block]

\* The net change of an account's balance in a block.
Effect(block, acct) ==
  IF acct \in Touched(block) THEN AcctDiffs[block][acct] ELSE 0

ASSUME ConstantsAssumption ==
  /\ Root \in Nat /\ MaxHeight \in Nat /\ Root <= MaxHeight
  /\ Forks # {}
  /\ RepeatReset \in BOOLEAN
  /\ None \notin Heights \cup Hashes \cup Metas \cup Blocks \cup Int
  /\ << >> \in Blocks

\* The balance changes of a block form a map[string]int64 over accounts.
ASSUME BlocksAssumption ==
  \A b \in Blocks :
    /\ Touched(b) \subseteq Accounts
    /\ \A a \in Touched(b) : AcctDiffs[b][a] \in Int
    /\ ProxiesCreated(b) \subseteq Touched(b)

VARIABLES
  \* The Badger database.
  balanceAt,    \* a<acct><height>: balance after the block at that height
  blockAt,      \* b<height>: the indexed block
  heightOf,     \* c<hash>: height of the block with that hash
  hashAt,       \* d<height>: hash of the block at that height
  proxyAt,      \* p<acct><height>: heights at which acct became a proxy
  dbGenesis,    \* "genesis"
  dbLatest,     \* "latest"
  \* The Store and the goroutine that writes through it.
  genesis,      \* s.genesis
  latest,       \* s.latest
  pc,           \* control state
  config,       \* purge_proxy_accounts and resync_from of this run
  del,          \* keys that ResetTo has still to delete, by prefix
  last,         \* local variable last of ResetTo
  \* History variables, for the properties only.
  resetBase,    \* base of a reset that has begun and not set "latest" yet
  purged        \* accounts that PurgeProxyAccounts has removed

db == <<balanceAt, blockAt, heightOf, hashAt, proxyAt, dbGenesis, dbLatest>>
store == <<genesis, latest>>
reset == <<del, last>>
history == <<resetBase, purged>>
vars == <<db, store, reset, history, pc, config>>

\* The settings are not read again after start-up, and are dropped then.
NoConfig == [purge |-> FALSE, resync |-> 0]

NothingToDelete == [a |-> {}, b |-> {}, c |-> {}, d |-> {}, p |-> {}]

Init ==
  /\ balanceAt = [a \in Accounts |-> [h \in Heights |-> None]]
  /\ blockAt = [h \in Heights |-> None]
  /\ heightOf = [x \in Hashes |-> None]
  /\ hashAt = [h \in Heights |-> None]
  /\ proxyAt = [a \in Accounts |-> {}]
  /\ dbGenesis = None /\ dbLatest = None
  /\ genesis = None /\ latest = None
  /\ pc = "down"
  /\ config = NoConfig
  /\ del = NothingToDelete /\ last = 0
  /\ resetBase = None /\ purged = {}

(***************************************************************************)
(* Reading the database.                                                   *)
(***************************************************************************)

\* MUTANT of SeekStopsAt: the seek starts before the height, not at it.
SeekBefore(keys, height, k) ==
  /\ k \in Root..(height - 1)
  /\ keys[k] # None
  /\ \A j \in (k + 1)..(height - 1) : keys[j] = None

\* A reverse iterator over the balance keys of an account that seeks height
\* stops at height k.
SeekStopsAt(keys, height, k) ==
  /\ k \in Root..height
  /\ keys[k] # None
  /\ \A j \in (k + 1)..height : keys[j] = None

\* The most recent balance at or before the height, or 0.
SeekBalance(keys, height) ==
  IF \E k \in Heights : SeekStopsAt(keys, height, k)
    THEN keys[CHOOSE k \in Heights : SeekStopsAt(keys, height, k)]
    ELSE 0

balanceByHeight(acct, height) == SeekBalance(balanceAt[acct], height)

\* MUTANT of CurrentBalance: only the block just before is looked at.
PreviousBalanceOnly(keys, height) ==
  IF keys[height - 1] = None THEN 0 ELSE keys[height - 1]

\* The balance that Index starts from.  When the key of this height exists
\* already, Index steps the iterator once more and then reads the item it
\* held before the step.
CurrentBalance(keys, height) ==
  IF keys[height] = None
    THEN SeekBalance(keys, height)
    ELSE IF \E k \in Heights : SeekStopsAt(keys, height - 1, k)
           THEN keys[height]
           ELSE 0

\* Store.Accounts succeeds: every proxy account has a balance.
AccountsOK ==
  \A a \in Accounts :
    proxyAt[a] # {} => \E h \in Heights : balanceAt[a][h] # None

(***************************************************************************)
(* Start-up.                                                               *)
(***************************************************************************)

\* The process starts with a configuration the operator has chosen.
Start ==
  /\ pc = "down"
  /\ \E purge \in BOOLEAN, resync \in 0..MaxHeight :
       /\ (RepeatReset /\ resetBase # None) => resync \in 1..resetBase
       /\ config' = [purge |-> purge, resync |-> resync]
  /\ pc' = "initStore"
  /\ UNCHANGED <<db, store, reset, history>>

\* initStore on a database with a genesis block: Genesis and Latest load
\* the stored values.
LoadStore ==
  /\ pc = "initStore"
  /\ dbGenesis # None
  /\ genesis' = dbGenesis
  /\ latest' = dbLatest
  /\ pc' = "purge"
  /\ UNCHANGED <<db, reset, history, config>>

\* initStore on an empty database: the transaction of SetGenesis.
SetGenesisCommit ==
  /\ pc = "initStore"
  /\ dbGenesis = None
  /\ \E f \in Forks :
       LET hash == <<Root, f>>
           val  == [height |-> Root, hash |-> hash]
       IN  /\ dbGenesis' = val
           /\ dbLatest' = val
           /\ blockAt' = [blockAt EXCEPT ![Root] = << >>]
           /\ heightOf' = [heightOf EXCEPT ![hash] = Root]
           /\ hashAt' = [hashAt EXCEPT ![Root] = hash]
  /\ pc' = "setGenesis"
  /\ UNCHANGED <<balanceAt, proxyAt, store, reset, history, config>>

\* The end of SetGenesis: publish the values under s.mu.
SetGenesisPublish ==
  /\ pc = "setGenesis"
  /\ genesis' = dbGenesis
  /\ latest' = dbGenesis
  /\ pc' = "purge"
  /\ UNCHANGED <<db, reset, history, config>>

\* MUTANT of PurgedKeys: the proxy keys stay.
KeepProxyKeys(acct) == {}

\* The map accts of PurgeProxyAccounts keeps one proxy key per account, the
\* one the scan meets last.
PurgedKeys(acct) ==
  {h \in proxyAt[acct] : \A k \in proxyAt[acct] : k <= h}

\* handlePurgeProxyAccounts.  Nothing else runs yet, so the two scans and
\* the transaction are one step.
Purge ==
  /\ pc = "purge"
  /\ IF config.purge
       THEN LET proxies == {a \in Accounts : proxyAt[a] # {}}
            IN  /\ proxyAt' = [a \in Accounts |-> proxyAt[a] \ PurgedKeys(a)]
                /\ balanceAt' = [a \in Accounts |->
                                   IF a \in proxies
                                     THEN [h \in Heights |-> None]
                                     ELSE balanceAt[a]]
                /\ purged' = purged \cup proxies
       ELSE UNCHANGED <<proxyAt, balanceAt, purged>>
  /\ pc' = "resync"
  /\ UNCHANGED <<blockAt, heightOf, hashAt, dbGenesis, dbLatest, store, reset,
                 resetBase, config>>

(***************************************************************************)
(* handleResyncFrom and ResetTo.                                           *)
(***************************************************************************)

\* ResetTo returns at once if the store ends at or before base.
NothingToReset(base) == latest.height <= base

\* No resync_from, or the store ends at or before it: nothing to do.
ResyncSkip ==
  /\ pc = "resync"
  /\ \/ config.resync = 0
     \/ /\ genesis.height <= config.resync
        /\ NothingToReset(config.resync)
  /\ pc' = "initState"
  /\ UNCHANGED <<db, store, reset, history, config>>

\* resync_from below the genesis block is a fatal error.
ResyncFatal ==
  /\ pc = "resync"
  /\ config.resync # 0
  /\ config.resync < genesis.height
  /\ pc' = "exit"
  /\ UNCHANGED <<db, store, reset, history, config>>

\* The highest height up to base that has a height-to-hash key, or 0.
LastUpTo(base) ==
  IF \E h \in Heights : h <= base /\ hashAt[h] # None
    THEN CHOOSE h \in Heights :
           /\ h <= base /\ hashAt[h] # None
           /\ \A k \in Heights : (k <= base /\ hashAt[k] # None) => k <= h
    ELSE 0

\* MUTANT of DroppedHeights: the base itself is dropped too.
DroppedFrom(base) == {h \in Heights : h >= base /\ hashAt[h] # None}

\* The scan of the height-to-hash keys.
DroppedHeights(base) == {h \in Heights : h > base /\ hashAt[h] # None}

\* MUTANT of DroppedBalances: the first height to drop is left out.
DroppedLater(base) ==
  {k \in Accounts \X Heights :
     k[2] > base + 1 /\ balanceAt[k[1]][k[2]] # None}

\* The scan of the account balance keys.
DroppedBalances(base) ==
  {k \in Accounts \X Heights : k[2] > base /\ balanceAt[k[1]][k[2]] # None}

\* The scans of ResetTo.  Block and hash-to-height keys are not scanned for:
\* they are derived from the height-to-hash keys.
ResetScan ==
  LET base    == config.resync
      heights == DroppedHeights(base)
  IN  /\ pc = "resync"
      /\ base # 0
      /\ genesis.height <= base
      /\ ~NothingToReset(base)
      /\ del' = [a |-> DroppedBalances(base),
                 b |-> heights,
                 c |-> {hashAt[h] : h \in heights},
                 d |-> heights,
                 p |-> {k \in Accounts \X Heights :
                          k[2] > base /\ k[2] \in proxyAt[k[1]]}]
      /\ last' = LastUpTo(base)
      /\ resetBase' = base
      /\ pc' = "delete"
      /\ UNCHANGED <<db, store, purged, config>>

\* The batch deletes the keys in the order of their bytes, so by prefix:
\* all of a, then b, c, d and p, and by height where the height follows.
\* Accounts and hashes are opaque here: the order between two of them is
\* left open.
FirstOf(keys) == {k \in keys : \A j \in keys : j[1] = k[1] => k[2] <= j[2]}

Lowest(heights) == {h \in heights : \A k \in heights : h <= k}

DeleteBalance ==
  /\ pc = "delete"
  /\ \E k \in FirstOf(del.a) :
       /\ balanceAt' = [balanceAt EXCEPT ![k[1]][k[2]] = None]
       /\ del' = [del EXCEPT !.a = @ \ {k}]
  /\ UNCHANGED <<blockAt, heightOf, hashAt, proxyAt, dbGenesis, dbLatest,
                 store, last, history, pc, config>>

DeleteBlock ==
  /\ pc = "delete"
  /\ del.a = {}
  /\ \E h \in Lowest(del.b) :
       /\ blockAt' = [blockAt EXCEPT ![h] = None]
       /\ del' = [del EXCEPT !.b = @ \ {h}]
  /\ UNCHANGED <<balanceAt, heightOf, hashAt, proxyAt, dbGenesis, dbLatest,
                 store, last, history, pc, config>>

DeleteHash2Height ==
  /\ pc = "delete"
  /\ del.a = {} /\ del.b = {}
  /\ \E x \in del.c :
       /\ heightOf' = [heightOf EXCEPT ![x] = None]
       /\ del' = [del EXCEPT !.c = @ \ {x}]
  /\ UNCHANGED <<balanceAt, blockAt, hashAt, proxyAt, dbGenesis, dbLatest,
                 store, last, history, pc, config>>

\* MUTANT of SortsBeforeHeight2Hash: the keys are not sorted.
Unsorted == TRUE

\* Every key that sorts before the height-to-hash keys is gone.
SortsBeforeHeight2Hash == del.a = {} /\ del.b = {} /\ del.c = {}

DeleteHeight2Hash ==
  /\ pc = "delete"
  /\ SortsBeforeHeight2Hash
  /\ \E h \in Lowest(del.d) :
       /\ hashAt' = [hashAt EXCEPT ![h] = None]
       /\ del' = [del EXCEPT !.d = @ \ {h}]
  /\ UNCHANGED <<balanceAt, blockAt, heightOf, proxyAt, dbGenesis, dbLatest,
                 store, last, history, pc, config>>

DeleteProxy ==
  /\ pc = "delete"
  /\ del.a = {} /\ del.b = {} /\ del.c = {} /\ del.d = {}
  /\ \E k \in FirstOf(del.p) :
       /\ proxyAt' = [proxyAt EXCEPT ![k[1]] = @ \ {k[2]}]
       /\ del' = [del EXCEPT !.p = @ \ {k}]
  /\ UNCHANGED <<balanceAt, blockAt, heightOf, hashAt, dbGenesis, dbLatest,
                 store, last, history, pc, config>>

\* The batch is flushed: read back the block that is now the last one and
\* store it as "latest"; if it is not there, ResetTo fails and its caller
\* exits.
ResetLatest ==
  /\ pc = "delete"
  /\ del = NothingToDelete
  /\ IF last \in Heights /\ blockAt[last] # None /\ hashAt[last] # None
       THEN /\ dbLatest' = [height |-> last, hash |-> hashAt[last]]
            /\ resetBase' = None
            /\ pc' = "resetDone"
       ELSE /\ pc' = "exit"
            /\ UNCHANGED <<dbLatest, resetBase>>
  /\ UNCHANGED <<balanceAt, blockAt, heightOf, hashAt, proxyAt, dbGenesis,
                 store, reset, purged, config>>

\* MUTANT of ResetResult: the field s.latest is left as it was.
StaleResult == latest

\* The value that ResetTo gives s.latest.
ResetResult == dbLatest

\* The end of ResetTo: publish the new latest block under s.mu.
ResetPublish ==
  /\ pc = "resetDone"
  /\ latest' = ResetResult
  /\ pc' = "initState"
  /\ UNCHANGED <<db, genesis, reset, history, config>>

\* initState reads all accounts; the rest of start-up follows.
InitState ==
  /\ pc = "initState"
  /\ pc' = IF AccountsOK THEN "ready" ELSE "exit"
  /\ config' = NoConfig
  /\ UNCHANGED <<db, store, reset, history>>

(***************************************************************************)
(* Index.                                                                  *)
(***************************************************************************)

\* An account is created by one block of the chain only.
CreatesOnce(block) == \A a \in ProxiesCreated(block) : proxyAt[a] = {}

NewBalance(block, height, acct) ==
  CurrentBalance(balanceAt[acct], height) + AcctDiffs[block][acct]

\* MUTANT of BalancesValid: a negative balance is stored.
AnyBalance(block, height) == TRUE

\* No balance falls below zero.
BalancesValid(block, height) ==
  \A a \in Touched(block) : NewBalance(block, height, a) >= 0

\* MUTANT of IsNext: the latest block can be indexed again.
IsNextOrLatest(height) == height \in {latest.height, latest.height + 1}

\* The block comes right after the latest one.
IsNext(height) == height = latest.height + 1

\* Index for the block after the latest one: its transaction.  A balance
\* below zero fails the transaction, and the block stays unindexed.
IndexCommit(height, hash, block) ==
  /\ pc = "ready"
  /\ IsNext(height)
  /\ CreatesOnce(block)
  /\ BalancesValid(block, height)
  /\ balanceAt' = [a \in Accounts |->
                     IF a \in Touched(block)
                       THEN [balanceAt[a] EXCEPT
                               ![height] = NewBalance(block, height, a)]
                       ELSE balanceAt[a]]
  /\ proxyAt' = [a \in Accounts |->
                   IF a \in ProxiesCreated(block)
                     THEN proxyAt[a] \cup {height}
                     ELSE proxyAt[a]]
  /\ blockAt' = [blockAt EXCEPT ![height] = block]
  /\ heightOf' = [heightOf EXCEPT ![hash] = height]
  /\ hashAt' = [hashAt EXCEPT ![height] = hash]
  /\ dbLatest' = [height |-> height, hash |-> hash]
  /\ pc' = "publish"
  /\ UNCHANGED <<dbGenesis, store, reset, history, config>>

\* The end of Index: s.latest moves on, if it is one behind.
IndexPublish ==
  /\ pc = "publish"
  /\ latest' = IF dbLatest.height = latest.height + 1 THEN dbLatest ELSE latest
  /\ pc' = "ready"
  /\ UNCHANGED <<db, genesis, reset, history, config>>

\* Index for a block that is not the next one: a height up to the latest is
\* skipped without a change, a later one is a fatal error.
IndexGap(height) ==
  /\ pc = "ready"
  /\ latest.height < height
  /\ height # latest.height + 1
  /\ pc' = "exit"
  /\ UNCHANGED <<db, store, reset, history, config>>

(***************************************************************************)
(* The process ends: it is killed, or it exits after a fatal error.        *)
(***************************************************************************)
Stop ==
  /\ genesis' = None /\ latest' = None
  /\ del' = NothingToDelete /\ last' = 0
  /\ pc' = "down"
  /\ config' = NoConfig
  /\ UNCHANGED <<db, history>>

Crash == pc \notin {"down", "exit"} /\ Stop

Exit == pc = "exit" /\ Stop

ResetTo ==
  \/ ResetScan
  \/ DeleteBalance \/ DeleteBlock \/ DeleteHash2Height
  \/ DeleteHeight2Hash \/ DeleteProxy
  \/ ResetLatest \/ ResetPublish

Boot ==
  \/ LoadStore \/ SetGenesisCommit \/ SetGenesisPublish
  \/ Purge \/ ResyncSkip \/ ResyncFatal \/ ResetTo \/ InitState

Index ==
  \/ \E h \in Heights, f \in Forks, b \in Blocks : IndexCommit(h, <<h, f>>, b)
  \/ IndexPublish
  \/ \E h \in Heights : IndexGap(h)

Next == Start \/ Boot \/ Index \/ Crash \/ Exit

\* The writer goroutine keeps running while the process is up; whether a
\* block arrives, the process is killed or started again is up to others.
Fairness == WF_vars(Boot) /\ WF_vars(IndexPublish) /\ WF_vars(Exit)

Spec == Init /\ [][Next]_vars /\ Fairness

(***************************************************************************)
(* Properties.                                                             *)
(***************************************************************************)

\* The blocks up to this height are untouched by an unfinished reset.
Intact == IF resetBase = None THEN dbLatest.height ELSE resetBase

\* Every variable has its type.
TypeOK ==
  /\ balanceAt \in [Accounts -> [Heights -> Nat \cup {None}]]
  /\ blockAt \in [Heights -> Blocks \cup {None}]
  /\ heightOf \in [Hashes -> Heights \cup {None}]
  /\ hashAt \in [Heights -> Hashes \cup {None}]
  /\ proxyAt \in [Accounts -> SUBSET Heights]
  /\ dbGenesis \in Metas \cup {None}
  /\ dbLatest \in Metas \cup {None}
  /\ genesis \in Metas \cup {None}
  /\ latest \in Metas \cup {None}
  /\ pc \in {"down", "initStore", "setGenesis", "purge", "resync", "delete",
             "resetDone", "initState", "ready", "publish", "exit"}
  /\ config \in [purge : BOOLEAN, resync : 0..MaxHeight]
  /\ del \in [a : SUBSET (Accounts \X Heights), b : SUBSET Heights,
              c : SUBSET Hashes, d : SUBSET Heights,
              p : SUBSET (Accounts \X Heights)]
  /\ last \in Heights \cup {0}
  /\ resetBase \in Heights \cup {None}
  /\ purged \subseteq Accounts

\* A stored block can be found by height and by hash, whichever step the
\* process last stopped at: the block, hash and height keys of every height
\* from the genesis block up to the intact height exist and agree.
ChainIntact ==
  dbGenesis # None =>
    \A h \in Root..Intact :
      /\ blockAt[h] # None
      /\ hashAt[h] # None
      /\ heightOf[hashAt[h]] = h

\* ResetTo finds the block and hash keys it must delete through the
\* height-to-hash keys.  So no such key may ever outlive its height-to-hash
\* key, even when a reset is cut short half way: a later reset would not
\* see it, and the block would be served for ever.
NoOrphans ==
  /\ \A h \in Heights : blockAt[h] # None => hashAt[h] # None
  /\ \A x \in Hashes : heightOf[x] # None => hashAt[heightOf[x]] = x

\* Nothing is stored for a height after the stored latest block, so Index
\* never meets a balance key of the height that it is about to write (its
\* branch for that case reads the wrong item), and after ResetTo no data of
\* a dropped block is left.
NothingBeyondLatest ==
  \A h \in Heights :
    (dbLatest = None \/ h > dbLatest.height) =>
      /\ hashAt[h] = None /\ blockAt[h] = None
      /\ \A a \in Accounts : balanceAt[a][h] = None /\ h \notin proxyAt[a]

\* While requests are served, the latest block in memory is a block of the
\* database, and the database is at most the block that is being published
\* ahead of it.
LatestServable ==
  pc \in {"ready", "publish"} =>
    /\ hashAt[latest.height] = latest.hash
    /\ dbLatest.height = latest.height + (IF pc = "publish" THEN 1 ELSE 0)

\* Balances reconcile with blocks: from one block to the next, the balance
\* of an account changes by what the operations of the block say, whatever
\* resets, crashes and re-indexing the blocks have been through.
Reconciles ==
  dbGenesis # None =>
    \A h \in (Root + 1)..Intact, a \in Accounts \ purged :
      balanceByHeight(a, h)
        = balanceByHeight(a, h - 1) + Effect(blockAt[h], a)

\* A proxy account has a balance at the height it was created at, unless a
\* reset is unfinished: Store.Accounts does not refuse to start the indexer.
ProxiesHaveBalances ==
  resetBase = None =>
    \A a \in Accounts : \A h \in proxyAt[a] : balanceAt[a][h] # None

\* A completed reset ends exactly at the height that was asked for.
ResetLandsOnBase == pc = "resetDone" => dbLatest.height = config.resync

\* The answers for the blocks up to the latest one stay.
AnswersStay ==
  \A h \in Root..latest.height :
    /\ blockAt'[h] = blockAt[h] /\ hashAt'[h] = hashAt[h]
    /\ \A a \in Accounts : balanceByHeight(a, h)' = balanceByHeight(a, h)

\* What was served for a block is served for it ever after, while the
\* process is up: indexing changes no answer for an earlier height.
ServedHistoryStable == [][pc = "ready" => AnswersStay]_vars

\* From the start of the process until it indexes.
Starting ==
  pc \in {"initStore", "setGenesis", "purge", "resync", "delete", "resetDone", "initState"}

\* A start-up is given up only when resync_from lies below the genesis block:
\* ResetTo finds the block that is to become the latest, and Accounts a
\* balance for every proxy account, whatever the last process left behind.
NoNeedlessExit ==
  [][Starting /\ pc' = "exit" => config.resync \in 1..(Root - 1)]_vars

\* Start-up succeeds: it comes to an end, and unless the process is killed or
\* resync_from lies below the genesis block, that end is a process that
\* indexes, also when earlier processes were killed in a reset or a purge.
BootSucceeds == NoNeedlessExit /\ (Starting ~> pc \in {"ready", "exit", "down"})

(***************************************************************************)
(* The inductive invariant behind the properties above.                    *)
(***************************************************************************)

\* Start-up and indexing: what memory and database know of each other.
Control ==
  /\ dbGenesis = None <=> dbLatest = None
  /\ dbGenesis = None => resetBase = None /\ pc \in {"down", "initStore"}
  /\ dbGenesis # None => dbGenesis.height = Root
  /\ pc = "setGenesis" => dbLatest = dbGenesis /\ resetBase = None
  /\ pc \in {"purge", "resync", "delete", "resetDone", "initState", "ready",
             "publish"} =>
       genesis = dbGenesis /\ genesis # None /\ latest # None
  /\ pc \in {"purge", "resync", "delete", "initState", "ready"} =>
       latest = dbLatest
  /\ pc = "publish" =>
       /\ dbLatest.height = latest.height + 1
       /\ hashAt[latest.height] = latest.hash
  /\ pc = "resetDone" => dbLatest.height = config.resync
  /\ pc \in {"resetDone", "initState", "ready", "publish"} => resetBase = None

\* An unfinished reset: its base is a height of the chain, and the reset
\* that follows has the same base or a lower one.
PendingReset ==
  resetBase # None =>
    /\ resetBase < dbLatest.height
    /\ pc \in {"initStore", "purge", "resync"} => config.resync \in 1..resetBase

\* A hash belongs to one height.
HashesOfHeights ==
  \A h \in Heights : hashAt[h] # None => hashAt[h][1] = h

\* "latest" names a stored block.
LatestStored ==
  dbGenesis # None /\ resetBase = None =>
    hashAt[dbLatest.height] = dbLatest.hash

\* While ResetTo deletes, every key above its base is on its list, and no
\* other key is.
ResetProgress ==
  pc = "delete" =>
    /\ resetBase = config.resync /\ last = config.resync
    /\ \A a \in Accounts, h \in Heights :
         /\ h > last /\ balanceAt[a][h] # None => <<a, h>> \in del.a
         /\ h > last /\ h \in proxyAt[a] => <<a, h>> \in del.p
    /\ \A h \in Heights :
         /\ h > last /\ blockAt[h] # None => h \in del.b
         /\ h > last /\ hashAt[h] # None => h \in del.d
    /\ \A x \in Hashes :
         heightOf[x] # None /\ heightOf[x] > last => x \in del.c
    /\ \A k \in del.a \cup del.p : k[2] > last
    /\ \A h \in del.b \cup del.d : h > last
    /\ \A x \in del.c : x[1] > last

\* A proxy account is created once, and has a balance from then on.
ProxyKeys ==
  \A a \in Accounts :
    /\ \A h, k \in proxyAt[a] : h = k
    /\ \A h \in proxyAt[a] : h <= Intact => balanceAt[a][h] # None

\* What holds of the database by itself.
DbInv ==
  /\ HashesOfHeights /\ LatestStored
  /\ ChainIntact /\ NoOrphans /\ NothingBeyondLatest /\ ProxyKeys

\* The inductive invariant.
IndexInv == TypeOK /\ Control /\ PendingReset /\ DbInv /\ ResetProgress

(***************************************************************************)
(* The database implements the ledger.                                     *)
(***************************************************************************)
LedgerAccounts == Accounts \ purged

LedgerEntry(h) ==
  [height   |-> h,
   hash     |-> hashAt[h],
   block    |-> blockAt[h],
   balances |-> [a \in LedgerAccounts |-> balanceByHeight(a, h)]]

LedgerChain ==
  IF dbGenesis = None THEN {} ELSE {LedgerEntry(h) : h \in Root..Intact}

L == INSTANCE Ledger WITH
       chain <- LedgerChain, accounts <- LedgerAccounts, Genesis <- << >>

\* The index database is a chain that only grows at its end, or is cut back
\* by the operator; a crash between any two of its steps is not visible.
ImplementsLedger == L!Spec

============================================================================
