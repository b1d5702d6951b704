----------------------------- MODULE IndexReads -----------------------------
(***************************************************************************)
(* Read requests of the Rosetta API that are answered from the index       *)
(* database while the indexer goes on writing to it: /account/balance      *)
(* (src/api/account_service.go), /block and /block/transaction             *)
(* (src/api/block_service.go) and the list_accounts method of /call        *)
(* (src/api/call_service.go).                                              *)
(*                                                                         *)
(* Every db.View of the Store is one step, so the writer can commit        *)
(* between two Views of the same request.  One request is in progress at   *)
(* a time: requests only read, and cannot influence each other.            *)
(***************************************************************************)
EXTENDS IndexDB

CONSTANT Requests   \* the kinds of request that are made

ASSUME RequestsAssumption ==
  Requests \subseteq {"balanceLatest", "balanceAtHeight", "balanceAtHash",
                      "blockAtHeight", "blockAtHash", "listAccounts"}

VARIABLE request    \* the request in progress

readVars == <<vars, request>>

Idle == [op |-> "none", at |-> "idle"]

Serving == pc \in {"ready", "publish"}

ReadInit == Init /\ request = Idle

\* The Store and the writer are not changed by a request.
ReadOnly == UNCHANGED vars

At(op, step) == request.op = op /\ request.at = step

Fail == request' = [request EXCEPT !.at = "error"]

(***************************************************************************)
(* The request comes in.  The API answers for the genesis block by itself  *)
(* and passes every other block on to the Store.  The field known is a     *)
(* history of whether the height was indexed by then.                      *)
(***************************************************************************)
Receive(op, acct, height, hash, step) ==
  /\ request = Idle
  /\ op \in Requests
  /\ request' = [op |-> op, at |-> step, acct |-> acct, height |-> height,
                 hash |-> hash, balance |-> 0, block |-> << >>,
                 parent |-> None, scanned |-> {},
                 known |-> height # None /\ hashAt[height] # None]
  /\ ReadOnly

\* AccountBalance without a block: s.Index.Latest().
AskLatestBalance(acct) ==
  /\ latest # genesis
  /\ Receive("balanceLatest", acct, None, latest.hash, "heightForHash")

\* AccountBalance with an index.  Store.BalanceByHeight reads the balance
\* first and looks for the block after that.
AskBalanceAtHeight(acct, height) ==
  /\ height > genesis.height
  /\ Receive("balanceAtHeight", acct, height, None, "balance")

\* AccountBalance with a hash.
AskBalanceAtHash(acct, hash) ==
  /\ hash # genesis.hash
  /\ Receive("balanceAtHash", acct, None, hash, "heightForHash")

\* getBlockData with an index and with a hash.
AskBlockAtHeight(height) ==
  /\ height > genesis.height
  /\ Receive("blockAtHeight", None, height, None, "hashForHeight")

AskBlockAtHash(hash) ==
  /\ hash # genesis.hash
  /\ Receive("blockAtHash", None, None, hash, "heightForHash")

\* listAccounts: Store.AccountsInfo.
AskAccounts == Receive("listAccounts", None, None, None, "scanBalances")

Ask ==
  \/ \E a \in Accounts : AskLatestBalance(a)
  \/ \E a \in Accounts, h \in Heights : AskBalanceAtHeight(a, h)
  \/ \E a \in Accounts, x \in Hashes : AskBalanceAtHash(a, x)
  \/ \E h \in Heights : AskBlockAtHeight(h)
  \/ \E x \in Hashes : AskBlockAtHash(x)
  \/ AskAccounts

(***************************************************************************)
(* The steps of a request, one View each.                                  *)
(***************************************************************************)

\* What follows a step depends on the request.
AfterHeightForHash(op) == IF op = "blockAtHash" THEN "block" ELSE "balance"
AfterBalance(op) == IF op = "balanceAtHeight" THEN "hashForHeight" ELSE "done"
AfterHashForHeight(op) == IF op = "blockAtHeight" THEN "block" ELSE "done"

\* HeightForHash.
HeightForHash ==
  /\ request.at = "heightForHash"
  /\ IF heightOf[request.hash] = None
       THEN Fail
       ELSE request' = [request EXCEPT !.height = heightOf[request.hash],
                                       !.at = AfterHeightForHash(request.op)]
  /\ ReadOnly

\* HashForHeight.
HashForHeight ==
  /\ request.at = "hashForHeight"
  /\ IF hashAt[request.height] = None
       THEN Fail
       ELSE request' = [request EXCEPT !.hash = hashAt[request.height],
                                       !.at = AfterHashForHeight(request.op)]
  /\ ReadOnly

\* MUTANT of ReadBalance: the balance at the latest block is read.
ReadLatestBalance ==
  /\ request.at = "balance"
  /\ request' = [request EXCEPT
                   !.balance = balanceByHeight(request.acct, latest.height),
                   !.at = AfterBalance(request.op)]
  /\ ReadOnly

\* balanceByHeight.
ReadBalance ==
  /\ request.at = "balance"
  /\ request' = [request EXCEPT
                   !.balance = balanceByHeight(request.acct, request.height),
                   !.at = AfterBalance(request.op)]
  /\ ReadOnly

\* blockByHeight.
ReadBlock ==
  /\ request.at = "block"
  /\ IF blockAt[request.height] = None
       THEN Fail
       ELSE request' = [request EXCEPT !.block = blockAt[request.height],
                                       !.at = "parent"]
  /\ ReadOnly

\* MUTANT of ParentHeight: the block is its own parent.
NoParent(height) == height

\* withParentInfo: the height of the parent block.
ParentHeight(height) == IF height = genesis.height THEN height ELSE height - 1

ReadParent ==
  /\ request.at = "parent"
  /\ LET parent == hashAt[ParentHeight(request.height)]
     IN  IF parent = None
           THEN Fail
           ELSE request' = [request EXCEPT !.parent = parent, !.at = "done"]
  /\ ReadOnly

\* AccountsInfo reads the balances in one View and the proxy keys in the
\* next one.
ScanBalances ==
  /\ request.at = "scanBalances"
  /\ request' = [request EXCEPT
                   !.scanned = {a \in Accounts :
                                  \E h \in Heights : balanceAt[a][h] # None},
                   !.at = "scanProxies"]
  /\ ReadOnly

ScanProxies ==
  /\ request.at = "scanProxies"
  /\ IF \A a \in Accounts : proxyAt[a] # {} => a \in request.scanned
       THEN request' = [request EXCEPT !.at = "done"]
       ELSE Fail
  /\ ReadOnly

\* The response is sent, and the next request can come in.
Respond ==
  /\ request.at \in {"done", "error"}
  /\ request' = Idle
  /\ ReadOnly

Read ==
  \/ HeightForHash \/ HashForHeight \/ ReadBalance \/ ReadBlock \/ ReadParent
  \/ ScanBalances \/ ScanProxies

\* The requests end with the process.
Write ==
  /\ Start \/ Boot \/ Index \/ Crash \/ Exit
  /\ request' = IF pc' \in {"ready", "publish"} THEN request ELSE Idle

ReadNext == (Serving /\ (Ask \/ Read \/ Respond)) \/ Write

\* The writer keeps running next to the requests.
ReadSpec == ReadInit /\ [][ReadNext]_readVars /\ Fairness

(***************************************************************************)
(* Properties.                                                             *)
(***************************************************************************)

Answered(ops) == request.op \in ops /\ request.at = "done"

\* A balance that is served is the balance of the account at the block that
\* is named in the same answer.
BalanceIsOfItsBlock(ops) ==
  Answered(ops) =>
    /\ hashAt[request.height] = request.hash
    /\ request.balance = balanceByHeight(request.acct, request.height)

\* BalanceByHash, for a given block and for the latest one, serves the
\* balance at the block it names, although it reads the database twice and
\* blocks are indexed meanwhile.
BalanceByHashCorrect == BalanceIsOfItsBlock({"balanceLatest", "balanceAtHash"})

\* BalanceByHeight serves the balance at the block it names.
BalanceByHeightCorrect == BalanceIsOfItsBlock({"balanceAtHeight"})

\* For a block that was indexed when the request came in, BalanceByHeight
\* serves the balance at that block.
KnownBalanceCorrect ==
  Answered({"balanceAtHeight"}) /\ request.known =>
    request.balance = balanceByHeight(request.acct, request.height)

\* The latest block that Store.Latest returns from memory can always be
\* looked up in the database afterwards.
LatestIsFound == ~ At("balanceLatest", "error")

\* A block is served whole: its content and its parent are those of the
\* stored chain, and once the first lookup has found the block the others
\* find their part of it.
BlockIsWhole ==
  /\ Answered({"blockAtHeight", "blockAtHash"}) =>
       /\ hashAt[request.height] = request.hash
       /\ blockAt[request.height] = request.block
       /\ request.parent = hashAt[request.height - 1]
  /\ request.op \in {"blockAtHeight", "blockAtHash"} =>
       (request.at = "error" => request.height = None \/ request.hash = None)

(***************************************************************************)
(* The inductive invariant behind the properties above: what a request has *)
(* found so far belongs to one block of the stored chain.                  *)
(***************************************************************************)
RequestType ==
  [op : {"balanceLatest", "balanceAtHeight", "balanceAtHash",
         "blockAtHeight", "blockAtHash", "listAccounts"},
   at : {"heightForHash", "hashForHeight", "balance", "block", "parent",
         "scanBalances", "scanProxies", "done", "error"},
   acct : Accounts \cup {None}, height : Heights \cup {None},
   hash : Hashes \cup {None}, balance : Nat, block : Blocks,
   parent : Hashes \cup {None}, scanned : SUBSET Accounts, known : BOOLEAN]

Stored(h) == h \in Root..dbLatest.height

\* The request has found its block.
FoundBlock ==
  Stored(request.height) /\ hashAt[request.height] = request.hash

FoundBalance ==
  request.balance = balanceByHeight(request.acct, request.height)

\* BalanceByHash.
ByHash ==
  request.op \in {"balanceLatest", "balanceAtHash"} =>
    /\ request.acct \in Accounts /\ request.hash \in Hashes
    /\ request.at \in {"heightForHash", "balance", "done", "error"}
    /\ request.at \in {"balance", "done"} => FoundBlock
    /\ request.at = "done" => FoundBalance

\* The latest block has been stored before it became the latest one.
OfLatest ==
  request.op = "balanceLatest" =>
    /\ request.at # "error"
    /\ request.at = "heightForHash" => heightOf[request.hash] # None

\* BalanceByHeight.
ByHeight ==
  request.op = "balanceAtHeight" =>
    /\ request.acct \in Accounts /\ request.height \in Heights
    /\ request.at \in {"balance", "hashForHeight", "done", "error"}
    /\ request.known => Stored(request.height)
    /\ request.known /\ request.at \in {"hashForHeight", "done"} => FoundBalance

\* The block and its parent.
OfBlock ==
  request.op \in {"blockAtHeight", "blockAtHash"} =>
    /\ request.at \in {"heightForHash", "hashForHeight", "block", "parent",
                       "done", "error"}
    /\ request.at = "heightForHash" =>
         /\ request.op = "blockAtHash" /\ request.height = None
         /\ request.hash \in Hashes /\ request.hash # hashAt[Root]
    /\ request.at = "hashForHeight" =>
         /\ request.op = "blockAtHeight" /\ request.hash = None
         /\ request.height \in Heights /\ request.height > Root
    /\ request.at \in {"block", "parent", "done"} =>
         FoundBlock /\ request.height > Root
    /\ request.at \in {"parent", "done"} => blockAt[request.height] = request.block
    /\ request.at = "done" => request.parent = hashAt[request.height - 1]
    /\ request.at = "error" => request.height = None \/ request.hash = None

OfAccounts ==
  request.op = "listAccounts" =>
    request.at \in {"scanBalances", "scanProxies", "done", "error"}

\* The first block of the chain is the genesis block.
GenesisStored == dbGenesis # None => hashAt[Root] = dbGenesis.hash

RequestInv ==
  request # Idle =>
    /\ Serving /\ request \in RequestType
    /\ ByHash /\ OfLatest /\ ByHeight /\ OfBlock /\ OfAccounts

ReadInv == IndexInv /\ GenesisStored /\ RequestInv

=============================================================================
