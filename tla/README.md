# A TLA+ development of Flow Rosetta

Flow Rosetta serves the Rosetta API (balances, blocks, construction of
transactions) for the Flow blockchain. It follows the chain through Access API
servers it does not trust, keeps its own index of the accounts of a set of
*originators*, and answers requests from that index. This directory holds TLA+
models of the parts in which its correctness is decided, the TLC runs that
check them, and TLAPS proofs, for every value of the constants, of almost all the
safety properties that the runs check.

`PROJECT.json` lists components, runs, mutants, the map from definitions to
source lines, findings, hazards and theorems.

## 1. Inventory

### Components, state and operations

| Component | Source | State | Operations |
|---|---|---|---|
| Index database | `src/indexdb` | Badger keys `a` balance by account and height, `b` block by height, `c` hash to height, `d` height to hash, `p` proxy account by height, `genesis`, `latest`; the fields `genesis` and `latest` in memory | `SetGenesis`, `Index`, `ResetTo`, `PurgeProxyAccounts`, `Genesis`, `Latest`, `Accounts`, lookups |
| State indexer | `src/state/state.go`, control of `src/state/process.go` | `lastIndexed`, `liveRoot`, `sealedResults`, `synced`, the locals of its loops | `initStore`, `handlePurgeProxyAccounts`, `handleResyncFrom`, `indexPastSporks`, `indexLiveSpork`, `processBlock` |
| Event processing | `src/state/process.go` from line 418 | `accts`, the tally of a transaction | events to operations, fee, proxy matching, merging |
| Prefetch workers | `src/state/worker.go`, `scheduleJobs` | a bounded channel of heights | fetch everything a block needs, to warm the cache |
| Access API cache | `src/cache` | answers on disk by method and request | look up, store, `Skip` |
| Access API client | `src/access` | connections, rate limiter | calls |
| Data API | `src/api` account, block, call, network services | none of their own | several reads of the database per request |
| Balance validation | `src/api/validate.go`, `api.go`, `wrapper.go` | sticky error, progress | compare index and chain, refuse requests |
| Construction API | `src/api/construction_service.go` | none; metadata travels with the caller | preprocess, metadata, payloads, combine, parse, submit |
| Process control | `src/process`, `src/log` | `exiting`, handlers | `Exit`, signals, `Fatalf` |
| Configuration | `src/config` | sporks, originators, fee addresses | `SporkFor`, validation of the file |
| Scripts, contracts | `src/script` | vaults on chain | transfers, account creation, proxy vaults |
| `crypto`, `model` | | none | re-encoding of keys and signatures, transaction hashes |
| `trace`, `cmd/server` | | exit handlers, the root context | start and end of the process |
| `deque`, `timeout`, other commands | | | used by no other package, or one-shot tools |

### How they interact

`cmd/server` opens the database, runs the indexer, then the API. One goroutine
writes to the database (start-up, then `processBlock`); API requests read it at
any time, each read in a view of its own. The indexer gets headers, blocks,
transactions and results through the client pool and, in front of it, the
cache, which prefetch workers fill. The consensus follower tells it which
blocks are finalized. The validation loop reads both the index and the chain,
and sets the error with which every wrapped endpoint refuses requests. The
construction API asks the index and the servers for a reference block, a
sequence number and a nonce, and keeps nothing itself. A fatal error or a signal
runs the exit handlers, which cancel contexts and close the databases (of the
index, the cache and the consensus follower) while the other goroutines go on.

### What is hard, and what makes each part correct

* *Index database*: a crash between any two transactions or in the middle of the
  batch of a reset; the field `latest` behind or ahead of the database. Correct
  means: one chain of blocks without gaps and leftovers; balances equal to the
  sum of the operations; what was served stays true.
* *Reads*: a request reads the database two or three times while blocks are
  added. Correct means: the answer is about one block.
* *State indexer*: servers that answer wrongly, late or for another branch;
  sporks whose chains overlap; seals that arrive late; fatal errors during a
  shutdown. Correct means: the index is a chain of finalized blocks whose events
  a seal vouches for, it never stops for good and it catches up.
* *Event processing*: events in an order that does not match the effects, two
  events for one deposit, accounts that appear within the block. Correct means:
  tracked accounts, balances and fees are those on chain, before and after a
  restart.
* *Construction*: the state of an order is with its caller, who waits, resubmits
  and starts over, while replies are lost, servers lag and others spend from the
  same payer. Correct means: an order is executed at most once and does what it
  says, and an order that nothing disturbs is executed.
* *Validation*: chain and index move on between the reads that are compared, and
  an error is published under two locks. Correct means: no alarm without a
  mistake, no mistake without an alarm, and no way back once a client knows.
* *Workers and process control*: a bounded queue whose readers may be gone, exits
  and signals at any moment, also at the same time. Correct means: each height is
  prefetched once, and no call that the indexer will make is left out; an exit ends
  the process, with its databases closed.

The full list is under `hazards` in `PROJECT.json`.

## 2. Modules

| Module | What it is |
|---|---|
| `Operations` | operations of a block and the balance changes `Index` derives from them; shared by `IndexDB` and `BlockOps` |
| `Ledger` | abstract specification: a chain with balances that grows, is cut back, or forgets accounts |
| `IndexDB` | the database and the start-up that drives it; implements `Ledger` |
| `IndexReads` | `IndexDB` composed with one API request, step by step |
| `IndexDBProofs`, `LedgerProofs` | the theorems about `IndexDB`; that it implements `Ledger` |
| `IndexReadsProofs` | the theorems about `IndexReads` |
| `Indexer`, `IndexerProofs` | which blocks become part of the index; the theorems about it |
| `BlockOps`, `BlockOpsProofs` | what a block's events do to the index; the theorems about it |
| `Construction`, `ConstructionProofs` | the construction API, its callers, and the chain that executes the result; the theorems about it |
| `Validation`, `ValidationProofs` | the balance and fee receiver checks, and the requests they refuse; the theorems about them |
| `Lifecycle`, `LifecycleProofs` | start-up, prefetch workers, exit handlers and the end of the process; the theorems about them |
| `MC*` | constants for TLC |

### IndexDB

The variables `balanceAt`, `blockAt`, `heightOf`, `hashAt`, `proxyAt`,
`dbGenesis` and `dbLatest` are the seven kinds of keys; `genesis` and `latest`
are the fields of `Store`. `pc` is where the writing goroutine is. A Badger
transaction is one action (`SetGenesisCommit`, `IndexCommit`), the assignment
under the mutex after it another (`SetGenesisPublish`, `IndexPublish`), so that a
crash or a read can fall in between. `ResetTo` is `ResetScan` (the three scans),
one action per deleted key in the order in which the sorted batch commits them
(`DeleteBalance` ... `DeleteProxy`), `ResetLatest` and `ResetPublish`. The batch
may be committed in any number of pieces; one key at a time covers them all.
`Crash` forgets what is in memory. `Start` chooses the settings.

`resetBase` and `purged` are history variables. `RepeatReset` says whether an
operator whose reset was cut short runs it again (with the same height or a
lower one) before anything else. The invariants hold under that assumption and
the code needs it: without it the store serves a chain with missing blocks.

A block is a sequence of operations. The set `Blocks` of operation lists is a
constant; `BlocksAssumption` says that they touch known accounts. `CreatesOnce`
is the one fact taken from Flow: an account is created once. An attempt of
`Index` that fails (a negative balance) changes nothing and is not an action.
`Starting` is a start-up in progress. It ends in `ready`, or in `exit` when
`ResetTo` or `Accounts` refuses; `NoNeedlessExit` says when that may be.

### IndexReads

`request` is one request: `AccountBalance` for the latest block, a height, a
hash; `getBlockData` for a height, a hash; `listAccounts`. Each view of the
database is one step (`HeightForHash`, `ReadBalance`, ...), interleaved with all
actions of `IndexDB`. One request at a time is enough because requests do not
write.

### Indexer

A block is a height and a kind: `main` (the history of Flow), `old` (what a spork
went on to produce after the next one started), `sibling` (proposed, not
finalized) and `junk` (no block). `Answers` is what a server may return for a
height; `Faults` selects the kinds of wrong answers. `verifyBlockHash` accepts an
answer whose header and payload are right, and does not look at the parent field
of the block message, as in the code. `Seals` gives, for each block, the blocks that
it seals, in order. `WalkBack` is one attempt of
`getVerifiedParent`, `Accept` one attempt of the live loop, `SealNext` one turn of
its loop over seals, `ProcessBlock`, `Abandon` and `Fatal` the three ways in which
`processBlock` ends; attempts of `processBlock` that are retried leave no trace
and are not actions. The database is a chain here, as `IndexDB` shows.
`exiting` is the flag of package `process`.

### BlockOps

The chain is the environment: FLOW in default and proxy vaults, moved by
transactions that emit events in the order of the contracts. Accounts of ours run
the transactions that Rosetta constructs; others also pay several accounts at
once and pay into the default vault of a proxy account. `ProcessBlock` is the part
of `processBlock` that turns events into operations, in the order of the code
(`FirstLoop`, `SecondLoop`, `CreateOps`, `FeeOp`, `MatchTransfer`, `MergeRest`),
followed by `Index` and by the update of the tracked accounts. A block that
cannot be processed is retried with the same outcome: `stuck`. `ours`, `feesPaid`
and `feesIndexed` are history variables.

### Construction

A *session* is one order of one caller: the operations that it gives to preprocess and
those that it gives to payloads, which the server never compares. `stage` is the call
that the caller makes next, `opts` the protobuf `ConstructOpts` it was given,
`txn` the transaction it holds, `built` those it has signed. Each endpoint is an
action: `ConstructionPreprocess`, `ConstructionMetadata`, `ConstructionPayloads`,
`ConstructionCombine` (the caller first compares `/construction/parse` of what it
signs with what it gave to payloads, as Rosetta callers do) and `ConstructionSubmit`.
`parseIntent`, `preprocessOpts`, `flowMetadata`, `argsOf`, the `decode...Ops` and
`verdict` are the functions of the code. A key and a signature carry the format
they are encoded in, so that a conversion that is left out, or done twice, shows.
A hash is the content that is hashed, and a block hash the height of the block.

The chain is the environment: `Include` executes a transaction of the pool,
`OtherBlock` and `RotateKey` are blocks of others. The scripts are modelled by
their parameters, their checks and their effects (`Parameters`, `Outcome`,
`vaultTransfers`, `contractIsSet`), and by the import addresses that `script.Compile`
leaves as they are (`Imports`): a script runs only if the chain resolves them
(`Compiles`). No chain does; with the constant `Resolved` the vault can be examined as
if one did; `Used` and `Rotated` are what a proposal and the
replacement of a key do to the payer's keys. Every call goes to a server that may lag by
any number of blocks, the index may lag too, and a submission may be accepted
although its reply is lost, times out or is turned into a rate limit error.
`StartOver` is a caller that builds its order again: with the sequence number it
has already used, at any time; with a new one only when each earlier transaction
is known to have failed or to have expired. A caller that does not keep to that
can of course pay twice; `AtMostOnce` says that the API gives those who do
answers they can rely on.

Offline mode refuses metadata and submit, and is left out; `/construction/hash` is
`TransactionHash`; `/construction/derive` is empty.

### Validation

`height` is the chain, `latest` the index, `wrong[a]` the height from which the
index is off for an account. The balance of an account is the height of the
block: it differs in every block, so reading two blocks for one always shows.
`pc` goes through `validateBalances`; each read of shared state is an action of
its own (`ListAccounts`, `WaitSynced`, `ReadIndex`, `Compare`), and the two critical
sections of `setIndexedStateErr` are two (`SetErr`, `SetStatus`). `getOnchainData`
returns what both scripts return: `is_proxy` is false for every account. `Request`
is a wrapped endpoint, `balanceValidationStatus` the call that reports the status;
`client` remembers what it was told. `listed` and `vouched` are history variables.
A failed lookup in the index or on the chain is `CompareFails`.

### Lifecycle

`main` is where the main goroutine is, from the point at which the configuration
has been read and the cache opened (the handlers of `log`, `cmd/server`, `trace`
and `cache` are registered by then). `Boot` is one step of it: the index is opened, the
indexer gets its context, the consensus database is opened, the follower is started
(`Following`), each with a handler; `StartWorkers` is `initWorkers`. `registry` is the list
of handlers, the last one set first; `run` holds the copies that `Exit` and the goroutine
of `handleSignals` are going through. With the follower the order is: HTTP server,
cancel of the follower, close of the consensus database, cancel of the indexer, index,
cache, the two of the trace package, root context, log.

A handler is one action (`Handle`); those of the trace package (there when an
endpoint for traces is configured) fail in the worst case and call `Exit`, which must
return. Index and cache are Badger databases, which may be closed twice. The
consensus database is Pebble, which panics when it is closed twice (`HandlePanics`) or
used after that (`UseAfterClose`): `users` are the goroutines that may use it, the
follower and the indexer, until they have seen their context done (`UserReturns`); `main`
uses it too while it makes the follower. `ended` is the status of the process, 2 after a
panic.

`sched` is `scheduleJobs`, `jobs` the channel, `worker` the workers. A worker makes
the calls of the fast or of the slow path one by one, through the cache
(`Hit`, `Answer`, `Fail`) and, outside of it, the rate limiter (`RateLimited`). An answer is
stored, or the store fails and the call succeeds all the same (`storeFails`). `Asked` is
what the indexer asks for a height, written down from `processBlock`, not from the worker.
`fetched`, `taken`, `owed` and `lost` (answers that were not stored) are history variables.

## 3. Runs

| Run | Checks | Result |
|---|---|---|
| `IndexDB` | type, `ChainIntact`, `NoOrphans`, `NothingBeyondLatest`, `LatestServable`, `Reconciles`, `ProxiesHaveBalances`, `ServedHistoryStable`, refinement of `Ledger` | holds |
| `IndexReads` | `BalanceByHashCorrect`, `KnownBalanceCorrect`, `LatestIsFound`, `BlockIsWhole`; `BootSucceeds`, under fairness | holds |
| `BalanceByHeight` | `BalanceByHeightCorrect` | violated: the balance is read before the block is looked up |
| `Indexer` | `Linked`, `Finalized`, `EventsAuthentic`, `LastIndexedStored` | holds |
| `IndexerLive` | `NeverFatal`, `CatchesUp` | holds |
| `VerifiedParent` | `Linked` | violated: the parent that the walk follows is not covered by the hash |
| `ExitBlocks` | `Linked` | violated: `Exit` returns when an exit is in progress |
| `BlockOps` | `RestartNeutral`, `BalancesMatch`, `FeesMatch`, `NeverStuck` | holds |
| `Construction` | type, `AtMostOnce`, `ExpiredIsFinal`, `EffectMatchesIntent`, `FreshTransfersExecute`, `InnerOnce` | holds |
| `SupportedOrders` | `SupportedOrdersExecute` | violated: the script of `proxy_transfer` imports from the literal `0xProxy` |
| `Validation` | `NoFalseAlarm`, `ToldThenRefused`, `SuccessSound`; `Detects`, under fairness | holds |
| `Lifecycle` | `CleanShutdown`, `EachHeightOnce`, `PrefetchComplete`; `Terminates`, `Prefetched`, under fairness | holds |

`Construction` is run as if the chain resolved `0xProxy` (`Resolved`), because the vault and
its nonce are out of reach otherwise; for the other orders that makes no difference.
`SupportedOrders` is run on the chain as it is: the inner transfer is signed for a nonce
that its caller gives, because metadata cannot look one up.

`CleanShutdown` speaks of a process that ends with status 0 or 1, and, where the consensus
database is concerned, of the follower and not of the indexer. Among themselves the
handlers are in the right order for index and cache, whatever overlaps; for the consensus
database they are not, as the next section says.

### Also met while modelling

These follow from the modules with other constants, and are not runs of their own:

* `AccountsInfo` reads balances and proxy keys in two views, and fails when a proxy
  account is created in between (`ScanBalances`, `ScanProxies` of `IndexReads`).
* The root block of the live spork is one unverified answer, and is indexed as it
  is when the index ends just before it (fault `"garbledRoot"` of `Indexer`).
* `spork_seal_tolerance` above the root height of the next spork wraps around, and
  nothing is tolerated any more (`Tolerated`, with `SporkSealTolerance` above 5).
* Both balance scripts say of every account that it is not a proxy account: with a
  proxy contract configured, a proxy account in the index raises a false alarm
  (`Validation` with `ProxyDeployed` TRUE). `get-balances.cdc` says that this is to
  be changed when proxy accounts come back.
* The consensus database is closed before the indexer, which looks up heights and seals in
  it, is told to stop: its handler is set later (`src/state/state.go:640`) and so runs
  earlier. A lookup that comes too late panics (`UseAfterClose` of `Lifecycle`), and so does
  the second close when a signal arrives during an exit (`HandlePanics`). The process then
  ends with index and cache open, although `src/process/process.go:20` says that `Exit` runs
  the handlers and then terminates the process. Asked of every status, the first
  conjunct of `CleanShutdown` is violated.
* Operations that name a fee address only when payloads is called become a transfer to that
  address: only preprocess looks for one (`refused` of `Construction`;
  `src/api/construction_service.go:528`). `MCProxyRequests` has such an order, and it executes.
* `create_proxy_account` and the contract orders have no effect on the chain, whatever is
  resolved: the first for want of two arguments (`Parameters` of `Construction`), the others
  because the code stays hex-encoded (`contractIsSet`).
* `main` returns, with status 0, when a handler cancels the root context, possibly
  before `os.Exit` is reached with another status (`MainReturns` of `Lifecycle`).
* The execution efforts of plain and proxy transfers are swapped
  (`executionEffort` of `Construction`, as in the code).
* Except for contract orders the key ID is 0, so that a payer whose first key was
  rotated away is refused by metadata, or by the chain when the caller gives the
  sequence number itself (`flowMetadata` of `Construction`).
* The slow path of a worker fetches neither the transactions of the system collection
  nor its results but one (`"system"` in `Asked` of `Lifecycle`), and an answer that could
  not be stored is not fetched again: the indexer asks for both itself.
* The fee receivers are compared with the chain once, at the start, and after five
  failed attempts not at all (`FeeAttemptFails` of `Validation`).

### Bounds

* `IndexDB`: two accounts, two possible blocks per height, heights 2 to 5. A reset
  then drops up to three blocks, keeps one or more, is cut short at every key, and
  is followed by another fork. The blocks include a creation of a proxy account,
  transfers in both directions and an empty block. The two forks are symmetric.
* `IndexReads`: two blocks to add while a request is served; a request spans at
  most three views. One fork: neither requests nor the deletions of a start-up
  depend on forks.
* `Indexer`: two sporks with roots at 2 and 5, history up to 9 (8 in the other
  runs of the module), three blocks of
  overrun, seals two blocks late and one of them three. `Word` is 16, so that the
  unsigned subtraction of the seal tolerance can wrap. `IndexerLive` has the cache
  and the signals, and one kind of wrong answer, to keep the graph small enough
  for liveness.
* `BlockOps`: an originator, an outsider, the fee account and two accounts to
  create; three transactions of ours and three of others, two per block: enough
  for a transfer between two proxy accounts that were created, paid and used in
  different blocks or in the same one.
* `Construction`: callers that share a payer, in one of two settings. Two callers: one
  spends from the payer, up to twice (`MaxTries`), with orders that must be refused among
  them (unequal amounts, an amount beyond `Word`, 4 values instead of 2^64, another
  sender, a fee address), while the other creates accounts or sets a contract. Three
  callers: one signs an inner transfer that the other two submit. In both some give
  payloads other operations than preprocess, and the first may begin with a sequence
  number of its own (`FirstPins`). `MaxHeight` 4 with `Expiry` 1 lets a transaction be
  included, miss its block, expire, and be replaced. Callers may stop at any time, so
  deadlock is not checked.
* `Validation`: an account from the start, one created while passes run, a proxy
  account; heights 1 to 3, so that the index can be one or two blocks behind and go
  wrong before, during and after the visit of an account. `Attempts` is 2 instead
  of 5. A fatal error ends the process, so deadlock is not checked.
* `Lifecycle`: one worker and two heights, so that the channel has one place and the
  scheduler is stuck when the worker returns before the second height. `Bounded` in
  `MCLifecycle` keeps the graph small enough for liveness: heights are scheduled once the
  process has started and without a signal, and an exit meets the workers before the
  second answer is stored; stores fail and batched calls are missing at the first height
  only. Exits and signals that overlap are unrestricted while nothing is scheduled. The
  workers share nothing with the handlers but contexts and closed databases, and the
  safety properties are proved without these bounds. The process ends, so deadlock is not
  checked.

### Fairness

`IndexDB` assumes weak fairness of start-up and of the end of `Index`: the
goroutine runs. `Indexer` assumes that Flow produces blocks (`NewBlock`), that the
indexer's goroutine runs (`Indexing`, `Fetch`, `ProcessBlock(TRUE)`, `Fatal`), and,
strongly, that among repeated attempts some get a good answer (`GoodFetch`) and
find the consensus follower up to date (`SealNext`): every loop in the code
retries for ever, with another server of the pool each time. `CatchesUp` is about
behaviours in which the process is eventually left running. `Validation` assumes
that its loops run, that the indexer comes back to the tip, that the wait for it
ends when it is synced again and again, and that a server that is asked again and
again answers: the code tries for ever. `Lifecycle` assumes that goroutines that
can run do, that each call (the first to the fourth of an attempt, strongly) that is made
again and again is answered, and that among the servers that `scheduleJobs` asks some know the latest block. Nothing is assumed of
the exits and signals themselves. `Construction` states no liveness: what a caller
does next is its own affair.

## 4. Proofs

Every theorem is about all values of the constants that satisfy the assumptions
of the module (`...Assumption`): any sets of accounts, callers, orders or workers,
any blocks, any length of the chain. The inductive invariants are defined at the
end of the modules they are about; TLC has been run on each of them.

### The index database

`IndexDBProofs` and `LedgerProofs` assume `RepeatReset` (section 2).

* `IndexDBInvariant`: `Spec => []IndexInv`; from it `TypeCorrect`, `StaysIntact`
  (`ChainIntact`), `LeavesNoOrphans` (`NoOrphans`), `NothingIsLeft`
  (`NothingBeyondLatest`), `LatestIsServed` (`LatestServable`), `ProxiesAreFunded`
  (`ProxiesHaveBalances`) and `ResetIsExact` (a finished reset leaves the latest block
  at `resync_from`; no run checks it);
* `StartUpAccepts`: `Spec => NoNeedlessExit`, the safety half of `BootSucceeds`;
* `BalancesReconcile`: `Spec => []Reconciles`;
* `HistoryIsStable`: `Spec => ServedHistoryStable`;
* `Implements`: `Spec` implements `Ledger`: its initial states are initial, and each
  step is a step of `Ledger` or leaves chain, balances and reset as they are.

None of these invariants is inductive. The strengthening `IndexInv` adds:
`Control` (what is known at each control point: which settings are in force, that
the fields equal the stored values except between a transaction and its
publication), `PendingReset` (the pending reset's base lies in the chain),
`HashesOfHeights` (hash and height keys agree), `LatestStored`, `ResetProgress`
(the list of keys still to delete contains every key above the base that is left
in the database, which is what makes a repeated reset complete: the keys that
later scans derive from height-to-hash keys sort before them), and `ProxyKeys`.
There is a lemma per action; the steps that leave the database alone are
collected in `QuietSteps`. `Reconciles` is not part of `IndexInv`: it is proved as
an invariant relative to it, with a lemma (`StepKinds`) that a step adds the
first block, adds the next block, or keeps the content and balances of all
blocks that remain, and lemmas about the reverse seek (`SeekFinds`,
`BalanceLocal`, `BalanceInherited`, `BalanceStored`). The refinement goes by the same
kinds of steps (`LedgerFound`, `LedgerAppend`, `LedgerKept`).

### Requests

`IndexReadsProofs` proves `ReadInvariant` (`ReadSpec => []ReadInv`) and from it
`BalancesByHash`, `KnownBalances`, `LatestFound` and `BlocksAreWhole`, the four
invariants of the run. `ReadInv` is `IndexInv` with what each kind of request knows
between two views. What a view has found stays true while blocks are added
(`FoundStays`), because a reset never happens while requests are served; that is
why the answers are right although they are put together from several views, and
why a balance by height, read before its block, is not among the theorems.

### The state indexer

`IndexerProofs` proves `IndexerInvariant` (`Spec => []IndexerInv`), `IndexIsLinked`
(`Linked`), `OnlyFinalized` (`Finalized`), `EventsAreAuthentic` (`EventsAuthentic`) and
`LastIsStored` (`LastIndexedStored`), for any number of sporks, any seals and any
tolerance, and `NoFatalError` (`NeverFatal`). They assume `Environment`: servers do not
give another block's hash for a parent, and the root of the live spork is right. The run
`VerifiedParent` shows that the first is needed, and section 3 names the second. All but
the last assume `FatalIsFinal` too: either no exit is in progress, so that `log.Fatalf`
does not return (the run `ExitBlocks` shows what happens when it does), or it is not
called, which is what `NoFatalError` says. `IndexerAssumption` says that a spork that was
replaced has gone quiet before the next but one starts, and that siblings are never
sealed: the root of the live spork is indexed without a look at its parent, and a sibling
beside the last block of a spork would pass every other check.

`Linked` alone says nothing of the blocks on their way into the index. `IndexerInv`
adds that the blocks waiting for a seal, the last indexed block and the block that
the next one must follow are on one branch (`OneBranch` in `LiveInv` and `SealsInv`),
that the walk back and the list it leaves are the history, block by block (`WalkInv`,
`PastInv`), and that the cache holds only what a server may answer. The unsigned
subtraction of the seal tolerance is kept with its width (`Wraps`).

`NoFatalError` assumes `Steady`, which is what the code takes for granted of the Flow
protocol where it calls `log.Fatalf`. `SealsInOrder`: on each branch the blocks are sealed
one height after the other, from the root of a spork on, in any later blocks and any number
at a time. `PastSealed`: a spork has sealed its blocks, but for those that the tolerance or
the configuration allow for, by the time it is replaced. And no server cancels a call, since
a block that `processBlock` gives up for that reason is never processed again. `MCIndexer`
assumes the first two of the instance of the runs, so that TLC evaluates them. `SteadyInv`
adds to `IndexerInv` that the seals collected by the walk back are kept until their blocks
have had their turn (`PastSteady`), that in the live loop there is a waiting block at every
height from the last indexed one to the one fetched next, none of them sealed so far
(`LiveSteady`), and that the seals left of the block in hand are the next ones on its branch
(`SealsSteady`), also when it is fetched again because the consensus follower was behind.
The block whose seal comes next is then the next block of the index (`ReadyHolds`). A
new block is on the branch of its parent (`AncestorOfParent`), and none that the live loop
accepts is the root of a later spork (`NotARoot`), where the count would start afresh.

### Event processing

`BlockOpsProofs` proves `BlockOpsInvariant` (`Spec => []BlockOpsInv`), and from it
`BalancesAlwaysMatch` (`BalancesMatch`), `FeesAlwaysMatch` (`FeesMatch`),
`ProcessBlockNeverStuck` (`NeverStuck`) and `RestartsAreNeutral` (`RestartNeutral`), for any
finite set of addresses, any amounts, any fee above zero, and blocks of any number of
transactions.

The properties are about the moment after a block; `BlockOpsInv` is about every moment. Its
main part is `TallyInv(BlockTally)`: if the block in hand were processed now, nothing would be
given up, the accounts known and new would be those of ours, proxy accounts would be known
as such and get a key, the balance of each with its change (`Change`) would be what the vault
behind it holds, and the fees booked would be those paid. `ChainInv` adds what that rests on:
accounts that do not exist hold nothing, only proxy accounts hold anything in a proxy vault,
the fee account is nobody's. `StoreInv` says that the index and the running process agree.

The tally is a fold of folds. For each fold there is a lemma that its value is the last of a
chain of intermediate values (`FoldChain`, `...Fold`), and two chains of the same steps agree
(`Agree`, by the least element of the set of places where they do not); from these, what one more
element or a concatenation adds (`OpsAppend`, `TxnAppend`, `FirstLoopConcat`, ...). A
transaction of the model is up to two moves of FLOW and the fee. Both event loops are
described by what they count of each move (`First`, `Second`, `Counted`), or by the accounts
that they find (`Made`, `Booked`); the rest of the turn by what it does to the change of a balance
(`FinishEffect`). `MoveNet` is the heart of it: what is counted for a tracked account is what the
move does to the vault behind its balance, although a proxy vault announces its deposits in other
events than a default one, and both emit those of the token. `MatchTransferEffect` says that
a proxy transfer uses up the deposit that it caused, so that it is not booked twice;
`CountedEnough` that the deposit and the fee are always there to be taken away, which is why
nothing gets stuck. `TurnKeeps` puts this together with the moves of the chain (`Carried`).

The assumptions on the environment are those of the model (section 2): what accounts of ours sign
is what Rosetta constructs, never a transfer to the fee account, and one transaction makes at
most one transfer out of a proxy vault.

### The construction API

`ConstructionProofs` proves `ConstructionInvariant` (`Spec => []ConstructionInv`),
`TypeCorrect`, `OrdersOnce` (`AtMostOnce`), `ExpiryIsFinal` (`ExpiredIsFinal`),
`EffectsAsOrdered` (`EffectMatchesIntent`), `FreshOrdersExecute`
(`FreshTransfersExecute`) and `InnersOnce` (`InnerOnce`), for any callers, whatever they
give to preprocess and to payloads, and whichever imports are resolved: of proxy
transfers `FreshOrdersExecute` speaks only if theirs is. Orders, keys
and expiry are arbitrary too. `RequestsAssumption`
says what the types of the API guarantee of an operation: its value is an integer, and
metadata of keys and contracts have their fields. `NoneAssumption` says that nil is
none of the values that a script takes as an argument.

`AtMostOnce` rests on `OneSeq`: those transactions of a caller that may still take
effect, or have, are at one sequence number. The others are dead: known to have
failed, or reported as expired, which `ExpiredInv` ties to the chain. `SpentBy` and
`Apart` say that an effect uses up a sequence number and, from a vault, a nonce, and
that no two effects use the same one. `CallerInv` is what connects the calls: options
and transactions are those of the order, although the server remembers nothing, and
keep a sequence number that the caller insists on. `EffectMatchesIntent` is
invariant relative to it: `EffectInv` adds that what was signed shows the operations
of the order in `/construction/parse` (`SignedInv`), and that an effect is determined by
the transaction (`EffectOf`).

`FreshTransfersExecute` compares three moments: the reference block, the signature and
the execution. `HistoryInv` keeps the keys of the payer in their places from block to
block, with the last one in force; `LookedUp` says that what metadata returned was true
of the state *at the reference block*, whichever server or index answered; `SignedBy`
puts the signature between the reference block and the execution. When the keys of the
payer are the same at both ends, the key that signed is therefore the one that
metadata looked up, and the transaction may propose. `OutcomeInv` and the arguments of
the script (`FreshInv`) then give its effect. None of this is of use when metadata reads
the account at another height than that of the reference block, which is the mutant.

### Validation

`ValidationProofs` proves:

* `ToldIsRefused`: `Spec => []ToldThenRefused`;
* `AlarmsAreReal`: `Spec => []NoFalseAlarm`;
* `SuccessIsSound`: `Spec => []SuccessSound`.

`AlarmsAreReal` assumes `NoProxyChecked`: there is no proxy account, or no proxy
contract is configured and they are skipped. Without that it does not hold, as
section 3 says.

`ToldThenRefused` is not inductive: it says nothing of the moment between the two
locks. `LockInv` adds that a status of failure repeats the error that is set, and
that an error which is not yet in the status is the one being set, at the head of
`pending` (`TwoLocks`); the first error, once set, is then the only one a client can
ever be told. `AlarmInv`, for `NoFalseAlarm`, adds that every pending error is real,
that what was read of the index is what it still says of that block, and that
mistakes lie in indexed blocks only: a block that has been read can neither go
wrong nor become right again (`IndexedIsFixed`), so the comparison, whenever it
comes, is about one block (`CompareIsReal`). Both rest on `Shape`, whose important
part is that only accounts which are not skipped are visited. `SuccessInv` says of a
pass that has counted no error that the accounts behind it are right up to the
height of its list (`PassInv`), and of a finished one that this stays so (`Vouched`).

### The process

`LifecycleProofs` proves `HeightsInOrder` (`EachHeightOnce`), `PrefetchIsComplete`
(`PrefetchComplete`) and `ShutdownIsClean` (`CleanShutdown`) for any number of workers and
heights, with or without the consensus follower, from three invariants. `QueueInv`: what the workers took, what is in the
channel and what the scheduler sends next are consecutive. `CacheInv`: the answers to the
calls before the one that a worker makes are stored, or could not be; that these calls are
those of `Asked` comes last. `RegistryInv` and `ExitInv`:
every copy of the list of handlers that is being run is an end of the list, and what
it no longer holds has been done, whichever runs overlap. A panic can end the process at
any of these moments, which is why `CleanShutdown` leaves that status out.

### Only model-checked

* Liveness (the second half of `BootSucceeds`, `CatchesUp`, `Detects`, `Terminates`, `Prefetched`): the
  prover has no rules for fairness and `ENABLED`.

## 5. Not modelled

* Encodings and hashes (`src/state/convert.go`, `src/crypto`, `src/model`) beyond
  what they cover and which format they take: pure cryptographic code.
* Time: timestamps, backoff, timeouts and intervals. A sleep ends sooner or later;
  the `synced` flag may change at any moment.
* Collections, and the slow path of `processBlock`, beyond its early returns.
* Network and mempool services, `/construction/derive`, offline mode: answers that
  depend on no state but `Latest` and `Genesis`.
* The connections of the Access API client and their certificates.
* Parsing and validation of the configuration, formatting of responses, the
  other command line tools.
* `deque` and `timeout`: no other package uses them.

## 6. Plan

Done: `IndexDB`, `Ledger`, `IndexReads`, `Indexer`, `BlockOps`, `Construction`,
`Validation`, `Lifecycle`; the proofs of section 4.

Left, in this order:

1. Collections and the position of a transaction in its collection
   (`src/state/process.go` from line 424), and the timestamps of blocks.
2. `Construction` with several payers.
