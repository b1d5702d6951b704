------------------------------ MODULE Indexer ------------------------------
(***************************************************************************)
(* The state indexer of Flow Rosetta (src/state/state.go, and the control  *)
(* of processBlock in src/state/process.go): how it decides which blocks   *)
(* become part of the index, across sporks, restarts, wrong answers of     *)
(* Access API servers and a shutdown in progress.                          *)
(*                                                                         *)
(* A block is identified by its height and a kind; the environment is the  *)
(* history that Flow has agreed on, the blocks that an old spork went on   *)
(* to produce after the next one started, and the answers that servers     *)
(* give.  The index database is the chain it promises to be (IndexDB       *)
(* shows that it is): a transaction is one step here.  How the operations  *)
(* of a block are derived from its events is the subject of BlockOps.      *)
(***************************************************************************)
EXTENDS Integers, Sequences, FiniteSets, SequencesExt

CONSTANTS
  SporkRoots,     \* root block heights of the sporks, in order
  MaxHeight,      \* bound: height of the last block of the history
  Overrun,        \* how many blocks an old spork produces from the root
                  \* height of the next one on, which are not kept
  Seals,          \* the blocks that are sealed in each block, in order
  SporkSealTolerance,
  SkipBlocks,     \* heights whose integrity checks are skipped
  UseConsensusFollower,
  Cache,          \* TRUE: Access API answers are cached on disk
  Resync,         \* TRUE: the operator may reset the index at start-up
  Signals,        \* TRUE: the process may be asked to shut down
  Faults,         \* what Access API servers may do wrong
  Word,           \* number of values of an unsigned machine integer
  None            \* nil; an absent key

FaultKinds ==
  {"badPayload", "garbledParent", "swappedParent", "sibling", "garbledRoot",
   "canceled", "badEvents"}

Root == SporkRoots[1]
Heights == Root..MaxHeight
Roots == {SporkRoots[s] : s \in DOMAIN SporkRoots}

(***************************************************************************)
(* Blocks: the history ("main"), what an old spork produced after the next *)
(* spork's root ("old"), and a block that was proposed and not finalized   *)
(* ("sibling").  A hash that belongs to no block is "junk".                *)
(***************************************************************************)
Blocks == Heights \X {"main", "old", "sibling"}

\* A spork that was replaced has gone quiet before the next but one starts.
ASSUME IndexerAssumption ==
  /\ SporkRoots \in Seq(1..MaxHeight) /\ SporkRoots # << >>
  /\ \A s, t \in DOMAIN SporkRoots : s < t => SporkRoots[s] < SporkRoots[t]
  /\ \A s \in 2..(Len(SporkRoots) - 1) :
       SporkRoots[s] + Overrun < SporkRoots[s + 1]
  /\ MaxHeight \in Nat /\ Overrun \in Nat /\ Word \in Nat
  /\ MaxHeight < Word /\ SporkSealTolerance \in 0..(Word - 1)
  /\ Seals \in [Blocks -> Seq(Blocks)]
  /\ \A b \in Blocks : \A i \in DOMAIN Seals[b] :
       Seals[b][i][1] < b[1] /\ Seals[b][i][2] # "sibling"
  /\ Faults \subseteq FaultKinds
  /\ None \notin Blocks \cup [id : Blocks, ok : BOOLEAN]

ParentOf(id) ==
  LET h == id[1]
  IN  CASE id[2] = "old" /\ h \notin Roots -> <<h - 1, "old">>
        [] id[2] = "junk"                  -> id
        [] OTHER                           -> <<h - 1, "main">>

\* The spork, among the first n, that a height belongs to: SporkFor.
SporkFor(n, h) ==
  CHOOSE s \in 1..n :
    /\ SporkRoots[s] <= h
    /\ \A t \in (s + 1)..n : h < SporkRoots[t]

\* The next spork has started at a height.
Replaced(s, h) == s < Len(SporkRoots) /\ h >= SporkRoots[s + 1]

\* The block that the nodes of a spork have at a height; None if they have
\* none, up to the tip of the history.
BlockAt(s, h, top) ==
  IF h > top \/ (Replaced(s, h) /\ h >= SporkRoots[s + 1] + Overrun)
    THEN None
    ELSE <<h, IF Replaced(s, h) THEN "old" ELSE "main">>

\* The answers for the header and the block at a height.  The derived hash
\* covers the header and, through the payload hash, the seals; it does not
\* cover the parent field of the block message.
Faulty(kind, answer) == IF kind \in Faults THEN {answer} ELSE {}

Answer(id, parentId, valid) ==
  [id |-> id, parent |-> parentId, valid |-> valid]

Answers(s, h, top) ==
  LET id      == BlockAt(s, h, top)
      sibling == <<h, "sibling">>
  IN  IF id = None
        THEN {}
        ELSE {Answer(id, ParentOf(id), TRUE)}
               \cup Faulty("badPayload", Answer(id, ParentOf(id), FALSE))
               \cup Faulty("garbledParent",
                           Answer(id, <<h - 1, "junk">>, TRUE))
               \cup Faulty("swappedParent",
                           Answer(id, <<h - 1, "sibling">>, TRUE))
               \cup Faulty("sibling",
                           Answer(sibling, ParentOf(sibling), TRUE))

\* The answers of findRootBlock, which verifies the height only.
RootAnswers(n) ==
  LET h == SporkRoots[n]
      good == [id |-> <<h, "main">>, parent |-> <<h - 1, "main">>]
  IN  {good} \cup Faulty("garbledRoot", [good EXCEPT !.id = <<h, "junk">>])

VARIABLES
  tip,            \* height of the history so far
  nsporks,        \* number of sporks in the configuration
  \* On disk.
  chain,          \* the index: block and whether its events are authentic
  latest,         \* height of the latest indexed block; 0: no genesis yet
  cache,          \* cached answers, by spork and height
  \* In memory.
  pc,             \* control state
  exiting,        \* process.exiting
  liveRoot,       \* i.liveRoot
  lastIndexed,    \* i.lastIndexed
  sealed,         \* domain of i.sealedResults
  height, parent, \* local variables of the two indexing loops
  skipCache,
  hashes,         \* hashes of indexPastSporks
  pending,        \* domain of blocks of indexLiveSpork
  block,          \* block of indexLiveSpork
  todo,           \* blocks that remain to be processed in the inner loop
  job             \* block that processBlock works on, and where it returns

disk == <<chain, latest>>
loop == <<height, parent, skipCache, hashes, pending, block, todo>>
memory == <<exiting, liveRoot, lastIndexed, sealed, loop, job>>
vars == <<tip, nsporks, disk, cache, pc, memory>>

Init ==
  /\ tip = Root
  /\ nsporks = 1
  /\ chain = [h \in Heights |-> None]
  /\ latest = 0
  /\ cache = [k \in (DOMAIN SporkRoots) \X Heights |-> None]
  /\ pc = "down"
  /\ exiting = FALSE /\ liveRoot = None /\ lastIndexed = None /\ sealed = {}
  /\ height = 0 /\ parent = None /\ skipCache = FALSE /\ hashes = << >>
  /\ pending = {} /\ block = None /\ todo = << >> /\ job = None

(***************************************************************************)
(* The environment.                                                        *)
(***************************************************************************)
NewBlock ==
  /\ tip < MaxHeight
  /\ tip' = tip + 1
  /\ UNCHANGED <<nsporks, disk, cache, pc, memory>>

\* The process starts; the operator has added the sporks that are known.
Start ==
  /\ pc = "down"
  /\ \E n \in nsporks..Len(SporkRoots) :
       SporkRoots[n] <= tip /\ nsporks' = n
  /\ pc' = "initStore"
  /\ UNCHANGED <<tip, disk, cache, memory>>

\* SIGTERM, or a fatal error elsewhere: exit handlers begin to run, and the
\* indexer goes on until its context is cancelled or the process is gone.
Signal ==
  /\ Signals
  /\ pc \notin {"down", "exit"}
  /\ ~ exiting
  /\ exiting' = TRUE
  /\ UNCHANGED <<tip, nsporks, disk, cache, pc, liveRoot, lastIndexed, sealed,
                 loop, job>>

\* The process is gone.
Stop ==
  /\ pc # "down"
  /\ pc' = "down"
  /\ exiting' = FALSE /\ liveRoot' = None /\ lastIndexed' = None
  /\ sealed' = {} /\ height' = 0 /\ parent' = None /\ skipCache' = FALSE
  /\ hashes' = << >> /\ pending' = {} /\ block' = None /\ todo' = << >>
  /\ job' = None
  /\ UNCHANGED <<tip, nsporks, disk, cache>>

(***************************************************************************)
(* Start-up.                                                               *)
(***************************************************************************)

\* A block of the index, and whether its events are authentic.
Entry(id, ok) == [id |-> id, ok |-> ok]

\* initStore with an empty database: findRootBlock and SetGenesis.
SetGenesis ==
  /\ pc = "initStore"
  /\ latest = 0
  /\ chain' = [chain EXCEPT ![Root] = Entry(<<Root, "main">>, TRUE)]
  /\ latest' = Root
  /\ UNCHANGED <<tip, nsporks, cache, pc, memory>>

\* MUTANT of Loaded: the last indexed block is set to the genesis block.
GenesisLoaded(h) == chain[Root].id

\* Store.Latest, which i.lastIndexed is set to.
Loaded(h) == chain[h].id

\* The rest of initStore, then handleResyncFrom.  (Purging proxy accounts,
\* and how a reset deletes its keys, is modelled in IndexDB.)
Boot ==
  /\ pc = "initStore"
  /\ latest # 0
  /\ \E base \in (IF Resync THEN Root..latest ELSE {latest}),
        root \in RootAnswers(nsporks) :
       /\ chain' = [h \in Heights |-> IF h > base THEN None ELSE chain[h]]
       /\ latest' = base
       /\ lastIndexed' = Loaded(base)
       /\ liveRoot' = root
  /\ pc' = "indexBlocks"
  /\ UNCHANGED <<tip, nsporks, cache, exiting, sealed, loop, job>>

(***************************************************************************)
(* indexBlocks.                                                            *)
(***************************************************************************)
StartHeight == lastIndexed[1] + 1

LiveHeight == SporkRoots[nsporks]

\* The live spork, from the block after the last indexed one.
EnterLive ==
  /\ pc = "indexBlocks"
  /\ StartHeight > LiveHeight
  /\ height' = StartHeight
  /\ parent' = lastIndexed
  /\ skipCache' = FALSE /\ hashes' = << >> /\ pending' = {} /\ todo' = << >>
  /\ pc' = "accept"
  /\ UNCHANGED <<tip, nsporks, disk, cache, exiting, liveRoot, lastIndexed,
                 sealed, block, job>>

\* The live spork, from its root block: it is processed without a look at
\* its parent.
EnterLiveRoot ==
  /\ pc = "indexBlocks"
  /\ StartHeight = LiveHeight
  /\ height' = StartHeight + 1
  /\ parent' = liveRoot.id
  /\ skipCache' = FALSE /\ hashes' = << >> /\ pending' = {} /\ todo' = << >>
  /\ job' = [id |-> liveRoot.id, ret |-> "accept"]
  /\ pc' = "process"
  /\ UNCHANGED <<tip, nsporks, disk, cache, exiting, liveRoot, lastIndexed,
                 sealed, block>>

\* Past sporks: walk back from the root block of the live spork.
EnterPast ==
  /\ pc = "indexBlocks"
  /\ StartHeight < LiveHeight
  /\ height' = LiveHeight - 1
  /\ parent' = liveRoot.parent
  /\ hashes' = <<liveRoot.id>>
  /\ skipCache' = FALSE /\ pending' = {} /\ todo' = << >>
  /\ pc' = "walk"
  /\ UNCHANGED <<tip, nsporks, disk, cache, exiting, liveRoot, lastIndexed,
                 sealed, block, job>>

(***************************************************************************)
(* Access API calls for the header and the block at a height, through the  *)
(* cache unless it is skipped.                                             *)
(***************************************************************************)
Spork == SporkFor(nsporks, height)

\* MUTANT of Fetched: the cache is never bypassed.
AlwaysCached ==
  IF Cache /\ cache[<<Spork, height>>] # None
    THEN {cache[<<Spork, height>>]}
    ELSE Answers(Spork, height, tip)

Fetched ==
  IF Cache /\ ~ skipCache /\ cache[<<Spork, height>>] # None
    THEN {cache[<<Spork, height>>]}
    ELSE Answers(Spork, height, tip)

\* The hash derived from the header and the payload is the block's.
verifyBlockHash(answer) == answer.valid

\* A call that skips the cache does not store its answer either.
Remember(answer) ==
  cache' = IF Cache /\ ~ skipCache
             THEN [cache EXCEPT ![<<Spork, height>>] = answer]
             ELSE cache

\* A prefetch worker gets the answer before the indexer asks for it.
Prefetch ==
  /\ Cache /\ pc \notin {"down", "exit", "initStore"}
  /\ \E s \in 1..nsporks, h \in (lastIndexed[1] + 1)..tip :
       /\ s = SporkFor(nsporks, h)
       /\ cache[<<s, h>>] = None
       /\ \E answer \in Answers(s, h, tip) :
            cache' = [cache EXCEPT ![<<s, h>>] = answer]
  /\ UNCHANGED <<tip, nsporks, disk, pc, memory>>

(***************************************************************************)
(* indexPastSporks.                                                        *)
(***************************************************************************)

\* MUTANT of Expected: the identifiers in the answer are not compared.
AnyBlock(answer) == TRUE

\* The header and the block are those of the hash that was asked for.
Expected(answer) == answer.id = parent

\* One attempt of getVerifiedParent.
WalkBack(answer) ==
  /\ pc = "walk"
  /\ height >= StartHeight
  /\ answer \in Fetched
  /\ Remember(answer)
  /\ IF Expected(answer) /\ verifyBlockHash(answer)
       THEN /\ sealed' = sealed \cup ToSet(Seals[answer.id])
            /\ hashes' = Append(hashes, parent)
            /\ parent' = answer.parent
            /\ height' = height - 1
            /\ skipCache' = FALSE
       ELSE /\ skipCache' = TRUE
            /\ UNCHANGED <<sealed, hashes, parent, height>>
  /\ UNCHANGED <<tip, nsporks, disk, pc, exiting, liveRoot, lastIndexed,
                 pending, block, todo, job>>

\* The walk ends at the last indexed block.
Connected == parent = lastIndexed

WalkEnd ==
  /\ pc = "walk"
  /\ height < StartHeight
  /\ IF Connected
       THEN todo' = Reverse(hashes) /\ pc' = "past"
       ELSE todo' = << >> /\ pc' = "indexBlocks"
  /\ UNCHANGED <<tip, nsporks, disk, cache, exiting, liveRoot, lastIndexed,
                 sealed, height, parent, skipCache, hashes, pending, block,
                 job>>

PastNext ==
  /\ pc = "past"
  /\ IF todo = << >>
       THEN pc' = "indexBlocks" /\ UNCHANGED <<todo, job>>
       ELSE /\ job' = [id |-> Head(todo), ret |-> "past"]
            /\ todo' = Tail(todo)
            /\ pc' = "process"
  /\ UNCHANGED <<tip, nsporks, disk, cache, exiting, liveRoot, lastIndexed,
                 sealed, height, parent, skipCache, hashes, pending, block>>

(***************************************************************************)
(* indexLiveSpork.                                                         *)
(***************************************************************************)

\* MUTANT of Acceptable: the parent is not compared.
AnyParent(answer) ==
  /\ verifyBlockHash(answer)
  /\ UseConsensusFollower => answer.id[2] \in {"main", "old"}

\* What is asked of a block.  The consensus follower knows the finalized
\* blocks of the live spork.
Acceptable(answer) ==
  /\ answer.parent = parent
  /\ verifyBlockHash(answer)
  /\ UseConsensusFollower => answer.id[2] \in {"main", "old"}

\* One attempt to get the next block.
Accept(answer) ==
  /\ pc = "accept"
  /\ answer \in Fetched
  /\ Remember(answer)
  /\ IF Acceptable(answer)
       THEN /\ block' = answer.id
            /\ pending' = pending \cup {answer.id}
            /\ todo' = Seals[answer.id]
            /\ pc' = "seals"
            /\ UNCHANGED skipCache
       ELSE /\ skipCache' = TRUE
            /\ UNCHANGED <<block, pending, todo, pc>>
  /\ UNCHANGED <<tip, nsporks, disk, exiting, liveRoot, lastIndexed, sealed,
                 height, parent, hashes, job>>

\* The next seal: skipped if its block is not waiting for one.
SealNext ==
  /\ pc = "seals"
  /\ todo # << >>
  /\ todo' = Tail(todo)
  /\ IF Head(todo) \in pending
       THEN /\ sealed' = sealed \cup {Head(todo)}
            /\ job' = [id |-> Head(todo), ret |-> "seals"]
            /\ pc' = "process"
       ELSE UNCHANGED <<sealed, job, pc>>
  /\ UNCHANGED <<tip, nsporks, disk, cache, exiting, liveRoot, lastIndexed,
                 height, parent, skipCache, hashes, pending, block>>

\* The consensus follower does not have the seal yet: the block is fetched
\* again, and the seals that are left are looked at again.
SealUnknown ==
  /\ pc = "seals"
  /\ UseConsensusFollower
  /\ todo # << >>
  /\ Head(todo) \in pending
  /\ pc' = "accept"
  /\ todo' = << >>
  /\ UNCHANGED <<tip, nsporks, disk, cache, exiting, liveRoot, lastIndexed,
                 sealed, height, parent, skipCache, hashes, pending, block,
                 job>>

SealsDone ==
  /\ pc = "seals"
  /\ todo = << >>
  /\ height' = height + 1
  /\ parent' = block
  /\ skipCache' = FALSE
  /\ pc' = "accept"
  /\ UNCHANGED <<tip, nsporks, disk, cache, exiting, liveRoot, lastIndexed,
                 sealed, hashes, pending, block, todo, job>>

(***************************************************************************)
(* processBlock: the attempts that are retried leave no trace.             *)
(***************************************************************************)
JobHeight == job.id[1]
JobSpork == SporkFor(nsporks, JobHeight)

Skipped == JobHeight \in SkipBlocks

SelfSealed == JobSpork > 1 /\ JobHeight = SporkRoots[JobSpork]

\* MUTANT of Tolerated: one block too few.
ToleratedStrictly ==
  /\ JobSpork < nsporks
  /\ JobHeight > (SporkRoots[JobSpork + 1] - SporkSealTolerance) % Word

\* The block is so close to the end of a past spork that it may lack a seal.
\* The difference is one of unsigned integers.
Tolerated ==
  /\ JobSpork < nsporks
  /\ JobHeight >= (SporkRoots[JobSpork + 1] - SporkSealTolerance) % Word

\* There is a sealed result, or there need not be one.
SealSettled == Skipped \/ SelfSealed \/ job.id \in sealed \/ Tolerated

\* MUTANT of EventsChecked: the result is not compared with the seal.
NeverChecked == FALSE

\* The events are those that the seal of the block vouches for.
EventsChecked == ~ Skipped /\ ~ SelfSealed /\ job.id \in sealed

Return ==
  /\ pending' = pending \ {job.id}
  /\ job' = None
  /\ pc' = job.ret

\* log.Fatalf in Index, for a height that is not the next one, returns if
\* the process is already exiting.
MayIndex == JobHeight <= latest + 1 \/ exiting

\* The block is indexed, unless it is already.  A sealed result is missing,
\* or a height, and the process is exiting: log.Fatalf has returned.
ProcessBlock(ok) ==
  /\ pc = "process"
  /\ SealSettled \/ exiting
  /\ ok \/ ("badEvents" \in Faults /\ ~ EventsChecked)
  /\ MayIndex
  /\ IF JobHeight <= latest
       THEN UNCHANGED disk
       ELSE /\ chain' = [chain EXCEPT ![JobHeight] = Entry(job.id, ok)]
            /\ latest' = JobHeight
  /\ lastIndexed' = job.id
  /\ sealed' = sealed \ {job.id}
  /\ Return
  /\ UNCHANGED <<tip, nsporks, cache, exiting, liveRoot, height, parent,
                 skipCache, hashes, block, todo>>

\* On its slow path processBlock takes a Canceled answer of the server for
\* the end of its own context, and returns.
Abandon ==
  /\ pc = "process"
  /\ "canceled" \in Faults
  /\ Return
  /\ UNCHANGED <<tip, nsporks, disk, cache, exiting, liveRoot, lastIndexed,
                 sealed, height, parent, skipCache, hashes, block, todo>>

\* log.Fatalf: no sealed result, or an invalid index request.
Fatal ==
  /\ pc = "process"
  /\ ~ exiting
  /\ ~ SealSettled \/ ~ MayIndex
  /\ pc' = "exit"
  /\ UNCHANGED <<tip, nsporks, disk, cache, memory>>

Process == (\E ok \in BOOLEAN : ProcessBlock(ok)) \/ Abandon \/ Fatal

\* A call is made for the header and the block.
Asking == pc \in {"walk", "accept"} /\ height \in Heights

Fetch == Asking /\ \E answer \in Fetched : WalkBack(answer) \/ Accept(answer)

Indexing ==
  \/ SetGenesis \/ Boot
  \/ EnterLive \/ EnterLiveRoot \/ EnterPast
  \/ WalkEnd \/ PastNext \/ SealNext \/ SealsDone

Next ==
  \/ NewBlock \/ Start \/ Signal \/ Stop \/ Prefetch
  \/ Indexing \/ Fetch \/ SealUnknown \/ Process

\* A good answer to the call that is made.
Good(answer) ==
  answer \in Answers(Spork, height, tip) /\ answer.valid
    /\ answer.id = BlockAt(Spork, height, tip)
    /\ answer.parent = ParentOf(answer.id)

GoodFetch ==
  /\ Asking
  /\ \E answer \in Fetched :
       Good(answer) /\ (WalkBack(answer) \/ Accept(answer))

\* Flow goes on producing blocks.  The indexer goes on running, and retries
\* until some server gives it a good answer and the consensus follower has
\* caught up.
Fairness ==
  /\ WF_vars(NewBlock)
  /\ WF_vars(Indexing) /\ WF_vars(Fetch)
  /\ SF_vars(GoodFetch) /\ SF_vars(SealNext)
  /\ WF_vars(ProcessBlock(TRUE)) /\ WF_vars(Fatal)

Spec == Init /\ [][Next]_vars /\ Fairness

(***************************************************************************)
(* Properties.                                                             *)
(***************************************************************************)

\* The index is a chain of blocks, each the parent of the next: whatever the
\* servers answer, across sporks, resets and restarts, and although the
\* walk through past sporks and the live loop find blocks in opposite
\* directions.
Linked ==
  \A h \in (Root + 1)..latest :
    /\ chain[h] # None /\ chain[h - 1] # None
    /\ ParentOf(chain[h].id) = chain[h - 1].id

\* Every indexed block is one that Flow finalized.
Finalized ==
  \A h \in Heights : chain[h] # None => chain[h].id[2] \in {"main", "old"}

\* Balances are taken from events that nothing vouches for in three cases
\* only: the block is the root of a spork, it is near the end of a spork, or
\* the operator skips its checks.
EventsAuthentic ==
  \A h \in Heights :
    \/ chain[h] = None \/ chain[h].ok
    \/ h \in SkipBlocks \cup Roots
    \/ \E r \in Roots : r > h /\ h >= r - SporkSealTolerance

\* As long as no server cancels a call, the indexer asks the database for
\* the next block only and has a seal for it: no fatal error stops it.
NeverFatal == pc # "exit"

\* The last indexed block in memory is the latest one on disk.
LastIndexedStored ==
  pc \notin {"down", "initStore", "exit"} =>
    /\ lastIndexed[1] = latest
    /\ chain[latest].id = lastIndexed

\* The highest block of the live spork that is ever sealed.
LastSealed ==
  LET s == Len(SporkRoots)
  IN  CHOOSE k \in Heights :
        /\ \E h \in Heights : k \in {x[1] : x \in ToSet(Seals[<<h, "main">>])}
        /\ \A h \in Heights :
             \A x \in ToSet(Seals[<<h, "main">>]) : x[1] <= k

\* If the process is eventually left alone, with all sporks configured,
\* every sealed block gets indexed.
CatchesUp ==
  <>[](pc # "down" /\ nsporks = Len(SporkRoots)) => <>(latest >= LastSealed)

(***************************************************************************)
(* The inductive invariant behind Linked, Finalized, EventsAuthentic and   *)
(* LastIndexedStored.                                                      *)
(***************************************************************************)

\* What Linked needs of the environment: the hash that a server gives for a
\* parent is right or belongs to no block, and the root block of the live
\* spork is right.
Environment == Faults \cap {"swappedParent", "garbledRoot"} = {}

\* The blocks that some spork produced.
Produced ==
  {b \in Blocks :
     b[2] = "old" => \E s \in 2..Len(SporkRoots) :
                       SporkRoots[s] <= b[1] /\ b[1] < SporkRoots[s] + Overrun}

\* The blocks of a set are on one branch.
OneBranch(S) ==
  \A p, q \in S : /\ p[1] = q[1] => p = q
                  /\ p[1] + 1 = q[1] => ParentOf(q) = p

Loops == {"walk", "past", "accept", "seals"}
Up == {"indexBlocks", "process"} \cup Loops

\* The loop that the indexer is in, also while it processes a block.
Loop == IF pc = "process" THEN job.ret ELSE pc

ShapeInv ==
  /\ tip \in Heights /\ nsporks \in 1..Len(SporkRoots)
  /\ pc \in {"down", "initStore", "exit"} \cup Up
  /\ pc = "process" => job.ret \in {"past", "accept", "seals"}
  /\ exiting \in BOOLEAN
  /\ DOMAIN cache = (DOMAIN SporkRoots) \X Heights
  /\ \A k \in DOMAIN cache : \/ cache[k] = None
                             \/ cache[k] \in Answers(k[1], k[2], tip)

\* The index: produced blocks, from the first root to the latest block.
IndexInv ==
  /\ latest \in {0} \cup Heights
  /\ DOMAIN chain = Heights
  /\ latest = 0 => pc \in {"down", "initStore"}
  /\ \A h \in Heights :
       IF h > latest
         THEN chain[h] = None
         ELSE /\ chain[h] \in [id : Produced, ok : BOOLEAN]
              /\ chain[h].id[1] = h
              /\ chain[h].id[2] # "sibling"

UpInv ==
  pc \in Up =>
    /\ lastIndexed = chain[latest].id
    /\ liveRoot = [id     |-> <<LiveHeight, "main">>,
                   parent |-> <<LiveHeight - 1, "main">>]

\* The walk back has found blocks of the history, down to the one that it
\* looks for or to a hash of no block.
WalkInv ==
  Loop = "walk" =>
    /\ height \in latest..(LiveHeight - 1)
    /\ parent = <<height, "main">> \/ parent = <<height, "junk">>
    /\ hashes = [i \in 1..(LiveHeight - height) |->
                   <<LiveHeight + 1 - i, "main">>]
    /\ pending = {}

\* The blocks of the past sporks are processed in order.
PastInv ==
  Loop = "past" =>
    LET n == LiveHeight - Len(todo)
    IN  /\ Len(todo) \in Nat
        /\ todo = [i \in 1..Len(todo) |-> <<n + i, "main">>]
        /\ latest <= n
        /\ lastIndexed[2] = "main"
        /\ pending = {}
        /\ pc = "process" => job.id = <<n, "main">> /\ latest < n

\* The live loop: the blocks that wait for a seal, the last indexed block
\* and the block that the next one must follow are on one branch.
LiveInv ==
  Loop \in {"accept", "seals"} =>
    /\ height \in (Root + 1)..(MaxHeight + 1) /\ latest < height
    /\ parent \in Produced /\ parent[1] = height - 1
    /\ pending \subseteq Produced
    /\ OneBranch(pending \cup {lastIndexed, parent})
    /\ \A p \in pending :
         /\ latest < p[1] /\ p[1] <= height
         /\ p[1] = height => /\ height \in Heights
                             /\ ParentOf(p) = parent
                             /\ UseConsensusFollower
                                  => p = BlockAt(Spork, height, tip)
                             /\ pc = "accept" => UseConsensusFollower

\* The block whose seals are looked at.
SealsInv ==
  Loop = "seals" =>
    /\ height \in Heights
    /\ block \in Produced /\ block[1] = height
    /\ OneBranch(pending \cup {lastIndexed, parent, block})
    /\ todo \in Seq(Blocks)
    /\ \A i \in DOMAIN todo : todo[i][1] < height /\ todo[i][2] # "sibling"
    /\ pc = "process" => /\ job.id \in pending
                         /\ job.id[1] < height /\ job.id[2] # "sibling"

\* The root block of the live spork, processed first.
RootInv ==
  Loop = "accept" /\ pc = "process" =>
    /\ job.id = <<LiveHeight, "main">>
    /\ parent = job.id
    /\ latest < LiveHeight
    /\ lastIndexed[1] + 1 = LiveHeight
    /\ pending = {}

IndexerInv ==
  /\ ShapeInv /\ IndexInv /\ UpInv
  /\ WalkInv /\ PastInv /\ LiveInv /\ SealsInv /\ RootInv
  /\ Linked /\ EventsAuthentic

(***************************************************************************)
(* The invariant behind NeverFatal, beyond the one above.                  *)
(***************************************************************************)

\* The block at a height on the branch that ends with a block.
Ancestor(b, h) ==
  IF h = b[1]
    THEN b
    ELSE <<h, IF b[2] = "old" /\ \A r \in Roots : r <= h \/ b[1] < r
                THEN "old" ELSE "main">>

\* Blocks are sealed in the order of their heights, in later blocks of their
\* branch: with block b, those up to height upTo[b] are, also if it seals
\* none.  A new spork starts afresh.
SealsInOrder(upTo) ==
  \A b \in Produced :
    /\ upTo[b] \in Int /\ upTo[b] <= b[1]
    /\ ParentOf(b) \in Produced /\ ~(b[2] = "main" /\ b[1] \in Roots) =>
         LET before == upTo[ParentOf(b)]
         IN  /\ upTo[b] = before + Len(Seals[b])
             /\ \A i \in DOMAIN Seals[b] : Seals[b][i] = Ancestor(b, before + i)

\* A spork has sealed its blocks before it was replaced, except for its root
\* block, those near its end, and those that the operator skips.
PastSealed ==
  \A s \in 1..(Len(SporkRoots) - 1) :
    \A h \in (SporkRoots[s] + 1)..(SporkRoots[s + 1] - 1) :
      \/ h \in SkipBlocks
      \/ h >= (SporkRoots[s + 1] - SporkSealTolerance) % Word
      \/ \E k \in (h + 1)..(SporkRoots[s + 1] - 1) :
           <<h, "main">> \in ToSet(Seals[<<k, "main">>])

\* What NeverFatal needs of the environment besides: seals come as the Flow
\* protocol has them come, and no server cancels a call.
Steady ==
  /\ "canceled" \notin Faults
  /\ PastSealed
  /\ \E upTo : SealsInOrder(upTo)

\* log.Fatalf ends the process: no shutdown is under way that would let it
\* return, or it is not called.
FatalIsFinal == ~ Signals \/ Steady

\* The walk back collects the seals of the past sporks, and they are kept
\* until their blocks have been processed, each in its turn.
PastSteady ==
  /\ Loop = "walk" =>
       \A k \in (height + 1)..(LiveHeight - 1) :
         ToSet(Seals[<<k, "main">>]) \subseteq sealed
  /\ Loop = "past" =>
       /\ latest = LiveHeight - Len(todo) - (IF pc = "process" THEN 1 ELSE 0)
       /\ \A k \in (latest + 1)..(LiveHeight - 1) :
            \A x \in ToSet(Seals[<<k, "main">>]) : x[1] > latest => x \in sealed

\* The height up to which the live loop has looked at seals.
SeenUpTo(upTo) ==
  IF Loop = "seals" THEN upTo[block] - Len(todo) ELSE upTo[parent]

InHand == IF pc = "process" THEN {job.id} ELSE {}

\* In the live loop every block since the latest one waits for its seal,
\* which is still to come.
LiveSteady(upTo) ==
  Loop \in {"accept", "seals"} =>
    /\ height > LiveHeight
    /\ \A h \in (latest + 1)..(height - 1) :
         \E p \in pending \cup InHand : p[1] = h
    /\ \A p \in pending :
         /\ p \in InHand \/ p[1] > SeenUpTo(upTo)
         /\ p[1] < height => p = Ancestor(parent, p[1])

\* The seals of a block that are left are the next ones.
SealsSteady(upTo) ==
  Loop = "seals" =>
    /\ block \in pending /\ ParentOf(block) = parent
    /\ upTo[parent] <= SeenUpTo(upTo)
    /\ \A i \in DOMAIN todo : todo[i] = Ancestor(block, SeenUpTo(upTo) + i)
    /\ pc = "process" => job.id \in sealed /\ job.id[1] = SeenUpTo(upTo)

SteadyInv(upTo) ==
  PastSteady /\ LiveSteady(upTo) /\ SealsSteady(upTo) /\ NeverFatal

\* The block in hand is the next one, and its events are vouched for.
Ready == pc = "process" => SealSettled /\ JobHeight <= latest + 1

=============================================================================
