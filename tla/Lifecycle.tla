----------------------------- MODULE Lifecycle -----------------------------
(***************************************************************************)
(* The life of the server process: the order in which main starts its parts*)
(* and registers their exit handlers (src/cmd/server/server.go), signals   *)
(* and process.Exit (src/process/process.go), and the goroutines that they *)
(* stop: the scheduler and the workers that prefetch the Access API answers*)
(* for every finalized block into the cache (src/state/worker.go,          *)
(* src/state/state.go, src/cache/cache.go).  The databases are those of the*)
(* index, of the cache and of the consensus follower; the last is Pebble,  *)
(* which panics when it is closed twice or used after it was closed.       *)
(*                                                                         *)
(* Time is left out: a sleep or a backoff ends sooner or later.  Answers of*)
(* the Access API are present or not; module Indexer models what they say. *)
(***************************************************************************)
EXTENDS Integers, Sequences, FiniteSets, SequencesExt

CONSTANTS
  Workers,    \* prefetch workers; Chain.Workers is their number
  MaxHeight,  \* the latest finalized block; the last indexed one is 0
  UseConsensusFollower,  \* Chain.UseConsensusFollower
  None        \* nil

ASSUME LifecycleAssumption ==
  /\ IsFiniteSet(Workers) /\ Workers # {} /\ MaxHeight \in Nat
  /\ UseConsensusFollower \in BOOLEAN
  /\ None \notin {0, 1, 2, <<>>}

VARIABLES
  main,       \* the next step of main, or "exit" when it is in process.Exit
  registry,   \* registered exit handlers, in the order in which they run
  exiting,    \* exiting
  run,        \* the handlers that Exit and the signal goroutine still have
              \* to run, or None when they have not been called
  cancelled,  \* contexts that have been cancelled
  closed,     \* databases that have been closed
  users,      \* goroutines that use the consensus database
  ended,      \* the status of the process, None while it runs
  owed,       \* history: the handlers registered when the exit began
  sched,      \* scheduleJobs: its state, startHeight, height and block.Height
  jobs,       \* the channel of heights
  worker,     \* runWorker: its state, height, next call and slowPath
  cached,     \* calls, by height, whose answers are in the cache
  lost,       \* history: calls, by height, whose answers were not stored
  taken,      \* history: heights in the order in which workers took them
  fetched     \* history: heights that a worker has finished, and by which path

processVars  == <<main, registry, exiting, run, cancelled, closed, users, ended, owed>>
prefetchVars == <<sched, jobs, worker, cached, lost, taken, fetched>>
vars         == <<processVars, prefetchVars>>

Heights == 1..MaxHeight
Runners == {"Exit", "signal"}

(* A context is done with its parents: the follower's is made from that of *)
(* the indexer, and that from the one of main.                             *)
Parents == [indexer |-> {"root"}, follower |-> {"root", "indexer"}, root |-> {}]

Done(ctx) == ({ctx} \cup Parents[ctx]) \cap cancelled # {}

-----------------------------------------------------------------------------
(* Exit handlers.                                                          *)

(* Mutant: in the order in which they were set.                            *)
appended(handler) == registry' = Append(registry, handler)

SetExitHandler(handler) == registry' = <<handler>> \o registry

(* Exit and the signal goroutine take a copy of the handlers.  A signal    *)
(* does not ask whether an exit is in progress.                            *)
Begin(r) ==
  /\ exiting' = TRUE
  /\ run' = [run EXCEPT ![r] = registry]
  /\ owed' = IF exiting THEN owed ELSE registry

(* log.Fatalf of some goroutine: when an exit is in progress, Exit returns *)
(* at once and nothing changes.                                            *)
Exit ==
  /\ ~exiting
  /\ Begin("Exit")
  /\ main' \in IF main = "wait" THEN {main} ELSE {main, "exit"}
  /\ UNCHANGED <<registry, cancelled, closed, users, ended, prefetchVars>>

(* One goroutine takes the signals, and is busy with the first.            *)
Signal ==
  /\ run["signal"] = None
  /\ Begin("signal")
  /\ UNCHANGED <<main, registry, cancelled, closed, users, ended, prefetchVars>>

(* Mutant: an Exit waits for the one that is in progress.                  *)
exitWaits == FALSE

(* What an Exit does for its caller while another is in progress.          *)
exitReturns == exiting

Closers  == {"cache", "index", "consensus"}
Cancels  == {"root", "indexer", "follower"}
Panicked == 2                        \* the status that a panic ends with

(* A second run of the handlers comes to a consensus database that the     *)
(* first one has closed.                                                   *)
ClosesTwice(r) == Head(run[r]) = "consensus" /\ "consensus" \in closed

(* A handler runs.  Those of the trace package fail, in the worst case, and*)
(* then call Exit themselves; that of the HTTP server gives up after five  *)
(* seconds; closing a Badger database twice is closing it once.            *)
Handle(r) ==
  /\ run[r] \notin {None, <<>>}
  /\ ~ClosesTwice(r)
  /\ LET handler == Head(run[r])
     IN  /\ cancelled' = cancelled \cup ({handler} \cap Cancels)
         /\ closed' = closed \cup ({handler} \cap Closers)
         /\ handler \in {"meter", "trace"} => exitReturns
  /\ run' = [run EXCEPT ![r] = Tail(run[r])]
  /\ UNCHANGED <<main, registry, exiting, users, ended, owed, prefetchVars>>

Ends(status) ==
  /\ ended' = status
  /\ UNCHANGED <<main, registry, exiting, run, cancelled, closed, users, owed, prefetchVars>>

HandlePanics(r) == run[r] \notin {None, <<>>} /\ ClosesTwice(r) /\ Ends(Panicked)

OSExit(r) == run[r] = <<>> /\ Ends(1)

-----------------------------------------------------------------------------
(* main, from where it has read the configuration, and with it opened the  *)
(* cache: each step opens or starts a part and registers its handler.  The *)
(* follower is made from an open database and started with its handler; the*)
(* loops of the indexer, which look up heights and seals in that database, *)
(* start right after it.                                                   *)

Following == [index |-> "indexer", indexer |-> "workers",
              consensus |-> "follower", follower |-> "wait"]

Boot ==
  /\ main \in DOMAIN Following
  /\ SetExitHandler(main)
  /\ main' = Following[main]
  /\ users' = IF main = "follower" THEN {"follower", "indexer"} ELSE users
  /\ UNCHANGED <<exiting, run, cancelled, closed, ended, owed, prefetchVars>>

(* initStore gives up when the context is done; otherwise initWorkers, and *)
(* runConsensusFollower is next.                                           *)
StartWorkers ==
  /\ main = "workers"
  /\ \/ /\ worker' = [w \in Workers |-> [worker[w] EXCEPT !.pc = "idle"]]
        /\ sched' = [sched EXCEPT !.pc = "ask"]
        /\ main' = IF UseConsensusFollower THEN "consensus" ELSE "wait"
     \/ /\ Done("indexer")
        /\ main' = "wait"
        /\ UNCHANGED <<worker, sched>>
  /\ UNCHANGED <<registry, exiting, run, cancelled, closed, users, ended, owed,
                 jobs, cached, lost, taken, fetched>>

(* A goroutine looks at its context now and then; until it has, it may use *)
(* the consensus database, also after that was closed.  main uses it while *)
(* it makes the follower.                                                  *)
UserReturns(g) ==
  /\ g \in users /\ Done(g)
  /\ users' = users \ {g}
  /\ UNCHANGED <<main, registry, exiting, run, cancelled, closed, ended, owed, prefetchVars>>

UseAfterClose ==
  /\ "consensus" \in closed
  /\ users # {} \/ main = "follower"
  /\ Ends(Panicked)

(* The goroutine of the HTTP server registers its handler by itself.       *)
ServeHTTP ==
  /\ main = "wait" /\ "http" \notin Range(registry)
  /\ SetExitHandler("http")
  /\ UNCHANGED <<main, exiting, run, cancelled, closed, users, ended, owed, prefetchVars>>

(* The process ends when main returns, whoever else is still running.      *)
MainReturns == main = "wait" /\ Done("root") /\ Ends(0)

-----------------------------------------------------------------------------
(* scheduleJobs.                                                           *)

(* LatestFinalizedBlockHeader of some server, which may lag behind; when it*)
(* fails or has nothing new, nothing changes.  A chain that grows looks no *)
(* different from one whose servers catch up.                              *)
Ask(top) ==
  /\ sched.pc = "ask" /\ ~Done("indexer")
  /\ top > sched.start
  /\ sched' = [sched EXCEPT !.pc = "send", !.height = sched.start + 1, !.top = top]
  /\ UNCHANGED <<processVars, jobs, worker, cached, lost, taken, fetched>>

SchedulerReturns ==
  /\ sched.pc = "ask" /\ Done("indexer")
  /\ sched' = [sched EXCEPT !.pc = "gone"]
  /\ UNCHANGED <<processVars, jobs, worker, cached, lost, taken, fetched>>

(* Mutant: startHeight stays.                                              *)
stays(top) == sched.start

(* Mutant: one block too far.                                              *)
beyond(top) == top + 1

restart(top) == top

room == Len(jobs) < Cardinality(Workers)

(* The send waits for room in the channel, and for nothing else.           *)
Send ==
  /\ sched.pc = "send" /\ room
  /\ jobs' = Append(jobs, sched.height)
  /\ sched' = IF sched.height = sched.top
                THEN [sched EXCEPT !.pc = "ask", !.start = restart(sched.top)]
                ELSE [sched EXCEPT !.height = @ + 1]
  /\ UNCHANGED <<processVars, worker, cached, lost, taken, fetched>>

-----------------------------------------------------------------------------
(* runWorker.  An attempt makes these calls, one after the other: "block"  *)
(* stands for the header and the block, "collections" for the calls per    *)
(* collection and per transaction and the result of the last transaction.  *)

Fast == <<"block", "transactions", "results", "execution">>
Slow == <<"block", "collections", "execution">>
Calls(slow) == IF slow THEN Slow ELSE Fast
Batched == {"transactions", "results"}

Idle(w)  == worker[w].pc = "idle"
Busy(w)  == worker[w].pc = "busy"
Call(w)  == Calls(worker[w].slow)[worker[w].call]
IsCached(w) == <<worker[w].height, Call(w)>> \in cached

Take(w) ==
  /\ Idle(w) /\ jobs # <<>>
  /\ worker' = [worker EXCEPT ![w] = [pc |-> "busy", height |-> Head(jobs), call |-> 1, slow |-> FALSE]]
  /\ jobs' = Tail(jobs)
  /\ taken' = Append(taken, Head(jobs))
  /\ UNCHANGED <<processVars, sched, cached, lost, fetched>>

(* The context is looked at before a job, before an attempt, and between   *)
(* the calls of the slow path.                                             *)
WorkerReturns(w) ==
  /\ Done("indexer")
  /\ \/ Idle(w)
     \/ Busy(w) /\ (worker[w].call = 1 \/ Call(w) = "collections")
  /\ worker' = [worker EXCEPT ![w].pc = "gone"]
  /\ UNCHANGED <<processVars, sched, jobs, cached, lost, taken, fetched>>

(* The call has succeeded: the next one, or the end of the job.            *)
Advance(w) ==
  IF worker[w].call < Len(Calls(worker[w].slow))
    THEN /\ worker' = [worker EXCEPT ![w].call = @ + 1]
         /\ UNCHANGED fetched
    ELSE /\ worker' = [worker EXCEPT ![w] = [pc |-> "idle", height |-> 0, call |-> 1, slow |-> FALSE]]
         /\ fetched' = fetched \cup {[height |-> worker[w].height, slow |-> worker[w].slow]}

Retry(w) == worker' = [worker EXCEPT ![w].call = 1] /\ UNCHANGED fetched

(* Mutant: the calls of the slow path are left out.                        *)
slowSkipped(w) == worker' = [worker EXCEPT ![w].call = 4] /\ UNCHANGED fetched

(* The batched call is not available: from here, and for every later       *)
(* attempt, the slow path.                                                 *)
slowPath(w) ==
  /\ worker' = [worker EXCEPT ![w] = [pc |-> "busy", height |-> @.height, call |-> 2, slow |-> TRUE]]
  /\ UNCHANGED fetched

(* InterceptUnary: a hit needs no server.  A lookup that fails, as it does *)
(* in a closed database, is a miss.                                        *)
Hit(w) ==
  /\ Busy(w) /\ ~Done("indexer") /\ IsCached(w) /\ "cache" \notin closed
  /\ Advance(w)
  /\ UNCHANGED <<processVars, sched, jobs, cached, lost, taken>>

(* When the server has answered, the answer is stored.                     *)
store(w) ==
  /\ "cache" \notin closed
  /\ cached' = cached \cup {<<worker[w].height, Call(w)>>}
  /\ lost' = lost \ {<<worker[w].height, Call(w)>>}

(* An error of the database is logged, and the call succeeds all the same. *)
storeFails(w) ==
  /\ lost' = (lost \cup {<<worker[w].height, Call(w)>>}) \ cached
  /\ UNCHANGED cached

Answer(w) ==
  /\ Busy(w) /\ ~Done("indexer")
  /\ store(w) \/ storeFails(w)
  /\ Advance(w)
  /\ UNCHANGED <<processVars, sched, jobs, taken>>

(* The rate limit is looked at outside the cache: an answer that is stored *)
(* is turned into an error.  When it is not, that is a failure like others.*)
RateLimited(w) ==
  /\ Busy(w) /\ ~Done("indexer")
  /\ store(w)
  /\ Retry(w)
  /\ UNCHANGED <<processVars, sched, jobs, taken>>

(* The server fails, the block is not found, or the context is done.       *)
Fail(w) ==
  /\ Busy(w) /\ worker[w].call > 1
  /\ Retry(w)
  /\ UNCHANGED <<processVars, sched, jobs, cached, lost, taken>>

Unavailable(w) ==
  /\ Busy(w) /\ ~Done("indexer") /\ Call(w) \in Batched
  /\ slowPath(w)
  /\ UNCHANGED <<processVars, sched, jobs, cached, lost, taken>>

-----------------------------------------------------------------------------
Init ==
  /\ main = "index" /\ registry = <<"cache", "meter", "trace", "root", "log">>
  /\ exiting = FALSE /\ run = [r \in Runners |-> None]
  /\ cancelled = {} /\ closed = {} /\ users = {} /\ ended = None /\ owed = <<>>
  /\ sched = [pc |-> "off", start |-> 0, height |-> 0, top |-> 0]
  /\ jobs = <<>>
  /\ worker = [w \in Workers |-> [pc |-> "off", height |-> 0, call |-> 1, slow |-> FALSE]]
  /\ cached = {} /\ lost = {} /\ taken = <<>> /\ fetched = {}

Running == ended = None

Main      == Boot \/ StartWorkers \/ MainReturns
Scheduler == (\E top \in Heights : Ask(top)) \/ SchedulerReturns \/ Send
Work(w)   == Take(w) \/ WorkerReturns(w) \/ Hit(w) \/ Answer(w)
               \/ RateLimited(w) \/ Fail(w) \/ Unavailable(w)

Next ==
  /\ Running
  /\ \/ Exit \/ Signal
     \/ \E r \in Runners : Handle(r) \/ HandlePanics(r) \/ OSExit(r)
     \/ UseAfterClose \/ \E g \in users : UserReturns(g)
     \/ Main \/ ServeHTTP
     \/ Scheduler
     \/ \E w \in Workers : Work(w)

(* Goroutines that can run do.  Each call, when it is made again and again,*)
(* is answered, and some server that is asked for its height is up to date.*)
Fairness ==
  /\ \A r \in Runners : WF_vars(Running /\ (Handle(r) \/ HandlePanics(r) \/ OSExit(r)))
  /\ WF_vars(Running /\ Main)
  /\ WF_vars(Running /\ Scheduler)
  /\ SF_vars(Running /\ Ask(MaxHeight))
  /\ \A w \in Workers :
       /\ WF_vars(Running /\ Work(w))
       /\ \A n \in 1..4 : SF_vars(Running /\ worker[w].call = n /\ Answer(w))

Spec == Init /\ [][Next]_vars /\ Fairness

-----------------------------------------------------------------------------
(* Properties.                                                             *)

(* CleanShutdown: however an exit begins, during the start or later, once  *)
(* or twice at the same time, the process ends only after every database   *)
(* whose handler was registered by then has been closed, although main     *)
(* returns by itself when the root context is cancelled, unless a panic    *)
(* cuts the exit short; the indexer is told to stop before the index and   *)
(* the cache go away, and the follower before its database does.           *)
CleanShutdown ==
  /\ ended \in {0, 1} => Range(owed) \cap Closers \subseteq closed
  /\ closed \cap {"cache", "index"} # {} /\ "indexer" \in Range(owed) => "indexer" \in cancelled
  /\ "consensus" \in closed /\ "follower" \in Range(owed) => "follower" \in cancelled

(* EachHeightOnce: no height is prefetched twice, skipped or put before an *)
(* earlier one, however far the servers that are asked lag behind.         *)
EachHeightOnce ==
  LET heights == taken \o jobs IN \A n \in DOMAIN heights : heights[n] = n

(* What processBlock and the live loop ask of the Access API for a height: *)
(* "system" stands for the transactions of the system collection and, on   *)
(* the slow path, for all of its results but the first.                    *)
Asked(slow) ==
  {"block", "execution"} \cup
    IF slow THEN {"collections", "system"} ELSE {"transactions", "results"}

(* PrefetchComplete: when a worker is done with a height, the cache has all*)
(* that the indexer asks on that path up to the system collection, but for *)
(* answers that could not be stored: no call is left out when another one  *)
(* failed, was rate limited or sent the attempt to the slow path.          *)
PrefetchComplete ==
  \A f \in fetched : "cache" \notin closed =>
    \A c \in Asked(f.slow) \ {"system"} : <<f.height, c>> \in cached \cup lost

(* Terminates: an exit ends the process, also when a handler fails and asks*)
(* for an exit itself, and when a goroutine is stuck: the scheduler sends  *)
(* into a channel whose readers are gone.                                  *)
Terminates == exiting ~> ~Running

(* Prefetched: the calls for every finalized block get made and answered,  *)
(* unless the process is told to exit.                                     *)
Prefetched ==
  \A h \in Heights :
    <>(exiting \/ \E f \in fetched : f.height = h)

-----------------------------------------------------------------------------
(* What makes CleanShutdown, EachHeightOnce and PrefetchComplete inductive.*)

(* The handlers in the order in which they run, but for that of the HTTP   *)
(* server, which comes first whenever it was registered.                   *)
Handlers == <<"follower", "consensus", "indexer", "index", "cache",
              "meter", "trace", "root", "log">>
From(k)  == SubSeq(Handlers, k, 9)
Lists(k) == {From(k), <<"http">> \o From(k)}

(* What is registered, by the next step of main.                           *)
RegistryInv ==
  \/ main = "index" /\ registry = From(5)
  \/ main = "indexer" /\ registry = From(4)
  \/ main \in {"workers", "consensus"} /\ registry = From(3)
  \/ main = "follower" /\ registry = From(2)
  \/ main = "wait" /\ registry \in Lists(1) \cup Lists(3)
  \/ main = "exit" /\ registry \in {From(2), From(3), From(4), From(5)}

(* Before an exit begins nothing is stopped.  From then on each run of the *)
(* handlers has those before it that are owed and are not done.            *)
ExitInv ==
  /\ cancelled \subseteq Cancels /\ closed \subseteq Closers
  /\ DOMAIN run = Runners
  /\ \A r \in Runners : run[r] # None =>
       \E k \in 1..10 :
         /\ run[r] \in Lists(k)
         /\ \A h \in Range(owed) \cap (Closers \cup {"indexer", "follower"}) :
              h \in Range(From(k)) \cup cancelled \cup closed
  /\ exiting => Range(owed) \subseteq Range(registry)
  /\ ~exiting => /\ cancelled = {} /\ closed = {} /\ ended = None
                 /\ \A r \in Runners : run[r] = None
  /\ "root" \in cancelled => Range(owed) \cap Closers \subseteq closed
  /\ CleanShutdown

(* The heights that workers have taken, those in the channel and the one   *)
(* that is sent next follow each other.                                    *)
QueueInv ==
  /\ sched \in [pc : {"off", "ask", "send", "gone"}, start : Nat, height : Nat, top : Nat]
  /\ taken \in Seq(Nat) /\ jobs \in Seq(Nat)
  /\ \A n \in 1..Len(taken) : taken[n] = n
  /\ \A n \in 1..Len(jobs) : jobs[n] = Len(taken) + n
  /\ sched.pc \in {"off", "ask"} => sched.start = Len(taken) + Len(jobs)
  /\ sched.pc = "send" => /\ sched.height = Len(taken) + Len(jobs) + 1
                          /\ sched.height <= sched.top
  /\ main \in {"index", "indexer", "workers"} => sched.pc = "off"

(* What an attempt has got through was stored, or was tried to be.         *)
CacheInv ==
  /\ worker \in [Workers -> [pc : {"off", "idle", "busy", "gone"}, height : Nat,
                              call : 1..4, slow : BOOLEAN]]
  /\ \A w \in Workers : Busy(w) =>
       /\ worker[w].call <= Len(Calls(worker[w].slow))
       /\ "cache" \notin closed =>
            \A k \in 1..(worker[w].call - 1) :
              <<worker[w].height, Calls(worker[w].slow)[k]>> \in cached \cup lost
  /\ PrefetchComplete

=============================================================================
