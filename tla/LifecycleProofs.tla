-------------------------- MODULE LifecycleProofs --------------------------
(***************************************************************************)
(* Proofs about the life of the server process, for every number of        *)
(* prefetch workers and every chain length.                                *)
(***************************************************************************)
EXTENDS Lifecycle, SequenceTheorems, TLAPS

-----------------------------------------------------------------------------
(* The scheduler and the channel of heights.                               *)

LEMMA InitQueue == Init => QueueInv
<1> SUFFICES ASSUME Init PROVE QueueInv
  OBVIOUS
<1>1. Len(<<>>) = 0 /\ <<>> \in Seq(Nat) /\ 1..0 = {}
  OBVIOUS
<1> QED BY <1>1 DEF Init, QueueInv

(* Before the scheduler is started.                                        *)
Early == {"index", "indexer", "workers"}

(* Steps that leave the channel alone, and start the scheduler at most.    *)
LEMMA QuietQueue ==
  ASSUME QueueInv, UNCHANGED <<jobs, taken>>,
         \/ UNCHANGED sched /\ (main' \in Early => main \in Early)
         \/ StartWorkers
  PROVE  QueueInv'
<1> USE DEF Early
<1>1. CASE UNCHANGED sched /\ (main' \in Early => main \in Early)
  BY <1>1 DEF QueueInv
<1>2. CASE StartWorkers
  <2>1. /\ main = "workers" /\ main' \in {"consensus", "wait"}
        /\ sched' \in {sched, [sched EXCEPT !.pc = "ask"]}
    BY <1>2 DEF StartWorkers
  <2> QED BY <2>1 DEF QueueInv
<1> QED BY <1>1, <1>2

LEMMA SendStep ==
  ASSUME QueueInv, Send
  PROVE  QueueInv'
<1>1. /\ sched.pc = "send" /\ jobs' = Append(jobs, sched.height)
      /\ sched' = IF sched.height = sched.top
                    THEN [sched EXCEPT !.pc = "ask", !.start = sched.top]
                    ELSE [sched EXCEPT !.height = @ + 1]
      /\ UNCHANGED <<taken, main>>
  BY DEF Send, restart, processVars
<1>2. /\ sched.height = Len(taken) + Len(jobs) + 1 /\ sched.height <= sched.top
      /\ sched.height \in Nat /\ sched.top \in Nat
      /\ Len(taken) \in Nat /\ Len(jobs) \in Nat
      /\ taken \in Seq(Nat) /\ jobs \in Seq(Nat)
  BY <1>1 DEF QueueInv
<1>3. /\ jobs' \in Seq(Nat) /\ Len(jobs') = Len(jobs) + 1
      /\ \A n \in 1..Len(jobs) : jobs'[n] = jobs[n]
      /\ jobs'[Len(jobs) + 1] = sched.height
  BY <1>1, <1>2
<1>4. \A n \in 1..Len(jobs') : jobs'[n] = Len(taken) + n
  <2> TAKE n \in 1..Len(jobs')
  <2>1. n \in 1..Len(jobs) \/ n = Len(jobs) + 1
    BY <1>2, <1>3
  <2>2. CASE n \in 1..Len(jobs)
    <3>1. jobs[n] = Len(taken) + n
      BY <2>2 DEF QueueInv
    <3> QED BY <1>3, <2>2, <3>1
  <2>3. CASE n = Len(jobs) + 1
    BY <1>2, <1>3, <2>3
  <2> QED BY <2>1, <2>2, <2>3
<1>5. sched' \in [pc : {"off", "ask", "send", "gone"}, start : Nat, height : Nat, top : Nat]
  <2>1. sched \in [pc : {"off", "ask", "send", "gone"}, start : Nat, height : Nat, top : Nat]
    BY DEF QueueInv
  <2>2. CASE sched.height = sched.top
    BY <1>1, <1>2, <2>1, <2>2
  <2>3. CASE sched.height # sched.top
    <3>1. sched' = [sched EXCEPT !.height = sched.height + 1]
      BY <1>1, <2>3
    <3>2. sched.height + 1 \in Nat
      BY <1>2
    <3> QED BY <2>1, <3>1, <3>2
  <2> QED BY <2>2, <2>3
<1>6. /\ sched'.pc \in {"off", "ask"} => sched'.start = Len(taken) + Len(jobs')
      /\ sched'.pc = "send" => /\ sched'.height = Len(taken) + Len(jobs') + 1
                               /\ sched'.height <= sched'.top
  <2>1. CASE sched.height = sched.top
    <3>1. sched'.pc = "ask" /\ sched'.start = sched.top
      BY <1>1, <2>1 DEF QueueInv
    <3> QED BY <1>2, <1>3, <2>1, <3>1
  <2>2. CASE sched.height # sched.top
    <3>1. sched'.pc = "send" /\ sched'.height = sched.height + 1 /\ sched'.top = sched.top
      BY <1>1, <2>2 DEF QueueInv
    <3> QED BY <1>2, <1>3, <2>2, <3>1
  <2> QED BY <2>1, <2>2
<1> QED BY <1>1, <1>2, <1>3, <1>4, <1>5, <1>6 DEF QueueInv

LEMMA TakeStep ==
  ASSUME QueueInv, NEW w \in Workers, Take(w)
  PROVE  QueueInv'
<1>1. /\ jobs # <<>> /\ jobs' = Tail(jobs) /\ taken' = Append(taken, Head(jobs))
      /\ UNCHANGED <<sched, main>>
      /\ taken \in Seq(Nat) /\ jobs \in Seq(Nat)
      /\ Len(taken) \in Nat /\ Len(jobs) \in Nat
  BY DEF Take, QueueInv, processVars
<1>2. /\ jobs' \in Seq(Nat) /\ Len(jobs') = Len(jobs) - 1 /\ Len(jobs) > 0
      /\ \A n \in 1..Len(jobs') : n + 1 \in 1..Len(jobs) /\ jobs'[n] = jobs[n + 1]
      /\ Head(jobs) = jobs[1] /\ Head(jobs) \in Nat
  BY <1>1
<1>3. /\ taken' \in Seq(Nat) /\ Len(taken') = Len(taken) + 1
      /\ \A n \in 1..Len(taken) : taken'[n] = taken[n]
      /\ taken'[Len(taken) + 1] = Head(jobs)
  BY <1>1, <1>2
<1>4. Head(jobs) = Len(taken) + 1
  BY <1>1, <1>2 DEF QueueInv
<1>5. \A n \in 1..Len(taken') : taken'[n] = n
  <2> TAKE n \in 1..Len(taken')
  <2>1. n \in 1..Len(taken) \/ n = Len(taken) + 1
    BY <1>1, <1>3
  <2> QED BY <1>1, <1>3, <1>4, <2>1 DEF QueueInv
<1>6. \A n \in 1..Len(jobs') : jobs'[n] = Len(taken') + n
  BY <1>1, <1>2, <1>3 DEF QueueInv
<1>7. Len(taken') + Len(jobs') = Len(taken) + Len(jobs)
  BY <1>1, <1>2, <1>3
<1> QED BY <1>1, <1>2, <1>3, <1>5, <1>6, <1>7 DEF QueueInv

LEMMA NextQueue ==
  ASSUME QueueInv, [Next]_vars
  PROVE  QueueInv'
<1> USE DEF processVars, prefetchVars
<1>1. CASE Exit
  BY <1>1, QuietQueue DEF Exit, Early
<1>2. CASE Signal \/ (\E r \in Runners : Handle(r) \/ HandlePanics(r) \/ OSExit(r))
  BY <1>2, QuietQueue DEF Signal, Handle, HandlePanics, OSExit, Ends
<1>3. CASE Boot \/ StartWorkers
  BY <1>3, QuietQueue DEF Boot, StartWorkers, Following, Early
<1>9. CASE MainReturns \/ ServeHTTP \/ UseAfterClose \/ \E g \in users : UserReturns(g)
  BY <1>9, QuietQueue DEF MainReturns, ServeHTTP, UseAfterClose, UserReturns, Ends
<1>4. CASE \E top \in Heights : Ask(top)
  <2>1. PICK top \in Heights :
          /\ sched.pc = "ask" /\ top > sched.start /\ UNCHANGED <<jobs, taken, main>>
          /\ sched' = [sched EXCEPT !.pc = "send", !.height = sched.start + 1, !.top = top]
    BY <1>4 DEF Ask
  <2>2. sched \in [pc : {"off", "ask", "send", "gone"}, start : Nat, height : Nat, top : Nat]
    BY DEF QueueInv
  <2>3. /\ sched' \in [pc : {"off", "ask", "send", "gone"}, start : Nat, height : Nat, top : Nat]
        /\ sched'.pc = "send" /\ sched'.height = sched.start + 1 /\ sched'.height <= sched'.top
    <3>1. top \in Nat
      BY DEF Heights
    <3>2. sched.start + 1 \in Nat /\ sched.start + 1 <= top
      BY <2>1, <2>2, <3>1
    <3> HIDE DEF Heights
    <3>3. sched' \in [pc : {"off", "ask", "send", "gone"}, start : Nat, height : Nat, top : Nat]
      BY <2>1, <2>2, <3>1, <3>2
    <3>4. sched'.pc = "send" /\ sched'.height = sched.start + 1 /\ sched'.top = top
      BY <2>1, <2>2
    <3> QED BY <3>2, <3>3, <3>4
  <2> QED BY <2>1, <2>3 DEF QueueInv
<1>5. CASE SchedulerReturns
  BY <1>5 DEF SchedulerReturns, QueueInv
<1>6. CASE Send
  BY <1>6, SendStep
<1>7. ASSUME NEW w \in Workers, Work(w)
      PROVE  QueueInv'
  <2>1. CASE Take(w)
    BY <2>1, TakeStep
  <2>2. CASE ~Take(w)
    BY <1>7, <2>2, QuietQueue DEF Work, WorkerReturns, Hit, Answer, RateLimited, Fail, Unavailable
  <2> QED BY <2>1, <2>2
<1>8. CASE UNCHANGED vars
  BY <1>8, QuietQueue DEF vars
<1> QED BY <1>1, <1>2, <1>3, <1>4, <1>5, <1>6, <1>7, <1>8, <1>9 DEF Next, Main, Scheduler

(* Every height goes through the channel once and in order, however often  *)
(* the scheduler starts over, however far the servers it asks lag behind   *)
(* and however many workers take from the channel.                         *)
THEOREM HeightsInOrder == Spec => []EachHeightOnce
<1>1. Init => QueueInv
  BY InitQueue
<1>2. QueueInv /\ [Next]_vars => QueueInv'
  BY NextQueue
<1>3. QueueInv => EachHeightOnce
  <2> SUFFICES ASSUME QueueInv, NEW n \in DOMAIN (taken \o jobs)
               PROVE  (taken \o jobs)[n] = n
    BY DEF EachHeightOnce
  <2>1. taken \in Seq(Nat) /\ jobs \in Seq(Nat)
    BY DEF QueueInv
  <2>2. /\ n \in 1..(Len(taken) + Len(jobs)) /\ Len(taken) \in Nat /\ Len(jobs) \in Nat
        /\ (taken \o jobs)[n] = IF n <= Len(taken) THEN taken[n] ELSE jobs[n - Len(taken)]
    BY <2>1
  <2>3. CASE n <= Len(taken)
    BY <2>2, <2>3 DEF QueueInv
  <2>4. CASE ~(n <= Len(taken))
    <3>1. n - Len(taken) \in 1..Len(jobs)
      BY <2>2, <2>4
    <3> QED BY <2>2, <2>4, <3>1 DEF QueueInv
  <2> QED BY <2>3, <2>4
<1> QED BY <1>1, <1>2, <1>3, PTL DEF Spec

-----------------------------------------------------------------------------
(* The workers and the cache.                                              *)

(* The calls of the two paths.                                             *)
LEMMA CallsOfPath ==
  ASSUME NEW slow \in BOOLEAN
  PROVE  /\ Len(Calls(slow)) \in {3, 4} /\ Calls(slow)[1] = "block"
         /\ \A c \in Asked(slow) \ {"system"} :
              \E k \in 1..Len(Calls(slow)) : Calls(slow)[k] = c
<1>1. Len(Fast) = 4 /\ Len(Slow) = 3 /\ Fast[1] = "block" /\ Slow[1] = "block"
  BY DEF Fast, Slow
<1>2. /\ Fast[2] = "transactions" /\ Fast[3] = "results" /\ Fast[4] = "execution"
      /\ Slow[2] = "collections" /\ Slow[3] = "execution"
  BY DEF Fast, Slow
<1> HIDE DEF Fast, Slow
<1>3. CASE slow
  <2>1. Asked(slow) \ {"system"} = {Slow[1], Slow[2], Slow[3]} /\ Calls(slow) = Slow
    BY <1>1, <1>2, <1>3 DEF Asked, Calls
  <2>2. 1 \in 1..3 /\ 2 \in 1..3 /\ 3 \in 1..3
    OBVIOUS
  <2> QED BY <1>1, <2>1, <2>2
<1>4. CASE ~slow
  <2>1. Asked(slow) \ {"system"} = {Fast[1], Fast[2], Fast[3], Fast[4]} /\ Calls(slow) = Fast
    BY <1>1, <1>2, <1>4 DEF Asked, Calls
  <2>2. 1 \in 1..4 /\ 2 \in 1..4 /\ 3 \in 1..4 /\ 4 \in 1..4
    OBVIOUS
  <2> QED BY <1>1, <2>1, <2>2
<1> QED BY <1>3, <1>4

(* What a worker has got through.                                          *)
WorkerState ==
  [pc : {"off", "idle", "busy", "gone"}, height : Nat, call : 1..4, slow : BOOLEAN]

Tried == cached \cup lost

Through(s, n, tried) ==
  \A k \in 1..n : <<s.height, Calls(s.slow)[k]>> \in tried

LEMMA InitCache == Init => CacheInv
  BY DEF Init, CacheInv, Busy, PrefetchComplete

(* Steps that leave workers and cache alone, or take workers from their job*)
(* or let them start.                                                      *)
LEMMA QuietCache ==
  ASSUME CacheInv, UNCHANGED <<cached, lost, fetched>>, closed \subseteq closed',
         \/ UNCHANGED worker
         \/ worker' = [w \in Workers |-> [worker[w] EXCEPT !.pc = "idle"]]
         \/ \E w \in Workers : worker' = [worker EXCEPT ![w].pc = "gone"]
  PROVE  CacheInv'
<1>1. worker \in [Workers -> WorkerState]
  BY DEF CacheInv, WorkerState
<1>2. worker' \in [Workers -> WorkerState] /\ \A w \in Workers : worker'[w] = worker[w] \/ worker'[w].pc # "busy"
  <2>1. CASE UNCHANGED worker
    BY <1>1, <2>1
  <2>2. CASE worker' = [w \in Workers |-> [worker[w] EXCEPT !.pc = "idle"]]
    BY <1>1, <2>2 DEF WorkerState
  <2>3. CASE \E w \in Workers : worker' = [worker EXCEPT ![w].pc = "gone"]
    BY <1>1, <2>3 DEF WorkerState
  <2> QED BY <2>1, <2>2, <2>3
<1> QED BY <1>2 DEF CacheInv, WorkerState, Busy, PrefetchComplete

(* A worker goes on with its job: what it has got through is stored.       *)
LEMMA OnJob ==
  ASSUME CacheInv, NEW w \in Workers, NEW s \in WorkerState,
         worker' = [worker EXCEPT ![w] = s],
         Tried \subseteq Tried', UNCHANGED <<closed, fetched>>,
         s.pc = "busy" => s.call <= Len(Calls(s.slow)),
         s.pc = "busy" /\ "cache" \notin closed => Through(s, s.call - 1, Tried')
  PROVE  CacheInv'
<1>1. worker \in [Workers -> WorkerState]
  BY DEF CacheInv, WorkerState
<1>2. worker' \in [Workers -> WorkerState]
  BY <1>1
<1>3. \A v \in Workers : worker'[v] = IF v = w THEN s ELSE worker[v]
  BY <1>1
<1>4. PrefetchComplete'
  BY DEF CacheInv, PrefetchComplete, Tried
<1> HIDE DEF WorkerState
<1>5. ASSUME NEW v \in Workers, worker'[v].pc = "busy"
      PROVE  /\ worker'[v].call <= Len(Calls(worker'[v].slow))
             /\ "cache" \notin closed =>
                  \A k \in 1..(worker'[v].call - 1) :
                    <<worker'[v].height, Calls(worker'[v].slow)[k]>> \in Tried'
  <2>1. CASE v = w
    BY <1>3, <1>5, <2>1 DEF Through
  <2>2. CASE v # w
    BY <1>3, <1>5, <2>2 DEF CacheInv, Busy, Tried
  <2> QED BY <2>1, <2>2
<1> QED BY <1>2, <1>4, <1>5 DEF CacheInv, Busy, WorkerState, Tried

(* The current call is stored: the worker advances.                        *)
LEMMA AdvanceStep ==
  ASSUME CacheInv, NEW w \in Workers, Busy(w), Advance(w),
         Tried \subseteq Tried', UNCHANGED closed,
         "cache" \notin closed => <<worker[w].height, Call(w)>> \in Tried'
  PROVE  CacheInv'
<1> DEFINE s == worker[w]
           n == Len(Calls(s.slow))
<1>1. /\ worker \in [Workers -> WorkerState] /\ s \in WorkerState /\ s.pc = "busy"
      /\ s.call \in 1..4 /\ s.call <= n /\ s.height \in Nat /\ s.slow \in BOOLEAN
      /\ n \in {3, 4}
  BY CallsOfPath DEF CacheInv, WorkerState, Busy
<1>2. "cache" \notin closed => Through(s, s.call, Tried')
  <2> SUFFICES ASSUME "cache" \notin closed, NEW k \in 1..s.call
               PROVE  <<s.height, Calls(s.slow)[k]>> \in Tried'
    BY DEF Through
  <2>1. k = s.call \/ k \in 1..(s.call - 1)
    BY <1>1
  <2>2. CASE k = s.call
    BY <2>2 DEF Call
  <2>3. CASE k \in 1..(s.call - 1)
    BY <2>3 DEF CacheInv, Tried
  <2> QED BY <2>1, <2>2, <2>3
<1>3. CASE s.call < n
  <2> DEFINE t == [s EXCEPT !.call = s.call + 1]
  <2>1. worker' = [worker EXCEPT ![w] = t] /\ UNCHANGED fetched
    BY <1>1, <1>3 DEF Advance
  <2>2. /\ t \in WorkerState /\ t.pc = "busy" /\ t.call = s.call + 1
        /\ t.height = s.height /\ t.slow = s.slow
    <3> HIDE DEF s, n
    <3>1. s.call + 1 \in 1..4
      BY <1>1, <1>3
    <3> QED BY <1>1, <3>1 DEF WorkerState
  <2>3. t.call <= Len(Calls(t.slow)) /\ t.call - 1 = s.call
    BY <1>1, <1>3, <2>2
  <2>4. "cache" \notin closed => Through(t, t.call - 1, Tried')
    BY <1>2, <2>2, <2>3 DEF Through
  <2> HIDE DEF t
  <2> QED BY <2>1, <2>2, <2>3, <2>4, OnJob
<1>4. CASE ~(s.call < n)
  <2> DEFINE t == [pc |-> "idle", height |-> 0, call |-> 1, slow |-> FALSE]
             f == [height |-> s.height, slow |-> s.slow]
  <2>1. worker' = [worker EXCEPT ![w] = t] /\ fetched' = fetched \cup {f} /\ s.call = n
    BY <1>1, <1>4 DEF Advance
  <2>2. t \in WorkerState /\ t.pc # "busy"
    BY DEF WorkerState
  <2>3. "cache" \notin closed => \A c \in Asked(s.slow) \ {"system"} : <<s.height, c>> \in Tried'
    BY <1>1, <1>2, <2>1, CallsOfPath DEF Through
  <2>4. PrefetchComplete'
    <3> SUFFICES ASSUME NEW g \in fetched', "cache" \notin closed'
                 PROVE  \A c \in Asked(g.slow) \ {"system"} : <<g.height, c>> \in Tried'
      BY DEF PrefetchComplete, Tried
    <3>1. CASE g = f
      BY <2>3, <3>1
    <3>2. CASE g \in fetched
      BY <3>2 DEF CacheInv, PrefetchComplete, Tried
    <3> QED BY <2>1, <3>1, <3>2
  <2>5. \A v \in Workers : worker'[v] = IF v = w THEN t ELSE worker[v]
    BY <1>1, <2>1
  <2> HIDE DEF t
  <2>6. worker' \in [Workers -> WorkerState]
    BY <1>1, <2>1, <2>2
  <2> QED BY <2>2, <2>4, <2>5, <2>6 DEF CacheInv, Busy, WorkerState, Tried
<1> QED BY <1>3, <1>4

LEMMA WorkStep ==
  ASSUME QueueInv, CacheInv, NEW w \in Workers, Work(w)
  PROVE  CacheInv'
<1> DEFINE s == worker[w]
<1> USE DEF processVars
<1>1. worker \in [Workers -> WorkerState] /\ s \in WorkerState /\ s = worker[w]
  BY DEF CacheInv, WorkerState
<1>2. Busy(w) => s.pc = "busy" /\ s.call <= Len(Calls(s.slow))
  BY DEF CacheInv, Busy
<1>3. CASE Take(w)
  <2> DEFINE t == [pc |-> "busy", height |-> Head(jobs), call |-> 1, slow |-> FALSE]
  <2>1. worker' = [worker EXCEPT ![w] = t] /\ UNCHANGED <<closed, fetched>> /\ Tried' = Tried
    BY <1>3 DEF Take, Tried
  <2>2. Head(jobs) \in Nat
    BY <1>3 DEF Take, QueueInv
  <2>3. t \in WorkerState /\ t.call = 1 /\ t.slow \in BOOLEAN
    BY <2>2 DEF WorkerState
  <2> HIDE DEF t
  <2>4. t.call <= Len(Calls(t.slow)) /\ Through(t, t.call - 1, Tried')
    BY <2>3, CallsOfPath DEF Through
  <2> QED BY <2>1, <2>3, <2>4, OnJob
<1>4. CASE WorkerReturns(w)
  BY <1>4, QuietCache DEF WorkerReturns
<1>5. CASE Hit(w)
  BY <1>5, AdvanceStep DEF Hit, IsCached, Tried
<1>6. CASE Answer(w)
  BY <1>6, AdvanceStep DEF Answer, store, storeFails, Tried
<1>7. CASE RateLimited(w) \/ Fail(w)
  <2> DEFINE t == [s EXCEPT !.call = 1]
  <2>1. /\ worker' = [worker EXCEPT ![w] = t] /\ UNCHANGED <<closed, fetched>>
        /\ Tried \subseteq Tried' /\ Busy(w)
    BY <1>1, <1>7 DEF RateLimited, Fail, Retry, store, Tried
  <2> HIDE DEF s
  <2>2. t \in WorkerState /\ t.call = 1 /\ t.slow \in BOOLEAN
    BY <1>1 DEF WorkerState
  <2> HIDE DEF t
  <2>3. t.call <= Len(Calls(t.slow)) /\ Through(t, t.call - 1, Tried')
    BY <2>2, CallsOfPath DEF Through
  <2> QED BY <2>1, <2>2, <2>3, OnJob
<1>8. CASE Unavailable(w)
  <2> DEFINE t == [pc |-> "busy", height |-> s.height, call |-> 2, slow |-> TRUE]
  <2>1. /\ worker' = [worker EXCEPT ![w] = t] /\ UNCHANGED <<closed, fetched>>
        /\ Tried' = Tried /\ Busy(w) /\ Call(w) \in Batched
    BY <1>1, <1>8 DEF Unavailable, slowPath, Tried
  <2>2. s.call > 1 /\ s.slow \in BOOLEAN /\ s.call \in 1..4
    <3>1. s.call \in 1..4 /\ s.slow \in BOOLEAN
      BY <1>1 DEF WorkerState
    <3>2. s.call # 1
      BY <2>1, <3>1, CallsOfPath DEF Call, Batched
    <3> QED BY <3>1, <3>2
  <2>3. "cache" \notin closed => <<s.height, "block">> \in Tried
    <3>1. 1 \in 1..(s.call - 1) /\ Calls(s.slow)[1] = "block"
      BY <2>2, CallsOfPath
    <3> QED BY <2>1, <3>1 DEF CacheInv, Tried
  <2> HIDE DEF s
  <2>4. t \in WorkerState /\ t.call = 2 /\ t.height = s.height /\ t.slow \in BOOLEAN
    BY <1>1 DEF WorkerState
  <2> HIDE DEF t
  <2>5. t.call <= Len(Calls(t.slow))
    <3>1. Len(Calls(t.slow)) \in {3, 4}
      BY <2>4, CallsOfPath
    <3>2. \A n \in {3, 4} : 2 <= n
      OBVIOUS
    <3> QED BY <2>4, <3>1, <3>2
  <2>6. "cache" \notin closed => Through(t, t.call - 1, Tried')
    BY <2>1, <2>3, <2>4, CallsOfPath DEF Through
  <2> QED BY <2>1, <2>4, <2>5, <2>6, OnJob
<1> QED BY <1>3, <1>4, <1>5, <1>6, <1>7, <1>8 DEF Work

LEMMA NextCache ==
  ASSUME QueueInv, CacheInv, [Next]_vars
  PROVE  CacheInv'
<1> USE DEF processVars, prefetchVars
<1>1. CASE Exit \/ Signal \/ Boot \/ ServeHTTP \/ UNCHANGED vars
  BY <1>1, QuietCache DEF Exit, Signal, Boot, ServeHTTP, vars
<1>5. CASE \E r \in Runners : Handle(r) \/ HandlePanics(r) \/ OSExit(r)
  BY <1>5, QuietCache DEF Handle, HandlePanics, OSExit, Ends
<1>6. CASE MainReturns \/ UseAfterClose \/ \E g \in users : UserReturns(g)
  BY <1>6, QuietCache DEF MainReturns, UseAfterClose, UserReturns, Ends
<1>2. CASE StartWorkers
  BY <1>2, QuietCache DEF StartWorkers
<1>3. CASE Scheduler
  BY <1>3, QuietCache DEF Scheduler, Ask, SchedulerReturns, Send
<1>4. CASE \E w \in Workers : Work(w)
  BY <1>4, WorkStep
<1> QED BY <1>1, <1>2, <1>3, <1>4, <1>5, <1>6 DEF Next, Main

(* A worker that is done with a height has made every call that the indexer*)
(* makes on that path up to the system collection, whichever calls failed, *)
(* were limited or were not available on the way, and each answer is in the*)
(* cache or could not be stored, until the cache is closed.                *)
THEOREM PrefetchIsComplete == Spec => []PrefetchComplete
<1>1. Init => QueueInv /\ CacheInv
  BY InitQueue, InitCache
<1>2. QueueInv /\ CacheInv /\ [Next]_vars => (QueueInv /\ CacheInv)'
  BY NextQueue, NextCache
<1>3. CacheInv => PrefetchComplete
  BY DEF CacheInv
<1> QED BY <1>1, <1>2, <1>3, PTL DEF Spec

-----------------------------------------------------------------------------
(* The exit handlers.                                                      *)

LEMMA RangeOfPrepended ==
  ASSUME NEW S, NEW x \in S, NEW s \in Seq(S)
  PROVE  Range(<<x>> \o s) = {x} \cup Range(s)
<1> DEFINE t == <<x>> \o s
           n == Len(s)
<1>1. /\ n \in Nat /\ DOMAIN s = 1..n /\ DOMAIN t = 1..(n + 1) /\ t[1] = x
      /\ \A i \in 1..(n + 1) : t[i] = IF i = 1 THEN x ELSE s[i - 1]
  OBVIOUS
<1> HIDE DEF t, n
<1>2. ASSUME NEW i \in 1..n
      PROVE  i + 1 \in DOMAIN t /\ t[i + 1] = s[i]
  BY <1>1
<1>3. ASSUME NEW i \in DOMAIN t, i # 1
      PROVE  i - 1 \in DOMAIN s /\ t[i] = s[i - 1]
  BY <1>1, <1>3
<1>4. Range(t) \subseteq {x} \cup Range(s)
  BY <1>1, <1>3 DEF Range
<1>5. {x} \cup Range(s) \subseteq Range(t)
  <2>1. 1 \in DOMAIN t
    BY <1>1
  <2> QED BY <1>1, <1>2, <2>1 DEF Range
<1> QED BY <1>4, <1>5 DEF t

(* The handlers from the k-th on.                                          *)
LEMMA FromElements ==
  ASSUME NEW k \in 1..10
  PROVE  /\ From(k) \in Seq({Handlers[i] : i \in 1..9}) /\ Len(From(k)) = 10 - k
         /\ \A i \in 1..(10 - k) : From(k)[i] = Handlers[k + i - 1]
<1> DEFINE Names == {Handlers[i] : i \in 1..9}
<1> HIDE DEF Handlers
<1>1. k \in Int /\ 9 \in Int /\ \A i \in k..9 : Handlers[i] \in Names
  OBVIOUS
<1>2. /\ From(k) \in Seq(Names)
      /\ Len(From(k)) = IF k <= 9 THEN 9 - k + 1 ELSE 0
      /\ \A i \in 1..(9 - k + 1) : From(k)[i] = Handlers[k + i - 1]
  <2> HIDE DEF Names
  <2> QED BY <1>1, SubSeqProperties DEF From
<1>3. 9 - k + 1 = 10 - k /\ (~(k <= 9) => k = 10)
  OBVIOUS
<1> QED BY <1>2, <1>3

LEMMA InFrom ==
  ASSUME NEW k \in 1..10
  PROVE  Range(From(k)) = {Handlers[i] : i \in k..9}
<1> HIDE DEF From, Handlers
<1> DEFINE f == From(k)
<1>1. DOMAIN f = 1..(10 - k) /\ \A i \in 1..(10 - k) : f[i] = Handlers[k + i - 1]
  <2>1. /\ f \in Seq({Handlers[i] : i \in 1..9}) /\ Len(f) = 10 - k
        /\ \A i \in 1..(10 - k) : f[i] = Handlers[k + i - 1]
    BY FromElements
  <2> HIDE DEF f
  <2>2. DOMAIN f = 1..Len(f)
    BY <2>1
  <2> QED BY <2>1, <2>2
<1> HIDE DEF f
<1>2. \A i \in 1..(10 - k) : k + i - 1 \in k..9
  OBVIOUS
<1>3. \A i \in k..9 : i - k + 1 \in 1..(10 - k) /\ k + (i - k + 1) - 1 = i
  OBVIOUS
<1>4. Range(f) \subseteq {Handlers[i] : i \in k..9}
  BY <1>1, <1>2 DEF Range
<1>5. ASSUME NEW i \in k..9
      PROVE  Handlers[i] \in Range(f)
  <2>1. f[i - k + 1] = Handlers[i]
    BY <1>1, <1>3
  <2> QED BY <1>1, <1>3, <2>1 DEF Range
<1> QED BY <1>4, <1>5 DEF f

LEMMA FromHandlers ==
  ASSUME NEW k \in 1..9
  PROVE  /\ From(k) # <<>> /\ Head(From(k)) = Handlers[k] /\ Tail(From(k)) = From(k + 1)
         /\ From(k) = <<Handlers[k]>> \o From(k + 1)
         /\ Range(From(k)) = {Handlers[k]} \cup Range(From(k + 1))
<1> DEFINE Names == {"follower", "consensus", "indexer", "index", "cache",
                     "meter", "trace", "root", "log"}
<1>1. Handlers \in Seq(Names) /\ Len(Handlers) = 9
  BY DEF Handlers
<1> HIDE DEF Handlers, Names
<1>2. k \in 1..Len(Handlers) /\ 9 \in k..Len(Handlers) /\ Handlers[k] \in Names
  <2>1. k \in 1..Len(Handlers) /\ 9 \in k..Len(Handlers)
    BY <1>1
  <2>2. Handlers[k] \in Names
    BY <1>1, <2>1, ElementOfSeq
  <2> QED BY <2>1, <2>2
<1>3. Head(From(k)) = Handlers[k] /\ Tail(From(k)) = From(k + 1)
  BY <1>1, <1>2, HeadTailOfSubSeq DEF From
<1>4. From(k) = <<Handlers[k]>> \o From(k + 1)
  BY <1>1, <1>2, SubSeqRecursiveFirst DEF From
<1>5. From(k + 1) \in Seq(Names)
  <2>1. k + 1 \in Int /\ 9 \in Int /\ \A i \in (k + 1)..9 : Handlers[i] \in Names
    <3>1. k + 1 \in Int /\ 9 \in Int
      OBVIOUS
    <3>2. ASSUME NEW i \in (k + 1)..9
          PROVE  Handlers[i] \in Names
      <4>1. i \in 1..Len(Handlers)
        BY <1>1
      <4> QED BY <1>1, <4>1, ElementOfSeq
    <3> QED BY <3>1, <3>2
  <2> QED BY <2>1, SubSeqProperties DEF From
<1> HIDE DEF From
<1>6. Range(From(k)) = {Handlers[k]} \cup Range(From(k + 1))
  BY <1>2, <1>4, <1>5, RangeOfPrepended
<1>7. From(k) # <<>>
  BY <1>2, <1>4, <1>5
<1> QED BY <1>3, <1>4, <1>6, <1>7

LEMMA HandlerNames ==
  /\ Handlers[1] = "follower" /\ Handlers[2] = "consensus" /\ Handlers[3] = "indexer"
  /\ Handlers[4] = "index" /\ Handlers[5] = "cache" /\ Handlers[6] = "meter"
  /\ Handlers[7] = "trace" /\ Handlers[8] = "root" /\ Handlers[9] = "log"
  BY DEF Handlers

LEMMA FromEnd == From(10) = <<>> /\ Range(From(10)) = {}
<1>1. From(10) = <<>>
  BY SubSeqEmpty DEF From
<1> QED BY <1>1 DEF Range

(* The lists of handlers, with that of the HTTP server or without.         *)
LEMMA InLists ==
  ASSUME NEW k \in 1..10, NEW list \in Lists(k)
  PROVE  /\ Range(From(k)) \subseteq Range(list)
         /\ Range(list) \subseteq Range(From(k)) \cup {"http"}
         /\ list = From(k) => "http" \notin Range(list)
         /\ list # From(k) => "http" \in Range(list) /\ Head(list) = "http" /\ Tail(list) = From(k)
<1> DEFINE Names == {Handlers[i] : i \in 1..9} \cup {"http"}
<1>1. From(k) \in Seq(Names)
  <2> HIDE DEF Handlers, From
  <2>1. From(k) \in Seq({Handlers[i] : i \in 1..9})
    BY FromElements
  <2> QED BY <2>1
<1>2. Range(<<"http">> \o From(k)) = {"http"} \cup Range(From(k))
  BY <1>1, RangeOfPrepended
<1>3. Head(<<"http">> \o From(k)) = "http" /\ Tail(<<"http">> \o From(k)) = From(k)
  <2> HIDE DEF From, Names
  <2> QED BY <1>1
<1>4. "http" \notin Range(From(k))
  <2>1. \A i \in 1..9 : Handlers[i] # "http"
    BY HandlerNames, \A i \in 1..9 : i \in {1, 2, 3, 4, 5, 6, 7, 8, 9}
  <2> HIDE DEF From, Handlers
  <2> QED BY <2>1, InFrom
<1> HIDE DEF From
<1> QED BY <1>2, <1>3, <1>4 DEF Lists

LEMMA InitExit == Init => RegistryInv /\ ExitInv
<1> SUFFICES ASSUME Init PROVE RegistryInv /\ ExitInv
  OBVIOUS
<1>1. registry = From(5)
  BY DEF Init, From, Handlers
<1>2. Range(<<>>) = {}
  BY DEF Range
<1> HIDE DEF From
<1>3. RegistryInv
  BY <1>1 DEF Init, RegistryInv
<1>4. ExitInv
  BY <1>2, LifecycleAssumption DEF Init, ExitInv, CleanShutdown, Closers
<1> QED BY <1>3, <1>4

(* A step of main, or of the HTTP server, registers the next handler.      *)
LEMMA NextRegistry ==
  ASSUME RegistryInv, [Next]_vars
  PROVE  RegistryInv' /\ Range(registry) \subseteq Range(registry')
<1> HIDE DEF From, Handlers
<1>0. ASSUME NEW k \in 1..4
      PROVE  /\ <<Handlers[k]>> \o From(k + 1) = From(k)
             /\ Range(From(k + 1)) \subseteq Range(From(k))
  <2>1. k \in 1..9
    OBVIOUS
  <2>2. /\ From(k) = <<Handlers[k]>> \o From(k + 1)
        /\ Range(From(k)) = {Handlers[k]} \cup Range(From(k + 1))
    BY <2>1, FromHandlers
  <2> QED BY <2>2
<1>1. /\ <<"index">> \o From(5) = From(4) /\ Range(From(5)) \subseteq Range(From(4))
      /\ <<"indexer">> \o From(4) = From(3) /\ Range(From(4)) \subseteq Range(From(3))
  BY <1>0, HandlerNames
<1>2. /\ <<"consensus">> \o From(3) = From(2) /\ Range(From(3)) \subseteq Range(From(2))
      /\ <<"follower">> \o From(2) = From(1) /\ Range(From(2)) \subseteq Range(From(1))
  BY <1>0, HandlerNames
<1> USE DEF processVars, RegistryInv
<1>3. CASE Exit
  BY <1>3 DEF Exit
<1>4. CASE Boot
  <2>1. CASE main = "index"
    BY <1>1, <1>4, <2>1 DEF Boot, Following, SetExitHandler
  <2>2. CASE main = "indexer"
    BY <1>1, <1>4, <2>2 DEF Boot, Following, SetExitHandler
  <2>3. CASE main = "consensus"
    BY <1>2, <1>4, <2>3 DEF Boot, Following, SetExitHandler
  <2>4. CASE main = "follower"
    BY <1>2, <1>4, <2>4 DEF Boot, Following, SetExitHandler, Lists
  <2> QED BY <1>4, <2>1, <2>2, <2>3, <2>4 DEF Boot, Following
<1>5. CASE ServeHTTP
  <2>1. PICK k \in {1, 3} : registry \in Lists(k)
    BY <1>5 DEF ServeHTTP
  <2>2. registry = From(k)
    BY <1>5, <2>1, InLists DEF ServeHTTP
  <2>3. registry' = <<"http">> \o From(k) /\ main' = "wait"
    BY <1>5, <2>2 DEF ServeHTTP, SetExitHandler
  <2>4. registry' \in Lists(k)
    BY <2>3 DEF Lists
  <2>5. Range(registry) \subseteq Range(registry')
    BY <2>2, <2>4, InLists
  <2> QED BY <2>3, <2>4, <2>5
<1>6. CASE StartWorkers
  BY <1>6 DEF StartWorkers, Lists
<1>7. CASE Signal \/ (\E r \in Runners : Handle(r) \/ HandlePanics(r) \/ OSExit(r))
  BY <1>7 DEF Signal, Handle, HandlePanics, OSExit, Ends
<1>8. CASE MainReturns \/ UseAfterClose \/ \E g \in users : UserReturns(g)
  BY <1>8 DEF MainReturns, UseAfterClose, UserReturns, Ends
<1>9. CASE Scheduler
  BY <1>9 DEF Scheduler, Ask, SchedulerReturns, Send
<1>10. CASE \E w \in Workers : Work(w)
  BY <1>10 DEF Work, Take, WorkerReturns, Hit, Answer, RateLimited, Fail, Unavailable
<1>11. CASE UNCHANGED vars
  BY <1>11 DEF vars
<1> QED BY <1>3, <1>4, <1>5, <1>6, <1>7, <1>8, <1>9, <1>10, <1>11 DEF Next, Main

(* The handlers that an exit must not leave out.                           *)
Due == Range(owed) \cap (Closers \cup {"indexer", "follower"})

(* An exit begins.                                                         *)
LEMMA BeginStep ==
  ASSUME RegistryInv, ExitInv, NEW r \in Runners, Begin(r),
         UNCHANGED <<registry, cancelled, closed, ended>>, ended = None
  PROVE  ExitInv'
<1> HIDE DEF From
<1>1. PICK k \in 1..10 : registry \in Lists(k)
  <2>1. \E k \in {1, 2, 3, 4, 5} : registry \in Lists(k)
    BY DEF RegistryInv, Lists
  <2> QED BY <2>1, {1, 2, 3, 4, 5} \subseteq 1..10
<1>2. /\ exiting' = TRUE /\ run' = [run EXCEPT ![r] = registry] /\ DOMAIN run = Runners
      /\ owed' = IF exiting THEN owed ELSE registry
  BY DEF Begin, ExitInv
<1>3. Range(owed') \subseteq Range(registry) /\ (exiting => owed' = owed)
  BY <1>2 DEF ExitInv
<1>4. Due' \subseteq Range(From(k))
  <2>1. Range(owed') \subseteq Range(From(k)) \cup {"http"}
    BY <1>1, <1>3, InLists
  <2> QED BY <2>1 DEF Due, Closers
<1>5. ASSUME NEW q \in Runners, run'[q] # None
      PROVE  \E j \in 1..10 :
               /\ run'[q] \in Lists(j)
               /\ \A h \in Due' : h \in Range(From(j)) \cup cancelled \cup closed
  <2>1. CASE q = r
    BY <1>1, <1>2, <1>4, <2>1
  <2>2. CASE q # r
    <3>1. run'[q] = run[q] /\ exiting
      BY <1>2, <1>5, <2>2 DEF ExitInv
    <3> QED BY <1>3, <1>5, <3>1 DEF ExitInv, Due
  <2> QED BY <2>1, <2>2
<1>6. DOMAIN run' = Runners
  BY <1>2
<1>7. /\ Range(owed') \subseteq Range(registry')
      /\ "root" \in cancelled => Range(owed') \cap Closers \subseteq closed
      /\ closed \cap {"cache", "index"} # {} /\ "indexer" \in Range(owed') => "indexer" \in cancelled
      /\ "consensus" \in closed /\ "follower" \in Range(owed') => "follower" \in cancelled
  <2>1. CASE exiting
    BY <1>3, <2>1 DEF ExitInv, CleanShutdown
  <2>2. CASE ~exiting
    BY <1>3, <2>2 DEF ExitInv
  <2> QED BY <2>1, <2>2
<1>8. CleanShutdown'
  BY <1>7, LifecycleAssumption DEF CleanShutdown
<1> QED BY <1>2, <1>5, <1>6, <1>7, <1>8 DEF ExitInv, Due

(* A handler runs.                                                         *)
LEMMA HandleStep ==
  ASSUME ExitInv, NEW r \in Runners, Handle(r)
  PROVE  ExitInv'
<1> HIDE DEF From, Handlers
<1>1. PICK k \in 1..10 :
        /\ run[r] \in Lists(k)
        /\ \A h \in Due : h \in Range(From(k)) \cup cancelled \cup closed
  BY DEF Handle, ExitInv, Due
<1> DEFINE handler == Head(run[r])
<1>2. /\ cancelled' = cancelled \cup ({handler} \cap Cancels)
      /\ closed' = closed \cup ({handler} \cap Closers)
      /\ run' = [run EXCEPT ![r] = Tail(run[r])]
      /\ UNCHANGED <<registry, exiting, ended, owed>>
  BY DEF Handle
<1>3. PICK j \in 1..10 :
        /\ Tail(run[r]) \in Lists(j)
        /\ \A h \in Due : h \in Range(From(j)) \cup {handler} \cup cancelled \cup closed
        /\ handler = "http" \/ (j \in 2..10 /\ handler = Handlers[j - 1])
  <2>1. CASE run[r] = From(k)
    <3>1. k \in 1..9
      BY <2>1, FromEnd DEF Handle
    <3>2. /\ Head(From(k)) = Handlers[k] /\ Tail(From(k)) = From(k + 1)
          /\ Range(From(k)) = {Handlers[k]} \cup Range(From(k + 1))
      BY <3>1, FromHandlers
    <3>3. k + 1 \in 2..10 /\ k + 1 \in 1..10 /\ (k + 1) - 1 = k
      BY <3>1
    <3>4. Tail(run[r]) \in Lists(k + 1) /\ handler = Handlers[k]
      BY <2>1, <3>2 DEF Lists
    <3>5. \A h \in Due : h \in Range(From(k + 1)) \cup {handler} \cup cancelled \cup closed
      BY <1>1, <3>2, <3>4
    <3> HIDE DEF handler
    <3> QED BY <3>3, <3>4, <3>5
  <2>2. CASE run[r] # From(k)
    <3>1. handler = "http" /\ Tail(run[r]) = From(k)
      BY <1>1, <2>2, InLists
    <3> HIDE DEF handler
    <3> QED BY <1>1, <3>1 DEF Lists
  <2> QED BY <2>1, <2>2
<1> HIDE DEF handler
<1>4. exiting /\ DOMAIN run = Runners
  BY DEF Handle, ExitInv
<1>5. /\ cancelled' \subseteq Cancels /\ closed' \subseteq Closers
      /\ cancelled \subseteq cancelled' /\ closed \subseteq closed'
  BY <1>2 DEF ExitInv
<1>6. \A h \in Due : h \in Range(From(j)) \cup cancelled' \cup closed'
  <2> SUFFICES ASSUME NEW h \in Due, h = handler
               PROVE  h \in cancelled' \cup closed'
    BY <1>3, <1>5
  <2>1. h \in Closers \cup Cancels
    BY DEF Due, Cancels
  <2> QED BY <1>2, <2>1
<1>7. ASSUME NEW q \in Runners, run'[q] # None
      PROVE  \E i \in 1..10 :
               /\ run'[q] \in Lists(i)
               /\ \A h \in Due : h \in Range(From(i)) \cup cancelled' \cup closed'
  <2>1. CASE q = r
    <3>1. run'[q] = Tail(run[r])
      BY <1>2, <1>4, <2>1
    <3> QED BY <1>3, <1>6, <3>1
  <2>2. CASE q # r
    <3>1. run'[q] = run[q]
      BY <1>2, <1>4, <2>2
    <3> QED BY <1>5, <1>7, <3>1 DEF ExitInv, Due
  <2> QED BY <2>1, <2>2
(* What is still to be run, by the handler that has just run.              *)
<1>8. /\ handler \in {"index", "cache", "root"} => "indexer" \notin Range(From(j))
      /\ handler \in {"consensus", "index", "cache", "root"} => "follower" \notin Range(From(j))
      /\ handler = "root" => Closers \cap Range(From(j)) = {}
  <2> SUFFICES ASSUME handler \in {"consensus", "index", "cache", "root"}
               PROVE  /\ handler # "consensus" => "indexer" \notin Range(From(j))
                      /\ "follower" \notin Range(From(j))
                      /\ handler = "root" => Closers \cap Range(From(j)) = {}
    OBVIOUS
  <2>1. j \in 2..10 /\ handler = Handlers[j - 1]
    BY <1>3
  <2>2. /\ j > 2 /\ (handler # "consensus" => j > 4)
        /\ (handler = "root" => j = 9)
    BY <2>1, HandlerNames, \A i \in 2..10 : i \in {2, 3, 4, 5, 6, 7, 8, 9, 10}
  <2>3. \A i \in 3..9 : Handlers[i] # "follower"
    BY HandlerNames, \A i \in 3..9 : i \in {3, 4, 5, 6, 7, 8, 9}
  <2>4. \A i \in 4..9 : Handlers[i] # "indexer"
    BY HandlerNames, \A i \in 4..9 : i \in {4, 5, 6, 7, 8, 9}
  <2>5. Range(From(j)) = {Handlers[i] : i \in j..9}
    BY InFrom
  <2>6. "follower" \notin Range(From(j))
    BY <2>2, <2>3, <2>5
  <2>7. handler # "consensus" => "indexer" \notin Range(From(j))
    BY <2>2, <2>4, <2>5
  <2>8. handler = "root" => Range(From(j)) = {"log"}
    BY <2>2, <2>5, HandlerNames, 9..9 = {9}
  <2> QED BY <2>6, <2>7, <2>8 DEF Closers
<1>9. "root" \in cancelled' => Range(owed) \cap Closers \subseteq closed'
  <2>1. CASE handler = "root"
    BY <1>5, <1>6, <1>8, <2>1 DEF Due, Closers, Cancels
  <2>2. CASE handler # "root"
    BY <1>2, <1>5, <2>2 DEF ExitInv
  <2> QED BY <2>1, <2>2
<1>10. closed' \cap {"cache", "index"} # {} /\ "indexer" \in Range(owed) => "indexer" \in cancelled'
  <2>1. CASE handler \in {"cache", "index"}
    BY <1>5, <1>6, <1>8, <2>1 DEF Due, Closers
  <2>2. CASE handler \notin {"cache", "index"}
    BY <1>2, <1>5, <2>2 DEF ExitInv, CleanShutdown
  <2> QED BY <2>1, <2>2
<1>11. "consensus" \in closed' /\ "follower" \in Range(owed) => "follower" \in cancelled'
  <2>1. CASE handler = "consensus"
    BY <1>5, <1>6, <1>8, <2>1 DEF Due, Closers
  <2>2. CASE handler # "consensus"
    BY <1>2, <1>5, <2>2 DEF ExitInv, CleanShutdown
  <2> QED BY <2>1, <2>2
<1>12. CleanShutdown'
  BY <1>2, <1>5, <1>10, <1>11 DEF ExitInv, CleanShutdown
<1>13. DOMAIN run' = Runners
  BY <1>2, <1>4
<1>14. Range(owed') \subseteq Range(registry')
  BY <1>2, <1>4 DEF ExitInv
<1> QED BY <1>2, <1>4, <1>5, <1>7, <1>9, <1>12, <1>13, <1>14 DEF ExitInv, Due

(* The process ends.                                                       *)
LEMMA EndStep ==
  ASSUME ExitInv, exiting, NEW status, Ends(status),
         status \in {0, 1} => Range(owed) \cap Closers \subseteq closed
  PROVE  ExitInv'
<1> HIDE DEF From
<1>1. ended' = status /\ UNCHANGED <<registry, exiting, run, cancelled, closed, owed>>
  BY DEF Ends
<1>2. CleanShutdown'
  BY <1>1 DEF ExitInv, CleanShutdown
<1> QED BY <1>1, <1>2 DEF ExitInv

LEMMA NextExit ==
  ASSUME RegistryInv, ExitInv, [Next]_vars
  PROVE  ExitInv'
<1> HIDE DEF From
<1>1. ASSUME UNCHANGED <<exiting, run, cancelled, closed, ended, owed>>
      PROVE  ExitInv'
  <2>1. Range(registry) \subseteq Range(registry')
    BY NextRegistry
  <2> QED BY <1>1, <2>1 DEF ExitInv, CleanShutdown
<1> USE DEF processVars
<1>2. CASE Running /\ (Exit \/ Signal)
  BY <1>2, BeginStep DEF Running, Exit, Signal, Runners
<1>3. CASE \E r \in Runners : Handle(r)
  BY <1>3, HandleStep
<1>4. ASSUME NEW r \in Runners, OSExit(r)
      PROVE  ExitInv'
  <2>1. run[r] = <<>> /\ run[r] # None /\ Ends(1)
    BY <1>4, LifecycleAssumption DEF OSExit
  <2>2. Range(owed) \cap Closers \subseteq closed
    <3>1. PICK k \in 1..10 :
            /\ run[r] \in Lists(k)
            /\ \A h \in Due : h \in Range(From(k)) \cup cancelled \cup closed
      BY <2>1 DEF ExitInv, Due
    <3>2. Range(From(k)) = {}
      <4>1. Range(From(k)) \subseteq Range(<<>>)
        BY <2>1, <3>1, InLists
      <4>2. Range(<<>>) = {}
        BY DEF Range
      <4> QED BY <4>1, <4>2
    <3> QED BY <3>1, <3>2 DEF ExitInv, Due, Closers, Cancels
  <2>3. exiting
    BY <2>1 DEF ExitInv
  <2> QED BY <2>1, <2>2, <2>3, EndStep
<1>5. CASE MainReturns
  <2>1. "root" \in cancelled /\ Ends(0)
    BY <1>5 DEF MainReturns, Done, Parents
  <2>2. exiting /\ Range(owed) \cap Closers \subseteq closed
    BY <2>1 DEF ExitInv
  <2> QED BY <2>1, <2>2, EndStep
<1>6. CASE UseAfterClose \/ \E r \in Runners : HandlePanics(r)
  <2>1. "consensus" \in closed /\ Ends(Panicked)
    BY <1>6 DEF UseAfterClose, HandlePanics, ClosesTwice
  <2>2. exiting /\ Panicked \notin {0, 1}
    BY <2>1 DEF ExitInv, Panicked
  <2> QED BY <2>1, <2>2, EndStep
<1>7. CASE Boot \/ StartWorkers \/ ServeHTTP \/ \E g \in users : UserReturns(g)
  BY <1>1, <1>7 DEF Boot, StartWorkers, ServeHTTP, UserReturns
<1>8. CASE Scheduler
  BY <1>1, <1>8 DEF Scheduler, Ask, SchedulerReturns, Send
<1>9. CASE \E w \in Workers : Work(w)
  BY <1>1, <1>9 DEF Work, Take, WorkerReturns, Hit, Answer, RateLimited, Fail, Unavailable
<1>10. CASE UNCHANGED vars
  BY <1>1, <1>10 DEF vars
<1> QED BY <1>2, <1>3, <1>4, <1>5, <1>6, <1>7, <1>8, <1>9, <1>10 DEF Next, Main

(* Whenever an exit begins, also with two runs of the handlers at the same *)
(* time and with signals at any moment, the databases that are open then   *)
(* are closed before main returns or os.Exit is called; the indexer is told*)
(* to stop before index and cache are closed, and the follower before the  *)
(* consensus database is.  A panic may end the process before that.        *)
THEOREM ShutdownIsClean == Spec => []CleanShutdown
<1>1. Init => RegistryInv /\ ExitInv
  BY InitExit
<1>2. RegistryInv /\ ExitInv /\ [Next]_vars => (RegistryInv /\ ExitInv)'
  BY NextRegistry, NextExit
<1>3. ExitInv => CleanShutdown
  BY DEF ExitInv
<1> QED BY <1>1, <1>2, <1>3, PTL DEF Spec

=============================================================================
