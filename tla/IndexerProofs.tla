--------------------------- MODULE IndexerProofs ---------------------------
(***************************************************************************)
(* Proofs about the state indexer: whatever the Access API servers answer  *)
(* within Environment, the index is a chain of finalized blocks with       *)
(* authentic events, the indexer knows where it ends, and, if seals come   *)
(* in order, no fatal error stops it, for any sporks, seals, tolerance and *)
(* length of the history.                                                  *)
(***************************************************************************)
EXTENDS Indexer, WellFoundedInduction, SequenceTheorems, TLAPS

(***************************************************************************)
(* Operators.                                                              *)
(***************************************************************************)

\* A nonempty set of natural numbers has a least element.
LEMMA LeastElement ==
  ASSUME NEW T, T \subseteq Nat, T # {}
  PROVE  \E x \in T : \A y \in T : x <= y
<1> DEFINE R == OpToRel(<, Nat)
<1>1. IsWellFoundedOn(R, Nat)
  BY NatLessThanWellFounded
<1>2. \A x, y \in Nat : y < x => <<y, x>> \in R
  BY DEF OpToRel
<1> HIDE DEF R
<1>3. PICK x \in T : \A y \in T : ~(<<y, x>> \in R)
  BY <1>1, WFMin
<1>4. \A y \in T : x \in Nat /\ y \in Nat /\ ~(y < x)
  BY <1>2, <1>3
<1>5. \A y \in T : x <= y
  BY <1>4
<1> QED
  BY <1>5

\* The constants have the types that the proofs use.
LEMMA Constants ==
  /\ Root \in Nat /\ Root >= 1 /\ Root <= MaxHeight
  /\ MaxHeight \in Nat
  /\ Heights \subseteq Nat
  /\ Len(SporkRoots) \in Nat /\ Len(SporkRoots) >= 1
  /\ DOMAIN SporkRoots = 1..Len(SporkRoots)
  /\ \A s \in 1..Len(SporkRoots) : SporkRoots[s] \in Heights
<1>1. /\ SporkRoots \in Seq(1..MaxHeight) /\ SporkRoots # << >>
      /\ MaxHeight \in Nat
      /\ \A s, t \in DOMAIN SporkRoots : s < t => SporkRoots[s] < SporkRoots[t]
  BY IndexerAssumption
<1>2. /\ Len(SporkRoots) \in Nat /\ Len(SporkRoots) >= 1
      /\ DOMAIN SporkRoots = 1..Len(SporkRoots)
      /\ \A s \in 1..Len(SporkRoots) : SporkRoots[s] \in 1..MaxHeight
  BY <1>1
<1>3. \A s \in 1..Len(SporkRoots) : SporkRoots[1] <= SporkRoots[s]
  BY <1>1, <1>2
<1> QED
  BY <1>1, <1>2, <1>3 DEF Root, Heights

\* SporkFor finds the spork of every height from the first root on.
LEMMA SporkForCorrect ==
  ASSUME NEW n \in 1..Len(SporkRoots), NEW h \in Nat, Root <= h
  PROVE  LET s == SporkFor(n, h)
         IN  /\ s \in 1..n
             /\ SporkRoots[s] <= h
             /\ \A t \in (s + 1)..n : h < SporkRoots[t]
<1> DEFINE T == {k \in Nat : n - k \in 1..n /\ SporkRoots[n - k] <= h}
<1>1. n - 1 \in T
  BY Constants DEF Root
<1>2. PICK k \in T : \A j \in T : k <= j
  BY <1>1, LeastElement
<1> DEFINE m == n - k
<1>3. m \in 1..n /\ SporkRoots[m] <= h /\ k \in Nat /\ m = n - k
  OBVIOUS
<1>a. \A j \in Nat : j < k => j \notin T
  BY <1>2, <1>3
<1> HIDE DEF m
<1>4. ASSUME NEW t \in (m + 1)..n
      PROVE  h < SporkRoots[t]
  <2>1. t \in 1..n /\ n - t \in Nat /\ n - t < k /\ n - (n - t) = t
    BY <1>3
  <2>2. n - t \notin T
    <3> HIDE DEF T
    <3> QED
      BY <2>1, <1>a
  <2>3. SporkRoots[t] \in Nat
    <3> HIDE DEF T
    <3>1. t \in 1..Len(SporkRoots)
      BY <2>1, Constants
    <3> QED
      BY <3>1, Constants
  <2> QED
    BY <2>1, <2>2, <2>3
<1>5. \E s \in 1..n : /\ SporkRoots[s] <= h
                      /\ \A t \in (s + 1)..n : h < SporkRoots[t]
  BY <1>3, <1>4
<1> QED
  BY <1>5 DEF SporkFor

\* The parent of a block of the history is in the history, and blocks of
\* the other kinds follow one of their own spork.
LEMMA Parents ==
  /\ \A h \in Nat : ParentOf(<<h, "main">>) = <<h - 1, "main">>
  /\ \A b \in Blocks : ParentOf(b)[1] = b[1] - 1 /\ ParentOf(b)[2] # "junk"
<1>1. \A h \in Nat : ParentOf(<<h, "main">>) = <<h - 1, "main">>
  BY DEF ParentOf
<1>2. ASSUME NEW b \in Blocks
      PROVE  ParentOf(b)[1] = b[1] - 1 /\ ParentOf(b)[2] # "junk"
  <2>1. b[2] \in {"main", "old", "sibling"} /\ b[1] \in Nat
    BY Constants DEF Blocks
  <2> QED
    BY <2>1 DEF ParentOf
<1> QED
  BY <1>1, <1>2

\* What the nodes of a spork have at a height is a block of that height.
LEMMA BlockAtProduced ==
  ASSUME NEW s \in 1..Len(SporkRoots), NEW h \in Heights, NEW top \in Nat,
         BlockAt(s, h, top) # None
  PROVE  /\ BlockAt(s, h, top) \in Produced
         /\ BlockAt(s, h, top)[1] = h
         /\ BlockAt(s, h, top)[2] \in {"main", "old"}
         /\ \A t \in Nat : top <= t => BlockAt(s, h, t) = BlockAt(s, h, top)
<1>1. h \in Nat /\ <<h, "main">> \in Blocks /\ <<h, "old">> \in Blocks
  BY Constants DEF Blocks
<1>2. ~(h > top) /\ (Replaced(s, h) => ~(h >= SporkRoots[s + 1] + Overrun))
  BY DEF BlockAt
<1>3. \A t \in Nat : top <= t =>
        BlockAt(s, h, t) = <<h, IF Replaced(s, h) THEN "old" ELSE "main">>
  BY <1>1, <1>2 DEF BlockAt
<1>4. CASE ~Replaced(s, h)
  <2>1. <<h, "main">> \in Produced
    BY <1>1 DEF Produced
  <2> QED
    BY <1>3, <1>4, <2>1
<1>5. CASE Replaced(s, h)
  <2>1. s + 1 \in 2..Len(SporkRoots) /\ h >= SporkRoots[s + 1]
    BY <1>5, Constants DEF Replaced
  <2>2. SporkRoots[s + 1] \in Nat /\ Overrun \in Nat
    <3>1. s + 1 \in 1..Len(SporkRoots)
      BY <2>1, Constants
    <3> QED
      BY <3>1, Constants, IndexerAssumption
  <2>3. <<h, "old">> \in Produced
    BY <1>1, <1>2, <1>5, <2>1, <2>2 DEF Produced
  <2> QED
    BY <1>3, <1>5, <2>3
<1> QED
  BY <1>4, <1>5

\* The fields of an answer.
LEMMA AnswerFields ==
  ASSUME NEW id, NEW p, NEW v \in BOOLEAN
  PROVE  Answer(id, p, v).id = id /\ Answer(id, p, v).parent = p
BY DEF Answer

\* What Environment leaves of the answers: a block of the right height, and
\* the hash of its parent or of no block.  An answer is given again later.
LEMMA AnswersProduced ==
  ASSUME Environment,
         NEW s \in 1..Len(SporkRoots), NEW h \in Heights, NEW top \in Nat,
         NEW answer \in Answers(s, h, top)
  PROVE  /\ answer.id \in Produced /\ answer.id[1] = h
         /\ answer.parent = ParentOf(answer.id)
              \/ answer.parent = <<h - 1, "junk">>
         /\ answer.id[2] # "sibling" => answer.id = BlockAt(s, h, top)
         /\ \A t \in Nat : top <= t => answer \in Answers(s, h, t)
<1> DEFINE id == BlockAt(s, h, top)
           sibling == <<h, "sibling">>
<1>1. id # None
  BY DEF Answers
<1>2. /\ id \in Produced /\ id[1] = h /\ id[2] \in {"main", "old"}
      /\ \A t \in Nat : top <= t => BlockAt(s, h, t) = id
  BY <1>1, BlockAtProduced
<1>3. sibling \in Produced /\ sibling[1] = h /\ sibling[2] = "sibling"
  BY DEF Produced, Blocks
<1>4. \A t \in Nat : top <= t => Answers(s, h, t) = Answers(s, h, top)
  BY <1>2 DEF Answers
<1>5. \/ \E v \in BOOLEAN : answer = Answer(id, ParentOf(id), v)
      \/ \E v \in BOOLEAN : answer = Answer(id, <<h - 1, "junk">>, v)
      \/ \E v \in BOOLEAN : answer = Answer(sibling, ParentOf(sibling), v)
  <2>1. "swappedParent" \notin Faults
    BY DEF Environment
  <2> QED
    BY <1>1, <2>1 DEF Answers, Faulty
<1> HIDE DEF id, sibling
<1>6. \/ answer.id = id /\ answer.parent = ParentOf(id)
      \/ answer.id = id /\ answer.parent = <<h - 1, "junk">>
      \/ answer.id = sibling /\ answer.parent = ParentOf(sibling)
  <2>1. CASE \E v \in BOOLEAN : answer = Answer(id, ParentOf(id), v)
    BY <2>1, AnswerFields
  <2>2. CASE \E v \in BOOLEAN : answer = Answer(id, <<h - 1, "junk">>, v)
    BY <2>2, AnswerFields
  <2>3. CASE \E v \in BOOLEAN : answer = Answer(sibling, ParentOf(sibling), v)
    BY <2>3, AnswerFields
  <2> QED
    BY <1>5, <2>1, <2>2, <2>3
<1> QED
  BY <1>2, <1>3, <1>4, <1>6 DEF id

\* A block is a height and a kind, and not a hash of no block.
LEMMA ProducedBlocks ==
  ASSUME NEW b \in Produced
  PROVE  /\ b \in Blocks /\ b = <<b[1], b[2]>>
         /\ b[1] \in Heights /\ b[1] \in Nat
         /\ b[2] \in {"main", "old", "sibling"} /\ b[2] # "junk"
<1>1. b \in Blocks /\ b = <<b[1], b[2]>> /\ b[1] \in Heights
        /\ b[2] \in {"main", "old", "sibling"}
  BY DEF Produced, Blocks
<1> QED
  BY <1>1, Constants

\* The block before the root block of a spork is in the history: no other
\* block is indexed at that height.
LEMMA BeforeRoot ==
  ASSUME NEW n \in 1..Len(SporkRoots), NEW b \in Produced,
         b[1] + 1 = SporkRoots[n], b[2] # "sibling"
  PROVE  b = <<SporkRoots[n] - 1, "main">>
<1>1. /\ b[1] \in Nat /\ b = <<b[1], b[2]>>
      /\ b[2] \in {"main", "old", "sibling"}
  BY ProducedBlocks
<1>2. ASSUME b[2] = "old"
      PROVE  FALSE
  <2>1. PICK s \in 2..Len(SporkRoots) :
          SporkRoots[s] <= b[1] /\ b[1] < SporkRoots[s] + Overrun
    BY <1>2 DEF Produced
  <2>2. /\ SporkRoots[s] \in Nat /\ SporkRoots[n] \in Nat /\ Overrun \in Nat
        /\ s \in 1..Len(SporkRoots) /\ Len(SporkRoots) \in Nat
    BY Constants, IndexerAssumption
  <2>3. \A t, u \in 1..Len(SporkRoots) : t < u => SporkRoots[t] < SporkRoots[u]
    BY Constants, IndexerAssumption
  <2>4. s < n
    BY <1>1, <2>1, <2>2, <2>3
  <2>5. SporkRoots[s] + Overrun < SporkRoots[s + 1]
    BY <2>2, <2>4, IndexerAssumption
  <2>6. s + 1 = n \/ SporkRoots[s + 1] < SporkRoots[n]
    BY <2>2, <2>3, <2>4
  <2>7. SporkRoots[s + 1] \in Nat
    <3>1. s + 1 \in 1..Len(SporkRoots)
      BY <2>2, <2>4
    <3> QED
      BY <3>1, Constants
  <2> QED
    BY <1>1, <2>1, <2>2, <2>5, <2>6, <2>7
<1> QED
  <2>1. b[2] = "main"
    BY <1>1, <1>2
  <2>2. b[1] = SporkRoots[n] - 1
    BY <1>1, Constants
  <2> QED
    BY <1>1, <2>1, <2>2

\* The fields of an entry of the index.
LEMMA EntryFields ==
  ASSUME NEW id \in Produced, NEW ok \in BOOLEAN
  PROVE  /\ Entry(id, ok) \in [id : Produced, ok : BOOLEAN]
         /\ Entry(id, ok).id = id /\ Entry(id, ok).ok = ok
BY DEF Entry

\* An entry of the index is not nil.
LEMMA EntryExists ==
  ASSUME NEW e \in [id : Produced, ok : BOOLEAN]
  PROVE  e # None
<1>1. e \in [id : Blocks, ok : BOOLEAN]
  BY DEF Produced
<1> QED
  BY <1>1, IndexerAssumption

(***************************************************************************)
(* Steps that leave the index alone.                                       *)
(***************************************************************************)

\* A step that changes neither the index nor the history nor the cache keeps
\* what is known of them.
LEMMA Quiet ==
  ASSUME IndexerInv, UNCHANGED <<tip, disk, cache>>, exiting' \in BOOLEAN,
         nsporks' \in 1..Len(SporkRoots),
         pc' \in {"down", "initStore", "exit"} \cup Up,
         pc' = "process" => job'.ret \in {"past", "accept", "seals"},
         pc' \in {"down", "initStore"} \/ latest # 0
  PROVE  ShapeInv' /\ IndexInv' /\ Linked' /\ EventsAuthentic'
<1>1. ShapeInv'
  BY DEF IndexerInv, ShapeInv
<1>2. IndexInv'
  BY DEF IndexerInv, IndexInv, disk
<1>3. Linked' /\ EventsAuthentic'
  BY DEF IndexerInv, Linked, EventsAuthentic, disk
<1> QED
  BY <1>1, <1>2, <1>3

\* Outside of the loops nothing is known of their variables.
LEMMA NoLoop ==
  ASSUME pc' \in {"down", "initStore", "exit", "indexBlocks"}
  PROVE  WalkInv' /\ PastInv' /\ LiveInv' /\ SealsInv' /\ RootInv'
BY DEF WalkInv, PastInv, LiveInv, SealsInv, RootInv, Loop

\* In the loops the last indexed block and the live root stay as they are
\* unless a block is indexed.
LEMMA UpKept ==
  ASSUME IndexerInv, pc \in Up, UNCHANGED <<disk, nsporks, lastIndexed, liveRoot>>
  PROVE  UpInv'
BY DEF IndexerInv, UpInv, disk, LiveHeight

\* The last indexed block, while the indexer runs.
LEMMA LastIndexedBlock ==
  ASSUME IndexerInv, pc \in Up
  PROVE  /\ latest \in Heights /\ latest \in Nat
         /\ lastIndexed \in Produced
         /\ lastIndexed[1] = latest /\ lastIndexed[2] # "sibling"
         /\ lastIndexed = <<latest, lastIndexed[2]>>
         /\ LiveHeight \in Heights /\ LiveHeight \in Nat
<1>1. latest # 0
  BY DEF IndexerInv, IndexInv, Up, Loops
<1>2. latest \in Heights /\ latest \in Nat
  BY <1>1, Constants DEF IndexerInv, IndexInv
<1>3. chain[latest].id \in Produced /\ chain[latest].id[1] = latest
        /\ chain[latest].id[2] # "sibling"
  BY <1>2 DEF IndexerInv, IndexInv
<1>4. lastIndexed = chain[latest].id
  BY DEF IndexerInv, UpInv
<1>5. \A b \in Produced : b = <<b[1], b[2]>>
  BY ProducedBlocks
<1>6. LiveHeight \in Heights
  BY Constants DEF LiveHeight, IndexerInv, ShapeInv
<1> QED
  BY <1>2, <1>3, <1>4, <1>5, <1>6, Constants

(***************************************************************************)
(* The environment and the start-up.                                       *)
(***************************************************************************)
LEMMA InitInv ==
  ASSUME Environment, Init
  PROVE  IndexerInv
<1>1. ShapeInv
  <2>1. tip \in Heights /\ nsporks \in 1..Len(SporkRoots)
    BY Constants DEF Init, Heights
  <2>2. exiting \in BOOLEAN /\ pc = "down"
    BY DEF Init
  <2>3. /\ DOMAIN cache = (DOMAIN SporkRoots) \X Heights
        /\ \A k \in DOMAIN cache : cache[k] = None
    BY DEF Init
  <2> QED
    BY <2>1, <2>2, <2>3 DEF ShapeInv
<1>2. IndexInv
  <2>1. \A h \in Heights : h > 0
    BY Constants DEF Heights
  <2> QED
    BY <2>1 DEF Init, IndexInv
<1>3. UpInv /\ WalkInv /\ PastInv /\ LiveInv /\ SealsInv /\ RootInv
  BY DEF Init, UpInv, Up, Loops, WalkInv, PastInv, LiveInv, SealsInv, RootInv,
         Loop
<1>4. Linked /\ EventsAuthentic
  BY Constants DEF Init, Linked, EventsAuthentic
<1> QED
  BY <1>1, <1>2, <1>3, <1>4 DEF IndexerInv

\* The spork that is asked is one of the configuration.
LEMMA SporkConfigured ==
  ASSUME IndexerInv, height \in Heights
  PROVE  Spork \in 1..Len(SporkRoots)
<1>1. nsporks \in 1..Len(SporkRoots) /\ height \in Nat /\ Root <= height
  BY Constants DEF IndexerInv, ShapeInv, Heights
<1>2. SporkFor(nsporks, height) \in 1..nsporks
  BY <1>1, SporkForCorrect
<1> QED
  BY <1>1, <1>2, Constants DEF Spork

LEMMA NewBlockInv ==
  ASSUME Environment, IndexerInv, NewBlock
  PROVE  IndexerInv'
<1> USE DEF NewBlock, memory, loop, disk
<1>1. tip \in Nat /\ tip' \in Nat /\ tip <= tip' /\ tip' \in Heights
  BY Constants DEF IndexerInv, ShapeInv, Heights
<1>2. ShapeInv'
  <2>1. ASSUME NEW k \in DOMAIN cache, cache[k] # None
        PROVE  cache[k] \in Answers(k[1], k[2], tip')
    <3>1. k[1] \in 1..Len(SporkRoots) /\ k[2] \in Heights
      BY Constants DEF IndexerInv, ShapeInv
    <3>2. cache[k] \in Answers(k[1], k[2], tip)
      BY <2>1 DEF IndexerInv, ShapeInv
    <3> QED
      BY <1>1, <3>1, <3>2, AnswersProduced
  <2> QED
    BY <1>1, <2>1 DEF IndexerInv, ShapeInv
<1>3. IndexInv' /\ UpInv' /\ Linked' /\ EventsAuthentic'
  BY DEF IndexerInv, IndexInv, UpInv, Linked, EventsAuthentic, LiveHeight
<1>4. WalkInv' /\ PastInv' /\ SealsInv' /\ RootInv'
  BY DEF IndexerInv, WalkInv, PastInv, SealsInv, RootInv, Loop, LiveHeight,
         OneBranch
<1>5. LiveInv'
  <2>1. ASSUME Loop \in {"accept", "seals"}, UseConsensusFollower,
               NEW p \in pending, p[1] = height
        PROVE  p = BlockAt(Spork, height, tip')
    <3>1. /\ height \in Heights /\ p = BlockAt(Spork, height, tip)
          /\ p \in Produced
      BY <2>1 DEF IndexerInv, LiveInv
    <3>2. p # None
      BY <3>1, ProducedBlocks, IndexerAssumption
    <3>3. Spork \in 1..Len(SporkRoots)
      BY <3>1, SporkConfigured
    <3> QED
      BY <1>1, <3>1, <3>2, <3>3, BlockAtProduced
  <2> QED
    BY <2>1 DEF IndexerInv, LiveInv, Loop, OneBranch, Spork
<1> QED
  BY <1>2, <1>3, <1>4, <1>5 DEF IndexerInv

LEMMA StartStop ==
  ASSUME IndexerInv, Start \/ Stop \/ Fatal
  PROVE  IndexerInv'
<1> USE DEF memory, loop
<1>1. /\ UNCHANGED <<tip, disk, cache>> /\ exiting' \in BOOLEAN
      /\ nsporks' \in 1..Len(SporkRoots)
      /\ pc' \in {"down", "initStore", "exit"}
      /\ pc' = "exit" => pc = "process"
  <2>1. nsporks \in 1..Len(SporkRoots) /\ exiting \in BOOLEAN
    BY DEF IndexerInv, ShapeInv
  <2>2. CASE Start
    BY <2>1, <2>2, Constants DEF Start
  <2>3. CASE Stop
    BY <2>1, <2>3 DEF Stop
  <2>4. CASE Fatal
    BY <2>1, <2>4 DEF Fatal
  <2> QED
    BY <2>2, <2>3, <2>4
<1>2. pc' = "exit" => latest # 0
  BY <1>1 DEF IndexerInv, IndexInv
<1>3. ShapeInv' /\ IndexInv' /\ Linked' /\ EventsAuthentic'
  BY <1>1, <1>2, Quiet
<1>4. UpInv'
  BY <1>1 DEF UpInv, Up, Loops
<1> QED
  BY <1>1, <1>3, <1>4, NoLoop DEF IndexerInv

LEMMA SignalInv ==
  ASSUME IndexerInv, Signal
  PROVE  IndexerInv'
<1> USE DEF Signal, loop, disk
<1>1. ShapeInv'
  BY DEF IndexerInv, ShapeInv
<1>2. IndexInv' /\ UpInv' /\ Linked' /\ EventsAuthentic'
  BY DEF IndexerInv, IndexInv, UpInv, Linked, EventsAuthentic, LiveHeight
<1>3. WalkInv' /\ PastInv' /\ LiveInv' /\ SealsInv' /\ RootInv'
  BY DEF IndexerInv, WalkInv, PastInv, LiveInv, SealsInv, RootInv, Loop,
         LiveHeight, OneBranch, Spork
<1> QED
  BY <1>1, <1>2, <1>3 DEF IndexerInv

LEMMA SetGenesisInv ==
  ASSUME IndexerInv, SetGenesis
  PROVE  IndexerInv'
<1> USE DEF SetGenesis, memory, loop
<1> DEFINE e == Entry(<<Root, "main">>, TRUE)
<1>1. <<Root, "main">> \in Produced /\ Root \in Heights
  BY Constants DEF Produced, Blocks, Heights
<1>2. e \in [id : Produced, ok : BOOLEAN] /\ e.id = <<Root, "main">> /\ e.ok
  BY <1>1, EntryFields
<1>3. chain' = [chain EXCEPT ![Root] = e] /\ latest' = Root /\ DOMAIN chain = Heights
  BY DEF IndexerInv, IndexInv
<1>4. chain'[Root] = e /\ \A h \in Heights \ {Root} : chain'[h] = None
  BY <1>1, <1>3, Constants DEF IndexerInv, IndexInv, Heights
<1> HIDE DEF e
<1>5. ShapeInv'
  BY DEF IndexerInv, ShapeInv
<1>6. IndexInv'
  <2>1. \A h \in Heights : (h > Root <=> h # Root) /\ Root # 0
    BY Constants DEF Heights
  <2>2. e.id[1] = Root /\ e.id[2] # "sibling"
    BY <1>2
  <2>3. DOMAIN chain' = Heights
    BY <1>3
  <2>4. latest' \in {0} \cup Heights /\ latest' # 0
    BY <1>1, <1>3, <2>1
  <2> HIDE DEF SetGenesis
  <2>5. ASSUME NEW h \in Heights
        PROVE  IF h > latest' THEN chain'[h] = None
               ELSE /\ chain'[h] \in [id : Produced, ok : BOOLEAN]
                    /\ chain'[h].id[1] = h
                    /\ chain'[h].id[2] # "sibling"
    <3>1. CASE h = Root
      BY <3>1, <1>2, <1>3, <1>4, <2>1, <2>2
    <3>2. CASE h # Root
      BY <3>2, <1>3, <1>4, <2>1
    <3> QED
      BY <3>1, <3>2
  <2> QED
    BY <2>3, <2>4, <2>5 DEF IndexInv
<1>7. Linked' /\ EventsAuthentic'
  <2>1. (Root + 1)..latest' = {}
    BY <1>3, Constants
  <2>2. \A h \in Heights : chain'[h] = None \/ chain'[h].ok
    BY <1>2, <1>4
  <2> QED
    BY <2>1, <2>2 DEF Linked, EventsAuthentic
<1>8. UpInv' /\ pc' = "initStore"
  BY DEF UpInv, Up, Loops
<1> QED
  BY <1>5, <1>6, <1>7, <1>8, NoLoop DEF IndexerInv

LEMMA BootInv ==
  ASSUME Environment, IndexerInv, Boot
  PROVE  IndexerInv'
<1> USE DEF loop
<1>1. PICK base \in (IF Resync THEN Root..latest ELSE {latest}),
           root \in RootAnswers(nsporks) :
        /\ chain' = [h \in Heights |-> IF h > base THEN None ELSE chain[h]]
        /\ latest' = base
        /\ lastIndexed' = chain[base].id
        /\ liveRoot' = root
  BY DEF Boot, Loaded
<1>2. /\ pc' = "indexBlocks" /\ pc = "initStore"
      /\ UNCHANGED <<tip, nsporks, cache, exiting, sealed, job>>
      /\ latest \in Heights /\ latest \in Nat /\ latest <= MaxHeight
  BY Constants DEF Boot, IndexerInv, IndexInv, Heights
<1>3. base \in Heights /\ base \in Nat /\ base <= latest /\ Root <= base
  BY <1>1, <1>2, Constants DEF Heights
<1>4. root = [id     |-> <<SporkRoots[nsporks], "main">>,
              parent |-> <<SporkRoots[nsporks] - 1, "main">>]
  BY DEF RootAnswers, Faulty, Environment
<1>5. \A h \in Heights : chain'[h] = IF h > base THEN None ELSE chain[h]
  BY <1>1
<1>6. ShapeInv'
  BY <1>2 DEF IndexerInv, ShapeInv, Up
<1>7. IndexInv'
  BY <1>1, <1>2, <1>3, <1>5, Constants DEF IndexerInv, IndexInv
<1>8. UpInv'
  BY <1>1, <1>2, <1>3, <1>4, <1>5 DEF UpInv, LiveHeight
<1>9. Linked'
  <2>1. ASSUME NEW h \in (Root + 1)..base
        PROVE  h \in Heights /\ h - 1 \in Heights /\ ~(h > base) /\ ~(h - 1 > base)
                 /\ h \in (Root + 1)..latest
    BY <1>2, <1>3, Constants DEF Heights
  <2> QED
    BY <1>1, <1>5, <2>1 DEF IndexerInv, Linked
<1>10. EventsAuthentic'
  BY <1>5 DEF IndexerInv, EventsAuthentic
<1> QED
  BY <1>2, <1>6, <1>7, <1>8, <1>9, <1>10, NoLoop DEF IndexerInv

(***************************************************************************)
(* The loops.                                                              *)
(***************************************************************************)
LEMMA EnterLiveInv ==
  ASSUME IndexerInv, EnterLive
  PROVE  IndexerInv'
<1> USE DEF EnterLive
<1>1. pc \in Up /\ pc' \in Up
  BY DEF Up, Loops
<1>2. ShapeInv' /\ IndexInv' /\ Linked' /\ EventsAuthentic'
  BY <1>1, Quiet, LastIndexedBlock, Constants DEF IndexerInv, ShapeInv, IndexInv
<1>3. UpInv'
  BY <1>1, UpKept
<1>4. LiveInv'
  <2>1. /\ height' = latest + 1 /\ parent' = lastIndexed /\ pending' = {}
        /\ lastIndexed \in Produced /\ lastIndexed[1] = latest
        /\ latest \in Heights /\ latest' = latest /\ lastIndexed' = lastIndexed
    BY <1>1, LastIndexedBlock DEF StartHeight, disk
  <2>2. height' \in (Root + 1)..(MaxHeight + 1) /\ latest < height' /\ latest \in Nat
    BY <2>1, Constants DEF Heights
  <2>3. OneBranch({} \cup {lastIndexed, lastIndexed})
    BY <2>1, <2>2 DEF OneBranch
  <2> QED
    BY <2>1, <2>2, <2>3 DEF LiveInv, OneBranch
<1>5. WalkInv' /\ PastInv' /\ SealsInv' /\ RootInv'
  BY DEF WalkInv, PastInv, SealsInv, RootInv, Loop
<1> QED
  BY <1>2, <1>3, <1>4, <1>5 DEF IndexerInv

LEMMA EnterLiveRootInv ==
  ASSUME IndexerInv, EnterLiveRoot
  PROVE  IndexerInv'
<1> USE DEF EnterLiveRoot
<1>1. pc \in Up /\ pc' \in Up /\ pc' = "process" /\ job'.ret = "accept"
  BY DEF Up, Loops
<1>2. ShapeInv' /\ IndexInv' /\ Linked' /\ EventsAuthentic'
  BY <1>1, Quiet, LastIndexedBlock, Constants DEF IndexerInv, ShapeInv, IndexInv
<1>3. UpInv'
  BY <1>1, UpKept
<1> DEFINE L == LiveHeight
           b == <<L, "main">>
<1>4. liveRoot.id = b
  BY <1>1 DEF IndexerInv, UpInv
<1>5. /\ height' = L + 1 /\ parent' = b /\ pending' = {} /\ job'.id = b
      /\ lastIndexed \in Produced /\ lastIndexed[1] = latest
      /\ latest + 1 = L /\ latest' = latest /\ lastIndexed' = lastIndexed
      /\ latest \in Nat /\ L \in Heights /\ L \in Nat /\ LiveHeight' = L
  BY <1>1, <1>4, LastIndexedBlock DEF StartHeight, disk, LiveHeight
<1>6. b \in Produced /\ b[1] = L
  BY <1>5, Constants DEF Produced, Blocks
<1>7. ParentOf(b) = lastIndexed
  <2>1. lastIndexed = <<L - 1, "main">>
    BY <1>1, <1>5, LastIndexedBlock, BeforeRoot DEF LiveHeight, IndexerInv, ShapeInv
  <2> QED
    BY <2>1, <1>5, Parents
<1> HIDE DEF b, L
<1>8. OneBranch({} \cup {lastIndexed, b})
  BY <1>5, <1>6, <1>7 DEF OneBranch
<1>9. LiveInv'
  <2>1. height' \in (Root + 1)..(MaxHeight + 1) /\ latest < height'
    BY <1>5, Constants DEF Heights
  <2>2. b[1] = height' - 1
    BY <1>5, <1>6
  <2> QED
    BY <1>5, <1>6, <1>8, <2>1, <2>2 DEF LiveInv, OneBranch
<1>10. RootInv'
  BY <1>5 DEF RootInv, b
<1>11. WalkInv' /\ PastInv' /\ SealsInv'
  BY <1>1 DEF WalkInv, PastInv, SealsInv, Loop
<1> QED
  BY <1>2, <1>3, <1>9, <1>10, <1>11 DEF IndexerInv

LEMMA EnterPastInv ==
  ASSUME IndexerInv, EnterPast
  PROVE  IndexerInv'
<1> USE DEF EnterPast
<1>1. pc \in Up /\ pc' \in Up
  BY DEF Up, Loops
<1>2. ShapeInv' /\ IndexInv' /\ Linked' /\ EventsAuthentic'
  BY <1>1, Quiet, LastIndexedBlock, Constants DEF IndexerInv, ShapeInv, IndexInv
<1>3. UpInv'
  BY <1>1, UpKept
<1> DEFINE L == LiveHeight
<1>4. liveRoot.id = <<L, "main">> /\ liveRoot.parent = <<L - 1, "main">>
  BY <1>1 DEF IndexerInv, UpInv
<1>5. /\ height' = L - 1 /\ pending' = {} /\ parent' = <<L - 1, "main">>
      /\ hashes' = <<<<L, "main">>>>
      /\ latest' = latest /\ latest \in Nat /\ L \in Nat /\ latest + 1 < L
      /\ LiveHeight' = L
  BY <1>1, <1>4, LastIndexedBlock DEF StartHeight, disk, LiveHeight
<1>6. WalkInv'
  <2> HIDE DEF L
  <2>1. L - 1 \in latest..(L - 1) /\ L - (L - 1) = 1 /\ L + 1 - 1 = L
    BY <1>5
  <2>2. <<<<L, "main">>>> = [i \in 1..(L - (L - 1)) |-> <<L + 1 - i, "main">>]
    BY <2>1
  <2> QED
    BY <1>5, <2>1, <2>2 DEF WalkInv
<1>7. PastInv' /\ LiveInv' /\ SealsInv' /\ RootInv'
  BY DEF PastInv, LiveInv, SealsInv, RootInv, Loop
<1> QED
  BY <1>2, <1>3, <1>6, <1>7 DEF IndexerInv

\* What a call returns, through the cache or not, is an answer of the spork.
LEMMA FetchedAnswers ==
  ASSUME IndexerInv, height \in Heights, NEW answer \in Fetched
  PROVE  answer \in Answers(Spork, height, tip)
<1>1. <<Spork, height>> \in DOMAIN cache
  BY SporkConfigured, Constants DEF IndexerInv, ShapeInv
<1>2. CASE Cache /\ ~ skipCache /\ cache[<<Spork, height>>] # None
  <2>1. answer = cache[<<Spork, height>>]
    BY <1>2 DEF Fetched
  <2> QED
    BY <1>1, <1>2, <2>1 DEF IndexerInv, ShapeInv
<1>3. CASE ~(Cache /\ ~ skipCache /\ cache[<<Spork, height>>] # None)
  BY <1>3 DEF Fetched
<1> QED
  BY <1>2, <1>3

\* The cache holds answers.
LEMMA CacheKept ==
  ASSUME IndexerInv, NEW s \in 1..Len(SporkRoots), NEW h \in Heights,
         NEW answer \in Answers(s, h, tip),
         UNCHANGED <<tip, nsporks, exiting>>,
         cache' = cache \/ cache' = [cache EXCEPT ![<<s, h>>] = answer],
         pc' \in {"down", "initStore", "exit"} \cup Up,
         pc' = "process" => job'.ret \in {"past", "accept", "seals"}
  PROVE  ShapeInv'
<1>1. /\ DOMAIN cache = (DOMAIN SporkRoots) \X Heights
      /\ DOMAIN cache' = DOMAIN cache
  BY DEF IndexerInv, ShapeInv
<1>2. ASSUME NEW k \in DOMAIN cache
      PROVE  cache'[k] = None \/ cache'[k] \in Answers(k[1], k[2], tip)
  <2>1. CASE k = <<s, h>> /\ cache' = [cache EXCEPT ![<<s, h>>] = answer]
    BY <1>1, <2>1
  <2>2. CASE ~(k = <<s, h>> /\ cache' = [cache EXCEPT ![<<s, h>>] = answer])
    <3>1. cache'[k] = cache[k]
      BY <1>1, <2>2
    <3> QED
      BY <3>1 DEF IndexerInv, ShapeInv
  <2> QED
    BY <2>1, <2>2
<1> QED
  BY <1>1, <1>2 DEF IndexerInv, ShapeInv

LEMMA PrefetchInv ==
  ASSUME IndexerInv, Prefetch
  PROVE  IndexerInv'
<1> USE DEF memory, loop, disk
<1>1. PICK s \in 1..nsporks, h \in (lastIndexed[1] + 1)..tip :
        \E answer \in Answers(s, h, tip) :
          cache' = [cache EXCEPT ![<<s, h>>] = answer]
  BY DEF Prefetch
<1>2. pc \in Up /\ UNCHANGED <<tip, nsporks, disk, pc, memory>>
  BY DEF Prefetch, IndexerInv, ShapeInv
<1>3. s \in 1..Len(SporkRoots) /\ h \in Heights
  <2>1. /\ lastIndexed[1] \in Root..MaxHeight /\ tip \in Root..MaxHeight
        /\ nsporks \in 1..Len(SporkRoots)
    BY <1>2, LastIndexedBlock DEF IndexerInv, ShapeInv, Heights
  <2>2. Root \in Nat /\ MaxHeight \in Nat /\ Len(SporkRoots) \in Nat
    BY Constants
  <2>3. h \in Root..MaxHeight
    BY <2>1, <2>2
  <2> QED
    BY <2>1, <2>2, <2>3 DEF Heights
<1>4. ShapeInv'
  BY <1>1, <1>2, <1>3, CacheKept DEF IndexerInv, ShapeInv
<1>5. IndexInv' /\ UpInv' /\ Linked' /\ EventsAuthentic'
  BY <1>2 DEF IndexerInv, IndexInv, UpInv, Linked, EventsAuthentic, LiveHeight
<1>6. WalkInv' /\ PastInv' /\ LiveInv' /\ SealsInv' /\ RootInv'
  BY <1>2 DEF IndexerInv, WalkInv, PastInv, LiveInv, SealsInv, RootInv, Loop,
              LiveHeight, OneBranch, Spork
<1> QED
  BY <1>4, <1>5, <1>6 DEF IndexerInv

LEMMA WalkBackInv ==
  ASSUME Environment, IndexerInv, Asking, NEW answer, WalkBack(answer)
  PROVE  IndexerInv'
<1> USE DEF disk
<1>1. /\ pc = "walk" /\ pc' = "walk" /\ pc \in Up
      /\ UNCHANGED <<tip, nsporks, disk, exiting, liveRoot, lastIndexed, pending,
                     job>>
      /\ height \in Heights /\ StartHeight <= height /\ answer \in Fetched
  BY DEF WalkBack, Asking, Up, Loops
<1>2. answer \in Answers(Spork, height, tip) /\ Spork \in 1..Len(SporkRoots)
  BY <1>1, FetchedAnswers, SporkConfigured
<1>3. ShapeInv'
  BY <1>1, <1>2, CacheKept DEF WalkBack, Remember
<1>4. IndexInv' /\ Linked' /\ EventsAuthentic'
  BY <1>1 DEF IndexerInv, IndexInv, Linked, EventsAuthentic
<1>5. UpInv'
  BY <1>1, UpKept
<1>6. WalkInv'
  <2> DEFINE L == LiveHeight
  <2>1. /\ latest \in Nat /\ L \in Nat /\ height \in Nat
        /\ latest + 1 <= height /\ height <= L - 1
        /\ LiveHeight' = L /\ latest' = latest
        /\ parent = <<height, "main">> \/ parent = <<height, "junk">>
        /\ hashes = [i \in 1..(L - height) |-> <<L + 1 - i, "main">>]
        /\ pending' = {}
    BY <1>1, LastIndexedBlock, Constants
       DEF IndexerInv, WalkInv, Loop, StartHeight, LiveHeight
  <2> HIDE DEF L
  <2>2. CASE Expected(answer) /\ verifyBlockHash(answer)
    <3>1. /\ hashes' = Append(hashes, parent) /\ height' = height - 1
          /\ parent' = answer.parent /\ answer.id = parent
      BY <2>2 DEF WalkBack, Expected
    <3>2. answer.id \in Produced
            /\ (answer.parent = ParentOf(answer.id)
                  \/ answer.parent = <<height - 1, "junk">>)
      BY <1>1, <1>2, AnswersProduced, Constants DEF IndexerInv, ShapeInv
    <3>3. parent # <<height, "junk">>
      BY <3>1, <3>2, ProducedBlocks
    <3>4. parent = <<height, "main">>
      BY <2>1, <3>3
    <3>5. parent' = <<height - 1, "main">> \/ parent' = <<height - 1, "junk">>
      BY <2>1, <3>1, <3>2, <3>4, Parents
    <3>6. hashes' = [i \in 1..(L - (height - 1)) |-> <<L + 1 - i, "main">>]
      <4> DEFINE H == [i \in 1..(L - height) |-> <<L + 1 - i, "main">>]
      <4>1. L - height \in Nat /\ L - (height - 1) = (L - height) + 1
        BY <2>1
      <4>2. L + 1 - (L - height + 1) = height
        BY <2>1
      <4>3. Append(H, <<height, "main">>)
              = [i \in 1..((L - height) + 1) |-> <<L + 1 - i, "main">>]
        BY <4>1, <4>2
      <4> QED
        BY <2>1, <3>1, <3>4, <4>1, <4>3
    <3>7. height - 1 \in latest..(L - 1)
      BY <2>1
    <3> QED
      BY <2>1, <3>1, <3>5, <3>6, <3>7 DEF WalkInv
  <2>3. CASE ~(Expected(answer) /\ verifyBlockHash(answer))
    <3>1. UNCHANGED <<hashes, parent, height>>
      BY <2>3 DEF WalkBack
    <3>2. height \in latest..(L - 1)
      BY <2>1
    <3> QED
      BY <2>1, <3>1, <3>2 DEF WalkInv
  <2> QED
    BY <2>2, <2>3
<1>7. PastInv' /\ LiveInv' /\ SealsInv' /\ RootInv'
  BY <1>1 DEF PastInv, LiveInv, SealsInv, RootInv, Loop
<1> QED
  BY <1>3, <1>4, <1>5, <1>6, <1>7 DEF IndexerInv

LEMMA WalkEndInv ==
  ASSUME IndexerInv, WalkEnd
  PROVE  IndexerInv'
<1>1. /\ pc = "walk" /\ pc \in Up /\ pc' \in {"past", "indexBlocks"} /\ pc' \in Up
      /\ UNCHANGED <<tip, nsporks, disk, cache, exiting, liveRoot, lastIndexed,
                     height, parent, pending>>
  BY DEF WalkEnd, Up, Loops
<1>2. ShapeInv' /\ IndexInv' /\ Linked' /\ EventsAuthentic'
  BY <1>1, Quiet, LastIndexedBlock, Constants DEF IndexerInv, ShapeInv, IndexInv
<1>3. UpInv'
  BY <1>1, UpKept
<1>4. PastInv'
  <2> DEFINE L == LiveHeight
             k == L - height
  <2>1. SUFFICES ASSUME pc' = "past"
                 PROVE  PastInv'
    BY <1>1 DEF PastInv, Loop
  <2>2. /\ latest \in Nat /\ L \in Nat /\ height \in latest..(L - 1)
        /\ height < latest + 1 /\ LiveHeight' = L /\ latest' = latest
        /\ lastIndexed' = lastIndexed /\ pending' = {}
        /\ parent = <<height, "main">> \/ parent = <<height, "junk">>
        /\ hashes = [i \in 1..k |-> <<L + 1 - i, "main">>]
        /\ lastIndexed \in Produced
    BY <1>1, LastIndexedBlock
       DEF WalkEnd, IndexerInv, WalkInv, Loop, StartHeight, LiveHeight, disk
  <2>3. parent = lastIndexed /\ todo' = Reverse(hashes)
    BY <1>1, <2>1 DEF WalkEnd, Connected
  <2>4. lastIndexed[2] = "main"
    BY <2>2, <2>3, ProducedBlocks
  <2>5. k \in Nat /\ L - k = height /\ height = latest
    BY <2>2
  <2> HIDE DEF L, k
  <2>6. Len(hashes) = k
    BY <2>2, <2>5
  <2>7. todo' = [i \in 1..k |-> <<height + i, "main">>]
    <3>1. todo' = [i \in 1..k |-> hashes[k - i + 1]]
      BY <2>3, <2>6 DEF Reverse
    <3>2. ASSUME NEW i \in 1..k
          PROVE  hashes[k - i + 1] = <<height + i, "main">>
      <4>1. k - i + 1 \in 1..k
        BY <2>5
      <4>2. L + 1 - (k - i + 1) = height + i
        BY <2>2, <2>5
      <4> QED
        BY <2>2, <4>1, <4>2
    <3> QED
      BY <3>1, <3>2
  <2>8. Len(todo') = k
    BY <2>5, <2>7
  <2> QED
    BY <2>1, <2>2, <2>4, <2>5, <2>7, <2>8 DEF PastInv, Loop
<1>5. WalkInv' /\ LiveInv' /\ SealsInv' /\ RootInv'
  BY <1>1 DEF WalkInv, LiveInv, SealsInv, RootInv, Loop
<1> QED
  BY <1>2, <1>3, <1>4, <1>5 DEF IndexerInv

LEMMA PastNextInv ==
  ASSUME IndexerInv, PastNext
  PROVE  IndexerInv'
<1>1. /\ pc = "past" /\ pc \in Up /\ pc' \in {"process", "indexBlocks"}
      /\ pc' \in Up /\ (pc' = "process" => job'.ret = "past")
      /\ UNCHANGED <<tip, nsporks, disk, cache, exiting, liveRoot, lastIndexed,
                     pending>>
  BY DEF PastNext, Up, Loops
<1>2. ShapeInv' /\ IndexInv' /\ Linked' /\ EventsAuthentic'
  BY <1>1, Quiet, LastIndexedBlock, Constants DEF IndexerInv, ShapeInv, IndexInv
<1>3. UpInv'
  BY <1>1, UpKept
<1>4. PastInv'
  <2> DEFINE L == LiveHeight
             k == Len(todo)
             F == [i \in 1..k |-> <<L - k + i, "main">>]
  <2>1. SUFFICES ASSUME pc' = "process"
                 PROVE  PastInv'
    BY <1>1 DEF PastInv, Loop
  <2>2. /\ todo # << >> /\ todo' = Tail(todo) /\ job'.id = Head(todo)
        /\ job'.ret = "past"
    BY <1>1, <2>1 DEF PastNext
  <2>3. /\ todo = F /\ latest <= L - k /\ lastIndexed[2] = "main"
        /\ pending' = {} /\ lastIndexed' = lastIndexed /\ latest' = latest
        /\ LiveHeight' = L /\ L \in Nat /\ latest \in Nat
    BY <1>1, LastIndexedBlock
       DEF IndexerInv, PastInv, Loop, disk, LiveHeight
  <2>4. k \in Nat
    BY <1>1 DEF IndexerInv, PastInv, Loop
  <2> HIDE DEF L, k
  <2>5. k # 0 /\ k - 1 \in Nat
    <3>1. k = 0 => todo = << >>
      BY <2>3
    <3> QED
      BY <2>2, <2>4, <3>1
  <2>6. job'.id = <<L - (k - 1), "main">>
    <3>1. 1 \in 1..k /\ L - k + 1 = L - (k - 1)
      BY <2>3, <2>4, <2>5
    <3>2. F[1] = <<L - (k - 1), "main">>
      BY <3>1
    <3> HIDE DEF F
    <3> QED
      BY <2>2, <2>3, <3>2
  <2>7. todo' = [i \in 1..(k - 1) |-> <<L - (k - 1) + i, "main">>]
    <3>1. todo' = [i \in 1..(k - 1) |-> F[i + 1]]
      BY <2>2, <2>3, <2>4, <2>5
    <3>2. ASSUME NEW i \in 1..(k - 1)
          PROVE  F[i + 1] = <<L - (k - 1) + i, "main">>
      <4>1. i + 1 \in 1..k /\ L - k + (i + 1) = L - (k - 1) + i
        BY <2>3, <2>4, <2>5
      <4> QED
        BY <4>1
    <3> HIDE DEF F
    <3> QED
      BY <3>1, <3>2
  <2>8. Len(todo') = k - 1
    BY <2>5, <2>7
  <2>9. latest < L - (k - 1) /\ latest <= L - (k - 1)
    BY <2>3, <2>4
  <2>10. todo' = [i \in 1..Len(todo') |-> <<L - (k - 1) + i, "main">>]
    BY <2>7, <2>8
  <2>11. LiveHeight' - Len(todo') = L - (k - 1) /\ Len(todo') \in Nat
    BY <2>3, <2>5, <2>8
  <2> HIDE DEF F
  <2> QED
    BY <2>1, <2>3, <2>6, <2>9, <2>10, <2>11 DEF PastInv
<1>5. WalkInv' /\ LiveInv' /\ SealsInv' /\ RootInv'
  BY <1>1 DEF WalkInv, LiveInv, SealsInv, RootInv, Loop
<1> QED
  BY <1>2, <1>3, <1>4, <1>5 DEF IndexerInv

\* Blocks of a smaller set are on one branch too.
LEMMA SameBranch ==
  ASSUME NEW S, NEW T, T \subseteq S, OneBranch(S)
  PROVE  OneBranch(T)
BY DEF OneBranch

LEMMA AcceptInv ==
  ASSUME Environment, IndexerInv, Asking, NEW answer, Accept(answer)
  PROVE  IndexerInv'
<1> USE DEF disk
<1>1. /\ pc = "accept" /\ pc' \in {"accept", "seals"} /\ pc \in Up /\ pc' \in Up
      /\ UNCHANGED <<tip, nsporks, disk, exiting, liveRoot, lastIndexed, height,
                     parent, job>>
      /\ height \in Heights /\ answer \in Fetched
  BY DEF Accept, Asking, Up, Loops
<1>2. answer \in Answers(Spork, height, tip) /\ Spork \in 1..Len(SporkRoots)
  BY <1>1, FetchedAnswers, SporkConfigured
<1>3. ShapeInv'
  BY <1>1, <1>2, CacheKept DEF Accept, Remember
<1>4. IndexInv' /\ Linked' /\ EventsAuthentic'
  <2>1. latest # 0
    BY <1>1, LastIndexedBlock, Constants DEF IndexerInv, IndexInv
  <2> QED
    BY <1>1, <2>1 DEF IndexerInv, IndexInv, Linked, EventsAuthentic
<1>5. UpInv'
  BY <1>1, UpKept
<1>6. WalkInv' /\ PastInv' /\ RootInv'
  BY <1>1 DEF WalkInv, PastInv, RootInv, Loop
<1>7. LiveInv
  BY DEF IndexerInv
<1>8. CASE ~Acceptable(answer)
  <2>1. pc' = "accept" /\ UNCHANGED <<block, pending, todo>>
    BY <1>1, <1>8 DEF Accept
  <2>2. LiveInv' /\ SealsInv'
    BY <1>1, <1>7, <2>1 DEF LiveInv, SealsInv, Loop, Spork, OneBranch
  <2> QED
    BY <1>3, <1>4, <1>5, <1>6, <2>2 DEF IndexerInv
<1>9. CASE Acceptable(answer)
  <2> DEFINE b == answer.id
             S == pending \cup {lastIndexed, parent}
  <2>1. /\ pc' = "seals" /\ block' = b /\ pending' = pending \cup {b}
        /\ todo' = Seals[b]
    BY <1>9 DEF Accept
  <2>2. /\ b \in Produced /\ b[1] = height
        /\ answer.parent = ParentOf(b) \/ answer.parent = <<height - 1, "junk">>
        /\ b[2] # "sibling" => b = BlockAt(Spork, height, tip)
    BY <1>1, <1>2, AnswersProduced, Constants DEF IndexerInv, ShapeInv
  <2>3. ParentOf(b) = parent
    <3>1. parent \in Produced /\ answer.parent = parent
      BY <1>1, <1>7, <1>9 DEF LiveInv, Loop, Acceptable
    <3> QED
      BY <2>2, <3>1, ProducedBlocks
  <2>4. UseConsensusFollower => b = BlockAt(Spork, height, tip)
    BY <1>9, <2>2 DEF Acceptable
  <2>5. /\ height \in (Root + 1)..(MaxHeight + 1) /\ latest < height
        /\ parent \in Produced /\ parent[1] = height - 1
        /\ pending \subseteq Produced /\ OneBranch(S)
        /\ \A p \in pending :
             /\ latest < p[1] /\ p[1] <= height
             /\ p[1] = height => /\ ParentOf(p) = parent
                                 /\ UseConsensusFollower
                                 /\ p = BlockAt(Spork, height, tip)
    BY <1>1, <1>7 DEF LiveInv, Loop
  <2>6. lastIndexed \in Produced /\ lastIndexed[1] = latest /\ latest \in Nat
    BY <1>1, LastIndexedBlock
  <2>7. height \in Nat /\ \A p \in S : p[1] \in Nat /\ p[1] <= height
    BY <1>1, <2>5, <2>6, ProducedBlocks, Constants
  <2>8. \A p \in S : p[1] = height => p = b
    BY <2>4, <2>5, <2>6, <2>7
  <2>9. \A p \in S : p[1] + 1 = height => p = parent
    <3>1. ASSUME NEW p \in S, p[1] + 1 = height
          PROVE  p = parent
      <4>1. p[1] = parent[1] /\ parent \in S
        BY <2>5, <2>7, <3>1
      <4> QED
        BY <2>5, <4>1 DEF OneBranch
    <3> QED
      BY <3>1
  <2>10. OneBranch(S \cup {b})
    <3> HIDE DEF S, b
    <3>1. \A p \in S : ~(b[1] + 1 = p[1])
      BY <2>2, <2>7
    <3> QED
      BY <2>2, <2>3, <2>5, <2>7, <2>8, <2>9, <3>1 DEF OneBranch
  <2>11. /\ OneBranch(pending' \cup {lastIndexed, parent})
         /\ OneBranch(pending' \cup {lastIndexed, parent, b})
    <3>1. /\ pending' \cup {lastIndexed, parent} \subseteq S \cup {b}
          /\ pending' \cup {lastIndexed, parent, b} \subseteq S \cup {b}
      BY <2>1
    <3> QED
      BY <2>10, <3>1, SameBranch
  <2>12. LiveInv'
    <3>1. \A p \in pending' :
            /\ latest < p[1] /\ p[1] <= height /\ p \in Produced
            /\ p[1] = height => /\ ParentOf(p) = parent
                                /\ UseConsensusFollower
                                     => p = BlockAt(Spork, height, tip)
      <4>1. b[1] <= height /\ latest < b[1]
        BY <2>2, <2>5, <2>7
      <4> HIDE DEF S, b
      <4> QED
        BY <2>1, <2>2, <2>3, <2>4, <2>5, <4>1
    <3>2. Spork' = Spork /\ BlockAt(Spork, height, tip)' = BlockAt(Spork, height, tip)
      BY <1>1 DEF Spork, BlockAt, Replaced
    <3>3. pending' \subseteq Produced
      BY <3>1
    <3> HIDE DEF S, b
    <3> QED
      BY <1>1, <2>1, <2>5, <2>11, <3>1, <3>2, <3>3 DEF LiveInv, Loop, OneBranch
  <2>13. SealsInv'
    <3>1. /\ Seals[b] \in Seq(Blocks)
          /\ \A i \in DOMAIN Seals[b] :
               Seals[b][i][1] < height /\ Seals[b][i][2] # "sibling"
      BY <2>2, ProducedBlocks, IndexerAssumption
    <3> HIDE DEF S, b
    <3> QED
      BY <1>1, <2>1, <2>2, <2>11, <3>1 DEF SealsInv, Loop, OneBranch
  <2> QED
    BY <1>3, <1>4, <1>5, <1>6, <2>12, <2>13 DEF IndexerInv
<1> QED
  BY <1>8, <1>9

LEMMA SealNextInv ==
  ASSUME IndexerInv, SealNext
  PROVE  IndexerInv'
<1>1. /\ pc = "seals" /\ pc \in Up /\ pc' \in {"seals", "process"} /\ pc' \in Up
      /\ pc' = "process" => /\ job'.ret = "seals" /\ job'.id = Head(todo)
                            /\ Head(todo) \in pending
      /\ todo # << >> /\ todo' = Tail(todo)
      /\ UNCHANGED <<tip, nsporks, disk, cache, exiting, liveRoot, lastIndexed,
                     height, parent, skipCache, hashes, pending, block>>
  BY DEF SealNext, Up, Loops
<1>2. ShapeInv' /\ IndexInv' /\ Linked' /\ EventsAuthentic'
  BY <1>1, Quiet, LastIndexedBlock, Constants DEF IndexerInv, ShapeInv, IndexInv
<1>3. UpInv'
  BY <1>1, UpKept
<1>4. Loop = "seals" /\ Loop' = "seals"
  BY <1>1 DEF Loop
<1>5. WalkInv' /\ PastInv' /\ RootInv'
  BY <1>4 DEF WalkInv, PastInv, RootInv
<1>6. LiveInv'
  BY <1>1, <1>4 DEF IndexerInv, LiveInv, OneBranch, Spork, disk
<1>7. SealsInv'
  <2>1. /\ todo \in Seq(Blocks)
        /\ \A i \in DOMAIN todo : todo[i][1] < height /\ todo[i][2] # "sibling"
    BY <1>4 DEF IndexerInv, SealsInv
  <2>2. /\ Tail(todo) \in Seq(Blocks)
        /\ \A i \in DOMAIN Tail(todo) :
             Tail(todo)[i][1] < height /\ Tail(todo)[i][2] # "sibling"
    BY <1>1, <2>1
  <2>3. Head(todo)[1] < height /\ Head(todo)[2] # "sibling"
    <3>1. Head(todo) = todo[1] /\ 1 \in DOMAIN todo
      BY <1>1, <2>1
    <3> QED
      BY <2>1, <3>1
  <2> QED
    BY <1>1, <1>4, <2>2, <2>3 DEF IndexerInv, SealsInv, OneBranch
<1> QED
  BY <1>2, <1>3, <1>5, <1>6, <1>7 DEF IndexerInv

LEMMA SealUnknownInv ==
  ASSUME IndexerInv, SealUnknown
  PROVE  IndexerInv'
<1>1. /\ pc = "seals" /\ pc \in Up /\ pc' = "accept" /\ pc' \in Up
      /\ UseConsensusFollower
      /\ UNCHANGED <<tip, nsporks, disk, cache, exiting, liveRoot, lastIndexed,
                     height, parent, pending>>
  BY DEF SealUnknown, Up, Loops
<1>2. ShapeInv' /\ IndexInv' /\ Linked' /\ EventsAuthentic'
  BY <1>1, Quiet, LastIndexedBlock, Constants DEF IndexerInv, ShapeInv, IndexInv
<1>3. UpInv'
  BY <1>1, UpKept
<1>4. LiveInv'
  BY <1>1 DEF IndexerInv, LiveInv, Loop, OneBranch, Spork, disk
<1>5. WalkInv' /\ PastInv' /\ SealsInv' /\ RootInv'
  BY <1>1 DEF WalkInv, PastInv, SealsInv, RootInv, Loop
<1> QED
  BY <1>2, <1>3, <1>4, <1>5 DEF IndexerInv

LEMMA SealsDoneInv ==
  ASSUME IndexerInv, SealsDone
  PROVE  IndexerInv'
<1>1. /\ pc = "seals" /\ pc \in Up /\ pc' = "accept" /\ pc' \in Up
      /\ height' = height + 1 /\ parent' = block
      /\ UNCHANGED <<tip, nsporks, disk, cache, exiting, liveRoot, lastIndexed,
                     pending>>
  BY DEF SealsDone, Up, Loops
<1>2. ShapeInv' /\ IndexInv' /\ Linked' /\ EventsAuthentic'
  BY <1>1, Quiet, LastIndexedBlock, Constants DEF IndexerInv, ShapeInv, IndexInv
<1>3. UpInv'
  BY <1>1, UpKept
<1>4. LiveInv'
  <2>1. /\ height \in Heights /\ latest < height /\ latest \in Nat
        /\ block \in Produced /\ block[1] = height
        /\ OneBranch(pending \cup {lastIndexed, parent, block})
        /\ pending \subseteq Produced
        /\ \A p \in pending : latest < p[1] /\ p[1] <= height
    BY <1>1, LastIndexedBlock DEF IndexerInv, LiveInv, SealsInv, Loop
  <2>2. OneBranch(pending \cup {lastIndexed, block})
    <3>1. pending \cup {lastIndexed, block}
            \subseteq pending \cup {lastIndexed, parent, block}
      OBVIOUS
    <3> QED
      BY <2>1, <3>1, SameBranch
  <2>3. /\ height \in Nat /\ height + 1 \in (Root + 1)..(MaxHeight + 1)
        /\ latest < height + 1 /\ (height + 1) - 1 = height
    BY <2>1, Constants DEF Heights
  <2>4. \A p \in pending : /\ p[1] <= height + 1 /\ p[1] # height + 1
    BY <2>1, <2>3, ProducedBlocks
  <2> QED
    BY <1>1, <2>1, <2>2, <2>3, <2>4 DEF LiveInv, OneBranch, disk
<1>5. WalkInv' /\ PastInv' /\ SealsInv' /\ RootInv'
  BY <1>1 DEF WalkInv, PastInv, SealsInv, RootInv, Loop
<1> QED
  BY <1>2, <1>3, <1>4, <1>5 DEF IndexerInv

(***************************************************************************)
(* processBlock.                                                           *)
(***************************************************************************)

\* The remainder of a difference of machine integers is the difference, or
\* larger if it wraps around.
LEMMA Wraps ==
  ASSUME NEW x \in Int, NEW w \in Nat, x < w, 0 - w < x
  PROVE  x <= x % w
<1>1. CASE x >= 0
  <2>1. x % w = x
    BY <1>1
  <2> QED
    BY <2>1
<1>2. CASE x < 0
  <2>1. x % w >= 0
    BY <1>2
  <2> QED
    BY <1>2, <2>1
<1> QED
  BY <1>1, <1>2

\* A block that is processed without its events being checked is one of the
\* exceptions of EventsAuthentic.
LEMMA Exceptions ==
  ASSUME IndexerInv, JobHeight \in Heights, SealSettled, ~ EventsChecked
  PROVE  \/ JobHeight \in SkipBlocks \cup Roots
         \/ \E r \in Roots : r > JobHeight /\ JobHeight >= r - SporkSealTolerance
<1> DEFINE s == JobSpork
           n == nsporks
<1>1. n \in 1..Len(SporkRoots) /\ JobHeight \in Nat /\ Root <= JobHeight
  BY Constants DEF IndexerInv, ShapeInv, Heights
<1>2. /\ s \in 1..n /\ SporkRoots[s] <= JobHeight
      /\ \A t \in (s + 1)..n : JobHeight < SporkRoots[t]
  BY <1>1, SporkForCorrect DEF JobSpork
<1>3. CASE Skipped
  BY <1>3 DEF Skipped
<1>4. CASE SelfSealed
  BY <1>1, <1>2, <1>4, Constants DEF SelfSealed, Roots
<1>5. CASE Tolerated
  <2> DEFINE r == SporkRoots[s + 1]
             x == r - SporkSealTolerance
  <2>1. s < n /\ JobHeight >= x % Word
    BY <1>5 DEF Tolerated
  <2>2. /\ s + 1 \in (s + 1)..n /\ s + 1 \in 1..Len(SporkRoots)
        /\ s + 1 \in DOMAIN SporkRoots
    BY <1>1, <1>2, <2>1, Constants
  <2>3. r \in Heights /\ r \in Roots /\ r > JobHeight
    <3>1. r \in Heights /\ r \in Roots /\ JobHeight < r
      BY <1>2, <2>2, Constants DEF Roots
    <3>2. r \in Nat
      BY <3>1, Constants
    <3> QED
      BY <1>1, <3>1, <3>2
  <2>4. /\ r \in Nat /\ r <= MaxHeight /\ MaxHeight < Word /\ MaxHeight \in Nat
        /\ Word \in Nat /\ SporkSealTolerance \in 0..(Word - 1) /\ r >= 1
    BY <2>3, Constants, IndexerAssumption DEF Heights
  <2> HIDE DEF r
  <2>5. x \in Int /\ x < Word /\ 0 - Word < x
    BY <2>4
  <2>6. x <= x % Word /\ x % Word \in Int
    BY <2>4, <2>5, Wraps
  <2>7. JobHeight >= x
    BY <1>1, <2>1, <2>5, <2>6
  <2> QED
    BY <2>3, <2>7
<1> QED
  BY <1>3, <1>4, <1>5 DEF SealSettled, EventsChecked

\* The block in hand comes after the latest one, and if it is the next one it
\* follows the latest one.
LEMMA NextInLine ==
  ASSUME IndexerInv, pc = "process"
  PROVE  /\ job.id \in Produced /\ job.id[2] # "sibling"
         /\ JobHeight \in Heights /\ JobHeight \in Nat /\ latest < JobHeight
         /\ JobHeight <= latest + 1 =>
              JobHeight = latest + 1 /\ ParentOf(job.id) = lastIndexed
<1>1. pc \in Up /\ job.ret \in {"past", "accept", "seals"} /\ Loop = job.ret
  BY DEF Up, IndexerInv, ShapeInv, Loop
<1>2. /\ latest \in Nat /\ latest \in Heights /\ lastIndexed[1] = latest
      /\ lastIndexed = <<latest, lastIndexed[2]>>
      /\ LiveHeight \in Nat /\ LiveHeight \in Heights
  BY <1>1, LastIndexedBlock
<1>4. CASE job.ret = "seals"
  <2>1. /\ job.id \in pending /\ pending \subseteq Produced
        /\ latest < job.id[1] /\ job.id[2] # "sibling"
        /\ OneBranch(pending \cup {lastIndexed, parent})
    BY <1>1, <1>4 DEF IndexerInv, LiveInv, SealsInv
  <2>2. JobHeight \in Heights /\ JobHeight \in Nat /\ JobHeight = job.id[1]
    BY <2>1, ProducedBlocks DEF JobHeight
  <2>3. JobHeight <= latest + 1 => JobHeight = latest + 1
    BY <1>2, <2>1, <2>2
  <2>4. lastIndexed[1] + 1 = job.id[1] => ParentOf(job.id) = lastIndexed
    BY <2>1 DEF OneBranch
  <2> QED
    BY <1>2, <2>1, <2>2, <2>3, <2>4
<1>5. CASE job.ret = "accept"
  <2>1. /\ job.id = <<LiveHeight, "main">> /\ parent = job.id
        /\ latest < LiveHeight /\ lastIndexed[1] + 1 = LiveHeight
        /\ parent \in Produced /\ OneBranch(pending \cup {lastIndexed, parent})
    BY <1>1, <1>5 DEF IndexerInv, LiveInv, RootInv
  <2>2. JobHeight = LiveHeight /\ job.id[1] = LiveHeight /\ job.id[2] = "main"
    BY <2>1 DEF JobHeight
  <2>3. ParentOf(job.id) = lastIndexed
    BY <2>1, <2>2 DEF OneBranch
  <2> QED
    BY <1>2, <2>1, <2>2, <2>3
<1>6. CASE job.ret = "past"
  <2> DEFINE n == LiveHeight - Len(todo)
  <2>1. /\ job.id = <<n, "main">> /\ latest < n /\ lastIndexed[2] = "main"
        /\ Len(todo) \in Nat
    BY <1>1, <1>6 DEF IndexerInv, PastInv
  <2>2. n \in Nat /\ n <= LiveHeight
    BY <1>2, <2>1
  <2>3. n \in Heights
    BY <1>2, <2>1, <2>2, Constants DEF Heights
  <2> HIDE DEF n
  <2>4. job.id \in Produced /\ JobHeight = n /\ job.id[2] = "main"
    BY <2>1, <2>3 DEF Produced, Blocks, JobHeight
  <2>5. n = latest + 1 => ParentOf(job.id) = lastIndexed
    <3>1. ParentOf(<<n, "main">>) = <<n - 1, "main">>
      BY <2>2, Parents
    <3> QED
      BY <1>2, <2>1, <3>1
  <2> QED
    BY <1>2, <2>1, <2>2, <2>3, <2>4, <2>5
<1> QED
  BY <1>1, <1>4, <1>5, <1>6

\* The index after the next block.
LEMMA Indexed ==
  ASSUME IndexerInv, ~ exiting \/ Ready,
         pc = "process", NEW ok \in BOOLEAN, ProcessBlock(ok)
  PROVE  IndexInv' /\ Linked' /\ EventsAuthentic'
<1> DEFINE j == JobHeight
           e == Entry(job.id, ok)
<1>1. pc \in Up /\ SealSettled /\ JobHeight <= latest + 1
  BY DEF Up, ProcessBlock, MayIndex, Ready
<1>2. /\ latest \in Nat /\ latest \in Heights
      /\ lastIndexed = chain[latest].id
  BY <1>1, LastIndexedBlock DEF IndexerInv, UpInv
<1>3. /\ job.id \in Produced /\ job.id[2] # "sibling" /\ job.id[1] = j
      /\ j \in Heights /\ j \in Nat /\ j = latest + 1 /\ ParentOf(job.id) = lastIndexed
  BY <1>1, NextInLine DEF JobHeight
<1>4. /\ chain' = [chain EXCEPT ![j] = e] /\ latest' = j
      /\ DOMAIN chain = Heights
  BY <1>2, <1>3 DEF ProcessBlock, IndexerInv, IndexInv
<1>5. e \in [id : Produced, ok : BOOLEAN] /\ e.id = job.id /\ e.ok = ok
  BY <1>3, EntryFields
<1> HIDE DEF e
<1>6. chain'[j] = e /\ \A h \in Heights : h # j => chain'[h] = chain[h]
  BY <1>3, <1>4
<1>7. \A h \in Heights : h \in Nat /\ (h > j <=> h > latest /\ h # j)
  BY <1>2, <1>3, Constants
<1>8. IndexInv'
  <2>1. DOMAIN chain' = Heights /\ latest' \in Heights /\ latest' # 0
    BY <1>3, <1>4, <1>2
  <2>2. ASSUME NEW h \in Heights
        PROVE  IF h > latest'
                 THEN chain'[h] = None
                 ELSE /\ chain'[h] \in [id : Produced, ok : BOOLEAN]
                      /\ chain'[h].id[1] = h
                      /\ chain'[h].id[2] # "sibling"
    <3>1. CASE h = j
      BY <1>3, <1>4, <1>5, <1>6, <1>7, <3>1
    <3>2. CASE h # j
      <4>1. chain'[h] = chain[h] /\ (h > latest' <=> h > latest)
        BY <1>4, <1>6, <1>7, <3>2
      <4> QED
        BY <4>1 DEF IndexerInv, IndexInv
    <3> QED
      BY <3>1, <3>2
  <2> QED
    BY <2>1, <2>2 DEF IndexInv
<1>9. Linked'
  <2>1. ASSUME NEW h \in (Root + 1)..j
        PROVE  /\ chain'[h] # None /\ chain'[h - 1] # None
               /\ ParentOf(chain'[h].id) = chain'[h - 1].id
    <3>1. h \in Heights /\ h - 1 \in Heights /\ h - 1 # j /\ h \in Nat
      BY <1>2, <1>3, Constants DEF Heights
    <3>2. CASE h = j
      <4>1. chain'[h] = e /\ h - 1 = latest /\ chain'[h - 1] = chain[latest]
        BY <1>2, <1>3, <1>6, <3>1, <3>2
      <4>2. chain[latest] \in [id : Produced, ok : BOOLEAN]
        BY <1>2 DEF IndexerInv, IndexInv
      <4> QED
        BY <1>2, <1>3, <1>5, <4>1, <4>2, EntryExists
    <3>3. CASE h # j
      <4>1. chain'[h] = chain[h] /\ chain'[h - 1] = chain[h - 1]
              /\ h \in (Root + 1)..latest
        BY <1>2, <1>3, <1>6, <3>1, <3>3, Constants
      <4> QED
        BY <4>1 DEF IndexerInv, Linked
    <3> QED
      BY <3>2, <3>3
  <2> QED
    BY <1>4, <2>1 DEF Linked
<1>10. EventsAuthentic'
  <2>1. \/ e.ok
        \/ j \in SkipBlocks \cup Roots
        \/ \E r \in Roots : r > j /\ j >= r - SporkSealTolerance
    <3>1. ok \/ (SealSettled /\ ~ EventsChecked)
      BY <1>1 DEF ProcessBlock
    <3> QED
      BY <1>3, <1>5, <3>1, Exceptions
  <2>2. ASSUME NEW h \in Heights
        PROVE  \/ chain'[h] = None \/ chain'[h].ok
               \/ h \in SkipBlocks \cup Roots
               \/ \E r \in Roots : r > h /\ h >= r - SporkSealTolerance
    <3>1. CASE h = j
      BY <1>6, <2>1, <3>1
    <3>2. CASE h # j
      BY <1>6, <3>2 DEF IndexerInv, EventsAuthentic
    <3> QED
      BY <3>1, <3>2
  <2> QED
    BY <2>2 DEF EventsAuthentic
<1> QED
  BY <1>8, <1>9, <1>10

LEMMA ProcessBlockInv ==
  ASSUME IndexerInv, ~ exiting \/ Ready, NEW ok \in BOOLEAN, ProcessBlock(ok)
  PROVE  IndexerInv'
<1> DEFINE j == JobHeight
<1>1. pc = "process" /\ pc \in Up /\ job.ret \in {"past", "accept", "seals"}
        /\ Loop = job.ret
  BY DEF ProcessBlock, Up, Loop, IndexerInv, ShapeInv
<1>2. /\ latest \in Nat /\ lastIndexed \in Produced /\ LiveHeight \in Nat
  BY <1>1, LastIndexedBlock
<1>3. /\ job.id \in Produced /\ job.id[2] # "sibling" /\ job.id[1] = j
      /\ j \in Heights /\ j \in Nat /\ j = latest + 1
  BY <1>1, NextInLine DEF ProcessBlock, JobHeight, MayIndex, Ready
<1>4. /\ chain' = [chain EXCEPT ![j] = Entry(job.id, ok)] /\ latest' = j
      /\ lastIndexed' = job.id /\ pending' = pending \ {job.id}
      /\ pc' = job.ret /\ Loop' = job.ret
      /\ UNCHANGED <<tip, nsporks, cache, exiting, liveRoot, height, parent,
                     block, todo>>
  BY <1>1, <1>2, <1>3 DEF ProcessBlock, Return, Loop
<1>5. IndexInv' /\ Linked' /\ EventsAuthentic'
  BY <1>1, Indexed
<1>6. ShapeInv'
  BY <1>1, <1>4 DEF IndexerInv, ShapeInv, Up, Loops
<1>7. UpInv'
  <2>1. chain'[j].id = job.id
    BY <1>3, <1>4, EntryFields DEF IndexerInv, IndexInv
  <2> QED
    BY <1>1, <1>4, <2>1 DEF IndexerInv, UpInv, LiveHeight
<1>8. WalkInv' /\ RootInv'
  BY <1>1, <1>4 DEF WalkInv, RootInv
<1>9. CASE job.ret = "past"
  <2> DEFINE n == LiveHeight - Len(todo)
  <2>1. /\ Len(todo) \in Nat /\ todo = [i \in 1..Len(todo) |-> <<n + i, "main">>]
        /\ pending = {} /\ job.id = <<n, "main">>
    BY <1>1, <1>9 DEF IndexerInv, PastInv
  <2>2. n = j /\ LiveHeight' = LiveHeight /\ job.id[2] = "main" /\ j <= n
    BY <1>3, <1>4, <2>1 DEF LiveHeight
  <2>3. PastInv'
    BY <1>4, <1>9, <2>1, <2>2 DEF PastInv
  <2>4. LiveInv' /\ SealsInv'
    BY <1>4, <1>9 DEF LiveInv, SealsInv
  <2> QED
    BY <1>5, <1>6, <1>7, <1>8, <2>3, <2>4 DEF IndexerInv
<1>10. CASE job.ret \in {"accept", "seals"}
  <2>1. /\ height \in (Root + 1)..(MaxHeight + 1)
        /\ parent \in Produced /\ parent[1] = height - 1
        /\ pending \subseteq Produced
        /\ OneBranch(pending \cup {lastIndexed, parent})
        /\ \A p \in pending :
             /\ latest < p[1] /\ p[1] <= height
             /\ p[1] = height => /\ height \in Heights
                                 /\ ParentOf(p) = parent
                                 /\ UseConsensusFollower
                                      => p = BlockAt(Spork, height, tip)
    BY <1>1, <1>10 DEF IndexerInv, LiveInv
  <2>2. height \in Nat
    BY <2>1, Constants
  <2>3. j < height /\ job.id \in pending \cup {parent}
    <3>1. CASE job.ret = "accept"
      BY <1>1, <1>2, <1>3, <2>1, <2>2, <3>1 DEF IndexerInv, RootInv
    <3>2. CASE job.ret = "seals"
      BY <1>1, <1>3, <3>2 DEF IndexerInv, SealsInv
    <3> QED
      BY <1>10, <3>1, <3>2
  <2>4. OneBranch(pending' \cup {lastIndexed', parent})
    <3>1. pending' \cup {lastIndexed', parent}
            \subseteq pending \cup {lastIndexed, parent}
      BY <1>4, <2>3
    <3> QED
      BY <2>1, <3>1, SameBranch
  <2>5. \A p \in pending' : j < p[1]
    <3>1. ASSUME NEW p \in pending'
          PROVE  j < p[1]
      <4>1. p \in pending /\ p # job.id /\ latest < p[1] /\ p[1] \in Nat
        BY <1>4, <2>1, ProducedBlocks
      <4>2. p[1] # job.id[1]
        BY <2>1, <2>3, <4>1 DEF OneBranch
      <4> QED
        BY <1>2, <1>3, <4>1, <4>2
    <3> QED
      BY <3>1
  <2>6. pc' = "accept" => \A p \in pending' : p[1] # height
    BY <1>1, <1>4 DEF IndexerInv, RootInv
  <2>7. Spork' = Spork /\ BlockAt(Spork, height, tip)' = BlockAt(Spork, height, tip)
    BY <1>4 DEF Spork, BlockAt, Replaced
  <2>8. LiveInv'
    <3>1. pending' \subseteq pending
      BY <1>4
    <3>2. /\ height' = height /\ parent' = parent /\ latest' = j
          /\ OneBranch(pending' \cup {lastIndexed', parent'})
      BY <1>4, <2>4
    <3> HIDE DEF j
    <3> QED
      BY <2>1, <2>3, <2>5, <2>6, <2>7, <3>1, <3>2 DEF LiveInv, OneBranch
  <2>9. SealsInv'
    <3>1. SUFFICES ASSUME job.ret = "seals"
                   PROVE  SealsInv'
      BY <1>4 DEF SealsInv
    <3>2. /\ height \in Heights /\ block \in Produced /\ block[1] = height
          /\ OneBranch(pending \cup {lastIndexed, parent, block})
          /\ todo \in Seq(Blocks)
          /\ \A i \in DOMAIN todo : todo[i][1] < height /\ todo[i][2] # "sibling"
      BY <1>1, <3>1 DEF IndexerInv, SealsInv
    <3>3. OneBranch(pending' \cup {lastIndexed', parent, block})
      <4>1. pending' \cup {lastIndexed', parent, block}
              \subseteq pending \cup {lastIndexed, parent, block}
        BY <1>4, <2>3
      <4> QED
        BY <3>2, <4>1, SameBranch
    <3> QED
      BY <1>4, <3>1, <3>2, <3>3 DEF SealsInv, OneBranch
  <2>10. PastInv'
    BY <1>4, <1>10 DEF PastInv
  <2> QED
    BY <1>5, <1>6, <1>7, <1>8, <2>8, <2>9, <2>10 DEF IndexerInv
<1> QED
  BY <1>1, <1>9, <1>10

LEMMA AbandonInv ==
  ASSUME IndexerInv, Abandon
  PROVE  IndexerInv'
<1>1. /\ pc = "process" /\ pc \in Up /\ job.ret \in {"past", "accept", "seals"}
      /\ Loop = job.ret
  BY DEF Abandon, Up, Loop, IndexerInv, ShapeInv
<1>2. /\ pending' = pending \ {job.id} /\ pc' = job.ret /\ Loop' = job.ret
      /\ pc' \in Up
      /\ UNCHANGED <<tip, nsporks, disk, cache, exiting, liveRoot, lastIndexed,
                     height, parent, block, todo>>
  BY <1>1 DEF Abandon, Return, Loop, Up, Loops
<1>3. ShapeInv' /\ IndexInv' /\ Linked' /\ EventsAuthentic'
  BY <1>1, <1>2, Quiet, LastIndexedBlock, Constants
     DEF IndexerInv, ShapeInv, IndexInv
<1>4. UpInv'
  BY <1>1, <1>2, UpKept
<1>5. WalkInv' /\ RootInv'
  BY <1>1, <1>2 DEF WalkInv, RootInv
<1>6. PastInv'
  <2>1. SUFFICES ASSUME job.ret = "past"
                 PROVE  PastInv'
    BY <1>2 DEF PastInv
  <2>2. pending' = {} /\ LiveHeight' = LiveHeight /\ latest' = latest
    BY <1>1, <1>2, <2>1 DEF IndexerInv, PastInv, LiveHeight, disk
  <2> QED
    BY <1>1, <1>2, <2>1, <2>2 DEF IndexerInv, PastInv
<1>7. LiveInv'
  <2>1. SUFFICES ASSUME job.ret \in {"accept", "seals"}
                 PROVE  LiveInv'
    BY <1>2 DEF LiveInv
  <2>2. OneBranch(pending' \cup {lastIndexed, parent})
    <3>1. OneBranch(pending \cup {lastIndexed, parent})
      BY <1>1, <2>1 DEF IndexerInv, LiveInv
    <3>2. pending' \cup {lastIndexed, parent}
            \subseteq pending \cup {lastIndexed, parent}
      BY <1>2
    <3> QED
      BY <3>1, <3>2, SameBranch
  <2>3. pc' = "accept" => pending' = {}
    BY <1>1, <1>2 DEF IndexerInv, RootInv
  <2>4. Spork' = Spork /\ BlockAt(Spork, height, tip)' = BlockAt(Spork, height, tip)
    BY <1>2 DEF Spork, BlockAt, Replaced
  <2> QED
    BY <1>1, <1>2, <2>1, <2>2, <2>3, <2>4
       DEF IndexerInv, LiveInv, OneBranch, disk
<1>8. SealsInv'
  <2>1. SUFFICES ASSUME job.ret = "seals"
                 PROVE  SealsInv'
    BY <1>2 DEF SealsInv
  <2>2. OneBranch(pending' \cup {lastIndexed, parent, block})
    <3>1. OneBranch(pending \cup {lastIndexed, parent, block})
      BY <1>1, <2>1 DEF IndexerInv, SealsInv
    <3>2. pending' \cup {lastIndexed, parent, block}
            \subseteq pending \cup {lastIndexed, parent, block}
      BY <1>2
    <3> QED
      BY <3>1, <3>2, SameBranch
  <2> QED
    BY <1>1, <1>2, <2>1, <2>2 DEF IndexerInv, SealsInv, OneBranch
<1> QED
  BY <1>3, <1>4, <1>5, <1>6, <1>7, <1>8 DEF IndexerInv

(***************************************************************************)
(* No fatal error: the steps keep SteadyInv.                               *)
(***************************************************************************)

\* The heights of roots are ordered.
LEMMA RootsOrdered ==
  ASSUME NEW s \in 1..Len(SporkRoots), NEW t \in 1..Len(SporkRoots)
  PROVE  /\ SporkRoots[s] \in Nat /\ SporkRoots[t] \in Nat
         /\ s \in Nat /\ t \in Nat
         /\ s < t => SporkRoots[s] < SporkRoots[t]
         /\ s <= t => SporkRoots[s] <= SporkRoots[t]
<1>1. /\ SporkRoots[s] \in Nat /\ SporkRoots[t] \in Nat
      /\ s \in Nat /\ t \in Nat
      /\ s \in DOMAIN SporkRoots /\ t \in DOMAIN SporkRoots
  <2>1. SporkRoots[s] \in Heights /\ SporkRoots[t] \in Heights
    BY Constants
  <2>2. SporkRoots[s] \in Nat /\ SporkRoots[t] \in Nat
    BY <2>1, Constants
  <2>3. Len(SporkRoots) \in Nat /\ DOMAIN SporkRoots = 1..Len(SporkRoots)
    BY Constants
  <2> QED
    BY <2>2, <2>3
<1>2. s < t => SporkRoots[s] < SporkRoots[t]
  BY <1>1, IndexerAssumption
<1>3. s <= t => SporkRoots[s] <= SporkRoots[t]
  <2>1. CASE s < t
    BY <1>1, <1>2, <2>1
  <2>2. CASE s = t
    BY <1>1, <2>2
  <2> QED
    BY <1>1, <2>1, <2>2
<1> QED
  BY <1>1, <1>2, <1>3

\* A block and its parent are on one branch.
LEMMA AncestorOfParent ==
  ASSUME NEW b \in Produced, NEW h \in Int, h < b[1]
  PROVE  Ancestor(b, h) = Ancestor(ParentOf(b), h)
<1>1. b[1] \in Nat /\ b[2] \in {"main", "old", "sibling"}
  BY ProducedBlocks
<1>2. \A r \in Roots : r \in Nat
  BY Constants DEF Roots
<1>3. h # b[1] /\ (h = b[1] - 1 \/ h < b[1] - 1) /\ b[1] - 1 \in Int
  BY <1>1
<1>4. CASE b[2] = "old" /\ b[1] \notin Roots
  <2>1. ParentOf(b) = <<b[1] - 1, "old">>
    BY <1>4 DEF ParentOf
  <2>2. \A r \in Roots : (r <= h \/ b[1] < r) <=> (r <= h \/ b[1] - 1 < r)
    BY <1>1, <1>2, <1>4
  <2>3. h = b[1] - 1 => \A r \in Roots : r <= h \/ b[1] < r
    BY <1>1, <1>2, <1>4
  <2> QED
    BY <1>3, <1>4, <2>1, <2>2, <2>3 DEF Ancestor
<1>5. CASE ~(b[2] = "old" /\ b[1] \notin Roots)
  <2>1. ParentOf(b) = <<b[1] - 1, "main">>
    BY <1>1, <1>5 DEF ParentOf
  <2>2. ~(b[2] = "old" /\ \A r \in Roots : r <= h \/ b[1] < r)
    BY <1>1, <1>2, <1>5
  <2>3. Ancestor(b, h) = <<h, "main">>
    BY <1>3, <2>2 DEF Ancestor
  <2>4. Ancestor(ParentOf(b), h) = <<h, "main">>
    BY <2>1 DEF Ancestor
  <2> QED
    BY <2>3, <2>4
<1> QED
  BY <1>4, <1>5

\* The block in hand is the next one and its seal is known: log.Fatalf is not
\* called.
LEMMA ReadyHolds ==
  ASSUME PastSealed, NEW upTo, SealsInOrder(upTo), IndexerInv, SteadyInv(upTo)
  PROVE  Ready
<1>1. SUFFICES ASSUME pc = "process"
               PROVE  SealSettled /\ JobHeight <= latest + 1
  BY DEF Ready
<1>2. pc \in Up /\ job.ret \in {"past", "accept", "seals"} /\ Loop = job.ret
  BY <1>1 DEF Up, IndexerInv, ShapeInv, Loop
<1>3. /\ latest \in Nat /\ latest \in Heights /\ lastIndexed[1] = latest
      /\ LiveHeight \in Nat /\ LiveHeight \in Heights
  BY <1>2, LastIndexedBlock
<1>4. /\ nsporks \in 1..Len(SporkRoots) /\ nsporks \in Nat
      /\ Len(SporkRoots) \in Nat /\ Root \in Nat /\ Root <= latest
  BY <1>3, Constants DEF IndexerInv, ShapeInv, Heights
<1>5. /\ job.id \in Produced /\ JobHeight \in Nat /\ latest < JobHeight
      /\ Root <= JobHeight /\ JobHeight = job.id[1]
  BY <1>1, <1>3, NextInLine, Constants DEF Heights, JobHeight
<1> DEFINE s == JobSpork
           j == JobHeight
<1>6. /\ s \in 1..nsporks /\ SporkRoots[s] <= j
      /\ \A t \in (s + 1)..nsporks : j < SporkRoots[t]
  BY <1>4, <1>5, SporkForCorrect DEF JobSpork
<1>7. s \in 1..Len(SporkRoots) /\ SporkRoots[s] \in Nat
  BY <1>4, <1>6, RootsOrdered
<1>8. s = 1 => SporkRoots[s] < j
  BY <1>3, <1>4, <1>5 DEF Root
<1>9. j = SporkRoots[s] => SelfSealed
  BY <1>4, <1>6, <1>7, <1>8 DEF SelfSealed
<1> HIDE DEF s, j
<1>10. CASE job.ret = "past"
  <2> DEFINE n == LiveHeight - Len(todo)
  <2>1. /\ Len(todo) \in Nat /\ job.id = <<n, "main">> /\ latest = n - 1
        /\ \A k \in (latest + 1)..(LiveHeight - 1) :
             \A x \in ToSet(Seals[<<k, "main">>]) : x[1] > latest => x \in sealed
    BY <1>1, <1>2, <1>10 DEF IndexerInv, PastInv, SteadyInv, PastSteady
  <2>2. j = n /\ n = latest + 1 /\ n <= LiveHeight /\ n \in Nat
    BY <1>3, <1>5, <2>1 DEF j
  <2> HIDE DEF n
  <2>3. CASE j = SporkRoots[s]
    BY <1>5, <1>9, <2>2, <2>3 DEF SealSettled, j
  <2>4. CASE j # SporkRoots[s]
    <3>1. s \in Nat /\ s < nsporks
      <4>1. s = nsporks => SporkRoots[s] = LiveHeight
        BY DEF LiveHeight
      <4> QED
        BY <1>3, <1>4, <1>6, <1>7, <2>2, <2>4, <4>1
    <3>2. s + 1 \in (s + 1)..nsporks /\ s + 1 \in 1..Len(SporkRoots)
            /\ s \in 1..(Len(SporkRoots) - 1)
      BY <1>4, <1>7, <3>1
    <3>3. /\ SporkRoots[s + 1] \in Nat /\ j < SporkRoots[s + 1]
          /\ SporkRoots[s + 1] <= LiveHeight
      BY <1>4, <1>6, <3>1, <3>2, RootsOrdered DEF LiveHeight
    <3>4. j \in (SporkRoots[s] + 1)..(SporkRoots[s + 1] - 1)
      BY <1>6, <1>7, <2>2, <2>4, <3>3
    <3>5. \/ j \in SkipBlocks
          \/ j >= (SporkRoots[s + 1] - SporkSealTolerance) % Word
          \/ \E k \in (j + 1)..(SporkRoots[s + 1] - 1) :
               <<j, "main">> \in ToSet(Seals[<<k, "main">>])
      BY <3>2, <3>4 DEF PastSealed
    <3>6. CASE j \in SkipBlocks
      BY <2>2, <1>5, <3>6 DEF SealSettled, Skipped, j
    <3>7. CASE j >= (SporkRoots[s + 1] - SporkSealTolerance) % Word
      BY <1>5, <2>2, <3>1, <3>7 DEF SealSettled, Tolerated, s, j
    <3>8. CASE \E k \in (j + 1)..(SporkRoots[s + 1] - 1) :
                 <<j, "main">> \in ToSet(Seals[<<k, "main">>])
      <4>1. PICK k \in (j + 1)..(SporkRoots[s + 1] - 1) :
              <<j, "main">> \in ToSet(Seals[<<k, "main">>])
        BY <3>8
      <4>2. k \in (latest + 1)..(LiveHeight - 1) /\ j > latest
        BY <1>3, <2>2, <3>3
      <4>3. <<j, "main">> \in sealed
        BY <2>1, <4>1, <4>2
      <4> QED
        BY <1>5, <2>1, <2>2, <4>3 DEF SealSettled, j
    <3> QED
      BY <3>5, <3>6, <3>7, <3>8
  <2> QED
    BY <2>3, <2>4
<1>11. CASE job.ret = "accept"
  <2>1. job.id = <<LiveHeight, "main">> /\ latest + 1 = LiveHeight
    BY <1>1, <1>2, <1>3, <1>11 DEF IndexerInv, RootInv
  <2>2. j = LiveHeight
    BY <1>5, <2>1 DEF j
  <2>3. s = nsporks
    <3>1. s \in Nat /\ (s = nsporks \/ nsporks \in (s + 1)..nsporks)
      BY <1>4, <1>6
    <3> QED
      BY <1>3, <1>6, <2>2, <3>1 DEF LiveHeight
  <2>4. j = SporkRoots[s]
    BY <2>2, <2>3 DEF LiveHeight
  <2> QED
    BY <1>3, <1>9, <2>1, <2>2, <2>4 DEF SealSettled, j
<1>12. CASE job.ret = "seals"
  <2> DEFINE seen == SeenUpTo(upTo)
  <2>1. /\ job.id \in sealed /\ job.id[1] = seen
        /\ \A h \in (latest + 1)..(height - 1) :
             \E p \in pending \cup {job.id} : p[1] = h
        /\ \A p \in pending : p = job.id \/ p[1] > seen
    BY <1>1, <1>2, <1>12
       DEF SteadyInv, LiveSteady, SealsSteady, InHand
  <2>2. job.id[1] < height /\ height \in Heights /\ pending \subseteq Produced
    BY <1>1, <1>2, <1>12 DEF IndexerInv, SealsInv, LiveInv
  <2> HIDE DEF seen
  <2>3. latest + 1 \in (latest + 1)..(height - 1) /\ height \in Nat
    BY <1>3, <1>5, <2>2, Constants
  <2>4. PICK p \in pending \cup {job.id} : p[1] = latest + 1
    BY <2>1, <2>3
  <2>5. p = job.id
    <3>1. SUFFICES ASSUME p \in pending, p[1] > seen
                   PROVE  FALSE
      BY <2>1, <2>4
    <3> QED
      BY <1>3, <1>5, <2>1, <2>4, <3>1
  <2> QED
    BY <1>3, <1>5, <2>1, <2>4, <2>5 DEF SealSettled
<1> QED
  BY <1>2, <1>10, <1>11, <1>12

\* Outside of the loops there is nothing to keep.
LEMMA OutsideSteady ==
  ASSUME NEW upTo, pc' \in {"down", "initStore", "indexBlocks"}
  PROVE  SteadyInv(upTo)'
BY DEF SteadyInv, PastSteady, LiveSteady, SealsSteady, NeverFatal, Loop

\* The other actors change none of the indexer's own variables.
LEMMA ElsewhereSteady ==
  ASSUME NEW upTo, SteadyInv(upTo),
         UNCHANGED <<nsporks, latest, pc, job, sealed, height, parent, pending,
                     block, todo>>
  PROVE  SteadyInv(upTo)'
<1>1. /\ Loop' = Loop /\ LiveHeight' = LiveHeight /\ InHand' = InHand
      /\ SeenUpTo(upTo)' = SeenUpTo(upTo)
  BY DEF Loop, LiveHeight, InHand, SeenUpTo
<1>2. PastSteady'
  BY <1>1 DEF SteadyInv, PastSteady
<1>3. LiveSteady(upTo)'
  BY <1>1 DEF SteadyInv, LiveSteady
<1>4. SealsSteady(upTo)'
  BY <1>1 DEF SteadyInv, SealsSteady
<1> QED
  BY <1>2, <1>3, <1>4 DEF SteadyInv, NeverFatal

LEMMA EnterLiveSteady ==
  ASSUME NEW upTo, IndexerInv, EnterLive \/ EnterLiveRoot
  PROVE  SteadyInv(upTo)'
<1>1. pc \in Up /\ LiveHeight' = LiveHeight /\ latest' = latest /\ pending' = {}
  BY DEF EnterLive, EnterLiveRoot, Up, LiveHeight, disk
<1>2. /\ latest \in Nat /\ LiveHeight \in Nat /\ StartHeight = latest + 1
      /\ liveRoot.id = <<LiveHeight, "main">>
  BY <1>1, LastIndexedBlock DEF StartHeight, IndexerInv, UpInv
<1>3. Loop' = "accept" /\ pc' # "exit"
  BY DEF EnterLive, EnterLiveRoot, Loop
<1>4. LiveSteady(upTo)'
  <2>1. CASE EnterLive
    <3>1. height' = latest + 1 /\ height' > LiveHeight /\ height' - 1 = latest
      BY <1>2, <2>1 DEF EnterLive
    <3>2. (latest + 1)..(height' - 1) = {}
      BY <1>2, <3>1
    <3> QED
      BY <1>1, <1>3, <3>1, <3>2 DEF LiveSteady
  <2>2. CASE EnterLiveRoot
    <3>1. /\ height' = LiveHeight + 1 /\ latest + 1 = LiveHeight
          /\ pc' = "process" /\ job'.id = <<LiveHeight, "main">>
      BY <1>2, <2>2 DEF EnterLiveRoot
    <3>2. height' > LiveHeight
      BY <1>2, <3>1
    <3>3. \A h \in (latest + 1)..(height' - 1) : h = LiveHeight
      BY <1>2, <3>1
    <3>4. \A h \in (latest + 1)..(height' - 1) : job'.id[1] = h
      BY <3>1, <3>3
    <3>5. InHand' = {job'.id}
      BY <3>1 DEF InHand
    <3> QED
      BY <1>1, <3>2, <3>4, <3>5 DEF LiveSteady
  <2> QED
    BY <2>1, <2>2
<1>5. PastSteady' /\ SealsSteady(upTo)'
  BY <1>3 DEF PastSteady, SealsSteady
<1> QED
  BY <1>3, <1>4, <1>5 DEF SteadyInv, NeverFatal

LEMMA EnterPastSteady ==
  ASSUME NEW upTo, IndexerInv, EnterPast
  PROVE  SteadyInv(upTo)'
<1>1. pc \in Up /\ Loop' = "walk" /\ pc' # "exit"
  BY DEF EnterPast, Up, Loop
<1>2. height' = LiveHeight - 1 /\ LiveHeight' = LiveHeight /\ LiveHeight \in Nat
  BY <1>1, LastIndexedBlock DEF EnterPast, LiveHeight
<1>3. (height' + 1)..(LiveHeight' - 1) = {}
  BY <1>2
<1>4. PastSteady'
  BY <1>1, <1>3 DEF PastSteady
<1> QED
  BY <1>1, <1>4 DEF SteadyInv, LiveSteady, SealsSteady, NeverFatal

LEMMA WalkBackSteady ==
  ASSUME Environment, NEW upTo, IndexerInv, SteadyInv(upTo), Asking,
         NEW answer, WalkBack(answer)
  PROVE  SteadyInv(upTo)'
<1>1. /\ pc = "walk" /\ pc' = "walk" /\ pc \in Up /\ Loop = "walk"
      /\ Loop' = "walk" /\ height \in Heights /\ answer \in Fetched
      /\ UNCHANGED <<nsporks, latest, pc, job, pending, block, todo>>
  BY DEF WalkBack, Asking, Up, Loops, Loop, disk
<1>2. CASE ~(Expected(answer) /\ verifyBlockHash(answer))
  <2>1. UNCHANGED <<sealed, height, parent>>
    BY <1>2 DEF WalkBack
  <2> QED
    BY <1>1, <2>1, ElsewhereSteady
<1>3. CASE Expected(answer) /\ verifyBlockHash(answer)
  <2>1. /\ sealed' = sealed \cup ToSet(Seals[answer.id])
        /\ height' = height - 1 /\ answer.id = parent
    BY <1>3 DEF WalkBack, Expected
  <2>2. answer \in Answers(Spork, height, tip) /\ Spork \in 1..Len(SporkRoots)
    BY <1>1, FetchedAnswers, SporkConfigured
  <2>3. answer.id \in Produced
    BY <1>1, <2>2, AnswersProduced, Constants DEF IndexerInv, ShapeInv
  <2>4. parent = <<height, "main">>
    <3>1. parent = <<height, "main">> \/ parent = <<height, "junk">>
      BY <1>1 DEF IndexerInv, WalkInv
    <3> QED
      BY <2>1, <2>3, <3>1, ProducedBlocks
  <2>5. LiveHeight' = LiveHeight /\ LiveHeight \in Nat /\ height \in Nat
    BY <1>1, LastIndexedBlock, Constants DEF LiveHeight
  <2>6. ASSUME NEW k \in (height' + 1)..(LiveHeight' - 1)
        PROVE  ToSet(Seals[<<k, "main">>]) \subseteq sealed'
    <3>1. k = height \/ k \in (height + 1)..(LiveHeight - 1)
      BY <2>1, <2>5
    <3>2. CASE k = height
      BY <2>1, <2>4, <3>2
    <3>3. CASE k \in (height + 1)..(LiveHeight - 1)
      <4>1. ToSet(Seals[<<k, "main">>]) \subseteq sealed
        BY <1>1, <3>3 DEF SteadyInv, PastSteady
      <4> QED
        BY <2>1, <4>1
    <3> QED
      BY <3>1, <3>2, <3>3
  <2>7. PastSteady'
    BY <1>1, <2>6 DEF PastSteady
  <2> QED
    BY <1>1, <2>7 DEF SteadyInv, LiveSteady, SealsSteady, NeverFatal
<1> QED
  BY <1>2, <1>3

LEMMA WalkEndSteady ==
  ASSUME NEW upTo, IndexerInv, SteadyInv(upTo), WalkEnd
  PROVE  SteadyInv(upTo)'
<1>1. /\ pc = "walk" /\ pc \in Up /\ pc' \in {"past", "indexBlocks"}
      /\ Loop = "walk" /\ Loop' = pc'
      /\ UNCHANGED <<nsporks, latest, sealed>>
  BY DEF WalkEnd, Up, Loops, Loop, disk
<1>2. CASE pc' = "indexBlocks"
  BY <1>2, OutsideSteady
<1>3. CASE pc' = "past"
  <2> DEFINE L == LiveHeight
  <2>1. /\ latest \in Nat /\ L \in Nat /\ height \in latest..(L - 1)
        /\ height < latest + 1 /\ LiveHeight' = L /\ latest' = latest
        /\ hashes = [i \in 1..(L - height) |-> <<L + 1 - i, "main">>]
        /\ todo' = Reverse(hashes)
    BY <1>1, <1>3, LastIndexedBlock
       DEF WalkEnd, IndexerInv, WalkInv, StartHeight, LiveHeight
  <2>2. \A k \in (height + 1)..(L - 1) :
          ToSet(Seals[<<k, "main">>]) \subseteq sealed
    BY <1>1 DEF SteadyInv, PastSteady
  <2> HIDE DEF L
  <2>3. height = latest /\ L - latest \in Nat
    BY <2>1
  <2>4. Len(hashes) = L - latest
    BY <2>1, <2>3
  <2>5. Len(todo') = L - latest
    BY <2>1, <2>3, <2>4 DEF Reverse
  <2>6. latest' = LiveHeight' - Len(todo') - 0
    BY <2>1, <2>5
  <2>7. \A k \in (latest' + 1)..(LiveHeight' - 1) :
          \A x \in ToSet(Seals[<<k, "main">>]) : x \in sealed'
    BY <1>1, <2>1, <2>2, <2>3
  <2>8. PastSteady'
    BY <1>1, <1>3, <2>6, <2>7 DEF PastSteady
  <2> QED
    BY <1>1, <1>3, <2>8 DEF SteadyInv, LiveSteady, SealsSteady, NeverFatal
<1> QED
  BY <1>1, <1>2, <1>3

LEMMA PastNextSteady ==
  ASSUME NEW upTo, IndexerInv, SteadyInv(upTo), PastNext
  PROVE  SteadyInv(upTo)'
<1>1. /\ pc = "past" /\ pc \in Up /\ pc' \in {"process", "indexBlocks"}
      /\ Loop = "past" /\ (pc' = "process" => Loop' = "past")
      /\ UNCHANGED <<nsporks, latest, sealed>>
  BY DEF PastNext, Up, Loops, Loop, disk
<1>2. CASE pc' = "indexBlocks"
  BY <1>2, OutsideSteady
<1>3. CASE pc' = "process"
  <2>1. todo # << >> /\ todo' = Tail(todo)
    BY <1>3 DEF PastNext
  <2>2. /\ latest = LiveHeight - Len(todo) - 0
        /\ \A k \in (latest + 1)..(LiveHeight - 1) :
             \A x \in ToSet(Seals[<<k, "main">>]) : x[1] > latest => x \in sealed
    BY <1>1 DEF SteadyInv, PastSteady
  <2>3. LiveHeight' = LiveHeight /\ LiveHeight \in Nat /\ latest \in Nat
    BY <1>1, LastIndexedBlock DEF LiveHeight
  <2>4. /\ Len(todo) \in Nat
        /\ todo = [i \in 1..Len(todo) |-> <<LiveHeight - Len(todo) + i, "main">>]
    BY <1>1 DEF IndexerInv, PastInv
  <2>5. Len(Tail(todo)) = Len(todo) - 1
    <3> DEFINE k == Len(todo)
               F == [i \in 1..k |-> <<LiveHeight - k + i, "main">>]
    <3>1. k \in Nat /\ todo = F /\ F # << >>
      BY <2>1, <2>4
    <3> HIDE DEF k
    <3>2. k # 0
      BY <3>1
    <3>3. k - 1 \in Nat /\ Tail(todo) = [i \in 1..(k - 1) |-> F[i + 1]]
      BY <2>1, <3>1, <3>2
    <3>4. Len(Tail(todo)) = k - 1
      BY <3>3
    <3> QED
      BY <3>4 DEF k
  <2>6. latest' = LiveHeight' - Len(todo') - 1
    BY <1>1, <2>1, <2>2, <2>3, <2>4, <2>5
  <2>7. PastSteady'
    BY <1>1, <1>3, <2>2, <2>3, <2>6 DEF PastSteady
  <2> QED
    BY <1>1, <1>3, <2>7 DEF SteadyInv, LiveSteady, SealsSteady, NeverFatal
<1> QED
  BY <1>1, <1>2, <1>3

\* The heights that the live loop has seen seals of.
LEMMA Seen ==
  ASSUME NEW upTo, SealsInOrder(upTo), IndexerInv, Loop \in {"accept", "seals"}
  PROVE  /\ upTo[parent] \in Int /\ upTo[parent] < height /\ height \in Nat
         /\ Loop = "seals" => /\ SeenUpTo(upTo) = upTo[block] - Len(todo)
                              /\ upTo[block] \in Int /\ Len(todo) \in Nat
         /\ Loop = "accept" => SeenUpTo(upTo) = upTo[parent]
         /\ SeenUpTo(upTo) \in Int
<1>1. /\ parent \in Produced /\ parent[1] = height - 1
      /\ height \in (Root + 1)..(MaxHeight + 1)
  BY DEF IndexerInv, LiveInv
<1>2. height \in Nat /\ upTo[parent] \in Int /\ upTo[parent] <= height - 1
  BY <1>1, Constants DEF SealsInOrder
<1>3. ASSUME Loop = "seals"
      PROVE  upTo[block] \in Int /\ Len(todo) \in Nat
  <2>1. block \in Produced /\ todo \in Seq(Blocks)
    BY <1>3 DEF IndexerInv, SealsInv
  <2> QED
    BY <2>1 DEF SealsInOrder
<1> QED
  BY <1>2, <1>3 DEF SeenUpTo

\* A block that the live loop accepts is not the root of a spork: the nodes
\* that are asked go on with their own spork.
LEMMA NotARoot ==
  ASSUME IndexerInv, height \in Heights, height > LiveHeight,
         BlockAt(Spork, height, tip) # None
  PROVE  ~(BlockAt(Spork, height, tip)[2] = "main" /\ height \in Roots)
<1>1. SUFFICES ASSUME height \in Roots
               PROVE  BlockAt(Spork, height, tip) = <<height, "old">>
  OBVIOUS
<1>2. /\ nsporks \in 1..Len(SporkRoots) /\ nsporks \in Nat
      /\ Len(SporkRoots) \in Nat /\ height \in Nat /\ Root <= height
      /\ LiveHeight \in Nat
  BY Constants, RootsOrdered DEF IndexerInv, ShapeInv, Heights, LiveHeight
<1>3. PICK t \in 1..Len(SporkRoots) : height = SporkRoots[t]
  BY <1>1, Constants DEF Roots
<1>4. t \in Nat /\ nsporks < t
  <2>1. t <= nsporks => SporkRoots[t] <= LiveHeight
    BY <1>2, RootsOrdered DEF LiveHeight
  <2> QED
    BY <1>2, <1>3, <2>1
<1>5. /\ nsporks + 1 \in 1..Len(SporkRoots) /\ nsporks < Len(SporkRoots)
      /\ nsporks + 1 <= t
  BY <1>2, <1>3, <1>4
<1>6. SporkRoots[nsporks + 1] \in Nat /\ SporkRoots[nsporks + 1] <= height
  BY <1>3, <1>5, RootsOrdered
<1>7. Spork = nsporks
  <2>1. /\ Spork \in 1..nsporks
        /\ \A u \in (Spork + 1)..nsporks : height < SporkRoots[u]
    BY <1>2, SporkForCorrect DEF Spork
  <2>2. Spork = nsporks \/ nsporks \in (Spork + 1)..nsporks
    BY <1>2, <2>1
  <2> QED
    BY <1>2, <2>1, <2>2 DEF LiveHeight
<1>8. Replaced(Spork, height)
  BY <1>2, <1>5, <1>6, <1>7 DEF Replaced
<1> QED
  BY <1>8 DEF BlockAt

LEMMA AcceptSteady ==
  ASSUME Environment, NEW upTo, SealsInOrder(upTo), IndexerInv,
         SteadyInv(upTo), Asking, NEW answer, Accept(answer)
  PROVE  SteadyInv(upTo)'
<1>1. /\ pc = "accept" /\ Loop = "accept" /\ pc \in Up
      /\ height \in Heights /\ answer \in Fetched
      /\ UNCHANGED <<tip, nsporks, latest, job, sealed, height, parent>>
  BY DEF Accept, Asking, Up, Loops, Loop, disk
<1>2. CASE ~Acceptable(answer)
  <2>1. UNCHANGED <<pc, pending, block, todo>>
    BY <1>1, <1>2 DEF Accept
  <2> QED
    BY <1>1, <2>1, ElsewhereSteady
<1>3. CASE Acceptable(answer)
  <2> DEFINE b == answer.id
  <2>1. /\ pc' = "seals" /\ Loop' = "seals" /\ block' = b
        /\ pending' = pending \cup {b} /\ todo' = Seals[b]
    BY <1>3 DEF Accept, Loop
  <2>2. answer \in Answers(Spork, height, tip) /\ Spork \in 1..Len(SporkRoots)
    BY <1>1, FetchedAnswers, SporkConfigured
  <2>3. /\ b \in Produced /\ b[1] = height
        /\ answer.parent = ParentOf(b) \/ answer.parent = <<height - 1, "junk">>
        /\ b[2] # "sibling" => b = BlockAt(Spork, height, tip)
    <3>1. tip \in Nat
      BY Constants DEF IndexerInv, ShapeInv
    <3> QED
      BY <1>1, <2>2, <3>1, AnswersProduced
  <2>4. ParentOf(b) = parent /\ parent \in Produced
    <3>1. parent \in Produced /\ answer.parent = parent
      BY <1>1, <1>3 DEF IndexerInv, LiveInv, Acceptable
    <3> QED
      BY <2>3, <3>1, ProducedBlocks
  <2>5. /\ height > LiveHeight /\ LiveHeight' = LiveHeight
        /\ \A h \in (latest + 1)..(height - 1) : \E p \in pending : p[1] = h
        /\ \A p \in pending : /\ p[1] > upTo[parent]
                              /\ p[1] < height => p = Ancestor(parent, p[1])
    BY <1>1, Seen
       DEF SteadyInv, LiveSteady, InHand, LiveHeight
  <2>6. ~(b[2] = "main" /\ b[1] \in Roots)
    <3>1. SUFFICES ASSUME b[2] = "main"
                   PROVE  height \notin Roots
      BY <2>3
    <3>2. b = BlockAt(Spork, height, tip)
      BY <2>3, <3>1
    <3>3. b # None
      BY <2>3, ProducedBlocks, IndexerAssumption
    <3> QED
      BY <1>1, <2>5, <3>1, <3>2, <3>3, NotARoot
  <2>7. /\ upTo[b] = upTo[parent] + Len(Seals[b])
        /\ \A i \in DOMAIN Seals[b] : Seals[b][i] = Ancestor(b, upTo[parent] + i)
    BY <2>3, <2>4, <2>6 DEF SealsInOrder
  <2>8. Len(Seals[b]) \in Nat
    <3>1. Seals[b] \in Seq(Blocks)
      BY <2>3, ProducedBlocks, IndexerAssumption
    <3> QED
      BY <3>1
  <2>9. upTo[parent] \in Int /\ upTo[parent] < height /\ height \in Nat
    BY <1>1, Seen
  <2> HIDE DEF b
  <2>10. SeenUpTo(upTo)' = upTo[parent]
    <3>1. upTo[b] - Len(Seals[b]) = upTo[parent]
      BY <2>7, <2>8, <2>9
    <3> QED
      BY <2>1, <3>1 DEF SeenUpTo
  <2>11. LiveSteady(upTo)'
    <3>1. \A h \in (latest + 1)..(height - 1) : \E p \in pending' : p[1] = h
      BY <2>1, <2>5
    <3>2. ASSUME NEW p \in pending'
          PROVE  /\ p[1] > upTo[parent]
                 /\ p[1] < height => p = Ancestor(parent, p[1])
      <4>1. CASE p \in pending
        BY <2>5, <4>1
      <4>2. CASE p = b
        BY <2>3, <2>9, <4>2
      <4> QED
        BY <2>1, <4>1, <4>2
    <3> QED
      BY <1>1, <2>5, <2>10, <3>1, <3>2 DEF LiveSteady
  <2>12. SealsSteady(upTo)'
    <3>1. block' \in pending' /\ ParentOf(block') = parent' /\ pc' # "process"
      BY <1>1, <2>1, <2>4
    <3>2. upTo[parent'] <= SeenUpTo(upTo)'
      BY <1>1, <2>9, <2>10
    <3>3. \A i \in DOMAIN todo' : todo'[i] = Ancestor(block', SeenUpTo(upTo)' + i)
      BY <2>1, <2>7, <2>10
    <3> QED
      BY <3>1, <3>2, <3>3 DEF SealsSteady
  <2> QED
    BY <2>1, <2>11, <2>12 DEF SteadyInv, PastSteady, NeverFatal
<1> QED
  BY <1>2, <1>3

LEMMA SealNextSteady ==
  ASSUME NEW upTo, SealsInOrder(upTo), IndexerInv, SteadyInv(upTo), SealNext
  PROVE  SteadyInv(upTo)'
<1> DEFINE seen == SeenUpTo(upTo)
           x == Head(todo)
<1>1. /\ pc = "seals" /\ Loop = "seals" /\ Loop' = "seals"
      /\ pc' \in {"seals", "process"}
      /\ todo # << >> /\ todo' = Tail(todo)
      /\ UNCHANGED <<nsporks, latest, height, parent, pending, block>>
  BY DEF SealNext, Loop, disk
<1>2. IF x \in pending
        THEN pc' = "process" /\ job'.id = x /\ x \in sealed' /\ InHand' = {x}
        ELSE pc' = "seals" /\ InHand' = {}
  BY <1>1 DEF SealNext, InHand
<1>3. /\ todo \in Seq(Blocks) /\ block \in Produced /\ block[1] = height
      /\ \A i \in DOMAIN todo : todo[i][1] < height
  BY <1>1 DEF IndexerInv, SealsInv
<1>4. /\ height > LiveHeight /\ LiveHeight' = LiveHeight
      /\ \A h \in (latest + 1)..(height - 1) : \E p \in pending : p[1] = h
      /\ \A p \in pending : /\ p[1] > seen
                            /\ p[1] < height => p = Ancestor(parent, p[1])
  BY <1>1 DEF SteadyInv, LiveSteady, InHand, LiveHeight
<1>5. /\ block \in pending /\ ParentOf(block) = parent /\ upTo[parent] <= seen
      /\ \A i \in DOMAIN todo : todo[i] = Ancestor(block, seen + i)
  BY <1>1 DEF SteadyInv, SealsSteady
<1>6. /\ seen = upTo[block] - Len(todo) /\ upTo[block] \in Int
      /\ Len(todo) \in Nat /\ seen \in Int /\ upTo[parent] \in Int
      /\ height \in Nat
  BY <1>1, Seen
<1>7. SeenUpTo(upTo)' = seen + 1
  <2>1. Len(Tail(todo)) = Len(todo) - 1
    BY <1>1, <1>3
  <2>2. SeenUpTo(upTo)' = upTo[block] - (Len(todo) - 1)
    BY <1>1, <2>1 DEF SeenUpTo
  <2> QED
    BY <1>6, <2>2
<1> HIDE DEF seen
<1>8. x = Ancestor(block, seen + 1) /\ x[1] < height
  <2>1. x = todo[1] /\ 1 \in DOMAIN todo
    BY <1>1, <1>3
  <2> QED
    BY <1>3, <1>5, <2>1
<1>9. x[1] = seen + 1
  BY <1>8 DEF Ancestor
<1>10. x = Ancestor(parent, seen + 1)
  BY <1>3, <1>5, <1>6, <1>8, <1>9, AncestorOfParent
<1> HIDE DEF x
<1>11. LiveSteady(upTo)'
  <2>1. ASSUME NEW p \in pending
        PROVE  p \in InHand' \/ p[1] > seen + 1
    <3>1. p[1] > seen /\ p[1] \in Nat
      BY <1>1, <1>4, ProducedBlocks DEF IndexerInv, LiveInv
    <3>2. CASE p[1] = seen + 1
      <4>1. p = x
        BY <1>4, <1>8, <1>9, <1>10, <3>2
      <4> QED
        BY <1>2, <4>1
    <3>3. CASE p[1] # seen + 1
      BY <1>6, <3>1, <3>3
    <3> QED
      BY <3>2, <3>3
  <2>2. \A h \in (latest + 1)..(height - 1) :
          \E p \in pending \cup InHand' : p[1] = h
    BY <1>4
  <2> QED
    BY <1>1, <1>4, <1>7, <2>1, <2>2 DEF LiveSteady
<1>12. SealsSteady(upTo)'
  <2>1. upTo[parent] <= seen + 1
    BY <1>5, <1>6
  <2>2. ASSUME NEW i \in DOMAIN Tail(todo)
        PROVE  Tail(todo)[i] = Ancestor(block, (seen + 1) + i)
    <3>1. /\ i + 1 \in DOMAIN todo /\ Tail(todo)[i] = todo[i + 1] /\ i \in Nat
      BY <1>1, <1>3
    <3>2. (seen + 1) + i = seen + (i + 1)
      BY <1>6, <3>1
    <3> QED
      BY <1>5, <3>1, <3>2
  <2>3. pc' = "process" => job'.id \in sealed' /\ job'.id[1] = seen + 1
    BY <1>2, <1>9
  <2> QED
    BY <1>1, <1>5, <1>7, <2>1, <2>2, <2>3 DEF SealsSteady
<1> QED
  BY <1>1, <1>11, <1>12 DEF SteadyInv, PastSteady, NeverFatal

LEMMA SealUnknownSteady ==
  ASSUME NEW upTo, SealsInOrder(upTo), IndexerInv, SteadyInv(upTo), SealUnknown
  PROVE  SteadyInv(upTo)'
<1>1. /\ pc = "seals" /\ Loop = "seals" /\ pc' = "accept" /\ Loop' = "accept"
      /\ InHand = {} /\ InHand' = {}
      /\ UNCHANGED <<nsporks, latest, height, parent, pending>>
      /\ LiveHeight' = LiveHeight /\ SeenUpTo(upTo)' = upTo[parent]
  BY DEF SealUnknown, Loop, InHand, disk, LiveHeight, SeenUpTo
<1>2. upTo[parent] <= SeenUpTo(upTo)
  BY <1>1 DEF SteadyInv, SealsSteady
<1>3. upTo[parent] \in Int /\ SeenUpTo(upTo) \in Int
  BY <1>1, Seen
<1>4. ASSUME NEW p \in pending
      PROVE  p[1] > upTo[parent]
  <2>1. p[1] > SeenUpTo(upTo) /\ p[1] \in Nat
    BY <1>1, ProducedBlocks
       DEF SteadyInv, LiveSteady, IndexerInv, LiveInv
  <2> QED
    BY <1>2, <1>3, <2>1
<1>5. LiveSteady(upTo)'
  BY <1>1, <1>4 DEF SteadyInv, LiveSteady
<1> QED
  BY <1>1, <1>5 DEF SteadyInv, PastSteady, SealsSteady, NeverFatal

LEMMA SealsDoneSteady ==
  ASSUME NEW upTo, SealsInOrder(upTo), IndexerInv, SteadyInv(upTo), SealsDone
  PROVE  SteadyInv(upTo)'
<1>1. /\ pc = "seals" /\ Loop = "seals" /\ pc' = "accept" /\ Loop' = "accept"
      /\ InHand = {} /\ InHand' = {} /\ todo = << >>
      /\ height' = height + 1 /\ parent' = block
      /\ UNCHANGED <<nsporks, latest, pending>>
      /\ LiveHeight' = LiveHeight /\ SeenUpTo(upTo)' = upTo[block]
  BY DEF SealsDone, Loop, InHand, disk, LiveHeight, SeenUpTo
<1>2. SeenUpTo(upTo) = upTo[block] /\ height \in Nat
  BY <1>1, Seen
<1>3. /\ block \in Produced /\ block[1] = height
      /\ OneBranch(pending \cup {lastIndexed, parent, block})
  BY <1>1 DEF IndexerInv, SealsInv
<1>4. block \in pending /\ ParentOf(block) = parent
  BY <1>1 DEF SteadyInv, SealsSteady
<1>5. /\ height > LiveHeight
      /\ \A h \in (latest + 1)..(height - 1) : \E p \in pending : p[1] = h
      /\ \A p \in pending : /\ p[1] > upTo[block]
                            /\ p[1] < height => p = Ancestor(parent, p[1])
  BY <1>1, <1>2 DEF SteadyInv, LiveSteady
<1>6. LiveHeight \in Nat /\ latest \in Nat
  BY <1>1, LastIndexedBlock DEF Up, Loops
<1>7. height + 1 > LiveHeight
  BY <1>2, <1>5, <1>6
<1>8. ASSUME NEW h \in (latest + 1)..((height + 1) - 1)
      PROVE  \E p \in pending : p[1] = h
  <2>1. h = height \/ h \in (latest + 1)..(height - 1)
    BY <1>2, <1>6
  <2> QED
    BY <1>3, <1>4, <1>5, <2>1
<1>9. ASSUME NEW p \in pending
      PROVE  p = Ancestor(block, p[1])
  <2>1. p[1] \in Nat /\ p[1] <= height
    BY <1>1, ProducedBlocks DEF IndexerInv, LiveInv
  <2>2. CASE p[1] = height
    <3>1. p = block
      BY <1>3, <2>2 DEF OneBranch
    <3> QED
      BY <3>1 DEF Ancestor
  <2>3. CASE p[1] < height
    BY <1>3, <1>4, <1>5, <2>1, <2>3, AncestorOfParent
  <2> QED
    BY <1>2, <2>1, <2>2, <2>3
<1>10. LiveSteady(upTo)'
  BY <1>1, <1>5, <1>7, <1>8, <1>9 DEF LiveSteady
<1> QED
  BY <1>1, <1>10 DEF SteadyInv, PastSteady, SealsSteady, NeverFatal

LEMMA ProcessBlockSteady ==
  ASSUME NEW upTo, SealsInOrder(upTo), IndexerInv, SteadyInv(upTo), Ready,
         NEW ok \in BOOLEAN, ProcessBlock(ok)
  PROVE  SteadyInv(upTo)'
<1> DEFINE j == JobHeight
<1>1. /\ pc = "process" /\ pc \in Up /\ job.ret \in {"past", "accept", "seals"}
      /\ Loop = job.ret
  BY DEF ProcessBlock, Up, Loop, IndexerInv, ShapeInv
<1>2. /\ latest \in Nat /\ LiveHeight \in Nat
  BY <1>1, LastIndexedBlock
<1>3. job.id \in Produced /\ job.id[1] = j /\ j \in Nat /\ j = latest + 1
  BY <1>1, NextInLine DEF Ready, JobHeight
<1>4. /\ latest' = j /\ pending' = pending \ {job.id}
      /\ sealed' = sealed \ {job.id}
      /\ pc' = job.ret /\ Loop' = job.ret /\ InHand' = {}
      /\ UNCHANGED <<nsporks, height, parent, block, todo>>
      /\ LiveHeight' = LiveHeight /\ SeenUpTo(upTo)' = SeenUpTo(upTo)
  BY <1>1, <1>2, <1>3
     DEF ProcessBlock, Return, Loop, InHand, LiveHeight, SeenUpTo
<1>5. pc' # "exit" /\ pc' # "process" /\ Loop' # "walk"
  BY <1>1, <1>4
<1> HIDE DEF j
<1>6. CASE job.ret = "past"
  <2>1. /\ latest = LiveHeight - Len(todo) - 1
        /\ \A k \in (latest + 1)..(LiveHeight - 1) :
             \A x \in ToSet(Seals[<<k, "main">>]) : x[1] > latest => x \in sealed
    BY <1>1, <1>6 DEF SteadyInv, PastSteady
  <2>2. Len(todo) \in Nat
    BY <1>1, <1>6 DEF IndexerInv, PastInv
  <2>3. j = LiveHeight - Len(todo) - 0
    BY <1>2, <1>3, <2>1, <2>2
  <2>4. ASSUME NEW k \in (j + 1)..(LiveHeight - 1),
               NEW x \in ToSet(Seals[<<k, "main">>]), x[1] > j
        PROVE  x \in sealed'
    <3>1. k \in (latest + 1)..(LiveHeight - 1) /\ k \in Heights
      <4>1. latest \in Heights /\ LiveHeight \in Heights
        BY <1>1, LastIndexedBlock
      <4> QED
        BY <1>2, <1>3, <4>1, Constants DEF Heights
    <3>2. x[1] \in Nat
      <4>1. Seals[<<k, "main">>] \in Seq(Blocks)
        BY <3>1, IndexerAssumption DEF Blocks
      <4>2. x \in Blocks
        BY <4>1 DEF ToSet
      <4> QED
        BY <4>2, Constants DEF Blocks
    <3>3. x[1] > latest /\ x[1] # j
      BY <1>2, <1>3, <2>4, <3>2
    <3>4. x \in sealed /\ x # job.id
      BY <1>3, <2>1, <3>1, <3>3
    <3> QED
      BY <1>4, <3>4
  <2>5. PastSteady'
    BY <1>4, <1>5, <1>6, <2>3, <2>4 DEF PastSteady
  <2> QED
    BY <1>4, <1>5, <1>6, <2>5 DEF SteadyInv, LiveSteady, SealsSteady, NeverFatal
<1>7. CASE job.ret \in {"accept", "seals"}
  <2>1. /\ height > LiveHeight
        /\ \A h \in (latest + 1)..(height - 1) :
             \E p \in pending \cup {job.id} : p[1] = h
        /\ \A p \in pending : /\ p = job.id \/ p[1] > SeenUpTo(upTo)
                              /\ p[1] < height => p = Ancestor(parent, p[1])
    BY <1>1, <1>7 DEF SteadyInv, LiveSteady, InHand
  <2>2. height \in Nat
    BY <1>1, <1>7, Constants DEF IndexerInv, LiveInv
  <2>3. ASSUME NEW h \in (j + 1)..(height - 1)
        PROVE  \E p \in pending' : p[1] = h
    <3>1. h \in (latest + 1)..(height - 1) /\ h # j
      BY <1>2, <1>3, <2>2
    <3>2. PICK p \in pending \cup {job.id} : p[1] = h
      BY <2>1, <3>1
    <3> QED
      BY <1>3, <1>4, <3>1, <3>2
  <2>4. \A p \in pending' : /\ p[1] > SeenUpTo(upTo)
                            /\ p[1] < height => p = Ancestor(parent, p[1])
    BY <1>4, <2>1
  <2>5. LiveSteady(upTo)'
    BY <1>4, <2>1, <2>3, <2>4 DEF LiveSteady
  <2>6. SealsSteady(upTo)'
    <3>1. SUFFICES ASSUME job.ret = "seals"
                   PROVE  SealsSteady(upTo)'
      BY <1>4 DEF SealsSteady
    <3>2. /\ block \in pending /\ ParentOf(block) = parent
          /\ upTo[parent] <= SeenUpTo(upTo)
          /\ \A i \in DOMAIN todo : todo[i] = Ancestor(block, SeenUpTo(upTo) + i)
      BY <1>1, <3>1 DEF SteadyInv, SealsSteady
    <3>3. block # job.id
      <4>1. block[1] = height /\ job.id[1] < height
        BY <1>1, <3>1 DEF IndexerInv, SealsInv
      <4> QED
        BY <2>2, <4>1
    <3> QED
      BY <1>4, <1>5, <3>2, <3>3 DEF SealsSteady
  <2>7. PastSteady'
    BY <1>4, <1>7 DEF PastSteady
  <2> QED
    BY <1>5, <2>5, <2>6, <2>7 DEF SteadyInv, NeverFatal
<1> QED
  BY <1>1, <1>6, <1>7

\* Every step keeps SteadyInv; log.Fatalf is not among them.
LEMMA StepSteady ==
  ASSUME Environment, "canceled" \notin Faults, PastSealed,
         NEW upTo, SealsInOrder(upTo), IndexerInv, SteadyInv(upTo), [Next]_vars
  PROVE  SteadyInv(upTo)'
<1>1. Ready
  BY ReadyHolds
<1>2. CASE UNCHANGED vars
  BY <1>2, ElsewhereSteady DEF vars, memory, loop, disk
<1>3. CASE NewBlock \/ Signal \/ Prefetch
  <2>1. UNCHANGED <<nsporks, latest, pc, job, sealed, height, parent, pending,
                    block, todo>>
    BY <1>3 DEF NewBlock, Signal, Prefetch, memory, loop, disk
  <2> QED
    BY <2>1, ElsewhereSteady
<1>4. CASE Start \/ Stop \/ SetGenesis \/ Boot
  <2>1. pc' \in {"down", "initStore", "indexBlocks"}
    BY <1>4 DEF Start, Stop, SetGenesis, Boot
  <2> QED
    BY <2>1, OutsideSteady
<1>5. CASE Fetch
  BY <1>5, WalkBackSteady, AcceptSteady DEF Fetch
<1>6. CASE EnterLive \/ EnterLiveRoot \/ EnterPast \/ WalkEnd \/ PastNext
  BY <1>6, EnterLiveSteady, EnterPastSteady, WalkEndSteady, PastNextSteady
<1>7. CASE SealNext \/ SealsDone \/ SealUnknown
  BY <1>7, SealNextSteady, SealsDoneSteady, SealUnknownSteady
<1>8. CASE Process
  <2>1. ~Abandon
    BY DEF Abandon
  <2>2. ~Fatal
    BY <1>1 DEF Fatal, Ready, MayIndex
  <2> QED
    BY <1>1, <1>8, <2>1, <2>2, ProcessBlockSteady DEF Process
<1> QED
  BY <1>2, <1>3, <1>4, <1>5, <1>6, <1>7, <1>8 DEF Next, Indexing

(***************************************************************************)
(* The theorems.                                                           *)
(***************************************************************************)
LEMMA StepInv ==
  ASSUME Environment, IndexerInv, ~ exiting \/ Ready, [Next]_vars
  PROVE  IndexerInv'
<1>1. CASE UNCHANGED vars
  BY <1>1 DEF vars, memory, loop, disk, IndexerInv, ShapeInv, IndexInv, UpInv,
              WalkInv, PastInv, LiveInv, SealsInv, RootInv, Linked,
              EventsAuthentic, Loop, LiveHeight, OneBranch, Spork
<1>2. CASE Next
  <2>1. CASE Fetch
    BY <2>1, WalkBackInv, AcceptInv DEF Fetch
  <2>2. CASE Indexing
    BY <2>2, SetGenesisInv, BootInv, EnterLiveInv, EnterLiveRootInv,
       EnterPastInv, WalkEndInv, PastNextInv, SealNextInv, SealsDoneInv
       DEF Indexing
  <2>3. CASE Process
    BY <2>3, ProcessBlockInv, AbandonInv, StartStop DEF Process
  <2>4. CASE NewBlock \/ Start \/ Signal \/ Stop \/ Prefetch \/ SealUnknown
    BY <2>4, NewBlockInv, StartStop, SignalInv, PrefetchInv, SealUnknownInv
  <2> QED
    BY <1>2, <2>1, <2>2, <2>3, <2>4 DEF Next
<1> QED
  BY <1>1, <1>2

\* Without a signal, exiting is never set.
LEMMA NotExiting ==
  ASSUME ~ Signals, ~ exiting, [Next]_vars
  PROVE  ~ exiting'
<1>1. ~ Signal
  BY DEF Signal
<1>2. CASE UNCHANGED exiting
  BY <1>2
<1>3. CASE exiting' = FALSE
  BY <1>3
<1>4. UNCHANGED exiting \/ exiting' = FALSE
  BY <1>1 DEF Next, vars, memory, loop, NewBlock, Start, Stop, Prefetch,
     Indexing, SetGenesis, Boot, EnterLive, EnterLiveRoot, EnterPast, WalkEnd,
     PastNext, SealNext, SealsDone, Fetch, WalkBack, Accept, SealUnknown,
     Process, ProcessBlock, Abandon, Fatal
<1> QED
  BY <1>2, <1>3, <1>4

\* Both inductive invariants together, if seals come in order.
LEMMA SteadyInvariant ==
  ASSUME Environment, Steady
  PROVE  Spec => []IndexerInv /\ []NeverFatal
<1>1. PICK upTo : SealsInOrder(upTo)
  BY DEF Steady
<1>2. Init => IndexerInv /\ SteadyInv(upTo)
  <2>1. Init => SteadyInv(upTo)
    BY DEF Init, SteadyInv, PastSteady, LiveSteady, SealsSteady, NeverFatal, Loop
  <2> QED
    BY <2>1, InitInv
<1>3. IndexerInv /\ SteadyInv(upTo) /\ [Next]_vars
        => IndexerInv' /\ SteadyInv(upTo)'
  <2>1. "canceled" \notin Faults /\ PastSealed
    BY DEF Steady
  <2> QED
    BY <1>1, <2>1, StepInv, StepSteady, ReadyHolds
<1>4. SteadyInv(upTo) => NeverFatal
  BY DEF SteadyInv
<1> QED
  BY <1>2, <1>3, <1>4, PTL DEF Spec

\* The inductive invariant of the indexer holds: in particular, the blocks
\* that wait for a seal in indexLiveSpork, and those that indexPastSporks
\* has walked back through, continue the chain on disk.
THEOREM IndexerInvariant ==
  ASSUME Environment, FatalIsFinal
  PROVE  Spec => []IndexerInv
<1>1. CASE ~ Signals
  <2>1. Init => IndexerInv /\ ~ exiting
    BY InitInv DEF Init
  <2>2. IndexerInv /\ ~ exiting /\ [Next]_vars => IndexerInv' /\ ~ exiting'
    BY <1>1, StepInv, NotExiting
  <2> QED
    BY <2>1, <2>2, PTL DEF Spec
<1>2. CASE Steady
  BY <1>2, SteadyInvariant, PTL
<1> QED
  BY <1>1, <1>2 DEF FatalIsFinal

\* NeverFatal: processBlock has a seal for every block in its turn, and asks
\* the database for the next height only, so that neither log.Fatalf stops
\* the indexer: if blocks are sealed in order and no server cancels a call.
THEOREM NoFatalError ==
  ASSUME Environment, Steady
  PROVE  Spec => []NeverFatal
BY SteadyInvariant, PTL

\* Linked: the index is one chain, for any sporks, seals, cache contents and
\* restarts, if a server cannot make up the hash of a parent that exists and
\* log.Fatalf in Store.Index ends the process.
THEOREM IndexIsLinked ==
  ASSUME Environment, FatalIsFinal
  PROVE  Spec => []Linked
<1>1. IndexerInv => Linked
  BY DEF IndexerInv
<1> QED
  BY <1>1, IndexerInvariant, PTL

\* Finalized: only finalized blocks are indexed, with or without the
\* consensus follower, because processBlock waits for a seal in the live
\* spork and follows hashes from the live root in the past ones.
THEOREM OnlyFinalized ==
  ASSUME Environment, FatalIsFinal
  PROVE  Spec => []Finalized
<1>1. IndexerInv => Finalized
  <2>1. ASSUME IndexerInv, NEW h \in Heights, chain[h] # None
        PROVE  chain[h].id[2] \in {"main", "old"}
    <3>1. chain[h].id \in Produced /\ chain[h].id[2] # "sibling"
      BY <2>1 DEF IndexerInv, IndexInv
    <3> QED
      BY <3>1, ProducedBlocks
  <2> QED
    BY <2>1 DEF Finalized
<1> QED
  BY <1>1, IndexerInvariant, PTL

\* EventsAuthentic: processBlock indexes the events of a block without the
\* word of a seal only for roots, near the end of a spork and for blocks
\* that the operator skips, also when the tolerance wraps around.
THEOREM EventsAreAuthentic ==
  ASSUME Environment, FatalIsFinal
  PROVE  Spec => []EventsAuthentic
<1>1. IndexerInv => EventsAuthentic
  BY DEF IndexerInv
<1> QED
  BY <1>1, IndexerInvariant, PTL

\* LastIndexedStored: i.lastIndexed, from which indexBlocks and the workers
\* start, is the latest block on disk, also after processBlock has given up
\* on a block.
THEOREM LastIsStored ==
  ASSUME Environment, FatalIsFinal
  PROVE  Spec => []LastIndexedStored
<1>1. IndexerInv => LastIndexedStored
  <2>1. ASSUME IndexerInv, pc \notin {"down", "initStore", "exit"}
        PROVE  lastIndexed[1] = latest /\ chain[latest].id = lastIndexed
    <3>1. pc \in Up
      BY <2>1 DEF IndexerInv, ShapeInv
    <3> QED
      BY <2>1, <3>1, LastIndexedBlock DEF IndexerInv, UpInv
  <2> QED
    BY <2>1 DEF LastIndexedStored
<1> QED
  BY <1>1, IndexerInvariant, PTL
=============================================================================
