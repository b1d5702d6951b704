----------------------------- MODULE MCIndexer -----------------------------
(***************************************************************************)
(* Indexer for TLC: two sporks, with roots at heights 2 and 5.  Blocks     *)
(* are sealed by the block two heights above, but for one late seal.       *)
(***************************************************************************)
EXTENDS Indexer

MCSporkRoots == <<2, 5>>

\* The heights that the block of a height seals.
SealsIn ==
  [h \in Heights |->
     CASE h = 4  -> <<2>>
       [] h = 6  -> <<3, 4>>
       [] h = 7  -> <<5>>
       [] h = 8  -> <<6>>
       [] h = 9  -> <<7>>
       [] OTHER  -> << >>]

\* The seals in a block: of earlier blocks of the same spork, but for the
\* root block, which is self sealed (the first root is not a true one).
SealsOf(s, h, next) ==
  LET first == IF s = 1 THEN Root ELSE MCSporkRoots[s] + 1
      heights == SelectSeq(SealsIn[h], LAMBDA k : k >= first)
  IN  [i \in DOMAIN heights |->
         <<heights[i], IF heights[i] >= next THEN "old" ELSE "main">>]

MCSeals ==
  [b \in Blocks |->
     LET s == SporkFor(Len(MCSporkRoots), b[1])
     IN  CASE b[2] # "old" -> SealsOf(s, b[1], MaxHeight + 1)
           [] s = 1        -> << >>
           [] OTHER        -> SealsOf(s - 1, b[1], MCSporkRoots[s])]

\* How far blocks are sealed with a block of a branch: up to the last root
\* block or the last seal on it.
MCUpTo ==
  [b \in Produced |->
     LET onBranch == {Ancestor(b, h) : h \in Root..b[1]}
     IN  Max({Root - 1}
               \cup {a[1] : a \in {c \in onBranch : c[2] = "main"
                                                    /\ c[1] \in Roots \ {Root}}}
               \cup {x[1] : x \in UNION {ToSet(Seals[a]) : a \in onBranch}})]

\* The seals of the instance come as the proof of NeverFatal has them come.
ASSUME MCSteady == PastSealed /\ SealsInOrder(MCUpTo)

============================================================================
