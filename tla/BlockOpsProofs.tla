--------------------------- MODULE BlockOpsProofs ---------------------------
(***************************************************************************)
(* Proofs about the processing of events, for every set of accounts, every *)
(* number and size of blocks and all amounts.                              *)
(***************************************************************************)
EXTENDS BlockOps, WellFoundedInduction, FiniteSetTheorems, SequenceTheorems,
        TLAPS

(***************************************************************************)
(* Folds.                                                                  *)
(***************************************************************************)

\* A nonempty set of natural numbers has a least element.
LEMMA LeastElement ==
  ASSUME NEW T, T \subseteq Nat, T # {}
  PROVE  \E x \in T : \A y \in T : x <= y
<1> DEFINE R == OpToRel(<, Nat)
<1>1. IsWellFoundedOn(R, Nat)
  BY NatLessThanWellFounded
<1>2. \A x, y \in Nat : y < x => <<y, x>> \in R
  BY DEF OpToRel
<1> HIDE DEF R
<1>3. PICK x \in T : \A y \in T : ~(<<y, x>> \in R)
  BY <1>1, WFMin
<1>4. \A y \in T : x \in Nat /\ y \in Nat /\ ~(y < x)
  BY <1>2, <1>3
<1>5. \A y \in T : x <= y
  BY <1>4
<1> QED
  BY <1>5

\* A set of numbers that is closed under successor holds them all.
LEMMA Induction ==
  ASSUME NEW n \in Nat, NEW T, 0 \in T,
         \A i \in 0..n : i \in T /\ i < n => i + 1 \in T
  PROVE  \A i \in 0..n : i \in T
<1> DEFINE B == {i \in 0..n : i \notin T}
<1>1. SUFFICES ASSUME B # {} PROVE FALSE
  OBVIOUS
<1>a. B \subseteq Nat
  OBVIOUS
<1>2. PICK k \in B : \A j \in B : k <= j
  BY <1>1, <1>a, LeastElement
<1>3. k \in 0..n /\ k # 0 /\ k \notin T
  OBVIOUS
<1>4. k - 1 \in 0..n /\ k - 1 < n /\ ~(k <= k - 1) /\ (k - 1) + 1 = k
  BY <1>3
<1>5. k - 1 \in T
  BY <1>2, <1>4
<1> QED
  BY <1>3, <1>4, <1>5

\* Max of a set of numbers up to k that k belongs to.
LEMMA MaxIs ==
  ASSUME NEW k \in Nat, NEW s \in SUBSET (1..k), k \in s
  PROVE  Max(s) = k
<1>1. k \in s /\ \A y \in s : k >= y
  OBVIOUS
<1>2. \A x \in s : (\A y \in s : x >= y) => x = k
  <2>1. SUFFICES ASSUME NEW x \in s, \A y \in s : x >= y PROVE x = k
    OBVIOUS
  <2>2. x \in Int /\ x >= k /\ k >= x
    BY <1>1, <2>1
  <2> QED BY <2>2
<1> QED
  BY <1>1, <1>2 DEF Max

\* Max of a nonempty set of numbers up to n is one of them.
LEMMA MaxIn ==
  ASSUME NEW n \in Nat, NEW s \in SUBSET (1..n), s # {}
  PROVE  Max(s) \in s
<1> DEFINE T == {i \in Nat : n - i \in s}
<1>1. PICK x \in s : x \in 1..n
  OBVIOUS
<1>2. n - x \in T
  BY <1>1
<1>3. PICK i \in T : \A j \in T : i <= j
  BY <1>2, LeastElement
<1>4. n - i \in s /\ n - i \in 1..n /\ i \in Nat
  OBVIOUS
<1>5. ASSUME NEW y \in s PROVE n - i >= y
  <2>1. y \in 1..n /\ n - y \in Nat /\ n - (n - y) = y
    OBVIOUS
  <2>2. n - y \in T
    BY <2>1
  <2>3. i <= n - y
    BY <1>3, <2>2
  <2> QED BY <1>4, <2>1, <2>3
<1>6. \E z \in s : \A y \in s : z >= y
  BY <1>4, <1>5
<1> QED
  BY <1>6 DEF Max

\* The function on sets of positions by which FoldLeft is defined.
Solves(f, n, base, g) ==
  \A s \in SUBSET (1..n) :
    f[s] = IF s = {} THEN base ELSE g[<<Max(s), f[s \ {Max(s)}]>>]

\* It exists.
LEMMA SetRecursion ==
  ASSUME NEW S, NEW base \in S, NEW n \in Nat,
         NEW g \in [(1..n) \X S -> S]
  PROVE  \E f \in [SUBSET (1..n) -> S] : Solves(f, n, base, g)
<1> DEFINE Sol(k, f) == Solves(f, k, base, g)
           T == {k \in 0..n : \E f \in [SUBSET (1..k) -> S] : Sol(k, f)}
<1>1. 0 \in T
  <2> DEFINE f == [s \in SUBSET (1..0) |-> base]
  <2>1. f \in [SUBSET (1..0) -> S]
    OBVIOUS
  <2>2. \A s \in SUBSET (1..0) : s = {} /\ f[s] = base
    OBVIOUS
  <2>3. Sol(0, f)
    BY <2>2 DEF Solves
  <2>4. 0 \in 0..n
    OBVIOUS
  <2> HIDE DEF f, Sol
  <2> QED BY <2>1, <2>3, <2>4
<1>2. ASSUME NEW i \in 0..n, i \in T, i < n
      PROVE  i + 1 \in T
  <2> DEFINE k == i + 1
  <2>1. PICK f \in [SUBSET (1..i) -> S] : Sol(i, f)
    BY <1>2
  <2>2. k \in 1..n /\ k \in Nat /\ k \notin 1..i
    BY <1>2
  <2>3. \A s \in SUBSET (1..k) : s \ {k} \in SUBSET (1..i)
    OBVIOUS
  <2>4. \A s \in SUBSET (1..k) : k \notin s => s \in SUBSET (1..i)
    OBVIOUS
  <2> DEFINE h == [s \in SUBSET (1..k) |->
                     IF k \in s THEN g[<<k, f[s \ {k}]>>] ELSE f[s]]
  <2> HIDE DEF k
  <2>5. h \in [SUBSET (1..k) -> S]
    <3>1. ASSUME NEW s \in SUBSET (1..k)
          PROVE  (IF k \in s THEN g[<<k, f[s \ {k}]>>] ELSE f[s]) \in S
      <4>1. k \notin s => f[s] \in S
        BY <2>4
      <4>2. k \in s => g[<<k, f[s \ {k}]>>] \in S
        BY <2>2, <2>3
      <4> QED BY <4>1, <4>2
    <3> QED BY <3>1
  <2>6. ASSUME NEW s \in SUBSET (1..k)
        PROVE  h[s] = IF s = {} THEN base
                                ELSE g[<<Max(s), h[s \ {Max(s)}]>>]
    <3>1. CASE k \in s
      <4>1. Max(s) = k
        BY <3>1, <2>2, MaxIs
      <4>2. s \ {k} \in SUBSET (1..k) /\ k \notin s \ {k}
        OBVIOUS
      <4>3. h[s \ {k}] = f[s \ {k}]
        BY <4>2
      <4>4. h[s] = g[<<k, f[s \ {k}]>>]
        BY <3>1
      <4> QED BY <3>1, <4>1, <4>3, <4>4
    <3>2. CASE k \notin s
      <4>1. s \in SUBSET (1..i) /\ h[s] = f[s]
        BY <3>2, <2>4
      <4>2. s \ {Max(s)} \in SUBSET (1..k) /\ k \notin s \ {Max(s)}
        BY <3>2
      <4>3. h[s \ {Max(s)}] = f[s \ {Max(s)}]
        BY <4>2
      <4> QED BY <2>1, <4>1, <4>3 DEF Solves
    <3> QED BY <3>1, <3>2
  <2>7. Sol(k, h)
    <3> HIDE DEF h
    <3> QED BY <2>6 DEF Solves
  <2>8. k \in 0..n
    BY <2>2
  <2> HIDE DEF h, Sol
  <2>9. k \in T
    BY <2>5, <2>7, <2>8
  <2> QED BY <2>9 DEF k
<1> HIDE DEF T
<1>3. \A i \in 0..n : i \in T
  BY <1>1, <1>2, Induction
<1>4. n \in T
  BY <1>3
<1> QED
  BY <1>4 DEF T

\* Two sequences of values that start and go on in the same way are one.
Follows(c, d, n) ==
  c[0] = d[0] /\ \A i \in 1..n : c[i - 1] = d[i - 1] => c[i] = d[i]

\* By induction, two sequences that Follow one another agree everywhere.
LEMMA Agree ==
  ASSUME NEW n \in Nat, NEW c, NEW d, Follows(c, d, n)
  PROVE  \A i \in 0..n : c[i] = d[i]
<1> USE DEF Follows
<1> DEFINE T == {i \in 0..n : c[i] = d[i]}
<1>1. 0 \in T
  OBVIOUS
<1>2. ASSUME NEW i \in 0..n, i \in T, i < n
      PROVE  i + 1 \in T
  <2>1. i + 1 \in 1..n /\ (i + 1) - 1 = i /\ i + 1 \in 0..n
    BY <1>2
  <2>2. c[i] = d[i]
    BY <1>2
  <2>3. c[i + 1] = d[i + 1]
    BY <2>1, <2>2
  <2> QED BY <2>1, <2>3
<1> HIDE DEF T
<1>3. \A i \in 0..n : i \in T
  BY <1>1, <1>2, Induction
<1> QED
  BY <1>3 DEF T

\* The values that a fold passes through.
Chain(c, n, base, g, last) ==
  /\ c[0] = base /\ c[n] = last
  /\ \A i \in 1..n : c[i] = g[<<i, c[i - 1]>>]

\* The solution that FoldLeft chooses, whose values are not known yet.
SolvesIn(S, h, n, base, g) ==
  /\ h[{}] = base
  /\ \A s \in SUBSET (1..n) : s # {} /\ h[s \ {Max(s)}] \in S =>
       h[s] = g[<<Max(s), h[s \ {Max(s)}]>>]

\* A function that solves the equation of a fold gives its chain of
\* intermediate values.
LEMMA FoldChain ==
  ASSUME NEW S, NEW base \in S, NEW n \in Nat,
         NEW g \in [(1..n) \X S -> S], NEW h, SolvesIn(S, h, n, base, g)
  PROVE  \E c \in [0..n -> S] : Chain(c, n, base, g, h[1..n])
<1>1. ASSUME NEW i \in 1..n, h[1..(i - 1)] \in S
      PROVE  h[1..i] = g[<<i, h[1..(i - 1)]>>]
  <2>1. i \in Nat /\ 1 <= i /\ i <= n
    OBVIOUS
  <2>2. i \in 1..i /\ 1..i \in SUBSET (1..n)
    BY <2>1
  <2>3. (1..i) \ {i} = 1..(i - 1)
    BY <2>1
  <2>4. Max(1..i) = i
    BY <2>1, <2>2, MaxIs
  <2> QED BY <1>1, <2>2, <2>3, <2>4 DEF SolvesIn
<1>2. 1..0 = {}
  OBVIOUS
<1> DEFINE T == {i \in 0..n : h[1..i] \in S}
<1>3. 0 \in T
  BY <1>2 DEF SolvesIn
<1>4. ASSUME NEW i \in 0..n, i \in T, i < n
      PROVE  i + 1 \in T
  <2>1. i + 1 \in 1..n /\ (i + 1) - 1 = i /\ i + 1 \in 0..n
    BY <1>4
  <2>2. h[1..(i + 1)] = g[<<i + 1, h[1..i]>>] /\ h[1..i] \in S
    BY <1>1, <1>4, <2>1
  <2>3. h[1..(i + 1)] \in S
    BY <2>1, <2>2
  <2> QED BY <2>1, <2>3
<1> HIDE DEF T
<1>5. \A i \in 0..n : i \in T
  BY <1>3, <1>4, Induction
<1>6. \A i \in 0..n : h[1..i] \in S
  BY <1>5 DEF T
<1> DEFINE c == [i \in 0..n |-> h[1..i]]
<1>7. c \in [0..n -> S] /\ c[n] = h[1..n]
  BY <1>6
<1>8. c[0] = base
  BY <1>2 DEF SolvesIn
<1>a. \A i \in 1..n : i \in 0..n /\ i - 1 \in 0..n
  OBVIOUS
<1>9. \A i \in 1..n : c[i] = g[<<i, c[i - 1]>>]
  BY <1>1, <1>6, <1>a
<1> HIDE DEF c
<1> QED
  BY <1>7, <1>8, <1>9 DEF Chain

-----------------------------------------------------------------------------
(***************************************************************************)
(* Moves of FLOW.                                                          *)
(***************************************************************************)
Moves == [from : Vaults, to : Vaults, amount : Nat]

Holdings == [Vaults -> Int]

\* A move takes its amount out of one vault and puts it into the other.
LEMMA ApplyMoveType ==
  ASSUME NEW h \in Holdings, NEW m \in Moves
  PROVE  /\ ApplyMove(h, m) \in Holdings
         /\ \A v \in Vaults : ApplyMove(h, m)[v] =
              (h[v] - (IF v = m.from THEN m.amount ELSE 0))
                    + (IF v = m.to THEN m.amount ELSE 0)
<1>1. m.from \in Vaults /\ m.to \in Vaults /\ m.amount \in Nat
  BY DEF Moves
<1> DEFINE h1 == [h EXCEPT ![m.from] = h[m.from] - m.amount]
           h2 == [h1 EXCEPT ![m.to] = h1[m.to] + m.amount]
<1>2. /\ h1 \in Holdings
      /\ \A v \in Vaults :
           h1[v] = h[v] - (IF v = m.from THEN m.amount ELSE 0)
  BY <1>1 DEF Holdings
<1>3. ApplyMove(h, m) = h2
  BY DEF ApplyMove
<1> HIDE DEF h1
<1>4. /\ h2 \in Holdings
      /\ \A v \in Vaults :
           h2[v] = h1[v] + (IF v = m.to THEN m.amount ELSE 0)
  BY <1>1, <1>2 DEF Holdings
<1> HIDE DEF h2
<1> QED
  BY <1>2, <1>3, <1>4

\* The intermediate values of the fold over the moves. (There is a lemma of
\* this form for each fold: a lemma cannot take the operator as a parameter.)
LEMMA ApplyMoveFold ==
  ASSUME NEW base \in Holdings, NEW seq \in Seq(Moves)
  PROVE  \E c \in [0..Len(seq) -> Holdings] :
           /\ c[0] = base
           /\ \A i \in 1..Len(seq) : c[i] = ApplyMove(c[i - 1], seq[i])
           /\ FoldLeft(ApplyMove, base, seq) = c[Len(seq)]
<1> DEFINE n == Len(seq)
           g == [x \in (1..n) \X Holdings |-> ApplyMove(x[2], seq[x[1]])]
           Body(f) == [s \in SUBSET DOMAIN seq |-> IF s = {} THEN base ELSE
                         LET x == Max(s) IN ApplyMove(f[s \ {x}], seq[x])]
           h == CHOOSE f : f = Body(f)
<1>1. n \in Nat /\ DOMAIN seq = 1..n /\ \A i \in 1..n : seq[i] \in Moves
  OBVIOUS
<1>2. \A t \in Holdings, i \in 1..n : ApplyMove(t, seq[i]) \in Holdings
  BY <1>1, ApplyMoveType
<1>3. g \in [(1..n) \X Holdings -> Holdings]
  BY <1>2
<1>4. \A t \in Holdings, i \in 1..n : g[<<i, t>>] = ApplyMove(t, seq[i])
  OBVIOUS
<1>5. FoldLeft(ApplyMove, base, seq) = h[1..n]
  BY <1>1 DEF FoldLeft, MapThenFoldSet
<1> HIDE DEF n, g
<1>6. \A s \in SUBSET (1..n) : s # {} => Max(s) \in 1..n
  BY <1>1, MaxIn
<1>7. PICK f \in [SUBSET (1..n) -> Holdings] : Solves(f, n, base, g)
  BY <1>1, <1>3, SetRecursion
<1>8. f = Body(f)
  BY <1>1, <1>4, <1>6, <1>7 DEF Solves
<1>9. h = Body(h)
  BY <1>8
<1> HIDE DEF h
<1>10. h[{}] = base /\ \A s \in SUBSET (1..n) : s # {} =>
         h[s] = ApplyMove(h[s \ {Max(s)}], seq[Max(s)])
  BY <1>1, <1>9
<1>11. SolvesIn(Holdings, h, n, base, g)
  BY <1>4, <1>6, <1>10 DEF SolvesIn
<1>12. PICK c \in [0..n -> Holdings] : Chain(c, n, base, g, h[1..n])
  BY <1>1, <1>3, <1>11, FoldChain
<1>13. \A i \in 1..n : i - 1 \in 0..n
  BY <1>1
<1>14. \A i \in 1..n : c[i] = ApplyMove(c[i - 1], seq[i])
  BY <1>4, <1>12, <1>13 DEF Chain
<1> QED
  BY <1>5, <1>12, <1>14 DEF n, Chain

-----------------------------------------------------------------------------
(***************************************************************************)
(* Operations and tallies.                                                 *)
(***************************************************************************)
Accounts == Addrs \cup {NoAccount}

MapsTo(R) == UNION {[D -> R] : D \in SUBSET Addrs}

Ops == [type : {"CREATE_ACCOUNT", "FEE", "PROXY_TRANSFER", "TRANSFER"},
        account : Accounts, receiver : Accounts, amount : Nat,
        proxy : BOOLEAN]

Transfers == [sender : Addrs, amount : Nat, receiver : Accounts]

Tallies == [known : MapsTo(BOOLEAN), addrs : Seq(Addrs),
            keyed : SUBSET Addrs, new : MapsTo(BOOLEAN),
            deposits : [Addrs -> Nat], proxyDeposits : [Addrs -> Nat],
            withdrawals : [Addrs -> Nat], fees : Nat,
            transfers : Seq(Transfers), ops : Seq(Ops), ok : BOOLEAN]

\* A map is a function whose domain consists of addresses.
LEMMA IsMap ==
  ASSUME NEW R, NEW f
  PROVE  f \in MapsTo(R) <=>
           DOMAIN f \subseteq Addrs /\ f \in [DOMAIN f -> R]
<1>1. ASSUME f \in MapsTo(R)
      PROVE  DOMAIN f \subseteq Addrs /\ f \in [DOMAIN f -> R]
  <2>1. PICK D \in SUBSET Addrs : f \in [D -> R]
    BY <1>1 DEF MapsTo
  <2> QED BY <2>1
<1>2. ASSUME DOMAIN f \subseteq Addrs, f \in [DOMAIN f -> R]
      PROVE  f \in MapsTo(R)
  BY <1>2 DEF MapsTo
<1> QED BY <1>1, <1>2

\* One more entry of a map.
LEMMA PutType ==
  ASSUME NEW R, NEW f \in MapsTo(R), NEW a \in Addrs, NEW r \in R
  PROVE  /\ Put(f, a, r) \in MapsTo(R)
         /\ DOMAIN Put(f, a, r) = DOMAIN f \cup {a}
         /\ Put(f, a, r)[a] = r
         /\ \A x \in DOMAIN f : x # a => Put(f, a, r)[x] = f[x]
<1> DEFINE g == Put(f, a, r)
<1>1. g = [x \in DOMAIN f \cup {a} |-> IF x = a THEN r ELSE f[x]]
  BY DEF Put
<1>2. DOMAIN f \subseteq Addrs /\ \A x \in DOMAIN f : f[x] \in R
  BY IsMap
<1>3. g \in [DOMAIN f \cup {a} -> R] /\ DOMAIN f \cup {a} \in SUBSET Addrs
  BY <1>1, <1>2
<1>4. g \in MapsTo(R)
  BY <1>3 DEF MapsTo
<1> QED BY <1>1, <1>4

\* The tally that a transaction starts with is one.
LEMMA NewTallyType ==
  ASSUME NEW known \in MapsTo(BOOLEAN), NEW new \in MapsTo(BOOLEAN),
         NEW ops \in Seq(Ops), NEW ok \in BOOLEAN
  PROVE  NewTally(known, new, ops, ok) \in Tallies
  BY DEF NewTally, Tallies, Nothing

\* A tally after a change of one of its fields.
LEMMA TallyUpdate ==
  ASSUME NEW t \in Tallies
  PROVE  /\ \A x \in [Addrs -> Nat] :
              /\ [t EXCEPT !.deposits = x] \in Tallies
              /\ [t EXCEPT !.proxyDeposits = x] \in Tallies
              /\ [t EXCEPT !.withdrawals = x] \in Tallies
         /\ \A x \in Nat : [t EXCEPT !.fees = x] \in Tallies
         /\ \A x \in Seq(Transfers) : [t EXCEPT !.transfers = x] \in Tallies
         /\ \A x \in Seq(Ops) : [t EXCEPT !.ops = x] \in Tallies
         /\ [t EXCEPT !.ok = FALSE] \in Tallies
         /\ \A x \in Seq(Addrs), y \in MapsTo(BOOLEAN) :
              [t EXCEPT !.addrs = x, !.new = y] \in Tallies
         /\ \A x \in SUBSET Addrs, y \in MapsTo(BOOLEAN) :
              [t EXCEPT !.keyed = x, !.new = y] \in Tallies
  BY DEF Tallies

\* The fields of a tally.
LEMMA TallyFields ==
  ASSUME NEW t \in Tallies
  PROVE  /\ t.addrs \in Seq(Addrs) /\ t.keyed \in SUBSET Addrs
         /\ t.known \in MapsTo(BOOLEAN) /\ t.new \in MapsTo(BOOLEAN)
         /\ t.deposits \in [Addrs -> Nat]
         /\ t.proxyDeposits \in [Addrs -> Nat]
         /\ t.withdrawals \in [Addrs -> Nat] /\ t.fees \in Nat
         /\ t.transfers \in Seq(Transfers) /\ t.ops \in Seq(Ops)
         /\ t.ok \in BOOLEAN
  BY DEF Tallies

\* An event leaves a tally in the first loop.
LEMMA FirstLoopType ==
  ASSUME NEW t \in Tallies, NEW payer, NEW e \in Events
  PROVE  FirstLoop(t, payer, e) \in Tallies
<1>1. /\ e.account \in Addrs /\ e.receiver \in Accounts /\ e.amount \in Nat
      /\ NoAccount \in Accounts
  BY DEF Events, Accounts
<1>2. AccountCreated(t, payer, e) \in Tallies
  <2>1. Put(t.new, e.account, FALSE) \in MapsTo(BOOLEAN)
    BY <1>1, TallyFields, PutType
  <2>2. Append(t.addrs, e.account) \in Seq(Addrs)
    BY <1>1, TallyFields, AppendProperties
  <2> QED BY <2>1, <2>2, TallyUpdate DEF AccountCreated
<1>3. ProxyCreated(t, payer, e) \in Tallies
  <2>1. /\ Put(t.new, e.account, TRUE) \in MapsTo(BOOLEAN)
        /\ t.keyed \cup {e.account} \in SUBSET Addrs
    BY <1>1, TallyFields, PutType
  <2> QED BY <2>1, TallyUpdate DEF ProxyCreated
<1>4. ProxyDeposited(t, e) \in Tallies
  <2>1. [t.proxyDeposits EXCEPT ![e.account] = @ + e.amount] \in [Addrs -> Nat]
    BY <1>1, TallyFields
  <2> QED BY <2>1, TallyUpdate DEF ProxyDeposited
<1>5. ProxyTransferred(t, e) \in Tallies
  <2> DEFINE x == [sender   |-> e.account, amount |-> e.amount,
                   receiver |-> IF isTracked(e.receiver, t.known, t.new)
                                  THEN e.receiver ELSE NoAccount]
  <2>1. x \in Transfers
    BY <1>1 DEF Transfers
  <2> HIDE DEF x
  <2>2. Append(t.transfers, x) \in Seq(Transfers)
    BY <2>1, TallyFields
  <2>3. [t EXCEPT !.transfers = Append(@, x)] \in Tallies
    BY <2>2, TallyUpdate
  <2> QED BY <2>3 DEF ProxyTransferred, x
<1> QED
  BY <1>2, <1>3, <1>4, <1>5 DEF FirstLoop

\* The same for an event in the second loop.
LEMMA SecondLoopType ==
  ASSUME NEW t \in Tallies, NEW e \in Events
  PROVE  SecondLoop(t, e) \in Tallies
<1>1. e.account \in Addrs /\ e.amount \in Nat
  BY DEF Events
<1>2. /\ [t.deposits EXCEPT ![e.account] = @ + e.amount] \in [Addrs -> Nat]
      /\ [t.withdrawals EXCEPT ![e.account] = @ + e.amount] \in [Addrs -> Nat]
      /\ t.fees + e.amount \in Nat
  <2>1. /\ t.deposits \in [Addrs -> Nat] /\ t.withdrawals \in [Addrs -> Nat]
        /\ t.fees \in Nat
    BY TallyFields
  <2> QED BY <1>1, <2>1
<1>3. TokensDeposited(t, e) \in Tallies
  BY <1>2, TallyUpdate DEF TokensDeposited
<1>4. TokensWithdrawn(t, e) \in Tallies
  BY <1>2, TallyUpdate DEF TokensWithdrawn
<1> QED
  BY <1>3, <1>4 DEF SecondLoop

\* The same for a proxy transfer.
LEMMA MatchTransferType ==
  ASSUME NEW t \in Tallies, NEW x \in Transfers
  PROVE  MatchTransfer(t, x) \in Tallies
<1>1. /\ x.sender \in Addrs /\ x.amount \in Nat /\ x.receiver \in Accounts
      /\ x.sender \in Accounts
  BY DEF Transfers, Accounts
<1>2. Op("PROXY_TRANSFER", x.sender, x.receiver, x.amount, FALSE) \in Ops
  BY <1>1 DEF Op, Ops
<1>3. ASSUME NEW u \in Tallies PROVE ProxyOp(u, x) \in Tallies
  <2>1. Append(u.ops, Op("PROXY_TRANSFER", x.sender, x.receiver, x.amount,
                         FALSE)) \in Seq(Ops)
    BY <1>2, TallyFields, AppendProperties
  <2> QED BY <2>1, TallyUpdate DEF ProxyOp
<1>4. CASE x.amount = 0 \/ x.receiver = NoAccount
  BY <1>3, <1>4 DEF MatchTransfer
<1>5. CASE x.amount # 0 /\ x.receiver # NoAccount
  <2>1. x.receiver \in Addrs
    BY <1>1, <1>5 DEF Accounts
  <2>2. [t EXCEPT !.ok = FALSE] \in Tallies
    BY TallyUpdate
  <2>3. ASSUME ~(x.amount > t.deposits[x.receiver])
        PROVE  [t EXCEPT !.deposits[x.receiver] = @ - x.amount] \in Tallies
    <3>1. [t.deposits EXCEPT ![x.receiver] = @ - x.amount] \in [Addrs -> Nat]
      BY <1>1, <2>1, <2>3, TallyFields
    <3> QED BY <3>1, TallyUpdate
  <2>4. ASSUME ~(x.amount > t.proxyDeposits[x.receiver])
        PROVE  [t EXCEPT !.proxyDeposits[x.receiver] = @ - x.amount]
                 \in Tallies
    <3>1. [t.proxyDeposits EXCEPT ![x.receiver] = @ - x.amount]
            \in [Addrs -> Nat]
      BY <1>1, <2>1, <2>4, TallyFields
    <3> QED BY <3>1, TallyUpdate
  <2> QED BY <1>3, <1>5, <2>2, <2>3, <2>4 DEF MatchTransfer
<1> QED BY <1>4, <1>5

\* The intermediate tallies of the first loop over events.
LEMMA FirstLoopFold ==
  ASSUME NEW payer \in Addrs, NEW base \in Tallies, NEW seq \in Seq(Events)
  PROVE  \E c \in [0..Len(seq) -> Tallies] :
           /\ c[0] = base
           /\ \A i \in 1..Len(seq) : c[i] = FirstLoop(c[i - 1], payer, seq[i])
           /\ evtloop(base, payer, seq) = c[Len(seq)]
<1> DEFINE n == Len(seq)
           g == [x \in (1..n) \X Tallies |-> FirstLoop(x[2], payer, seq[x[1]])]
           Body(f) == [s \in SUBSET DOMAIN seq |-> IF s = {} THEN base ELSE
                         LET x == Max(s)
                         IN  FirstLoop(f[s \ {x}], payer, seq[x])]
           h == CHOOSE f : f = Body(f)
<1>1. n \in Nat /\ DOMAIN seq = 1..n /\ \A i \in 1..n : seq[i] \in Events
  OBVIOUS
<1>2. \A t \in Tallies, i \in 1..n : FirstLoop(t, payer, seq[i]) \in Tallies
  BY <1>1, FirstLoopType
<1>3. g \in [(1..n) \X Tallies -> Tallies]
  BY <1>2
<1>4. \A t \in Tallies, i \in 1..n : g[<<i, t>>] = FirstLoop(t, payer, seq[i])
  OBVIOUS
<1>5. evtloop(base, payer, seq) = h[1..n]
  BY <1>1 DEF evtloop, FoldLeft, MapThenFoldSet
<1> HIDE DEF n, g
<1>6. \A s \in SUBSET (1..n) : s # {} => Max(s) \in 1..n
  BY <1>1, MaxIn
<1>7. PICK f \in [SUBSET (1..n) -> Tallies] : Solves(f, n, base, g)
  BY <1>1, <1>3, SetRecursion
<1>8. f = Body(f)
  BY <1>1, <1>4, <1>6, <1>7 DEF Solves
<1>9. h = Body(h)
  BY <1>8
<1> HIDE DEF h
<1>10. h[{}] = base /\ \A s \in SUBSET (1..n) : s # {} =>
         h[s] = FirstLoop(h[s \ {Max(s)}], payer, seq[Max(s)])
  BY <1>1, <1>9
<1>11. SolvesIn(Tallies, h, n, base, g)
  BY <1>4, <1>6, <1>10 DEF SolvesIn
<1>12. PICK c \in [0..n -> Tallies] : Chain(c, n, base, g, h[1..n])
  BY <1>1, <1>3, <1>11, FoldChain
<1>13. \A i \in 1..n : i - 1 \in 0..n
  BY <1>1
<1>14. \A i \in 1..n : c[i] = FirstLoop(c[i - 1], payer, seq[i])
  BY <1>4, <1>12, <1>13 DEF Chain
<1> QED
  BY <1>5, <1>12, <1>14 DEF n, Chain

\* The intermediate tallies of the second loop.
LEMMA SecondLoopFold ==
  ASSUME NEW base \in Tallies, NEW seq \in Seq(Events)
  PROVE  \E c \in [0..Len(seq) -> Tallies] :
           /\ c[0] = base
           /\ \A i \in 1..Len(seq) : c[i] = SecondLoop(c[i - 1], seq[i])
           /\ evtloop2(base, seq) = c[Len(seq)]
<1> DEFINE n == Len(seq)
           g == [x \in (1..n) \X Tallies |-> SecondLoop(x[2], seq[x[1]])]
           Body(f) == [s \in SUBSET DOMAIN seq |-> IF s = {} THEN base ELSE
                         LET x == Max(s) IN SecondLoop(f[s \ {x}], seq[x])]
           h == CHOOSE f : f = Body(f)
<1>1. n \in Nat /\ DOMAIN seq = 1..n /\ \A i \in 1..n : seq[i] \in Events
  OBVIOUS
<1>2. \A t \in Tallies, i \in 1..n : SecondLoop(t, seq[i]) \in Tallies
  BY <1>1, SecondLoopType
<1>3. g \in [(1..n) \X Tallies -> Tallies]
  BY <1>2
<1>4. \A t \in Tallies, i \in 1..n : g[<<i, t>>] = SecondLoop(t, seq[i])
  OBVIOUS
<1>5. evtloop2(base, seq) = h[1..n]
  BY <1>1 DEF evtloop2, FoldLeft, MapThenFoldSet
<1> HIDE DEF n, g
<1>6. \A s \in SUBSET (1..n) : s # {} => Max(s) \in 1..n
  BY <1>1, MaxIn
<1>7. PICK f \in [SUBSET (1..n) -> Tallies] : Solves(f, n, base, g)
  BY <1>1, <1>3, SetRecursion
<1>8. f = Body(f)
  BY <1>1, <1>4, <1>6, <1>7 DEF Solves
<1>9. h = Body(h)
  BY <1>8
<1> HIDE DEF h
<1>10. h[{}] = base /\ \A s \in SUBSET (1..n) : s # {} =>
         h[s] = SecondLoop(h[s \ {Max(s)}], seq[Max(s)])
  BY <1>1, <1>9
<1>11. SolvesIn(Tallies, h, n, base, g)
  BY <1>4, <1>6, <1>10 DEF SolvesIn
<1>12. PICK c \in [0..n -> Tallies] : Chain(c, n, base, g, h[1..n])
  BY <1>1, <1>3, <1>11, FoldChain
<1>13. \A i \in 1..n : i - 1 \in 0..n
  BY <1>1
<1>14. \A i \in 1..n : c[i] = SecondLoop(c[i - 1], seq[i])
  BY <1>4, <1>12, <1>13 DEF Chain
<1> QED
  BY <1>5, <1>12, <1>14 DEF n, Chain

\* The intermediate tallies of the loop over the proxy transfers.
LEMMA MatchTransferFold ==
  ASSUME NEW base \in Tallies, NEW seq \in Seq(Transfers)
  PROVE  \E c \in [0..Len(seq) -> Tallies] :
           /\ c[0] = base
           /\ \A i \in 1..Len(seq) : c[i] = MatchTransfer(c[i - 1], seq[i])
           /\ FoldLeft(MatchTransfer, base, seq) = c[Len(seq)]
<1> DEFINE n == Len(seq)
           g == [x \in (1..n) \X Tallies |-> MatchTransfer(x[2], seq[x[1]])]
           Body(f) == [s \in SUBSET DOMAIN seq |-> IF s = {} THEN base ELSE
                         LET x == Max(s) IN MatchTransfer(f[s \ {x}], seq[x])]
           h == CHOOSE f : f = Body(f)
<1>1. n \in Nat /\ DOMAIN seq = 1..n /\ \A i \in 1..n : seq[i] \in Transfers
  OBVIOUS
<1>2. \A t \in Tallies, i \in 1..n : MatchTransfer(t, seq[i]) \in Tallies
  BY <1>1, MatchTransferType
<1>3. g \in [(1..n) \X Tallies -> Tallies]
  BY <1>2
<1>4. \A t \in Tallies, i \in 1..n : g[<<i, t>>] = MatchTransfer(t, seq[i])
  OBVIOUS
<1>5. FoldLeft(MatchTransfer, base, seq) = h[1..n]
  BY <1>1 DEF FoldLeft, MapThenFoldSet
<1> HIDE DEF n, g
<1>6. \A s \in SUBSET (1..n) : s # {} => Max(s) \in 1..n
  BY <1>1, MaxIn
<1>7. PICK f \in [SUBSET (1..n) -> Tallies] : Solves(f, n, base, g)
  BY <1>1, <1>3, SetRecursion
<1>8. f = Body(f)
  BY <1>1, <1>4, <1>6, <1>7 DEF Solves
<1>9. h = Body(h)
  BY <1>8
<1> HIDE DEF h
<1>10. h[{}] = base /\ \A s \in SUBSET (1..n) : s # {} =>
         h[s] = MatchTransfer(h[s \ {Max(s)}], seq[Max(s)])
  BY <1>1, <1>9
<1>11. SolvesIn(Tallies, h, n, base, g)
  BY <1>4, <1>6, <1>10 DEF SolvesIn
<1>12. PICK c \in [0..n -> Tallies] : Chain(c, n, base, g, h[1..n])
  BY <1>1, <1>3, <1>11, FoldChain
<1>13. \A i \in 1..n : i - 1 \in 0..n
  BY <1>1
<1>14. \A i \in 1..n : c[i] = MatchTransfer(c[i - 1], seq[i])
  BY <1>4, <1>12, <1>13 DEF Chain
<1> QED
  BY <1>5, <1>12, <1>14 DEF n, Chain

\* SetToSeq enumerates a finite set.
LEMMA SetToSeqOf ==
  ASSUME NEW S, IsFiniteSet(S)
  PROVE  /\ SetToSeq(S) \in Seq(S)
         /\ \A i, j \in 1..Len(SetToSeq(S)) :
              SetToSeq(S)[i] = SetToSeq(S)[j] => i = j
         /\ \A x \in S : \E i \in 1..Len(SetToSeq(S)) : SetToSeq(S)[i] = x
<1> DEFINE n == Cardinality(S)
           q == SetToSeq(S)
<1>1. n \in Nat /\ ExistsBijection(1..n, S)
  BY FS_CardinalityType
<1>2. PICK f \in Bijection(1..n, S) : TRUE
  BY <1>1 DEF ExistsBijection
<1>3. f \in [1..n -> S] /\ IsInjective(f)
  BY <1>2 DEF Bijection, Injection, IsInjective
<1>4. q \in [1..n -> S] /\ IsInjective(q)
  BY <1>3 DEF SetToSeq
<1> HIDE DEF q
<1>5. q \in Injection(1..n, S)
  BY <1>4 DEF Injection, IsInjective
<1>6. Cardinality(1..n) = n
  <2>1. 1 <= n => n - 1 + 1 = n
    BY <1>1
  <2> QED BY <1>1, <2>1, FS_Interval, Z3
<1>7. q \in Surjection(1..n, S)
  BY <1>5, <1>6, FS_Injection
<1>8. \A x \in S : \E i \in 1..n : q[i] = x
  BY <1>7 DEF Surjection
<1>9. q \in Seq(S) /\ Len(q) = n
  BY <1>1, <1>4
<1>10. \A i, j \in 1..n : q[i] = q[j] => i = j
  BY <1>4 DEF IsInjective
<1> QED BY <1>8, <1>9, <1>10 DEF q

\* Any set of addresses can be enumerated.
LEMMA FiniteAddrs == ASSUME NEW S \in SUBSET Addrs PROVE IsFiniteSet(S)
  BY BlockOpsAssumption, FS_Subset

\* What the fields of an operation hold.
LEMMA OpType ==
  ASSUME NEW type \in {"CREATE_ACCOUNT", "FEE", "PROXY_TRANSFER", "TRANSFER"},
         NEW a \in Accounts, NEW b \in Accounts, NEW n \in Nat,
         NEW p \in BOOLEAN
  PROVE  /\ Op(type, a, b, n, p) \in Ops
         /\ Op(type, a, b, n, p).type = type
         /\ Op(type, a, b, n, p).account = a
         /\ Op(type, a, b, n, p).receiver = b
         /\ Op(type, a, b, n, p).amount = n
         /\ Op(type, a, b, n, p).proxy = p
  BY DEF Op, Ops

\* The CREATE_ACCOUNT operations leave a tally.
LEMMA CreateOpsType ==
  ASSUME NEW t \in Tallies
  PROVE  CreateOps(t) \in Tallies
<1> DEFINE new == [i \in DOMAIN t.addrs |->
             Op("CREATE_ACCOUNT", t.addrs[i], NoAccount, 0,
                t.addrs[i] \in t.keyed)]
<1>1. new \in Seq(Ops)
  <2>1. t.addrs \in Seq(Addrs)
    BY TallyFields
  <2>2. ASSUME NEW i \in DOMAIN t.addrs
        PROVE  Op("CREATE_ACCOUNT", t.addrs[i], NoAccount, 0,
                  t.addrs[i] \in t.keyed) \in Ops
    <3>1. t.addrs[i] \in Accounts /\ NoAccount \in Accounts
          /\ (t.addrs[i] \in t.keyed) \in BOOLEAN
      BY <2>1 DEF Accounts
    <3> QED BY <3>1, OpType
  <2>3. DOMAIN t.addrs = 1..Len(t.addrs) /\ Len(t.addrs) \in Nat
    BY <2>1
  <2>4. new \in [1..Len(t.addrs) -> Ops]
    BY <2>2, <2>3
  <2> HIDE DEF new
  <2> QED BY <2>3, <2>4, IsASeq
<1> HIDE DEF new
<1>2. t.ops \o new \in Seq(Ops)
  BY <1>1, TallyFields, ConcatProperties
<1>3. [t EXCEPT !.ops = @ \o new] \in Tallies
  BY <1>2, TallyUpdate
<1> QED BY <1>3 DEF CreateOps, new

\* The FEE operation leaves a tally.
LEMMA FeeOpType ==
  ASSUME NEW t \in Tallies, NEW payer \in Addrs
  PROVE  FeeOp(t, payer) \in Tallies
<1>1. CASE t.fees > t.withdrawals[payer]
  BY <1>1, TallyUpdate DEF FeeOp
<1>2. CASE ~(t.fees > t.withdrawals[payer])
  <2> DEFINE op == Op("FEE", payer, NoAccount, t.fees, FALSE)
             w == [t.withdrawals EXCEPT ![payer] = @ - t.fees]
             u == [t EXCEPT !.withdrawals = w]
  <2>1. op \in Ops
    BY TallyFields, OpType DEF Accounts
  <2>2. w \in [Addrs -> Nat]
    BY <1>2, TallyFields
  <2> HIDE DEF op, w
  <2>3. u \in Tallies /\ u.ops = t.ops
    BY <2>2, TallyUpdate DEF Tallies
  <2>4. Append(t.ops, op) \in Seq(Ops)
    BY <2>1, TallyFields, AppendProperties
  <2> HIDE DEF u
  <2>5. [u EXCEPT !.ops = Append(@, op)] \in Tallies
    BY <2>3, <2>4, TallyUpdate
  <2>6. [t EXCEPT !.withdrawals[payer] = @ - t.fees, !.ops = Append(@, op)]
          = [u EXCEPT !.ops = Append(@, op)]
    BY TallyFields DEF u, w, Tallies
  <2> QED BY <1>2, <2>5, <2>6 DEF FeeOp, op
<1> QED BY <1>1, <1>2

-----------------------------------------------------------------------------
(***************************************************************************)
(* What Index makes of the operations.                                     *)
(***************************************************************************)
Val(f, a) == IF a \in DOMAIN f THEN f[a] ELSE 0

\* What an operation does to the balance of an account, and to which ones.
Effect(op, a) ==
  IF op.type = "CREATE_ACCOUNT" THEN 0
  ELSE (IF a = op.receiver THEN op.amount ELSE 0)
         - (IF a = op.account THEN op.amount ELSE 0)

Touched(op) ==
  IF op.type = "CREATE_ACCOUNT" THEN {op.account} \ {NoAccount}
                                ELSE {op.account, op.receiver} \ {NoAccount}

AddFee(n, op, acct) ==
  IF op.type = "FEE" /\ op.account = acct THEN n + op.amount ELSE n

\* AddDiff changes the entry of one account, and adds it if it is not there.
LEMMA AddDiffEffect ==
  ASSUME NEW f \in MapsTo(Int), NEW acct \in Accounts, NEW n \in Int
  PROVE  /\ AddDiff(f, acct, n) \in MapsTo(Int)
         /\ DOMAIN AddDiff(f, acct, n) = DOMAIN f \cup ({acct} \ {NoAccount})
         /\ \A a \in Addrs : Val(AddDiff(f, acct, n), a) =
              Val(f, a) + (IF a = acct THEN n ELSE 0)
<1>1. NoAccount \notin Addrs
  BY BlockOpsAssumption
<1>2. f \in [DOMAIN f -> Int] /\ DOMAIN f \subseteq Addrs
  BY IsMap
<1>3. \A a \in Addrs : Val(f, a) \in Int
  BY <1>2 DEF Val
<1>4. CASE acct = NoAccount
  <2>1. \A a \in Addrs : a # acct
    BY <1>1, <1>4
  <2>2. AddDiff(f, acct, n) = f /\ {acct} \ {NoAccount} = {}
    BY <1>4 DEF AddDiff
  <2>3. \A a \in Addrs : Val(f, a) =
          Val(f, a) + (IF a = acct THEN n ELSE 0)
    BY <1>3, <2>1
  <2> QED BY <2>2, <2>3
<1>5. CASE acct # NoAccount
  <2>1. acct \in Addrs
    BY <1>5 DEF Accounts
  <2> DEFINE v == Val(f, acct) + n
             g == Put(f, acct, v)
  <2>2. AddDiff(f, acct, n) = g
    BY <1>2, <1>5, <2>1 DEF AddDiff, Val
  <2>3. v \in Int
    BY <1>3, <2>1
  <2> HIDE DEF v
  <2>4. /\ g \in MapsTo(Int) /\ DOMAIN g = DOMAIN f \cup {acct}
        /\ g[acct] = v
        /\ \A x \in DOMAIN f : x # acct => g[x] = f[x]
    <3>1. g \in MapsTo(Int)
      BY <2>1, <2>3, PutType
    <3> QED BY <2>1, <3>1 DEF Put
  <2> HIDE DEF g
  <2>5. ASSUME NEW a \in Addrs
        PROVE  Val(g, a) = Val(f, a) + (IF a = acct THEN n ELSE 0)
    <3>1. CASE a = acct
      <4>1. Val(g, a) = g[acct]
        BY <2>4, <3>1 DEF Val
      <4> QED BY <2>4, <3>1, <4>1 DEF v
    <3>2. CASE a # acct
      <4>1. Val(g, a) = Val(f, a)
        BY <2>4, <3>2 DEF Val
      <4> QED BY <1>3, <3>2, <4>1
    <3> QED BY <3>1, <3>2
  <2> QED BY <1>5, <2>2, <2>4, <2>5
<1> QED BY <1>4, <1>5

\* ApplyOp changes the entries of the accounts that its operation touches.
LEMMA ApplyOpEffect ==
  ASSUME NEW f \in MapsTo(Int), NEW op \in Ops
  PROVE  /\ ApplyOp(f, op) \in MapsTo(Int)
         /\ DOMAIN ApplyOp(f, op) = DOMAIN f \cup Touched(op)
         /\ \A a \in Addrs : Val(f, a) \in Int /\ Effect(op, a) \in Int
         /\ \A a \in Addrs :
              Val(ApplyOp(f, op), a) = Val(f, a) + Effect(op, a)
<1>1. /\ op.account \in Accounts /\ op.receiver \in Accounts
      /\ op.amount \in Nat /\ -op.amount \in Int /\ op.amount \in Int
  BY DEF Ops
<1>2. \A a \in Addrs : Val(f, a) \in Int
  <2>1. f \in [DOMAIN f -> Int]
    BY IsMap
  <2> QED BY <2>1 DEF Val
<1>3. \A a \in Addrs : Effect(op, a) \in Int
  BY <1>1 DEF Effect
<1>4. CASE op.type = "CREATE_ACCOUNT"
  <2> DEFINE g == AddDiff(f, op.account, 0)
  <2>1. ApplyOp(f, op) = g
    BY <1>4 DEF ApplyOp
  <2>2. /\ g \in MapsTo(Int)
        /\ DOMAIN g = DOMAIN f \cup ({op.account} \ {NoAccount})
        /\ \A a \in Addrs : Val(g, a) =
             Val(f, a) + (IF a = op.account THEN 0 ELSE 0)
    <3>1. 0 \in Int
      OBVIOUS
    <3> QED BY <1>1, <3>1, AddDiffEffect
  <2> HIDE DEF g
  <2>3. \A a \in Addrs : Val(g, a) = Val(f, a) + Effect(op, a)
    BY <1>2, <1>4, <2>2 DEF Effect
  <2> QED BY <1>2, <1>3, <1>4, <2>1, <2>2, <2>3 DEF Touched
<1>5. CASE op.type # "CREATE_ACCOUNT"
  <2> DEFINE g == AddDiff(f, op.account, -op.amount)
             k == AddDiff(g, op.receiver, op.amount)
  <2>1. ApplyOp(f, op) = k
    BY <1>5 DEF ApplyOp
  <2>2. /\ g \in MapsTo(Int)
        /\ DOMAIN g = DOMAIN f \cup ({op.account} \ {NoAccount})
        /\ \A a \in Addrs : Val(g, a) =
             Val(f, a) + (IF a = op.account THEN -op.amount ELSE 0)
    BY <1>1, AddDiffEffect
  <2> HIDE DEF g
  <2>3. /\ k \in MapsTo(Int)
        /\ DOMAIN k = DOMAIN g \cup ({op.receiver} \ {NoAccount})
        /\ \A a \in Addrs : Val(k, a) =
             Val(g, a) + (IF a = op.receiver THEN op.amount ELSE 0)
    BY <1>1, <2>2, AddDiffEffect
  <2> HIDE DEF k
  <2>4. \A a \in Addrs : Val(k, a) = Val(f, a) + Effect(op, a)
    BY <1>1, <1>2, <1>5, <2>2, <2>3 DEF Effect
  <2>5. DOMAIN k = DOMAIN f \cup Touched(op)
    BY <1>5, <2>2, <2>3 DEF Touched
  <2> QED BY <1>2, <1>3, <2>1, <2>3, <2>4, <2>5
<1> QED BY <1>4, <1>5

\* A FEE operation adds a natural number.
LEMMA AddFeeType ==
  ASSUME NEW n \in Nat, NEW op \in Ops, NEW acct
  PROVE  AddFee(n, op, acct) \in Nat
  BY DEF AddFee, Ops

\* The intermediate maps of Diffs.
LEMMA ApplyOpFold ==
  ASSUME NEW base \in MapsTo(Int), NEW seq \in Seq(Ops)
  PROVE  \E c \in [0..Len(seq) -> MapsTo(Int)] :
           /\ c[0] = base
           /\ \A i \in 1..Len(seq) : c[i] = ApplyOp(c[i - 1], seq[i])
           /\ FoldLeft(ApplyOp, base, seq) = c[Len(seq)]
<1> DEFINE n == Len(seq)
           g == [x \in (1..n) \X MapsTo(Int) |-> ApplyOp(x[2], seq[x[1]])]
           Body(f) == [s \in SUBSET DOMAIN seq |-> IF s = {} THEN base ELSE
                         LET x == Max(s) IN ApplyOp(f[s \ {x}], seq[x])]
           h == CHOOSE f : f = Body(f)
<1>1. n \in Nat /\ DOMAIN seq = 1..n /\ \A i \in 1..n : seq[i] \in Ops
  OBVIOUS
<1>2. \A t \in MapsTo(Int), i \in 1..n : ApplyOp(t, seq[i]) \in MapsTo(Int)
  BY <1>1, ApplyOpEffect
<1>3. g \in [(1..n) \X MapsTo(Int) -> MapsTo(Int)]
  BY <1>2
<1>4. \A t \in MapsTo(Int), i \in 1..n : g[<<i, t>>] = ApplyOp(t, seq[i])
  OBVIOUS
<1>5. FoldLeft(ApplyOp, base, seq) = h[1..n]
  BY <1>1 DEF FoldLeft, MapThenFoldSet
<1> HIDE DEF n, g
<1>6. \A s \in SUBSET (1..n) : s # {} => Max(s) \in 1..n
  BY <1>1, MaxIn
<1>7. PICK f \in [SUBSET (1..n) -> MapsTo(Int)] : Solves(f, n, base, g)
  BY <1>1, <1>3, SetRecursion
<1>8. f = Body(f)
  BY <1>1, <1>4, <1>6, <1>7 DEF Solves
<1>9. h = Body(h)
  BY <1>8
<1> HIDE DEF h
<1>10. h[{}] = base /\ \A s \in SUBSET (1..n) : s # {} =>
         h[s] = ApplyOp(h[s \ {Max(s)}], seq[Max(s)])
  BY <1>1, <1>9
<1>11. SolvesIn(MapsTo(Int), h, n, base, g)
  BY <1>4, <1>6, <1>10 DEF SolvesIn
<1>12. PICK c \in [0..n -> MapsTo(Int)] : Chain(c, n, base, g, h[1..n])
  BY <1>1, <1>3, <1>11, FoldChain
<1>13. \A i \in 1..n : i - 1 \in 0..n
  BY <1>1
<1>14. \A i \in 1..n : c[i] = ApplyOp(c[i - 1], seq[i])
  BY <1>4, <1>12, <1>13 DEF Chain
<1> QED
  BY <1>5, <1>12, <1>14 DEF n, Chain

\* The intermediate sums of FeesIn.
LEMMA AddFeeFold ==
  ASSUME NEW acct, NEW seq \in Seq(Ops)
  PROVE  \E c \in [0..Len(seq) -> Nat] :
           /\ c[0] = 0
           /\ \A i \in 1..Len(seq) : c[i] = AddFee(c[i - 1], seq[i], acct)
           /\ FeesIn(seq, acct) = c[Len(seq)]
<1> DEFINE n == Len(seq)
           g == [x \in (1..n) \X Nat |-> AddFee(x[2], seq[x[1]], acct)]
           Body(f) == [s \in SUBSET DOMAIN seq |-> IF s = {} THEN 0 ELSE
                         LET x == Max(s) IN AddFee(f[s \ {x}], seq[x], acct)]
           h == CHOOSE f : f = Body(f)
<1>1. n \in Nat /\ DOMAIN seq = 1..n /\ \A i \in 1..n : seq[i] \in Ops
  OBVIOUS
<1>2. \A t \in Nat, i \in 1..n : AddFee(t, seq[i], acct) \in Nat
  BY <1>1, AddFeeType
<1>3. g \in [(1..n) \X Nat -> Nat]
  BY <1>2
<1>4. \A t \in Nat, i \in 1..n : g[<<i, t>>] = AddFee(t, seq[i], acct)
  OBVIOUS
<1>5. FeesIn(seq, acct) = h[1..n]
  BY <1>1 DEF FeesIn, AddFee, FoldLeft, MapThenFoldSet
<1> HIDE DEF n, g
<1>6. \A s \in SUBSET (1..n) : s # {} => Max(s) \in 1..n
  BY <1>1, MaxIn
<1>7. PICK f \in [SUBSET (1..n) -> Nat] : Solves(f, n, 0, g)
  BY <1>1, <1>3, SetRecursion
<1>8. f = Body(f)
  BY <1>1, <1>4, <1>6, <1>7 DEF Solves
<1>9. h = Body(h)
  BY <1>8
<1> HIDE DEF h
<1>10. h[{}] = 0 /\ \A s \in SUBSET (1..n) : s # {} =>
         h[s] = AddFee(h[s \ {Max(s)}], seq[Max(s)], acct)
  BY <1>1, <1>9
<1>11. SolvesIn(Nat, h, n, 0, g)
  BY <1>4, <1>6, <1>10 DEF SolvesIn
<1>12. PICK c \in [0..n -> Nat] : Chain(c, n, 0, g, h[1..n])
  BY <1>1, <1>3, <1>11, FoldChain
<1>13. \A i \in 1..n : i - 1 \in 0..n
  BY <1>1
<1>14. \A i \in 1..n : c[i] = AddFee(c[i - 1], seq[i], acct)
  BY <1>4, <1>12, <1>13 DEF Chain
<1> QED
  BY <1>5, <1>12, <1>14 DEF n, Chain

\* No operations change nothing.
LEMMA NoOps ==
  /\ Diffs(<< >>) \in MapsTo(Int) /\ DOMAIN Diffs(<< >>) = {}
  /\ \A a \in Addrs : Change(<< >>, a) = 0
  /\ \A a : FeesIn(<< >>, a) = 0
  /\ ProxiesCreated(<< >>) = {}
<1>1. /\ << >> \in Seq(Ops) /\ << >> \in Seq(Int) /\ Len(<< >>) = 0
      /\ DOMAIN << >> = {}
  OBVIOUS
<1>2. << >> \in MapsTo(Int)
  <2>1. << >> \in [DOMAIN << >> -> Int]
    BY <1>1
  <2> QED BY <1>1, <2>1, IsMap
<1>3. Diffs(<< >>) = << >>
  <2> DEFINE E == << >>
  <2>1. E \in MapsTo(Int) /\ E \in Seq(Ops) /\ Len(E) = 0
    BY <1>1, <1>2
  <2>2. Diffs(E) = FoldLeft(ApplyOp, E, E)
    BY DEF Diffs
  <2> HIDE DEF E
  <2>3. PICK c \in [0..Len(E) -> MapsTo(Int)] :
          /\ c[0] = E
          /\ \A i \in 1..Len(E) : c[i] = ApplyOp(c[i - 1], E[i])
          /\ FoldLeft(ApplyOp, E, E) = c[Len(E)]
    BY <2>1, ApplyOpFold
  <2> QED BY <2>1, <2>2, <2>3 DEF E
<1>4. ASSUME NEW a PROVE FeesIn(<< >>, a) = 0
  <2>1. PICK c \in [0..Len(<< >>) -> Nat] :
          c[0] = 0 /\ FeesIn(<< >>, a) = c[Len(<< >>)]
    BY <1>1, AddFeeFold
  <2> QED BY <1>1, <2>1
<1> QED BY <1>1, <1>2, <1>3, <1>4 DEF Change, ProxiesCreated

\* One more operation.
LEMMA OpsAppend ==
  ASSUME NEW s \in Seq(Ops), NEW op \in Ops
  PROVE  /\ Diffs(s) \in MapsTo(Int)
         /\ DOMAIN Diffs(Append(s, op)) = DOMAIN Diffs(s) \cup Touched(op)
         /\ \A a \in Addrs : Change(s, a) \in Int /\ Effect(op, a) \in Int
         /\ \A a \in Addrs :
              Change(Append(s, op), a) = Change(s, a) + Effect(op, a)
         /\ \A a : FeesIn(s, a) \in Nat
         /\ \A a : FeesIn(Append(s, op), a) = AddFee(FeesIn(s, a), op, a)
         /\ ProxiesCreated(Append(s, op)) = ProxiesCreated(s) \cup
              (IF op.type = "CREATE_ACCOUNT" /\ op.proxy
                 THEN {op.account} ELSE {})
<1> DEFINE n == Len(s)
           u == Append(s, op)
<1>1. /\ n \in Nat /\ u \in Seq(Ops) /\ Len(u) = n + 1 /\ u[n + 1] = op
      /\ \A i \in 1..n : u[i] = s[i]
      /\ \A i \in 1..n : i \in 1..(n + 1)
      /\ n + 1 \in 1..(n + 1) /\ (n + 1) - 1 = n /\ n \in 0..n
  BY AppendProperties
<1>2. << >> \in MapsTo(Int)
  <2>1. << >> \in Seq(Int) /\ DOMAIN << >> = {}
    OBVIOUS
  <2>2. << >> \in [DOMAIN << >> -> Int]
    BY <2>1
  <2> QED BY <2>1, <2>2, IsMap
<1>3. Diffs(s) \in MapsTo(Int) /\ Diffs(u) = ApplyOp(Diffs(s), op)
  <2>1. PICK c \in [0..n -> MapsTo(Int)] :
           /\ c[0] = << >>
           /\ \A i \in 1..n : c[i] = ApplyOp(c[i - 1], s[i])
           /\ Diffs(s) = c[n]
    BY <1>2, ApplyOpFold DEF Diffs
  <2>2. PICK d \in [0..Len(u) -> MapsTo(Int)] :
           /\ d[0] = << >>
           /\ \A i \in 1..Len(u) : d[i] = ApplyOp(d[i - 1], u[i])
           /\ Diffs(u) = d[Len(u)]
    BY <1>1, <1>2, ApplyOpFold DEF Diffs
  <2> HIDE DEF u, n
  <2>3. \A i \in 1..n : c[i - 1] = d[i - 1] => c[i] = d[i]
    BY <1>1, <2>1, <2>2
  <2>a. Follows(c, d, n)
    BY <2>1, <2>2, <2>3 DEF Follows
  <2>4. \A i \in 0..n : c[i] = d[i]
    BY <1>1, <2>a, Agree
  <2>5. c[n] = d[n] /\ d[n + 1] = ApplyOp(d[n], op)
    BY <1>1, <2>2, <2>4
  <2> QED BY <1>1, <2>1, <2>2, <2>5
<1>4. ASSUME NEW a
      PROVE  FeesIn(s, a) \in Nat /\ FeesIn(u, a) = AddFee(FeesIn(s, a), op, a)
  <2>1. PICK c \in [0..n -> Nat] :
           /\ c[0] = 0
           /\ \A i \in 1..n : c[i] = AddFee(c[i - 1], s[i], a)
           /\ FeesIn(s, a) = c[n]
    BY AddFeeFold
  <2>2. PICK d \in [0..Len(u) -> Nat] :
           /\ d[0] = 0
           /\ \A i \in 1..Len(u) : d[i] = AddFee(d[i - 1], u[i], a)
           /\ FeesIn(u, a) = d[Len(u)]
    BY <1>1, AddFeeFold
  <2> HIDE DEF u, n
  <2>3. \A i \in 1..n : c[i - 1] = d[i - 1] => c[i] = d[i]
    BY <1>1, <2>1, <2>2
  <2>4. Follows(c, d, n)
    BY <2>1, <2>2, <2>3 DEF Follows
  <2>5. \A i \in 0..n : c[i] = d[i]
    <3>1. n \in Nat
      BY <1>1
    <3> QED BY <3>1, <2>4, Agree, Zenon
  <2>6. c[n] = d[n] /\ d[n + 1] = AddFee(d[n], op, a) /\ c[n] \in Nat
    BY <1>1, <2>2, <2>5
  <2> QED BY <1>1, <2>1, <2>2, <2>6
<1>5. ProxiesCreated(u) = ProxiesCreated(s) \cup
        (IF op.type = "CREATE_ACCOUNT" /\ op.proxy THEN {op.account} ELSE {})
  <2>1. DOMAIN s = 1..n /\ DOMAIN u = 1..(n + 1)
        /\ \A i \in 1..(n + 1) : i = n + 1 \/ i \in 1..n
    BY <1>1
  <2> HIDE DEF u, n
  <2> QED BY <1>1, <2>1 DEF ProxiesCreated
<1> HIDE DEF u, n
<1>6. /\ DOMAIN Diffs(u) = DOMAIN Diffs(s) \cup Touched(op)
      /\ \A a \in Addrs : Change(s, a) \in Int /\ Effect(op, a) \in Int
      /\ \A a \in Addrs : Change(u, a) = Change(s, a) + Effect(op, a)
  BY <1>3, ApplyOpEffect DEF Change, Val
<1> QED BY <1>3, <1>4, <1>5, <1>6 DEF u

\* What operations change is well typed.
LEMMA OpsTypes ==
  ASSUME NEW s \in Seq(Ops)
  PROVE  /\ Diffs(s) \in MapsTo(Int)
         /\ \A a \in Addrs : Change(s, a) \in Int
         /\ \A a : FeesIn(s, a) \in Nat
<1> DEFINE op == Op("FEE", NoAccount, NoAccount, 0, FALSE)
<1>1. op \in Ops
  BY DEF Op, Ops, Accounts
<1> HIDE DEF op
<1> QED BY <1>1, OpsAppend

\* A concatenation, element by element.
Grows(p, s, r) ==
  /\ p[0] = s /\ p[Len(r)] = s \o r
  /\ \A i \in 1..Len(r) : p[i] = Append(p[i - 1], r[i])

\* A concatenation appends the elements of its second part one by one.
LEMMA GrowsTo ==
  ASSUME NEW S, NEW s \in Seq(S), NEW r \in Seq(S)
  PROVE  \E p \in [0..Len(r) -> Seq(S)] : Grows(p, s, r)
<1> DEFINE z == s \o r
           m == Len(s)
           n == Len(r)
           p == [i \in 0..n |-> SubSeq(z, 1, m + i)]
<1>1. /\ z \in Seq(S) /\ Len(z) = m + n /\ m \in Nat /\ n \in Nat
      /\ \A i \in 1..m : z[i] = s[i]
      /\ \A i \in 1..n : z[m + i] = r[i]
  BY ConcatProperties
<1>2. \A i \in 1..(m + n) : z[i] \in S
  BY <1>1, ElementOfSeq
<1> HIDE DEF z
<1>3. ASSUME NEW i \in 0..n
      PROVE  /\ SubSeq(z, 1, m + i) \in Seq(S)
             /\ Len(SubSeq(z, 1, m + i)) = m + i
             /\ \A j \in 1..(m + i) : SubSeq(z, 1, m + i)[j] = z[j]
  <2>1. m + i \in Nat /\ \A j \in 1..(m + i) : z[j] \in S
    BY <1>1, <1>2
  <2>2. /\ SubSeq(z, 1, m + i) \in Seq(S)
        /\ Len(SubSeq(z, 1, m + i)) = IF 1 <= m + i THEN (m + i) - 1 + 1 ELSE 0
        /\ \A j \in 1..((m + i) - 1 + 1) :
             SubSeq(z, 1, m + i)[j] = z[1 + j - 1]
    BY <2>1, SubSeqProperties
  <2>3. \A j \in 1..(m + i) : j \in 1..((m + i) - 1 + 1) /\ 1 + j - 1 = j
    BY <2>1
  <2>4. Len(SubSeq(z, 1, m + i)) = m + i
    BY <2>1, <2>2
  <2> QED BY <2>2, <2>3, <2>4
<1>4. p \in [0..n -> Seq(S)]
  BY <1>3
<1>5. p[0] = s
  <2>1. p[0] = SubSeq(z, 1, m + 0) /\ m + 0 = m /\ 0 \in 0..n
    BY <1>1
  <2>2. p[0] \in Seq(S) /\ Len(p[0]) = m /\ \A j \in 1..m : p[0][j] = s[j]
    BY <1>1, <1>3, <2>1
  <2> QED BY <2>2, SeqEqual
<1>6. p[n] = z
  <2>1. p[n] = SubSeq(z, 1, Len(z))
    BY <1>1
  <2> QED BY <1>1, <2>1, SubSeqFull
<1>7. ASSUME NEW i \in 1..n PROVE p[i] = Append(p[i - 1], r[i])
  <2>1. i \in 0..n /\ i - 1 \in 0..n /\ r[i] \in S /\ r[i] = z[m + i]
        /\ i \in Nat /\ m + (i - 1) + 1 = m + i
    BY <1>1
  <2> DEFINE a == p[i - 1]
             b == p[i]
             q == Append(a, r[i])
  <2>2. /\ a \in Seq(S) /\ Len(a) = m + (i - 1)
        /\ \A j \in 1..(m + (i - 1)) : a[j] = z[j]
    BY <1>3, <2>1
  <2>3. b \in Seq(S) /\ Len(b) = m + i /\ \A j \in 1..(m + i) : b[j] = z[j]
    BY <1>3, <2>1
  <2> HIDE DEF a, b
  <2>4. /\ q \in Seq(S) /\ Len(q) = m + i /\ q[m + i] = z[m + i]
        /\ \A j \in 1..(m + (i - 1)) : q[j] = z[j]
    BY <2>1, <2>2, AppendProperties
  <2>5. \A j \in 1..(m + i) : j \in 1..(m + (i - 1)) \/ j = m + i
    <3>1. m \in Nat /\ i \in Nat
      BY <1>1, <2>1
    <3> HIDE DEF m
    <3> QED BY <3>1
  <2>6. \A j \in 1..(m + i) : q[j] = b[j]
    BY <2>3, <2>4, <2>5
  <2> HIDE DEF q
  <2>7. q = b
    BY <2>3, <2>4, <2>6, SeqEqual
  <2> QED BY <2>7 DEF q, a, b
<1> HIDE DEF p
<1> QED BY <1>4, <1>5, <1>6, <1>7 DEF Grows, z

\* The one-sided operations of MergeRest.
OneSided(dep, q, amount) ==
  [i \in DOMAIN q |-> IF dep
     THEN Op("TRANSFER", NoAccount, q[i], amount[q[i]], FALSE)
     ELSE Op("TRANSFER", q[i], NoAccount, amount[q[i]], FALSE)]

\* One-sided transfers are operations.
LEMMA OneSidedType ==
  ASSUME NEW dep \in BOOLEAN, NEW q \in Seq(Addrs),
         NEW amount \in [Addrs -> Nat]
  PROVE  /\ OneSided(dep, q, amount) \in Seq(Ops)
         /\ Len(OneSided(dep, q, amount)) = Len(q)
         /\ \A i \in 1..Len(q) :
              /\ q[i] \in Addrs
              /\ OneSided(dep, q, amount)[i].type = "TRANSFER"
              /\ OneSided(dep, q, amount)[i].amount = amount[q[i]]
              /\ OneSided(dep, q, amount)[i].account =
                   IF dep THEN NoAccount ELSE q[i]
              /\ OneSided(dep, q, amount)[i].receiver =
                   IF dep THEN q[i] ELSE NoAccount
<1> DEFINE n == Len(q)
           r == OneSided(dep, q, amount)
<1>1. n \in Nat /\ DOMAIN q = 1..n
  OBVIOUS
<1>2. ASSUME NEW i \in 1..n
      PROVE  /\ r[i] \in Ops /\ r[i].type = "TRANSFER" /\ q[i] \in Addrs
             /\ r[i].amount = amount[q[i]]
             /\ r[i].account = IF dep THEN NoAccount ELSE q[i]
             /\ r[i].receiver = IF dep THEN q[i] ELSE NoAccount
  <2>1. q[i] \in Addrs /\ q[i] \in Accounts /\ NoAccount \in Accounts
        /\ amount[q[i]] \in Nat /\ FALSE \in BOOLEAN
    BY <1>1 DEF Accounts
  <2>2. CASE dep
    <3>1. r[i] = Op("TRANSFER", NoAccount, q[i], amount[q[i]], FALSE)
      BY <1>1, <2>2 DEF OneSided
    <3> HIDE DEF r
    <3> QED BY <2>1, <2>2, <3>1 DEF Op, Ops
  <2>3. CASE ~dep
    <3>1. r[i] = Op("TRANSFER", q[i], NoAccount, amount[q[i]], FALSE)
      BY <1>1, <2>3 DEF OneSided
    <3> HIDE DEF r
    <3> QED BY <2>1, <2>3, <3>1 DEF Op, Ops
  <2> QED BY <2>2, <2>3
<1>3. DOMAIN r = 1..n /\ r = [i \in 1..n |-> r[i]]
  BY <1>1 DEF OneSided
<1> HIDE DEF r, n
<1>4. r \in [1..n -> Ops]
  BY <1>2, <1>3
<1>5. r \in Seq(Ops) /\ Len(r) = n
  BY <1>1, <1>4, IsASeq, LenProperties
<1> QED BY <1>2, <1>5 DEF r, n

\* One-sided transfers of different accounts give or take the amount of each.
LEMMA OneSidedEffect ==
  ASSUME NEW s \in Seq(Ops), NEW dep \in BOOLEAN, NEW q \in Seq(Addrs),
         \A i, j \in 1..Len(q) : q[i] = q[j] => i = j,
         NEW amount \in [Addrs -> Nat]
  PROVE  LET u == s \o OneSided(dep, q, amount)
         IN  /\ u \in Seq(Ops)
             /\ \A a \in Addrs : Change(u, a) = Change(s, a) +
                  (IF \E i \in 1..Len(q) : q[i] = a
                     THEN IF dep THEN amount[a] ELSE -amount[a] ELSE 0)
             /\ DOMAIN Diffs(u) = DOMAIN Diffs(s) \cup
                                    {q[i] : i \in 1..Len(q)}
             /\ \A a : FeesIn(u, a) = FeesIn(s, a)
             /\ ProxiesCreated(u) = ProxiesCreated(s)
<1> DEFINE n == Len(q)
           r == OneSided(dep, q, amount)
           By(k, a) == IF \E i \in 1..k : q[i] = a
                         THEN IF dep THEN amount[a] ELSE -amount[a] ELSE 0
           Good(k, u) ==
             /\ \A a \in Addrs : Change(u, a) = Change(s, a) + By(k, a)
             /\ DOMAIN Diffs(u) = DOMAIN Diffs(s) \cup {q[i] : i \in 1..k}
             /\ \A a : FeesIn(u, a) = FeesIn(s, a)
             /\ ProxiesCreated(u) = ProxiesCreated(s)
<1>1. n \in Nat /\ r \in Seq(Ops) /\ Len(r) = n
  BY OneSidedType
<1>2. \A i \in 1..n :
        /\ q[i] \in Addrs /\ r[i] \in Ops /\ r[i].type = "TRANSFER"
        /\ r[i].amount = amount[q[i]]
        /\ r[i].account = IF dep THEN NoAccount ELSE q[i]
        /\ r[i].receiver = IF dep THEN q[i] ELSE NoAccount
  BY <1>1, OneSidedType, ElementOfSeq
<1> HIDE DEF r, n
<1>3. PICK p \in [0..Len(r) -> Seq(Ops)] : Grows(p, s, r)
  BY <1>1, GrowsTo
<1>4. /\ p \in [0..n -> Seq(Ops)] /\ p[0] = s /\ p[n] = s \o r
      /\ \A i \in 1..n : p[i] = Append(p[i - 1], r[i])
  BY <1>1, <1>3 DEF Grows
<1>5. \A a \in Addrs : Change(s, a) \in Int
  <2>1. \E op : op \in Ops
    BY OpType DEF Accounts
  <2> QED BY <2>1, OpsAppend
<1>6. NoAccount \notin Addrs
  BY BlockOpsAssumption
<1> DEFINE T == {k \in 0..n : Good(k, p[k])}
<1>7. 0 \in T
  <2>1. 1..0 = {} /\ 0 \in 0..n
    BY <1>1
  <2>2. (\A a \in Addrs : By(0, a) = 0) /\ {q[i] : i \in 1..0} = {}
    BY <2>1
  <2>3. \A a \in Addrs : Change(s, a) = Change(s, a) + By(0, a)
    <3> HIDE DEF By
    <3> QED BY <1>5, <2>2
  <2>4. Good(0, s)
    <3> HIDE DEF By
    <3> QED BY <2>2, <2>3
  <2> HIDE DEF Good
  <2> QED BY <1>4, <2>1, <2>4
<1>8. ASSUME NEW k \in 0..n, k \in T, k < n
      PROVE  k + 1 \in T
  <2> DEFINE j == k + 1
             op == r[j]
             u == p[k]
             v == p[j]
  <2>1. j \in 1..n /\ j \in 0..n /\ j - 1 = k /\ k \in 0..n
    BY <1>1, <1>8
  <2>2. u \in Seq(Ops) /\ op \in Ops /\ v = Append(u, op)
    BY <1>2, <1>4, <2>1
  <2>3. \A i \in 1..j : i \in 1..k \/ i = j
    BY <1>1, <2>1
  <2>4. \A i \in 1..k : i \in 1..j /\ i # j /\ i \in 1..n
    BY <1>1, <2>1
  <2>5. j \in 1..j
    BY <1>1, <2>1
  <2>6. Good(k, u)
    BY <1>8
  <2>7. /\ q[j] \in Addrs /\ op.type = "TRANSFER"
        /\ op.amount = amount[q[j]] /\ amount[q[j]] \in Nat
        /\ op.account = IF dep THEN NoAccount ELSE q[j]
        /\ op.receiver = IF dep THEN q[j] ELSE NoAccount
    BY <1>2, <2>1
  <2> HIDE DEF j, op, u, v
  <2>8. /\ DOMAIN Diffs(v) = DOMAIN Diffs(u) \cup Touched(op)
        /\ \A a \in Addrs : Change(v, a) = Change(u, a) + Effect(op, a)
        /\ \A a : FeesIn(v, a) = AddFee(FeesIn(u, a), op, a)
        /\ ProxiesCreated(v) = ProxiesCreated(u) \cup
             (IF op.type = "CREATE_ACCOUNT" /\ op.proxy
                THEN {op.account} ELSE {})
    BY <2>2, OpsAppend
  <2>9. ASSUME NEW a \in Addrs
        PROVE  Change(v, a) = Change(s, a) + By(j, a)
    <3>1. a # NoAccount /\ Change(s, a) \in Int /\ amount[a] \in Nat
      BY <1>5, <1>6
    <3>2. Effect(op, a) = IF a = q[j] THEN IF dep THEN amount[a]
                                           ELSE -amount[a] ELSE 0
      BY <2>7, <3>1 DEF Effect
    <3>3. CASE a = q[j]
      <4>1. ~\E i \in 1..k : q[i] = a
        BY <2>1, <2>4, <3>3 DEF n
      <4>2. \E i \in 1..j : q[i] = a
        BY <2>5, <3>3
      <4>3. By(k, a) = 0 /\ By(j, a) = IF dep THEN amount[a] ELSE -amount[a]
        BY <4>1, <4>2
      <4>4. Effect(op, a) = By(j, a) /\ By(j, a) \in Int
        BY <3>1, <3>2, <3>3, <4>3
      <4> HIDE DEF By
      <4> QED BY <2>6, <2>8, <3>1, <4>3, <4>4
    <3>4. CASE a # q[j]
      <4>1. (\E i \in 1..j : q[i] = a) <=> (\E i \in 1..k : q[i] = a)
        BY <2>3, <2>4, <3>4
      <4>2. By(j, a) = By(k, a) /\ By(k, a) \in Int
        BY <3>1, <4>1
      <4> HIDE DEF By
      <4> QED BY <2>6, <2>8, <3>1, <3>2, <3>4, <4>2
    <3> QED BY <3>3, <3>4
  <2>10. DOMAIN Diffs(v) = DOMAIN Diffs(s) \cup {q[i] : i \in 1..j}
    <3>1. Touched(op) = {q[j]}
      BY <1>6, <2>7 DEF Touched
    <3>2. {q[i] : i \in 1..j} = {q[i] : i \in 1..k} \cup {q[j]}
      BY <2>3, <2>4, <2>5
    <3> QED BY <2>6, <2>8, <3>1, <3>2
  <2>11. /\ \A a : FeesIn(v, a) = FeesIn(s, a)
         /\ ProxiesCreated(v) = ProxiesCreated(s)
    BY <2>6, <2>7, <2>8 DEF AddFee
  <2>12. Good(j, v)
    BY <2>9, <2>10, <2>11
  <2> HIDE DEF Good
  <2> QED BY <2>1, <2>12 DEF j, v
<1> HIDE DEF T, Good
<1>9. \A k \in 0..n : k \in T
  BY <1>1, <1>7, <1>8, Induction
<1>10. Good(n, s \o r)
  <2>1. n \in 0..n
    BY <1>1
  <2> QED BY <1>4, <1>9, <2>1 DEF T
<1>11. s \o r \in Seq(Ops)
  BY <1>1, ConcatProperties
<1> QED BY <1>10, <1>11 DEF Good, r, n

\* What is left of the deposits when MergeRest goes over them.
Incoming(t) ==
  [a \in Addrs |-> IF t.proxyDeposits[a] > 0 THEN t.proxyDeposits[a]
                                             ELSE t.deposits[a]]

\* The operations of MergeRest account for the deposits and the withdrawals
\* that are left, whether they are merged into one or not.
LEMMA MergeRestEffect ==
  ASSUME NEW t \in Tallies
  PROVE  LET r == MergeRest(t)
         IN  /\ r \in Tallies
             /\ r.known = t.known /\ r.new = t.new /\ r.ok = t.ok
             /\ \A a \in Addrs : Change(r.ops, a) = Change(t.ops, a) +
                  (Incoming(t)[a] - t.withdrawals[a])
             /\ DOMAIN Diffs(r.ops) = DOMAIN Diffs(t.ops) \cup
                  {a \in Addrs : Incoming(t)[a] > 0 \/ t.withdrawals[a] > 0}
             /\ \A a : FeesIn(r.ops, a) = FeesIn(t.ops, a)
             /\ ProxiesCreated(r.ops) = ProxiesCreated(t.ops)
<1> DEFINE in   == Incoming(t)
           w    == t.withdrawals
           S1   == {a \in Addrs : in[a] > 0}
           S2   == {a \in Addrs : w[a] > 0}
           to   == SetToSeq(S1)
           from == SetToSeq(S2)
           pair == Len(to) = 1 /\ Len(from) = 1 /\ in[to[1]] = w[from[1]]
           one  == Op("TRANSFER", from[1], to[1], in[to[1]], FALSE)
           R1   == OneSided(TRUE, to, in)
           R2   == OneSided(FALSE, from, w)
           more == IF pair THEN <<one>> ELSE R1 \o R2
           Good(u) ==
             /\ u \in Seq(Ops)
             /\ \A a \in Addrs : Change(u, a) = Change(t.ops, a)
                                                  + (in[a] - w[a])
             /\ DOMAIN Diffs(u) = DOMAIN Diffs(t.ops) \cup S1 \cup S2
             /\ \A a : FeesIn(u, a) = FeesIn(t.ops, a)
             /\ ProxiesCreated(u) = ProxiesCreated(t.ops)
<1>1. /\ in \in [Addrs -> Nat] /\ w \in [Addrs -> Nat]
      /\ t.ops \in Seq(Ops)
  BY TallyFields DEF Incoming
<1>2. MergeRest(t) = [t EXCEPT !.ops = @ \o more]
  BY DEF MergeRest, OneSided, Incoming
<1> HIDE DEF in
<1>3. IsFiniteSet(S1) /\ IsFiniteSet(S2)
  BY FiniteAddrs
<1>4. /\ to \in Seq(S1) /\ \A i, j \in 1..Len(to) : to[i] = to[j] => i = j
      /\ \A x \in S1 : \E i \in 1..Len(to) : to[i] = x
  BY <1>3, SetToSeqOf
<1>5. /\ from \in Seq(S2)
      /\ \A i, j \in 1..Len(from) : from[i] = from[j] => i = j
      /\ \A x \in S2 : \E i \in 1..Len(from) : from[i] = x
  BY <1>3, SetToSeqOf
<1>6. to \in Seq(Addrs) /\ from \in Seq(Addrs)
  BY <1>4, <1>5, SeqMonotonic
<1>7. \A a \in Addrs : Change(t.ops, a) \in Int
  <2>1. \E op : op \in Ops
    BY OpType DEF Accounts
  <2> QED BY <1>1, <2>1, OpsAppend
<1> HIDE DEF to, from
<1>8. /\ \A i \in 1..Len(to) : to[i] \in S1
      /\ \A i \in 1..Len(from) : from[i] \in S2
  BY <1>4, <1>5, ElementOfSeq
<1>9. ASSUME pair PROVE Good(t.ops \o more)
  <2> DEFINE a1 == to[1]
             a2 == from[1]
  <2>1. 1 \in 1..Len(to) /\ 1 \in 1..Len(from)
        /\ 1..Len(to) = {1} /\ 1..Len(from) = {1}
    BY <1>9
  <2>2. S1 = {a1} /\ S2 = {a2} /\ a1 \in Addrs /\ a2 \in Addrs
        /\ in[a1] = w[a2] /\ in[a1] \in Nat
    BY <1>1, <1>4, <1>5, <1>8, <1>9, <2>1
  <2> HIDE DEF a1, a2
  <2>3. one = Op("TRANSFER", a2, a1, in[a1], FALSE)
    BY DEF a1, a2
  <2>4. /\ one \in Ops /\ one.type = "TRANSFER" /\ one.account = a2
        /\ one.receiver = a1 /\ one.amount = in[a1]
    BY <2>2, <2>3 DEF Op, Ops, Accounts
  <2> HIDE DEF one
  <2> DEFINE u == Append(t.ops, one)
  <2>5. more = <<one>> /\ t.ops \o more = u /\ u \in Seq(Ops)
    BY <1>1, <1>9, <2>4, AppendIsConcat, AppendProperties
  <2>6. /\ DOMAIN Diffs(u) = DOMAIN Diffs(t.ops) \cup Touched(one)
        /\ \A a \in Addrs : Change(u, a) = Change(t.ops, a) + Effect(one, a)
        /\ \A a : FeesIn(u, a) = AddFee(FeesIn(t.ops, a), one, a)
        /\ ProxiesCreated(u) = ProxiesCreated(t.ops) \cup
             (IF one.type = "CREATE_ACCOUNT" /\ one.proxy
                THEN {one.account} ELSE {})
    BY <1>1, <2>4, OpsAppend
  <2> HIDE DEF u, more
  <2>7. \A a \in Addrs : (a # a1 => in[a] = 0) /\ (a # a2 => w[a] = 0)
    BY <1>1, <2>2
  <2>8. \A a \in Addrs : Effect(one, a) = in[a] - w[a]
    BY <1>1, <2>2, <2>4, <2>7 DEF Effect
  <2>9. Touched(one) = S1 \cup S2
    BY <2>2, <2>4, BlockOpsAssumption DEF Touched
  <2>10. /\ \A a \in Addrs : Change(u, a) = Change(t.ops, a)
                                              + (in[a] - w[a])
         /\ DOMAIN Diffs(u) = DOMAIN Diffs(t.ops) \cup S1 \cup S2
    <3> HIDE DEF S1, S2
    <3> QED BY <2>6, <2>8, <2>9
  <2>11. /\ \A a : FeesIn(u, a) = FeesIn(t.ops, a)
         /\ ProxiesCreated(u) = ProxiesCreated(t.ops)
    BY <2>4, <2>6 DEF AddFee
  <2>12. Good(u)
    <3> HIDE DEF S1, S2
    <3> QED BY <2>5, <2>10, <2>11
  <2> HIDE DEF Good
  <2> QED BY <2>5, <2>12
<1>10. ASSUME ~pair PROVE Good(t.ops \o more)
  <2> DEFINE u1 == t.ops \o R1
             u2 == u1 \o R2
  <2>1. R1 \in Seq(Ops) /\ R2 \in Seq(Ops)
    BY <1>1, <1>6, OneSidedType
  <2>2. more = R1 \o R2
    BY <1>10
  <2>3. t.ops \o more = u2
    <3> HIDE DEF R1, R2, more
    <3> DEFINE R0 == t.ops
    <3>a. R0 \in Seq(Ops)
      BY <1>1
    <3> HIDE DEF R0
    <3>1. (R0 \o R1) \o R2 = R0 \o (R1 \o R2)
      BY <3>a, <2>1, ConcatAssociative
    <3> QED BY <2>2, <3>1 DEF R0
  <2>4. /\ u1 \in Seq(Ops)
        /\ \A a \in Addrs : Change(u1, a) = Change(t.ops, a) +
             (IF \E i \in 1..Len(to) : to[i] = a
                THEN IF TRUE THEN in[a] ELSE -in[a] ELSE 0)
        /\ DOMAIN Diffs(u1) = DOMAIN Diffs(t.ops) \cup
                                {to[i] : i \in 1..Len(to)}
        /\ \A a : FeesIn(u1, a) = FeesIn(t.ops, a)
        /\ ProxiesCreated(u1) = ProxiesCreated(t.ops)
    BY <1>1, <1>4, <1>6, OneSidedEffect
  <2> HIDE DEF u1
  <2>5. /\ u2 \in Seq(Ops)
        /\ \A a \in Addrs : Change(u2, a) = Change(u1, a) +
             (IF \E i \in 1..Len(from) : from[i] = a
                THEN IF FALSE THEN w[a] ELSE -w[a] ELSE 0)
        /\ DOMAIN Diffs(u2) = DOMAIN Diffs(u1) \cup
                                {from[i] : i \in 1..Len(from)}
        /\ \A a : FeesIn(u2, a) = FeesIn(u1, a)
        /\ ProxiesCreated(u2) = ProxiesCreated(u1)
    BY <1>1, <1>5, <1>6, <2>4, OneSidedEffect
  <2> HIDE DEF u2
  <2>6. /\ {to[i] : i \in 1..Len(to)} = S1
        /\ {from[i] : i \in 1..Len(from)} = S2
    <3> HIDE DEF S1, S2
    <3>1. \A x : x \in S1 <=> \E i \in 1..Len(to) : to[i] = x
      BY <1>4, <1>8
    <3>2. \A x : x \in S2 <=> \E i \in 1..Len(from) : from[i] = x
      BY <1>5, <1>8
    <3> QED BY <3>1, <3>2
  <2>7. ASSUME NEW a \in Addrs
        PROVE  Change(u2, a) = Change(t.ops, a) + (in[a] - w[a])
    <3>1. in[a] \in Nat /\ w[a] \in Nat /\ Change(t.ops, a) \in Int
      BY <1>1, <1>7
    <3>2. Change(u1, a) = Change(t.ops, a) + in[a]
      <4>1. CASE a \in S1
        BY <1>4, <2>4, <4>1
      <4>2. CASE a \notin S1
        <5>1. in[a] = 0 /\ ~\E i \in 1..Len(to) : to[i] = a
          BY <1>8, <3>1, <4>2
        <5> QED BY <2>4, <5>1
      <4> QED BY <4>1, <4>2
    <3>3. Change(u2, a) = Change(u1, a) + (-w[a])
      <4>1. CASE a \in S2
        BY <1>5, <2>5, <4>1
      <4>2. CASE a \notin S2
        <5>1. w[a] = 0 /\ ~\E i \in 1..Len(from) : from[i] = a
          BY <1>8, <3>1, <4>2
        <5> QED BY <2>5, <5>1
      <4> QED BY <4>1, <4>2
    <3> QED BY <3>1, <3>2, <3>3
  <2>8. /\ DOMAIN Diffs(u2) = DOMAIN Diffs(t.ops) \cup S1 \cup S2
        /\ \A a : FeesIn(u2, a) = FeesIn(t.ops, a)
        /\ ProxiesCreated(u2) = ProxiesCreated(t.ops)
    <3> HIDE DEF S1, S2
    <3> QED BY <2>4, <2>5, <2>6
  <2>9. Good(u2)
    <3> HIDE DEF S1, S2
    <3> QED BY <2>5, <2>7, <2>8
  <2> HIDE DEF Good, more
  <2> QED BY <2>3, <2>9
<1>11. Good(t.ops \o more)
  BY <1>9, <1>10
<1> DEFINE u == t.ops \o more
<1>a. u \in Seq(Ops) /\ MergeRest(t) = [t EXCEPT !.ops = u]
  <2> HIDE DEF more
  <2> QED BY <1>2, <1>11
<1>b. MergeRest(t) \in Tallies
  <2> HIDE DEF u
  <2> QED BY <1>a, TallyUpdate
<1>12. /\ MergeRest(t).ops = u
       /\ MergeRest(t).known = t.known /\ MergeRest(t).new = t.new
       /\ MergeRest(t).ok = t.ok
  <2> HIDE DEF u
  <2> QED BY <1>a DEF Tallies
<1>c. Good(u)
  BY <1>11
<1> HIDE DEF u
<1>13. S1 \cup S2 = {a \in Addrs : in[a] > 0 \/ w[a] > 0}
  OBVIOUS
<1> HIDE DEF S1, S2
<1> QED BY <1>b, <1>c, <1>12, <1>13 DEF in

-----------------------------------------------------------------------------
(***************************************************************************)
(* A transaction after another.                                            *)
(***************************************************************************)
\* Both loops over events leave a tally.
LEMMA LoopTypes ==
  ASSUME NEW t \in Tallies
  PROVE  /\ \A payer \in Addrs, events \in Seq(Events) :
              evtloop(t, payer, events) \in Tallies
         /\ \A events \in Seq(Events) : evtloop2(t, events) \in Tallies
         /\ \A x \in Seq(Transfers) : FoldLeft(MatchTransfer, t, x) \in Tallies
<1>1. ASSUME NEW payer \in Addrs, NEW events \in Seq(Events)
      PROVE  evtloop(t, payer, events) \in Tallies
  <2>1. Len(events) \in Nat /\ Len(events) \in 0..Len(events)
    OBVIOUS
  <2> QED BY <2>1, FirstLoopFold
<1>2. ASSUME NEW events \in Seq(Events)
      PROVE  evtloop2(t, events) \in Tallies
  <2>1. Len(events) \in Nat /\ Len(events) \in 0..Len(events)
    OBVIOUS
  <2> QED BY <2>1, SecondLoopFold
<1>3. ASSUME NEW x \in Seq(Transfers)
      PROVE  FoldLeft(MatchTransfer, t, x) \in Tallies
  <2>1. Len(x) \in Nat /\ Len(x) \in 0..Len(x)
    OBVIOUS
  <2>2. PICK c \in [0..Len(x) -> Tallies] :
          /\ c[0] = t
          /\ \A i \in 1..Len(x) : c[i] = MatchTransfer(c[i - 1], x[i])
          /\ FoldLeft(MatchTransfer, t, x) = c[Len(x)]
    BY MatchTransferFold
  <2> QED BY <2>1, <2>2
<1> QED BY <1>1, <1>2, <1>3

\* A turn of the loop over transactions leaves a tally.
LEMMA ProcessTxnType ==
  ASSUME NEW before \in Tallies, NEW txn \in Txns
  PROVE  ProcessTxn(before, txn) \in Tallies
<1> DEFINE t0 == NewTally(before.known, before.new, before.ops, before.ok)
           t1 == evtloop(t0, txn.payer, txn.events)
           t2 == evtloop2(t1, txn.events)
           t3 == FeeOp(CreateOps(t2), txn.payer)
           t4 == FoldLeft(MatchTransfer, t3, t3.transfers)
<1>1. txn.payer \in Addrs /\ txn.events \in Seq(Events)
  BY DEF Txns
<1>2. t0 \in Tallies
  BY TallyFields, NewTallyType
<1> HIDE DEF t0
<1>3. t1 \in Tallies
  BY <1>1, <1>2, LoopTypes
<1> HIDE DEF t1
<1>4. t2 \in Tallies
  BY <1>1, <1>3, LoopTypes
<1> HIDE DEF t2
<1>5. t3 \in Tallies
  BY <1>1, <1>4, CreateOpsType, FeeOpType
<1> HIDE DEF t3
<1>6. t4 \in Tallies
  BY <1>5, TallyFields, LoopTypes
<1> HIDE DEF t4
<1>7. MergeRest(t4) \in Tallies
  BY <1>6, MergeRestEffect
<1>8. ProcessTxn(before, txn) = MergeRest(t4)
  BY DEF ProcessTxn, t4, t3, t2, t1, t0
<1> QED BY <1>7, <1>8

\* The intermediate tallies of that loop.
LEMMA ProcessTxnFold ==
  ASSUME NEW base \in Tallies, NEW seq \in Seq(Txns)
  PROVE  \E c \in [0..Len(seq) -> Tallies] :
           /\ c[0] = base
           /\ \A i \in 1..Len(seq) : c[i] = ProcessTxn(c[i - 1], seq[i])
           /\ FoldLeft(ProcessTxn, base, seq) = c[Len(seq)]
<1> DEFINE n == Len(seq)
           g == [x \in (1..n) \X Tallies |-> ProcessTxn(x[2], seq[x[1]])]
           Body(f) == [s \in SUBSET DOMAIN seq |-> IF s = {} THEN base ELSE
                         LET x == Max(s) IN ProcessTxn(f[s \ {x}], seq[x])]
           h == CHOOSE f : f = Body(f)
<1>1. n \in Nat /\ DOMAIN seq = 1..n /\ \A i \in 1..n : seq[i] \in Txns
  OBVIOUS
<1>2. \A t \in Tallies, i \in 1..n : ProcessTxn(t, seq[i]) \in Tallies
  BY <1>1, ProcessTxnType
<1>3. g \in [(1..n) \X Tallies -> Tallies]
  BY <1>2
<1>4. \A t \in Tallies, i \in 1..n : g[<<i, t>>] = ProcessTxn(t, seq[i])
  OBVIOUS
<1>5. FoldLeft(ProcessTxn, base, seq) = h[1..n]
  BY <1>1 DEF FoldLeft, MapThenFoldSet
<1> HIDE DEF n, g
<1>6. \A s \in SUBSET (1..n) : s # {} => Max(s) \in 1..n
  BY <1>1, MaxIn
<1>7. PICK f \in [SUBSET (1..n) -> Tallies] : Solves(f, n, base, g)
  BY <1>1, <1>3, SetRecursion
<1>8. f = Body(f)
  BY <1>1, <1>4, <1>6, <1>7 DEF Solves
<1>9. h = Body(h)
  BY <1>8
<1> HIDE DEF h
<1>10. h[{}] = base /\ \A s \in SUBSET (1..n) : s # {} =>
         h[s] = ProcessTxn(h[s \ {Max(s)}], seq[Max(s)])
  BY <1>1, <1>9
<1>11. SolvesIn(Tallies, h, n, base, g)
  BY <1>4, <1>6, <1>10 DEF SolvesIn
<1>12. PICK c \in [0..n -> Tallies] : Chain(c, n, base, g, h[1..n])
  BY <1>1, <1>3, <1>11, FoldChain
<1>13. \A i \in 1..n : i - 1 \in 0..n
  BY <1>1
<1>14. \A i \in 1..n : c[i] = ProcessTxn(c[i - 1], seq[i])
  BY <1>4, <1>12, <1>13 DEF Chain
<1> QED
  BY <1>5, <1>12, <1>14 DEF n, Chain

\* A block of no transactions leaves the tally that it starts with.
LEMMA NoTxns ==
  ASSUME NEW base \in Tallies
  PROVE  FoldLeft(ProcessTxn, base, << >>) = base
<1> DEFINE E == << >>
<1>1. E \in Seq(Txns) /\ Len(E) = 0
  OBVIOUS
<1> HIDE DEF E
<1>2. PICK c \in [0..Len(E) -> Tallies] :
        /\ c[0] = base
        /\ \A i \in 1..Len(E) : c[i] = ProcessTxn(c[i - 1], E[i])
        /\ FoldLeft(ProcessTxn, base, E) = c[Len(E)]
  BY <1>1, ProcessTxnFold
<1> QED BY <1>1, <1>2 DEF E

\* One more transaction.
LEMMA TxnAppend ==
  ASSUME NEW base \in Tallies, NEW s \in Seq(Txns), NEW x \in Txns
  PROVE  /\ FoldLeft(ProcessTxn, base, s) \in Tallies
         /\ FoldLeft(ProcessTxn, base, Append(s, x)) =
              ProcessTxn(FoldLeft(ProcessTxn, base, s), x)
<1> DEFINE n == Len(s)
           u == Append(s, x)
<1>1. /\ n \in Nat /\ u \in Seq(Txns) /\ Len(u) = n + 1 /\ u[n + 1] = x
      /\ \A i \in 1..n : u[i] = s[i]
      /\ \A i \in 1..n : i \in 1..(n + 1)
      /\ n + 1 \in 1..(n + 1) /\ (n + 1) - 1 = n /\ n \in 0..n
  BY AppendProperties
<1>2. PICK c \in [0..n -> Tallies] :
        /\ c[0] = base
        /\ \A i \in 1..n : c[i] = ProcessTxn(c[i - 1], s[i])
        /\ FoldLeft(ProcessTxn, base, s) = c[n]
  BY ProcessTxnFold
<1>3. PICK d \in [0..Len(u) -> Tallies] :
        /\ d[0] = base
        /\ \A i \in 1..Len(u) : d[i] = ProcessTxn(d[i - 1], u[i])
        /\ FoldLeft(ProcessTxn, base, u) = d[Len(u)]
  BY <1>1, ProcessTxnFold
<1> HIDE DEF u, n
<1>4. Follows(c, d, n)
  BY <1>1, <1>2, <1>3 DEF Follows
<1>5. \A i \in 0..n : c[i] = d[i]
  <2>1. n \in Nat
    BY <1>1
  <2> QED BY <1>4, <2>1, Agree, Zenon
<1>6. c[n] = d[n] /\ d[n + 1] = ProcessTxn(d[n], x) /\ c[n] \in Tallies
  BY <1>1, <1>3, <1>5
<1> QED BY <1>1, <1>2, <1>3, <1>6 DEF u

\* The loops over events, piece by piece.
LEMMA FirstLoopConcat ==
  ASSUME NEW payer \in Addrs, NEW t \in Tallies, NEW s \in Seq(Events),
         NEW r \in Seq(Events)
  PROVE  evtloop(t, payer, s \o r) = evtloop(evtloop(t, payer, s), payer, r)
<1> DEFINE m == Len(s)
           n == Len(r)
           z == s \o r
           v == evtloop(t, payer, s)
<1>1. m \in Nat /\ n \in Nat
  OBVIOUS
<1>2. z \in Seq(Events) /\ Len(z) = m + n
  BY ConcatProperties
<1>3. /\ \A i \in 1..m : z[i] = s[i]
      /\ \A i \in 1..n : z[m + i] = r[i]
  BY <1>1, ConcatProperties
<1>4. PICK c \in [0..m -> Tallies] :
        /\ c[0] = t
        /\ \A i \in 1..m : c[i] = FirstLoop(c[i - 1], payer, s[i])
        /\ v = c[m]
  BY FirstLoopFold
<1>5. v \in Tallies
  BY <1>1, <1>4
<1> HIDE DEF v, z
<1>6. PICK d \in [0..n -> Tallies] :
        /\ d[0] = v
        /\ \A i \in 1..n : d[i] = FirstLoop(d[i - 1], payer, r[i])
        /\ evtloop(v, payer, r) = d[n]
  BY <1>5, FirstLoopFold
<1>7. PICK f \in [0..Len(z) -> Tallies] :
        /\ f[0] = t
        /\ \A i \in 1..Len(z) : f[i] = FirstLoop(f[i - 1], payer, z[i])
        /\ evtloop(t, payer, z) = f[Len(z)]
  BY <1>2, FirstLoopFold
<1> HIDE DEF m, n
<1>8. \A i \in 1..m : i \in 1..(m + n)
  BY <1>1
<1>9. Follows(c, f, m)
  BY <1>2, <1>3, <1>4, <1>7, <1>8 DEF Follows
<1>10. c[m] = f[m]
  <2>1. m \in 0..m
    BY <1>1
  <2> QED BY <1>1, <1>9, <2>1, Agree
<1> DEFINE e == [i \in 0..n |-> f[m + i]]
<1>11. \A i \in 1..n : /\ m + i \in 1..(m + n) /\ i \in 0..n /\ i - 1 \in 0..n
                       /\ (m + i) - 1 = m + (i - 1)
  BY <1>1
<1>12. \A i \in 1..n : e[i] = FirstLoop(e[i - 1], payer, r[i])
  BY <1>2, <1>3, <1>7, <1>11
<1>13. e[0] = v /\ e[n] = f[m + n]
  BY <1>1, <1>4, <1>10
<1> HIDE DEF e
<1>14. Follows(d, e, n)
  BY <1>6, <1>12, <1>13 DEF Follows
<1>15. d[n] = e[n]
  <2>1. n \in 0..n
    BY <1>1
  <2> QED BY <1>1, <1>14, <2>1, Agree
<1> QED BY <1>2, <1>6, <1>7, <1>13, <1>15 DEF v, z

\* The first loop over no event and over one.
LEMMA FirstLoopShort ==
  ASSUME NEW payer \in Addrs, NEW t \in Tallies
  PROVE  /\ evtloop(t, payer, << >>) = t
         /\ \A e \in Events : evtloop(t, payer, <<e>>) = FirstLoop(t, payer, e)
<1> DEFINE E == << >>
<1>1. E \in Seq(Events) /\ Len(E) = 0
  OBVIOUS
<1> HIDE DEF E
<1>2. PICK c \in [0..Len(E) -> Tallies] :
        /\ c[0] = t
        /\ \A i \in 1..Len(E) : c[i] = FirstLoop(c[i - 1], payer, E[i])
        /\ evtloop(t, payer, E) = c[Len(E)]
  <2>1. E \in Seq(Events)
    BY <1>1
  <2> QED BY <2>1, FirstLoopFold
<1>3. evtloop(t, payer, E) = t
  BY <1>1, <1>2
<1>4. ASSUME NEW e \in Events
      PROVE  evtloop(t, payer, <<e>>) = FirstLoop(t, payer, e)
  <2> DEFINE q == <<e>>
  <2>1. q \in Seq(Events) /\ Len(q) = 1 /\ q[1] = e
    OBVIOUS
  <2> HIDE DEF q
  <2>2. PICK d \in [0..Len(q) -> Tallies] :
          /\ d[0] = t
          /\ \A i \in 1..Len(q) : d[i] = FirstLoop(d[i - 1], payer, q[i])
          /\ evtloop(t, payer, q) = d[Len(q)]
    BY <2>1, FirstLoopFold
  <2>3. d[1] = FirstLoop(t, payer, e)
    BY <2>1, <2>2
  <2> QED BY <2>1, <2>2, <2>3 DEF q
<1> QED BY <1>3, <1>4 DEF E

\* The same for the second one.
LEMMA SecondLoopConcat ==
  ASSUME NEW t \in Tallies, NEW s \in Seq(Events), NEW r \in Seq(Events)
  PROVE  evtloop2(t, s \o r) = evtloop2(evtloop2(t, s), r)
<1> DEFINE m == Len(s)
           n == Len(r)
           z == s \o r
           v == evtloop2(t, s)
<1>1. m \in Nat /\ n \in Nat
  OBVIOUS
<1>2. z \in Seq(Events) /\ Len(z) = m + n
  BY ConcatProperties
<1>3. /\ \A i \in 1..m : z[i] = s[i]
      /\ \A i \in 1..n : z[m + i] = r[i]
  BY <1>1, ConcatProperties
<1>4. PICK c \in [0..m -> Tallies] :
        /\ c[0] = t
        /\ \A i \in 1..m : c[i] = SecondLoop(c[i - 1], s[i])
        /\ v = c[m]
  BY SecondLoopFold
<1>5. v \in Tallies
  BY <1>1, <1>4
<1> HIDE DEF v, z
<1>6. PICK d \in [0..n -> Tallies] :
        /\ d[0] = v
        /\ \A i \in 1..n : d[i] = SecondLoop(d[i - 1], r[i])
        /\ evtloop2(v, r) = d[n]
  BY <1>5, SecondLoopFold
<1>7. PICK f \in [0..Len(z) -> Tallies] :
        /\ f[0] = t
        /\ \A i \in 1..Len(z) : f[i] = SecondLoop(f[i - 1], z[i])
        /\ evtloop2(t, z) = f[Len(z)]
  BY <1>2, SecondLoopFold
<1> HIDE DEF m, n
<1>8. \A i \in 1..m : i \in 1..(m + n)
  BY <1>1
<1>9. Follows(c, f, m)
  BY <1>2, <1>3, <1>4, <1>7, <1>8 DEF Follows
<1>10. c[m] = f[m]
  <2>1. m \in 0..m
    BY <1>1
  <2> QED BY <1>1, <1>9, <2>1, Agree
<1> DEFINE e == [i \in 0..n |-> f[m + i]]
<1>11. \A i \in 1..n : /\ m + i \in 1..(m + n) /\ i \in 0..n /\ i - 1 \in 0..n
                       /\ (m + i) - 1 = m + (i - 1)
  BY <1>1
<1>12. \A i \in 1..n : e[i] = SecondLoop(e[i - 1], r[i])
  BY <1>2, <1>3, <1>7, <1>11
<1>13. e[0] = v /\ e[n] = f[m + n]
  BY <1>1, <1>4, <1>10
<1> HIDE DEF e
<1>14. Follows(d, e, n)
  BY <1>6, <1>12, <1>13 DEF Follows
<1>15. d[n] = e[n]
  <2>1. n \in 0..n
    BY <1>1
  <2> QED BY <1>1, <1>14, <2>1, Agree
<1> QED BY <1>2, <1>6, <1>7, <1>13, <1>15 DEF v, z

\* The second loop over no event and over one.
LEMMA SecondLoopShort ==
  ASSUME NEW t \in Tallies
  PROVE  /\ evtloop2(t, << >>) = t
         /\ \A e \in Events : evtloop2(t, <<e>>) = SecondLoop(t, e)
<1> DEFINE E == << >>
<1>1. E \in Seq(Events) /\ Len(E) = 0
  OBVIOUS
<1> HIDE DEF E
<1>2. PICK c \in [0..Len(E) -> Tallies] :
        /\ c[0] = t
        /\ \A i \in 1..Len(E) : c[i] = SecondLoop(c[i - 1], E[i])
        /\ evtloop2(t, E) = c[Len(E)]
  BY <1>1, SecondLoopFold
<1>3. evtloop2(t, E) = t
  BY <1>1, <1>2
<1>4. ASSUME NEW e \in Events
      PROVE  evtloop2(t, <<e>>) = SecondLoop(t, e)
  <2> DEFINE q == <<e>>
  <2>1. q \in Seq(Events) /\ Len(q) = 1 /\ q[1] = e
    OBVIOUS
  <2> HIDE DEF q
  <2>2. PICK d \in [0..Len(q) -> Tallies] :
          /\ d[0] = t
          /\ \A i \in 1..Len(q) : d[i] = SecondLoop(d[i - 1], q[i])
          /\ evtloop2(t, q) = d[Len(q)]
    BY <2>1, SecondLoopFold
  <2>3. d[1] = SecondLoop(t, e)
    BY <2>1, <2>2
  <2> QED BY <2>1, <2>2, <2>3 DEF q
<1> QED BY <1>3, <1>4 DEF E

-----------------------------------------------------------------------------
(***************************************************************************)
(* From a tally to the operations of a transaction.                        *)
(***************************************************************************)
\* CREATE_ACCOUNT operations give the new accounts an entry in the index and
\* those with a key in accountKeys a proxy key; they move nothing.
LEMMA CreateOpsEffect ==
  ASSUME NEW t \in Tallies
  PROVE  LET r == CreateOps(t)
         IN  /\ r \in Tallies /\ r = [t EXCEPT !.ops = r.ops]
             /\ \A a \in Addrs : Change(r.ops, a) = Change(t.ops, a)
             /\ DOMAIN Diffs(r.ops) = DOMAIN Diffs(t.ops) \cup Range(t.addrs)
             /\ \A a : FeesIn(r.ops, a) = FeesIn(t.ops, a)
             /\ ProxiesCreated(r.ops) = ProxiesCreated(t.ops) \cup
                                          (Range(t.addrs) \cap t.keyed)
<1> DEFINE q == t.addrs
           s == t.ops
           n == Len(q)
           r == [i \in DOMAIN q |->
                   Op("CREATE_ACCOUNT", q[i], NoAccount, 0, q[i] \in t.keyed)]
           Good(k, u) ==
             /\ \A a \in Addrs : Change(u, a) = Change(s, a)
             /\ DOMAIN Diffs(u) = DOMAIN Diffs(s) \cup {q[i] : i \in 1..k}
             /\ \A a : FeesIn(u, a) = FeesIn(s, a)
             /\ ProxiesCreated(u) = ProxiesCreated(s) \cup
                                      ({q[i] : i \in 1..k} \cap t.keyed)
<1>1. s \in Seq(Ops) /\ q \in Seq(Addrs) /\ n \in Nat /\ DOMAIN q = 1..n
  BY TallyFields
<1>2. ASSUME NEW i \in 1..n
      PROVE  /\ q[i] \in Addrs /\ r[i] \in Ops
             /\ r[i].type = "CREATE_ACCOUNT" /\ r[i].account = q[i]
             /\ r[i].amount = 0 /\ r[i].proxy = (q[i] \in t.keyed)
  <2>1. q[i] \in Addrs /\ (q[i] \in t.keyed) \in BOOLEAN
    BY <1>1
  <2>2. r[i] = Op("CREATE_ACCOUNT", q[i], NoAccount, 0, q[i] \in t.keyed)
    BY <1>1
  <2> HIDE DEF r, q
  <2> QED BY <2>1, <2>2 DEF Op, Ops, Accounts
<1>3. r \in Seq(Ops) /\ Len(r) = n
  <2>1. DOMAIN r = 1..n /\ r = [i \in 1..n |-> r[i]]
    BY <1>1
  <2> HIDE DEF r, n
  <2>2. r \in [1..n -> Ops]
    BY <1>2, <2>1
  <2> QED BY <1>1, <2>2, IsASeq, LenProperties
<1>4. CreateOps(t) = [t EXCEPT !.ops = s \o r]
  BY DEF CreateOps
<1> HIDE DEF r, n, q, s
<1>5. PICK p \in [0..Len(r) -> Seq(Ops)] : Grows(p, s, r)
  BY <1>1, <1>3, GrowsTo
<1>6. /\ p \in [0..n -> Seq(Ops)] /\ p[0] = s /\ p[n] = s \o r
      /\ \A i \in 1..n : p[i] = Append(p[i - 1], r[i])
  BY <1>3, <1>5 DEF Grows
<1>7. NoAccount \notin Addrs
  BY BlockOpsAssumption
<1> DEFINE T == {k \in 0..n : Good(k, p[k])}
<1>8. 0 \in T
  <2>1. 1..0 = {} /\ 0 \in 0..n
    BY <1>1
  <2>2. {q[i] : i \in 1..0} = {}
    BY <2>1
  <2>3. Good(0, s)
    BY <2>2
  <2> HIDE DEF Good
  <2> QED BY <1>6, <2>1, <2>3
<1>9. ASSUME NEW k \in 0..n, k \in T, k < n
      PROVE  k + 1 \in T
  <2> DEFINE j == k + 1
             op == r[j]
             u == p[k]
             v == p[j]
  <2>1. j \in 1..n /\ j \in 0..n /\ j - 1 = k /\ k \in 0..n
    BY <1>1, <1>9
  <2>2. u \in Seq(Ops) /\ op \in Ops /\ v = Append(u, op)
    BY <1>2, <1>6, <2>1
  <2>3. \A i \in 1..j : i \in 1..k \/ i = j
    BY <1>1, <2>1
  <2>4. \A i \in 1..k : i \in 1..j
    BY <1>1, <2>1
  <2>5. j \in 1..j
    BY <1>1, <2>1
  <2>6. Good(k, u)
    BY <1>9
  <2>7. /\ q[j] \in Addrs /\ op.type = "CREATE_ACCOUNT"
        /\ op.account = q[j] /\ op.proxy = (q[j] \in t.keyed)
    BY <1>2, <2>1
  <2> HIDE DEF j, op, u, v
  <2>8. /\ DOMAIN Diffs(v) = DOMAIN Diffs(u) \cup Touched(op)
        /\ \A a \in Addrs : Change(u, a) \in Int
        /\ \A a \in Addrs : Change(v, a) = Change(u, a) + Effect(op, a)
        /\ \A a : FeesIn(v, a) = AddFee(FeesIn(u, a), op, a)
        /\ ProxiesCreated(v) = ProxiesCreated(u) \cup
             (IF op.type = "CREATE_ACCOUNT" /\ op.proxy
                THEN {op.account} ELSE {})
    BY <2>2, OpsAppend
  <2>9. \A a \in Addrs : Change(v, a) = Change(s, a)
    BY <2>6, <2>7, <2>8 DEF Effect
  <2>10. {q[i] : i \in 1..j} = {q[i] : i \in 1..k} \cup {q[j]}
    BY <2>3, <2>4, <2>5
  <2>11. Touched(op) = {q[j]}
    BY <1>7, <2>7 DEF Touched
  <2>12. DOMAIN Diffs(v) = DOMAIN Diffs(s) \cup {q[i] : i \in 1..j}
    BY <2>6, <2>8, <2>10, <2>11
  <2>13. ProxiesCreated(v) = ProxiesCreated(s) \cup
                               ({q[i] : i \in 1..j} \cap t.keyed)
    BY <2>6, <2>7, <2>8, <2>10
  <2>14. \A a : FeesIn(v, a) = FeesIn(s, a)
    BY <2>6, <2>7, <2>8 DEF AddFee
  <2>15. Good(j, v)
    BY <2>9, <2>12, <2>13, <2>14
  <2> HIDE DEF Good
  <2> QED BY <2>1, <2>15 DEF j, v
<1> HIDE DEF T, Good
<1>10. \A k \in 0..n : k \in T
  BY <1>1, <1>8, <1>9, Induction
<1>11. Good(n, s \o r)
  <2>1. n \in 0..n
    BY <1>1
  <2> QED BY <1>6, <1>10, <2>1 DEF T
<1> DEFINE u == s \o r
<1>12. u \in Seq(Ops)
  BY <1>1, <1>3, ConcatProperties
<1>13. {q[i] : i \in 1..n} = Range(q)
  BY <1>1 DEF Range
<1>14. CreateOps(t) = [t EXCEPT !.ops = u] /\ Good(n, u)
  BY <1>4, <1>11
<1> HIDE DEF u
<1>15. CreateOps(t) \in Tallies
  BY <1>12, <1>14, TallyUpdate
<1>16. CreateOps(t).ops = u
  BY <1>14 DEF Tallies
<1> QED BY <1>13, <1>14, <1>15, <1>16 DEF Good, s, q

\* The FEE operation takes the fees out of the withdrawals of a tracked payer
\* and books them in their place.
LEMMA FeeOpEffect ==
  ASSUME NEW t \in Tallies, NEW payer \in Addrs,
         isTracked(payer, t.known, t.new) => t.fees <= t.withdrawals[payer]
  PROVE  LET r    == FeeOp(t, payer)
             fees == IF isTracked(payer, t.known, t.new) THEN t.fees ELSE 0
         IN  /\ r \in Tallies /\ r.ok = t.ok /\ r.transfers = t.transfers
             /\ r.known = t.known /\ r.new = t.new
             /\ r.deposits = t.deposits /\ r.proxyDeposits = t.proxyDeposits
             /\ \A a \in Addrs :
                  /\ r.withdrawals[a] <= t.withdrawals[a]
                  /\ Change(r.ops, a) - r.withdrawals[a] =
                       Change(t.ops, a) - t.withdrawals[a]
             /\ DOMAIN Diffs(r.ops) = DOMAIN Diffs(t.ops) \cup
                                        (IF fees > 0 THEN {payer} ELSE {})
             /\ \A a : FeesIn(r.ops, a) = FeesIn(t.ops, a) +
                                            (IF a = payer THEN fees ELSE 0)
             /\ ProxiesCreated(r.ops) = ProxiesCreated(t.ops)
<1> DEFINE op == Op("FEE", payer, NoAccount, t.fees, FALSE)
           w  == [t.withdrawals EXCEPT ![payer] = @ - t.fees]
           u  == Append(t.ops, op)
<1>1. /\ t.fees \in Nat /\ t.withdrawals \in [Addrs -> Nat]
      /\ t.ops \in Seq(Ops)
  BY TallyFields
<1>2. /\ op \in Ops /\ op.type = "FEE" /\ op.account = payer
      /\ op.receiver = NoAccount /\ op.amount = t.fees
  BY <1>1 DEF Op, Ops, Accounts
<1> HIDE DEF op
<1>3. /\ \A a \in Addrs : Change(t.ops, a) \in Int /\ Effect(op, a) \in Int
      /\ DOMAIN Diffs(u) = DOMAIN Diffs(t.ops) \cup Touched(op)
      /\ \A a \in Addrs : Change(u, a) = Change(t.ops, a) + Effect(op, a)
      /\ \A a : FeesIn(t.ops, a) \in Nat
      /\ \A a : FeesIn(u, a) = AddFee(FeesIn(t.ops, a), op, a)
      /\ ProxiesCreated(u) = ProxiesCreated(t.ops) \cup
           (IF op.type = "CREATE_ACCOUNT" /\ op.proxy
              THEN {op.account} ELSE {})
  BY <1>1, <1>2, OpsAppend
<1>4. CASE ~(isTracked(payer, t.known, t.new) /\ t.fees > 0)
  <2>1. FeeOp(t, payer) = t
    BY <1>4 DEF FeeOp
  <2> DEFINE fees == IF isTracked(payer, t.known, t.new) THEN t.fees ELSE 0
  <2>2. fees = 0
    BY <1>1, <1>4
  <2> HIDE DEF fees
  <2>3. \A a \in Addrs : t.withdrawals[a] <= t.withdrawals[a]
    BY <1>1
  <2>4. \A a : FeesIn(t.ops, a) = FeesIn(t.ops, a)
                                    + (IF a = payer THEN fees ELSE 0)
    BY <1>3, <2>2
  <2>5. DOMAIN Diffs(t.ops) = DOMAIN Diffs(t.ops) \cup
                                (IF fees > 0 THEN {payer} ELSE {})
    BY <2>2
  <2> QED BY <2>1, <2>3, <2>4, <2>5 DEF fees
<1>5. CASE isTracked(payer, t.known, t.new) /\ t.fees > 0
  <2> DEFINE r == FeeOp(t, payer)
  <2>1. t.fees <= t.withdrawals[payer] /\ ~(t.fees > t.withdrawals[payer])
    BY <1>1, <1>5
  <2>2. r = [t EXCEPT !.withdrawals = w, !.ops = u]
    BY <1>5, <2>1 DEF FeeOp, op, Tallies
  <2>3. r \in Tallies
    BY FeeOpType
  <2>4. /\ r.ok = t.ok /\ r.transfers = t.transfers /\ r.known = t.known
        /\ r.new = t.new /\ r.deposits = t.deposits
        /\ r.proxyDeposits = t.proxyDeposits
        /\ r.withdrawals = w /\ r.ops = u
    <3> HIDE DEF u, w, r
    <3> QED BY <2>2 DEF Tallies
  <2>5. /\ \A a \in Addrs : w[a] \in Nat /\ t.withdrawals[a] \in Nat
        /\ w[payer] = t.withdrawals[payer] - t.fees
        /\ \A a \in Addrs : a # payer => w[a] = t.withdrawals[a]
    BY <1>1, <2>1
  <2> HIDE DEF u, w, r
  <2>6. ASSUME NEW a \in Addrs
        PROVE  /\ w[a] <= t.withdrawals[a]
               /\ Change(u, a) - w[a] = Change(t.ops, a) - t.withdrawals[a]
    <3>1. a # NoAccount
      BY BlockOpsAssumption
    <3>2. CASE a = payer
      <4>1. Effect(op, a) = -t.fees
        BY <1>1, <1>2, <3>1, <3>2 DEF Effect
      <4> QED BY <1>1, <1>3, <2>5, <3>2, <4>1
    <3>3. CASE a # payer
      <4>1. Effect(op, a) = 0
        BY <1>1, <1>2, <3>1, <3>3 DEF Effect
      <4> QED BY <1>3, <2>5, <3>3, <4>1
    <3> QED BY <3>2, <3>3
  <2>7. DOMAIN Diffs(u) = DOMAIN Diffs(t.ops) \cup {payer}
    BY <1>2, <1>3, BlockOpsAssumption DEF Touched
  <2>8. \A a : FeesIn(u, a) = FeesIn(t.ops, a)
                                + (IF a = payer THEN t.fees ELSE 0)
    BY <1>1, <1>2, <1>3 DEF AddFee
  <2>9. ProxiesCreated(u) = ProxiesCreated(t.ops)
    BY <1>2, <1>3
  <2> QED BY <1>5, <2>3, <2>4, <2>6, <2>7, <2>8, <2>9 DEF r
<1> QED BY <1>4, <1>5

\* A transfer out of a proxy account takes away what it adds, and the sender
\* is charged. Sorted says which deposits are kept for which accounts.
Sorted(t) ==
  \A a \in Addrs : IF isProxy(a, t.known, t.new) THEN t.deposits[a] = 0
                                                 ELSE t.proxyDeposits[a] = 0

\* What is deposited to an account is in one of the two maps of deposits.
LEMMA SortedIncoming ==
  ASSUME NEW t \in Tallies, Sorted(t), NEW a \in Addrs
  PROVE  /\ Incoming(t)[a] \in Nat
         /\ Incoming(t)[a] = IF isProxy(a, t.known, t.new)
                               THEN t.proxyDeposits[a] ELSE t.deposits[a]
         /\ Incoming(t)[a] = t.deposits[a] + t.proxyDeposits[a]
<1>1. t.deposits[a] \in Nat /\ t.proxyDeposits[a] \in Nat
  BY TallyFields
<1>2. Incoming(t)[a] = IF t.proxyDeposits[a] > 0 THEN t.proxyDeposits[a]
                                                  ELSE t.deposits[a]
  BY DEF Incoming
<1>3. CASE isProxy(a, t.known, t.new)
  <2>1. t.deposits[a] = 0
    BY <1>3 DEF Sorted
  <2> QED BY <1>1, <1>2, <1>3, <2>1
<1>4. CASE ~isProxy(a, t.known, t.new)
  <2>1. t.proxyDeposits[a] = 0
    BY <1>4 DEF Sorted
  <2> QED BY <1>1, <1>2, <1>4, <2>1
<1> QED BY <1>3, <1>4

\* A PROXY_TRANSFER operation charges the sender and credits the receiver.
LEMMA ProxyOpEffect ==
  ASSUME NEW t \in Tallies, NEW x \in Transfers
  PROVE  LET r == ProxyOp(t, x)
         IN  /\ r \in Tallies /\ r.ok = t.ok
             /\ r.known = t.known /\ r.new = t.new
             /\ r.deposits = t.deposits /\ r.proxyDeposits = t.proxyDeposits
             /\ r.withdrawals = t.withdrawals
             /\ \A a \in Addrs :
                  /\ Change(t.ops, a) \in Int
                  /\ Change(r.ops, a) = Change(t.ops, a)
                       + ((IF a = x.receiver THEN x.amount ELSE 0)
                            - (IF a = x.sender THEN x.amount ELSE 0))
             /\ DOMAIN Diffs(r.ops) = DOMAIN Diffs(t.ops) \cup
                                        ({x.sender, x.receiver} \ {NoAccount})
             /\ \A a : FeesIn(r.ops, a) = FeesIn(t.ops, a)
             /\ ProxiesCreated(r.ops) = ProxiesCreated(t.ops)
<1> DEFINE op == Op("PROXY_TRANSFER", x.sender, x.receiver, x.amount, FALSE)
           u == Append(t.ops, op)
           r == ProxyOp(t, x)
<1>1. t.ops \in Seq(Ops)
  BY TallyFields
<1>2. x.sender \in Accounts /\ x.receiver \in Accounts /\ x.amount \in Nat
  BY DEF Transfers, Accounts
<1>3. /\ op \in Ops /\ op.type = "PROXY_TRANSFER" /\ op.account = x.sender
      /\ op.receiver = x.receiver /\ op.amount = x.amount
  BY <1>2 DEF Op, Ops
<1>4. r = [t EXCEPT !.ops = u]
  BY DEF ProxyOp, Tallies
<1> HIDE DEF op
<1>5. /\ DOMAIN Diffs(u) = DOMAIN Diffs(t.ops) \cup Touched(op)
      /\ \A a \in Addrs : Change(t.ops, a) \in Int /\ Effect(op, a) \in Int
      /\ \A a \in Addrs : Change(u, a) = Change(t.ops, a) + Effect(op, a)
      /\ \A a : FeesIn(u, a) = AddFee(FeesIn(t.ops, a), op, a)
      /\ ProxiesCreated(u) = ProxiesCreated(t.ops) \cup
           (IF op.type = "CREATE_ACCOUNT" /\ op.proxy
              THEN {op.account} ELSE {})
  BY <1>1, <1>3, OpsAppend
<1>6. u \in Seq(Ops)
  BY <1>1, <1>3
<1> HIDE DEF u, r
<1>7. r \in Tallies
  BY <1>4, <1>6, TallyUpdate
<1>8. /\ r.ok = t.ok /\ r.known = t.known /\ r.new = t.new
      /\ r.deposits = t.deposits /\ r.proxyDeposits = t.proxyDeposits
      /\ r.withdrawals = t.withdrawals /\ r.ops = u
  BY <1>4 DEF Tallies
<1>9. \A a \in Addrs : Effect(op, a) = (IF a = x.receiver THEN x.amount ELSE 0)
                                     - (IF a = x.sender THEN x.amount ELSE 0)
  BY <1>3 DEF Effect
<1>10. Touched(op) = {x.sender, x.receiver} \ {NoAccount}
  BY <1>3 DEF Touched
<1>11. \A a : FeesIn(u, a) = FeesIn(t.ops, a)
  BY <1>3, <1>5 DEF AddFee
<1>12. ProxiesCreated(u) = ProxiesCreated(t.ops)
  BY <1>3, <1>5
<1>13. \A a \in Addrs :
         /\ Change(t.ops, a) \in Int
         /\ Change(u, a) = Change(t.ops, a)
              + ((IF a = x.receiver THEN x.amount ELSE 0)
                   - (IF a = x.sender THEN x.amount ELSE 0))
  BY <1>5, <1>9
<1> QED BY <1>5, <1>7, <1>8, <1>10, <1>11, <1>12, <1>13 DEF r

\* What a proxy transfer x leaves of a tally.
Matched(t, r, x) ==
  /\ r \in Tallies /\ r.ok = t.ok
  /\ r.known = t.known /\ r.new = t.new
  /\ r.withdrawals = t.withdrawals
  /\ \A a \in Addrs :
       /\ Incoming(r)[a] \in Nat /\ Incoming(r)[a] <= Incoming(t)[a]
       /\ Change(t.ops, a) \in Int /\ Change(r.ops, a) \in Int
       /\ Change(r.ops, a) + Incoming(r)[a] =
            (Change(t.ops, a) + Incoming(t)[a])
              - (IF a = x.sender THEN x.amount ELSE 0)
  /\ DOMAIN Diffs(t.ops) \subseteq DOMAIN Diffs(r.ops)
  /\ \A D : /\ DOMAIN Diffs(t.ops) \subseteq D /\ x.sender \in D
            /\ \A a \in Addrs : Incoming(t)[a] > 0 => a \in D
            => DOMAIN Diffs(r.ops) \subseteq D
  /\ \A a : FeesIn(r.ops, a) = FeesIn(t.ops, a)
  /\ ProxiesCreated(r.ops) = ProxiesCreated(t.ops)

\* A proxy transfer uses up the matching deposit, so the receiver is credited
\* once.
LEMMA MatchTransferEffect ==
  ASSUME NEW t \in Tallies, NEW x \in Transfers, Sorted(t),
         x.receiver # NoAccount => x.amount <= Incoming(t)[x.receiver]
  PROVE  Matched(t, MatchTransfer(t, x), x)
<1> DEFINE r == MatchTransfer(t, x)
           b == x.receiver
           n == x.amount
<1>1. n \in Nat /\ x.sender \in Addrs /\ b \in Accounts
  BY DEF Transfers
<1>2. t.deposits \in [Addrs -> Nat] /\ t.proxyDeposits \in [Addrs -> Nat]
  BY TallyFields
<1>3. \A a \in Addrs : /\ Incoming(t)[a] \in Nat
                       /\ Incoming(t)[a] = IF isProxy(a, t.known, t.new)
                            THEN t.proxyDeposits[a] ELSE t.deposits[a]
  BY SortedIncoming
<1>4. \A a \in Addrs : Change(t.ops, a) \in Int
  BY ProxyOpEffect
<1>5. CASE n = 0
  <2>1. r = t
    BY <1>5 DEF MatchTransfer
  <2>2. \A a \in Addrs : Change(t.ops, a) + Incoming(t)[a] =
          (Change(t.ops, a) + Incoming(t)[a]) - (IF a = x.sender THEN n ELSE 0)
    BY <1>3, <1>4, <1>5
  <2>3. \A a \in Addrs : Incoming(t)[a] <= Incoming(t)[a]
    BY <1>3
  <2> QED BY <1>3, <1>4, <2>1, <2>2, <2>3 DEF Matched
<1>6. CASE n # 0 /\ b = NoAccount
  <2>1. r = ProxyOp(t, x)
    BY <1>6 DEF MatchTransfer
  <2> HIDE DEF r
  <2>2. /\ r \in Tallies /\ r.ok = t.ok
        /\ r.known = t.known /\ r.new = t.new
        /\ r.deposits = t.deposits /\ r.proxyDeposits = t.proxyDeposits
        /\ r.withdrawals = t.withdrawals
        /\ \A a \in Addrs : Change(r.ops, a) = Change(t.ops, a)
                       + ((IF a = b THEN n ELSE 0)
                            - (IF a = x.sender THEN n ELSE 0))
        /\ DOMAIN Diffs(r.ops) = DOMAIN Diffs(t.ops) \cup
                                   ({x.sender, b} \ {NoAccount})
        /\ \A a : FeesIn(r.ops, a) = FeesIn(t.ops, a)
        /\ ProxiesCreated(r.ops) = ProxiesCreated(t.ops)
    BY <2>1, ProxyOpEffect
  <2> HIDE DEF r, n
  <2>3. Incoming(r) = Incoming(t)
    BY <2>2 DEF Incoming
  <2>4. ASSUME NEW a \in Addrs
        PROVE  /\ Change(r.ops, a) \in Int
               /\ Change(r.ops, a) + Incoming(t)[a] =
                    (Change(t.ops, a) + Incoming(t)[a])
                      - (IF a = x.sender THEN n ELSE 0)
    <3>1. a # b
      BY <1>6, BlockOpsAssumption
    <3>2. Change(r.ops, a) = Change(t.ops, a)
                               + (0 - (IF a = x.sender THEN n ELSE 0))
      BY <2>2, <3>1
    <3> QED BY <1>1, <1>3, <1>4, <3>2
  <2>5. \A a \in Addrs : Incoming(t)[a] <= Incoming(t)[a]
    BY <1>3
  <2>6. DOMAIN Diffs(r.ops) \subseteq DOMAIN Diffs(t.ops) \cup {x.sender}
    BY <1>6, <2>2
  <2> QED BY <1>3, <1>4, <2>2, <2>3, <2>4, <2>5, <2>6 DEF Matched, r, n
<1>7. CASE n # 0 /\ b # NoAccount
  <2> DEFINE p == isProxy(b, t.known, t.new)
             d == [t.deposits EXCEPT ![b] = @ - n]
             e == [t.proxyDeposits EXCEPT ![b] = @ - n]
             u == IF p THEN [t EXCEPT !.proxyDeposits = e]
                       ELSE [t EXCEPT !.deposits = d]
  <2>1. b \in Addrs /\ n <= Incoming(t)[b] /\ n > 0
    BY <1>1, <1>7 DEF Accounts
  <2>2. n <= (IF p THEN t.proxyDeposits ELSE t.deposits)[b]
    BY <1>3, <2>1
  <2>3. ~(n > (IF p THEN t.proxyDeposits ELSE t.deposits)[b])
    BY <1>1, <1>2, <2>1, <2>2
  <2>4. r = ProxyOp(u, x)
    BY <1>7, <2>3 DEF MatchTransfer, Tallies
  <2>5. /\ p => e \in [Addrs -> Nat]
        /\ ~p => d \in [Addrs -> Nat]
    BY <1>1, <1>2, <2>1, <2>2
  <2>6. u \in Tallies
    <3> HIDE DEF d, e, p
    <3> QED BY <2>5, TallyUpdate
  <2>7. /\ u.known = t.known /\ u.new = t.new /\ u.ok = t.ok
        /\ u.withdrawals = t.withdrawals /\ u.ops = t.ops
        /\ u.deposits = (IF p THEN t.deposits ELSE d)
        /\ u.proxyDeposits = (IF p THEN e ELSE t.proxyDeposits)
    <3> HIDE DEF d, e, p
    <3> QED BY DEF Tallies
  <2> HIDE DEF u, r
  <2>8. /\ r \in Tallies /\ r.ok = u.ok
        /\ r.known = u.known /\ r.new = u.new
        /\ r.deposits = u.deposits /\ r.proxyDeposits = u.proxyDeposits
        /\ r.withdrawals = u.withdrawals
        /\ \A a \in Addrs : Change(r.ops, a) = Change(u.ops, a)
                       + ((IF a = b THEN n ELSE 0)
                            - (IF a = x.sender THEN n ELSE 0))
        /\ DOMAIN Diffs(r.ops) = DOMAIN Diffs(u.ops) \cup
                                   ({x.sender, b} \ {NoAccount})
        /\ \A a : FeesIn(r.ops, a) = FeesIn(u.ops, a)
        /\ ProxiesCreated(r.ops) = ProxiesCreated(u.ops)
    BY <2>4, <2>6, ProxyOpEffect
  <2> HIDE DEF Matched, r, n, b
  <2>9. ASSUME NEW a \in Addrs
        PROVE  Incoming(r)[a] = Incoming(t)[a] - (IF a = b THEN n ELSE 0)
    <3>1. Incoming(r)[a] = IF r.proxyDeposits[a] > 0 THEN r.proxyDeposits[a]
                                                     ELSE r.deposits[a]
      BY DEF Incoming
    <3>2. CASE p
      <4>1. r.proxyDeposits = e /\ r.deposits = t.deposits
        BY <2>7, <2>8, <3>2
      <4>2. e[a] = t.proxyDeposits[a] - (IF a = b THEN n ELSE 0)
        BY <1>1, <1>2, <2>1
      <4>3. isProxy(a, t.known, t.new) => t.deposits[a] = 0
        BY DEF Sorted
      <4>4. ~isProxy(a, t.known, t.new) => a # b /\ t.proxyDeposits[a] = 0
        BY <3>2 DEF Sorted
      <4>5. e[a] \in Nat /\ t.deposits[a] \in Nat /\ t.proxyDeposits[a] \in Nat
        BY <1>2, <2>5, <3>2
      <4> HIDE DEF e, p
      <4> QED BY <1>1, <1>3, <3>1, <4>1, <4>2, <4>3, <4>4, <4>5
    <3>3. CASE ~p
      <4>1. r.proxyDeposits = t.proxyDeposits /\ r.deposits = d
        BY <2>7, <2>8, <3>3
      <4>2. d[a] = t.deposits[a] - (IF a = b THEN n ELSE 0)
        BY <1>1, <1>2, <2>1
      <4>3. isProxy(a, t.known, t.new) => t.deposits[a] = 0 /\ a # b
        BY <3>3 DEF Sorted
      <4>4. ~isProxy(a, t.known, t.new) => t.proxyDeposits[a] = 0
        BY DEF Sorted
      <4>5. d[a] \in Nat /\ t.deposits[a] \in Nat /\ t.proxyDeposits[a] \in Nat
        BY <1>2, <2>5, <3>3
      <4> HIDE DEF d, p
      <4> QED BY <1>1, <1>3, <3>1, <4>1, <4>2, <4>3, <4>4, <4>5
    <3> QED BY <3>2, <3>3
  <2> HIDE DEF d, e, p
  <2>10. ASSUME NEW a \in Addrs
         PROVE  /\ Incoming(r)[a] \in Nat /\ Incoming(r)[a] <= Incoming(t)[a]
                /\ Change(r.ops, a) \in Int
                /\ Change(r.ops, a) + Incoming(r)[a] =
                     (Change(t.ops, a) + Incoming(t)[a])
                       - (IF a = x.sender THEN n ELSE 0)
    <3>1. Change(r.ops, a) = Change(t.ops, a) + ((IF a = b THEN n ELSE 0)
                            - (IF a = x.sender THEN n ELSE 0))
      BY <2>7, <2>8
    <3>2. Incoming(t)[a] \in Nat /\ Change(t.ops, a) \in Int
      BY <1>3, <1>4
    <3> QED BY <1>1, <2>1, <2>9, <3>1, <3>2
  <2>11. DOMAIN Diffs(r.ops) \subseteq DOMAIN Diffs(t.ops) \cup {x.sender, b}
    BY <2>7, <2>8
  <2>12. Incoming(t)[b] > 0
    BY <1>1, <1>3, <2>1
  <2>13. \A D : /\ DOMAIN Diffs(t.ops) \subseteq D /\ x.sender \in D
                /\ \A a \in Addrs : Incoming(t)[a] > 0 => a \in D
                => DOMAIN Diffs(r.ops) \subseteq D
    BY <2>1, <2>11, <2>12
  <2> QED BY <1>4, <2>7, <2>8, <2>10, <2>13 DEF Matched, r, n, b
<1> QED BY <1>5, <1>6, <1>7

\* The loop over no proxy transfer and over one.
LEMMA MatchTransferShort ==
  ASSUME NEW t \in Tallies
  PROVE  /\ FoldLeft(MatchTransfer, t, << >>) = t
         /\ \A x \in Transfers :
              FoldLeft(MatchTransfer, t, <<x>>) = MatchTransfer(t, x)
<1> DEFINE E == << >>
<1>1. E \in Seq(Transfers) /\ Len(E) = 0
  OBVIOUS
<1> HIDE DEF E
<1>2. PICK c \in [0..Len(E) -> Tallies] :
        /\ c[0] = t
        /\ \A i \in 1..Len(E) : c[i] = MatchTransfer(c[i - 1], E[i])
        /\ FoldLeft(MatchTransfer, t, E) = c[Len(E)]
  <2>1. E \in Seq(Transfers)
    BY <1>1
  <2> QED BY <2>1, MatchTransferFold
<1>3. FoldLeft(MatchTransfer, t, E) = t
  BY <1>1, <1>2
<1>4. ASSUME NEW x \in Transfers
      PROVE  FoldLeft(MatchTransfer, t, <<x>>) = MatchTransfer(t, x)
  <2> DEFINE q == <<x>>
  <2>1. q \in Seq(Transfers) /\ Len(q) = 1 /\ q[1] = x
    OBVIOUS
  <2> HIDE DEF q
  <2>2. PICK d \in [0..Len(q) -> Tallies] :
          /\ d[0] = t
          /\ \A i \in 1..Len(q) : d[i] = MatchTransfer(d[i - 1], q[i])
          /\ FoldLeft(MatchTransfer, t, q) = d[Len(q)]
    BY <2>1, MatchTransferFold
  <2>3. d[1] = MatchTransfer(t, x)
    BY <2>1, <2>2
  <2> QED BY <2>1, <2>2, <2>3 DEF q
<1> QED BY <1>3, <1>4 DEF E

\* What processBlock does once it has been over the events.
Finish(t, payer) ==
  LET t3 == FeeOp(CreateOps(t), payer)
  IN  MergeRest(FoldLeft(MatchTransfer, t3, t3.transfers))

Out(t, a) == IF t.transfers # << >> /\ t.transfers[1].sender = a
               THEN t.transfers[1].amount ELSE 0

\* At most one transfer, for which the deposit is there.
Single(t) ==
  \/ t.transfers = << >>
  \/ \E x \in Transfers :
       /\ t.transfers = <<x>>
       /\ x.receiver # NoAccount => x.amount <= Incoming(t)[x.receiver]

\* The loop over the proxy transfers of a transaction.
LEMMA MatchAllEffect ==
  ASSUME NEW t \in Tallies, Sorted(t), Single(t)
  PROVE  LET r == FoldLeft(MatchTransfer, t, t.transfers)
         IN  /\ r \in Tallies /\ r.ok = t.ok
             /\ r.known = t.known /\ r.new = t.new
             /\ r.withdrawals = t.withdrawals
             /\ \A a \in Addrs :
                  /\ Incoming(r)[a] \in Nat /\ Incoming(r)[a] <= Incoming(t)[a]
                  /\ Change(t.ops, a) \in Int /\ Change(r.ops, a) \in Int
                  /\ Out(t, a) \in Nat
                  /\ Change(r.ops, a) + Incoming(r)[a] =
                       (Change(t.ops, a) + Incoming(t)[a]) - Out(t, a)
             /\ DOMAIN Diffs(t.ops) \subseteq DOMAIN Diffs(r.ops)
             /\ \A D : /\ DOMAIN Diffs(t.ops) \subseteq D
                       /\ t.transfers # << >> => t.transfers[1].sender \in D
                       /\ \A a \in Addrs : Incoming(t)[a] > 0 => a \in D
                       => DOMAIN Diffs(r.ops) \subseteq D
             /\ \A a : FeesIn(r.ops, a) = FeesIn(t.ops, a)
             /\ ProxiesCreated(r.ops) = ProxiesCreated(t.ops)
<1> DEFINE r == FoldLeft(MatchTransfer, t, t.transfers)
<1>1. \A a \in Addrs : Incoming(t)[a] \in Nat
  BY SortedIncoming
<1>2. CASE t.transfers = << >>
  <2>1. r = t
    BY <1>2, MatchTransferShort
  <2>2. \A a \in Addrs : Change(t.ops, a) \in Int
    <3>1. t.ops \in Seq(Ops)
      BY TallyFields
    <3> QED BY <3>1, OpsTypes
  <2>3. \A a : Out(t, a) = 0
    BY <1>2 DEF Out
  <2>4. \A a \in Addrs : /\ Incoming(t)[a] <= Incoming(t)[a]
                         /\ Change(t.ops, a) + Incoming(t)[a] =
                              (Change(t.ops, a) + Incoming(t)[a]) - Out(t, a)
    BY <1>1, <2>2, <2>3
  <2> HIDE DEF r
  <2> QED BY <1>1, <2>1, <2>2, <2>3, <2>4 DEF r
<1>3. ASSUME NEW x \in Transfers, t.transfers = <<x>>,
             x.receiver # NoAccount => x.amount <= Incoming(t)[x.receiver]
      PROVE  /\ r = MatchTransfer(t, x)
             /\ t.transfers # << >> /\ t.transfers[1] = x
             /\ \A a : Out(t, a) = IF a = x.sender THEN x.amount ELSE 0
             /\ \A a : Out(t, a) \in Nat
  <2>1. r = MatchTransfer(t, x)
    BY <1>3, MatchTransferShort
  <2>2. t.transfers # << >> /\ t.transfers[1] = x
    BY <1>3
  <2>3. x.amount \in Nat
    BY DEF Transfers
  <2> QED BY <2>1, <2>2, <2>3 DEF Out
<1>4. CASE t.transfers # << >>
  <2>1. PICK x \in Transfers :
          /\ t.transfers = <<x>>
          /\ x.receiver # NoAccount => x.amount <= Incoming(t)[x.receiver]
    BY <1>4 DEF Single
  <2>2. /\ r = MatchTransfer(t, x)
        /\ t.transfers # << >> /\ t.transfers[1] = x
        /\ \A a : Out(t, a) = IF a = x.sender THEN x.amount ELSE 0
        /\ \A a : Out(t, a) \in Nat
    BY <1>3, <2>1
  <2> HIDE DEF r
  <2>0. Matched(t, r, x)
    BY <2>1, <2>2, MatchTransferEffect
  <2>3. /\ r \in Tallies /\ r.ok = t.ok
        /\ r.known = t.known /\ r.new = t.new
        /\ r.withdrawals = t.withdrawals
        /\ \A a \in Addrs :
             /\ Incoming(r)[a] \in Nat /\ Incoming(r)[a] <= Incoming(t)[a]
             /\ Change(t.ops, a) \in Int /\ Change(r.ops, a) \in Int
             /\ Change(r.ops, a) + Incoming(r)[a] =
                  (Change(t.ops, a) + Incoming(t)[a])
                    - (IF a = x.sender THEN x.amount ELSE 0)
        /\ DOMAIN Diffs(t.ops) \subseteq DOMAIN Diffs(r.ops)
        /\ \A D : /\ DOMAIN Diffs(t.ops) \subseteq D /\ x.sender \in D
                  /\ \A a \in Addrs : Incoming(t)[a] > 0 => a \in D
                  => DOMAIN Diffs(r.ops) \subseteq D
        /\ \A a : FeesIn(r.ops, a) = FeesIn(t.ops, a)
        /\ ProxiesCreated(r.ops) = ProxiesCreated(t.ops)
    BY <2>0 DEF Matched
  <2>4. \A a \in Addrs : Change(r.ops, a) + Incoming(r)[a] =
                           (Change(t.ops, a) + Incoming(t)[a]) - Out(t, a)
    BY <2>2, <2>3
  <2>5. \A D : /\ DOMAIN Diffs(t.ops) \subseteq D
               /\ t.transfers # << >> => t.transfers[1].sender \in D
               /\ \A a \in Addrs : Incoming(t)[a] > 0 => a \in D
               => DOMAIN Diffs(r.ops) \subseteq D
    BY <2>2, <2>3
  <2> QED BY <2>2, <2>3, <2>4, <2>5 DEF r
<1> QED BY <1>2, <1>4

\* The operations of a transaction change each balance by what was deposited
\* minus what was withdrawn and sent by proxy, and book the fees of a tracked
\* payer.
LEMMA FinishEffect ==
  ASSUME NEW t \in Tallies, NEW payer \in Addrs, Sorted(t), Single(t),
         isTracked(payer, t.known, t.new) => t.fees <= t.withdrawals[payer]
  PROVE  LET r    == Finish(t, payer)
             fees == IF isTracked(payer, t.known, t.new) THEN t.fees ELSE 0
         IN  /\ r \in Tallies /\ r.ok = t.ok
             /\ r.known = t.known /\ r.new = t.new
             /\ \A a \in Addrs :
                  /\ Change(t.ops, a) \in Int /\ Out(t, a) \in Nat
                  /\ Change(r.ops, a) = Change(t.ops, a) +
                       ((Incoming(t)[a] - t.withdrawals[a]) - Out(t, a))
             /\ DOMAIN Diffs(t.ops) \cup Range(t.addrs)
                  \subseteq DOMAIN Diffs(r.ops)
             /\ \A D : /\ DOMAIN Diffs(t.ops) \cup Range(t.addrs) \subseteq D
                       /\ t.transfers # << >> => t.transfers[1].sender \in D
                       /\ isTracked(payer, t.known, t.new) => payer \in D
                       /\ \A a \in Addrs : Incoming(t)[a] > 0 => a \in D
                       /\ \A a \in Addrs : t.withdrawals[a] > 0 => a \in D
                       => DOMAIN Diffs(r.ops) \subseteq D
             /\ \A a : FeesIn(r.ops, a) = FeesIn(t.ops, a) +
                                            (IF a = payer THEN fees ELSE 0)
             /\ ProxiesCreated(r.ops) = ProxiesCreated(t.ops) \cup
                                          (Range(t.addrs) \cap t.keyed)
<1> DEFINE tracked == isTracked(payer, t.known, t.new)
           fees == IF tracked THEN t.fees ELSE 0
           t1 == CreateOps(t)
           t2 == FeeOp(t1, payer)
           t3 == FoldLeft(MatchTransfer, t2, t2.transfers)
           r  == MergeRest(t3)
<1>1. r = Finish(t, payer)
  BY DEF Finish
<1>2. /\ t1 \in Tallies /\ t1 = [t EXCEPT !.ops = t1.ops]
      /\ \A a \in Addrs : Change(t1.ops, a) = Change(t.ops, a)
      /\ DOMAIN Diffs(t1.ops) = DOMAIN Diffs(t.ops) \cup Range(t.addrs)
      /\ \A a : FeesIn(t1.ops, a) = FeesIn(t.ops, a)
      /\ ProxiesCreated(t1.ops) = ProxiesCreated(t.ops) \cup
                                    (Range(t.addrs) \cap t.keyed)
  BY CreateOpsEffect
<1> HIDE DEF t1
<1>3. /\ t1.ok = t.ok /\ t1.known = t.known /\ t1.new = t.new
      /\ t1.transfers = t.transfers /\ t1.deposits = t.deposits
      /\ t1.proxyDeposits = t.proxyDeposits /\ t1.fees = t.fees
      /\ t1.withdrawals = t.withdrawals
  BY <1>2 DEF Tallies
<1>4. isTracked(payer, t1.known, t1.new) => t1.fees <= t1.withdrawals[payer]
  BY <1>3
<1>5. /\ t2 \in Tallies /\ t2.ok = t1.ok /\ t2.transfers = t1.transfers
      /\ t2.known = t1.known /\ t2.new = t1.new
      /\ t2.deposits = t1.deposits /\ t2.proxyDeposits = t1.proxyDeposits
      /\ \A a \in Addrs :
           /\ t2.withdrawals[a] <= t1.withdrawals[a]
           /\ Change(t2.ops, a) - t2.withdrawals[a] =
                Change(t1.ops, a) - t1.withdrawals[a]
      /\ ProxiesCreated(t2.ops) = ProxiesCreated(t1.ops)
  BY <1>2, <1>4, FeeOpEffect
<1>6. /\ DOMAIN Diffs(t2.ops) = DOMAIN Diffs(t1.ops) \cup
                                  (IF fees > 0 THEN {payer} ELSE {})
      /\ \A a : FeesIn(t2.ops, a) = FeesIn(t1.ops, a) +
                                      (IF a = payer THEN fees ELSE 0)
  BY <1>2, <1>3, <1>4, FeeOpEffect
<1> HIDE DEF t2
<1>7. Incoming(t2) = Incoming(t) /\ Sorted(t2) /\ Single(t2)
  BY <1>3, <1>5 DEF Incoming, Sorted, Single
<1>8. \A a : Out(t2, a) = Out(t, a)
  BY <1>3, <1>5 DEF Out
<1>9. /\ t3 \in Tallies /\ t3.ok = t2.ok
      /\ t3.known = t2.known /\ t3.new = t2.new
      /\ t3.withdrawals = t2.withdrawals
      /\ \A a \in Addrs :
           /\ Incoming(t3)[a] \in Nat /\ Incoming(t3)[a] <= Incoming(t2)[a]
           /\ Change(t2.ops, a) \in Int /\ Change(t3.ops, a) \in Int
           /\ Out(t2, a) \in Nat
           /\ Change(t3.ops, a) + Incoming(t3)[a] =
                (Change(t2.ops, a) + Incoming(t2)[a]) - Out(t2, a)
      /\ DOMAIN Diffs(t2.ops) \subseteq DOMAIN Diffs(t3.ops)
      /\ \A D : /\ DOMAIN Diffs(t2.ops) \subseteq D
                /\ t2.transfers # << >> => t2.transfers[1].sender \in D
                /\ \A a \in Addrs : Incoming(t2)[a] > 0 => a \in D
                => DOMAIN Diffs(t3.ops) \subseteq D
      /\ \A a : FeesIn(t3.ops, a) = FeesIn(t2.ops, a)
      /\ ProxiesCreated(t3.ops) = ProxiesCreated(t2.ops)
  BY <1>5, <1>7, MatchAllEffect
<1> HIDE DEF t3
<1>10. /\ r \in Tallies
       /\ r.known = t3.known /\ r.new = t3.new /\ r.ok = t3.ok
       /\ \A a \in Addrs : Change(r.ops, a) = Change(t3.ops, a) +
            (Incoming(t3)[a] - t3.withdrawals[a])
       /\ DOMAIN Diffs(r.ops) = DOMAIN Diffs(t3.ops) \cup
            {a \in Addrs : Incoming(t3)[a] > 0 \/ t3.withdrawals[a] > 0}
       /\ \A a : FeesIn(r.ops, a) = FeesIn(t3.ops, a)
       /\ ProxiesCreated(r.ops) = ProxiesCreated(t3.ops)
  BY <1>9, MergeRestEffect
<1> HIDE DEF r
<1>11. ASSUME NEW a \in Addrs
       PROVE  /\ Incoming(t)[a] \in Nat /\ Incoming(t3)[a] \in Nat
              /\ Incoming(t3)[a] <= Incoming(t)[a]
              /\ t.withdrawals[a] \in Nat /\ t3.withdrawals[a] \in Nat
              /\ t3.withdrawals[a] <= t.withdrawals[a]
  <2>1. Incoming(t)[a] \in Nat
    BY SortedIncoming
  <2>2. /\ t.withdrawals \in [Addrs -> Nat]
        /\ t3.withdrawals \in [Addrs -> Nat]
    BY <1>9, TallyFields
  <2> QED BY <1>3, <1>5, <1>7, <1>9, <2>1, <2>2
<1>12. ASSUME NEW a \in Addrs
       PROVE  /\ Change(t.ops, a) \in Int /\ Out(t, a) \in Nat
              /\ Change(r.ops, a) = Change(t.ops, a) +
                   ((Incoming(t)[a] - t.withdrawals[a]) - Out(t, a))
  <2> DEFINE ct == Change(t.ops, a)
             c2 == Change(t2.ops, a)
             c3 == Change(t3.ops, a)
             w  == t.withdrawals[a]
             w3 == t3.withdrawals[a]
             in == Incoming(t)[a]
             in3 == Incoming(t3)[a]
             out == Out(t, a)
  <2>1. ct \in Int
    <3>1. t.ops \in Seq(Ops)
      BY TallyFields
    <3> QED BY <3>1, OpsTypes
  <2>2. c2 - w3 = ct - w
    BY <1>2, <1>3, <1>5, <1>9
  <2>3. /\ c2 \in Int /\ c3 \in Int /\ out \in Nat
        /\ c3 + in3 = (c2 + in) - out
    BY <1>7, <1>8, <1>9
  <2>4. Change(r.ops, a) = c3 + (in3 - w3)
    BY <1>10
  <2>5. w \in Nat /\ w3 \in Nat /\ in \in Nat /\ in3 \in Nat
    BY <1>11
  <2> HIDE DEF ct, c2, c3, w, w3, in, in3, out
  <2>6. Change(r.ops, a) = ct + ((in - w) - out)
    BY <2>1, <2>2, <2>3, <2>4, <2>5
  <2> QED BY <2>1, <2>3, <2>6 DEF ct, w, in, out
<1>13. DOMAIN Diffs(t.ops) \cup Range(t.addrs) \subseteq DOMAIN Diffs(r.ops)
  BY <1>2, <1>6, <1>9, <1>10
<1>14. ASSUME NEW D,
              DOMAIN Diffs(t.ops) \cup Range(t.addrs) \subseteq D,
              t.transfers # << >> => t.transfers[1].sender \in D,
              tracked => payer \in D,
              \A a \in Addrs : Incoming(t)[a] > 0 => a \in D,
              \A a \in Addrs : t.withdrawals[a] > 0 => a \in D
       PROVE  DOMAIN Diffs(r.ops) \subseteq D
  <2>1. fees > 0 => payer \in D
    BY <1>14
  <2>2. DOMAIN Diffs(t2.ops) \subseteq D
    BY <1>2, <1>6, <1>14, <2>1
  <2>3. t2.transfers # << >> => t2.transfers[1].sender \in D
    BY <1>3, <1>5, <1>14
  <2>4. \A a \in Addrs : Incoming(t2)[a] > 0 => a \in D
    BY <1>7, <1>14
  <2>5. DOMAIN Diffs(t3.ops) \subseteq D
    BY <1>9, <2>2, <2>3, <2>4
  <2>6. \A a \in Addrs : Incoming(t3)[a] > 0 => Incoming(t)[a] > 0
    BY <1>11
  <2>7. \A a \in Addrs : t3.withdrawals[a] > 0 => t.withdrawals[a] > 0
    BY <1>11
  <2> QED BY <1>10, <1>14, <2>5, <2>6, <2>7
<1>15. \A a : FeesIn(r.ops, a) = FeesIn(t.ops, a) +
                                   (IF a = payer THEN fees ELSE 0)
  BY <1>2, <1>6, <1>9, <1>10
<1>16. ProxiesCreated(r.ops) = ProxiesCreated(t.ops) \cup
                                 (Range(t.addrs) \cap t.keyed)
  BY <1>2, <1>5, <1>9, <1>10
<1>17. r.ok = t.ok /\ r.known = t.known /\ r.new = t.new /\ r \in Tallies
  BY <1>3, <1>5, <1>9, <1>10
<1> HIDE DEF fees
<1> QED BY <1>1, <1>12, <1>13, <1>14, <1>15, <1>16, <1>17 DEF fees

-----------------------------------------------------------------------------
(***************************************************************************)
(* What the two loops make of the events of a move.                        *)
(***************************************************************************)
Tracked(t, a) == isTracked(a, t.known, t.new)

Proxy(t, a) == isProxy(a, t.known, t.new)

\* Withdrawals, deposits, fees, proxy deposits and proxy transfers.
Spent(t, m, a) ==
  IF m.from[1] = a /\ Tracked(t, a) /\ ~Proxy(t, a) THEN m.amount ELSE 0

Received(t, m, a) ==
  IF m.to[1] = a /\ a # FeeAddr /\ Tracked(t, a) /\ ~Proxy(t, a)
    THEN m.amount ELSE 0

FeePart(m) == IF m.to[1] = FeeAddr THEN m.amount ELSE 0

ProxyReceived(t, m, a) ==
  IF m.to = <<a, "proxy">> /\ Proxy(t, a) THEN m.amount ELSE 0

Sent(t, m) ==
  IF m.from[2] = "proxy" /\ Proxy(t, m.from[1])
    THEN <<[sender |-> m.from[1], amount |-> m.amount,
            receiver |-> IF Tracked(t, m.to[1]) THEN m.to[1] ELSE NoAccount]>>
    ELSE << >>

First(t, u, m) ==
  /\ u \in Tallies
  /\ u.known = t.known /\ u.new = t.new /\ u.addrs = t.addrs
  /\ u.keyed = t.keyed /\ u.deposits = t.deposits
  /\ u.withdrawals = t.withdrawals /\ u.fees = t.fees /\ u.ops = t.ops
  /\ u.ok = t.ok
  /\ \A a \in Addrs :
       u.proxyDeposits[a] = t.proxyDeposits[a] + ProxyReceived(t, m, a)
  /\ u.transfers = t.transfers \o Sent(t, m)

Second(t, u, m) ==
  /\ u \in Tallies
  /\ u.known = t.known /\ u.new = t.new /\ u.addrs = t.addrs
  /\ u.keyed = t.keyed /\ u.proxyDeposits = t.proxyDeposits
  /\ u.transfers = t.transfers /\ u.ops = t.ops /\ u.ok = t.ok
  /\ \A a \in Addrs : /\ u.withdrawals[a] = t.withdrawals[a] + Spent(t, m, a)
                      /\ u.deposits[a] = t.deposits[a] + Received(t, m, a)
  /\ u.fees = t.fees + FeePart(m)

\* The parts of a move.
LEMMA MoveFields ==
  ASSUME NEW m \in Moves
  PROVE  /\ m.from[1] \in Addrs /\ m.to[1] \in Addrs /\ m.amount \in Nat
         /\ m.from[2] \in {"default", "proxy"}
         /\ m.to[2] \in {"default", "proxy"}
         /\ m.from = <<m.from[1], m.from[2]>> /\ m.to = <<m.to[1], m.to[2]>>
BY DEF Moves, Vaults

\* The parts of an event.
LEMMA EventType ==
  ASSUME NEW type \in {"TokensWithdrawn", "TokensDeposited", "AccountCreated",
                       "ProxyCreated", "ProxyDeposited", "ProxyTransferred"},
         NEW a \in Addrs, NEW n \in Nat
  PROVE  /\ Event(type, a, n) \in Events
         /\ Event(type, a, n).type = type
         /\ Event(type, a, n).account = a
         /\ Event(type, a, n).amount = n
BY DEF Event, Events

\* The pieces of EventsOf.
Announced(m) == IF m.to[2] = "proxy"
                  THEN <<Event("ProxyDeposited", m.to[1], m.amount)>>
                  ELSE << >>

Reported(m) == IF m.from[2] = "proxy"
                 THEN <<[Event("ProxyTransferred", m.from[1], m.amount)
                           EXCEPT !.receiver = m.to[1]]>>
                 ELSE << >>

Withdrawn(m) == <<Event("TokensWithdrawn", m.from[1], m.amount)>>

Deposited(m) == <<Event("TokensDeposited", m.to[1], m.amount)>>

\* EventsOf is made of these pieces.
LEMMA PiecesOf ==
  ASSUME NEW m \in Moves
  PROVE  /\ Announced(m) \in Seq(Events) /\ Reported(m) \in Seq(Events)
         /\ Withdrawn(m) \in Seq(Events) /\ Deposited(m) \in Seq(Events)
         /\ EventsOf(m) = ((Withdrawn(m) \o Announced(m)) \o Deposited(m))
                            \o Reported(m)
         /\ Withdrawn(m) \o Announced(m) \in Seq(Events)
         /\ (Withdrawn(m) \o Announced(m)) \o Deposited(m) \in Seq(Events)
         /\ EventsOf(m) \in Seq(Events)
<1>1. /\ m.from[1] \in Addrs /\ m.to[1] \in Addrs /\ m.amount \in Nat
  BY MoveFields
<1>2. /\ Event("ProxyDeposited", m.to[1], m.amount) \in Events
      /\ Event("TokensWithdrawn", m.from[1], m.amount) \in Events
      /\ Event("TokensDeposited", m.to[1], m.amount) \in Events
  BY <1>1, EventType
<1>3. [Event("ProxyTransferred", m.from[1], m.amount)
         EXCEPT !.receiver = m.to[1]] \in Events
  BY <1>1 DEF Event, Events
<1>4. /\ Announced(m) \in Seq(Events) /\ Reported(m) \in Seq(Events)
      /\ Withdrawn(m) \in Seq(Events) /\ Deposited(m) \in Seq(Events)
  BY <1>2, <1>3 DEF Announced, Reported, Withdrawn, Deposited
<1>5. EventsOf(m) = ((Withdrawn(m) \o Announced(m)) \o Deposited(m))
                      \o Reported(m)
  BY DEF EventsOf, Announced, Reported, Withdrawn, Deposited
<1>6. Withdrawn(m) \o Announced(m) \in Seq(Events)
  BY <1>4
<1>7. (Withdrawn(m) \o Announced(m)) \o Deposited(m) \in Seq(Events)
  BY <1>4, <1>6
<1> QED BY <1>4, <1>5, <1>6, <1>7

\* The second loop counts a withdrawal, a deposit and a fee of a move.
LEMMA SecondMove ==
  ASSUME NEW t \in Tallies, NEW m \in Moves
  PROVE  Second(t, evtloop2(t, EventsOf(m)), m)
<1> DEFINE a1 == m.from[1]
           b1 == m.to[1]
           n  == m.amount
           t1 == evtloop2(t, Withdrawn(m))
           t2 == evtloop2(t1, Deposited(m))
<1>1. a1 \in Addrs /\ b1 \in Addrs /\ n \in Nat
  BY MoveFields
<1>2. /\ Announced(m) \in Seq(Events) /\ Reported(m) \in Seq(Events)
      /\ Withdrawn(m) \in Seq(Events) /\ Deposited(m) \in Seq(Events)
      /\ Withdrawn(m) \o Announced(m) \in Seq(Events)
      /\ (Withdrawn(m) \o Announced(m)) \o Deposited(m) \in Seq(Events)
      /\ EventsOf(m) = ((Withdrawn(m) \o Announced(m)) \o Deposited(m))
                         \o Reported(m)
  BY PiecesOf
<1>3. t1 \in Tallies /\ t2 \in Tallies
  BY <1>2, LoopTypes
<1>4. ASSUME NEW u \in Tallies
      PROVE  /\ evtloop2(u, Announced(m)) = u
             /\ evtloop2(u, Reported(m)) = u
  <2> DEFINE e == Event("ProxyDeposited", b1, n)
             f == [Event("ProxyTransferred", a1, n) EXCEPT !.receiver = b1]
  <2>1. e \in Events /\ e.type = "ProxyDeposited"
    BY <1>1, EventType
  <2>2. f \in Events /\ f.type = "ProxyTransferred"
    BY <1>1 DEF Event, Events
  <2>3. SecondLoop(u, e) = u /\ SecondLoop(u, f) = u
    BY <2>1, <2>2 DEF SecondLoop
  <2>4. /\ Announced(m) = << >> \/ Announced(m) = <<e>>
        /\ Reported(m) = << >> \/ Reported(m) = <<f>>
    BY DEF Announced, Reported
  <2> HIDE DEF e, f
  <2> QED BY <2>1, <2>2, <2>3, <2>4, SecondLoopShort
<1>5. evtloop2(t, EventsOf(m)) = t2
  <2> DEFINE p == Withdrawn(m) \o Announced(m)
             q == p \o Deposited(m)
  <2>1. p \in Seq(Events) /\ q \in Seq(Events)
    BY <1>2
  <2>2. evtloop2(t, p) = t1
    BY <1>2, <1>3, <1>4, SecondLoopConcat
  <2> HIDE DEF p, t1
  <2>3. evtloop2(t, q) = t2
    BY <1>2, <2>1, <2>2, SecondLoopConcat
  <2> HIDE DEF q, t2
  <2>4. evtloop2(t, q \o Reported(m)) = evtloop2(t2, Reported(m))
    BY <1>2, <2>1, <2>3, SecondLoopConcat
  <2>5. EventsOf(m) = q \o Reported(m)
    BY <1>2 DEF p, q
  <2> QED BY <1>3, <1>4, <2>4, <2>5
<1>6. t1 = TokensWithdrawn(t, Event("TokensWithdrawn", a1, n))
  <2> DEFINE e == Event("TokensWithdrawn", a1, n)
  <2>1. e \in Events /\ e.type = "TokensWithdrawn"
    BY <1>1, EventType
  <2>2. SecondLoop(t, e) = TokensWithdrawn(t, e)
    BY <2>1 DEF SecondLoop
  <2>3. Withdrawn(m) = <<e>>
    BY DEF Withdrawn
  <2> HIDE DEF e
  <2> QED BY <2>1, <2>2, <2>3, SecondLoopShort DEF e
<1>7. t2 = TokensDeposited(t1, Event("TokensDeposited", b1, n))
  <2> DEFINE e == Event("TokensDeposited", b1, n)
  <2>1. e \in Events /\ e.type = "TokensDeposited"
    BY <1>1, EventType
  <2>2. SecondLoop(t1, e) = TokensDeposited(t1, e)
    BY <2>1 DEF SecondLoop
  <2>3. Deposited(m) = <<e>>
    BY DEF Deposited
  <2> HIDE DEF e, t1
  <2> QED BY <1>3, <2>1, <2>2, <2>3, SecondLoopShort DEF e
<1> HIDE DEF t1, t2
<1>8. /\ t1.known = t.known /\ t1.new = t.new /\ t1.addrs = t.addrs
      /\ t1.keyed = t.keyed /\ t1.proxyDeposits = t.proxyDeposits
      /\ t1.transfers = t.transfers /\ t1.ops = t.ops /\ t1.ok = t.ok
      /\ t1.deposits = t.deposits /\ t1.fees = t.fees
      /\ \A a \in Addrs : t1.withdrawals[a] = t.withdrawals[a] + Spent(t, m, a)
  <2> DEFINE e == Event("TokensWithdrawn", a1, n)
             w == [t.withdrawals EXCEPT ![a1] = @ + n]
             c == Tracked(t, a1) /\ ~Proxy(t, a1)
  <2>1. e.account = a1 /\ e.amount = n
    BY <1>1, EventType
  <2> HIDE DEF e
  <2>2. t1 = IF c THEN [t EXCEPT !.withdrawals = w] ELSE t
    BY <1>6, <2>1 DEF TokensWithdrawn, Tracked, Proxy, Tallies, e
  <2>3. t.withdrawals \in [Addrs -> Nat]
    BY TallyFields
  <2>4. \A a \in Addrs : w[a] = t.withdrawals[a] + (IF a = a1 THEN n ELSE 0)
    BY <1>1, <2>3
  <2>5. ASSUME NEW a \in Addrs
        PROVE  (IF c THEN w ELSE t.withdrawals)[a] =
                 t.withdrawals[a] + Spent(t, m, a)
    <3>1. c => Spent(t, m, a) = IF a = a1 THEN n ELSE 0
      BY DEF Spent
    <3>2. ~c => Spent(t, m, a) = 0
      BY DEF Spent
    <3> HIDE DEF c, w
    <3> QED BY <1>1, <2>3, <2>4, <3>1, <3>2
  <2> HIDE DEF w, c
  <2>6. t1.withdrawals = IF c THEN w ELSE t.withdrawals
    BY <2>2 DEF Tallies
  <2> QED BY <2>2, <2>5, <2>6 DEF Tallies
<1>9. /\ t2.known = t1.known /\ t2.new = t1.new /\ t2.addrs = t1.addrs
      /\ t2.keyed = t1.keyed /\ t2.proxyDeposits = t1.proxyDeposits
      /\ t2.transfers = t1.transfers /\ t2.ops = t1.ops /\ t2.ok = t1.ok
      /\ t2.withdrawals = t1.withdrawals /\ t2.fees = t1.fees + FeePart(m)
      /\ \A a \in Addrs : t2.deposits[a] = t1.deposits[a] + Received(t, m, a)
  <2> DEFINE e == Event("TokensDeposited", b1, n)
             d == [t1.deposits EXCEPT ![b1] = @ + n]
             g == t1.fees + n
             c == Tracked(t, b1) /\ ~Proxy(t, b1)
  <2>1. e.account = b1 /\ e.amount = n
    BY <1>1, EventType
  <2> HIDE DEF e
  <2>2. t2 = IF b1 = FeeAddr THEN [t1 EXCEPT !.fees = g]
             ELSE IF c THEN [t1 EXCEPT !.deposits = d] ELSE t1
    BY <1>3, <1>7, <1>8, <2>1 DEF TokensDeposited, Tracked, Proxy, Tallies, e
  <2>3. t1.deposits \in [Addrs -> Nat] /\ t1.fees \in Nat
    BY <1>3, TallyFields
  <2>4. \A a \in Addrs : d[a] = t1.deposits[a] + (IF a = b1 THEN n ELSE 0)
    BY <1>1, <2>3
  <2>5. ASSUME NEW a \in Addrs
        PROVE  (IF b1 # FeeAddr /\ c THEN d ELSE t1.deposits)[a] =
                 t1.deposits[a] + Received(t, m, a)
    <3>1. b1 # FeeAddr /\ c => Received(t, m, a) = IF a = b1 THEN n ELSE 0
      BY DEF Received
    <3>2. ~(b1 # FeeAddr /\ c) => Received(t, m, a) = 0
      BY DEF Received
    <3> HIDE DEF c, d
    <3> QED BY <1>1, <2>3, <2>4, <3>1, <3>2
  <2> HIDE DEF d, c
  <2>6. t2.deposits = IF b1 # FeeAddr /\ c THEN d ELSE t1.deposits
    BY <1>3, <2>2 DEF Tallies
  <2>7. t2.fees = t1.fees + FeePart(m)
    <3>1. t2.fees = IF b1 = FeeAddr THEN g ELSE t1.fees
      <4> HIDE DEF g
      <4> QED BY <1>3, <2>2 DEF Tallies
    <3> QED BY <1>1, <2>3, <3>1 DEF FeePart
  <2> HIDE DEF g
  <2> QED BY <1>3, <2>2, <2>5, <2>6, <2>7 DEF Tallies
<1>10. Second(t, t2, m)
  BY <1>3, <1>8, <1>9 DEF Second
<1> QED BY <1>5, <1>10

\* The first loop counts its proxy deposit and its proxy transfer.
LEMMA FirstMove ==
  ASSUME NEW payer \in Addrs, NEW t \in Tallies, NEW m \in Moves
  PROVE  First(t, evtloop(t, payer, EventsOf(m)), m)
<1> DEFINE a1 == m.from[1]
           b1 == m.to[1]
           n  == m.amount
           t1 == evtloop(t, payer, Announced(m))
           t2 == evtloop(t1, payer, Reported(m))
<1>1. /\ a1 \in Addrs /\ b1 \in Addrs /\ n \in Nat
      /\ m.to = <<b1, m.to[2]>>
  BY MoveFields
<1>2. /\ Announced(m) \in Seq(Events) /\ Reported(m) \in Seq(Events)
      /\ Withdrawn(m) \in Seq(Events) /\ Deposited(m) \in Seq(Events)
      /\ Withdrawn(m) \o Announced(m) \in Seq(Events)
      /\ (Withdrawn(m) \o Announced(m)) \o Deposited(m) \in Seq(Events)
      /\ EventsOf(m) = ((Withdrawn(m) \o Announced(m)) \o Deposited(m))
                         \o Reported(m)
  BY PiecesOf
<1>3. t1 \in Tallies /\ t2 \in Tallies
  <2>1. t1 \in Tallies
    BY <1>2, LoopTypes
  <2> HIDE DEF t1
  <2> QED BY <1>2, <2>1, LoopTypes
<1>4. ASSUME NEW u \in Tallies
      PROVE  /\ evtloop(u, payer, Withdrawn(m)) = u
             /\ evtloop(u, payer, Deposited(m)) = u
  <2> DEFINE e == Event("TokensWithdrawn", a1, n)
             f == Event("TokensDeposited", b1, n)
  <2>1. e \in Events /\ e.type = "TokensWithdrawn"
    BY <1>1, EventType
  <2>2. f \in Events /\ f.type = "TokensDeposited"
    BY <1>1, EventType
  <2>3. FirstLoop(u, payer, e) = u /\ FirstLoop(u, payer, f) = u
    BY <2>1, <2>2 DEF FirstLoop
  <2>4. Withdrawn(m) = <<e>> /\ Deposited(m) = <<f>>
    BY DEF Withdrawn, Deposited
  <2> HIDE DEF e, f
  <2> QED BY <2>1, <2>2, <2>3, <2>4, FirstLoopShort
<1>5. evtloop(t, payer, EventsOf(m)) = t2
  <2> DEFINE p == Withdrawn(m) \o Announced(m)
             q == p \o Deposited(m)
  <2>1. p \in Seq(Events) /\ q \in Seq(Events)
    BY <1>2
  <2>2. evtloop(t, payer, p) = t1
    BY <1>2, <1>4, FirstLoopConcat
  <2> HIDE DEF p, t1
  <2>3. evtloop(t, payer, q) = t1
    BY <1>2, <1>3, <1>4, <2>1, <2>2, FirstLoopConcat
  <2> HIDE DEF q
  <2>4. evtloop(t, payer, q \o Reported(m)) = t2
    BY <1>2, <2>1, <2>3, FirstLoopConcat
  <2>5. EventsOf(m) = q \o Reported(m)
    BY <1>2 DEF p, q
  <2> QED BY <2>4, <2>5
<1>6. /\ t1.known = t.known /\ t1.new = t.new /\ t1.addrs = t.addrs
      /\ t1.keyed = t.keyed /\ t1.deposits = t.deposits
      /\ t1.withdrawals = t.withdrawals /\ t1.fees = t.fees
      /\ t1.ops = t.ops /\ t1.ok = t.ok /\ t1.transfers = t.transfers
      /\ \A a \in Addrs :
           t1.proxyDeposits[a] = t.proxyDeposits[a] + ProxyReceived(t, m, a)
  <2> DEFINE e == Event("ProxyDeposited", b1, n)
             w == [t.proxyDeposits EXCEPT ![b1] = @ + n]
             c == m.to[2] = "proxy" /\ Proxy(t, b1)
  <2>1. e \in Events /\ e.type = "ProxyDeposited" /\ e.account = b1
        /\ e.amount = n
    BY <1>1, EventType
  <2>2. Announced(m) = IF m.to[2] = "proxy" THEN <<e>> ELSE << >>
    BY DEF Announced
  <2> HIDE DEF e
  <2>3. t1 = IF m.to[2] = "proxy" THEN FirstLoop(t, payer, e) ELSE t
    BY <2>1, <2>2, FirstLoopShort
  <2>4. FirstLoop(t, payer, e) = ProxyDeposited(t, e)
    BY <2>1 DEF FirstLoop
  <2> HIDE DEF t1
  <2>5. t1 = IF c THEN [t EXCEPT !.proxyDeposits = w] ELSE t
    BY <2>1, <2>3, <2>4 DEF ProxyDeposited, Proxy, Tallies
  <2>6. t.proxyDeposits \in [Addrs -> Nat]
    BY TallyFields
  <2>7. \A a \in Addrs : w[a] = t.proxyDeposits[a] + (IF a = b1 THEN n ELSE 0)
    BY <1>1, <2>6
  <2>8. ASSUME NEW a \in Addrs
        PROVE  (IF c THEN w ELSE t.proxyDeposits)[a] =
                 t.proxyDeposits[a] + ProxyReceived(t, m, a)
    <3>1. m.to = <<a, "proxy">> <=> b1 = a /\ m.to[2] = "proxy"
      BY <1>1
    <3>2. c => ProxyReceived(t, m, a) = IF a = b1 THEN n ELSE 0
      BY <3>1 DEF ProxyReceived
    <3>3. ~c => ProxyReceived(t, m, a) = 0
      BY <3>1 DEF ProxyReceived
    <3> HIDE DEF c, w
    <3> QED BY <1>1, <2>6, <2>7, <3>2, <3>3
  <2> HIDE DEF w, c
  <2>9. t1.proxyDeposits = IF c THEN w ELSE t.proxyDeposits
    BY <2>5 DEF Tallies
  <2> QED BY <2>5, <2>8, <2>9 DEF Tallies
<1>7. /\ t2.known = t1.known /\ t2.new = t1.new /\ t2.addrs = t1.addrs
      /\ t2.keyed = t1.keyed /\ t2.proxyDeposits = t1.proxyDeposits
      /\ t2.deposits = t1.deposits /\ t2.ops = t1.ops /\ t2.ok = t1.ok
      /\ t2.withdrawals = t1.withdrawals /\ t2.fees = t1.fees
      /\ t2.transfers = t1.transfers \o Sent(t, m)
  <2> HIDE DEF t1
  <2> DEFINE e == [Event("ProxyTransferred", a1, n) EXCEPT !.receiver = b1]
             x == [sender |-> a1, amount |-> n,
                   receiver |-> IF Tracked(t, b1) THEN b1 ELSE NoAccount]
             c == m.from[2] = "proxy" /\ Proxy(t, a1)
             q == Append(t1.transfers, x)
  <2>1. e \in Events /\ e.type = "ProxyTransferred" /\ e.account = a1
        /\ e.amount = n /\ e.receiver = b1
    BY <1>1 DEF Event, Events
  <2>2. Reported(m) = IF m.from[2] = "proxy" THEN <<e>> ELSE << >>
    BY DEF Reported
  <2> HIDE DEF e
  <2>3. t2 = IF m.from[2] = "proxy" THEN FirstLoop(t1, payer, e) ELSE t1
    BY <1>3, <2>1, <2>2, FirstLoopShort
  <2>4. FirstLoop(t1, payer, e) = ProxyTransferred(t1, e)
    BY <2>1 DEF FirstLoop
  <2> HIDE DEF t2
  <2>5. t2 = IF c THEN [t1 EXCEPT !.transfers = q] ELSE t1
    BY <1>3, <1>6, <2>1, <2>3, <2>4
       DEF ProxyTransferred, Proxy, Tracked, Tallies
  <2>6. Sent(t, m) = IF c THEN <<x>> ELSE << >>
    BY DEF Sent
  <2>7. t1.transfers \in Seq(Transfers)
    BY <1>3, TallyFields
  <2>8. t1.transfers \o << >> = t1.transfers /\ t1.transfers \o <<x>> = q
    BY <2>7
  <2> HIDE DEF q, c, x
  <2>9. t2.transfers = t1.transfers \o Sent(t, m)
    BY <1>3, <2>5, <2>6, <2>8 DEF Tallies
  <2> QED BY <1>3, <2>5, <2>9 DEF Tallies
<1> HIDE DEF t1, t2
<1>8. First(t, t2, m)
  BY <1>3, <1>6, <1>7 DEF First
<1> QED BY <1>5, <1>8

\* A piece of the events of a transaction stands for a move.
Shows1(E, payer, m) ==
  /\ E \in Seq(Events)
  /\ \A t \in Tallies : First(t, evtloop(t, payer, E), m)

Shows2(E, m) ==
  /\ E \in Seq(Events)
  /\ \A t \in Tallies : Second(t, evtloop2(t, E), m)

\* The payer pays itself nothing: what stands for a piece that is not there.
Null(payer) == Move(Default(payer), Default(payer), 0)

\* The parts of the move that stands for no move.
LEMMA NullType ==
  ASSUME NEW payer \in Addrs
  PROVE  /\ Null(payer) \in Moves /\ Null(payer).amount = 0
         /\ Null(payer).from = Default(payer)
         /\ Null(payer).to = Default(payer)
BY DEF Move, Moves, Vaults, Null, Default

\* The events of a move stand for it.
LEMMA ShowsMove ==
  ASSUME NEW payer \in Addrs, NEW m \in Moves
  PROVE  Shows1(EventsOf(m), payer, m) /\ Shows2(EventsOf(m), m)
<1>1. EventsOf(m) \in Seq(Events)
  BY PiecesOf
<1>2. \A t \in Tallies : First(t, evtloop(t, payer, EventsOf(m)), m)
  BY FirstMove
<1>3. \A t \in Tallies : Second(t, evtloop2(t, EventsOf(m)), m)
  BY SecondMove
<1> QED BY <1>1, <1>2, <1>3 DEF Shows1, Shows2

\* No events stand for no move.
LEMMA ShowsNull ==
  ASSUME NEW payer \in Addrs
  PROVE  /\ Shows1(<< >>, payer, Null(payer))
         /\ Shows2(<< >>, Null(payer))
<1> DEFINE m == Null(payer)
<1>1. m \in Moves /\ m.amount = 0 /\ m.from[2] = "default"
  BY NullType DEF Default
<1> HIDE DEF m
<1>2. << >> \in Seq(Events)
  OBVIOUS
<1>3. ASSUME NEW t \in Tallies
      PROVE  First(t, t, m) /\ Second(t, t, m)
  <2>1. /\ t.deposits \in [Addrs -> Nat] /\ t.proxyDeposits \in [Addrs -> Nat]
        /\ t.withdrawals \in [Addrs -> Nat] /\ t.fees \in Nat
        /\ t.transfers \in Seq(Transfers)
    BY TallyFields
  <2>2. \A a \in Addrs : /\ ProxyReceived(t, m, a) = 0
                         /\ Spent(t, m, a) = 0 /\ Received(t, m, a) = 0
    BY <1>1 DEF ProxyReceived, Spent, Received
  <2>3. FeePart(m) = 0
    BY <1>1 DEF FeePart
  <2>4. Sent(t, m) = << >>
    BY <1>1 DEF Sent
  <2>5. t.transfers = t.transfers \o Sent(t, m)
    BY <2>1, <2>4
  <2>6. \A a \in Addrs :
          /\ t.proxyDeposits[a] = t.proxyDeposits[a] + ProxyReceived(t, m, a)
          /\ t.withdrawals[a] = t.withdrawals[a] + Spent(t, m, a)
          /\ t.deposits[a] = t.deposits[a] + Received(t, m, a)
    BY <2>1, <2>2
  <2>7. t.fees = t.fees + FeePart(m)
    BY <2>1, <2>3
  <2> QED BY <2>5, <2>6, <2>7 DEF First, Second
<1>4. \A t \in Tallies : /\ evtloop(t, payer, << >>) = t
                         /\ evtloop2(t, << >>) = t
  BY FirstLoopShort, SecondLoopShort
<1> QED BY <1>2, <1>3, <1>4 DEF Shows1, Shows2, m

\* The proxy transfer of a move, if any.
LEMMA SentType ==
  ASSUME NEW t, NEW m \in Moves
  PROVE  Sent(t, m) \in Seq(Transfers)
<1> DEFINE x == [sender |-> m.from[1], amount |-> m.amount,
                 receiver |-> IF Tracked(t, m.to[1]) THEN m.to[1]
                                                     ELSE NoAccount]
<1>1. x \in Transfers
  BY MoveFields DEF Transfers, Accounts
<1>2. Sent(t, m) = << >> \/ Sent(t, m) = <<x>>
  BY DEF Sent
<1> HIDE DEF x
<1>3. << >> \in Seq(Transfers)
  OBVIOUS
<1>4. <<x>> \in Seq(Transfers)
  BY <1>1
<1> QED BY <1>2, <1>3, <1>4

\* The first loop over the pieces of a transaction.
LEMMA CountFirst ==
  ASSUME NEW payer \in Addrs, NEW E1, NEW E2, NEW E3, NEW m1, NEW m2, NEW m3,
         Shows1(E1, payer, m1), Shows1(E2, payer, m2), Shows1(E3, payer, m3),
         m1 \in Moves, m2 \in Moves, m3 \in Moves,
         m2.from[2] = "default", m3.from[2] = "default",
         NEW t \in Tallies, t.transfers = << >>, t.proxyDeposits = Nothing
  PROVE  LET u == evtloop(t, payer, (E1 \o E2) \o E3)
         IN  /\ u \in Tallies
             /\ u.known = t.known /\ u.new = t.new /\ u.addrs = t.addrs
             /\ u.keyed = t.keyed /\ u.deposits = t.deposits
             /\ u.withdrawals = t.withdrawals /\ u.fees = t.fees
             /\ u.ops = t.ops /\ u.ok = t.ok
             /\ \A a \in Addrs : u.proxyDeposits[a] =
                  (ProxyReceived(t, m1, a) + ProxyReceived(t, m2, a))
                    + ProxyReceived(t, m3, a)
             /\ u.transfers = Sent(t, m1)
<1> DEFINE t1 == evtloop(t, payer, E1)
           t2 == evtloop(t1, payer, E2)
           t3 == evtloop(t2, payer, E3)
<1>1. E1 \in Seq(Events) /\ E2 \in Seq(Events) /\ E3 \in Seq(Events)
  BY DEF Shows1
<1>2. First(t, t1, m1) /\ t1 \in Tallies
  BY DEF Shows1, First
<1> HIDE DEF t1
<1>3. First(t1, t2, m2) /\ t2 \in Tallies
  BY <1>2 DEF Shows1, First
<1> HIDE DEF t2
<1>4. First(t2, t3, m3) /\ t3 \in Tallies
  BY <1>3 DEF Shows1, First
<1> HIDE DEF t3
<1>5. evtloop(t, payer, (E1 \o E2) \o E3) = t3
  <2>1. evtloop(t, payer, E1 \o E2) = t2
    BY <1>1, FirstLoopConcat DEF t1, t2
  <2>2. E1 \o E2 \in Seq(Events)
    BY <1>1
  <2> QED BY <1>1, <2>1, <2>2, FirstLoopConcat DEF t3
<1>6. /\ t1.known = t.known /\ t1.new = t.new
      /\ t2.known = t.known /\ t2.new = t.new
      /\ t3.known = t.known /\ t3.new = t.new
  BY <1>2, <1>3, <1>4 DEF First
<1>7. \A a \in Addrs : /\ ProxyReceived(t1, m2, a) = ProxyReceived(t, m2, a)
                       /\ ProxyReceived(t2, m3, a) = ProxyReceived(t, m3, a)
  BY <1>6 DEF ProxyReceived, Proxy
<1>8. \A a \in Addrs : t1.proxyDeposits[a] = 0 + ProxyReceived(t, m1, a)
  BY <1>2 DEF First, Nothing
<1>9. \A a \in Addrs :
        t2.proxyDeposits[a] = t1.proxyDeposits[a] + ProxyReceived(t, m2, a)
  BY <1>3, <1>7 DEF First
<1>10. \A a \in Addrs :
        t3.proxyDeposits[a] = t2.proxyDeposits[a] + ProxyReceived(t, m3, a)
  BY <1>4, <1>7 DEF First
<1>11. \A a \in Addrs : ProxyReceived(t, m1, a) \in Nat
  BY MoveFields DEF ProxyReceived
<1>12. \A a \in Addrs : t3.proxyDeposits[a] =
         (ProxyReceived(t, m1, a) + ProxyReceived(t, m2, a))
           + ProxyReceived(t, m3, a)
  BY <1>8, <1>9, <1>10, <1>11
<1>13. t3.transfers = Sent(t, m1)
  <2>1. Sent(t1, m2) = << >> /\ Sent(t2, m3) = << >>
    BY DEF Sent
  <2>2. /\ t1.transfers = << >> \o Sent(t, m1)
        /\ t2.transfers = t1.transfers \o << >>
        /\ t3.transfers = t2.transfers \o << >>
    BY <1>2, <1>3, <1>4, <2>1 DEF First
  <2>3. Sent(t, m1) \in Seq(Transfers)
    BY SentType
  <2> QED BY <2>2, <2>3
<1>14. /\ t3.addrs = t.addrs
       /\ t3.keyed = t.keyed /\ t3.deposits = t.deposits
       /\ t3.withdrawals = t.withdrawals /\ t3.fees = t.fees
       /\ t3.ops = t.ops /\ t3.ok = t.ok
  BY <1>2, <1>3, <1>4 DEF First
<1> QED BY <1>4, <1>5, <1>6, <1>12, <1>13, <1>14

\* The second one.
Total(t, u, m1, m2, m3) ==
  /\ u \in Tallies
  /\ u.known = t.known /\ u.new = t.new /\ u.addrs = t.addrs
  /\ u.keyed = t.keyed /\ u.proxyDeposits = t.proxyDeposits
  /\ u.transfers = t.transfers /\ u.ops = t.ops /\ u.ok = t.ok
  /\ \A a \in Addrs :
       /\ u.withdrawals[a] = (Spent(t, m1, a) + Spent(t, m2, a))
                               + Spent(t, m3, a)
       /\ u.deposits[a] = (Received(t, m1, a) + Received(t, m2, a))
                            + Received(t, m3, a)
  /\ u.fees = (FeePart(m1) + FeePart(m2)) + FeePart(m3)

\* The second loop over the pieces of a transaction.
LEMMA CountSecond ==
  ASSUME NEW E1, NEW E2, NEW E3, NEW m1, NEW m2, NEW m3,
         Shows2(E1, m1), Shows2(E2, m2), Shows2(E3, m3),
         m1 \in Moves, m2 \in Moves, m3 \in Moves,
         NEW t \in Tallies,
         t.deposits = Nothing, t.withdrawals = Nothing, t.fees = 0
  PROVE  Total(t, evtloop2(t, (E1 \o E2) \o E3), m1, m2, m3)
<1> DEFINE t1 == evtloop2(t, E1)
           t2 == evtloop2(t1, E2)
           t3 == evtloop2(t2, E3)
<1>1. E1 \in Seq(Events) /\ E2 \in Seq(Events) /\ E3 \in Seq(Events)
  BY DEF Shows2
<1>2. Second(t, t1, m1) /\ t1 \in Tallies
  BY DEF Shows2, Second
<1> HIDE DEF t1
<1>3. Second(t1, t2, m2) /\ t2 \in Tallies
  BY <1>2 DEF Shows2, Second
<1> HIDE DEF t2
<1>4. Second(t2, t3, m3) /\ t3 \in Tallies
  BY <1>3 DEF Shows2, Second
<1> HIDE DEF t3
<1>5. evtloop2(t, (E1 \o E2) \o E3) = t3
  <2>1. evtloop2(t, E1 \o E2) = t2
    BY <1>1, SecondLoopConcat DEF t1, t2
  <2>2. E1 \o E2 \in Seq(Events)
    BY <1>1
  <2> QED BY <1>1, <2>1, <2>2, SecondLoopConcat DEF t3
<1>6. /\ t1.known = t.known /\ t1.new = t.new
      /\ t2.known = t.known /\ t2.new = t.new
      /\ t3.known = t.known /\ t3.new = t.new
  BY <1>2, <1>3, <1>4 DEF Second
<1>7. \A a \in Addrs : /\ Spent(t1, m2, a) = Spent(t, m2, a)
                       /\ Spent(t2, m3, a) = Spent(t, m3, a)
                       /\ Received(t1, m2, a) = Received(t, m2, a)
                       /\ Received(t2, m3, a) = Received(t, m3, a)
  BY <1>6 DEF Spent, Received, Tracked, Proxy
<1>8. \A a \in Addrs : /\ t1.withdrawals[a] = 0 + Spent(t, m1, a)
                       /\ t1.deposits[a] = 0 + Received(t, m1, a)
  BY <1>2 DEF Second, Nothing
<1>9. \A a \in Addrs :
        /\ t2.withdrawals[a] = t1.withdrawals[a] + Spent(t, m2, a)
        /\ t2.deposits[a] = t1.deposits[a] + Received(t, m2, a)
  BY <1>3, <1>7 DEF Second
<1>10. \A a \in Addrs :
        /\ t3.withdrawals[a] = t2.withdrawals[a] + Spent(t, m3, a)
        /\ t3.deposits[a] = t2.deposits[a] + Received(t, m3, a)
  BY <1>4, <1>7 DEF Second
<1>11. \A a \in Addrs : Spent(t, m1, a) \in Nat /\ Received(t, m1, a) \in Nat
  BY MoveFields DEF Spent, Received
<1>12. \A a \in Addrs :
         /\ t3.withdrawals[a] = (Spent(t, m1, a) + Spent(t, m2, a))
                                  + Spent(t, m3, a)
         /\ t3.deposits[a] = (Received(t, m1, a) + Received(t, m2, a))
                               + Received(t, m3, a)
  BY <1>8, <1>9, <1>10, <1>11
<1>13. t3.fees = (FeePart(m1) + FeePart(m2)) + FeePart(m3)
  <2>1. /\ t1.fees = 0 + FeePart(m1)
        /\ t2.fees = t1.fees + FeePart(m2)
        /\ t3.fees = t2.fees + FeePart(m3)
    BY <1>2, <1>3, <1>4 DEF Second
  <2>2. FeePart(m1) \in Nat
    BY MoveFields DEF FeePart
  <2> QED BY <2>1, <2>2
<1>14. /\ t3.addrs = t.addrs /\ t3.keyed = t.keyed
       /\ t3.proxyDeposits = t.proxyDeposits
       /\ t3.transfers = t.transfers /\ t3.ops = t.ops /\ t3.ok = t.ok
  BY <1>2, <1>3, <1>4 DEF Second
<1> QED BY <1>4, <1>5, <1>6, <1>12, <1>13, <1>14 DEF Total

\* The events of a move between default vaults mean nothing to the first loop.
LEMMA FirstPlain ==
  ASSUME NEW payer \in Addrs, NEW t \in Tallies, NEW m \in Moves,
         m.from[2] = "default", m.to[2] = "default"
  PROVE  evtloop(t, payer, EventsOf(m)) = t
<1> DEFINE u == evtloop(t, payer, EventsOf(m))
<1>1. First(t, u, m)
  BY FirstMove
<1> HIDE DEF u
<1>2. u \in Tallies
  BY <1>1 DEF First
<1>3. /\ u.known = t.known /\ u.new = t.new /\ u.addrs = t.addrs
      /\ u.keyed = t.keyed /\ u.deposits = t.deposits
      /\ u.withdrawals = t.withdrawals /\ u.fees = t.fees /\ u.ops = t.ops
      /\ u.ok = t.ok
  BY <1>1 DEF First
<1>4. \A a \in Addrs : ProxyReceived(t, m, a) = 0
  <2>1. m.to = <<m.to[1], "default">>
    BY MoveFields
  <2> QED BY <2>1 DEF ProxyReceived
<1>5. /\ t.proxyDeposits \in [Addrs -> Nat]
      /\ u.proxyDeposits \in [Addrs -> Nat]
      /\ t.transfers \in Seq(Transfers)
  BY <1>2, TallyFields
<1>6. \A a \in Addrs : u.proxyDeposits[a] = t.proxyDeposits[a]
  BY <1>1, <1>4, <1>5 DEF First
<1>7. u.proxyDeposits = t.proxyDeposits
  BY <1>5, <1>6
<1>8. u.transfers = t.transfers
  <2>1. Sent(t, m) = << >>
    BY DEF Sent
  <2> QED BY <1>1, <1>5, <2>1 DEF First
<1>9. u = t
  <2> DEFINE Rec(v) == [known |-> v.known, addrs |-> v.addrs,
                        keyed |-> v.keyed, new |-> v.new,
                        deposits |-> v.deposits,
                        proxyDeposits |-> v.proxyDeposits,
                        withdrawals |-> v.withdrawals, fees |-> v.fees,
                        transfers |-> v.transfers, ops |-> v.ops,
                        ok |-> v.ok]
  <2>1. \A v \in Tallies : v = Rec(v)
    BY DEF Tallies
  <2>2. Rec(u) = Rec(t)
    BY <1>3, <1>7, <1>8
  <2> HIDE DEF Rec
  <2> QED BY <1>2, <2>1, <2>2
<1> QED BY <1>9 DEF u

\* The events of a creation mean nothing to the second loop.
LEMMA ShowsQuiet ==
  ASSUME NEW E, NEW m, Shows2(E, m), NEW e \in Events,
         e.type \in {"AccountCreated", "ProxyCreated"}
  PROVE  Shows2(E \o <<e>>, m)
<1>1. E \in Seq(Events) /\ <<e>> \in Seq(Events)
  BY DEF Shows2
<1>2. E \o <<e>> \in Seq(Events)
  BY <1>1
<1>3. ASSUME NEW t \in Tallies
      PROVE  evtloop2(t, E \o <<e>>) = evtloop2(t, E)
  <2> DEFINE u == evtloop2(t, E)
  <2>1. u \in Tallies
    BY <1>1, LoopTypes
  <2>2. evtloop2(t, E \o <<e>>) = evtloop2(u, <<e>>)
    BY <1>1, SecondLoopConcat
  <2> HIDE DEF u
  <2>3. evtloop2(u, <<e>>) = SecondLoop(u, e)
    BY <2>1, SecondLoopShort
  <2>4. SecondLoop(u, e) = u
    BY DEF SecondLoop
  <2> QED BY <2>2, <2>3, <2>4 DEF u
<1> QED BY <1>2, <1>3 DEF Shows2

Funding(payer, new) == Move(Default(payer), Default(new), Reserve)

\* The parts of the move that funds a new account.
LEMMA FundingType ==
  ASSUME NEW payer \in Addrs, NEW new \in Addrs
  PROVE  /\ Funding(payer, new) \in Moves
         /\ Funding(payer, new).from = <<payer, "default">>
         /\ Funding(payer, new).to = <<new, "default">>
         /\ Funding(payer, new).amount = Reserve
BY BlockOpsAssumption DEF Funding, Move, Moves, Vaults, Default

\* Both loops over the events of a creation: the first one only sees
\* flow.AccountCreated, the second one only the move.
LEMMA CreationLoops ==
  ASSUME NEW payer \in Addrs, NEW new \in Addrs
  PROVE  /\ Creation(payer, new) \in Seq(Events)
         /\ Shows2(Creation(payer, new), Funding(payer, new))
         /\ \A t \in Tallies : evtloop(t, payer, Creation(payer, new)) =
              AccountCreated(t, payer, Event("AccountCreated", new, 0))
<1> DEFINE m == Funding(payer, new)
           e == Event("AccountCreated", new, 0)
           E == EventsOf(m)
<1>1. m \in Moves /\ m.from[2] = "default" /\ m.to[2] = "default"
  BY FundingType
<1>2. e \in Events /\ e.type = "AccountCreated"
  BY EventType
<1>3. Creation(payer, new) = E \o <<e>>
  BY DEF Creation, Funding
<1> HIDE DEF m, e
<1>4. E \in Seq(Events)
  BY <1>1, PiecesOf
<1>5. Shows2(E, m)
  BY <1>1, ShowsMove
<1>6. Shows2(E \o <<e>>, m)
  BY <1>2, <1>5, ShowsQuiet
<1>7. <<e>> \in Seq(Events)
  BY <1>2
<1>8. ASSUME NEW t \in Tallies
      PROVE  evtloop(t, payer, E \o <<e>>) = AccountCreated(t, payer, e)
  <2>1. evtloop(t, payer, E) = t
    BY <1>1, FirstPlain
  <2> DEFINE q == <<e>>
  <2> HIDE DEF E
  <2>5. q \in Seq(Events)
    BY <1>7
  <2> HIDE DEF q
  <2>2. evtloop(t, payer, E \o q) = evtloop(t, payer, q)
    BY <1>4, <2>1, <2>5, FirstLoopConcat
  <2>3. evtloop(t, payer, <<e>>) = FirstLoop(t, payer, e)
    BY <1>2, FirstLoopShort
  <2>4. FirstLoop(t, payer, e) = AccountCreated(t, payer, e)
    BY <1>2 DEF FirstLoop
  <2> QED BY <2>2, <2>3, <2>4 DEF q
<1>9. E \o <<e>> \in Seq(Events)
  BY <1>4, <1>7
<1> HIDE DEF E
<1> QED BY <1>3, <1>6, <1>8, <1>9 DEF m, e

\* Nothing but the accounts of a tally has changed.
SameFlows(t, u) ==
  /\ u \in Tallies
  /\ u.known = t.known /\ u.deposits = t.deposits
  /\ u.proxyDeposits = t.proxyDeposits /\ u.withdrawals = t.withdrawals
  /\ u.fees = t.fees /\ u.transfers = t.transfers
  /\ u.ops = t.ops /\ u.ok = t.ok

\* Accounts N are new, those in Q have a proxy vault.
Made(t, u, N, Q) ==
  /\ DOMAIN u.new = DOMAIN t.new \cup N
  /\ \A a \in DOMAIN t.new : a \notin N => u.new[a] = t.new[a]
  /\ \A a \in N : u.new[a] <=> a \in Q
  /\ Range(u.addrs) = Range(t.addrs) \cup N
  /\ u.keyed = t.keyed \cup Q

Followed(t, payer, new) ==
  IF new \in Originators \/ Tracked(t, payer) THEN {new} ELSE {}

\* The elements of a sequence with one more.
LEMMA RangeAppend ==
  ASSUME NEW S, NEW s \in Seq(S), NEW x \in S
  PROVE  Range(Append(s, x)) = Range(s) \cup {x}
<1> DEFINE n == Len(s)
           r == Append(s, x)
<1>1. n \in Nat /\ DOMAIN s = 1..n
  OBVIOUS
<1>2. /\ DOMAIN r = 1..(n + 1) /\ r[n + 1] = x
      /\ \A i \in 1..n : r[i] = s[i]
  OBVIOUS
<1> HIDE DEF n, r
<1>3. \A i \in 1..(n + 1) : i \in 1..n \/ i = n + 1
  BY <1>1
<1>4. n + 1 \in 1..(n + 1) /\ \A i \in 1..n : i \in 1..(n + 1)
  BY <1>1
<1>5. Range(r) = Range(s) \cup {x}
  BY <1>1, <1>2, <1>3, <1>4 DEF Range
<1> QED BY <1>5 DEF r

\* flow.AccountCreated adds a new account when its payer is tracked or it is
\* an originator.
LEMMA AccountCreatedEffect ==
  ASSUME NEW t \in Tallies, NEW payer \in Addrs, NEW new \in Addrs
  PROVE  LET u == AccountCreated(t, payer, Event("AccountCreated", new, 0))
         IN  /\ SameFlows(t, u)
             /\ Made(t, u, Followed(t, payer, new), {})
             /\ payer # new => (Tracked(u, payer) <=> Tracked(t, payer))
<1> DEFINE e == Event("AccountCreated", new, 0)
           u == AccountCreated(t, payer, e)
           s == Append(t.addrs, new)
           f == Put(t.new, new, FALSE)
           c == new \in Originators \/ Tracked(t, payer)
<1>1. e.account = new
  BY DEF Event
<1>2. u = IF c THEN [t EXCEPT !.addrs = s, !.new = f] ELSE t
  BY <1>1 DEF AccountCreated, Tracked, Tallies
<1>3. t.addrs \in Seq(Addrs) /\ t.new \in MapsTo(BOOLEAN)
  BY TallyFields
<1>4. s \in Seq(Addrs) /\ Range(s) = Range(t.addrs) \cup {new}
  BY <1>3, RangeAppend
<1>5. /\ f \in MapsTo(BOOLEAN) /\ DOMAIN f = DOMAIN t.new \cup {new}
      /\ f[new] = FALSE /\ \A x \in DOMAIN t.new : x # new => f[x] = t.new[x]
  <2>1. f \in MapsTo(BOOLEAN)
    BY <1>3, PutType
  <2> QED BY <2>1 DEF Put
<1>6. Followed(t, payer, new) = IF c THEN {new} ELSE {}
  BY DEF Followed
<1> HIDE DEF s, f, c, u
<1>7. CASE c
  <2>1. u = [t EXCEPT !.addrs = s, !.new = f]
    BY <1>2, <1>7
  <2>2. u \in Tallies
    BY <1>4, <1>5, <2>1, TallyUpdate
  <2>3. /\ SameFlows(t, u) /\ u.addrs = s /\ u.new = f /\ u.keyed = t.keyed
    BY <2>1, <2>2 DEF SameFlows, Tallies
  <2>4. Made(t, u, {new}, {})
    BY <1>4, <1>5, <2>3 DEF Made
  <2>5. payer # new => (Tracked(u, payer) <=> Tracked(t, payer))
    BY <1>5, <2>3 DEF Tracked, isTracked, SameFlows
  <2> QED BY <1>6, <1>7, <2>3, <2>4, <2>5 DEF u
<1>8. CASE ~c
  <2>1. u = t
    BY <1>2, <1>8
  <2>2. Made(t, t, {}, {})
    BY DEF Made
  <2>3. SameFlows(t, t)
    BY DEF SameFlows
  <2> QED BY <1>6, <1>8, <2>1, <2>2, <2>3 DEF u
<1> QED BY <1>7, <1>8

\* flow.AccountCreated and Created of the proxy contract add a proxy account
\* when the payer is tracked.
LEMMA ProxyCreatedEffect ==
  ASSUME NEW t \in Tallies, NEW payer \in Addrs, NEW new \in Addrs,
         t.addrs = << >>, t.keyed = {}, new \notin Originators, payer # new
  PROVE  LET v == AccountCreated(t, payer, Event("AccountCreated", new, 0))
             u == ProxyCreated(v, payer, Event("ProxyCreated", new, 0))
             N == Followed(t, payer, new)
         IN  SameFlows(t, u) /\ Made(t, u, N, N)
<1> DEFINE v == AccountCreated(t, payer, Event("AccountCreated", new, 0))
           e == Event("ProxyCreated", new, 0)
           u == ProxyCreated(v, payer, e)
           N == Followed(t, payer, new)
           k == v.keyed \cup {new}
           f == Put(v.new, new, TRUE)
<1>1. /\ SameFlows(t, v) /\ Made(t, v, N, {})
      /\ Tracked(v, payer) <=> Tracked(t, payer)
  BY AccountCreatedEffect
<1>2. v \in Tallies /\ e.account = new
  BY <1>1 DEF SameFlows, Event
<1> HIDE DEF v, e
<1>3. CASE Tracked(t, payer)
  <2>1. N = {new}
    BY <1>3 DEF Followed
  <2> HIDE DEF N
  <2>2. Range(v.addrs) = {new} /\ new \in DOMAIN v.new
    <3>1. Range(t.addrs) = {}
      BY DEF Range
    <3> QED BY <1>1, <2>1, <3>1 DEF Made
  <2>3. u = [v EXCEPT !.keyed = k, !.new = f]
    BY <1>1, <1>2, <1>3, <2>2 DEF ProxyCreated, Tracked, Tallies
  <2>4. v.new \in MapsTo(BOOLEAN) /\ v.keyed \in SUBSET Addrs
    BY <1>2, TallyFields
  <2>5. /\ f \in MapsTo(BOOLEAN) /\ DOMAIN f = DOMAIN v.new \cup {new}
        /\ f[new] = TRUE
        /\ \A x \in DOMAIN v.new : x # new => f[x] = v.new[x]
    <3>1. f \in MapsTo(BOOLEAN)
      BY <2>4, PutType
    <3> QED BY <3>1 DEF Put
  <2>6. k \in SUBSET Addrs
    BY <2>4
  <2> HIDE DEF k, f, u
  <2>7. u \in Tallies
    BY <1>2, <2>3, <2>5, <2>6, TallyUpdate
  <2>8. /\ SameFlows(v, u) /\ u.addrs = v.addrs /\ u.new = f /\ u.keyed = k
    BY <1>2, <2>3, <2>7 DEF SameFlows, Tallies
  <2>9. SameFlows(t, u)
    BY <1>1, <2>8 DEF SameFlows
  <2>10. Made(t, u, {new}, {new})
    <3>1. DOMAIN u.new = DOMAIN t.new \cup {new}
      BY <1>1, <2>1, <2>5, <2>8 DEF Made
    <3>2. \A a \in DOMAIN t.new : a \notin {new} => u.new[a] = t.new[a]
      BY <1>1, <2>1, <2>5, <2>8 DEF Made
    <3>3. Range(u.addrs) = Range(t.addrs) \cup {new}
      BY <1>1, <2>1, <2>8 DEF Made
    <3>4. u.keyed = t.keyed \cup {new}
      BY <1>1, <2>8 DEF Made, k
    <3> QED BY <2>5, <2>8, <3>1, <3>2, <3>3, <3>4 DEF Made
  <2> QED BY <2>1, <2>9, <2>10 DEF u, v, e, N
<1>4. CASE ~Tracked(t, payer)
  <2>1. N = {}
    BY <1>4 DEF Followed
  <2>2. u = v
    BY <1>1, <1>4 DEF ProxyCreated, Tracked
  <2> HIDE DEF N, u
  <2> QED BY <1>1, <2>1, <2>2 DEF u, v, e, N
<1> QED BY <1>3, <1>4

-----------------------------------------------------------------------------
(***************************************************************************)
(* The moves of a transaction on the chain.                                *)
(***************************************************************************)
\* No moves change nothing.
LEMMA NoMoves ==
  ASSUME NEW base \in Holdings
  PROVE  FoldLeft(ApplyMove, base, << >>) = base
<1> DEFINE E == << >>
<1>1. E \in Seq(Moves) /\ Len(E) = 0
  OBVIOUS
<1> HIDE DEF E
<1>2. PICK c \in [0..Len(E) -> Holdings] :
        /\ c[0] = base
        /\ \A i \in 1..Len(E) : c[i] = ApplyMove(c[i - 1], E[i])
        /\ FoldLeft(ApplyMove, base, E) = c[Len(E)]
  BY <1>1, ApplyMoveFold
<1> QED BY <1>1, <1>2 DEF E

\* One more move.
LEMMA MoveAppend ==
  ASSUME NEW base \in Holdings, NEW s \in Seq(Moves), NEW x \in Moves
  PROVE  /\ FoldLeft(ApplyMove, base, s) \in Holdings
         /\ FoldLeft(ApplyMove, base, Append(s, x)) =
              ApplyMove(FoldLeft(ApplyMove, base, s), x)
<1> DEFINE n == Len(s)
           u == Append(s, x)
<1>1. /\ n \in Nat /\ u \in Seq(Moves) /\ Len(u) = n + 1 /\ u[n + 1] = x
      /\ \A i \in 1..n : u[i] = s[i]
      /\ \A i \in 1..n : i \in 1..(n + 1)
      /\ n + 1 \in 1..(n + 1) /\ (n + 1) - 1 = n /\ n \in 0..n
  BY AppendProperties
<1>2. PICK c \in [0..n -> Holdings] :
        /\ c[0] = base
        /\ \A i \in 1..n : c[i] = ApplyMove(c[i - 1], s[i])
        /\ FoldLeft(ApplyMove, base, s) = c[n]
  BY ApplyMoveFold
<1>3. PICK d \in [0..Len(u) -> Holdings] :
        /\ d[0] = base
        /\ \A i \in 1..Len(u) : d[i] = ApplyMove(d[i - 1], u[i])
        /\ FoldLeft(ApplyMove, base, u) = d[Len(u)]
  BY <1>1, ApplyMoveFold
<1> HIDE DEF u, n
<1>4. Follows(c, d, n)
  BY <1>1, <1>2, <1>3 DEF Follows
<1>5. \A i \in 0..n : c[i] = d[i]
  <2>1. n \in Nat
    BY <1>1
  <2> QED BY <1>4, <2>1, Agree, Zenon
<1>6. c[n] = d[n] /\ d[n + 1] = ApplyMove(d[n], x) /\ c[n] \in Holdings
  BY <1>1, <1>3, <1>5
<1> QED BY <1>1, <1>2, <1>3, <1>6 DEF u

Moved(m, v) == (IF v = m.to THEN m.amount ELSE 0)
                 - (IF v = m.from THEN m.amount ELSE 0)

\* What a move does to a vault is a number.
LEMMA MovedType ==
  ASSUME NEW m \in Moves, NEW v
  PROVE  Moved(m, v) \in Int
BY MoveFields DEF Moved

\* A move adds what it moves.
LEMMA MovedBy ==
  ASSUME NEW h \in Holdings, NEW m \in Moves, NEW v \in Vaults
  PROVE  h[v] \in Int /\ ApplyMove(h, m)[v] = h[v] + Moved(m, v)
<1>1. h[v] \in Int
  BY DEF Holdings
<1>2. m.amount \in Nat
  BY MoveFields
<1>3. ApplyMove(h, m)[v] = (h[v] - (IF v = m.from THEN m.amount ELSE 0))
                            + (IF v = m.to THEN m.amount ELSE 0)
  BY ApplyMoveType
<1> QED BY <1>1, <1>2, <1>3 DEF Moved

\* What is held after the moves and the fee of a transaction.
Carried(h, r, m1, m2, m3) ==
  /\ r \in Holdings
  /\ \A v \in Vaults : r[v] = h[v] + ((Moved(m1, v) + Moved(m2, v))
                                        + Moved(m3, v))

\* The moves of a transaction, up to two, and its fee add up.
LEMMA MovesCarried ==
  ASSUME NEW h \in Holdings, NEW payer \in Addrs, NEW fee \in Moves
  PROVE  /\ Carried(h, FoldLeft(ApplyMove, h, Append(<< >>, fee)),
                    Null(payer), Null(payer), fee)
         /\ \A m \in Moves :
              Carried(h, FoldLeft(ApplyMove, h, Append(<<m>>, fee)),
                      m, Null(payer), fee)
         /\ \A m1, m2 \in Moves :
              Carried(h, FoldLeft(ApplyMove, h, Append(<<m1, m2>>, fee)),
                      m1, m2, fee)
<1> DEFINE E == << >>
           G(s) == FoldLeft(ApplyMove, h, s)
<1>1. Null(payer) \in Moves /\ \A v : Moved(Null(payer), v) = 0
  BY NullType DEF Moved
<1>2. E \in Seq(Moves) /\ G(E) = h
  BY NoMoves
<1>3. ASSUME NEW s \in Seq(Moves), NEW m \in Moves
      PROVE  /\ G(s) \in Holdings /\ G(Append(s, m)) \in Holdings
             /\ Append(s, m) \in Seq(Moves)
             /\ \A v \in Vaults : /\ G(s)[v] \in Int /\ Moved(m, v) \in Int
                                  /\ G(Append(s, m))[v] = G(s)[v] + Moved(m, v)
  <2>1. G(s) \in Holdings /\ G(Append(s, m)) = ApplyMove(G(s), m)
    BY MoveAppend
  <2>2. ApplyMove(G(s), m) \in Holdings
    BY <2>1, ApplyMoveType
  <2>3. \A v \in Vaults : /\ G(s)[v] \in Int
                          /\ ApplyMove(G(s), m)[v] = G(s)[v] + Moved(m, v)
    BY <2>1, MovedBy
  <2>4. \A v : Moved(m, v) \in Int
    BY MovedType
  <2>5. Append(s, m) \in Seq(Moves)
    OBVIOUS
  <2> HIDE DEF G
  <2> QED BY <2>1, <2>2, <2>3, <2>4, <2>5
<1> HIDE DEF G, E
<1>4. Carried(h, G(Append(E, fee)), Null(payer), Null(payer), fee)
  <2>1. /\ G(Append(E, fee)) \in Holdings
        /\ \A v \in Vaults :
             /\ h[v] \in Int /\ Moved(fee, v) \in Int
             /\ G(Append(E, fee))[v] = h[v] + Moved(fee, v)
    BY <1>2, <1>3
  <2> QED BY <1>1, <2>1 DEF Carried
<1>5. ASSUME NEW m \in Moves
      PROVE  Carried(h, G(Append(<<m>>, fee)), m, Null(payer), fee)
  <2> DEFINE s == Append(E, m)
  <2>1. <<m>> = s
    BY DEF E
  <2>2. s \in Seq(Moves) /\ \A v \in Vaults :
          /\ h[v] \in Int /\ Moved(m, v) \in Int
          /\ G(s)[v] = h[v] + Moved(m, v)
    BY <1>2, <1>3
  <2> HIDE DEF s
  <2>3. /\ G(Append(s, fee)) \in Holdings
        /\ \A v \in Vaults : /\ Moved(fee, v) \in Int
                             /\ G(Append(s, fee))[v] = G(s)[v] + Moved(fee, v)
    BY <1>3, <2>2
  <2>4. Carried(h, G(Append(s, fee)), m, Null(payer), fee)
    BY <1>1, <2>2, <2>3 DEF Carried
  <2> QED BY <2>1, <2>4
<1>6. ASSUME NEW m1 \in Moves, NEW m2 \in Moves
      PROVE  Carried(h, G(Append(<<m1, m2>>, fee)), m1, m2, fee)
  <2> DEFINE s == Append(E, m1)
             r == Append(s, m2)
  <2>1. <<m1, m2>> = r
    BY DEF E
  <2>2. s \in Seq(Moves) /\ \A v \in Vaults :
          /\ h[v] \in Int /\ Moved(m1, v) \in Int
          /\ G(s)[v] = h[v] + Moved(m1, v)
    BY <1>2, <1>3
  <2> HIDE DEF s
  <2>3. r \in Seq(Moves) /\ \A v \in Vaults :
          /\ Moved(m2, v) \in Int /\ G(r)[v] = G(s)[v] + Moved(m2, v)
    BY <1>3, <2>2
  <2> HIDE DEF r
  <2>4. /\ G(Append(r, fee)) \in Holdings
        /\ \A v \in Vaults : /\ Moved(fee, v) \in Int
                             /\ G(Append(r, fee))[v] = G(r)[v] + Moved(fee, v)
    BY <1>3, <2>3
  <2>5. Carried(h, G(Append(r, fee)), m1, m2, fee)
    BY <1>1, <2>2, <2>3, <2>4 DEF Carried
  <2> QED BY <2>1, <2>5
<1> QED BY <1>4, <1>5, <1>6 DEF G, E

\* FlattenSeq of one and of two sequences.
LEMMA Flatten ==
  ASSUME NEW q
  PROVE  /\ Len(q) = 0 => FlattenSeq(q) = q
         /\ Len(q) = 1 => FlattenSeq(q) = q[1]
         /\ Len(q) = 2 => FlattenSeq(q) = q[1] \o q[2]
<1> DEFINE n == Len(q)
           Body(f) == [i \in 1..n |-> IF i = 1 THEN q[i] ELSE f[i-1] \o q[i]]
           h == CHOOSE f : f = Body(f)
           w == [i \in 1..n |-> IF i = 1 THEN q[1] ELSE q[1] \o q[2]]
<1>1. n # 0 => FlattenSeq(q) = h[n]
  BY DEF FlattenSeq
<1>2. n = 0 => FlattenSeq(q) = q
  BY DEF FlattenSeq
<1> HIDE DEF n
<1>3. ASSUME n \in {1, 2}
      PROVE  w = Body(w)
  <2>1. \A i \in 1..n : i = 1 \/ i = 2
    BY <1>3
  <2>2. 1 \in 1..n
    BY <1>3
  <2>3. w[1] = q[1]
    BY <2>2
  <2>4. \A i \in 1..n : w[i] = IF i = 1 THEN q[i] ELSE w[i-1] \o q[i]
    BY <2>1, <2>3
  <2> QED BY <2>4
<1>4. ASSUME n \in {1, 2}
      PROVE  h = Body(h)
  <2>1. w = Body(w)
    BY <1>3, <1>4
  <2> HIDE DEF w
  <2> QED BY <2>1
<1> HIDE DEF h
<1>5. n = 1 => h[n] = q[1]
  BY <1>4
<1>6. n = 2 => h[n] = q[1] \o q[2]
  <2>1. ASSUME n = 2
        PROVE  h[1] = q[1]
    BY <1>4, <2>1
  <2>2. ASSUME n = 2
        PROVE  h[2] = h[1] \o q[2]
    BY <1>4, <2>2
  <2> QED BY <2>1, <2>2
<1>7. n = 1 => FlattenSeq(q) = q[1]
  BY <1>1, <1>5
<1>8. n = 2 => FlattenSeq(q) = q[1] \o q[2]
  <2>1. n = 2 => n # 0
    OBVIOUS
  <2> QED BY <1>1, <1>6, <2>1, Zenon
<1> QED BY <1>2, <1>7, <1>8 DEF n

-----------------------------------------------------------------------------
(***************************************************************************)
(* A tally after the two loops, and what the rest of the turn makes of it. *)
(***************************************************************************)

\* The vault whose content is the balance of an account.
Vault(t, a) == IF Proxy(t, a) THEN <<a, "proxy">> ELSE <<a, "default">>

\* Only a proxy account has a proxy vault.
Fits(t, m) ==
  /\ Tracked(t, m.from[1]) /\ ~Proxy(t, m.from[1]) => m.from[2] = "default"
  /\ Tracked(t, m.to[1]) /\ ~Proxy(t, m.to[1]) => m.to[2] = "default"

Counted(t, m1, m2, m3) ==
  /\ t \in Tallies
  /\ \A a \in Addrs :
       /\ t.withdrawals[a] = (Spent(t, m1, a) + Spent(t, m2, a))
                               + Spent(t, m3, a)
       /\ t.deposits[a] = (Received(t, m1, a) + Received(t, m2, a))
                            + Received(t, m3, a)
       /\ t.proxyDeposits[a] =
            (ProxyReceived(t, m1, a) + ProxyReceived(t, m2, a))
              + ProxyReceived(t, m3, a)
  /\ t.fees = (FeePart(m1) + FeePart(m2)) + FeePart(m3)
  /\ t.transfers = Sent(t, m1)

SentBy(t, m, a) ==
  IF m.from = <<a, "proxy">> /\ Proxy(t, a) THEN m.amount ELSE 0

\* A proxy account is tracked.
LEMMA ProxyTracked ==
  ASSUME NEW t, NEW a, Proxy(t, a)
  PROVE  Tracked(t, a)
BY DEF Proxy, Tracked, isProxy, isTracked

\* What is counted of a move are natural numbers.
LEMMA PartTypes ==
  ASSUME NEW t, NEW m \in Moves, NEW a
  PROVE  /\ Spent(t, m, a) \in Nat /\ Received(t, m, a) \in Nat
         /\ ProxyReceived(t, m, a) \in Nat /\ SentBy(t, m, a) \in Nat
         /\ FeePart(m) \in Nat
BY MoveFields DEF Spent, Received, ProxyReceived, SentBy, FeePart

\* What is counted for a tracked account is what the move does to the vault
\* behind its balance.
LEMMA MoveNet ==
  ASSUME NEW t, NEW m \in Moves, NEW a \in Addrs, Fits(t, m),
         Tracked(t, a), ~Tracked(t, FeeAddr)
  PROVE  /\ Received(t, m, a) + ProxyReceived(t, m, a) =
              IF Vault(t, a) = m.to THEN m.amount ELSE 0
         /\ Spent(t, m, a) + SentBy(t, m, a) =
              IF Vault(t, a) = m.from THEN m.amount ELSE 0
<1>1. /\ m.from[1] \in Addrs /\ m.to[1] \in Addrs /\ m.amount \in Nat
      /\ m.from = <<m.from[1], m.from[2]>> /\ m.to = <<m.to[1], m.to[2]>>
  BY MoveFields
<1>2. a # FeeAddr
  OBVIOUS
<1>3. CASE Proxy(t, a)
  <2>1. Vault(t, a) = <<a, "proxy">>
    BY <1>3 DEF Vault
  <2>2. Received(t, m, a) = 0 /\ Spent(t, m, a) = 0
    BY <1>3 DEF Received, Spent
  <2>3. /\ ProxyReceived(t, m, a) =
             IF Vault(t, a) = m.to THEN m.amount ELSE 0
        /\ SentBy(t, m, a) = IF Vault(t, a) = m.from THEN m.amount ELSE 0
    BY <1>3, <2>1 DEF ProxyReceived, SentBy
  <2> QED BY <1>1, <2>2, <2>3
<1>4. CASE ~Proxy(t, a)
  <2>1. Vault(t, a) = <<a, "default">>
    BY <1>4 DEF Vault
  <2>2. ProxyReceived(t, m, a) = 0 /\ SentBy(t, m, a) = 0
    BY <1>4 DEF ProxyReceived, SentBy
  <2>3. m.to[1] = a <=> Vault(t, a) = m.to
    BY <1>1, <1>4, <2>1 DEF Fits
  <2>4. m.from[1] = a <=> Vault(t, a) = m.from
    BY <1>1, <1>4, <2>1 DEF Fits
  <2>5. Received(t, m, a) = IF Vault(t, a) = m.to THEN m.amount ELSE 0
    BY <1>2, <1>4, <2>3 DEF Received
  <2>6. Spent(t, m, a) = IF Vault(t, a) = m.from THEN m.amount ELSE 0
    BY <1>4, <2>4 DEF Spent
  <2> QED BY <1>1, <2>2, <2>5, <2>6
<1> QED BY <1>3, <1>4

\* What is required of the moves of a transaction and its fee.
Proper(t, payer, m1, m2, m3) ==
  /\ payer \in Addrs /\ m1 \in Moves /\ m2 \in Moves /\ m3 \in Moves
  /\ Fits(t, m1) /\ Fits(t, m2) /\ Fits(t, m3)
  /\ m2.from[2] = "default" /\ m3.from = <<payer, "default">>
  /\ m3.to = <<FeeAddr, "default">> /\ m3.amount = Fee
  /\ ~Tracked(t, FeeAddr)
  /\ Tracked(t, payer) =>
       ~Proxy(t, payer) /\ m1.to[1] # FeeAddr /\ m2.to[1] # FeeAddr
  /\ m1.from[2] = "proxy" /\ Proxy(t, m1.to[1]) => m1.to[2] = "proxy"

\* Deposits to proxy accounts are in proxyDeposits, others in deposits.
LEMMA CountedSorted ==
  ASSUME NEW t, NEW payer, NEW m1, NEW m2, NEW m3,
         Counted(t, m1, m2, m3), Proper(t, payer, m1, m2, m3)
  PROVE  Sorted(t)
<1> SUFFICES ASSUME NEW a \in Addrs
             PROVE  IF Proxy(t, a) THEN t.deposits[a] = 0
                                   ELSE t.proxyDeposits[a] = 0
  BY DEF Sorted, Proxy
<1>1. CASE Proxy(t, a)
  <2>1. /\ Received(t, m1, a) = 0 /\ Received(t, m2, a) = 0
        /\ Received(t, m3, a) = 0
    BY <1>1 DEF Received
  <2> QED BY <1>1, <2>1 DEF Counted
<1>2. CASE ~Proxy(t, a)
  <2>1. /\ ProxyReceived(t, m1, a) = 0 /\ ProxyReceived(t, m2, a) = 0
        /\ ProxyReceived(t, m3, a) = 0
    BY <1>2 DEF ProxyReceived
  <2> QED BY <1>2, <2>1 DEF Counted
<1> QED BY <1>1, <1>2

\* The balances that the operations account for change as the vaults do.
LEMMA CountedNet ==
  ASSUME NEW t, NEW payer, NEW m1, NEW m2, NEW m3,
         Counted(t, m1, m2, m3), Proper(t, payer, m1, m2, m3),
         NEW a \in Addrs, Tracked(t, a)
  PROVE  (Incoming(t)[a] - t.withdrawals[a]) - Out(t, a) =
           (Moved(m1, Vault(t, a)) + Moved(m2, Vault(t, a)))
             + Moved(m3, Vault(t, a))
<1> DEFINE v == Vault(t, a)
           r1 == Received(t, m1, a)
           r2 == Received(t, m2, a)
           r3 == Received(t, m3, a)
           p1 == ProxyReceived(t, m1, a)
           p2 == ProxyReceived(t, m2, a)
           p3 == ProxyReceived(t, m3, a)
           s1 == Spent(t, m1, a)
           s2 == Spent(t, m2, a)
           s3 == Spent(t, m3, a)
           x1 == SentBy(t, m1, a)
<1>1. /\ t \in Tallies /\ m1 \in Moves /\ m2 \in Moves /\ m3 \in Moves
      /\ Fits(t, m1) /\ Fits(t, m2) /\ Fits(t, m3) /\ ~Tracked(t, FeeAddr)
      /\ m2.from[2] = "default" /\ m3.from[2] = "default"
  BY DEF Counted, Proper
<1>2. /\ r1 \in Nat /\ r2 \in Nat /\ r3 \in Nat
      /\ p1 \in Nat /\ p2 \in Nat /\ p3 \in Nat
      /\ s1 \in Nat /\ s2 \in Nat /\ s3 \in Nat /\ x1 \in Nat
  BY <1>1, PartTypes
<1>3. Incoming(t)[a] = t.deposits[a] + t.proxyDeposits[a]
  BY <1>1, CountedSorted, SortedIncoming
<1>4. /\ t.deposits[a] = (r1 + r2) + r3
      /\ t.proxyDeposits[a] = (p1 + p2) + p3
      /\ t.withdrawals[a] = (s1 + s2) + s3
  BY DEF Counted
<1>5. Out(t, a) = x1
  <2>1. t.transfers = Sent(t, m1)
    BY DEF Counted
  <2>2. m1.from = <<m1.from[1], m1.from[2]>>
    BY <1>1, MoveFields
  <2>3. CASE m1.from[2] = "proxy" /\ Proxy(t, m1.from[1])
    <3> DEFINE x == [sender |-> m1.from[1], amount |-> m1.amount,
                     receiver |-> IF Tracked(t, m1.to[1]) THEN m1.to[1]
                                                          ELSE NoAccount]
    <3>1. t.transfers = <<x>> /\ x.sender = m1.from[1] /\ x.amount = m1.amount
      BY <2>1, <2>3 DEF Sent
    <3> HIDE DEF x
    <3>2. Out(t, a) = IF m1.from[1] = a THEN m1.amount ELSE 0
      BY <3>1 DEF Out
    <3> QED BY <2>2, <2>3, <3>2 DEF SentBy
  <2>4. CASE ~(m1.from[2] = "proxy" /\ Proxy(t, m1.from[1]))
    <3>1. t.transfers = << >>
      BY <2>1, <2>4 DEF Sent
    <3> QED BY <2>2, <2>4, <3>1 DEF Out, SentBy
  <2> QED BY <2>3, <2>4
<1>6. SentBy(t, m2, a) = 0 /\ SentBy(t, m3, a) = 0
  <2>1. m2.from # <<a, "proxy">> /\ m3.from # <<a, "proxy">>
    BY <1>1
  <2> QED BY <2>1 DEF SentBy
<1>7. /\ r1 + p1 = IF v = m1.to THEN m1.amount ELSE 0
      /\ s1 + x1 = IF v = m1.from THEN m1.amount ELSE 0
  BY <1>1, MoveNet
<1>8. /\ r2 + p2 = IF v = m2.to THEN m2.amount ELSE 0
      /\ s2 + 0 = IF v = m2.from THEN m2.amount ELSE 0
  BY <1>1, <1>6, MoveNet
<1>9. /\ r3 + p3 = IF v = m3.to THEN m3.amount ELSE 0
      /\ s3 + 0 = IF v = m3.from THEN m3.amount ELSE 0
  BY <1>1, <1>6, MoveNet
<1> HIDE DEF v, r1, r2, r3, p1, p2, p3, s1, s2, s3, x1
<1>10. /\ Moved(m1, v) = (r1 + p1) - (s1 + x1)
       /\ Moved(m2, v) = (r2 + p2) - (s2 + 0)
       /\ Moved(m3, v) = (r3 + p3) - (s3 + 0)
  BY <1>7, <1>8, <1>9 DEF Moved
<1>11. (Incoming(t)[a] - t.withdrawals[a]) - Out(t, a) =
         (Moved(m1, v) + Moved(m2, v)) + Moved(m3, v)
  BY <1>2, <1>3, <1>4, <1>5, <1>10
<1> QED BY <1>11 DEF v

\* The fee and the deposit of a transfer are there when they are needed.
LEMMA CountedEnough ==
  ASSUME NEW t, NEW payer, NEW m1, NEW m2, NEW m3,
         Counted(t, m1, m2, m3), Proper(t, payer, m1, m2, m3)
  PROVE  /\ Single(t)
         /\ Tracked(t, payer) => t.fees = Fee /\ t.fees <= t.withdrawals[payer]
<1>1. /\ t \in Tallies /\ m1 \in Moves /\ m2 \in Moves /\ m3 \in Moves
      /\ payer \in Addrs /\ Fits(t, m1) /\ ~Tracked(t, FeeAddr)
  BY DEF Counted, Proper
<1>2. ASSUME Tracked(t, payer)
      PROVE  t.fees = Fee /\ t.fees <= t.withdrawals[payer]
  <2>1. FeePart(m1) = 0 /\ FeePart(m2) = 0 /\ FeePart(m3) = Fee
    BY <1>2 DEF Proper, FeePart
  <2>2. Fee \in Nat
    BY BlockOpsAssumption
  <2>3. t.fees = Fee
    BY <2>1, <2>2 DEF Counted
  <2>4. Spent(t, m3, payer) = Fee
    BY <1>2 DEF Proper, Spent
  <2>5. t.withdrawals[payer] = (Spent(t, m1, payer) + Spent(t, m2, payer))
                                 + Fee
    BY <1>1, <2>4 DEF Counted
  <2>6. Spent(t, m1, payer) \in Nat /\ Spent(t, m2, payer) \in Nat
    BY <1>1, PartTypes
  <2> QED BY <2>2, <2>3, <2>5, <2>6
<1>3. Single(t)
  <2> DEFINE b == m1.to[1]
             x == [sender |-> m1.from[1], amount |-> m1.amount,
                   receiver |-> IF Tracked(t, b) THEN b ELSE NoAccount]
  <2>1. t.transfers = Sent(t, m1)
    BY DEF Counted
  <2>2. /\ m1.from[1] \in Addrs /\ b \in Addrs /\ m1.amount \in Nat
        /\ m1.to = <<b, m1.to[2]>>
    BY <1>1, MoveFields
  <2>3. CASE ~(m1.from[2] = "proxy" /\ Proxy(t, m1.from[1]))
    <3>1. t.transfers = << >>
      BY <2>1, <2>3 DEF Sent
    <3> QED BY <3>1 DEF Single
  <2>4. CASE m1.from[2] = "proxy" /\ Proxy(t, m1.from[1])
    <3>1. t.transfers = <<x>>
      BY <2>1, <2>4 DEF Sent
    <3>2. x \in Transfers
      BY <2>2 DEF Transfers, Accounts
    <3>3. ASSUME x.receiver # NoAccount
          PROVE  x.amount <= Incoming(t)[x.receiver]
      <4>1. Tracked(t, b) /\ x.receiver = b /\ x.amount = m1.amount
        BY <3>3
      <4>2. Vault(t, b) = m1.to
        <5>1. CASE Proxy(t, b)
          <6>1. m1.to[2] = "proxy"
            BY <2>4, <5>1 DEF Proper
          <6> QED BY <2>2, <5>1, <6>1 DEF Vault
        <5>2. CASE ~Proxy(t, b)
          <6>1. m1.to[2] = "default"
            BY <1>1, <4>1, <5>2 DEF Fits
          <6> QED BY <2>2, <5>2, <6>1 DEF Vault
        <5> QED BY <5>1, <5>2
      <4>3. Received(t, m1, b) + ProxyReceived(t, m1, b) = m1.amount
        BY <1>1, <2>2, <4>1, <4>2, MoveNet
      <4>4. Incoming(t)[b] = t.deposits[b] + t.proxyDeposits[b]
        BY <1>1, <2>2, CountedSorted, SortedIncoming
      <4>5. /\ t.deposits[b] = (Received(t, m1, b) + Received(t, m2, b))
                                 + Received(t, m3, b)
            /\ t.proxyDeposits[b] =
                 (ProxyReceived(t, m1, b) + ProxyReceived(t, m2, b))
                   + ProxyReceived(t, m3, b)
        BY <2>2 DEF Counted
      <4>6. /\ Received(t, m1, b) \in Nat /\ Received(t, m2, b) \in Nat
            /\ Received(t, m3, b) \in Nat /\ ProxyReceived(t, m1, b) \in Nat
            /\ ProxyReceived(t, m2, b) \in Nat
            /\ ProxyReceived(t, m3, b) \in Nat
        BY <1>1, PartTypes
      <4>7. m1.amount <= Incoming(t)[b]
        <5> HIDE DEF b
        <5> QED BY <4>3, <4>4, <4>5, <4>6
      <4> HIDE DEF x, b
      <4> QED BY <4>1, <4>7
    <3> HIDE DEF x
    <3> QED BY <3>1, <3>2, <3>3 DEF Single
  <2> QED BY <2>3, <2>4
<1> QED BY <1>2, <1>3

\* Only tracked accounts that take part in a move are counted.
Involved(m1, m2, m3) == {m1.from[1], m1.to[1], m2.from[1], m2.to[1],
                         m3.from[1], m3.to[1]}

\* Nothing is counted for an account that is not involved.
LEMMA CountedInvolved ==
  ASSUME NEW t, NEW payer, NEW m1, NEW m2, NEW m3,
         Counted(t, m1, m2, m3), Proper(t, payer, m1, m2, m3),
         NEW S, \A a \in Involved(m1, m2, m3) : Tracked(t, a) => a \in S
  PROVE  /\ \A a \in Addrs : Incoming(t)[a] > 0 => a \in S
         /\ \A a \in Addrs : t.withdrawals[a] > 0 => a \in S
         /\ t.transfers # << >> => t.transfers[1].sender \in S
         /\ Tracked(t, payer) => payer \in S
<1>1. t \in Tallies
  BY DEF Counted
<1>2. ASSUME NEW a \in Addrs, a \notin S
      PROVE  Incoming(t)[a] = 0 /\ t.withdrawals[a] = 0
  <2>1. ~Tracked(t, a) \/ a \notin Involved(m1, m2, m3)
    BY <1>2
  <2>2. CASE ~Tracked(t, a)
    <3>1. ~Proxy(t, a)
      BY <2>2, ProxyTracked
    <3>2. /\ Received(t, m1, a) = 0 /\ Received(t, m2, a) = 0
          /\ Received(t, m3, a) = 0
          /\ Spent(t, m1, a) = 0 /\ Spent(t, m2, a) = 0 /\ Spent(t, m3, a) = 0
      BY <2>2 DEF Received, Spent
    <3>3. /\ ProxyReceived(t, m1, a) = 0 /\ ProxyReceived(t, m2, a) = 0
          /\ ProxyReceived(t, m3, a) = 0
      BY <3>1 DEF ProxyReceived
    <3>4. t.deposits[a] = 0 /\ t.proxyDeposits[a] = 0 /\ t.withdrawals[a] = 0
      BY <3>2, <3>3 DEF Counted
    <3> QED BY <3>4 DEF Incoming
  <2>3. CASE a \notin Involved(m1, m2, m3)
    <3>1. /\ a # m1.from[1] /\ a # m2.from[1] /\ a # m3.from[1]
          /\ a # m1.to[1] /\ a # m2.to[1] /\ a # m3.to[1]
      BY <2>3 DEF Involved
    <3>2. /\ Received(t, m1, a) = 0 /\ Received(t, m2, a) = 0
          /\ Received(t, m3, a) = 0
          /\ Spent(t, m1, a) = 0 /\ Spent(t, m2, a) = 0 /\ Spent(t, m3, a) = 0
      BY <3>1 DEF Received, Spent
    <3>3. /\ ProxyReceived(t, m1, a) = 0 /\ ProxyReceived(t, m2, a) = 0
          /\ ProxyReceived(t, m3, a) = 0
      BY <3>1 DEF ProxyReceived
    <3>4. t.deposits[a] = 0 /\ t.proxyDeposits[a] = 0 /\ t.withdrawals[a] = 0
      BY <3>2, <3>3 DEF Counted
    <3> QED BY <3>4 DEF Incoming
  <2> QED BY <2>1, <2>2, <2>3
<1>3. \A a \in Addrs : Incoming(t)[a] > 0 => a \in S
  BY <1>2
<1>4. \A a \in Addrs : t.withdrawals[a] > 0 => a \in S
  BY <1>2
<1>5. ASSUME t.transfers # << >>
      PROVE  t.transfers[1].sender \in S
  <2>1. t.transfers = Sent(t, m1)
    BY DEF Counted
  <2>2. Proxy(t, m1.from[1])
    BY <1>5, <2>1 DEF Sent
  <2>3. t.transfers[1].sender = m1.from[1]
    BY <1>5, <2>1 DEF Sent
  <2>4. m1.from[1] \in Involved(m1, m2, m3)
    BY DEF Involved
  <2> QED BY <2>2, <2>3, <2>4, ProxyTracked
<1>6. Tracked(t, payer) => payer \in S
  BY DEF Proper, Involved
<1> QED BY <1>3, <1>4, <1>5, <1>6

\* One turn of the loop over transactions.
LEMMA TurnEffect ==
  ASSUME NEW t, NEW payer, NEW m1, NEW m2, NEW m3,
         Counted(t, m1, m2, m3), Proper(t, payer, m1, m2, m3)
  PROVE  LET r == Finish(t, payer)
         IN  /\ r \in Tallies /\ r.ok = t.ok
             /\ r.known = t.known /\ r.new = t.new
             /\ \A a \in Addrs :
                  /\ Change(t.ops, a) \in Int
                  /\ Tracked(t, a) => Change(r.ops, a) = Change(t.ops, a) +
                       ((Moved(m1, Vault(t, a)) + Moved(m2, Vault(t, a)))
                          + Moved(m3, Vault(t, a)))
             /\ DOMAIN Diffs(t.ops) \cup Range(t.addrs)
                  \subseteq DOMAIN Diffs(r.ops)
             /\ \A S : /\ DOMAIN Diffs(t.ops) \cup Range(t.addrs) \subseteq S
                       /\ \A a \in Involved(m1, m2, m3) :
                            Tracked(t, a) => a \in S
                       => DOMAIN Diffs(r.ops) \subseteq S
             /\ \A a : FeesIn(r.ops, a) = FeesIn(t.ops, a) +
                  (IF a = payer /\ Tracked(t, payer) THEN Fee ELSE 0)
             /\ ProxiesCreated(r.ops) = ProxiesCreated(t.ops) \cup
                                          (Range(t.addrs) \cap t.keyed)
<1> DEFINE r == Finish(t, payer)
           fees == IF isTracked(payer, t.known, t.new) THEN t.fees ELSE 0
<1>1. t \in Tallies /\ payer \in Addrs
  BY DEF Counted, Proper
<1>2. /\ Sorted(t) /\ Single(t)
      /\ Tracked(t, payer) => t.fees = Fee /\ t.fees <= t.withdrawals[payer]
  BY CountedSorted, CountedEnough
<1>3. isTracked(payer, t.known, t.new) => t.fees <= t.withdrawals[payer]
  BY <1>2 DEF Tracked
<1>4. /\ r \in Tallies /\ r.ok = t.ok
      /\ r.known = t.known /\ r.new = t.new
      /\ \A a \in Addrs :
           /\ Change(t.ops, a) \in Int /\ Out(t, a) \in Nat
           /\ Change(r.ops, a) = Change(t.ops, a) +
                ((Incoming(t)[a] - t.withdrawals[a]) - Out(t, a))
      /\ DOMAIN Diffs(t.ops) \cup Range(t.addrs) \subseteq DOMAIN Diffs(r.ops)
      /\ \A S : /\ DOMAIN Diffs(t.ops) \cup Range(t.addrs) \subseteq S
                /\ t.transfers # << >> => t.transfers[1].sender \in S
                /\ isTracked(payer, t.known, t.new) => payer \in S
                /\ \A a \in Addrs : Incoming(t)[a] > 0 => a \in S
                /\ \A a \in Addrs : t.withdrawals[a] > 0 => a \in S
                => DOMAIN Diffs(r.ops) \subseteq S
      /\ \A a : FeesIn(r.ops, a) = FeesIn(t.ops, a) +
                                     (IF a = payer THEN fees ELSE 0)
      /\ ProxiesCreated(r.ops) = ProxiesCreated(t.ops) \cup
                                   (Range(t.addrs) \cap t.keyed)
  BY <1>1, <1>2, <1>3, FinishEffect
<1> HIDE DEF r
<1>5. ASSUME NEW a \in Addrs, Tracked(t, a)
      PROVE  Change(r.ops, a) = Change(t.ops, a) +
               ((Moved(m1, Vault(t, a)) + Moved(m2, Vault(t, a)))
                  + Moved(m3, Vault(t, a)))
  <2>1. (Incoming(t)[a] - t.withdrawals[a]) - Out(t, a) =
          (Moved(m1, Vault(t, a)) + Moved(m2, Vault(t, a)))
            + Moved(m3, Vault(t, a))
    BY <1>5, CountedNet
  <2> QED BY <1>4, <2>1
<1>6. ASSUME NEW S, DOMAIN Diffs(t.ops) \cup Range(t.addrs) \subseteq S,
             \A a \in Involved(m1, m2, m3) : Tracked(t, a) => a \in S
      PROVE  DOMAIN Diffs(r.ops) \subseteq S
  <2>1. /\ \A a \in Addrs : Incoming(t)[a] > 0 => a \in S
        /\ \A a \in Addrs : t.withdrawals[a] > 0 => a \in S
        /\ t.transfers # << >> => t.transfers[1].sender \in S
        /\ Tracked(t, payer) => payer \in S
    BY <1>6, CountedInvolved
  <2>2. isTracked(payer, t.known, t.new) => payer \in S
    BY <2>1 DEF Tracked
  <2> QED BY <1>4, <1>6, <2>1, <2>2
<1>7. \A a : FeesIn(r.ops, a) = FeesIn(t.ops, a) +
               (IF a = payer /\ Tracked(t, payer) THEN Fee ELSE 0)
  <2>1. Tracked(t, payer) => fees = Fee
    BY <1>2 DEF Tracked
  <2>2. ~Tracked(t, payer) => fees = 0
    BY DEF Tracked
  <2> HIDE DEF fees
  <2> QED BY <1>4, <2>1, <2>2
<1> HIDE DEF fees
<1> QED BY <1>4, <1>5, <1>6, <1>7 DEF r

\* The tally of a transaction takes over that of the block, with accounts N
\* that are new.
Booked(b, t, N, Q) ==
  /\ t \in Tallies /\ t.known = b.known /\ t.ops = b.ops /\ t.ok = b.ok
  /\ DOMAIN t.new = DOMAIN b.new \cup N
  /\ \A a \in DOMAIN b.new : a \notin N => t.new[a] = b.new[a]
  /\ \A a \in N : t.new[a] <=> a \in Q
  /\ Range(t.addrs) = N /\ N \cap t.keyed = N \cap Q

\* What the first loop starts from, and what both leave.
Fresh(b) == NewTally(b.known, b.new, b.ops, b.ok)

Looped(b, payer, E) == evtloop2(evtloop(Fresh(b), payer, E), E)

\* A turn of the loop over transactions: the two loops, and the rest.
LEMMA TurnOf ==
  ASSUME NEW b, NEW payer, NEW E
  PROVE  ProcessTxn(b, [payer |-> payer, events |-> E]) =
           Finish(Looped(b, payer, E), payer)
BY DEF ProcessTxn, Finish, Looped, Fresh

\* The tally at the start of a turn.
LEMMA FreshTally ==
  ASSUME NEW b \in Tallies
  PROVE  /\ Fresh(b) \in Tallies /\ Fresh(b).known = b.known
         /\ Fresh(b).new = b.new /\ Fresh(b).ops = b.ops /\ Fresh(b).ok = b.ok
         /\ Fresh(b).addrs = << >> /\ Fresh(b).keyed = {}
         /\ Fresh(b).deposits = Nothing /\ Fresh(b).proxyDeposits = Nothing
         /\ Fresh(b).withdrawals = Nothing /\ Fresh(b).fees = 0
         /\ Fresh(b).transfers = << >>
<1>1. Fresh(b) \in Tallies
  BY TallyFields, NewTallyType DEF Fresh
<1> QED BY <1>1 DEF Fresh, NewTally

\* A transaction that moves FLOW.
LEMMA LoopsOfMoves ==
  ASSUME NEW b \in Tallies, NEW payer \in Addrs,
         NEW E1, NEW E2, NEW E3, NEW m1, NEW m2, NEW m3,
         m1 \in Moves, m2 \in Moves, m3 \in Moves,
         Shows1(E1, payer, m1), Shows1(E2, payer, m2), Shows1(E3, payer, m3),
         Shows2(E1, m1), Shows2(E2, m2), Shows2(E3, m3),
         m2.from[2] = "default", m3.from[2] = "default"
  PROVE  LET t == Looped(b, payer, (E1 \o E2) \o E3)
         IN  Booked(b, t, {}, {}) /\ Counted(t, m1, m2, m3)
<1> DEFINE f == Fresh(b)
           E == (E1 \o E2) \o E3
           u == evtloop(f, payer, E)
           t == evtloop2(u, E)
<1>1. /\ f \in Tallies /\ f.known = b.known
      /\ f.new = b.new /\ f.ops = b.ops /\ f.ok = b.ok
      /\ f.addrs = << >> /\ f.keyed = {}
      /\ f.deposits = Nothing /\ f.proxyDeposits = Nothing
      /\ f.withdrawals = Nothing /\ f.fees = 0 /\ f.transfers = << >>
  BY FreshTally
<1> HIDE DEF f
<1>2. /\ u \in Tallies
      /\ u.known = f.known /\ u.new = f.new /\ u.addrs = f.addrs
      /\ u.keyed = f.keyed /\ u.deposits = f.deposits
      /\ u.withdrawals = f.withdrawals /\ u.fees = f.fees
      /\ u.ops = f.ops /\ u.ok = f.ok
      /\ \A a \in Addrs : u.proxyDeposits[a] =
           (ProxyReceived(f, m1, a) + ProxyReceived(f, m2, a))
             + ProxyReceived(f, m3, a)
      /\ u.transfers = Sent(f, m1)
  BY <1>1, CountFirst
<1> HIDE DEF u
<1>3. /\ t \in Tallies
      /\ t.known = u.known /\ t.new = u.new /\ t.addrs = u.addrs
      /\ t.keyed = u.keyed /\ t.proxyDeposits = u.proxyDeposits
      /\ t.transfers = u.transfers /\ t.ops = u.ops /\ t.ok = u.ok
      /\ \A a \in Addrs :
           /\ t.withdrawals[a] = (Spent(u, m1, a) + Spent(u, m2, a))
                                   + Spent(u, m3, a)
           /\ t.deposits[a] = (Received(u, m1, a) + Received(u, m2, a))
                                + Received(u, m3, a)
      /\ t.fees = (FeePart(m1) + FeePart(m2)) + FeePart(m3)
  <2>1. u.deposits = Nothing /\ u.withdrawals = Nothing /\ u.fees = 0
    BY <1>1, <1>2
  <2>2. u \in Tallies
    BY <1>2
  <2>3. Total(u, t, m1, m2, m3)
    BY <2>1, <2>2, CountSecond
  <2> QED BY <2>3 DEF Total
<1> HIDE DEF t
<1>4. /\ t.known = u.known /\ t.new = u.new
      /\ t.known = f.known /\ t.new = f.new
  BY <1>2, <1>3
<1>5. ASSUME NEW m, NEW a
      PROVE  /\ ProxyReceived(t, m, a) = ProxyReceived(f, m, a)
             /\ Spent(t, m, a) = Spent(u, m, a)
             /\ Received(t, m, a) = Received(u, m, a)
             /\ Sent(t, m) = Sent(f, m)
  BY <1>4 DEF ProxyReceived, Spent, Received, Sent, Tracked, Proxy
<1>6. Counted(t, m1, m2, m3)
  BY <1>2, <1>3, <1>5 DEF Counted
<1>7. Booked(b, t, {}, {})
  <2>1. t.addrs = << >>
    BY <1>1, <1>2, <1>3
  <2>2. Range(t.addrs) = {}
    BY <2>1 DEF Range
  <2>3. t.known = b.known /\ t.new = b.new /\ t.ops = b.ops /\ t.ok = b.ok
    BY <1>1, <1>2, <1>3
  <2> QED BY <1>3, <2>2, <2>3 DEF Booked
<1>8. t = Looped(b, payer, (E1 \o E2) \o E3)
  BY DEF Looped, t, u, f
<1> QED BY <1>6, <1>7, <1>8

\* A transaction that creates accounts.
LEMMA LoopsOfCreation ==
  ASSUME NEW b \in Tallies, NEW payer \in Addrs,
         NEW E1, NEW E2, NEW E3, NEW m1, NEW m2, NEW m3, NEW N, NEW Q,
         m1 \in Moves, m2 \in Moves, m3 \in Moves,
         Shows2(E1, m1), Shows2(E2, m2), Shows2(E3, m3),
         m1.from[2] = "default", m1.to[2] = "default",
         m2.to[2] = "default", m3.to[2] = "default",
         SameFlows(Fresh(b), evtloop(Fresh(b), payer, (E1 \o E2) \o E3)),
         Made(Fresh(b), evtloop(Fresh(b), payer, (E1 \o E2) \o E3), N, Q)
  PROVE  LET t == Looped(b, payer, (E1 \o E2) \o E3)
         IN  Booked(b, t, N, Q) /\ Counted(t, m1, m2, m3)
<1> DEFINE f == Fresh(b)
           E == (E1 \o E2) \o E3
           u == evtloop(f, payer, E)
           t == evtloop2(u, E)
<1>1. /\ f \in Tallies /\ f.known = b.known
      /\ f.new = b.new /\ f.ops = b.ops /\ f.ok = b.ok
      /\ f.addrs = << >> /\ f.keyed = {}
      /\ f.deposits = Nothing /\ f.proxyDeposits = Nothing
      /\ f.withdrawals = Nothing /\ f.fees = 0 /\ f.transfers = << >>
  BY FreshTally
<1>2. SameFlows(f, u) /\ Made(f, u, N, Q)
  OBVIOUS
<1> HIDE DEF u, f
<1>3. /\ u \in Tallies /\ u.known = b.known /\ u.ops = b.ops /\ u.ok = b.ok
      /\ u.deposits = Nothing /\ u.proxyDeposits = Nothing
      /\ u.withdrawals = Nothing /\ u.fees = 0 /\ u.transfers = << >>
  BY <1>1, <1>2 DEF SameFlows
<1>4. /\ t \in Tallies
      /\ t.known = u.known /\ t.new = u.new /\ t.addrs = u.addrs
      /\ t.keyed = u.keyed /\ t.proxyDeposits = u.proxyDeposits
      /\ t.transfers = u.transfers /\ t.ops = u.ops /\ t.ok = u.ok
      /\ \A a \in Addrs :
           /\ t.withdrawals[a] = (Spent(u, m1, a) + Spent(u, m2, a))
                                   + Spent(u, m3, a)
           /\ t.deposits[a] = (Received(u, m1, a) + Received(u, m2, a))
                                + Received(u, m3, a)
      /\ t.fees = (FeePart(m1) + FeePart(m2)) + FeePart(m3)
  <2>1. Total(u, t, m1, m2, m3)
    BY <1>3, CountSecond
  <2> QED BY <2>1 DEF Total
<1> HIDE DEF t
<1>5. ASSUME NEW m, NEW a
      PROVE  /\ Spent(t, m, a) = Spent(u, m, a)
             /\ Received(t, m, a) = Received(u, m, a)
  BY <1>4 DEF Spent, Received, Tracked, Proxy
<1>6. ASSUME NEW m \in Moves, m.to[2] = "default", NEW a
      PROVE  ProxyReceived(t, m, a) = 0
  <2>1. m.to # <<a, "proxy">>
    BY <1>6
  <2> QED BY <2>1 DEF ProxyReceived
<1>7. Sent(t, m1) = << >>
  BY DEF Sent
<1>8. \A a \in Addrs : t.proxyDeposits[a] =
        (ProxyReceived(t, m1, a) + ProxyReceived(t, m2, a))
          + ProxyReceived(t, m3, a)
  BY <1>3, <1>4, <1>6 DEF Nothing
<1>9. Counted(t, m1, m2, m3)
  BY <1>3, <1>4, <1>5, <1>7, <1>8 DEF Counted
<1>10. Booked(b, t, N, Q)
  <2>1. Range(f.addrs) = {}
    BY <1>1 DEF Range
  <2>2. Range(t.addrs) = N
    BY <1>2, <1>4, <2>1 DEF Made
  <2>3. t.keyed = Q
    BY <1>1, <1>2, <1>4 DEF Made
  <2> QED BY <1>1, <1>2, <1>3, <1>4, <2>2, <2>3 DEF Booked, Made
<1>11. t = Looped(b, payer, (E1 \o E2) \o E3)
  BY DEF Looped, t, u, f
<1> QED BY <1>9, <1>10, <1>11

-----------------------------------------------------------------------------
(***************************************************************************)
(* A transaction preserves the invariant of the tally.                     *)
(***************************************************************************)

\* The moves of a transaction that the chain accepts: between vaults that
\* are there after it, and a transfer out of a proxy vault goes to the
\* receiver's public one.
Lawful(payer, m1, m2, m3) ==
  /\ payer \in exists \ (proxies \cup {FeeAddr})
  /\ \A m \in {m1, m2, m3} :
       /\ m \in Moves
       /\ m.from[1] \in exists' /\ m.to[1] \in exists'
       /\ m.from[2] = "proxy" => m.from[1] \in proxies
       /\ m.to[2] = "proxy" => m.to[1] \in proxies
  /\ m2.from[2] = "default"
  /\ m3 = Move(Default(payer), Default(FeeAddr), Fee)
  /\ payer \in ours => m1.to[1] # FeeAddr /\ m2.to[1] # FeeAddr
  /\ m1.from[2] = "proxy" =>
       m1.to[1] \in exists /\ m1.to = Receiver(m1.to[1])

\* The accounts N of the new ones are ours, and those in Q have a proxy vault.
Grown(N, Q) ==
  /\ N \cup Q \subseteq Addrs /\ (N \cup Q) \cap exists = {}
  /\ ours' = ours \cup N /\ proxies' = proxies \cup Q
  /\ exists \cup N \cup Q \subseteq exists' /\ exists' \subseteq Addrs
  /\ exists' \cap Originators \subseteq ours'

\* What the tally knows after the first loop is what the chain has come to.
LEMMA Knows ==
  ASSUME TypeOK, ChainInv, NEW b \in Tallies, TallyInv(b),
         NEW N, NEW Q, NEW t, Grown(N, Q), Booked(b, t, N, Q)
  PROVE  /\ DOMAIN t.known \cup DOMAIN t.new = ours'
         /\ \A a \in ours' : Tracked(t, a)
         /\ \A a \in exists' : Tracked(t, a) => a \in ours'
         /\ \A a \in exists' : Proxy(t, a) <=> a \in ours' /\ a \in proxies'
<1>1. /\ DOMAIN t.known = DOMAIN accts /\ t.known = accts
      /\ DOMAIN t.new = DOMAIN b.new \cup N
      /\ DOMAIN accts \cup DOMAIN b.new = ours
      /\ DOMAIN accts \cap DOMAIN b.new = {}
  BY DEF Booked, TallyInv
<1>2. ours \subseteq exists /\ proxies \subseteq exists
  BY DEF TypeOK
<1>3. DOMAIN t.known \cup DOMAIN t.new = ours'
  BY <1>1 DEF Grown
<1>4. \A a \in ours' : Tracked(t, a)
  BY <1>3 DEF Tracked, isTracked
<1>5. \A a \in exists' : Tracked(t, a) => a \in ours'
  BY <1>3 DEF Tracked, isTracked, Grown
<1>6. ASSUME NEW a \in exists'
      PROVE  Proxy(t, a) <=> a \in ours' /\ a \in proxies'
  <2>1. CASE a \in DOMAIN accts
    <3>1. Proxy(t, a) <=> accts[a]
      BY <1>1, <2>1 DEF Proxy, isProxy
    <3>2. accts[a] <=> a \in proxies
      BY <2>1 DEF TallyInv
    <3>3. a \in ours /\ a \in exists /\ a \notin Q
      BY <1>1, <1>2, <2>1 DEF Grown
    <3> QED BY <3>1, <3>2, <3>3 DEF Grown
  <2>2. CASE a \notin DOMAIN accts /\ a \in DOMAIN b.new
    <3>1. a \in ours /\ a \in exists /\ a \notin Q /\ a \notin N
      BY <1>1, <1>2, <2>2 DEF Grown
    <3>2. Proxy(t, a) <=> b.new[a]
      BY <1>1, <2>2, <3>1 DEF Proxy, isProxy, Booked
    <3>3. b.new[a] <=> a \in proxies
      BY <2>2 DEF TallyInv
    <3> QED BY <3>1, <3>2, <3>3 DEF Grown
  <2>3. CASE a \notin DOMAIN accts /\ a \notin DOMAIN b.new /\ a \in N
    <3>1. Proxy(t, a) <=> a \in Q
      BY <1>1, <2>3 DEF Proxy, isProxy, Booked
    <3>2. a \notin exists /\ a \notin proxies
      BY <1>2, <2>3 DEF Grown
    <3> QED BY <2>3, <3>1, <3>2 DEF Grown
  <2>4. CASE a \notin DOMAIN accts /\ a \notin DOMAIN b.new /\ a \notin N
    <3>1. ~Proxy(t, a)
      BY <1>1, <2>4 DEF Proxy, isProxy
    <3>2. a \notin ours'
      BY <1>1, <2>4 DEF Grown
    <3> QED BY <3>1, <3>2
  <2> QED BY <2>1, <2>2, <2>3, <2>4
<1> QED BY <1>3, <1>4, <1>5, <1>6

\* What the chain accepts is what the code counts on.
LEMMA LawfulProper ==
  ASSUME TypeOK, ChainInv, NEW b \in Tallies, TallyInv(b),
         NEW N, NEW Q, NEW t, Grown(N, Q), Booked(b, t, N, Q),
         NEW payer, NEW m1, NEW m2, NEW m3, Lawful(payer, m1, m2, m3)
  PROVE  /\ Proper(t, payer, m1, m2, m3)
         /\ \A a \in Involved(m1, m2, m3) : Tracked(t, a) => a \in ours'
         /\ Tracked(t, payer) <=> payer \in ours
<1>1. /\ \A a \in ours' : Tracked(t, a)
      /\ \A a \in exists' : Tracked(t, a) => a \in ours'
      /\ \A a \in exists' : Proxy(t, a) <=> a \in ours' /\ a \in proxies'
  BY Knows
<1>2. /\ ours \subseteq exists /\ proxies \subseteq exists
      /\ exists \subseteq Addrs /\ exists \subseteq exists'
      /\ proxies \subseteq proxies' /\ ours \subseteq ours'
  BY DEF TypeOK, Grown
<1>3. /\ m1 \in Moves /\ m2 \in Moves /\ m3 \in Moves
      /\ payer \in exists /\ payer \in Addrs /\ payer \in exists'
  BY <1>2 DEF Lawful
<1>4. ASSUME NEW m \in {m1, m2, m3}
      PROVE  Fits(t, m)
  <2>1. m \in Moves /\ m.from[1] \in exists' /\ m.to[1] \in exists'
        /\ (m.from[2] = "proxy" => m.from[1] \in proxies)
        /\ (m.to[2] = "proxy" => m.to[1] \in proxies)
    BY <1>4 DEF Lawful
  <2>2. m.from[2] \in {"default", "proxy"} /\ m.to[2] \in {"default", "proxy"}
    BY <2>1, MoveFields
  <2> QED BY <1>1, <1>2, <2>1, <2>2 DEF Fits
<1>5. payer \notin N /\ payer \notin Q /\ payer \notin proxies
  BY <1>3 DEF Grown, Lawful
<1>6. Tracked(t, payer) <=> payer \in ours
  BY <1>1, <1>2, <1>3, <1>5 DEF Grown
<1>7. ~Tracked(t, FeeAddr)
  <2>1. FeeAddr \in exists /\ FeeAddr \notin ours
    BY DEF ChainInv
  <2>2. FeeAddr \in exists' /\ FeeAddr \notin ours'
    BY <1>2, <2>1 DEF Grown
  <2> QED BY <1>1, <2>2
<1>8. Tracked(t, payer) => ~Proxy(t, payer) /\ m1.to[1] # FeeAddr
                             /\ m2.to[1] # FeeAddr
  <2>1. ~Proxy(t, payer)
    BY <1>1, <1>3, <1>5 DEF Grown
  <2> QED BY <1>6, <2>1 DEF Lawful
<1>9. m1.from[2] = "proxy" /\ Proxy(t, m1.to[1]) => m1.to[2] = "proxy"
  <2> SUFFICES ASSUME m1.from[2] = "proxy", Proxy(t, m1.to[1])
               PROVE  m1.to[2] = "proxy"
    OBVIOUS
  <2>1. m1.to[1] \in exists'
    BY DEF Lawful
  <2>2. m1.to[1] \in proxies'
    BY <1>1, <2>1
  <2>3. m1.to[1] \in exists /\ m1.to = Receiver(m1.to[1])
    BY DEF Lawful
  <2>4. m1.to[1] \in proxies
    BY <2>2, <2>3 DEF Grown
  <2>5. m1.to = <<m1.to[1], "proxy">>
    BY <2>3, <2>4 DEF Receiver
  <2> QED BY <2>5
<1>10. /\ m2.from[2] = "default" /\ m3.from = <<payer, "default">>
       /\ m3.to = <<FeeAddr, "default">> /\ m3.amount = Fee
  BY DEF Lawful, Move, Default
<1>11. Proper(t, payer, m1, m2, m3)
  BY <1>3, <1>4, <1>7, <1>8, <1>9, <1>10 DEF Proper
<1>12. \A a \in Involved(m1, m2, m3) : a \in exists'
  BY DEF Lawful, Involved
<1> QED BY <1>1, <1>6, <1>11, <1>12

\* The turn of the loop for a transaction keeps the tally in step with the
\* chain.
LEMMA TurnKeeps ==
  ASSUME TypeOK, ChainInv, StoreInv,
         NEW b \in Tallies, TallyInv(b),
         NEW N, NEW Q, NEW t, Grown(N, Q), Booked(b, t, N, Q),
         NEW payer, NEW m1, NEW m2, NEW m3, Lawful(payer, m1, m2, m3),
         Counted(t, m1, m2, m3), Carried(held, held', m1, m2, m3),
         feesPaid' = IF payer \in ours
                       THEN [feesPaid EXCEPT ![payer] = @ + Fee]
                       ELSE feesPaid,
         UNCHANGED index
  PROVE  TallyInv(Finish(t, payer))'
<1> DEFINE r == Finish(t, payer)
<1>1. /\ accts' = accts /\ balances' = balances /\ feesIndexed' = feesIndexed
  BY DEF index
<1>2. /\ Proper(t, payer, m1, m2, m3)
      /\ \A a \in Involved(m1, m2, m3) : Tracked(t, a) => a \in ours'
      /\ Tracked(t, payer) <=> payer \in ours
  BY LawfulProper
<1>3. /\ DOMAIN t.known \cup DOMAIN t.new = ours'
      /\ \A a \in ours' : Tracked(t, a)
      /\ \A a \in exists' : Tracked(t, a) => a \in ours'
      /\ \A a \in exists' : Proxy(t, a) <=> a \in ours' /\ a \in proxies'
  BY Knows
<1>4. /\ r \in Tallies /\ r.ok = t.ok
      /\ r.known = t.known /\ r.new = t.new
      /\ \A a \in Addrs :
           /\ Change(t.ops, a) \in Int
           /\ Tracked(t, a) => Change(r.ops, a) = Change(t.ops, a) +
                ((Moved(m1, Vault(t, a)) + Moved(m2, Vault(t, a)))
                   + Moved(m3, Vault(t, a)))
      /\ DOMAIN Diffs(t.ops) \cup Range(t.addrs) \subseteq DOMAIN Diffs(r.ops)
      /\ \A S : /\ DOMAIN Diffs(t.ops) \cup Range(t.addrs) \subseteq S
                /\ \A a \in Involved(m1, m2, m3) : Tracked(t, a) => a \in S
                => DOMAIN Diffs(r.ops) \subseteq S
      /\ \A a : FeesIn(r.ops, a) = FeesIn(t.ops, a) +
           (IF a = payer /\ Tracked(t, payer) THEN Fee ELSE 0)
      /\ ProxiesCreated(r.ops) = ProxiesCreated(t.ops) \cup
                                   (Range(t.addrs) \cap t.keyed)
  BY <1>2, TurnEffect
<1> HIDE DEF r
<1>5. /\ t.known = accts /\ t.ops = b.ops /\ t.ok = b.ok
      /\ DOMAIN t.new = DOMAIN b.new \cup N
      /\ Range(t.addrs) = N /\ N \cap t.keyed = N \cap Q
  BY DEF Booked, TallyInv
<1>6. /\ b.ok /\ DOMAIN accts \cup DOMAIN b.new = ours
      /\ DOMAIN accts \cap DOMAIN b.new = {}
      /\ DOMAIN b.new \subseteq DOMAIN Diffs(b.ops)
      /\ DOMAIN Diffs(b.ops) \subseteq ours
      /\ ProxiesCreated(b.ops) = DOMAIN b.new \cap proxies
      /\ \A a \in ours : Balance(a) + Change(b.ops, a) = held[Receiver(a)]
      /\ \A a \in Addrs : feesIndexed[a] + FeesIn(b.ops, a) = feesPaid[a]
  BY DEF TallyInv
<1>7. /\ ours \subseteq exists /\ proxies \subseteq exists
      /\ exists \subseteq Addrs /\ ours' \subseteq exists'
      /\ exists' \subseteq Addrs /\ N \cap exists = {} /\ Q \cap exists = {}
      /\ ours' = ours \cup N /\ proxies' = proxies \cup Q
  BY DEF TypeOK, Grown
<1>8. r.ok
  BY <1>4, <1>5, <1>6
<1>9. /\ DOMAIN accts \cup DOMAIN r.new = ours'
      /\ DOMAIN accts \cap DOMAIN r.new = {}
  BY <1>3, <1>4, <1>5, <1>6, <1>7
<1>10. ASSUME NEW a \in DOMAIN accts
       PROVE  accts[a] <=> a \in proxies'
  BY <1>6, <1>7 DEF TallyInv
<1>11. ASSUME NEW a \in DOMAIN r.new
       PROVE  r.new[a] <=> a \in proxies'
  <2>1. a \in ours' /\ a \in exists' /\ a \notin DOMAIN t.known
    BY <1>4, <1>5, <1>7, <1>9
  <2>2. Proxy(t, a) <=> t.new[a]
    BY <1>4, <2>1 DEF Proxy, isProxy
  <2> QED BY <1>3, <1>4, <2>1, <2>2
<1>12. /\ DOMAIN r.new \subseteq DOMAIN Diffs(r.ops)
  BY <1>4, <1>5, <1>6
<1>13. DOMAIN Diffs(r.ops) \subseteq ours'
  <2>1. DOMAIN Diffs(t.ops) \cup Range(t.addrs) \subseteq ours'
    BY <1>5, <1>6, <1>7
  <2> QED BY <1>2, <1>4, <2>1
<1>14. ProxiesCreated(r.ops) = DOMAIN r.new \cap proxies'
  <2>1. ProxiesCreated(r.ops) = (DOMAIN b.new \cap proxies) \cup (N \cap Q)
    BY <1>4, <1>5, <1>6
  <2>2. DOMAIN b.new \cap Q = {} /\ N \cap proxies = {}
    BY <1>6, <1>7
  <2> QED BY <1>4, <1>5, <1>7, <2>1, <2>2
<1>15. ASSUME NEW a \in ours'
       PROVE  Balance(a)' + Change(r.ops, a) = held'[Receiver(a)']
  <2> DEFINE v == Vault(t, a)
             d == (Moved(m1, v) + Moved(m2, v)) + Moved(m3, v)
  <2>1. a \in Addrs /\ a \in exists' /\ Tracked(t, a)
    BY <1>3, <1>7
  <2>2. Receiver(a)' = v
    BY <1>3, <2>1 DEF Receiver, Vault, Default
  <2>3. v \in Vaults
    BY <2>1 DEF Vault, Vaults
  <2>4. Change(r.ops, a) = Change(b.ops, a) + d /\ Change(b.ops, a) \in Int
    BY <1>4, <1>5, <2>1
  <2>5. held'[v] = held[v] + d
    BY <2>3 DEF Carried
  <2>6. held[v] \in Nat
    BY <2>3 DEF TypeOK
  <2>7. /\ Moved(m1, v) \in Int /\ Moved(m2, v) \in Int /\ Moved(m3, v) \in Int
    <3>1. m1 \in Moves /\ m2 \in Moves /\ m3 \in Moves
      BY DEF Lawful
    <3> QED BY <3>1, MovedType
  <2>8. Balance(a)' = Balance(a) /\ Balance(a) \in Int
    <3>1. Balance(a)' = Balance(a)
      BY <1>1 DEF Balance
    <3>2. Balance(a) \in Int
      BY DEF Balance, TypeOK
    <3> QED BY <3>1, <3>2
  <2>9. Balance(a) + Change(b.ops, a) = held[v]
    <3>1. CASE a \in ours
      <4>1. Receiver(a) = v
        BY <1>7, <2>2, <3>1 DEF Receiver
      <4> QED BY <1>6, <3>1, <4>1
    <3>2. CASE a \in N
      <4>1. a \notin exists /\ a \notin ours /\ a \notin proxies
        BY <1>7, <3>2
      <4>2. Balance(a) = 0
        BY <1>6, <4>1 DEF Balance, StoreInv
      <4>3. Change(b.ops, a) = 0
        BY <1>6, <4>1 DEF Change
      <4>4. held[v] = 0
        BY <2>1, <4>1 DEF ChainInv, Vault, Default
      <4> QED BY <4>2, <4>3, <4>4
    <3> QED BY <1>7, <3>1, <3>2
  <2> HIDE DEF v
  <2>10. d \in Int
    BY <2>7
  <2> HIDE DEF d
  <2> QED BY <2>2, <2>4, <2>5, <2>6, <2>8, <2>9, <2>10
<1>16. ASSUME NEW a \in Addrs
       PROVE  feesIndexed[a] + FeesIn(r.ops, a) = feesPaid'[a]
  <2>1. FeesIn(r.ops, a) = FeesIn(b.ops, a) +
          (IF a = payer /\ payer \in ours THEN Fee ELSE 0)
    BY <1>2, <1>4, <1>5
  <2>2. feesIndexed[a] + FeesIn(b.ops, a) = feesPaid[a]
    BY <1>6
  <2>3. /\ Fee \in Nat /\ feesIndexed[a] \in Nat
        /\ feesPaid \in [Addrs -> Nat]
    BY BlockOpsAssumption DEF TypeOK
  <2>4. FeesIn(b.ops, a) \in Nat
    <3>1. b.ops \in Seq(Ops)
      BY TallyFields
    <3> QED BY <3>1, OpsTypes
  <2>5. feesPaid'[a] = feesPaid[a] +
          (IF a = payer /\ payer \in ours THEN Fee ELSE 0)
    BY <2>3
  <2> QED BY <2>1, <2>2, <2>3, <2>4, <2>5
<1>17. TallyInv(r)'
  BY <1>1, <1>4, <1>5, <1>8, <1>9, <1>10, <1>11, <1>12, <1>13, <1>14,
     <1>15, <1>16 DEF TallyInv
<1> QED BY <1>17 DEF r

\* The tally of the block in hand is one.
LEMMA TallyIn ==
  ASSUME TypeOK
  PROVE  /\ NewTally(accts, << >>, << >>, TRUE) \in Tallies
         /\ BlockTally \in Tallies
<1>1. accts \in MapsTo(BOOLEAN)
  BY IsMap DEF TypeOK
<1>2. << >> \in MapsTo(BOOLEAN)
  <2>1. DOMAIN << >> = {}
    OBVIOUS
  <2>2. << >> \in [DOMAIN << >> -> BOOLEAN]
    OBVIOUS
  <2> QED BY <2>1, <2>2, IsMap
<1>3. << >> \in Seq(Ops)
  OBVIOUS
<1>4. NewTally(accts, << >>, << >>, TRUE) \in Tallies
  BY <1>1, <1>2, <1>3, NewTallyType
<1>5. txns \in Seq(Txns)
  BY DEF TypeOK
<1>6. PICK c \in [0..Len(txns) -> Tallies] :
        FoldLeft(ProcessTxn, NewTally(accts, << >>, << >>, TRUE), txns) =
          c[Len(txns)]
  BY <1>4, <1>5, ProcessTxnFold
<1>7. Len(txns) \in 0..Len(txns)
  BY <1>5
<1> QED BY <1>4, <1>6, <1>7 DEF BlockTally

\* A transaction preserves the invariant.
LEMMA TransactKeeps ==
  ASSUME BlockOpsInv, NEW payer, NEW m1, NEW m2, NEW m3, NEW E, NEW N, NEW Q,
         E \in Seq(Events), Grown(N, Q), Lawful(payer, m1, m2, m3),
         Booked(BlockTally, Looped(BlockTally, payer, E), N, Q),
         Counted(Looped(BlockTally, payer, E), m1, m2, m3),
         Carried(held, held', m1, m2, m3),
         \A v \in Vaults : held'[v] >= 0,
         txns' = Append(txns, [payer |-> payer, events |-> E]),
         feesPaid' = IF payer \in ours
                       THEN [feesPaid EXCEPT ![payer] = @ + Fee]
                       ELSE feesPaid,
         UNCHANGED index
  PROVE  BlockOpsInv'
<1>1. TypeOK /\ ChainInv /\ StoreInv /\ TallyInv(BlockTally)
  BY DEF BlockOpsInv
<1>2. /\ accts' = accts /\ balances' = balances /\ feesIndexed' = feesIndexed
      /\ proxyKeys' = proxyKeys /\ stuck' = stuck
  BY DEF index
<1>3. /\ ours \subseteq exists /\ proxies \subseteq exists
      /\ exists \subseteq exists' /\ exists' \subseteq Addrs
      /\ ours' = ours \cup N /\ proxies' = proxies \cup Q
      /\ N \subseteq exists' /\ Q \subseteq exists'
      /\ exists \cap N = {} /\ exists \cap Q = {}
  BY <1>1 DEF TypeOK, Grown
<1>4. /\ m1 \in Moves /\ m2 \in Moves /\ m3 \in Moves
      /\ payer \in exists /\ payer \in Addrs
  BY <1>1 DEF Lawful, TypeOK
<1>5. StoreInv'
  BY <1>1, <1>2 DEF StoreInv
<1>6. ASSUME NEW v \in Vaults, held[v] = 0,
             \A m \in {m1, m2, m3} : m.to # v /\ m.from # v
      PROVE  held'[v] = 0
  <2>1. Moved(m1, v) = 0 /\ Moved(m2, v) = 0 /\ Moved(m3, v) = 0
    BY <1>6 DEF Moved
  <2> QED BY <1>6, <2>1 DEF Carried
<1>7. ChainInv'
  <2>1. FeeAddr \in exists' \ (ours' \cup proxies')
    BY <1>1, <1>3 DEF ChainInv
  <2>2. exists' \cap Originators \subseteq ours'
    BY DEF Grown
  <2>3. ASSUME NEW a \in Addrs \ exists'
        PROVE  held'[<<a, "default">>] = 0
    <3> DEFINE v == <<a, "default">>
    <3>1. v \in Vaults
      BY DEF Vaults
    <3>2. held[v] = 0
      BY <1>1, <1>3 DEF ChainInv, Default
    <3>3. \A m \in {m1, m2, m3} : m.to # v /\ m.from # v
      BY DEF Lawful
    <3> HIDE DEF v
    <3>4. held'[v] = 0
      BY <1>6, <3>1, <3>2, <3>3
    <3> QED BY <3>4 DEF v
  <2>4. ASSUME NEW a \in Addrs \ proxies'
        PROVE  held'[<<a, "proxy">>] = 0
    <3> DEFINE v == <<a, "proxy">>
    <3>1. v \in Vaults
      BY DEF Vaults
    <3>2. held[v] = 0
      BY <1>1, <1>3 DEF ChainInv
    <3>3. \A m \in {m1, m2, m3} : m.to # v /\ m.from # v
      BY <1>3 DEF Lawful
    <3> HIDE DEF v
    <3>4. held'[v] = 0
      BY <1>6, <3>1, <3>2, <3>3
    <3> QED BY <3>4 DEF v
  <2> QED BY <2>1, <2>2, <2>3, <2>4 DEF ChainInv, Default
<1> DEFINE x == [payer |-> payer, events |-> E]
<1>8. x \in Txns
  BY <1>4 DEF Txns
<1>9. TypeOK'
  <2>1. held' \in [Vaults -> Nat]
    <3>1. held' \in [Vaults -> Int]
      BY DEF Carried, Holdings
    <3> QED BY <3>1
  <2>2. feesPaid' \in [Addrs -> Nat]
    <3>1. feesPaid \in [Addrs -> Nat] /\ Fee \in Nat
      BY <1>1, BlockOpsAssumption DEF TypeOK
    <3> QED BY <1>4, <3>1
  <2>3. txns' \in Seq(Txns)
    <3>1. txns \in Seq(Txns)
      BY <1>1 DEF TypeOK
    <3> HIDE DEF x
    <3>2. Append(txns, x) \in Seq(Txns)
      BY <1>8, <3>1
    <3> QED BY <3>2 DEF x
  <2>4. proxies' \subseteq exists' /\ ours' \subseteq exists'
    BY <1>3
  <2> QED BY <1>1, <1>2, <1>3, <2>1, <2>2, <2>3, <2>4 DEF TypeOK
<1>10. /\ BlockTally \in Tallies
       /\ NewTally(accts, << >>, << >>, TRUE) \in Tallies
  BY <1>1, TallyIn
<1>11. BlockTally' = Finish(Looped(BlockTally, payer, E), payer)
  <2> DEFINE base == NewTally(accts, << >>, << >>, TRUE)
  <2>1. BlockTally = FoldLeft(ProcessTxn, base, txns)
    BY DEF BlockTally
  <2>2. BlockTally' = FoldLeft(ProcessTxn, base, Append(txns, x))
    BY <1>2 DEF BlockTally, NewTally, Nothing
  <2>3. txns \in Seq(Txns)
    BY <1>1 DEF TypeOK
  <2> HIDE DEF base, x
  <2>4. BlockTally' = ProcessTxn(BlockTally, x)
    BY <1>8, <1>10, <2>1, <2>2, <2>3, TxnAppend DEF base
  <2> QED BY <2>4, TurnOf DEF x
<1>12. PICK b : b = BlockTally
  OBVIOUS
<1>13. PICK t : t = Looped(BlockTally, payer, E)
  OBVIOUS
<1>14. TallyInv(Finish(t, payer))'
  <2>1. /\ b \in Tallies /\ TallyInv(b) /\ Booked(b, t, N, Q)
        /\ Counted(t, m1, m2, m3)
    BY <1>1, <1>10, <1>12, <1>13
  <2> QED BY <1>1, <2>1, TurnKeeps
<1>15. BlockTally' = Finish(t, payer)
  BY <1>11, <1>13
<1>16. TallyInv(BlockTally)'
  BY <1>14, <1>15 DEF TallyInv
<1> QED BY <1>5, <1>7, <1>9, <1>16 DEF BlockOpsInv

FeeMove(payer) == Move(Default(payer), Default(FeeAddr), Fee)

\* The parts of the move that pays the fee.
LEMMA FeeMoveType ==
  ASSUME NEW payer \in Addrs
  PROVE  /\ FeeMove(payer) \in Moves /\ FeeMove(payer).amount = Fee
         /\ FeeMove(payer).from = <<payer, "default">>
         /\ FeeMove(payer).to = <<FeeAddr, "default">>
BY BlockOpsAssumption DEF FeeMove, Move, Moves, Vaults, Default

\* What a transaction changes besides the accounts.
LEMMA Executed ==
  ASSUME NEW payer, NEW moves, NEW E, Execute(payer, moves, E)
  PROVE  /\ payer \in exists \ (proxies \cup {FeeAddr})
         /\ held' = FoldLeft(ApplyMove, held, Append(moves, FeeMove(payer)))
         /\ \A v \in Vaults : held'[v] >= 0
         /\ txns' = Append(txns, [payer  |-> payer,
                                  events |-> E \o EventsOf(FeeMove(payer))])
         /\ feesPaid' = IF payer \in ours
                          THEN [feesPaid EXCEPT ![payer] = @ + Fee]
                          ELSE feesPaid
         /\ UNCHANGED index
<1>1. held' = FoldLeft(ApplyMove, held, Append(moves, FeeMove(payer)))
  BY DEF Execute, FeeMove
<1>2. \A v \in Vaults : held'[v] >= 0
  BY DEF Execute
<1> QED BY <1>1, <1>2 DEF Execute, FeeMove

\* Moves between vaults of accounts that exist.
Legal(payer, m1, m2) ==
  /\ m1 \in Moves /\ m2 \in Moves
  /\ m1.from[1] \in exists /\ m1.to[1] \in exists
  /\ m2.from[1] \in exists /\ m2.to[1] \in exists
  /\ m1.from[2] = "proxy" => m1.from[1] \in proxies
  /\ m1.to[2] = "proxy" => m1.to[1] \in proxies
  /\ m2.from[2] = "default"
  /\ m2.to[2] = "proxy" => m2.to[1] \in proxies
  /\ payer \in ours => m1.to[1] # FeeAddr /\ m2.to[1] # FeeAddr
  /\ m1.from[2] = "proxy" => m1.to = Receiver(m1.to[1])

\* A transaction that moves FLOW preserves the invariant.
LEMMA FlowKeeps ==
  ASSUME BlockOpsInv, NEW payer, NEW moves, NEW m1, NEW m2, NEW E1, NEW E2,
         MoveFlow(payer, moves), Legal(payer, m1, m2),
         AllEvents(moves) = E1 \o E2,
         Shows1(E1, payer, m1), Shows1(E2, payer, m2),
         Shows2(E1, m1), Shows2(E2, m2),
         Carried(held, FoldLeft(ApplyMove, held,
                                Append(moves, FeeMove(payer))),
                 m1, m2, FeeMove(payer))
  PROVE  BlockOpsInv'
<1> DEFINE m3 == FeeMove(payer)
           E3 == EventsOf(m3)
           E  == (E1 \o E2) \o E3
<1>1. TypeOK /\ ChainInv /\ BlockTally \in Tallies
  BY TallyIn DEF BlockOpsInv
<1>2. Execute(payer, moves, E1 \o E2) /\ UNCHANGED <<exists, proxies, ours>>
  BY DEF MoveFlow
<1>3. /\ payer \in exists \ (proxies \cup {FeeAddr})
      /\ held' = FoldLeft(ApplyMove, held, Append(moves, m3))
      /\ \A v \in Vaults : held'[v] >= 0
      /\ txns' = Append(txns, [payer |-> payer, events |-> E])
      /\ feesPaid' = IF payer \in ours
                       THEN [feesPaid EXCEPT ![payer] = @ + Fee]
                       ELSE feesPaid
      /\ UNCHANGED index
  BY <1>2, Executed
<1>4. payer \in Addrs
  BY <1>1, <1>3 DEF TypeOK
<1>5. /\ m3 \in Moves /\ m3.from = <<payer, "default">>
      /\ m3.to = <<FeeAddr, "default">>
  BY <1>4, FeeMoveType
<1>6. Shows1(E3, payer, m3) /\ Shows2(E3, m3)
  BY <1>4, <1>5, ShowsMove
<1>7. E \in Seq(Events)
  <2>1. E1 \in Seq(Events) /\ E2 \in Seq(Events) /\ E3 \in Seq(Events)
    BY <1>6 DEF Shows1
  <2> HIDE DEF E3
  <2> QED BY <2>1
<1>8. Grown({}, {})
  BY <1>1, <1>2 DEF Grown, ChainInv, TypeOK
<1>9. m3 = Move(Default(payer), Default(FeeAddr), Fee)
  BY DEF FeeMove
<1> HIDE DEF m3
<1>10. Lawful(payer, m1, m2, m3)
  <2>1. exists' = exists
    BY <1>2
  <2>2. FeeAddr \in exists
    BY <1>1 DEF ChainInv
  <2> QED BY <1>3, <1>5, <1>9, <2>1, <2>2 DEF Lawful, Legal
<1>11. Carried(held, held', m1, m2, m3)
  BY <1>3 DEF m3
<1> HIDE DEF E3
<1>12. /\ Booked(BlockTally, Looped(BlockTally, payer, E), {}, {})
       /\ Counted(Looped(BlockTally, payer, E), m1, m2, m3)
  <2>1. m1 \in Moves /\ m2 \in Moves /\ m2.from[2] = "default"
    BY DEF Legal
  <2>2. m3.from[2] = "default"
    BY <1>5
  <2> QED BY <1>1, <1>4, <1>5, <1>6, <2>1, <2>2, LoopsOfMoves
<1> HIDE DEF E
<1> QED BY <1>3, <1>7, <1>8, <1>10, <1>11, <1>12, TransactKeeps

\* The events of no move, of one and of two.
LEMMA AllEventsOf ==
  /\ AllEvents(<< >>) = << >> \o << >>
  /\ \A m \in Moves : AllEvents(<<m>>) = EventsOf(m) \o << >>
  /\ \A m1, m2 \in Moves :
       AllEvents(<<m1, m2>>) = EventsOf(m1) \o EventsOf(m2)
<1>1. AllEvents(<< >>) = << >> \o << >>
  <2> DEFINE E == << >>
             q == [i \in DOMAIN E |-> EventsOf(E[i])]
  <2>1. q = << >>
    OBVIOUS
  <2>2. Len(q) = 0
    BY <2>1
  <2>3. AllEvents(<< >>) = FlattenSeq(q)
    BY DEF AllEvents
  <2> HIDE DEF q
  <2>4. FlattenSeq(q) = q
    BY <2>2, Flatten
  <2> QED BY <2>1, <2>3, <2>4
<1>2. ASSUME NEW m \in Moves
      PROVE  AllEvents(<<m>>) = EventsOf(m) \o << >>
  <2> DEFINE s == <<m>>
             q == [i \in DOMAIN s |-> EventsOf(s[i])]
  <2>1. EventsOf(m) \in Seq(Events)
    BY PiecesOf
  <2>2. q = <<EventsOf(m)>>
    OBVIOUS
  <2>3. Len(q) = 1 /\ q[1] = EventsOf(m)
    BY <2>2
  <2>4. AllEvents(<<m>>) = FlattenSeq(q)
    BY DEF AllEvents
  <2> HIDE DEF q
  <2>5. FlattenSeq(q) = q[1]
    BY <2>3, Flatten
  <2>6. EventsOf(m) \o << >> = EventsOf(m)
    BY <2>1
  <2> QED BY <2>3, <2>4, <2>5, <2>6
<1>3. ASSUME NEW m1 \in Moves, NEW m2 \in Moves
      PROVE  AllEvents(<<m1, m2>>) = EventsOf(m1) \o EventsOf(m2)
  <2> DEFINE s == <<m1, m2>>
             q == [i \in DOMAIN s |-> EventsOf(s[i])]
  <2>1. q = <<EventsOf(m1), EventsOf(m2)>>
    OBVIOUS
  <2>2. Len(q) = 2 /\ q[1] = EventsOf(m1) /\ q[2] = EventsOf(m2)
    BY <2>1
  <2>3. AllEvents(<<m1, m2>>) = FlattenSeq(q)
    BY DEF AllEvents
  <2> HIDE DEF q
  <2>4. FlattenSeq(q) = q[1] \o q[2]
    BY <2>2, Flatten
  <2> QED BY <2>2, <2>3, <2>4
<1> QED BY <1>1, <1>2, <1>3

\* The vaults hold numbers.
LEMMA HeldIn ==
  ASSUME TypeOK
  PROVE  held \in Holdings
BY DEF TypeOK, Holdings

\* A transaction of the fee alone preserves the invariant.
LEMMA NoMoveKeeps ==
  ASSUME BlockOpsInv, NEW payer, MoveFlow(payer, << >>)
  PROVE  BlockOpsInv'
<1>1. TypeOK
  BY DEF BlockOpsInv
<1>2. payer \in exists /\ payer # FeeAddr
  BY Executed DEF MoveFlow
<1>3. payer \in Addrs /\ FeeMove(payer) \in Moves /\ held \in Holdings
  BY <1>1, <1>2, FeeMoveType, HeldIn DEF TypeOK
<1>4. Legal(payer, Null(payer), Null(payer))
  <2>1. /\ Null(payer) \in Moves /\ Null(payer).from = <<payer, "default">>
        /\ Null(payer).to = <<payer, "default">>
    BY <1>3, NullType DEF Default
  <2> QED BY <1>2, <2>1 DEF Legal
<1>5. /\ Shows1(<< >>, payer, Null(payer)) /\ Shows2(<< >>, Null(payer))
  BY <1>3, ShowsNull
<1>6. Carried(held, FoldLeft(ApplyMove, held, Append(<< >>, FeeMove(payer))),
              Null(payer), Null(payer), FeeMove(payer))
  BY <1>3, MovesCarried
<1>7. AllEvents(<< >>) = << >> \o << >>
  BY AllEventsOf
<1> QED BY <1>4, <1>5, <1>6, <1>7, FlowKeeps

\* A transaction of one move does.
LEMMA OneMoveKeeps ==
  ASSUME BlockOpsInv, NEW payer, NEW m, MoveFlow(payer, <<m>>),
         Legal(payer, m, Null(payer))
  PROVE  BlockOpsInv'
<1>1. TypeOK
  BY DEF BlockOpsInv
<1>2. payer \in exists /\ payer # FeeAddr
  BY Executed DEF MoveFlow
<1>3. /\ payer \in Addrs /\ FeeMove(payer) \in Moves /\ held \in Holdings
      /\ m \in Moves
  BY <1>1, <1>2, FeeMoveType, HeldIn DEF TypeOK, Legal
<1>4. /\ Shows1(<< >>, payer, Null(payer)) /\ Shows2(<< >>, Null(payer))
      /\ Shows1(EventsOf(m), payer, m) /\ Shows2(EventsOf(m), m)
  BY <1>3, ShowsNull, ShowsMove
<1>5. Carried(held, FoldLeft(ApplyMove, held, Append(<<m>>, FeeMove(payer))),
              m, Null(payer), FeeMove(payer))
  BY <1>3, MovesCarried
<1>6. AllEvents(<<m>>) = EventsOf(m) \o << >>
  BY <1>3, AllEventsOf
<1> QED BY <1>4, <1>5, <1>6, FlowKeeps

\* A transaction of two moves does.
LEMMA TwoMovesKeep ==
  ASSUME BlockOpsInv, NEW payer, NEW m1, NEW m2, MoveFlow(payer, <<m1, m2>>),
         Legal(payer, m1, m2)
  PROVE  BlockOpsInv'
<1>1. TypeOK
  BY DEF BlockOpsInv
<1>2. payer \in exists /\ payer # FeeAddr
  BY Executed DEF MoveFlow
<1>3. /\ payer \in Addrs /\ FeeMove(payer) \in Moves /\ held \in Holdings
      /\ m1 \in Moves /\ m2 \in Moves
  BY <1>1, <1>2, FeeMoveType, HeldIn DEF TypeOK, Legal
<1>4. /\ Shows1(EventsOf(m1), payer, m1) /\ Shows2(EventsOf(m1), m1)
      /\ Shows1(EventsOf(m2), payer, m2) /\ Shows2(EventsOf(m2), m2)
  BY <1>3, ShowsMove
<1>5. Carried(held, FoldLeft(ApplyMove, held,
                             Append(<<m1, m2>>, FeeMove(payer))),
              m1, m2, FeeMove(payer))
  BY <1>3, MovesCarried
<1>6. AllEvents(<<m1, m2>>) = EventsOf(m1) \o EventsOf(m2)
  BY <1>3, AllEventsOf
<1> QED BY <1>4, <1>5, <1>6, FlowKeeps

\* The vaults of an account.
LEMMA Receives ==
  ASSUME NEW a \in Addrs
  PROVE  /\ Receiver(a)[1] = a /\ Receiver(a) \in Vaults
         /\ Receiver(a)[2] = "proxy" => a \in proxies
         /\ Default(a)[1] = a /\ Default(a)[2] = "default"
         /\ Default(a) \in Vaults
BY DEF Receiver, Default, Vaults

\* A move between vaults.
LEMMA MoveOf ==
  ASSUME NEW v \in Vaults, NEW w \in Vaults, NEW n \in Nat
  PROVE  /\ Move(v, w, n) \in Moves /\ Move(v, w, n).from = v
         /\ Move(v, w, n).to = w
BY DEF Move, Moves

\* The actions that move FLOW preserve the invariant.
LEMMA MoveActions ==
  ASSUME BlockOpsInv, NEW payer \in exists
  PROVE  /\ \A to \in exists, n \in Amounts :
              Transfer(payer, to, n) => BlockOpsInv'
         /\ \A from \in proxies, to \in exists, n \in Amounts \cup {0} :
              ProxyTransfer(payer, from, to, n) => BlockOpsInv'
         /\ \A to1, to2 \in exists, n \in Amounts :
              PayTwo(payer, to1, to2, n) => BlockOpsInv'
         /\ \A to \in proxies, n \in Amounts :
              PayDefaultVault(payer, to, n) => BlockOpsInv'
         /\ Fail(payer) => BlockOpsInv'
<1>1. /\ exists \subseteq Addrs /\ proxies \subseteq exists
      /\ FeeAddr \notin proxies
  BY DEF BlockOpsInv, TypeOK, ChainInv
<1>2. /\ Default(payer) \in Vaults /\ Default(payer)[1] = payer
      /\ Default(payer)[2] = "default"
  BY <1>1, Receives
<1>3. /\ Null(payer) \in Moves /\ Null(payer).from = Default(payer)
      /\ Null(payer).to = Default(payer)
  BY <1>1, NullType
<1>4. Amounts \cup {0} \subseteq Nat
  BY BlockOpsAssumption
<1>5. ASSUME NEW to \in exists, NEW n \in Amounts, Transfer(payer, to, n)
      PROVE  BlockOpsInv'
  <2> DEFINE m == Move(Default(payer), Receiver(to), n)
  <2>1. /\ Receiver(to)[1] = to /\ Receiver(to) \in Vaults
        /\ Receiver(to)[2] = "proxy" => to \in proxies
    BY <1>1, Receives
  <2>2. m \in Moves /\ m.from = Default(payer) /\ m.to = Receiver(to)
    BY <1>2, <1>4, <2>1, MoveOf
  <2>3. MoveFlow(payer, <<m>>) /\ (payer \in ours => to # FeeAddr)
    BY <1>5 DEF Transfer, MayReceive
  <2>4. payer # FeeAddr
    BY <2>3, Executed DEF MoveFlow
  <2> HIDE DEF m
  <2>5. Legal(payer, m, Null(payer))
    BY <1>2, <1>3, <2>1, <2>2, <2>3, <2>4 DEF Legal
  <2> QED BY <2>3, <2>5, OneMoveKeeps
<1>6. ASSUME NEW from \in proxies, NEW to \in exists,
             NEW n \in Amounts \cup {0}, ProxyTransfer(payer, from, to, n)
      PROVE  BlockOpsInv'
  <2> DEFINE v == <<from, "proxy">>
             m == Move(v, Receiver(to), n)
  <2>1. /\ Receiver(to)[1] = to /\ Receiver(to) \in Vaults
        /\ Receiver(to)[2] = "proxy" => to \in proxies
    BY <1>1, Receives
  <2>2. v \in Vaults /\ v[1] = from /\ v[2] = "proxy"
    BY <1>1 DEF Vaults
  <2>3. MoveFlow(payer, <<m>>) /\ (payer \in ours => to # FeeAddr)
    BY <1>6 DEF ProxyTransfer, MayReceive
  <2> HIDE DEF v
  <2>4. m \in Moves /\ m.from = v /\ m.to = Receiver(to)
    BY <1>4, <2>1, <2>2, MoveOf
  <2>5. payer # FeeAddr
    BY <2>3, Executed DEF MoveFlow
  <2> HIDE DEF m
  <2>6. Legal(payer, m, Null(payer))
    BY <1>1, <1>2, <1>3, <2>1, <2>2, <2>3, <2>4, <2>5 DEF Legal
  <2> QED BY <2>3, <2>6, OneMoveKeeps
<1>7. ASSUME NEW to1 \in exists, NEW to2 \in exists, NEW n \in Amounts,
             PayTwo(payer, to1, to2, n)
      PROVE  BlockOpsInv'
  <2> DEFINE m1 == Move(Default(payer), Receiver(to1), n)
             m2 == Move(Default(payer), Receiver(to2), n)
  <2>1. /\ Receiver(to1)[1] = to1 /\ Receiver(to1) \in Vaults
        /\ Receiver(to1)[2] = "proxy" => to1 \in proxies
        /\ Receiver(to2)[1] = to2 /\ Receiver(to2) \in Vaults
        /\ Receiver(to2)[2] = "proxy" => to2 \in proxies
    BY <1>1, Receives
  <2>2. /\ m1 \in Moves /\ m1.from = Default(payer) /\ m1.to = Receiver(to1)
        /\ m2 \in Moves /\ m2.from = Default(payer) /\ m2.to = Receiver(to2)
    BY <1>2, <1>4, <2>1, MoveOf
  <2>3. MoveFlow(payer, <<m1, m2>>) /\ payer \notin ours
    BY <1>7 DEF PayTwo
  <2> HIDE DEF m1, m2
  <2>4. Legal(payer, m1, m2)
    BY <1>2, <2>1, <2>2, <2>3 DEF Legal
  <2> QED BY <2>3, <2>4, TwoMovesKeep
<1>8. ASSUME NEW to \in proxies, NEW n \in Amounts,
             PayDefaultVault(payer, to, n)
      PROVE  BlockOpsInv'
  <2> DEFINE m == Move(Default(payer), Default(to), n)
  <2>1. /\ Default(to)[1] = to /\ Default(to) \in Vaults
        /\ Default(to)[2] = "default"
    BY <1>1, Receives
  <2>2. m \in Moves /\ m.from = Default(payer) /\ m.to = Default(to)
    BY <1>2, <1>4, <2>1, MoveOf
  <2>3. MoveFlow(payer, <<m>>) /\ payer \notin ours
    BY <1>8 DEF PayDefaultVault
  <2> HIDE DEF m
  <2>4. Legal(payer, m, Null(payer))
    BY <1>1, <1>2, <1>3, <2>1, <2>2, <2>3 DEF Legal
  <2> QED BY <2>3, <2>4, OneMoveKeeps
<1>9. ASSUME Fail(payer)
      PROVE  BlockOpsInv'
  BY <1>9, NoMoveKeeps DEF Fail
<1> QED BY <1>5, <1>6, <1>7, <1>8, <1>9

\* A transaction that creates accounts: N are ours, R are those that the tally
\* takes for proxy accounts.
Opens(payer, m) ==
  /\ m \in Moves /\ m.from = <<payer, "default">>
  /\ m.to[2] = "default" /\ m.to[1] \in exists' /\ m.to[1] # FeeAddr

\* A transaction that creates accounts preserves the invariant.
LEMMA CreationKeeps ==
  ASSUME BlockOpsInv, NEW payer, NEW moves, NEW m1, NEW m2, NEW E1, NEW E2,
         NEW N, NEW Q, NEW R,
         Execute(payer, moves, E1 \o E2), Grown(N, Q), N \cap R = N \cap Q,
         Opens(payer, m1), Opens(payer, m2), Shows2(E1, m1), Shows2(E2, m2),
         SameFlows(Fresh(BlockTally),
                   evtloop(Fresh(BlockTally), payer, E1 \o E2)),
         Made(Fresh(BlockTally),
              evtloop(Fresh(BlockTally), payer, E1 \o E2), N, R),
         Carried(held, FoldLeft(ApplyMove, held,
                                Append(moves, FeeMove(payer))),
                 m1, m2, FeeMove(payer))
  PROVE  BlockOpsInv'
<1> DEFINE m3 == FeeMove(payer)
           E3 == EventsOf(m3)
           D  == E1 \o E2
           E  == D \o E3
           f  == Fresh(BlockTally)
           u  == evtloop(f, payer, D)
<1>1. TypeOK /\ ChainInv /\ BlockTally \in Tallies
  BY TallyIn DEF BlockOpsInv
<1>2. /\ payer \in exists \ (proxies \cup {FeeAddr})
      /\ held' = FoldLeft(ApplyMove, held, Append(moves, m3))
      /\ \A v \in Vaults : held'[v] >= 0
      /\ txns' = Append(txns, [payer |-> payer, events |-> E])
      /\ feesPaid' = IF payer \in ours
                       THEN [feesPaid EXCEPT ![payer] = @ + Fee]
                       ELSE feesPaid
      /\ UNCHANGED index
  BY Executed
<1>3. payer \in Addrs
  BY <1>1, <1>2 DEF TypeOK
<1>4. /\ m3 \in Moves /\ m3.from = <<payer, "default">>
      /\ m3.to = <<FeeAddr, "default">>
  BY <1>3, FeeMoveType
<1>5. Shows1(E3, payer, m3) /\ Shows2(E3, m3)
  BY <1>3, <1>4, ShowsMove
<1>6. m3 = Move(Default(payer), Default(FeeAddr), Fee)
  BY DEF FeeMove
<1>7. Carried(held, held', m1, m2, m3)
  BY <1>2
<1> HIDE DEF m3
<1>8. D \in Seq(Events) /\ E3 \in Seq(Events) /\ E \in Seq(Events)
  <2>1. E1 \in Seq(Events) /\ E2 \in Seq(Events) /\ E3 \in Seq(Events)
    BY <1>5 DEF Shows2
  <2> HIDE DEF E3
  <2> QED BY <2>1
<1>9. Lawful(payer, m1, m2, m3)
  <2>1. payer \in exists' /\ FeeAddr \in exists'
    BY <1>1, <1>2 DEF ChainInv, Grown
  <2> QED BY <1>2, <1>4, <1>6, <2>1 DEF Lawful, Opens
<1>10. f \in Tallies
  BY <1>1, FreshTally
<1>11. SameFlows(f, u) /\ Made(f, u, N, R)
  OBVIOUS
<1>12. evtloop(f, payer, E) = u
  <2>1. u \in Tallies
    BY <1>11 DEF SameFlows
  <2>2. evtloop(u, payer, E3) = u
    BY <1>3, <1>4, <2>1, FirstPlain
  <2> HIDE DEF D, E3, f
  <2> QED BY <1>3, <1>8, <1>10, <2>2, FirstLoopConcat
<1> HIDE DEF E3, f, u
<1>13. /\ SameFlows(f, evtloop(f, payer, E))
       /\ Made(f, evtloop(f, payer, E), N, R)
  BY <1>11, <1>12
<1>14. /\ Booked(BlockTally, Looped(BlockTally, payer, E), N, R)
       /\ Counted(Looped(BlockTally, payer, E), m1, m2, m3)
  <2>1. /\ m1 \in Moves /\ m2 \in Moves /\ m1.from[2] = "default"
        /\ m1.to[2] = "default" /\ m2.to[2] = "default"
    BY DEF Opens
  <2>2. m3.to[2] = "default"
    BY <1>4
  <2> QED BY <1>1, <1>3, <1>4, <1>5, <1>13, <2>1, <2>2, LoopsOfCreation
          DEF f
<1>15. Booked(BlockTally, Looped(BlockTally, payer, E), N, Q)
  BY <1>14 DEF Booked
<1> HIDE DEF D, E
<1> QED BY <1>2, <1>7, <1>8, <1>9, <1>14, <1>15, TransactKeeps

\* The code follows the creations of payers that the chain calls ours.
LEMMA FollowsOurs ==
  ASSUME BlockOpsInv, NEW payer \in exists
  PROVE  /\ Tracked(Fresh(BlockTally), payer) <=> payer \in ours
         /\ \A new : Followed(Fresh(BlockTally), payer, new) =
              IF payer \in ours THEN {new} ELSE {new} \cap Originators
<1>1. /\ BlockTally \in Tallies /\ TallyInv(BlockTally)
      /\ exists \cap Originators \subseteq ours
  BY TallyIn DEF BlockOpsInv, ChainInv
<1>2. PICK b : b = BlockTally
  OBVIOUS
<1>3. /\ Fresh(b).known = b.known /\ Fresh(b).new = b.new
      /\ DOMAIN b.known \cup DOMAIN b.new = ours
  BY <1>1, <1>2, FreshTally DEF TallyInv
<1>4. Tracked(Fresh(b), payer) <=> payer \in ours
  BY <1>1, <1>3 DEF Tracked, isTracked
<1>5. ASSUME NEW new
      PROVE  Followed(Fresh(b), payer, new) =
               IF payer \in ours THEN {new} ELSE {new} \cap Originators
  BY <1>4 DEF Followed
<1> QED BY <1>2, <1>4, <1>5

\* create-account.cdc with one public key preserves the invariant.
LEMMA CreateOne ==
  ASSUME BlockOpsInv, NEW payer \in exists, NEW new \in Addrs \ exists,
         CreateAccounts(payer, <<new>>)
  PROVE  BlockOpsInv'
<1> DEFINE s  == <<new>>
           m1 == Funding(payer, new)
           m2 == Null(payer)
           C  == Creation(payer, new)
           f  == Fresh(BlockTally)
           u  == AccountCreated(f, payer, Event("AccountCreated", new, 0))
           N  == Followed(f, payer, new)
           moves  == [i \in DOMAIN s |->
                        Move(Default(payer), Default(s[i]), Reserve)]
           events == [i \in DOMAIN s |-> Creation(payer, s[i])]
<1>1. /\ Execute(payer, moves, FlattenSeq(events))
      /\ exists' = exists \cup Range(s) /\ proxies' = proxies
      /\ BecomeOurs(payer, Range(s))
  BY DEF CreateAccounts
<1>2. /\ TypeOK /\ ChainInv /\ BlockTally \in Tallies /\ exists \subseteq Addrs
      /\ payer \in Addrs /\ f \in Tallies /\ held \in Holdings
  BY TallyIn, FreshTally, HeldIn DEF BlockOpsInv, TypeOK
<1>3. moves = <<m1>>
  BY DEF Funding
<1>4. FlattenSeq(events) = C /\ C \in Seq(Events)
  <2>1. events = <<C>>
    OBVIOUS
  <2>2. Len(events) = 1 /\ events[1] = C
    BY <2>1
  <2> HIDE DEF events
  <2>3. FlattenSeq(events) = C
    BY <2>2, Flatten
  <2> QED BY <1>2, <2>3, CreationLoops
<1>5. Range(s) = {new}
  <2>1. DOMAIN s = {1} /\ s[1] = new
    OBVIOUS
  <2> HIDE DEF s
  <2> QED BY <2>1 DEF Range
<1>6. C \o << >> = C
  BY <1>4
<1>7. Execute(payer, <<m1>>, C \o << >>)
  BY <1>1, <1>3, <1>4, <1>6
<1>8. Shows2(C, m1) /\ Shows2(<< >>, m2) /\ evtloop(f, payer, C) = u
  BY <1>2, CreationLoops, ShowsNull
<1>9. SameFlows(f, u) /\ Made(f, u, N, {})
  BY <1>2, AccountCreatedEffect
<1>10. N = IF payer \in ours THEN {new} ELSE {new} \cap Originators
  BY FollowsOurs
<1>11. new # FeeAddr /\ payer # FeeAddr
  <2>1. payer # FeeAddr
    BY <1>1, Executed
  <2> QED BY <1>2, <2>1 DEF ChainInv
<1> HIDE DEF N, u, f, moves, events, s
<1>12. /\ exists' = exists \cup {new} /\ ours' = ours \cup N
  BY <1>1, <1>5, <1>10 DEF BecomeOurs
<1>13. Grown(N, {})
  BY <1>1, <1>2, <1>10, <1>12 DEF Grown, ChainInv, TypeOK
<1>14. Opens(payer, m1) /\ Opens(payer, m2)
  BY <1>2, <1>11, <1>12, FundingType, NullType DEF Opens, Default
<1>15. Carried(held, FoldLeft(ApplyMove, held, Append(<<m1>>, FeeMove(payer))),
               m1, m2, FeeMove(payer))
  <2>1. m1 \in Moves /\ FeeMove(payer) \in Moves
    BY <1>2, FundingType, FeeMoveType
  <2> QED BY <1>2, <2>1, MovesCarried
<1>16. /\ SameFlows(f, evtloop(f, payer, C \o << >>))
       /\ Made(f, evtloop(f, payer, C \o << >>), N, {})
  BY <1>6, <1>8, <1>9
<1> HIDE DEF m1, m2, C
<1> QED BY <1>7, <1>8, <1>13, <1>14, <1>15, <1>16, CreationKeeps DEF f

\* create-proxy-account.cdc preserves the invariant.
LEMMA CreateProxy ==
  ASSUME BlockOpsInv, NEW payer \in exists,
         NEW new \in Addrs \ (exists \cup Originators),
         CreateProxyAccount(payer, new)
  PROVE  BlockOpsInv'
<1> DEFINE m1 == Funding(payer, new)
           m2 == Null(payer)
           e  == Event("ProxyCreated", new, 0)
           q  == <<e>>
           B  == Creation(payer, new)
           C  == B \o q
           f  == Fresh(BlockTally)
           v  == AccountCreated(f, payer, Event("AccountCreated", new, 0))
           u  == ProxyCreated(v, payer, e)
           N  == Followed(f, payer, new)
<1>1. /\ Execute(payer, <<m1>>, Append(B, e))
      /\ exists' = exists \cup {new} /\ proxies' = proxies \cup {new}
      /\ BecomeOurs(payer, {new})
  BY DEF CreateProxyAccount, Funding
<1>2. /\ TypeOK /\ ChainInv /\ BlockTally \in Tallies /\ exists \subseteq Addrs
      /\ payer \in Addrs /\ f \in Tallies /\ held \in Holdings
      /\ f.addrs = << >> /\ f.keyed = {}
  BY TallyIn, FreshTally, HeldIn DEF BlockOpsInv, TypeOK
<1>3. /\ B \in Seq(Events) /\ Shows2(B, m1) /\ evtloop(f, payer, B) = v
  BY <1>2, CreationLoops
<1>4. e \in Events /\ e.type = "ProxyCreated"
  BY EventType
<1>5. SameFlows(f, u) /\ Made(f, u, N, N)
  BY <1>2, ProxyCreatedEffect
<1>6. v \in Tallies
  BY <1>2, AccountCreatedEffect DEF SameFlows
<1>7. N = IF payer \in ours THEN {new} ELSE {new} \cap Originators
  BY FollowsOurs
<1>8. FirstLoop(v, payer, e) = u
  BY <1>4 DEF FirstLoop
<1> HIDE DEF N, u, v, f, B, e
<1>9. q \in Seq(Events)
  BY <1>4
<1>10. Append(B, e) = C /\ Shows2(C, m1)
  BY <1>3, <1>4, ShowsQuiet
<1>11. C \in Seq(Events) /\ C \o << >> = C
  <2>1. C \in Seq(Events)
    BY <1>10 DEF Shows2
  <2> HIDE DEF C
  <2> QED BY <2>1
<1>12. evtloop(v, payer, q) = u
  BY <1>2, <1>4, <1>6, <1>8, FirstLoopShort
<1> HIDE DEF q
<1>13. evtloop(f, payer, C) = u
  BY <1>2, <1>3, <1>9, <1>12, FirstLoopConcat
<1> HIDE DEF C
<1>14. Execute(payer, <<m1>>, C \o << >>)
  BY <1>1, <1>10, <1>11
<1>15. Shows2(<< >>, m2)
  BY <1>2, ShowsNull
<1>16. new # FeeAddr /\ payer # FeeAddr
  <2>1. payer # FeeAddr
    BY <1>1, Executed
  <2> QED BY <1>2, <2>1 DEF ChainInv
<1>17. ours' = ours \cup N
  BY <1>1, <1>7 DEF BecomeOurs
<1>18. Grown(N, {new}) /\ N \cap N = N \cap {new}
  BY <1>1, <1>2, <1>7, <1>17 DEF Grown, ChainInv, TypeOK
<1>19. Opens(payer, m1) /\ Opens(payer, m2)
  BY <1>1, <1>2, <1>16, FundingType, NullType DEF Opens, Default
<1>20. Carried(held, FoldLeft(ApplyMove, held, Append(<<m1>>, FeeMove(payer))),
               m1, m2, FeeMove(payer))
  <2>1. m1 \in Moves /\ FeeMove(payer) \in Moves
    BY <1>2, FundingType, FeeMoveType
  <2> QED BY <1>2, <2>1, MovesCarried
<1>21. /\ SameFlows(f, evtloop(f, payer, C \o << >>))
       /\ Made(f, evtloop(f, payer, C \o << >>), N, N)
  BY <1>5, <1>11, <1>13
<1> HIDE DEF m1, m2
<1> QED BY <1>10, <1>14, <1>15, <1>18, <1>19, <1>20, <1>21, CreationKeeps
        DEF f

\* create-account.cdc with two public keys preserves the invariant.
LEMMA CreateTwo ==
  ASSUME BlockOpsInv, NEW payer \in exists, NEW new1 \in Addrs \ exists,
         NEW new2 \in Addrs \ exists, new1 # new2,
         CreateAccounts(payer, <<new1, new2>>)
  PROVE  BlockOpsInv'
<1> DEFINE s  == <<new1, new2>>
           m1 == Funding(payer, new1)
           m2 == Funding(payer, new2)
           C1 == Creation(payer, new1)
           C2 == Creation(payer, new2)
           f  == Fresh(BlockTally)
           v  == AccountCreated(f, payer, Event("AccountCreated", new1, 0))
           u  == AccountCreated(v, payer, Event("AccountCreated", new2, 0))
           N1 == Followed(f, payer, new1)
           N2 == Followed(v, payer, new2)
           N  == N1 \cup N2
           moves  == [i \in DOMAIN s |->
                        Move(Default(payer), Default(s[i]), Reserve)]
           events == [i \in DOMAIN s |-> Creation(payer, s[i])]
<1>1. /\ Execute(payer, moves, FlattenSeq(events))
      /\ exists' = exists \cup Range(s) /\ proxies' = proxies
      /\ BecomeOurs(payer, Range(s))
  BY DEF CreateAccounts
<1>2. /\ TypeOK /\ ChainInv /\ BlockTally \in Tallies /\ exists \subseteq Addrs
      /\ payer \in Addrs /\ f \in Tallies /\ held \in Holdings
  BY TallyIn, FreshTally, HeldIn DEF BlockOpsInv, TypeOK
<1>3. moves = <<m1, m2>>
  BY DEF Funding
<1>4. FlattenSeq(events) = C1 \o C2
  <2>1. events = <<C1, C2>>
    OBVIOUS
  <2>2. Len(events) = 2 /\ events[1] = C1 /\ events[2] = C2
    BY <2>1
  <2> HIDE DEF events
  <2> QED BY <2>2, Flatten
<1>5. Range(s) = {new1, new2}
  <2>1. DOMAIN s = {1, 2} /\ s[1] = new1 /\ s[2] = new2
    OBVIOUS
  <2> HIDE DEF s
  <2> QED BY <2>1 DEF Range
<1>6. Execute(payer, <<m1, m2>>, C1 \o C2)
  BY <1>1, <1>3, <1>4
<1>7. /\ SameFlows(f, v) /\ Made(f, v, N1, {})
      /\ Tracked(v, payer) <=> Tracked(f, payer)
  BY <1>2, AccountCreatedEffect
<1>8. v \in Tallies
  BY <1>7 DEF SameFlows
<1>9. /\ SameFlows(v, u) /\ Made(v, u, N2, {})
  BY <1>2, <1>8, AccountCreatedEffect
<1>10. /\ N1 = IF payer \in ours THEN {new1} ELSE {new1} \cap Originators
       /\ N2 = IF payer \in ours THEN {new2} ELSE {new2} \cap Originators
  <2>1. /\ Tracked(f, payer) <=> payer \in ours
        /\ N1 = IF payer \in ours THEN {new1} ELSE {new1} \cap Originators
    BY FollowsOurs
  <2>2. N2 = IF payer \in ours THEN {new2} ELSE {new2} \cap Originators
    BY <1>7, <2>1 DEF Followed
  <2> QED BY <2>1, <2>2
<1>11. /\ C1 \in Seq(Events) /\ C2 \in Seq(Events)
       /\ Shows2(C1, m1) /\ Shows2(C2, m2)
       /\ evtloop(f, payer, C1) = v /\ evtloop(v, payer, C2) = u
  BY <1>2, <1>8, CreationLoops
<1>12. new1 # FeeAddr /\ new2 # FeeAddr
  BY <1>2 DEF ChainInv
<1> HIDE DEF N1, N2, u, v, f, moves, events, s, C1, C2
<1>13. evtloop(f, payer, C1 \o C2) = u
  BY <1>2, <1>11, FirstLoopConcat
<1>14. SameFlows(f, u) /\ Made(f, u, N, {})
  <2>1. SameFlows(f, u)
    BY <1>7, <1>9 DEF SameFlows
  <2>2. N1 \cap N2 = {}
    BY <1>10
  <2>3. Made(f, u, N, {})
    BY <1>7, <1>9, <2>2 DEF Made
  <2> QED BY <2>1, <2>3
<1>15. /\ exists' = exists \cup {new1, new2} /\ ours' = ours \cup N
  BY <1>1, <1>5, <1>10 DEF BecomeOurs
<1>16. N \subseteq {new1, new2} /\ {new1, new2} \cap Originators \subseteq N
  BY <1>10
<1> HIDE DEF N
<1>17. Grown(N, {})
  BY <1>1, <1>2, <1>15, <1>16 DEF Grown, ChainInv, TypeOK
<1>18. Opens(payer, m1) /\ Opens(payer, m2)
  BY <1>2, <1>12, <1>15, FundingType DEF Opens
<1>19. Carried(held, FoldLeft(ApplyMove, held,
                              Append(<<m1, m2>>, FeeMove(payer))),
               m1, m2, FeeMove(payer))
  <2>1. m1 \in Moves /\ m2 \in Moves /\ FeeMove(payer) \in Moves
    BY <1>2, FundingType, FeeMoveType
  <2> QED BY <1>2, <2>1, MovesCarried
<1> HIDE DEF m1, m2
<1> QED BY <1>6, <1>11, <1>13, <1>14, <1>17, <1>18, <1>19, CreationKeeps
        DEF f

\* Every transaction preserves the invariant.
LEMMA TransactStep ==
  ASSUME BlockOpsInv, Transact
  PROVE  BlockOpsInv'
<1>1. PICK payer \in exists :
        \/ \E new \in Addrs \ exists : CreateAccounts(payer, <<new>>)
        \/ \E new1, new2 \in Addrs \ exists :
             new1 # new2 /\ CreateAccounts(payer, <<new1, new2>>)
        \/ \E new \in Addrs \ (exists \cup Originators) :
             CreateProxyAccount(payer, new)
        \/ \E to \in exists, n \in Amounts : Transfer(payer, to, n)
        \/ \E from \in proxies, to \in exists, n \in Amounts \cup {0} :
             ProxyTransfer(payer, from, to, n)
        \/ \E to1, to2 \in exists, n \in Amounts :
             to1 # to2 /\ PayTwo(payer, to1, to2, n)
        \/ \E to \in proxies, n \in Amounts : PayDefaultVault(payer, to, n)
        \/ Fail(payer)
  BY DEF Transact
<1>2. CASE \E new \in Addrs \ exists : CreateAccounts(payer, <<new>>)
  BY <1>2, CreateOne
<1>3. CASE \E new1, new2 \in Addrs \ exists :
             new1 # new2 /\ CreateAccounts(payer, <<new1, new2>>)
  BY <1>3, CreateTwo
<1>4. CASE \E new \in Addrs \ (exists \cup Originators) :
             CreateProxyAccount(payer, new)
  BY <1>4, CreateProxy
<1>5. CASE \/ \E to \in exists, n \in Amounts : Transfer(payer, to, n)
           \/ \E from \in proxies, to \in exists, n \in Amounts \cup {0} :
                ProxyTransfer(payer, from, to, n)
           \/ \E to1, to2 \in exists, n \in Amounts :
                to1 # to2 /\ PayTwo(payer, to1, to2, n)
           \/ \E to \in proxies, n \in Amounts : PayDefaultVault(payer, to, n)
           \/ Fail(payer)
  BY <1>5, MoveActions
<1> QED BY <1>1, <1>2, <1>3, <1>4, <1>5

-----------------------------------------------------------------------------
(***************************************************************************)
(* The initial state, the actions of the indexer, and the theorems.        *)
(***************************************************************************)

\* A block of no transactions has nothing for the index.
LEMMA EmptyBlock ==
  ASSUME NEW known \in MapsTo(BOOLEAN)
  PROVE  LET b == FoldLeft(ProcessTxn, NewTally(known, << >>, << >>, TRUE),
                           << >>)
         IN  /\ b.known = known /\ b.ok /\ b.ops = << >> /\ DOMAIN b.new = {}
             /\ DOMAIN Diffs(b.ops) = {} /\ ProxiesCreated(b.ops) = {}
             /\ \A a \in Addrs : Change(b.ops, a) = 0
             /\ \A a \in Addrs : FeesIn(b.ops, a) = 0
<1> DEFINE base == NewTally(known, << >>, << >>, TRUE)
<1>1. << >> \in MapsTo(BOOLEAN) /\ << >> \in Seq(Ops)
  <2>1. DOMAIN << >> = {}
    OBVIOUS
  <2>2. << >> \in [DOMAIN << >> -> BOOLEAN]
    OBVIOUS
  <2>3. << >> \in MapsTo(BOOLEAN)
    BY <2>1, <2>2, IsMap
  <2> QED BY <2>3
<1>2. base \in Tallies
  BY <1>1, NewTallyType
<1>3. /\ base.known = known /\ base.ok /\ base.ops = << >>
      /\ DOMAIN base.new = {}
  BY DEF NewTally
<1> HIDE DEF base
<1>4. FoldLeft(ProcessTxn, base, << >>) = base
  BY <1>2, NoTxns
<1> QED BY <1>3, <1>4, NoOps DEF base

\* The invariant of the tally when there are no transactions.
Even ==
  /\ DOMAIN accts = ours
  /\ \A a \in ours : accts[a] <=> a \in proxies
  /\ \A a \in ours : Balance(a) = held[Receiver(a)]
  /\ \A a \in Addrs : feesIndexed[a] = feesPaid[a]

\* Without transactions, the invariant of the tally says Even.
LEMMA EvenTally ==
  TypeOK /\ txns = << >> => (TallyInv(BlockTally) <=> Even)
<1> SUFFICES ASSUME TypeOK, txns = << >>
             PROVE  TallyInv(BlockTally) <=> Even
  OBVIOUS
<1>1. accts \in MapsTo(BOOLEAN)
  BY IsMap DEF TypeOK
<1>2. PICK b : b = BlockTally
  OBVIOUS
<1>3. /\ b.known = accts /\ b.ok /\ DOMAIN b.new = {}
      /\ DOMAIN Diffs(b.ops) = {} /\ ProxiesCreated(b.ops) = {}
      /\ \A a \in Addrs : Change(b.ops, a) = 0
      /\ \A a \in Addrs : FeesIn(b.ops, a) = 0
  BY <1>1, <1>2, EmptyBlock DEF BlockTally
<1>4. /\ DOMAIN accts \subseteq Addrs /\ ours \subseteq Addrs
      /\ feesIndexed \in [Addrs -> Nat]
      /\ balances \in [DOMAIN balances -> Nat]
  BY DEF TypeOK
<1>5. \A a \in ours : Balance(a) + Change(b.ops, a) = Balance(a)
  BY <1>3, <1>4 DEF Balance
<1>6. \A a \in Addrs : feesIndexed[a] + FeesIn(b.ops, a) = feesIndexed[a]
  BY <1>3, <1>4
<1>7. TallyInv(b) <=> Even
  BY <1>3, <1>5, <1>6 DEF TallyInv, Even
<1> QED BY <1>2, <1>7

\* The invariant holds at the start.
LEMMA InitInv == Init => BlockOpsInv
<1> SUFFICES ASSUME Init PROVE BlockOpsInv
  OBVIOUS
<1>1. TypeOK
  <2>1. held \in [Vaults -> Nat]
    BY BlockOpsAssumption DEF Init
  <2>2. Nothing \in [Addrs -> Nat]
    BY DEF Nothing
  <2>3. DOMAIN << >> = {} /\ << >> \in [DOMAIN << >> -> BOOLEAN]
        /\ << >> \in [DOMAIN << >> -> Nat]
    OBVIOUS
  <2>4. << >> \in Seq(Txns)
    OBVIOUS
  <2> QED BY <2>1, <2>2, <2>3, <2>4, BlockOpsAssumption DEF Init, TypeOK
<1>2. ChainInv
  <2>1. \A v \in Vaults : held[v] = IF v[1] \in Outsiders /\ v[2] = "default"
                                      THEN Funds ELSE 0
    BY DEF Init
  <2>2. \A a \in Addrs : /\ <<a, "default">> \in Vaults
                         /\ <<a, "proxy">> \in Vaults
    BY DEF Vaults
  <2>3. \A a \in Addrs \ exists : held[Default(a)] = 0
    BY <2>1, <2>2 DEF Init, Default
  <2>4. \A a \in Addrs : held[<<a, "proxy">>] = 0
    BY <2>1, <2>2
  <2> QED BY <2>3, <2>4, BlockOpsAssumption DEF Init, ChainInv
<1>3. StoreInv
  <2>1. DOMAIN << >> = {}
    OBVIOUS
  <2> QED BY <2>1 DEF Init, StoreInv
<1>4. Even
  <2>1. DOMAIN << >> = {}
    OBVIOUS
  <2> QED BY <2>1 DEF Init, Even
<1>5. TallyInv(BlockTally)
  BY <1>1, <1>4, EvenTally DEF Init
<1> QED BY <1>1, <1>2, <1>3, <1>5 DEF BlockOpsInv

\* Processing the block preserves the invariant: nothing is refused, and the
\* index takes over the tally.
LEMMA ProcessBlockStep ==
  ASSUME BlockOpsInv, ProcessBlock
  PROVE  BlockOpsInv'
<1>1. TypeOK /\ ChainInv /\ StoreInv /\ TallyInv(BlockTally)
  BY DEF BlockOpsInv
<1>2. PICK b : b = BlockTally
  OBVIOUS
<1>3. b \in Tallies /\ TallyInv(b)
  BY <1>1, <1>2, TallyIn
<1> DEFINE d   == Diffs(b.ops)
           new == [a \in DOMAIN d |-> Balance(a) + d[a]]
<1>4. /\ b.ops \in Seq(Ops) /\ b.new \in MapsTo(BOOLEAN)
      /\ DOMAIN b.new \subseteq Addrs
      /\ b.new \in [DOMAIN b.new -> BOOLEAN]
  BY <1>3, TallyFields, IsMap
<1>5. d \in [DOMAIN d -> Int] /\ \A a : FeesIn(b.ops, a) \in Nat
  BY <1>4, OpsTypes, IsMap
<1>6. /\ ours \subseteq exists /\ exists \subseteq Addrs
      /\ held \in [Vaults -> Nat] /\ feesIndexed \in [Addrs -> Nat]
      /\ balances \in [DOMAIN balances -> Nat]
      /\ DOMAIN accts \subseteq Addrs /\ accts \in [DOMAIN accts -> BOOLEAN]
      /\ DOMAIN balances = DOMAIN accts
      /\ \A a \in DOMAIN accts : accts[a] <=> a \in proxyKeys
      /\ proxyKeys \subseteq DOMAIN accts
  BY <1>1 DEF TypeOK, StoreInv
<1>7. /\ b.ok /\ DOMAIN accts \cup DOMAIN b.new = ours
      /\ DOMAIN accts \cap DOMAIN b.new = {}
      /\ \A a \in DOMAIN accts : accts[a] <=> a \in proxies
      /\ \A a \in DOMAIN b.new : b.new[a] <=> a \in proxies
      /\ DOMAIN b.new \subseteq DOMAIN d /\ DOMAIN d \subseteq ours
      /\ ProxiesCreated(b.ops) = DOMAIN b.new \cap proxies
      /\ \A a \in ours : Balance(a) + Change(b.ops, a) = held[Receiver(a)]
      /\ \A a \in Addrs : feesIndexed[a] + FeesIn(b.ops, a) = feesPaid[a]
  BY <1>3 DEF TallyInv
<1>8. \A a \in ours : held[Receiver(a)] \in Nat
  <2>1. \A a \in ours : Receiver(a) \in Vaults
    BY <1>6, Receives
  <2> QED BY <1>6, <2>1
<1>9. \A a \in DOMAIN d : d[a] = Change(b.ops, a)
  BY DEF Change
<1>10. \A a \in ours : a \notin DOMAIN d => Change(b.ops, a) = 0
  BY DEF Change
<1>11. /\ \A a \in DOMAIN new : new[a] = held[Receiver(a)] /\ new[a] \in Nat
       /\ DOMAIN new = DOMAIN d
  BY <1>7, <1>8, <1>9
<1>12. ~stuck' /\ balances' = PutAll(balances, new)
       /\ proxyKeys' = proxyKeys \cup ProxiesCreated(b.ops)
       /\ accts' = PutAll(accts, b.new)
       /\ feesIndexed' = [a \in Addrs |-> feesIndexed[a] + FeesIn(b.ops, a)]
       /\ txns' = << >> /\ UNCHANGED chain
  <2>1. \A a \in DOMAIN new : new[a] >= 0
    BY <1>11
  <2> QED BY <1>2, <1>7, <2>1 DEF ProcessBlock, UpdatedAccts
<1>13. /\ held' = held /\ exists' = exists /\ proxies' = proxies
       /\ ours' = ours /\ feesPaid' = feesPaid
  BY <1>12 DEF chain
<1>14. /\ DOMAIN accts' = ours
       /\ \A a \in ours : accts'[a] = IF a \in DOMAIN b.new THEN b.new[a]
                                                            ELSE accts[a]
  BY <1>7, <1>12 DEF PutAll
<1>15. /\ DOMAIN balances' = ours
       /\ \A a \in ours : balances'[a] = IF a \in DOMAIN d THEN new[a]
                                                           ELSE balances[a]
       /\ balances' = [a \in ours |-> balances'[a]]
  <2>1. DOMAIN balances \cup DOMAIN new = ours
    BY <1>6, <1>7, <1>11
  <2> HIDE DEF new
  <2>2. balances' = [k \in ours |-> IF k \in DOMAIN new THEN new[k]
                                                        ELSE balances[k]]
    BY <1>12, <2>1 DEF PutAll
  <2> QED BY <1>11, <2>2
<1> HIDE DEF new, d
<1>16. \A a \in ours : balances'[a] = held[Receiver(a)]
  <2>1. ASSUME NEW a \in ours, a \notin DOMAIN d
        PROVE  balances[a] = held[Receiver(a)]
    <3>1. a \in DOMAIN balances
      BY <1>6, <1>7, <2>1
    <3>2. Balance(a) = balances[a] /\ balances[a] \in Nat
      BY <1>6, <3>1 DEF Balance
    <3>3. Balance(a) + 0 = held[Receiver(a)]
      BY <1>7, <1>10, <2>1
    <3> QED BY <3>2, <3>3
  <2> QED BY <1>11, <1>15, <2>1
<1>17. feesIndexed' = [a \in Addrs |-> feesPaid[a]]
  BY <1>7, <1>12
<1>18. TypeOK'
  <2>1. feesPaid \in [Addrs -> Nat] /\ feesIndexed' \in [Addrs -> Nat]
    BY <1>1, <1>17 DEF TypeOK
  <2>2. txns' \in Seq(Txns)
    BY <1>12
  <2>3. \A a \in ours : accts'[a] \in BOOLEAN
    BY <1>4, <1>6, <1>7, <1>14
  <2>4. accts' = [a \in ours |-> accts'[a]]
    BY <1>7, <1>12 DEF PutAll
  <2>5. accts' \in [DOMAIN accts' -> BOOLEAN]
    BY <1>14, <2>3, <2>4
  <2>6. balances' \in [DOMAIN balances' -> Nat]
    BY <1>8, <1>15, <1>16
  <2>7. proxyKeys' \subseteq Addrs
    BY <1>4, <1>6, <1>7, <1>12
  <2>8. DOMAIN accts' \subseteq Addrs
    BY <1>6, <1>14
  <2> QED BY <1>1, <1>13, <2>1, <2>2, <2>5, <2>6, <2>7, <2>8 DEF TypeOK
<1>19. ChainInv'
  BY <1>1, <1>13 DEF ChainInv, Default
<1>20. \A a \in ours : accts'[a] <=> a \in proxies
  BY <1>7, <1>14
<1>21. StoreInv'
  <2>1. proxyKeys' = proxyKeys \cup (DOMAIN b.new \cap proxies)
    BY <1>7, <1>12
  <2>2. \A a \in ours : a \in proxyKeys' <=> a \in proxies
    BY <1>6, <1>7, <2>1
  <2>3. proxyKeys' \subseteq ours
    BY <1>6, <1>7, <2>1
  <2> QED BY <1>12, <1>14, <1>15, <1>20, <2>2, <2>3 DEF StoreInv
<1>22. Even'
  <2>1. \A a \in ours : Balance(a)' = held[Receiver(a)]
    BY <1>15, <1>16 DEF Balance
  <2>2. \A a : Receiver(a)' = Receiver(a)
    BY <1>13 DEF Receiver, Default
  <2>3. \A a \in Addrs : feesIndexed'[a] = feesPaid'[a]
    BY <1>13, <1>17
  <2> QED BY <1>13, <1>14, <1>20, <2>1, <2>2, <2>3 DEF Even
<1>23. (TypeOK /\ txns = << >> => (TallyInv(BlockTally) <=> Even))'
  BY EvenTally, PTL
<1> QED BY <1>12, <1>18, <1>19, <1>21, <1>22, <1>23 DEF BlockOpsInv

\* A restart changes nothing, as Store.Accounts gives the accounts that the
\* process has.
LEMMA RestartStep ==
  ASSUME BlockOpsInv, Restart
  PROVE  UNCHANGED vars
<1>1. StoredAccts = accts
  <2>1. /\ DOMAIN balances = DOMAIN accts
        /\ \A a \in DOMAIN accts : accts[a] <=> a \in proxyKeys
        /\ accts \in [DOMAIN accts -> BOOLEAN]
    BY DEF BlockOpsInv, StoreInv, TypeOK
  <2>2. \A a \in DOMAIN accts : accts[a] = (a \in proxyKeys)
    BY <2>1
  <2> QED BY <2>1, <2>2 DEF StoredAccts
<1> QED BY <1>1 DEF Restart, vars, chain, index

\* A step that changes nothing preserves the invariant.
LEMMA StutterStep ==
  ASSUME BlockOpsInv, UNCHANGED vars
  PROVE  BlockOpsInv'
<1>1. /\ held' = held /\ exists' = exists /\ proxies' = proxies
      /\ ours' = ours /\ feesPaid' = feesPaid /\ txns' = txns
      /\ accts' = accts /\ balances' = balances /\ proxyKeys' = proxyKeys
      /\ feesIndexed' = feesIndexed /\ stuck' = stuck
  BY DEF vars, chain, index
<1>2. TypeOK' /\ ChainInv' /\ StoreInv'
  BY <1>1 DEF BlockOpsInv, TypeOK, ChainInv, StoreInv, Default
<1>3. PICK b : b = BlockTally
  OBVIOUS
<1>4. BlockTally' = b
  BY <1>1, <1>3 DEF BlockTally
<1>5. \A a : Balance(a)' = Balance(a) /\ Receiver(a)' = Receiver(a)
  BY <1>1 DEF Balance, Receiver, Default
<1>6. TallyInv(b)'
  BY <1>1, <1>3, <1>5 DEF BlockOpsInv, TallyInv
<1> QED BY <1>2, <1>4, <1>6 DEF BlockOpsInv, TallyInv

\* What is in the index and on the chain, and what the transactions of the
\* block in hand will add to the index, agree at every moment: the invariant
\* that processBlock (src/state/process.go) maintains from one block to the
\* next, whatever the transactions and however many a block has.
THEOREM BlockOpsInvariant == Spec => []BlockOpsInv
<1>1. Init => BlockOpsInv
  BY InitInv
<1>2. BlockOpsInv /\ [Next]_vars => BlockOpsInv'
  <2> SUFFICES ASSUME BlockOpsInv, [Next]_vars PROVE BlockOpsInv'
    OBVIOUS
  <2>1. CASE Transact
    BY <2>1, TransactStep
  <2>2. CASE ProcessBlock
    BY <2>2, ProcessBlockStep
  <2>3. CASE Restart
    BY <2>3, RestartStep, StutterStep
  <2>4. CASE UNCHANGED vars
    BY <2>4, StutterStep
  <2> QED BY <2>1, <2>2, <2>3, <2>4 DEF Next
<1> QED BY <1>1, <1>2, PTL DEF Spec

\* After each block the tracked accounts are those that descend from an
\* originator, proxy accounts are known as such, and the indexed balance of
\* each is what its vault holds: validateBalances has nothing to report.
THEOREM BalancesAlwaysMatch == Spec => []BalancesMatch
<1>1. BlockOpsInv => BalancesMatch
  <2> SUFFICES ASSUME BlockOpsInv, txns = << >> PROVE BalancesMatch
    BY DEF BalancesMatch, Settled
  <2>1. Even /\ TypeOK
    BY EvenTally DEF BlockOpsInv
  <2>2. \A a \in ours : accts[a] \in BOOLEAN
    BY <2>1 DEF Even, TypeOK
  <2> QED BY <2>1, <2>2 DEF Even, BalancesMatch
<1> QED BY <1>1, BlockOpsInvariant, PTL

\* The FEE operations of an account add up to the fees that it paid, whatever
\* else its transactions withdrew and deposited.
THEOREM FeesAlwaysMatch == Spec => []FeesMatch
<1>1. BlockOpsInv => FeesMatch
  BY EvenTally DEF BlockOpsInv, Even, FeesMatch, Settled
<1> QED BY <1>1, BlockOpsInvariant, PTL

\* No block of transactions makes processBlock give up on it, and Index never
\* refuses one for a negative balance: the outer loop does not repeat a block
\* for ever.
THEOREM ProcessBlockNeverStuck == Spec => []NeverStuck
<1>1. BlockOpsInv => NeverStuck
  BY DEF BlockOpsInv, StoreInv, NeverStuck
<1> QED BY <1>1, BlockOpsInvariant, PTL

\* A process that starts on the index (initState, Store.Accounts) tracks the
\* accounts that the one before it did, as what it was.
THEOREM RestartsAreNeutral == Spec => []RestartNeutral
<1>1. BlockOpsInv => RestartNeutral
  <2> SUFFICES ASSUME BlockOpsInv PROVE RestartNeutral
    OBVIOUS
  <2>1. /\ DOMAIN balances = DOMAIN accts
        /\ \A a \in DOMAIN accts : accts[a] <=> a \in proxyKeys
        /\ proxyKeys \subseteq DOMAIN balances
    BY DEF BlockOpsInv, StoreInv
  <2>2. DOMAIN << >> = {}
    OBVIOUS
  <2>3. \A a \in Addrs : isTracked(a, accts, << >>) <=>
                           a \in DOMAIN StoredAccts \cup Originators
    BY <2>1, <2>2 DEF isTracked, StoredAccts
  <2>4. \A a \in Addrs : isProxy(a, accts, << >>) <=>
                           a \in DOMAIN StoredAccts /\ StoredAccts[a]
    BY <2>1, <2>2 DEF isProxy, StoredAccts
  <2> QED BY <2>1, <2>3, <2>4 DEF RestartNeutral
<1> QED BY <1>1, BlockOpsInvariant, PTL

=============================================================================
