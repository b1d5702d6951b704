-------------------------- MODULE ValidationProofs --------------------------
(***************************************************************************)
(* Proofs about the balance validation, for every set of accounts, every   *)
(* configuration of fee receivers and every chain length.                  *)
(***************************************************************************)
EXTENDS Validation, SequenceTheorems, FiniteSetTheorems, TLAPS

(* The kinds of errors make messages.                                      *)
LEMMA IsMessage ==
  ASSUME NEW a \in Accounts, NEW h \in 1..MaxHeight,
         NEW k \in {"proxy status", "balance", "proxy balance"}
  PROVE  Message(k, a, h) \in Messages
  BY DEF Message, Messages

(* A sequence that has an element or none.                                 *)
LEMMA AtMostOne ==
  ASSUME NEW S, NEW x \in S, NEW c \in BOOLEAN
  PROVE  LET s == IF c THEN <<x>> ELSE <<>>
         IN  s \in Seq(S) /\ \A k \in 1..Len(s) : s[k] = x
<1>1. <<x>> \in Seq(S) /\ Len(<<x>>) = 1 /\ <<x>>[1] = x
  OBVIOUS
<1>2. <<>> \in Seq(S) /\ Len(<<>>) = 0
  OBVIOUS
<1>3. \A k \in 1..1 : k = 1
  OBVIOUS
<1>4. 1..0 = {}
  OBVIOUS
<1>5. CASE c
  BY <1>1, <1>3, <1>5
<1>6. CASE ~c
  BY <1>2, <1>4, <1>6
<1> QED BY <1>5, <1>6

(* A comparison finds a sequence of messages, about the account and the    *)
(* block that are compared.                                                *)
LEMMA MismatchesType ==
  ASSUME NEW a \in Accounts, NEW isProxy, NEW s, s.height \in 1..MaxHeight, NEW data
  PROVE  LET m == mismatches(a, isProxy, s, data)
         IN  /\ m \in Seq(Messages)
             /\ \A k \in 1..Len(m) : m[k].acct = a /\ m[k].height = s.height
<1> DEFINE kind  == IF data.isProxy THEN "proxy balance" ELSE "balance"
           first == Message("proxy status", a, s.height)
           then  == Message(kind, a, s.height)
           m     == mismatches(a, isProxy, s, data)
<1>1. first \in Messages /\ then \in Messages
  BY IsMessage
<1>2. /\ first.acct = a /\ first.height = s.height
      /\ then.acct = a /\ then.height = s.height
  BY DEF Message
<1> DEFINE balance == IF data.isProxy THEN data.proxy ELSE data.default
           p == IF isProxy # data.isProxy THEN <<first>> ELSE <<>>
           q == IF s.balance # balance THEN <<then>> ELSE <<>>
<1>3. m = p \o q
  BY DEF mismatches
<1> HIDE DEF first, then, m
<1>4. /\ p \in Seq(Messages) /\ \A k \in 1..Len(p) : p[k] = first
      /\ q \in Seq(Messages) /\ \A k \in 1..Len(q) : q[k] = then
  BY <1>1, AtMostOne
<1> HIDE DEF p, q
<1>5. /\ m \in Seq(Messages)
      /\ Len(m) = Len(p) + Len(q)
      /\ \A k \in 1..Len(m) : m[k] = IF k <= Len(p) THEN p[k] ELSE q[k - Len(p)]
  BY <1>3, <1>4, ConcatProperties
<1>6. \A k \in 1..Len(m) : m[k] \in {first, then}
  <2> TAKE k \in 1..Len(m)
  <2>1. k \in Int /\ Len(p) \in Nat /\ Len(q) \in Nat
    BY <1>4
  <2>2. CASE k <= Len(p)
    BY <1>4, <1>5, <2>1, <2>2
  <2>3. CASE ~(k <= Len(p))
    <3>1. k - Len(p) \in 1..Len(q)
      BY <1>5, <2>1, <2>3
    <3> QED BY <1>4, <1>5, <2>3, <3>1
  <2> QED BY <2>2, <2>3
<1> QED BY <1>2, <1>5, <1>6 DEF m

-----------------------------------------------------------------------------
(* Shape is inductive by itself.                                           *)

LEMMA InitShape == Init => Shape
  BY ValidationAssumption DEF Init, Shape, Visiting

LEMMA NextShape ==
  ASSUME Shape, [Next]_vars
  PROVE  Shape'
<1> USE ValidationAssumption DEF Shape, Visiting, chainVars, passVars, Checked, skipped
<1>1. CASE Seal
  BY <1>1 DEF Seal
<1>2. CASE IndexBlock
  BY <1>2 DEF IndexBlock
<1>3. CASE \E b \in BOOLEAN : SetSynced(b)
  BY <1>3 DEF SetSynced
<1>4. CASE ListAccounts
  BY <1>4 DEF ListAccounts, Known
<1>5. CASE NextAccount
  BY <1>5 DEF NextAccount
<1>6. CASE WaitSynced
  BY <1>6 DEF WaitSynced
<1>7. CASE ReadIndex
  BY <1>7 DEF ReadIndex
<1>8. CASE Compare
  <2>1. acct \in Accounts /\ seen.height \in 1..MaxHeight
    BY <1>8 DEF Compare
  <2>2. pending' \in Seq(Messages)
    <3> HIDE DEF Shape, Checked, skipped
    <3> QED BY <1>8, <2>1, MismatchesType DEF Compare
  <2> QED BY <1>8, <2>2 DEF Compare
<1>9. CASE CompareFails
  BY <1>9 DEF CompareFails
<1>10. CASE SetErr
  <2>1. Head(pending) \in Messages
    BY <1>10 DEF SetErr
  <2> QED BY <1>10, <2>1 DEF SetErr, firstSection, firstErr
<1>11. CASE SetStatus
  BY <1>11 DEF SetStatus, secondSection
<1>12. CASE CountAccount
  BY <1>12 DEF CountAccount
<1>13. CASE EndPass
  BY <1>13 DEF EndPass
<1>14. CASE FeeAttempt \/ FeeAttemptFails
  BY <1>14 DEF FeeAttempt, FeeAttemptFails
<1>15. CASE Request \/ balanceValidationStatus
  BY <1>15 DEF Request, balanceValidationStatus
<1>16. CASE UNCHANGED vars
  BY <1>16 DEF vars
<1> QED BY <1>1, <1>2, <1>3, <1>4, <1>5, <1>6, <1>7, <1>8, <1>9, <1>10, <1>11,
           <1>12, <1>13, <1>14, <1>15, <1>16 DEF Next, ValidateBalances

-----------------------------------------------------------------------------
(* The two locks.                                                          *)

LEMMA InitLocks == Init => TwoLocks
  BY DEF Init, TwoLocks, ToldThenRefused

(* Steps that set neither the error nor the status, and neither leave nor  *)
(* enter the moment between the two locks.                                 *)
LEMMA QuietLocks ==
  ASSUME TwoLocks, UNCHANGED <<err, status, client>>,
         pc # "status", pc' # "status"
  PROVE  TwoLocks'
  BY DEF TwoLocks, ToldThenRefused

LEMMA NextLocks ==
  ASSUME Shape, TwoLocks, [Next]_vars
  PROVE  TwoLocks'
<1> USE DEF chainVars, passVars
<1>1. CASE Seal \/ IndexBlock \/ (\E b \in BOOLEAN : SetSynced(b))
           \/ FeeAttempt \/ FeeAttemptFails \/ UNCHANGED vars
  BY <1>1 DEF Seal, IndexBlock, SetSynced, FeeAttempt, FeeAttemptFails, vars,
              TwoLocks, ToldThenRefused
<1>2. CASE ListAccounts \/ NextAccount \/ WaitSynced \/ ReadIndex \/ CompareFails
  BY <1>2, QuietLocks DEF ListAccounts, NextAccount, WaitSynced, ReadIndex, CompareFails
<1>3. CASE Compare
  BY <1>3, QuietLocks DEF Compare
<1>4. CASE SetErr
  <2>1. Head(pending) \in Messages /\ Head(pending) # None
    BY <1>4, ValidationAssumption DEF SetErr, Shape
  <2>2. /\ err' = IF err = None THEN Head(pending) ELSE err
        /\ UNCHANGED <<status, pending, client>> /\ pc' = "status" /\ pc = "err"
    BY <1>4 DEF SetErr, firstSection, firstErr
  <2> QED BY <2>1, <2>2 DEF TwoLocks, ToldThenRefused
<1>5. CASE SetStatus
  <2>1. /\ status' = failure(Head(pending))
        /\ UNCHANGED <<err, client>> /\ pc = "status" /\ pc' # "status"
    BY <1>5 DEF SetStatus, secondSection
  <2>2. status'.status = "failure" /\ status'.err = err
    BY <2>1 DEF failure, TwoLocks
  <2> QED BY <2>1, <2>2 DEF TwoLocks, ToldThenRefused
<1>6. CASE CountAccount \/ EndPass
  <2>1. /\ UNCHANGED <<err, client>> /\ pc # "status" /\ pc' # "status"
        /\ \/ status' = status
           \/ \E n, k : status' = setValidationProgress(n, k)
           \/ \E n : status' = setValidationSuccess(n)
    BY <1>6 DEF CountAccount, EndPass
  <2>2. IF status.status = "failure" THEN status' = status ELSE status'.status # "failure"
    BY <2>1 DEF setValidationProgress, setValidationSuccess
  <2> QED BY <2>1, <2>2 DEF TwoLocks, ToldThenRefused
<1>7. CASE Request
  BY <1>7 DEF Request, getIndexedStateErr, TwoLocks, ToldThenRefused
<1>8. CASE balanceValidationStatus
  BY <1>8 DEF balanceValidationStatus, TwoLocks, ToldThenRefused
<1> QED BY <1>1, <1>2, <1>3, <1>4, <1>5, <1>6, <1>7, <1>8 DEF Next, ValidateBalances

(* A client that has been told of an error, by a refused request or by     *)
(* /call, is refused with that error ever after: setIndexedStateErr takes  *)
(* its two locks in the order that makes this so.                          *)
THEOREM ToldIsRefused == Spec => []ToldThenRefused
<1>1. Init => LockInv
  BY InitShape, InitLocks DEF LockInv
<1>2. LockInv /\ [Next]_vars => LockInv'
  BY NextShape, NextLocks DEF LockInv
<1>3. LockInv => ToldThenRefused
  BY DEF LockInv, TwoLocks
<1> QED BY <1>1, <1>2, <1>3, PTL DEF Spec

-----------------------------------------------------------------------------
(* What the pass has read of the index.                                    *)

(* What is wrong with an indexed block stays wrong, and what is right stays*)
(* right, when a later block is indexed.                                   *)
LEMMA IndexedIsFixed ==
  ASSUME Shape, wrong \in [Accounts -> (1..latest) \cup {None}],
         Seal \/ IndexBlock \/ UNCHANGED <<height, latest, wrong>>
  PROVE  /\ wrong' \in [Accounts -> (1..latest') \cup {None}]
         /\ \A a \in Accounts, h \in 1..latest :
              h \in 1..latest' /\ (IsWrong(a, h)' <=> IsWrong(a, h))
<1> USE ValidationAssumption DEF Shape, IsWrong
<1>1. CASE Seal
  BY <1>1 DEF Seal
<1>2. CASE IndexBlock
  BY <1>2 DEF IndexBlock, Known
<1>3. CASE UNCHANGED <<height, latest, wrong>>
  BY <1>3
<1> QED BY <1>1, <1>2, <1>3

LEMMA NextReadings ==
  ASSUME Shape, Readings, [Next]_vars
  PROVE  Readings'
<1> USE DEF chainVars, passVars
<1>1. CASE Seal \/ IndexBlock
  <2>1. UNCHANGED <<pc, acct, seen>>
    BY <1>1 DEF Seal, IndexBlock
  <2>2. /\ wrong' \in [Accounts -> (1..latest') \cup {None}]
        /\ \A a \in Accounts, h \in 1..latest : IsWrong(a, h)' <=> IsWrong(a, h)
    BY <1>1, IndexedIsFixed DEF Readings
  <2>3. pc = "compare" => acct \in Accounts /\ seen.height \in 1..latest
    BY DEF Shape, Visiting, Checked
  <2>4. pc = "compare" => BalanceByHash(acct, seen.height)' = BalanceByHash(acct, seen.height)
    BY <2>1, <2>2, <2>3 DEF BalanceByHash, Balance
  <2> QED BY <2>1, <2>2, <2>4 DEF Readings
<1>2. ASSUME UNCHANGED <<latest, wrong>>, pc' # "compare" \/ UNCHANGED <<pc, acct, seen>>
      PROVE  Readings'
  BY <1>2 DEF Readings, IsWrong, BalanceByHash, Balance
<1>3. CASE (\E b \in BOOLEAN : SetSynced(b)) \/ FeeAttempt \/ FeeAttemptFails
           \/ Request \/ balanceValidationStatus \/ UNCHANGED vars
  BY <1>2, <1>3 DEF SetSynced, FeeAttempt, FeeAttemptFails, Request,
                    balanceValidationStatus, vars
<1>4. CASE \/ ListAccounts \/ NextAccount \/ WaitSynced \/ Compare \/ CompareFails
           \/ SetErr \/ SetStatus \/ CountAccount \/ EndPass
  BY <1>2, <1>4 DEF ListAccounts, NextAccount, WaitSynced, Compare, CompareFails,
                    SetErr, SetStatus, CountAccount, EndPass
<1>5. CASE ReadIndex
  BY <1>5 DEF ReadIndex, Readings, IsWrong, BalanceByHash, Balance
<1> QED BY <1>1, <1>3, <1>4, <1>5 DEF Next, ValidateBalances

-----------------------------------------------------------------------------
(* No false alarms.  The scripts say of every account that it is not a     *)
(* proxy account, so proxy accounts must be skipped or not exist.          *)

NoProxyChecked == ~ProxyDeployed \/ Proxies = {}

LEMMA CheckedIsPlain ==
  ASSUME NoProxyChecked, NEW a \in Checked
  PROVE  a \in Accounts /\ a \notin Proxies
  BY DEF NoProxyChecked, Checked, skipped

LEMMA InitAlarm == Init => AlarmInv
  BY InitShape DEF Init, AlarmInv, Readings

(* A comparison of an account with itself at one block finds an error only *)
(* when the index is wrong there.                                          *)
LEMMA CompareIsReal ==
  ASSUME NoProxyChecked, AlarmInv, Compare
  PROVE  \A k \in 1..Len(pending') : Real(pending'[k])
<1> DEFINE data == getOnchainData(acct, seen.height)
           m    == mismatches(acct, acct \in Proxies, seen, data)
<1>1. /\ pending' = m /\ acct \in Accounts /\ acct \notin Proxies
      /\ seen.height \in 1..latest /\ seen.height \in 1..MaxHeight
      /\ seen.balance = BalanceByHash(acct, seen.height)
  <2>1. pc = "compare" /\ acct \in Checked
    BY DEF Compare, AlarmInv, Shape, Visiting
  <2>2. acct \in Accounts /\ acct \notin Proxies
    BY <2>1, CheckedIsPlain
  <2>3. seen.height \in 1..latest /\ seen.balance = BalanceByHash(acct, seen.height)
    BY <2>1 DEF AlarmInv, Shape, Readings
  <2>4. seen.height \in 1..MaxHeight
    BY <2>3, ValidationAssumption DEF AlarmInv, Shape
  <2>5. pending' = m
    BY DEF Compare
  <2> QED BY <2>2, <2>3, <2>4, <2>5
<1>2. m \in Seq(Messages) /\ \A k \in 1..Len(m) : m[k].acct = acct /\ m[k].height = seen.height
  BY <1>1, MismatchesType
<1>3. CASE IsWrong(acct, seen.height)
  BY <1>1, <1>2, <1>3 DEF Real
<1>4. CASE ~IsWrong(acct, seen.height)
  <2>1. data.isProxy = FALSE /\ data.default = seen.balance
    BY <1>1, <1>4 DEF getOnchainData, BalanceByHash
  <2>2. m = <<>> \o <<>>
    <3> DEFINE isProxy == acct \in Proxies
               msg(k) == Message(k, acct, seen.height)
               balance == IF data.isProxy THEN data.proxy ELSE data.default
               kind == IF data.isProxy THEN "proxy balance" ELSE "balance"
    <3>1. m = (IF isProxy # data.isProxy THEN <<msg("proxy status")>> ELSE <<>>)
              \o (IF seen.balance # balance THEN <<msg(kind)>> ELSE <<>>)
      BY DEF mismatches
    <3>2. isProxy = FALSE
      BY <1>1
    <3>3. balance = seen.balance
      BY <2>1
    <3> HIDE DEF isProxy, balance, data, m, msg
    <3> QED BY <3>1, <3>2, <3>3, <2>1
  <2>3. Len(m) = 0
    BY <2>2
  <2> QED BY <1>1, <2>3
<1> QED BY <1>3, <1>4

LEMMA NextAlarm ==
  ASSUME NoProxyChecked, AlarmInv, [Next]_vars
  PROVE  AlarmInv'
<1>1. Shape' /\ Readings'
  BY NextShape, NextReadings DEF AlarmInv
<1> USE DEF chainVars, passVars
<1>2. CASE Seal \/ IndexBlock
  <2>1. UNCHANGED <<pending, err>>
    BY <1>2 DEF Seal, IndexBlock
  <2>2. \A a \in Accounts, h \in 1..latest :
          h \in 1..latest' /\ (IsWrong(a, h)' <=> IsWrong(a, h))
    BY <1>2, IndexedIsFixed DEF AlarmInv, Readings
  <2>3. \A m : Real(m) => Real(m)'
    BY <2>2 DEF Real, IsWrong
  <2> QED BY <1>1, <2>1, <2>3 DEF AlarmInv
<1>3. ASSUME UNCHANGED <<latest, wrong, err, pending>>
      PROVE  AlarmInv'
  BY <1>1, <1>3 DEF AlarmInv, Real, IsWrong
<1>4. CASE (\E b \in BOOLEAN : SetSynced(b)) \/ FeeAttempt \/ FeeAttemptFails
           \/ Request \/ balanceValidationStatus \/ UNCHANGED vars
  BY <1>3, <1>4 DEF SetSynced, FeeAttempt, FeeAttemptFails, Request,
                    balanceValidationStatus, vars
<1>5. CASE \/ ListAccounts \/ NextAccount \/ WaitSynced \/ ReadIndex
           \/ CompareFails \/ CountAccount \/ EndPass
  BY <1>3, <1>5 DEF ListAccounts, NextAccount, WaitSynced, ReadIndex,
                    CompareFails, CountAccount, EndPass
<1>6. CASE Compare
  <2>1. UNCHANGED <<latest, wrong, err>>
    BY <1>6 DEF Compare
  <2>2. \A k \in 1..Len(pending') : Real(pending'[k])
    BY <1>6, CompareIsReal
  <2> QED BY <1>1, <2>1, <2>2 DEF AlarmInv, Real, IsWrong
<1>7. CASE SetErr
  <2>1. /\ UNCHANGED <<latest, wrong, pending>>
        /\ err' \in {err, Head(pending)}
    BY <1>7 DEF SetErr, firstSection, firstErr
  <2>2. Real(Head(pending))
    <3>1. pending \in Seq(Messages) /\ pending # <<>>
      BY <1>7 DEF SetErr, AlarmInv, Shape
    <3>2. Head(pending) = pending[1] /\ 1 \in 1..Len(pending)
      BY <3>1
    <3> QED BY <3>2 DEF AlarmInv
  <2> QED BY <1>1, <2>1, <2>2 DEF AlarmInv, Real, IsWrong
<1>8. CASE SetStatus
  <2>1. /\ UNCHANGED <<latest, wrong, err>> /\ pending' = Tail(pending)
    BY <1>8 DEF SetStatus, secondSection
  <2>2. pending \in Seq(Messages) /\ pending # <<>>
    BY <1>8 DEF SetStatus, AlarmInv, Shape
  <2>3. \A k \in 1..Len(pending') : k + 1 \in 1..Len(pending) /\ pending'[k] = pending[k + 1]
    BY <2>1, <2>2
  <2> QED BY <1>1, <2>1, <2>3 DEF AlarmInv, Real, IsWrong
<1> QED BY <1>2, <1>4, <1>5, <1>6, <1>7, <1>8 DEF Next, ValidateBalances

(* Requests are refused only when the index is really wrong, at the block  *)
(* and for the account that the error names, although the chain, the index *)
(* and the validation go on by themselves.                                 *)
THEOREM AlarmsAreReal ==
  ASSUME NoProxyChecked
  PROVE  Spec => []NoFalseAlarm
<1>1. Init => AlarmInv
  BY InitAlarm
<1>2. AlarmInv /\ [Next]_vars => AlarmInv'
  BY NextAlarm
<1>3. AlarmInv => NoFalseAlarm
  BY DEF AlarmInv, NoFalseAlarm, Real
<1> QED BY <1>1, <1>2, <1>3, PTL DEF Spec

-----------------------------------------------------------------------------
(* Success.                                                                *)

LEMMA InitSuccess == Init => SuccessInv
  BY InitShape DEF Init, SuccessInv, Readings, PassInv, Vouched

(* A comparison that finds nothing has found the account right.            *)
LEMMA NoMismatch ==
  ASSUME Shape, Readings, Compare, pending' = <<>>
  PROVE  ~IsWrong(acct, seen.height)
<1> DEFINE data == getOnchainData(acct, seen.height)
           first == Message("proxy status", acct, seen.height)
           then == Message("balance", acct, seen.height)
           isProxy == acct \in Proxies
           p == IF isProxy # data.isProxy THEN <<first>> ELSE <<>>
           q == IF seen.balance # data.default THEN <<then>> ELSE <<>>
<1>1. /\ acct \in Accounts /\ seen.height \in 1..latest /\ latest \in 1..MaxHeight
      /\ seen.height \in 1..MaxHeight
      /\ seen.balance = BalanceByHash(acct, seen.height)
  BY ValidationAssumption DEF Compare, Shape, Visiting, Checked, Readings
<1>2. data.isProxy = FALSE /\ data.default = seen.height
  BY DEF getOnchainData, Balance
<1>3. pending' = p \o q
  BY <1>2 DEF Compare, mismatches
<1>4. p \in Seq(Messages) /\ q \in Seq(Messages)
  <2>1. first \in Messages /\ then \in Messages
    BY <1>1, IsMessage
  <2> HIDE DEF first, then
  <2> QED BY <2>1, AtMostOne
<1>5. q = <<>>
  <2>1. Len(p \o q) = Len(p) + Len(q) /\ Len(p) \in Nat /\ Len(q) \in Nat
    BY <1>4, ConcatProperties
  <2> HIDE DEF p, q
  <2>2. Len(p \o q) = 0
    BY <1>3
  <2> QED BY <1>4, <2>1, <2>2
<1>6. seen.balance = seen.height
  <2> HIDE DEF then
  <2>1. Len(<<then>>) = 1 /\ Len(<<>>) = 0
    OBVIOUS
  <2> QED BY <1>2, <1>5, <2>1
<1> QED BY <1>1, <1>6 DEF BalanceByHash, Balance

(* Lists and what is right about them stay when a block is indexed.        *)
LEMMA ListsStay ==
  ASSUME Shape, Readings, Seal \/ IndexBlock \/ UNCHANGED <<height, latest, wrong>>,
         NEW l, IsList(l)
  PROVE  /\ IsList(l)'
         /\ \A a \in l.accounts : IsWrong(a, l.height)' <=> IsWrong(a, l.height)
<1>1. \A a \in Accounts, h \in 1..latest :
        h \in 1..latest' /\ (IsWrong(a, h)' <=> IsWrong(a, h))
  BY IndexedIsFixed DEF Readings
<1>2. l.accounts \subseteq Accounts /\ l.height \in 1..latest
  BY DEF IsList
<1>3. l = [accounts |-> l.accounts, height |-> l.height]
  BY DEF IsList
<1>4. l.height \in 1..latest'
  BY <1>2 DEF Seal, IndexBlock, Shape
<1>5. IsList(l)'
  BY <1>2, <1>3, <1>4 DEF IsList
<1> QED BY <1>1, <1>2, <1>5

LEMMA NextPass ==
  ASSUME Shape, Readings, PassInv, [Next]_vars
  PROVE  PassInv'
<1> USE DEF chainVars, passVars
<1>1. ASSUME Seal \/ IndexBlock \/ UNCHANGED <<height, latest, wrong>>,
             UNCHANGED listed, pc # "list"
      PROVE  /\ IsList(listed) /\ IsList(listed)'
             /\ \A a \in listed.accounts :
                  IsWrong(a, listed.height)' <=> IsWrong(a, listed.height)
  BY <1>1, ListsStay DEF PassInv
<1>2. ASSUME UNCHANGED <<pc, passVars>>,
             Seal \/ IndexBlock \/ UNCHANGED <<height, latest, wrong>>
      PROVE  PassInv'
  BY <1>1, <1>2 DEF PassInv, Compared, Visiting, IsList
<1>3. CASE \/ Seal \/ IndexBlock \/ (\E b \in BOOLEAN : SetSynced(b))
           \/ FeeAttempt \/ FeeAttemptFails \/ Request
           \/ balanceValidationStatus \/ UNCHANGED vars
  BY <1>2, <1>3 DEF Seal, IndexBlock, SetSynced, FeeAttempt, FeeAttemptFails,
                    Request, balanceValidationStatus, vars
<1>4. CASE ListAccounts
  <2>0. Cardinality(Known(latest)) \in Nat
    BY FS_Subset, FS_CardinalityType, ValidationAssumption DEF Known
  <2>1. /\ pc' = "next" /\ count'.failed = 0
        /\ count' \in [all : Nat, done : Nat, failed : Nat]
        /\ todo' \subseteq Accounts /\ latest' = latest
        /\ listed' = [accounts |-> todo', height |-> latest]
    BY <1>4, <2>0 DEF ListAccounts, Known
  <2>2. latest \in 1..latest
    BY DEF Shape
  <2> QED BY <2>1, <2>2 DEF PassInv, IsList, Compared, Visiting
<1>5. CASE NextAccount
  BY <1>5 DEF NextAccount, PassInv, IsList, Compared, Visiting, IsWrong
<1>6. CASE WaitSynced \/ CompareFails
  BY <1>6 DEF WaitSynced, CompareFails, PassInv, IsList, Compared, Visiting, IsWrong
<1>7. CASE ReadIndex
  <2>1. /\ pc = "read" /\ pc' = "compare" /\ seen'.height = latest
        /\ UNCHANGED <<latest, wrong, todo, acct, count, listed>>
    BY <1>7 DEF ReadIndex
  <2>2. IsList(listed) => listed.height <= latest
    BY DEF IsList, Shape
  <2> QED BY <2>1, <2>2 DEF PassInv, IsList, Compared, Visiting, IsWrong
<1>8. CASE Compare
  <2>1. /\ pc = "compare" /\ pc' \in {"count", "err"}
        /\ count' = [count EXCEPT !.failed = @ + Len(pending')]
        /\ UNCHANGED <<latest, wrong, todo, acct, seen, listed>>
    BY <1>8 DEF Compare
  <2>2. /\ IsList(listed) /\ IsList(listed)' /\ acct \in listed.accounts
        /\ todo \subseteq listed.accounts /\ listed.height <= seen.height
        /\ count \in [all : Nat, done : Nat, failed : Nat]
    BY <2>1 DEF PassInv, Visiting, IsList
  <2>3. pending' \in Seq(Messages)
    BY NextShape DEF Shape
  <2>4. /\ Len(pending') \in Nat /\ count'.failed = count.failed + Len(pending')
        /\ count' \in [all : Nat, done : Nat, failed : Nat]
    BY <2>1, <2>2, <2>3
  <2>5. ASSUME count'.failed = 0, NEW a \in Compared'
        PROVE  ~IsWrong(a, listed.height)'
    <3>1. count.failed = 0 /\ pending' = <<>>
      BY <2>2, <2>3, <2>4, <2>5
    <3>2. CASE a = acct
      <4>1. ~IsWrong(acct, seen.height)
        BY <1>8, <3>1, NoMismatch
      <4>2. /\ acct \in Accounts /\ wrong[acct] \in (1..latest) \cup {None}
            /\ seen.height \in 1..latest /\ latest \in Nat
            /\ listed.height \in 1..latest
        BY <2>1, <2>2 DEF Readings, Shape, IsList
      <4>3. ~IsWrong(acct, listed.height)
        BY <2>2, <4>1, <4>2 DEF IsWrong
      <4> QED BY <2>1, <3>2, <4>3 DEF IsWrong
    <3>3. CASE a # acct
      <4>1. a \in Compared
        BY <2>1, <2>5, <3>3 DEF Compared
      <4> QED BY <2>1, <3>1, <4>1 DEF PassInv, IsWrong
    <3> QED BY <3>2, <3>3
  <2> QED BY <2>1, <2>2, <2>4, <2>5 DEF PassInv, Visiting
<1>9. CASE SetErr \/ SetStatus \/ CountAccount
  <2>1. /\ pc \in {"err", "status", "count"} /\ pc' \in {"err", "status", "count", "next"}
        /\ UNCHANGED <<latest, wrong, todo, acct, seen, listed>>
        /\ count' \in {count, [count EXCEPT !.done = @ + 1]}
    BY <1>9 DEF SetErr, SetStatus, CountAccount
  <2>2. count \in [all : Nat, done : Nat, failed : Nat]
    BY <2>1 DEF PassInv
  <2>3. count' \in [all : Nat, done : Nat, failed : Nat] /\ count'.failed = count.failed
    BY <2>1, <2>2
  <2> QED BY <2>1, <2>3 DEF PassInv, IsList, Compared, Visiting, IsWrong
<1>10. CASE EndPass
  BY <1>10 DEF EndPass, PassInv
<1> QED BY <1>3, <1>4, <1>5, <1>6, <1>7, <1>8, <1>9, <1>10 DEF Next, ValidateBalances

LEMMA NextVouched ==
  ASSUME SuccessInv, [Next]_vars
  PROVE  Vouched'
<1> USE DEF chainVars, passVars
<1>1. ASSUME NEW l, IsList(l), Seal \/ IndexBlock \/ UNCHANGED <<height, latest, wrong>>,
             \A a \in l.accounts : ~IsWrong(a, l.height)
      PROVE  IsList(l)' /\ \A a \in l.accounts : ~IsWrong(a, l.height)'
  BY <1>1, ListsStay DEF SuccessInv
<1>2. ASSUME vouched' = vouched, status' = status \/ status'.status # "success",
             Seal \/ IndexBlock \/ UNCHANGED <<height, latest, wrong>>
      PROVE  Vouched'
  <2>1. vouched # None => IsList(vouched)' /\ \A a \in vouched.accounts : ~IsWrong(a, vouched.height)'
    BY <1>1, <1>2 DEF SuccessInv, Vouched
  <2> QED BY <1>2, <2>1 DEF SuccessInv, Vouched
<1>3. CASE \/ Seal \/ IndexBlock \/ (\E b \in BOOLEAN : SetSynced(b))
           \/ FeeAttempt \/ FeeAttemptFails \/ Request
           \/ balanceValidationStatus \/ UNCHANGED vars
  BY <1>2, <1>3 DEF Seal, IndexBlock, SetSynced, FeeAttempt, FeeAttemptFails,
                    Request, balanceValidationStatus, vars
<1>4. CASE \/ ListAccounts \/ NextAccount \/ WaitSynced \/ ReadIndex
           \/ Compare \/ CompareFails \/ SetErr
  BY <1>2, <1>4 DEF ListAccounts, NextAccount, WaitSynced, ReadIndex, Compare,
                    CompareFails, SetErr, firstSection
<1>5. CASE SetStatus \/ CountAccount
  BY <1>2, <1>5 DEF SetStatus, CountAccount, secondSection, failure, setValidationProgress
<1>6. CASE EndPass
  <2>1. pc = "next" /\ todo = {} /\ UNCHANGED <<height, latest, wrong>>
    BY <1>6 DEF EndPass
  <2>2. CASE succeeds(count)
    <3>1. vouched' = listed /\ Compared = listed.accounts
      BY <1>6, <2>1, <2>2 DEF EndPass, Compared
    <3>2. IsList(listed) /\ \A a \in listed.accounts : ~IsWrong(a, listed.height)
      BY <2>1, <2>2, <3>1 DEF SuccessInv, PassInv, succeeds
    <3>3. listed # None
      BY <3>2, ValidationAssumption DEF IsList, SuccessInv, Shape
    <3> QED BY <2>1, <3>1, <3>2, <3>3 DEF Vouched, IsList, IsWrong
  <2>3. CASE ~succeeds(count)
    BY <1>2, <1>6, <2>1, <2>3 DEF EndPass
  <2> QED BY <2>2, <2>3
<1> QED BY <1>3, <1>4, <1>5, <1>6 DEF Next, ValidateBalances

(* The status "success" is never wrong about the accounts that its pass has *)
(* listed, whatever is sealed and indexed while the pass goes on: the pass *)
(* reads every account at a block that is not older than its list.         *)
THEOREM SuccessIsSound == Spec => []SuccessSound
<1>1. Init => SuccessInv
  BY InitSuccess
<1>2. SuccessInv /\ [Next]_vars => SuccessInv'
  BY NextShape, NextReadings, NextPass, NextVouched DEF SuccessInv
<1>3. SuccessInv => SuccessSound
  BY DEF SuccessInv, Vouched, SuccessSound
<1> QED BY <1>1, <1>2, <1>3, PTL DEF Spec

=============================================================================
