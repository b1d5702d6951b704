----------------------------- MODULE Validation -----------------------------
(***************************************************************************)
(* The background checks of the API server, and what they do to requests:  *)
(* validateBalances and validateFeeReceivers (src/api/validate.go), the    *)
(* two pieces of state they set under two locks (src/api/api.go), and the  *)
(* wrapper that refuses requests (src/api/wrapper.go).                     *)
(*                                                                         *)
(* The chain seals a block at a time and the indexer follows it; indexing a*)
(* block may go wrong for an account, whose indexed balance is then off at *)
(* that height and at every later one.  The balance of an account changes  *)
(* in every block: it is the height, so that balances of different blocks  *)
(* are never mistaken for each other.                                      *)
(***************************************************************************)
EXTENDS Integers, Sequences, FiniteSets

CONSTANTS
  Accounts,       \* accounts that the index tracks
  Born,           \* Born[a]: the height of the block that creates a
  Proxies,        \* the accounts among them that are proxy accounts
  ProxyDeployed,  \* Chain.IsProxyContractDeployed()
  Configured,     \* Chain.Contracts.FeeAddresses()
  Receivers,      \* sets of fee receivers that may be found on the chain
  Attempts,       \* attempts of validateFeeReceivers
  MaxHeight,      \* bound: blocks of the chain
  None            \* nil

(* Errors that a comparison finds, as far as they differ.                  *)
Message(kind, a, h) == [kind |-> kind, acct |-> a, height |-> h]
Messages == [kind : {"proxy status", "balance", "proxy balance"},
             acct : Accounts, height : 1..MaxHeight]

ASSUME ValidationAssumption ==
  /\ IsFiniteSet(Accounts)
  /\ MaxHeight \in Nat \ {0} /\ Attempts \in Nat \ {0}
  /\ Born \in [Accounts -> 1..MaxHeight]
  /\ Proxies \subseteq Accounts /\ ProxyDeployed \in BOOLEAN
  /\ None \notin Messages
  /\ None \notin [accounts : SUBSET Accounts, height : 1..MaxHeight]

VARIABLES
  height,     \* the latest sealed block
  latest,     \* Index.Latest()
  wrong,      \* wrong[a]: from which height on the index is off for a
  synced,     \* Indexer.Synced()
  pc,         \* where validateBalances is
  todo,       \* accounts that the pass has not visited
  acct,       \* the account that it visits
  seen,       \* the block and the balance that it has read from the index
  pending,    \* errors that it has found and not yet set
  count,      \* len(accts), done and failed of the pass
  err,        \* indexedStateErr
  status,     \* validation
  fees,       \* validateFeeReceivers: its attempt, and how it ended
  onchain,    \* the fee receivers on the chain
  client,     \* an API client: the error that it has been told of, and
              \* whether its latest request was let through
  listed,     \* history: the accounts and height at which the pass began
  vouched     \* history: listed, of the pass that last set success

chainVars == <<height, latest, wrong, synced, onchain>>
passVars  == <<todo, acct, seen, pending, count, listed>>
vars      == <<chainVars, passVars, pc, err, status, fees, vouched, client>>

-----------------------------------------------------------------------------
(* The chain and the index.                                                *)

Balance(a, h) == h
Known(h) == {a \in Accounts : Born[a] <= h}
IsWrong(a, h) == wrong[a] # None /\ wrong[a] <= h
BalanceByHash(a, h) == IF IsWrong(a, h) THEN Balance(a, h) + 1 ELSE Balance(a, h)

Seal ==
  /\ height < MaxHeight
  /\ height' = height + 1
  /\ UNCHANGED <<latest, wrong, synced, onchain, passVars, pc, err, status, fees, vouched, client>>

(* A block is indexed, rightly or with a mistake in one account.           *)
IndexBlock ==
  /\ latest < height
  /\ latest' = latest + 1
  /\ \/ UNCHANGED wrong
     \/ \E a \in Known(latest + 1) :
          wrong[a] = None /\ wrong' = [wrong EXCEPT ![a] = latest + 1]
  /\ UNCHANGED <<height, synced, onchain, passVars, pc, err, status, fees, vouched, client>>

(* The indexer finds the block that it handled close to the tip, or not.   *)
SetSynced(b) ==
  /\ synced # b
  /\ synced' = b
  /\ UNCHANGED <<height, latest, wrong, onchain, passVars, pc, err, status, fees, vouched, client>>

-----------------------------------------------------------------------------
(* What the server publishes.  setIndexedStateErr takes two locks, one     *)
(* after the other; the others take the second.                            *)

(* The first error is kept.                                                *)
firstErr(msg) == IF err = None THEN msg ELSE err

failure(msg) ==
  IF status.status = "failure" THEN status
  ELSE [status |-> "failure", accounts |-> 0, checked |-> 0, err |-> msg]

setValidationProgress(accounts, checked) ==
  IF status.status \in {"failure", "success"} THEN status
  ELSE [status |-> "in_progress", accounts |-> accounts, checked |-> checked, err |-> None]

setValidationSuccess(accounts) ==
  IF status.status = "failure" THEN status
  ELSE [status |-> "success", accounts |-> accounts, checked |-> 0, err |-> None]

-----------------------------------------------------------------------------
(* validateBalances.  A pass over a snapshot of the accounts:              *)
(* "list" -> "next" -> "sync" -> "read" -> "compare" -> "err" -> "status"  *)
(* -> "count" -> "next" ... -> "list".                                     *)

skipped(a) == a \in Proxies /\ ~ProxyDeployed

ListAccounts ==
  /\ pc = "list"
  /\ pc' = "next"
  /\ todo' = {a \in Known(latest) : ~skipped(a)}
  /\ count' = [all |-> Cardinality(Known(latest)), done |-> 0, failed |-> 0]
  /\ listed' = [accounts |-> todo', height |-> latest]
  /\ UNCHANGED <<chainVars, acct, seen, pending, err, status, fees, vouched, client>>

NextAccount ==
  /\ pc = "next" /\ todo # {}
  /\ \E a \in todo : acct' = a /\ todo' = todo \ {a}
  /\ pc' = "sync"
  /\ UNCHANGED <<chainVars, seen, pending, count, listed, err, status, fees, vouched, client>>

WaitSynced ==
  /\ pc = "sync" /\ synced
  /\ pc' = "read"
  /\ UNCHANGED <<chainVars, passVars, err, status, fees, vouched, client>>

ReadIndex ==
  /\ pc = "read"
  /\ seen' = [height |-> latest, balance |-> BalanceByHash(acct, latest)]
  /\ pc' = "compare"
  /\ UNCHANGED <<chainVars, todo, acct, pending, count, listed, err, status, fees, vouched, client>>

(* Mutant: at the latest sealed block.                                     *)
getTipData(a, h) ==
  [default |-> Balance(a, height), isProxy |-> FALSE, proxy |-> 0]

(* getOnchainData at a block.  Both scripts say of every account that it is*)
(* not a proxy account.                                                    *)
getOnchainData(a, h) ==
  [default |-> Balance(a, h), isProxy |-> FALSE, proxy |-> 0]

(* Mutant: only the proxy status is compared.                              *)
statusMismatches(a, isProxy, s, data) ==
  IF isProxy # data.isProxy THEN <<Message("proxy status", a, s.height)>> ELSE <<>>

(* The errors of one comparison, in order.                                 *)
mismatches(a, isProxy, s, data) ==
  LET balance == IF data.isProxy THEN data.proxy ELSE data.default
      kind    == IF data.isProxy THEN "proxy balance" ELSE "balance"
  IN  (IF isProxy # data.isProxy THEN <<Message("proxy status", a, s.height)>> ELSE <<>>)
      \o (IF s.balance # balance THEN <<Message(kind, a, s.height)>> ELSE <<>>)

(* The Access API server answers for the block that was read.              *)
Compare ==
  /\ pc = "compare"
  /\ pending' = mismatches(acct, acct \in Proxies, seen, getOnchainData(acct, seen.height))
  /\ count' = [count EXCEPT !.failed = @ + Len(pending')]
  /\ pc' = IF pending' = <<>> THEN "count" ELSE "err"
  /\ UNCHANGED <<chainVars, todo, acct, seen, listed, err, status, fees, vouched, client>>

(* It does not: start over with the latest block.                          *)
CompareFails ==
  /\ pc = "compare"
  /\ pc' = "sync"
  /\ UNCHANGED <<chainVars, passVars, err, status, fees, vouched, client>>

(* Mutant: the status is set first.                                        *)
statusSection(msg) == status' = failure(msg) /\ UNCHANGED err

(* The two sections of setIndexedStateErr.                                 *)
firstSection(msg)  == err' = firstErr(msg) /\ UNCHANGED status
secondSection(msg) == status' = failure(msg) /\ UNCHANGED err

SetErr ==
  /\ pc = "err"
  /\ firstSection(Head(pending))
  /\ pc' = "status"
  /\ UNCHANGED <<chainVars, passVars, fees, vouched, client>>

SetStatus ==
  /\ pc = "status"
  /\ secondSection(Head(pending))
  /\ pending' = Tail(pending)
  /\ pc' = IF pending' = <<>> THEN "count" ELSE "err"
  /\ UNCHANGED <<chainVars, todo, acct, seen, count, listed, fees, vouched, client>>

CountAccount ==
  /\ pc = "count"
  /\ count' = [count EXCEPT !.done = @ + 1]
  /\ status' = IF count.failed = 0 THEN setValidationProgress(count.all, count.done + 1)
               ELSE status
  /\ pc' = "next"
  /\ UNCHANGED <<chainVars, todo, acct, seen, pending, listed, err, fees, vouched, client>>

succeeds(c) == c.all > 0 /\ c.failed = 0

(* Mutant: the accounts are not listed again.                              *)
EndPassOnce ==
  /\ pc = "next" /\ todo = {}
  /\ status' = IF succeeds(count) THEN setValidationSuccess(count.all) ELSE status
  /\ vouched' = IF succeeds(count) THEN listed ELSE vouched
  /\ UNCHANGED <<chainVars, passVars, pc, err, fees, client>>

EndPass ==
  /\ pc = "next" /\ todo = {}
  /\ status' = IF succeeds(count) THEN setValidationSuccess(count.all) ELSE status
  /\ vouched' = IF succeeds(count) THEN listed ELSE vouched
  /\ pc' = "list"
  /\ UNCHANGED <<chainVars, passVars, err, fees, client>>

-----------------------------------------------------------------------------
(* validateFeeReceivers: an attempt fails, or compares what is on the chain*)
(* with the configuration.                                                 *)

missing(receivers) == receivers \ Configured

FeeAttemptFails ==
  /\ fees.end = None
  /\ fees' = IF fees.attempt = Attempts THEN [fees EXCEPT !.end = "gave up"]
             ELSE [fees EXCEPT !.attempt = @ + 1]
  /\ UNCHANGED <<chainVars, passVars, pc, err, status, vouched, client>>

FeeAttempt ==
  /\ fees.end = None
  /\ fees' = [fees EXCEPT !.end = IF missing(onchain) # {} THEN "fatal" ELSE "validated"]
  /\ UNCHANGED <<chainVars, passVars, pc, err, status, vouched, client>>

-----------------------------------------------------------------------------
(* Requests.  The wrapper of every endpoint asks for the error first; those*)
(* of /call and /network do not, and /call reports the status.             *)

getIndexedStateErr == err

Request ==
  /\ client' = IF getIndexedStateErr # None
                 THEN [told |-> getIndexedStateErr, served |-> FALSE]
                 ELSE [client EXCEPT !.served = TRUE]
  /\ UNCHANGED <<chainVars, passVars, pc, err, status, fees, vouched>>

balanceValidationStatus ==
  /\ client' = IF status.status = "failure"
                 THEN [told |-> status.err, served |-> FALSE]
                 ELSE client
  /\ UNCHANGED <<chainVars, passVars, pc, err, status, fees, vouched>>

-----------------------------------------------------------------------------
Init ==
  /\ height = 1 /\ latest = 1
  /\ wrong = [a \in Accounts |-> None]
  /\ synced = FALSE
  /\ pc = "list"
  /\ todo = {} /\ acct = None /\ seen = None /\ pending = <<>>
  /\ count = [all |-> 0, done |-> 0, failed |-> 0]
  /\ err = None
  /\ status = [status |-> "not_started", accounts |-> 0, checked |-> 0, err |-> None]
  /\ fees = [attempt |-> 1, end |-> None]
  /\ onchain \in Receivers
  /\ listed = None /\ vouched = None
  /\ client = [told |-> None, served |-> FALSE]

ValidateBalances ==
  \/ ListAccounts \/ NextAccount \/ WaitSynced \/ ReadIndex \/ Compare
  \/ CompareFails \/ SetErr \/ SetStatus \/ CountAccount \/ EndPass

(* A fatal error ends the process, and every goroutine with it.            *)
Running == fees.end # "fatal"

Next ==
  /\ Running
  /\ \/ Seal \/ IndexBlock \/ \E b \in BOOLEAN : SetSynced(b)
     \/ ValidateBalances
     \/ FeeAttempt \/ FeeAttemptFails
     \/ Request \/ balanceValidationStatus

(* The loops run; the indexer comes back to the tip; a server that is asked*)
(* again and again answers; the wait ends when the index keeps being synced*)
(* from time to time.                                                      *)
Fairness ==
  /\ WF_vars(Running /\ ValidateBalances)
  /\ SF_vars(Running /\ WaitSynced)
  /\ SF_vars(Running /\ Compare)
  /\ WF_vars(Running /\ SetSynced(TRUE))
  /\ WF_vars(Running /\ (FeeAttempt \/ FeeAttemptFails))

Spec == Init /\ [][Next]_vars /\ Fairness

-----------------------------------------------------------------------------
(* Properties.                                                             *)

(* NoFalseAlarm: the server refuses requests only when the index is really *)
(* off: the block that the index is read at and the block that the chain is*)
(* asked about are one block, however far chain and index have moved since,*)
(* and an account of which the chain says nothing else is not reported.    *)
NoFalseAlarm == err # None => IsWrong(err.acct, err.height)

(* ToldThenRefused: a client that has been told of an error, by a refusal  *)
(* or by the status that /call reports, is refused with the same error from*)
(* then on, however its requests fall between the two locks that an error  *)
(* is set under and whatever later accounts and passes find.               *)
ToldThenRefused ==
  client.told # None => err = client.told /\ ~client.served

(* SuccessSound: while the status is "success", the index was right for    *)
(* every account that the pass listed, at the block at which it listed     *)
(* them: no error of an account is forgotten by the time the pass ends.    *)
SuccessSound ==
  status.status = "success" =>
    /\ vouched # None
    /\ \A a \in vouched.accounts : ~IsWrong(a, vouched.height)

(* Detects: when the index has gone wrong for an account that is checked,  *)
(* requests are eventually refused, unless the process has stopped because *)
(* of a fee receiver that is really not configured.                        *)
Detects ==
  \A a \in Accounts :
    (wrong[a] # None /\ ~skipped(a)) ~>
      \/ err # None
      \/ ~Running /\ ~(onchain \subseteq Configured)

-----------------------------------------------------------------------------
(* What makes NoFalseAlarm, ToldThenRefused and SuccessSound inductive.    *)

Visiting == pc \in {"sync", "read", "compare", "err", "status", "count"}
Checked  == {a \in Accounts : ~skipped(a)}

(* The pass visits accounts that are not skipped; errors are messages.     *)
Shape ==
  /\ height \in 1..MaxHeight /\ latest \in 1..height
  /\ pc \in {"list", "next"} \/ Visiting
  /\ todo \subseteq Checked
  /\ Visiting => acct \in Checked
  /\ pc = "compare" => seen.height \in 1..latest
  /\ pending \in Seq(Messages)
  /\ pc \in {"err", "status"} => pending # <<>>
  /\ err \in Messages \cup {None}

(* An error that is not yet in the status is the one being set.            *)
TwoLocks ==
  /\ status.status = "failure" => err # None /\ status.err = err
  /\ err # None /\ status.status # "failure" => pc = "status" /\ err = Head(pending)
  /\ pc = "status" => err # None
  /\ ToldThenRefused

LockInv == Shape /\ TwoLocks

(* Mistakes are in blocks that are indexed: what has been read of a block  *)
(* stays as it is, and what is wrong with it stays wrong.                  *)
Readings ==
  /\ wrong \in [Accounts -> (1..latest) \cup {None}]
  /\ pc = "compare" => seen.balance = BalanceByHash(acct, seen.height)

Real(m) == m.acct \in Accounts /\ m.height \in 1..latest /\ IsWrong(m.acct, m.height)

AlarmInv ==
  /\ Shape /\ Readings
  /\ \A k \in 1..Len(pending) : Real(pending[k])
  /\ err # None => Real(err)

(* A list of accounts at an indexed block.                                 *)
IsList(l) == l \in [accounts : SUBSET Accounts, height : 1..latest]

(* The accounts of the list that the pass is through with.                 *)
Compared ==
  (listed.accounts \ todo) \ (IF pc \in {"sync", "read", "compare"} THEN {acct} ELSE {})

(* A pass that has counted no error has found those accounts right, at a   *)
(* block that is not older than its list.                                  *)
PassInv ==
  pc # "list" =>
    /\ IsList(listed) /\ todo \subseteq listed.accounts
    /\ Visiting => acct \in listed.accounts
    /\ pc = "compare" => listed.height <= seen.height
    /\ count \in [all : Nat, done : Nat, failed : Nat]
    /\ count.failed = 0 => \A a \in Compared : ~IsWrong(a, listed.height)

Vouched ==
  /\ vouched # None =>
       IsList(vouched) /\ \A a \in vouched.accounts : ~IsWrong(a, vouched.height)
  /\ status.status = "success" => vouched # None

SuccessInv == Shape /\ Readings /\ PassInv /\ Vouched

=============================================================================
