------------------------------ MODULE BlockOps ------------------------------
(***************************************************************************)
(* How processBlock (src/state/process.go) turns the events of a block     *)
(* into operations, and the balances that the index holds as a result.     *)
(*                                                                         *)
(* The chain is the environment: accounts with a default FLOW vault, some  *)
(* of them with a FlowColdStorageProxy vault as well                       *)
(* (src/script/cadence/contracts), and transactions that move FLOW and     *)
(* emit events.  ProcessBlock processes the events of a finished block and *)
(* indexes the operations; Restart starts a new process on the same index. *)
(* Retrieval and verification of the block are module Indexer's subject,   *)
(* the layout of the database is module IndexDB's.                         *)
(***************************************************************************)
EXTENDS Operations, FiniteSets

CONSTANTS
  Addrs,         \* addresses of accounts that exist or may be created
  Originators,   \* the root originators of the configuration
  FeeAddr,       \* the account that collects transaction fees
  Outsiders,     \* accounts that exist at the start and are not ours
  Funds,         \* FLOW that every outsider starts with
  Fee,           \* the fee of a transaction
  Reserve,       \* FLOW that a new account receives from its creator
  Amounts,       \* amounts of a transfer
  MaxOurs,       \* bound: transactions paid for by accounts of ours
  MaxOthers,     \* bound: transactions paid for by others
  BlockSize      \* bound: transactions of a block

ASSUME BlockOpsAssumption ==
  /\ Originators \cup {FeeAddr} \cup Outsiders \subseteq Addrs
  /\ Originators \cap ({FeeAddr} \cup Outsiders) = {}
  /\ FeeAddr \notin Outsiders
  /\ NoAccount \notin Addrs /\ IsFiniteSet(Addrs)
  /\ Funds \in Nat /\ Fee \in Nat \ {0} /\ Reserve \in Nat
  /\ Amounts \subseteq Nat

VARIABLES
  held,        \* chain: FLOW in each vault
  exists,      \* chain: the accounts
  proxies,     \* chain: the accounts with a FlowColdStorageProxy vault
  ours,        \* chain: originators, and accounts created by one of ours
  feesPaid,    \* chain: fees paid by each account of ours
  txns,        \* chain: transactions of the block that is being built
  left,        \* chain: transactions that may still come, ours and others'
  accts,       \* Indexer.accts: tracked account |-> is it a proxy account?
  balances,    \* index: latest balance of each account that has one
  proxyKeys,   \* index: accounts with an isProxy key
  feesIndexed, \* index: sum of the FEE operations of each account
  stuck        \* processBlock repeats the block in hand for ever

chain == <<held, exists, proxies, ours, feesPaid>>
index == <<accts, balances, proxyKeys, feesIndexed, stuck>>
vars  == <<chain, txns, left, index>>

Vaults == Addrs \X {"default", "proxy"}

Nothing == [a \in Addrs |-> 0]

-----------------------------------------------------------------------------
(***************************************************************************)
(* The chain: moves of FLOW between vaults, and the events they emit.      *)
(***************************************************************************)
Default(acct) == <<acct, "default">>

\* The vault behind the account's public FLOW receiver: setup of the proxy
\* contract replaces the default one.
Receiver(acct) == IF acct \in proxies THEN <<acct, "proxy">> ELSE Default(acct)

Move(from, to, n) == [from |-> from, to |-> to, amount |-> n]

Event(type, acct, n) ==
  [type |-> type, account |-> acct, receiver |-> NoAccount, amount |-> n]

\* A vault of the proxy contract announces a deposit before it passes it on,
\* and a transfer once it is done.
EventsOf(m) ==
  LET from == m.from[1]
      to   == m.to[1]
      n    == m.amount
  IN  <<Event("TokensWithdrawn", from, n)>>
        \o (IF m.to[2] = "proxy" THEN <<Event("ProxyDeposited", to, n)>>
                                 ELSE << >>)
        \o <<Event("TokensDeposited", to, n)>>
        \o (IF m.from[2] = "proxy"
              THEN <<[Event("ProxyTransferred", from, n)
                        EXCEPT !.receiver = to]>>
              ELSE << >>)

ApplyMove(h, m) ==
  LET paid == [h EXCEPT ![m.from] = @ - m.amount]
  IN  [paid EXCEPT ![m.to] = @ + m.amount]

AllEvents(moves) == FlattenSeq([i \in DOMAIN moves |-> EventsOf(moves[i])])

\* A transaction: its events, then the fee.
Execute(payer, moves, events) ==
  LET fee == Move(Default(payer), Default(FeeAddr), Fee)
      h   == FoldLeft(ApplyMove, held, Append(moves, fee))
  IN  /\ left[(payer \in ours)] > 0 /\ Len(txns) < BlockSize
      /\ payer \in exists \ (proxies \cup {FeeAddr})
      /\ \A i \in DOMAIN moves : moves[i].amount <= held[moves[i].from]
      /\ \A v \in Vaults : h[v] >= 0
      /\ held' = h
      /\ txns' = Append(txns, [payer  |-> payer,
                               events |-> events \o EventsOf(fee)])
      /\ left' = [left EXCEPT ![(payer \in ours)] = @ - 1]
      /\ feesPaid' = IF payer \in ours
                       THEN [feesPaid EXCEPT ![payer] = @ + Fee]
                       ELSE feesPaid
      /\ UNCHANGED index

\* The accounts of ours only run the transactions that Rosetta constructs,
\* and those never send FLOW to the fee address.
MayReceive(payer, to) == to \in exists /\ (payer \in ours => to # FeeAddr)

\* flow.AccountCreated comes after the new account has its reserve.
Creation(payer, new) ==
  EventsOf(Move(Default(payer), Default(new), Reserve))
    \o <<Event("AccountCreated", new, 0)>>

BecomeOurs(payer, news) ==
  ours' = ours \cup (IF payer \in ours THEN news ELSE news \cap Originators)

\* create-account.cdc: one account for every public key.
CreateAccounts(payer, news) ==
  /\ Execute(payer,
             [i \in DOMAIN news |->
                Move(Default(payer), Default(news[i]), Reserve)],
             FlattenSeq([i \in DOMAIN news |-> Creation(payer, news[i])]))
  /\ exists' = exists \cup Range(news)
  /\ BecomeOurs(payer, Range(news))
  /\ UNCHANGED proxies

\* create-proxy-account.cdc
CreateProxyAccount(payer, new) ==
  /\ Execute(payer, <<Move(Default(payer), Default(new), Reserve)>>,
             Append(Creation(payer, new), Event("ProxyCreated", new, 0)))
  /\ exists' = exists \cup {new}
  /\ proxies' = proxies \cup {new}
  /\ BecomeOurs(payer, {new})

MoveFlow(payer, moves) ==
  /\ Execute(payer, moves, AllEvents(moves))
  /\ UNCHANGED <<exists, proxies, ours>>

\* basic-transfer.cdc
Transfer(payer, to, n) ==
  /\ MayReceive(payer, to)
  /\ MoveFlow(payer, <<Move(Default(payer), Receiver(to), n)>>)

\* proxy-transfer.cdc: anyone may submit a signed meta transaction.
ProxyTransfer(payer, from, to, n) ==
  /\ MayReceive(payer, to)
  /\ n <= held[<<from, "proxy">>]
  /\ MoveFlow(payer, <<Move(<<from, "proxy">>, Receiver(to), n)>>)

\* Transactions of others: several payments at once, and a payment to the
\* default vault of a proxy account.
PayTwo(payer, to1, to2, n) ==
  /\ payer \notin ours
  /\ {to1, to2} \subseteq exists
  /\ MoveFlow(payer, <<Move(Default(payer), Receiver(to1), n),
                       Move(Default(payer), Receiver(to2), n)>>)

PayDefaultVault(payer, to, n) ==
  /\ payer \notin ours
  /\ to \in proxies
  /\ MoveFlow(payer, <<Move(Default(payer), Default(to), n)>>)

\* A transaction that fails still pays its fee.
Fail(payer) == MoveFlow(payer, << >>)

-----------------------------------------------------------------------------
(***************************************************************************)
(* processBlock: from the events of a transaction to its operations.       *)
(*                                                                         *)
(* A tally holds Indexer.accts, which the code reads here, and what it     *)
(* keeps in the local variables of the loop over transactions: addrs, the  *)
(* keys of accountKeys that are set, newAccounts (of the whole block),     *)
(* deposits, proxyDeposits, withdrawals, fees, proxyTransfers, the         *)
(* operations, and ok, which is FALSE once the code has given up on the    *)
(* block ("continue outer").                                               *)
(***************************************************************************)
isProxy(acct, known, new) ==
  IF acct \in DOMAIN known THEN known[acct]
                           ELSE acct \in DOMAIN new /\ new[acct]

isTracked(acct, known, new) ==
  acct \in DOMAIN known \cup DOMAIN new \cup Originators

NewTally(known, new, ops, ok) ==
  [known |-> known, addrs |-> << >>, keyed |-> {}, new |-> new,
   deposits |-> Nothing, proxyDeposits |-> Nothing, withdrawals |-> Nothing,
   fees |-> 0, transfers |-> << >>, ops |-> ops, ok |-> ok]

AccountCreated(t, payer, e) ==
  IF e.account \in Originators \/ isTracked(payer, t.known, t.new)
    THEN [t EXCEPT !.addrs = Append(@, e.account),
                   !.new   = Put(@, e.account, FALSE)]
    ELSE t

ProxyCreated(t, payer, e) ==
  IF ~isTracked(payer, t.known, t.new)
    THEN t
    ELSE IF e.account \notin Range(t.addrs)
      THEN [t EXCEPT !.ok = FALSE]
      ELSE [t EXCEPT !.keyed = @ \cup {e.account},
                     !.new   = Put(@, e.account, TRUE)]

ProxyDeposited(t, e) ==
  IF isProxy(e.account, t.known, t.new)
    THEN [t EXCEPT !.proxyDeposits[e.account] = @ + e.amount]
    ELSE t

\* A receiver that is not tracked is left out of the transfer.
ProxyTransferred(t, e) ==
  IF isProxy(e.account, t.known, t.new)
    THEN [t EXCEPT !.transfers = Append(@,
            [sender   |-> e.account, amount |-> e.amount,
             receiver |-> IF isTracked(e.receiver, t.known, t.new)
                            THEN e.receiver ELSE NoAccount])]
    ELSE t

\* Mutant: forgets that the vault of a proxy account is counted already.
TokensDepositedToAny(t, e) ==
  IF e.account = FeeAddr
    THEN [t EXCEPT !.fees = @ + e.amount]
    ELSE IF isTracked(e.account, t.known, t.new)
      THEN [t EXCEPT !.deposits[e.account] = @ + e.amount]
      ELSE t

TokensDeposited(t, e) ==
  IF e.account = FeeAddr
    THEN [t EXCEPT !.fees = @ + e.amount]
    ELSE IF /\ isTracked(e.account, t.known, t.new)
            /\ ~isProxy(e.account, t.known, t.new)
      THEN [t EXCEPT !.deposits[e.account] = @ + e.amount]
      ELSE t

TokensWithdrawn(t, e) ==
  IF /\ isTracked(e.account, t.known, t.new)
     /\ ~isProxy(e.account, t.known, t.new)
    THEN [t EXCEPT !.withdrawals[e.account] = @ + e.amount]
    ELSE t

FirstLoop(t, payer, e) ==
  CASE e.type = "AccountCreated"   -> AccountCreated(t, payer, e)
    [] e.type = "ProxyCreated"     -> ProxyCreated(t, payer, e)
    [] e.type = "ProxyDeposited"   -> ProxyDeposited(t, e)
    [] e.type = "ProxyTransferred" -> ProxyTransferred(t, e)
    [] OTHER                       -> t

evtloop(t, payer, events) ==
  FoldLeft(LAMBDA u, e : FirstLoop(u, payer, e), t, events)

SecondLoop(t, e) ==
  CASE e.type = "TokensDeposited" -> TokensDeposited(t, e)
    [] e.type = "TokensWithdrawn" -> TokensWithdrawn(t, e)
    [] OTHER                      -> t

\* The second loop needs the new accounts that the first one found.
evtloop2(t, events) == FoldLeft(SecondLoop, t, events)

Op(type, acct, receiver, n, proxy) ==
  [type |-> type, account |-> acct, receiver |-> receiver, amount |-> n,
   proxy |-> proxy]

CreateOps(t) ==
  [t EXCEPT !.ops = @ \o [i \in DOMAIN t.addrs |->
      Op("CREATE_ACCOUNT", t.addrs[i], NoAccount, 0, t.addrs[i] \in t.keyed)]]

\* Mutant: everything the payer spent is taken for the fee.
FeeOpOfAll(t, payer) ==
  IF isTracked(payer, t.known, t.new) /\ t.fees > 0
    THEN [t EXCEPT !.ops = Append(@, Op("FEE", payer, NoAccount,
                                        t.withdrawals[payer], FALSE)),
                   !.withdrawals[payer] = 0]
    ELSE t

FeeOp(t, payer) ==
  IF ~(isTracked(payer, t.known, t.new) /\ t.fees > 0)
    THEN t
    ELSE IF t.fees > t.withdrawals[payer]
      THEN [t EXCEPT !.ok = FALSE]
      ELSE [t EXCEPT !.withdrawals[payer] = @ - t.fees,
                     !.ops = Append(@, Op("FEE", payer, NoAccount, t.fees,
                                          FALSE))]

ProxyOp(t, x) ==
  [t EXCEPT !.ops = Append(@, Op("PROXY_TRANSFER", x.sender, x.receiver,
                                 x.amount, FALSE))]

\* Mutant: looks for every deposit among those to default vaults.
MatchDeposit(t, x) ==
  IF x.amount = 0 THEN t
  ELSE IF x.receiver = NoAccount THEN ProxyOp(t, x)
  ELSE IF x.amount > t.deposits[x.receiver]
    THEN [t EXCEPT !.ok = FALSE]
    ELSE ProxyOp([t EXCEPT !.deposits[x.receiver] = @ - x.amount], x)

\* A transfer out of a proxy account uses up the matching deposit.
MatchTransfer(t, x) ==
  LET known == IF isProxy(x.receiver, t.known, t.new) THEN t.proxyDeposits
                                             ELSE t.deposits
  IN  IF x.amount = 0 THEN t
      ELSE IF x.receiver = NoAccount THEN ProxyOp(t, x)
      ELSE IF x.amount > known[x.receiver] THEN [t EXCEPT !.ok = FALSE]
      ELSE IF isProxy(x.receiver, t.known, t.new)
        THEN ProxyOp([t EXCEPT !.proxyDeposits[x.receiver] = @ - x.amount], x)
        ELSE ProxyOp([t EXCEPT !.deposits[x.receiver] = @ - x.amount], x)

\* What is left becomes one two-sided operation or several one-sided ones.
\* (The code goes over its maps in any order; the order is immaterial to
\* Diffs.)
MergeRest(t) ==
  LET in   == [a \in Addrs |-> IF t.proxyDeposits[a] > 0
                                 THEN t.proxyDeposits[a] ELSE t.deposits[a]]
      to   == SetToSeq({a \in Addrs : in[a] > 0})
      from == SetToSeq({a \in Addrs : t.withdrawals[a] > 0})
      pair == /\ Len(to) = 1 /\ Len(from) = 1
              /\ in[to[1]] = t.withdrawals[from[1]]
      one  == <<Op("TRANSFER", from[1], to[1], in[to[1]], FALSE)>>
      rest == [i \in DOMAIN to |->
                 Op("TRANSFER", NoAccount, to[i], in[to[i]], FALSE)]
              \o [i \in DOMAIN from |->
                 Op("TRANSFER", from[i], NoAccount, t.withdrawals[from[i]],
                    FALSE)]
  IN  [t EXCEPT !.ops = @ \o (IF pair THEN one ELSE rest)]

\* One turn of the loop over the transactions of the block.
ProcessTxn(before, txn) ==
  LET t1 == evtloop(NewTally(before.known, before.new, before.ops, before.ok),
                    txn.payer, txn.events)
      t2 == evtloop2(t1, txn.events)
      t3 == FeeOp(CreateOps(t2), txn.payer)
  IN  MergeRest(FoldLeft(MatchTransfer, t3, t3.transfers))

BlockTally == FoldLeft(ProcessTxn, NewTally(accts, << >>, << >>, TRUE), txns)

-----------------------------------------------------------------------------
(***************************************************************************)
(* The actions of the indexer.                                             *)
(***************************************************************************)
Balance(acct) == IF acct \in DOMAIN balances THEN balances[acct] ELSE 0

\* Mutant: the new accounts of the block stay unknown until a restart.
ForgetAccts(new) == accts

UpdatedAccts(new) == PutAll(accts, new)

FeesIn(ops, acct) ==
  FoldLeft(LAMBDA n, op : IF op.type = "FEE" /\ op.account = acct
                            THEN n + op.amount ELSE n, 0, ops)

\* The event processing of processBlock, Store.Index, and what follows it.
\* The block is deterministic: when it cannot be processed, or Index refuses
\* a negative balance, every further attempt ends in the same way.
ProcessBlock ==
  LET t    == BlockTally
      diff == Diffs(t.ops)
      new  == [a \in DOMAIN diff |-> Balance(a) + diff[a]]
      ok   == t.ok /\ \A a \in DOMAIN new : new[a] >= 0
  IN  /\ txns # << >> /\ ~stuck
      /\ stuck' = ~ok
      /\ IF ok
           THEN /\ balances' = PutAll(balances, new)
                /\ proxyKeys' = proxyKeys \cup ProxiesCreated(t.ops)
                /\ accts' = UpdatedAccts(t.new)
                /\ feesIndexed' = [a \in Addrs |->
                                     feesIndexed[a] + FeesIn(t.ops, a)]
                /\ txns' = << >>
           ELSE UNCHANGED <<balances, proxyKeys, accts, feesIndexed, txns>>
      /\ UNCHANGED <<chain, left>>

\* initState in a new process: Store.Accounts gives the tracked accounts.
StoredAccts == [a \in DOMAIN balances |-> a \in proxyKeys]

Restart ==
  /\ accts' = StoredAccts
  /\ UNCHANGED <<chain, txns, left, balances, proxyKeys, feesIndexed, stuck>>

Init ==
  /\ held = [v \in Vaults |-> IF v[1] \in Outsiders /\ v[2] = "default"
                                THEN Funds ELSE 0]
  /\ exists = Outsiders \cup {FeeAddr}
  /\ proxies = {} /\ ours = {}
  /\ feesPaid = Nothing /\ feesIndexed = Nothing
  /\ txns = << >>
  /\ left = [o \in BOOLEAN |-> IF o THEN MaxOurs ELSE MaxOthers]
  /\ accts = << >> /\ balances = << >> /\ proxyKeys = {}
  /\ stuck = FALSE

Transact ==
  \E payer \in exists :
    \/ \E new \in Addrs \ exists : CreateAccounts(payer, <<new>>)
    \/ \E new1, new2 \in Addrs \ exists :
         new1 # new2 /\ CreateAccounts(payer, <<new1, new2>>)
    \/ \E new \in Addrs \ (exists \cup Originators) :
         CreateProxyAccount(payer, new)
    \/ \E to \in exists, n \in Amounts : Transfer(payer, to, n)
    \/ \E from \in proxies, to \in exists, n \in Amounts \cup {0} :
         ProxyTransfer(payer, from, to, n)
    \/ \E to1, to2 \in exists, n \in Amounts :
         to1 # to2 /\ PayTwo(payer, to1, to2, n)
    \/ \E to \in proxies, n \in Amounts : PayDefaultVault(payer, to, n)
    \/ Fail(payer)

Next == Transact \/ ProcessBlock \/ Restart

Spec == Init /\ [][Next]_vars

-----------------------------------------------------------------------------
(***************************************************************************)
(* Properties.                                                             *)
(***************************************************************************)
Settled == txns = << >>

\* Once a block is indexed, the tracked accounts are exactly the originators
\* and the accounts that descend from them, a proxy account is known as one,
\* and the indexed balance of each is what validateBalances would read on
\* chain: the proxy vault of a proxy account, the default vault of another.
BalancesMatch ==
  Settled =>
    /\ DOMAIN accts = ours
    /\ \A a \in ours :
         /\ accts[a] = (a \in proxies)
         /\ Balance(a) = held[Receiver(a)]

\* The FEE operations of an account add up to the fees that it paid: nothing
\* else that left or entered an account in the same transaction is mixed in.
FeesMatch == Settled => \A a \in Addrs : feesIndexed[a] = feesPaid[a]

\* No block that the accounts of ours and others can produce makes
\* processBlock repeat the same block for ever.
NeverStuck == ~stuck

\* A process that starts on the index tracks the accounts that the running
\* one does: the indexer may be restarted after any block. Every isProxy key
\* belongs to an account with a balance, without which Store.Accounts fails
\* and the indexer cannot start at all.
RestartNeutral ==
  /\ proxyKeys \subseteq DOMAIN balances
  /\ \A a \in Addrs : /\ isTracked(a, accts, << >>) <=>
                           a \in DOMAIN StoredAccts \cup Originators
                      /\ isProxy(a, accts, << >>) <=>
                           a \in DOMAIN StoredAccts /\ StoredAccts[a]

-----------------------------------------------------------------------------
(***************************************************************************)
(* The inductive invariant behind the properties: they hold at any moment  *)
(* of the state that the index would reach if the transactions of the      *)
(* block in hand were processed now.                                       *)
(***************************************************************************)
Events == [type : {"TokensWithdrawn", "TokensDeposited", "AccountCreated",
                   "ProxyCreated", "ProxyDeposited", "ProxyTransferred"},
           account : Addrs, receiver : Addrs \cup {NoAccount}, amount : Nat]

Txns == [payer : Addrs, events : Seq(Events)]

TypeOK ==
  /\ held \in [Vaults -> Nat]
  /\ exists \subseteq Addrs
  /\ proxies \subseteq exists /\ ours \subseteq exists
  /\ feesPaid \in [Addrs -> Nat] /\ feesIndexed \in [Addrs -> Nat]
  /\ txns \in Seq(Txns)
  /\ DOMAIN accts \subseteq Addrs /\ accts \in [DOMAIN accts -> BOOLEAN]
  /\ balances \in [DOMAIN balances -> Nat]
  /\ proxyKeys \subseteq Addrs

\* Only accounts that exist hold FLOW, and only proxy accounts in a proxy
\* vault; the fee account is nobody's, and an originator that exists is ours.
ChainInv ==
  /\ FeeAddr \in exists \ (ours \cup proxies)
  /\ exists \cap Originators \subseteq ours
  /\ \A a \in Addrs \ exists : held[Default(a)] = 0
  /\ \A a \in Addrs \ proxies : held[<<a, "proxy">>] = 0

\* The index and the process that runs on it agree.
StoreInv ==
  /\ ~stuck
  /\ DOMAIN balances = DOMAIN accts
  /\ \A a \in DOMAIN accts : accts[a] <=> a \in proxyKeys
  /\ proxyKeys \subseteq DOMAIN accts

\* The change of an account's balance by a block.
Change(ops, acct) == IF acct \in DOMAIN Diffs(ops) THEN Diffs(ops)[acct] ELSE 0

\* The tally of the block in hand accounts for what is new on the chain.
TallyInv(t) ==
  /\ t.known = accts /\ t.ok
  /\ DOMAIN accts \cup DOMAIN t.new = ours
  /\ DOMAIN accts \cap DOMAIN t.new = {}
  /\ \A a \in DOMAIN accts : accts[a] <=> a \in proxies
  /\ \A a \in DOMAIN t.new : t.new[a] <=> a \in proxies
  /\ DOMAIN t.new \subseteq DOMAIN Diffs(t.ops)
  /\ DOMAIN Diffs(t.ops) \subseteq ours
  /\ ProxiesCreated(t.ops) = DOMAIN t.new \cap proxies
  /\ \A a \in ours : Balance(a) + Change(t.ops, a) = held[Receiver(a)]
  /\ \A a \in Addrs : feesIndexed[a] + FeesIn(t.ops, a) = feesPaid[a]

BlockOpsInv == TypeOK /\ ChainInv /\ StoreInv /\ TallyInv(BlockTally)

=============================================================================
