---------------------------- MODULE Construction ----------------------------
(***************************************************************************)
(* The construction API of Flow Rosetta (src/api/construction_service.go): *)
(* how a list of operations becomes a signed transaction, and what the     *)
(* chain then does with it.                                                *)
(*                                                                         *)
(* The server keeps nothing between two calls: options and transactions    *)
(* travel with the caller, who may wait, repeat a call or start over, while*)
(* other callers spend from the same payer.  A session is one order of one *)
(* caller.  Around it are the chain, Access API servers that lag behind it *)
(* by any number of blocks, and answers that get lost.                     *)
(*                                                                         *)
(* A hash is the content that is hashed, a block hash is the height of the *)
(* block, and the arguments of a transaction go by the names of the        *)
(* parameters of its script.  A public key and a signature carry the       *)
(* format they are encoded in.                                             *)
(***************************************************************************)
EXTENDS Integers, Sequences, FiniteSets, SequencesExt

CONSTANTS
  Sessions,
  Requests,      \* Requests[s]: the operations that s may give to preprocess
                 \* and to payloads
  FirstPins,     \* FirstPins[s]: the sequence numbers that s may begin with,
                 \* -1 for none
  Payer,         \* the account that pays
  Proxy,         \* the account with a FlowColdStorageProxy.Vault
  Users,         \* other accounts
  FeeAddrs,      \* Chain.Contracts.FeeAddresses
  FirstKey,      \* the key that the payer starts with
  SpareKey,      \* the key that its owner rotates to
  ColdKey,       \* the key of the vault
  Keys,          \* all keys
  Resolved,      \* literal import addresses of the scripts that the chain knows
  Word,          \* number of values of a uint64
  Expiry,        \* blocks in which a transaction can still be included
  MaxHeight,     \* bound: blocks of the chain
  MaxTries,      \* bound: MaxTries[s] transactions of a session
  None           \* nil

ASSUME ConstructionAssumption ==
  /\ MaxHeight \in Nat \ {0, 1} /\ \A s \in Sessions : MaxTries[s] \in Nat
  /\ Expiry \in Nat /\ Word \in Nat \ {0}
  /\ Payer # Proxy /\ FeeAddrs \cap {Payer, Proxy} = {}
  /\ {FirstKey, SpareKey, ColdKey} \subseteq Keys
  /\ None \notin {Payer, Proxy} \cup Keys \cup Users \cup FeeAddrs

VARIABLES
  ledger,    \* ledger[h]: the payer's keys and the nonce of the vault at h
  pool,      \* signed transactions that the network has accepted
  executed,  \* transactions that blocks include, with their outcome
  stage,     \* stage[s]: the call that s makes next
  order,     \* order[s]: the member of Requests[s] that s asks for
  pin,       \* pin[s]: metadata.sequence_number, -1 when it is missing
  opts,      \* opts[s]: the ConstructOpts that s holds
  txn,       \* txn[s]: the transaction that s holds
  built,     \* built[s]: the signed transactions of s
  expired    \* hashes that /construction/submit has reported as expired

chainVars   == <<ledger, pool, executed>>
sessionVars == <<stage, order, pin, opts, txn, built>>
vars        == <<chainVars, sessionVars, expired>>

Accounts == {Payer, Proxy} \cup Users \cup FeeAddrs
Height   == Len(ledger)                    \* of the latest sealed block

-----------------------------------------------------------------------------
(* Formats: keys and signatures are re-encoded on the way in and back.     *)

ConvertRosettaPublicKey(k) ==
  IF k.fmt = "compressed" THEN [k EXCEPT !.fmt = "flow"] ELSE None

ConvertFlowPublicKey(k) ==
  IF k.fmt = "flow" THEN [k EXCEPT !.fmt = "compressed"] ELSE None

ConvertDERSignature(sig) ==
  IF sig.fmt = "der" THEN [sig EXCEPT !.fmt = "flow"] ELSE None

ConvertFlowSignature(sig) ==
  IF sig.fmt = "flow" THEN [sig EXCEPT !.fmt = "der"] ELSE None

Sign(key, hash) == [fmt |-> "flow", by |-> key, over |-> hash]

(* big.Int.Uint64 keeps the low bits of an amount.                         *)
Uint64(n) == n % Word

-----------------------------------------------------------------------------
(* parseIntent.  An operation is [type, account, value, data]; data is the *)
(* metadata of the operations that create accounts or deploy contracts.    *)

createTypes   == {"create_account", "create_proxy_account"}
contractTypes == {"deploy_contract", "update_contract"}
transferTypes == {"transfer", "proxy_transfer", "proxy_transfer_inner"}

(* The metadata that an order to deploy or update a contract comes with.   *)
ContractMetadata ==
  [code : [fmt : STRING], prev_key_index : Nat, key_message : STRING,
   new_key : [fmt : STRING, key : Keys],
   key_signature : [fmt : STRING, by : Keys, over : STRING]]

Operations(ops) ==
  /\ ops \in Seq(ToSet(ops))
  /\ \A op \in ToSet(ops) :
       /\ op.value \in Int
       /\ op.type \in createTypes => op.data \in {None} \cup [fmt : STRING, key : Keys]
       /\ op.type \in contractTypes => op.data \in {None} \cup ContractMetadata

ASSUME RequestsAssumption ==
  \A s \in Sessions :
    /\ FirstPins[s] \subseteq Nat \cup {-1}
    /\ \A r \in Requests[s] :
         r # None /\ Operations(r.preprocess) /\ Operations(r.payloads)

(* nil is no argument of a transaction.                                    *)
ASSUME NoneAssumption ==
  /\ None \notin Int
  /\ None \notin Seq([fmt : {"flow"}, key : Keys])
  /\ None \notin [fmt : {"flow"}, by : Keys,
                  over : [receiver : Accounts, amount : Nat, nonce : Int]]

(* The metadata of a contract operation, complete and well formed.         *)
contractData(d) ==
  /\ d # None
  /\ d.code.fmt = "hex"
  /\ ConvertRosettaPublicKey(d.new_key) # None
  /\ ConvertDERSignature(d.key_signature) # None

NoIntent == [inner |-> FALSE, proxy |-> FALSE, keys |-> <<>>, contract |-> None,
             update |-> FALSE, sender |-> None, receiver |-> None, amount |-> 0]

(* MatchOperations with two descriptions and ErrUnmatched: one operation   *)
(* takes, one gives, in either order.  The two amounts are not compared.   *)
matchOperations(ops) ==
  /\ Len(ops) = 2
  /\ \A i \in 1..2 : ops[i].account \in Accounts
  /\ \E i, j \in 1..2 : ops[i].value < 0 /\ ops[j].value > 0

transferIntent(ops) ==
  LET take == CHOOSE op \in ToSet(ops) : op.value < 0
      give == CHOOSE op \in ToSet(ops) : op.value > 0
  IN  [NoIntent EXCEPT !.sender = take.account, !.receiver = give.account,
                       !.amount = Uint64(give.value),
                       !.proxy = (ops[1].type = "proxy_transfer"),
                       !.inner = (ops[1].type = "proxy_transfer_inner")]

createIntent(ops) ==
  [NoIntent EXCEPT !.keys = [i \in DOMAIN ops |-> ConvertRosettaPublicKey(ops[i].data)],
                   !.proxy = (ops[1].type = "create_proxy_account")]

contractIntent(op) ==
  [NoIntent EXCEPT
     !.contract = [op.data EXCEPT
                     !.new_key = ConvertRosettaPublicKey(op.data.new_key),
                     !.key_signature = ConvertDERSignature(op.data.key_signature)],
     !.update = (op.type = "update_contract")]

parseIntent(ops) ==
  IF ops = <<>> \/ \E op \in ToSet(ops) : op.type # ops[1].type THEN None
  ELSE CASE ops[1].type \in createTypes ->
              IF \/ \E op \in ToSet(ops) :
                      op.data = None \/ ConvertRosettaPublicKey(op.data) = None
                 \/ ops[1].type = "create_proxy_account" /\ Len(ops) > 1
              THEN None ELSE createIntent(ops)
         [] ops[1].type \in contractTypes ->
              IF Len(ops) > 1 \/ ~contractData(ops[1].data)
              THEN None ELSE contractIntent(ops[1])
         [] ops[1].type \in transferTypes ->
              IF matchOperations(ops) THEN transferIntent(ops) ELSE None
         [] OTHER -> None

-----------------------------------------------------------------------------
(* Transactions.                                                           *)

NoArgs == [keys |-> None, publicKey |-> None, contract |-> None, update |-> None,
           sender |-> None, receiver |-> None, amount |-> None, nonce |-> None,
           sig |-> None]

(* The script of an intent and the arguments that payloads encodes for it. *)
scriptOf(intent) ==
  CASE intent.keys # <<>> /\ intent.proxy -> "createProxyAccount"
    [] intent.keys # <<>> /\ ~intent.proxy -> "createAccount"
    [] intent.contract # None -> "setContract"
    [] OTHER -> IF intent.proxy THEN "proxyTransfer" ELSE "basicTransfer"

argsOf(intent, payload) ==
  CASE scriptOf(intent) = "createProxyAccount" ->
         [NoArgs EXCEPT !.publicKey = intent.keys[1]]
    [] scriptOf(intent) = "createAccount" -> [NoArgs EXCEPT !.keys = intent.keys]
    [] scriptOf(intent) = "setContract" ->
         [NoArgs EXCEPT !.contract = intent.contract, !.update = intent.update]
    [] scriptOf(intent) = "basicTransfer" ->
         [NoArgs EXCEPT !.receiver = intent.receiver, !.amount = intent.amount]
    [] scriptOf(intent) = "proxyTransfer" ->
         [NoArgs EXCEPT !.sender = intent.sender, !.receiver = intent.receiver,
                        !.amount = intent.amount, !.nonce = payload.nonce,
                        !.sig = payload.sig]

(* What the key of the payer signs, and what identifies a transaction.     *)
TransactionEnvelopeHash(t) == [t EXCEPT !.sig = None]
TransactionHash(t) == <<TransactionEnvelopeHash(t), t.sig>>

(* What the cold key signs: the sender is not part of it.                  *)
innerHash(t) == [receiver |-> t.receiver, amount |-> t.amount, nonce |-> t.nonce]

isInner(t) == t.script = "inner"

(* decodeTransaction of a signed payload.                                  *)
isSigned(t) == t.sig # None

-----------------------------------------------------------------------------
(* /construction/parse: the operations that a transaction stands for.      *)

Op(type, account, value, data) ==
  [type |-> type, account |-> account, value |-> value, data |-> data]

transferOps(type, sender, receiver, amount) ==
  <<Op(type, sender, -amount, None), Op(type, receiver, amount, None)>>

decodeTransferOps(t, proxy) ==
  IF proxy THEN transferOps("proxy_transfer", t.args.sender, t.args.receiver, t.args.amount)
           ELSE transferOps("transfer", t.payer, t.args.receiver, t.args.amount)

decodeCreateAccountOps(t, proxy) ==
  IF proxy
  THEN <<Op("create_proxy_account", None, 0, ConvertFlowPublicKey(t.args.publicKey))>>
  ELSE [i \in DOMAIN t.args.keys |->
          Op("create_account", None, 0, ConvertFlowPublicKey(t.args.keys[i]))]

decodeContractOps(t) ==
  <<Op(IF t.args.update THEN "update_contract" ELSE "deploy_contract", None, 0,
       [t.args.contract EXCEPT
          !.new_key = ConvertFlowPublicKey(t.args.contract.new_key),
          !.key_signature = ConvertFlowSignature(t.args.contract.key_signature)])>>

ConstructionParse(t) ==
  CASE isInner(t) -> transferOps("proxy_transfer_inner", t.sender, t.receiver, t.amount)
    [] t.script = "basicTransfer" -> decodeTransferOps(t, FALSE)
    [] t.script = "proxyTransfer" -> decodeTransferOps(t, TRUE)
    [] t.script = "createAccount" -> decodeCreateAccountOps(t, FALSE)
    [] t.script = "createProxyAccount" -> decodeCreateAccountOps(t, TRUE)
    [] t.script = "setContract" -> decodeContractOps(t)

(* What a caller compares before it signs: the operations, in any order.   *)
Places(op, ops) == {i \in DOMAIN ops : ops[i] = op}

SameOps(a, b) ==
  \A op \in ToSet(a) \cup ToSet(b) : Cardinality(Places(op, a)) = Cardinality(Places(op, b))

-----------------------------------------------------------------------------
(* The chain.  Vault is the state of FlowColdStorageProxy that transfers   *)
(* depend on; the payer's keys are numbered from 0.                        *)

NewKey(k) == [key |-> k, revoked |-> FALSE, seq |-> 0]
Advanced(k) == [k EXCEPT !.seq = @ + 1]
Revoked(k) == [k EXCEPT !.revoked = TRUE]

(* The state after a transaction that key number i proposes, and after the *)
(* last key is replaced.                                                   *)
Used(st, i) ==
  [keys |-> [st.keys EXCEPT ![i] = Advanced(@)], nonce |-> st.nonce]

Rotated(st, k) ==
  [keys  |-> Append([st.keys EXCEPT ![Len(st.keys)] = Revoked(@)], NewKey(k)),
   nonce |-> st.nonce]

Parameters ==
  [basicTransfer      |-> {"receiver", "amount"},
   proxyTransfer      |-> {"sender", "receiver", "amount", "nonce", "sig"},
   createAccount      |-> {"keys"},
   createProxyAccount |-> {"name", "publicKey", "manager"},
   setContract        |-> {"update", "contract"}]

Arguments(t) == {p \in DOMAIN t.args : t.args[p] # None}

(* The import addresses that script.Compile leaves as they are: it fills in*)
(* Go templates only.  The contracts have other addresses on every chain.  *)
Imports ==
  [basicTransfer      |-> {},
   proxyTransfer      |-> {"0xProxy"},
   createAccount      |-> {},
   createProxyAccount |-> {"0xProxy", "0xFlow"},
   setContract        |-> {},
   getProxyNonce      |-> {"0xProxy"}]

Compiles(script) == Imports[script] \subseteq Resolved

Nothing == [ok |-> FALSE, moves |-> {}, made |-> <<>>]

Moved(sender, receiver, amount) ==
  [Nothing EXCEPT !.ok = TRUE, !.moves = {<<sender, -amount>>, <<receiver, amount>>}]

Made(keys) == [Nothing EXCEPT !.ok = TRUE, !.made = keys]

(* FlowColdStorageProxy.Vault.transfer: the nonce follows on from the last *)
(* one, and the cold key has signed what is transferred.                   *)
vaultTransfers(t, st) ==
  /\ t.args.sender = Proxy
  /\ t.args.nonce = st.nonce + 1
  /\ t.args.sig = Sign(ColdKey, innerHash(t.args))

(* Mutant: the vault counts down, or not at all.                           *)
nextNonceDown(st) == st.nonce - 1
nextNonceStays(st) == st.nonce

nextNonce(st) == st.nonce + 1

(* proxy-contract-update.cdc: the new key has signed the message, the key  *)
(* to replace is the last one, and the bytes of the string contractCode    *)
(* are Cadence source.                                                     *)
contractIsSet(t, st) ==
  LET c == t.args.contract
  IN  /\ c.new_key.fmt = "flow"
      /\ c.key_signature = Sign(c.new_key.key, c.key_message)
      /\ c.prev_key_index = Len(st.keys) - 1
      /\ c.code.fmt = "source"

(* create-account.cdc makes one account for each key.                      *)
(* Mutant: only for the first.                                             *)
firstAccountMade(t) == <<t.args.keys[1].key>>

accountsMade(t) == [i \in DOMAIN t.args.keys |-> t.args.keys[i].key]

(* The outcome of a script in state st.                                    *)
Outcome(t, st) ==
  IF Arguments(t) # Parameters[t.script] \/ ~Compiles(t.script) THEN Nothing
  ELSE CASE t.script = "basicTransfer" ->
              Moved(t.payer, t.args.receiver, t.args.amount)
         [] t.script = "proxyTransfer" ->
              IF vaultTransfers(t, st)
              THEN Moved(t.args.sender, t.args.receiver, t.args.amount) ELSE Nothing
         [] t.script = "createAccount" ->
              IF \A k \in ToSet(t.args.keys) : k.fmt = "flow"
              THEN Made(accountsMade(t)) ELSE Nothing
         [] t.script = "createProxyAccount" -> Made(<<t.args.publicKey.key>>)
         [] t.script = "setContract" -> [Nothing EXCEPT !.ok = contractIsSet(t, st)]

(* The state after that outcome.                                           *)
After(t, st, out) ==
  CASE out.ok /\ t.script = "proxyTransfer" -> [st EXCEPT !.nonce = nextNonce(st)]
    [] out.ok /\ t.script = "setContract" -> Rotated(st, t.args.contract.new_key.key)
    [] OTHER -> st

(* A transaction may propose with a key that is there, in force, at that   *)
(* sequence number, and that has signed the envelope.                      *)
Proposes(t, st) ==
  /\ t.keyId + 1 \in DOMAIN st.keys
  /\ LET k == st.keys[t.keyId + 1]
     IN  /\ ~k.revoked
         /\ k.seq = t.seq
         /\ t.sig = Sign(k.key, TransactionEnvelopeHash(t))

Known(t) == \E e \in executed : TransactionHash(e.txn) = TransactionHash(t)

Includable(t, h) == t.ref < h /\ h - t.ref <= Expiry /\ ~Known(t)

Now == ledger[Height]

(* A block with one of our transactions.  The sequence number advances     *)
(* whatever the script then does.                                          *)
Result(t) == IF Proposes(t, Now) THEN Outcome(t, Now) ELSE Nothing
Charged(t) == IF Proposes(t, Now) THEN Used(Now, t.keyId + 1) ELSE Now

Executed(t, height, out) == [txn |-> t, at |-> height, out |-> out]

Include ==
  /\ Height < MaxHeight
  /\ \E t \in pool :
       /\ Includable(t, Height + 1)
       /\ ledger' = Append(ledger, After(t, Charged(t), Result(t)))
       /\ executed' = executed \cup {Executed(t, Height + 1, Result(t))}
  /\ UNCHANGED <<pool, sessionVars, expired>>

(* A block with none of them.                                              *)
OtherBlock ==
  /\ Height < MaxHeight
  /\ ledger' = Append(ledger, Now)
  /\ UNCHANGED <<pool, executed, sessionVars, expired>>

(* The owner of the payer replaces its key with a transaction of its own.  *)
RotateKey ==
  /\ Height < MaxHeight
  /\ \A i \in DOMAIN Now.keys : Now.keys[i].key # SpareKey
  /\ ledger' = Append(ledger, Rotated(Now, SpareKey))
  /\ UNCHANGED <<pool, executed, sessionVars, expired>>

-----------------------------------------------------------------------------
(* /construction/preprocess: refusals, and the options of an intent.       *)

Inners == {t \in UNION {built[s] : s \in Sessions} : isInner(t)}

NeedsPayload(intent) == intent.proxy /\ intent.keys = <<>>

(* No intent, or a transfer to a fee address.                              *)
refused(intent) == IF intent = None THEN TRUE ELSE intent.receiver \in FeeAddrs

(* Package fees: execution efforts, and the fees that depend on them.      *)
Effort ==
  [CreateAccount |-> 70, CreateProxyAccount |-> 110, DeployContract |-> 550,
   FlowTransfer |-> 30, ProxyTransfer |-> 80, UpdateContract |-> 480]
MinimumAccountBalance == 100000

executionEffort(intent) ==
  CASE intent.contract # None ->
         IF intent.update THEN Effort.UpdateContract ELSE Effort.DeployContract
    [] intent.contract = None /\ intent.keys # <<>> ->
         IF intent.proxy THEN Effort.CreateProxyAccount
         ELSE Effort.CreateAccount * Len(intent.keys)
    [] OTHER -> IF intent.proxy THEN Effort.FlowTransfer ELSE Effort.ProxyTransfer

preprocessOpts(intent, payload, seq) ==
  [inner       |-> intent.inner,
   newAccounts |-> Len(intent.keys),
   seq         |-> seq,
   payload     |-> payload,
   keyId       |-> IF intent.contract # None THEN intent.contract.prev_key_index ELSE 0,
   effort      |-> executionEffort(intent),
   payer       |-> IF intent.inner THEN intent.sender ELSE Payer,
   ref         |-> 0,                     \* BlockHash, not set yet
   remote      |-> FALSE,
   fees        |-> 0]

ConstructionPreprocess(s) ==
  /\ stage[s] = "preprocess"
  /\ \E r \in IF order[s] = None THEN Requests[s] ELSE {order[s]} :
       LET intent == parseIntent(r.preprocess)
       IN  /\ order' = [order EXCEPT ![s] = r]
           /\ \/ /\ refused(intent)
                 /\ stage' = [stage EXCEPT ![s] = "refused"]
                 /\ UNCHANGED opts
              \/ /\ ~refused(intent)
                 /\ \E payload \in IF NeedsPayload(intent) THEN Inners ELSE {None} :
                      opts' = [opts EXCEPT ![s] = preprocessOpts(intent, payload, pin[s])]
                 /\ stage' = [stage EXCEPT ![s] = "metadata"]
  /\ UNCHANGED <<chainVars, pin, txn, built, expired>>

-----------------------------------------------------------------------------
(* /construction/metadata, when the latest sealed block of the server is h *)
(* and Index.Latest() is at latest: each may be any number of blocks behind*)
(* the chain, and a resync takes the index back.  GetProxyNonce is -1 for  *)
(* an account without a vault.                                             *)

GetProxyNonce(addr, h) == IF addr = Proxy THEN ledger[h].nonce + 1 ELSE -1

(* get_proxy_nonce runs when no sequence number was given.                 *)
innerMetadata(o, h) ==
  CASE o.seq # -1 -> o
    [] o.seq = -1 /\ ~Compiles("getProxyNonce") -> None
    [] OTHER -> [o EXCEPT !.seq = GetProxyNonce(o.payer, h)]

(* The height whose block is the reference and whose account is read.      *)
metadataHeight(h, latest) == IF h > latest THEN h ELSE latest

InForce(keys) == {i \in DOMAIN keys : ~keys[i].revoked}

(* The key is there and in force when its sequence number is asked for, and*)
(* it is the only one.                                                     *)
keyIsValid(o, keys) ==
  /\ o.seq = -1 => o.keyId + 1 \in InForce(keys)
  /\ Cardinality(InForce(keys)) = 1

(* Mutant: a sequence number that the caller gives is not kept.            *)
flowMetadataUnpinned(o, h, latest) ==
  LET height == metadataHeight(h, latest)
      keys   == ledger[height].keys
  IN  IF ~keyIsValid([o EXCEPT !.seq = -1], keys) THEN None
      ELSE [o EXCEPT !.seq = keys[o.keyId + 1].seq, !.ref = height,
                     !.remote = (h > latest),
                     !.fees = o.effort + o.newAccounts * MinimumAccountBalance]

(* Mutant: the account is read at the header of the server.                *)
flowMetadataAtHeader(o, h, latest) ==
  LET keys == ledger[h].keys
  IN  IF ~keyIsValid(o, keys) THEN None
      ELSE [o EXCEPT !.seq = IF @ = -1 THEN keys[o.keyId + 1].seq ELSE @,
                     !.ref = metadataHeight(h, latest),
                     !.remote = (h > latest),
                     !.fees = o.effort + o.newAccounts * MinimumAccountBalance]

flowMetadata(o, h, latest) ==
  LET height == metadataHeight(h, latest)
      keys   == ledger[height].keys
  IN  IF ~keyIsValid(o, keys) THEN None
      ELSE [o EXCEPT !.seq = IF @ = -1 THEN keys[o.keyId + 1].seq ELSE @,
                     !.ref = height,
                     !.remote = (h > latest),
                     !.fees = o.effort + o.newAccounts * MinimumAccountBalance]

ConstructionMetadata(s) ==
  /\ stage[s] = "metadata"
  /\ \E h, latest \in 1..Height :
       LET o == IF opts[s].inner THEN innerMetadata(opts[s], h)
                ELSE flowMetadata(opts[s], h, latest)
       IN  /\ o # None
           /\ opts' = [opts EXCEPT ![s] = o]
  /\ stage' = [stage EXCEPT ![s] = "payloads"]
  /\ UNCHANGED <<chainVars, order, pin, txn, built, expired>>

-----------------------------------------------------------------------------
(* /construction/payloads parses the operations that it is given, which    *)
(* need not be those of preprocess, and looks at no fee address.           *)

unsigned(intent, o) ==
  IF intent.inner
  THEN [script |-> "inner", amount |-> intent.amount, nonce |-> o.seq,
        receiver |-> intent.receiver, sender |-> intent.sender, sig |-> None]
  ELSE [script |-> scriptOf(intent), args |-> argsOf(intent, o.payload),
        payer |-> o.payer, keyId |-> o.keyId, seq |-> o.seq, ref |-> o.ref,
        sig |-> None]

(* No intent, no sequence number, or no payload for a proxy transfer.      *)
unpayable(intent, o) ==
  IF intent = None THEN TRUE
  ELSE o.seq < 0 \/ (NeedsPayload(intent) /\ o.payload = None)

ConstructionPayloads(s) ==
  /\ stage[s] = "payloads"
  /\ LET intent == parseIntent(order[s].payloads)
     IN  \/ /\ unpayable(intent, opts[s])
            /\ stage' = [stage EXCEPT ![s] = "refused"]
            /\ UNCHANGED txn
         \/ /\ ~unpayable(intent, opts[s])
            /\ txn' = [txn EXCEPT ![s] = unsigned(intent, opts[s])]
            /\ stage' = [stage EXCEPT ![s] = "combine"]
  /\ UNCHANGED <<chainVars, order, pin, opts, built, expired>>

(* The caller parses what it got, compares it with what it asked for, signs*)
(* it with the key that is then in force, and calls /construction/combine, *)
(* which puts the signature beside the proposal key.                       *)
combined(t) ==
  [t EXCEPT !.sig = IF isInner(t) THEN Sign(ColdKey, innerHash(t))
                    ELSE Sign(Last(Now.keys).key, TransactionEnvelopeHash(t))]

ConstructionCombine(s) ==
  /\ stage[s] = "combine"
  /\ \/ /\ ~SameOps(ConstructionParse(txn[s]), order[s].payloads)
        /\ stage' = [stage EXCEPT ![s] = "refused"]
        /\ UNCHANGED <<txn, built>>
     \/ /\ SameOps(ConstructionParse(txn[s]), order[s].payloads)
        /\ txn' = [txn EXCEPT ![s] = combined(@)]
        /\ built' = [built EXCEPT ![s] = @ \cup {combined(txn[s])}]
        /\ stage' = [stage EXCEPT ![s] = "submit"]
  /\ UNCHANGED <<chainVars, order, pin, opts, expired>>

-----------------------------------------------------------------------------
(* /construction/submit.  A reply is what the Access API server did and the*)
(* status that comes back: the call may time out after the server took the *)
(* transaction.                                                            *)

Reply(sent, code, text) == [sent |-> sent, code |-> code, text |-> text]

Replies(t, h) ==
  {Reply(FALSE, "Unavailable", "")}
  \cup IF t.ref \notin 1..h
       THEN {Reply(FALSE, "InvalidArgument", "unknown reference block")}
       ELSE IF h - t.ref > Expiry
       THEN {Reply(FALSE, "InvalidArgument", "transaction is expired")}
       ELSE {Reply(TRUE, "OK", ""), Reply(TRUE, "DeadlineExceeded", "")}

(* A trailer that says that no calls remain replaces the reply.            *)
InterceptRateLimitUnary(r, limited) ==
  IF limited THEN [r EXCEPT !.code = "ResourceExhausted", !.text = "rate limit reached"]
  ELSE r

IsRateLimited(r) == r.code = "ResourceExhausted" /\ r.text = "rate limit reached"

(* Mutant: every invalid argument is taken for an expiry.                  *)
verdictByCode(r) ==
  CASE r.code = "OK" -> "ok"
    [] IsRateLimited(r) -> "rate limited"
    [] r.code = "InvalidArgument" -> "expired"
    [] OTHER -> "broadcast failed"

verdict(r) ==
  CASE r.code = "OK" -> "ok"
    [] IsRateLimited(r) -> "rate limited"
    [] r.code = "InvalidArgument" /\ r.text = "transaction is expired" -> "expired"
    [] OTHER -> "broadcast failed"

(* What submitting to any of the servers can come to.                      *)
Submissions(t) ==
  {[sent |-> r.sent, verdict |-> verdict(InterceptRateLimitUnary(r, limited))] :
     r \in UNION {Replies(t, h) : h \in 1..Height}, limited \in BOOLEAN}

ConstructionSubmit(s) ==
  /\ stage[s] = "submit"
  /\ isSigned(txn[s]) /\ ~isInner(txn[s])
  /\ \E r \in Submissions(txn[s]) :
       /\ pool' = IF r.sent THEN pool \cup {txn[s]} ELSE pool
       /\ expired' = IF r.verdict = "expired"
                     THEN expired \cup {TransactionHash(txn[s])} ELSE expired
  /\ UNCHANGED <<ledger, executed, sessionVars>>

(* The caller starts over: with the sequence number that it already used,  *)
(* at any time; with a new one, only when each of its transactions is known*)
(* to have failed or was reported as expired and is not on the chain.      *)
Outcomes(s) == {e.out.ok : e \in {x \in executed : x.txn \in built[s]}}

Settled(t) == Known(t) \/ TransactionHash(t) \in expired

StartOver(s) ==
  /\ stage[s] = "submit" /\ ~isInner(txn[s])
  /\ Cardinality(built[s]) < MaxTries[s]
  /\ \/ pin' = [pin EXCEPT ![s] = txn[s].seq]
     \/ /\ \A t \in built[s] : Settled(t)
        /\ TRUE \notin Outcomes(s)
        /\ pin' = [pin EXCEPT ![s] = -1]
  /\ stage' = [stage EXCEPT ![s] = "preprocess"]
  /\ opts' = [opts EXCEPT ![s] = None]
  /\ txn' = [txn EXCEPT ![s] = None]
  /\ UNCHANGED <<chainVars, order, built, expired>>

-----------------------------------------------------------------------------
Init ==
  /\ ledger = [h \in 1..2 |-> [keys |-> <<NewKey(FirstKey)>>, nonce |-> -1]]
  /\ pool = {} /\ executed = {} /\ expired = {}
  /\ stage = [s \in Sessions |-> "preprocess"]
  /\ order = [s \in Sessions |-> None]
  /\ pin \in [Sessions -> UNION {FirstPins[s] : s \in Sessions}]
  /\ \A s \in Sessions : pin[s] \in FirstPins[s]
  /\ opts = [s \in Sessions |-> None]
  /\ txn = [s \in Sessions |-> None]
  /\ built = [s \in Sessions |-> {}]

Next ==
  \/ Include
  \/ OtherBlock
  \/ RotateKey
  \/ \E s \in Sessions :
       \/ ConstructionPreprocess(s)
       \/ ConstructionMetadata(s)
       \/ ConstructionPayloads(s)
       \/ ConstructionCombine(s)
       \/ ConstructionSubmit(s)
       \/ StartOver(s)

Spec == Init /\ [][Next]_vars

-----------------------------------------------------------------------------
(* Properties.                                                             *)

(* TypeOK: the state has the shape that the actions rely on; the server is *)
(* never asked for a call out of turn.                                     *)
TypeOK ==
  /\ Height \in 1..MaxHeight
  /\ \A h \in 1..Height :
       /\ ledger[h].nonce \in -1..MaxHeight
       /\ \A i \in DOMAIN ledger[h].keys :
            ledger[h].keys[i] \in [key : Keys, revoked : BOOLEAN, seq : 0..MaxHeight]
  /\ pool \subseteq UNION {built[s] : s \in Sessions}
  /\ {e.txn : e \in executed} \subseteq pool
  /\ \A s \in Sessions :
       /\ stage[s] \in {"preprocess", "metadata", "payloads", "combine", "submit", "refused"}
       /\ stage[s] \in {"metadata", "payloads"} => opts[s].seq \in Int
       /\ stage[s] \in {"combine", "submit"} =>
            txn[s].script \in {"inner"} \cup DOMAIN Parameters
       /\ stage[s] = "submit" => txn[s] \in built[s]

(* AtMostOnce: however often a caller resubmits, however many answers are  *)
(* lost or turned into errors, and whichever way it starts over, its order *)
(* is executed at most once.                                               *)
AtMostOnce ==
  \A s \in Sessions :
    Cardinality({e \in executed : e.txn \in built[s] /\ e.out.ok}) <= 1

(* ExpiredIsFinal: after /construction/submit has answered that a          *)
(* transaction is expired, no later block executes it: a caller may build  *)
(* another one.                                                            *)
ExpiredIsFinal ==
  [][\A e \in executed' \ executed : TransactionHash(e.txn) \notin expired]_vars

(* What an order asks of the chain.                                        *)
Wanted(ops) ==
  [moves |-> {<<op.account, op.value>> : op \in
                {x \in ToSet(ops) : x.type \in transferTypes}},
   made  |-> IF ops[1].type \in createTypes
             THEN [i \in DOMAIN ops |-> ops[i].data.key] ELSE <<>>]

(* EffectMatchesIntent: when a transaction of a session takes effect, it   *)
(* moves the funds and makes the accounts that the order of the session    *)
(* lists and nothing else: what payloads encodes, parse shows, the scripts *)
(* and the vault execute and the caller asked for is one thing, also when  *)
(* amounts differ or exceed 64 bits, or an inner payload is for another    *)
(* transfer.                                                               *)
EffectMatchesIntent ==
  \A s \in Sessions : \A e \in executed :
    e.txn \in built[s] /\ e.out.ok =>
      [moves |-> e.out.moves, made |-> e.out.made] = Wanted(order[s].payloads)

(* The payload fits the order of s and is signed for the next nonce.       *)
PayloadFits(s, st) ==
  LET p == opts[s].payload
      a == txn[s].args
  IN  /\ p.sender = Proxy /\ p.nonce = st.nonce + 1
      /\ <<p.sender, p.receiver, p.amount>> = <<a.sender, a.receiver, a.amount>>

(* The one transaction of s was built from looked-up metadata, and nothing *)
(* that it depends on changed between its reference block and the block    *)
(* that executes it.                                                       *)
Undisturbed(s, e) ==
  /\ stage[s] = "submit" /\ built[s] = {e.txn} /\ pin[s] = -1
  /\ ledger[e.at - 1].keys = ledger[e.txn.ref].keys
  /\ e.txn.script = "proxyTransfer" => PayloadFits(s, ledger[e.at - 1])

ExecutesUndisturbed(types) ==
  \A s \in Sessions : \A e \in executed :
    Undisturbed(s, e) /\ order[s].payloads[1].type \in types => e.out.ok

(* FreshTransfersExecute: a transfer or an account creation whose payer    *)
(* nobody else used since the reference block succeeds: the sequence       *)
(* number, the key and the reference block of /construction/metadata fit   *)
(* each other although they come from several calls, to servers that lag,  *)
(* and from the index.  A proxy transfer would too, on a chain on which the*)
(* import of its script could be resolved.                                 *)
FreshTransfersExecute ==
  ExecutesUndisturbed({"transfer", "create_account"}
                        \cup IF Compiles("proxyTransfer") THEN {"proxy_transfer"} ELSE {})

(* SupportedOrdersExecute: the same for every type of operation that the   *)
(* README lists as supported.                                              *)
SupportedOrdersExecute ==
  ExecutesUndisturbed(createTypes \cup contractTypes \cup transferTypes)

(* InnerOnce: a transfer that the cold key has signed once moves funds at  *)
(* most once, although every payer may submit it, in several transactions. *)
InnerOnce ==
  \A t \in Inners :
    Cardinality({e \in executed : /\ e.out.ok
                                  /\ e.txn.script = "proxyTransfer"
                                  /\ e.txn.args.sig = t.sig}) <= 1

-----------------------------------------------------------------------------
(* The inductive invariant behind TypeOK, AtMostOnce, ExpiredIsFinal and   *)
(* InnerOnce.                                                              *)

KeyStates == [key : Keys, revoked : BOOLEAN, seq : Nat]
States    == [keys : Seq(KeyStates), nonce : Int]

(* A sequence number and the nonce advance at most once per block.         *)
ChainInv ==
  /\ ledger \in Seq(States) /\ Height \in 1..MaxHeight
  /\ \A h \in 1..Height :
       /\ Len(ledger[h].keys) >= 1
       /\ ledger[h].nonce \in -1..h
       /\ \A i \in DOMAIN ledger[h].keys : ledger[h].keys[i].seq <= h

(* The fields of what travels with a caller.                               *)
HasFields(r, fields) == r = [f \in fields |-> r[f]]

innerFields == {"script", "amount", "nonce", "receiver", "sender", "sig"}
flowFields  == {"script", "args", "payer", "keyId", "seq", "ref", "sig"}
optsFields  == {"inner", "newAccounts", "seq", "payload", "keyId", "effort", "payer",
                "ref", "remote", "fees"}

(* The number of the key that an intent is proposed with.                  *)
keyOf(intent) ==
  IF intent.contract # None THEN intent.contract.prev_key_index ELSE 0

(* A transaction with the key of an intent that was not refused.           *)
FlowTxn(t, vetted) ==
  /\ HasFields(t, flowFields) /\ t.script \in DOMAIN Parameters
  /\ t.keyId = keyOf(vetted) /\ t.seq \in Nat /\ t.ref \in 0..Height
  /\ t.script \in {"basicTransfer", "proxyTransfer"} => t.args.amount \in Nat
  /\ t.script = "setContract" => t.args.contract.new_key.key \in Keys

TxnFor(t, vetted) == IF isInner(t) THEN HasFields(t, innerFields) ELSE FlowTxn(t, vetted)

OptsFor(o, vetted) ==
  /\ HasFields(o, optsFields) /\ o.inner = vetted.inner /\ o.keyId = keyOf(vetted)
  /\ o.seq \in Int /\ o.ref \in 0..Height

Stages == {"preprocess", "metadata", "payloads", "combine", "submit", "refused"}

(* What a caller holds is for its order, which stays the same, and has the *)
(* sequence number that it insists on.                                     *)
CallerInv(s) ==
  LET vetted == parseIntent(order[s].preprocess)
      intent == parseIntent(order[s].payloads)
  IN  /\ stage[s] \in Stages
      /\ pin[s] \in Nat \cup {-1}
      /\ order[s] \in Requests[s] \cup {None}
      /\ order[s] = None => stage[s] = "preprocess" /\ built[s] = {}
      /\ stage[s] \notin {"preprocess", "refused"} \/ built[s] # {} => ~refused(vetted)
      /\ stage[s] \in {"combine", "submit"} \/ built[s] # {} => intent # None
      /\ stage[s] \in {"metadata", "payloads"} =>
           /\ OptsFor(opts[s], vetted)
           /\ pin[s] # -1 \/ stage[s] = "metadata" => opts[s].seq = pin[s]
      /\ stage[s] \in {"combine", "submit"} =>
           /\ TxnFor(txn[s], vetted)
           /\ pin[s] # -1 /\ ~isInner(txn[s]) => txn[s].seq = pin[s]
      /\ stage[s] = "submit" => txn[s] \in built[s]
      /\ \A t \in built[s] : TxnFor(t, vetted)

(* Settled without effect: a transaction that will never have one.         *)
Dead(t) == Settled(t) /\ \A e \in executed : e.txn = t => ~e.out.ok

(* The transactions of a session that may still take effect, or have, have *)
(* one sequence number.                                                    *)
OneSeq(s) ==
  \A t \in built[s] :
    \/ isInner(t) \/ Dead(t)
    \/ pin[s] # -1 /\ t.seq = pin[s]
    \/ pin[s] = -1 /\ stage[s] = "submit" /\ t.seq = txn[s].seq

(* An execution has used up its sequence number, and, from a vault, its    *)
(* nonce.                                                                  *)
SpentBy(e) ==
  e.out.ok =>
    /\ e.txn.keyId + 1 \in DOMAIN Now.keys
    /\ e.txn.seq < Now.keys[e.txn.keyId + 1].seq
    /\ e.txn.script = "proxyTransfer" =>
         /\ e.txn.args.nonce \in Int /\ e.txn.args.nonce <= Now.nonce
         /\ e.txn.args.sig = Sign(ColdKey, innerHash(e.txn.args))

(* No two executions use the same one.                                     *)
Apart(e, f) ==
  e.out.ok /\ f.out.ok /\ e # f =>
    /\ e.txn.keyId # f.txn.keyId \/ e.txn.seq # f.txn.seq
    /\ e.txn.script = "proxyTransfer" /\ f.txn.script = "proxyTransfer" =>
         e.txn.args.nonce # f.txn.args.nonce

ExecutedInv ==
  /\ \A t \in pool : ~isInner(t) /\ t.ref # 0 /\ \E s \in Sessions : t \in built[s]
  /\ \A e \in executed : e.txn \in pool /\ e.out.ok \in BOOLEAN /\ SpentBy(e)
  /\ \A e, f \in executed : Apart(e, f)

(* An expiry that was reported has come to pass on the chain.              *)
ExpiredInv == \A x \in expired : x[1].ref \in Nat /\ Height - x[1].ref > Expiry

CallersInv ==
  /\ DOMAIN stage = Sessions /\ DOMAIN order = Sessions /\ DOMAIN pin = Sessions
  /\ DOMAIN opts = Sessions /\ DOMAIN txn = Sessions /\ DOMAIN built = Sessions

ConstructionInv ==
  /\ ChainInv /\ ExecutedInv /\ ExpiredInv /\ CallersInv
  /\ \A s \in Sessions : CallerInv(s) /\ OneSeq(s)

-----------------------------------------------------------------------------
(* The invariant behind EffectMatchesIntent, beyond the one above.         *)

(* A transaction has the script of its intent, and the keys in their order.*)
BuiltFor(t, intent) ==
  ~isInner(t) =>
    /\ t.script = scriptOf(intent)
    /\ t.script = "createAccount" => t.args.keys = intent.keys
    /\ t.script = "createProxyAccount" => t.args.publicKey = intent.keys[1]

(* What a transaction does when it takes effect depends on it alone.       *)
EffectOf(t) ==
  [moves |-> CASE t.script = "basicTransfer" ->
                    {<<t.payer, -t.args.amount>>, <<t.args.receiver, t.args.amount>>}
               [] t.script = "proxyTransfer" ->
                    {<<t.args.sender, -t.args.amount>>, <<t.args.receiver, t.args.amount>>}
               [] OTHER -> {},
   made  |-> CASE t.script = "createAccount" -> accountsMade(t)
               [] t.script = "createProxyAccount" -> <<t.args.publicKey.key>>
               [] OTHER -> <<>>]

(* What a caller has signed is what it asked for.                          *)
SignedInv(s) ==
  LET intent == parseIntent(order[s].payloads)
  IN  /\ stage[s] = "combine" => BuiltFor(txn[s], intent)
      /\ \A t \in built[s] :
           BuiltFor(t, intent) /\ SameOps(ConstructionParse(t), order[s].payloads)

EffectInv ==
  /\ \A s \in Sessions : SignedInv(s)
  /\ \A e \in executed :
       e.out.ok => e.out.moves = EffectOf(e.txn).moves /\ e.out.made = EffectOf(e.txn).made

-----------------------------------------------------------------------------
(* The invariant behind FreshTransfersExecute, beyond those above.         *)

(* Keys stay where they are, and the last one is in force.                 *)
KeysKept(old, new) ==
  /\ Len(old.keys) <= Len(new.keys)
  /\ \A i \in DOMAIN old.keys : new.keys[i].key = old.keys[i].key

LastInForce(st) == Len(st.keys) \in InForce(st.keys)

HistoryInv ==
  /\ \A h \in 1..Height : LastInForce(ledger[h])
  /\ \A g, h \in 1..Height : g <= h => KeysKept(ledger[g], ledger[h])

(* The account had one key in force at the reference block, at that        *)
(* sequence number.                                                        *)
LookedUp(o) ==
  LET keys == ledger[o.ref].keys
  IN  /\ o.keyId + 1 \in InForce(keys) /\ Cardinality(InForce(keys)) = 1
      /\ keys[o.keyId + 1].seq = o.seq

(* The owner signed between the reference block and height h.              *)
SignedBy(t, h) ==
  \E g \in 1..h :
    g >= t.ref /\ t.sig = Sign(Last(ledger[g].keys).key, TransactionEnvelopeHash(t))

FreshInv(s) ==
  LET intent == parseIntent(order[s].payloads)
  IN  /\ stage[s] \notin {"preprocess", "refused"} => opts[s].payload \in Inners \cup {None}
      /\ stage[s] = "metadata" => opts[s].ref = 0
      /\ stage[s] = "payloads" /\ pin[s] = -1 => opts[s].ref = 0 \/ LookedUp(opts[s])
      /\ stage[s] \in {"combine", "submit"} /\ ~isInner(txn[s]) =>
           /\ txn[s].args = argsOf(intent, opts[s].payload)
           /\ NeedsPayload(intent) => opts[s].payload # None
           /\ pin[s] = -1 => txn[s].ref = 0 \/ LookedUp(txn[s])
      /\ \A t \in built[s] :
           IF isInner(t) THEN t.sig = Sign(ColdKey, innerHash(t)) ELSE SignedBy(t, Height)

(* An outcome is that of the state before its block.                       *)
OutcomeInv(e) ==
  /\ e.at \in 2..Height /\ SignedBy(e.txn, e.at - 1)
  /\ LET st == ledger[e.at - 1]
     IN  e.out = IF Proposes(e.txn, st) THEN Outcome(e.txn, st) ELSE Nothing

ExecutionInv ==
  /\ HistoryInv
  /\ \A s \in Sessions : FreshInv(s)
  /\ \A e \in executed : OutcomeInv(e)

=============================================================================
