------------------------ MODULE ConstructionProofs ------------------------
(***************************************************************************)
(* Theorems about Construction.                                            *)
(***************************************************************************)
EXTENDS Construction, FiniteSetTheorems, SequenceTheorems, TLAPS

-----------------------------------------------------------------------------
(* The chain: what a block does to the keys and the nonce.                 *)

\* A key that has proposed a transaction.
LEMMA AdvancedKey ==
  ASSUME NEW k \in KeyStates
  PROVE  Advanced(k) \in KeyStates /\ Advanced(k).seq = k.seq + 1
BY DEF Advanced, KeyStates

\* A key that was replaced keeps its sequence number.
LEMMA RevokedKey ==
  ASSUME NEW k \in KeyStates
  PROVE  Revoked(k) \in KeyStates /\ Revoked(k).seq = k.seq
<1>1. \A v \in BOOLEAN : /\ [k EXCEPT !.revoked = v] \in KeyStates
                         /\ [k EXCEPT !.revoked = v].seq = k.seq
  BY DEF KeyStates
<1> QED
  BY <1>1 DEF Revoked

\* A new key starts with sequence number 0.
LEMMA FreshKey ==
  ASSUME NEW k \in Keys
  PROVE  NewKey(k) \in KeyStates /\ NewKey(k).seq = 0
<1>1. \A v \in BOOLEAN : /\ [key |-> k, revoked |-> v, seq |-> 0] \in KeyStates
                         /\ [key |-> k, revoked |-> v, seq |-> 0].seq = 0
  BY DEF KeyStates
<1> QED
  BY <1>1 DEF NewKey

\* A state is made of its keys and its nonce.
LEMMA StateParts ==
  ASSUME NEW ks \in Seq(KeyStates), NEW n \in Int, NEW st,
         st = [keys |-> ks, nonce |-> n]
  PROVE  st \in States /\ st.keys = ks /\ st.nonce = n
BY DEF States

\* A block after old leaves sequence numbers and the nonce as they are or
\* advances them by one, and new keys start at 0.
Follows(old, st) ==
  /\ st \in States
  /\ Len(old.keys) <= Len(st.keys)
  /\ old.nonce <= st.nonce /\ st.nonce <= old.nonce + 1
  /\ \A j \in 1..Len(old.keys) : /\ old.keys[j].seq <= st.keys[j].seq
                                 /\ st.keys[j].seq <= old.keys[j].seq + 1
  /\ \A j \in 1..Len(st.keys) : j > Len(old.keys) => st.keys[j].seq = 0

\* The proposal of a transaction uses up one sequence number.
LEMMA UsedState ==
  ASSUME NEW st \in States, NEW i \in 1..Len(st.keys)
  PROVE  /\ Used(st, i) \in States
         /\ Len(Used(st, i).keys) = Len(st.keys)
         /\ Used(st, i).nonce = st.nonce
         /\ \A j \in 1..Len(st.keys) :
              Used(st, i).keys[j].seq = IF j = i THEN st.keys[j].seq + 1
                                                 ELSE st.keys[j].seq
<1> DEFINE ks == [st.keys EXCEPT ![i] = Advanced(@)]
<1>1. st.keys \in Seq(KeyStates) /\ st.keys[i] \in KeyStates
  BY DEF States
<1>2. Advanced(st.keys[i]) \in KeyStates /\ Advanced(st.keys[i]).seq = st.keys[i].seq + 1
  BY <1>1, AdvancedKey
<1>3. /\ ks \in Seq(KeyStates) /\ Len(ks) = Len(st.keys)
      /\ ks[i] = Advanced(st.keys[i])
      /\ \A j \in 1..Len(st.keys) : j # i => ks[j] = st.keys[j]
  BY <1>1, <1>2
<1>4. Used(st, i) = [keys |-> ks, nonce |-> st.nonce] /\ st.nonce \in Int
  BY DEF Used, States
<1> HIDE DEF ks
<1>5. Used(st, i) \in States /\ Used(st, i).keys = ks /\ Used(st, i).nonce = st.nonce
  BY <1>3, <1>4, StateParts
<1> QED
  BY <1>2, <1>3, <1>5

\* Replacing the last key leaves the sequence numbers alone.
LEMMA RotatedState ==
  ASSUME NEW st \in States, Len(st.keys) >= 1, NEW k \in Keys
  PROVE  /\ Rotated(st, k) \in States
         /\ Len(Rotated(st, k).keys) = Len(st.keys) + 1
         /\ Rotated(st, k).nonce = st.nonce
         /\ \A j \in 1..Len(st.keys) : Rotated(st, k).keys[j].seq = st.keys[j].seq
         /\ Rotated(st, k).keys[Len(st.keys) + 1].seq = 0
<1> DEFINE n  == Len(st.keys)
           ls == [st.keys EXCEPT ![n] = Revoked(@)]
           ks == Append(ls, NewKey(k))
<1>1. st.keys \in Seq(KeyStates) /\ n \in 1..n /\ st.keys[n] \in KeyStates
  BY DEF States
<1>2. Revoked(st.keys[n]) \in KeyStates /\ Revoked(st.keys[n]).seq = st.keys[n].seq
  BY <1>1, RevokedKey
<1>3. /\ ls \in Seq(KeyStates) /\ Len(ls) = n
      /\ ls[n] = Revoked(st.keys[n])
      /\ \A j \in 1..n : j # n => ls[j] = st.keys[j]
  BY <1>1, <1>2
<1>4. NewKey(k) \in KeyStates /\ NewKey(k).seq = 0
  BY FreshKey
<1>5. Rotated(st, k) = [keys |-> ks, nonce |-> st.nonce] /\ st.nonce \in Int
  BY DEF Rotated, States
<1> HIDE DEF ls
<1>6. /\ ks \in Seq(KeyStates) /\ Len(ks) = n + 1
      /\ \A j \in 1..n : ks[j] = ls[j]
      /\ ks[n + 1] = NewKey(k)
  BY <1>3, <1>4
<1> HIDE DEF ks
<1>7. Rotated(st, k) \in States /\ Rotated(st, k).keys = ks /\ Rotated(st, k).nonce = st.nonce
  BY <1>5, <1>6, StateParts
<1> QED
  BY <1>1, <1>2, <1>3, <1>4, <1>6, <1>7
\* Both kinds of blocks of others follow on.
LEMMA OthersFollow ==
  ASSUME NEW st \in States, Len(st.keys) >= 1, NEW k \in Keys
  PROVE  Follows(st, st) /\ Follows(st, Rotated(st, k))
<1>1. st.nonce \in Int /\ \A j \in 1..Len(st.keys) : st.keys[j].seq \in Nat
  <2>1. st.nonce \in Int /\ \A j \in 1..Len(st.keys) : st.keys[j] \in KeyStates
    BY DEF States
  <2> QED
    BY <2>1 DEF KeyStates
<1>2. Len(st.keys) \in Nat
  BY DEF States
<1>3. Follows(st, st)
  BY <1>1, <1>2 DEF Follows
<1>4. /\ Rotated(st, k) \in States
      /\ Len(Rotated(st, k).keys) = Len(st.keys) + 1
      /\ Rotated(st, k).nonce = st.nonce
      /\ \A j \in 1..Len(st.keys) : Rotated(st, k).keys[j].seq = st.keys[j].seq
      /\ Rotated(st, k).keys[Len(st.keys) + 1].seq = 0
  BY RotatedState
<1>5. Follows(st, Rotated(st, k))
  BY <1>1, <1>2, <1>4 DEF Follows
<1> QED
  BY <1>3, <1>5

-----------------------------------------------------------------------------
(* Outcomes.                                                               *)

\* The three kinds of effects.
LEMMA Effects ==
  /\ Nothing.ok = FALSE
  /\ \A x, y, n : Moved(x, y, n).ok = TRUE
  /\ \A ks : Made(ks).ok = TRUE
  /\ \A v \in BOOLEAN : [Nothing EXCEPT !.ok = v].ok = v
BY DEF Nothing, Moved, Made

\* A vault lets go of funds only for what the cold key has signed.
LEMMA OutcomeFacts ==
  ASSUME NEW t, NEW intent, FlowTxn(t, intent), NEW st
  PROVE  /\ Outcome(t, st).ok \in BOOLEAN
         /\ Outcome(t, st).ok /\ t.script = "proxyTransfer" => vaultTransfers(t, st)
<1>1. t.script \in {"basicTransfer", "proxyTransfer", "createAccount",
                    "createProxyAccount", "setContract"}
  BY DEF FlowTxn, Parameters
<1> DEFINE Good(out) == /\ out.ok \in BOOLEAN
                        /\ out.ok /\ t.script = "proxyTransfer" => vaultTransfers(t, st)
<1>2. Good(Nothing)
  BY Effects
<1> SUFFICES ASSUME Arguments(t) = Parameters[t.script], Compiles(t.script)
             PROVE  Good(Outcome(t, st))
  BY <1>2 DEF Outcome
<1>3. CASE t.script = "basicTransfer"
  <2>1. Outcome(t, st) = Moved(t.payer, t.args.receiver, t.args.amount)
    BY <1>3 DEF Outcome
  <2>2. Outcome(t, st).ok = TRUE
    BY <2>1, Effects
  <2> QED
    BY <1>3, <2>2
<1>4. CASE t.script = "proxyTransfer"
  <2>1. CASE vaultTransfers(t, st)
    <3>1. Outcome(t, st) = Moved(t.args.sender, t.args.receiver, t.args.amount)
      BY <1>4, <2>1 DEF Outcome
    <3>2. Outcome(t, st).ok = TRUE
      BY <3>1, Effects
    <3> QED
      BY <2>1, <3>2
  <2>2. CASE ~vaultTransfers(t, st)
    BY <1>2, <1>4, <2>2 DEF Outcome
  <2> QED
    BY <2>1, <2>2
<1>5. CASE t.script = "createAccount"
  <2>1. Outcome(t, st) = Made(accountsMade(t)) \/ Outcome(t, st) = Nothing
    BY <1>5 DEF Outcome
  <2> QED
    BY <1>2, <1>5, <2>1, Effects
<1>6. CASE t.script = "createProxyAccount"
  <2>1. Outcome(t, st) = Made(<<t.args.publicKey.key>>)
    BY <1>6 DEF Outcome
  <2> QED
    BY <1>6, <2>1, Effects
<1>7. CASE t.script = "setContract"
  <2>1. Outcome(t, st) = [Nothing EXCEPT !.ok = contractIsSet(t, st)]
    BY <1>7 DEF Outcome
  <2>2. contractIsSet(t, st) \in BOOLEAN
    BY DEF contractIsSet
  <2> HIDE DEF Good
  <2>3. ASSUME NEW v \in BOOLEAN
        PROVE  Good([Nothing EXCEPT !.ok = v])
    BY <1>7, <2>3, Effects DEF Good
  <2> QED
    BY <2>1, <2>2, <2>3
<1> QED
  BY <1>1, <1>3, <1>4, <1>5, <1>6, <1>7

\* The state that a block with transaction t leaves: what the script does,
\* beyond the proposal.
LEMMA AfterFacts ==
  ASSUME NEW t, NEW intent, FlowTxn(t, intent),
         NEW st \in States, Len(st.keys) >= 1, NEW out, out.ok \in BOOLEAN
  PROVE  /\ After(t, st, out) \in States
         /\ Len(st.keys) <= Len(After(t, st, out).keys)
         /\ \A j \in 1..Len(st.keys) : After(t, st, out).keys[j].seq = st.keys[j].seq
         /\ \A j \in 1..Len(After(t, st, out).keys) :
              j > Len(st.keys) => After(t, st, out).keys[j].seq = 0
         /\ After(t, st, out).nonce = IF out.ok /\ t.script = "proxyTransfer"
                                      THEN st.nonce + 1 ELSE st.nonce
<1>1. Len(st.keys) \in Nat /\ st.nonce \in Int
  BY DEF States
<1>2. CASE out.ok /\ t.script = "proxyTransfer"
  <2>1. After(t, st, out) = [st EXCEPT !.nonce = st.nonce + 1]
    BY <1>2 DEF After, nextNonce
  <2>2. /\ [st EXCEPT !.nonce = st.nonce + 1] \in States
        /\ [st EXCEPT !.nonce = st.nonce + 1].keys = st.keys
        /\ [st EXCEPT !.nonce = st.nonce + 1].nonce = st.nonce + 1
    BY DEF States
  <2> QED
    BY <1>1, <1>2, <2>1, <2>2
<1>3. CASE out.ok /\ t.script = "setContract"
  <2> DEFINE k == t.args.contract.new_key.key
  <2>1. After(t, st, out) = Rotated(st, k)
    BY <1>3 DEF After
  <2>2. k \in Keys
    BY <1>3 DEF FlowTxn
  <2> HIDE DEF k
  <2>3. /\ Rotated(st, k) \in States
        /\ Len(Rotated(st, k).keys) = Len(st.keys) + 1
        /\ Rotated(st, k).nonce = st.nonce
        /\ \A j \in 1..Len(st.keys) : Rotated(st, k).keys[j].seq = st.keys[j].seq
        /\ Rotated(st, k).keys[Len(st.keys) + 1].seq = 0
    BY <2>2, RotatedState
  <2> QED
    BY <1>1, <1>3, <2>1, <2>3
<1>4. CASE ~(out.ok /\ t.script = "proxyTransfer") /\ ~(out.ok /\ t.script = "setContract")
  <2>1. After(t, st, out) = st
    BY <1>4 DEF After
  <2> QED
    BY <1>1, <1>4, <2>1
<1> QED
  BY <1>2, <1>3, <1>4
\* A block with transaction t: if it takes effect, it was at the sequence
\* number of its key, which moves on, as does the nonce of a vault.
LEMMA IncludeFacts ==
  ASSUME NEW t, NEW intent, FlowTxn(t, intent), keyOf(intent) \in Nat,
         Now \in States, Len(Now.keys) >= 1
  PROVE  /\ Result(t).ok \in BOOLEAN
         /\ Follows(Now, After(t, Charged(t), Result(t)))
         /\ Result(t).ok =>
              /\ t.keyId + 1 \in 1..Len(Now.keys)
              /\ Now.keys[t.keyId + 1].seq = t.seq
              /\ After(t, Charged(t), Result(t)).keys[t.keyId + 1].seq = t.seq + 1
         /\ Result(t).ok /\ t.script = "proxyTransfer" =>
              /\ vaultTransfers(t, Now)
              /\ After(t, Charged(t), Result(t)).nonce = Now.nonce + 1
<1> DEFINE i   == t.keyId + 1
           out == Result(t)
           st  == Charged(t)
           new == After(t, st, out)
<1>1. /\ Now.nonce \in Int /\ Len(Now.keys) \in Nat
      /\ DOMAIN Now.keys = 1..Len(Now.keys)
      /\ \A j \in 1..Len(Now.keys) : Now.keys[j] \in KeyStates
  BY DEF States
<1>2. \A j \in 1..Len(Now.keys) : Now.keys[j].seq \in Nat
  BY <1>1 DEF KeyStates
<1>3. /\ out.ok \in BOOLEAN
      /\ out.ok => Proposes(t, Now)
      /\ out.ok /\ t.script = "proxyTransfer" => vaultTransfers(t, Now)
  <2>1. CASE Proposes(t, Now)
    <3>1. out = Outcome(t, Now)
      BY <2>1 DEF Result
    <3> QED
      BY <2>1, <3>1, OutcomeFacts
  <2>2. CASE ~Proposes(t, Now)
    <3>1. out = Nothing
      BY <2>2 DEF Result
    <3> QED
      BY <3>1, Effects
  <2> QED
    BY <2>1, <2>2
<1>4. Proposes(t, Now) => i \in 1..Len(Now.keys) /\ Now.keys[i].seq = t.seq
  BY <1>1 DEF Proposes
<1>5. /\ st \in States /\ Len(st.keys) = Len(Now.keys) /\ st.nonce = Now.nonce
      /\ \A j \in 1..Len(Now.keys) :
           st.keys[j].seq = IF Proposes(t, Now) /\ j = i THEN Now.keys[j].seq + 1
                            ELSE Now.keys[j].seq
  <2>1. CASE Proposes(t, Now)
    <3>1. st = Used(Now, i) /\ i \in 1..Len(Now.keys)
      BY <1>4, <2>1 DEF Charged
    <3> HIDE DEF st, i
    <3> QED
      BY <2>1, <3>1, UsedState
  <2>2. CASE ~Proposes(t, Now)
    <3>1. st = Now
      BY <2>2 DEF Charged
    <3> HIDE DEF st
    <3> QED
      BY <2>2, <3>1
  <2> QED
    BY <2>1, <2>2
<1> HIDE DEF out, st
<1>6. /\ new \in States /\ Len(Now.keys) <= Len(new.keys)
      /\ \A j \in 1..Len(Now.keys) : new.keys[j].seq = st.keys[j].seq
      /\ \A j \in 1..Len(new.keys) : j > Len(Now.keys) => new.keys[j].seq = 0
      /\ new.nonce = IF out.ok /\ t.script = "proxyTransfer"
                     THEN Now.nonce + 1 ELSE Now.nonce
  BY <1>3, <1>5, AfterFacts
<1> HIDE DEF new, i
<1>7. Follows(Now, new)
  <2>1. Now.nonce <= new.nonce /\ new.nonce <= Now.nonce + 1
    BY <1>1, <1>6
  <2>2. ASSUME NEW j \in 1..Len(Now.keys)
        PROVE  Now.keys[j].seq <= new.keys[j].seq /\ new.keys[j].seq <= Now.keys[j].seq + 1
    <3>1. \/ new.keys[j].seq = Now.keys[j].seq
          \/ new.keys[j].seq = Now.keys[j].seq + 1
      BY <1>5, <1>6
    <3> QED
      BY <1>2, <3>1
  <2> QED
    BY <1>6, <2>1, <2>2 DEF Follows
<1>8. out.ok => /\ i \in 1..Len(Now.keys) /\ Now.keys[i].seq = t.seq
                /\ new.keys[i].seq = t.seq + 1
  BY <1>3, <1>4, <1>5, <1>6
<1>9. out.ok /\ t.script = "proxyTransfer" =>
        vaultTransfers(t, Now) /\ new.nonce = Now.nonce + 1
  BY <1>3, <1>6
<1> QED
  BY <1>3, <1>7, <1>8, <1>9 DEF out, st, new, i

\* The block that is appended.
LEMMA AppendBlock ==
  ASSUME ChainInv, Height < MaxHeight, NEW st, Follows(Now, st),
         ledger' = Append(ledger, st)
  PROVE  ChainInv' /\ Now' = st /\ Height' = Height + 1
<1>1. ledger \in Seq(States) /\ Height \in 1..MaxHeight /\ Height \in Nat /\ MaxHeight \in Nat
  BY ConstructionAssumption DEF ChainInv, Height
<1>2. st \in States
  BY DEF Follows
<1>3. /\ ledger' \in Seq(States) /\ Height' = Height + 1
      /\ ledger'[Height + 1] = st
      /\ \A h \in 1..Height : ledger'[h] = ledger[h]
  BY <1>1, <1>2 DEF Height
<1>4. Now' = st
  BY <1>3 DEF Now
<1>5. /\ Len(Now.keys) >= 1 /\ Now.nonce \in -1..Height
      /\ \A i \in DOMAIN Now.keys : Now.keys[i].seq <= Height
      /\ Now \in States
  BY <1>1 DEF ChainInv, Now, Height
<1>6. /\ Len(Now.keys) \in Nat /\ Len(st.keys) \in Nat /\ st.nonce \in Int
      /\ DOMAIN Now.keys = 1..Len(Now.keys) /\ DOMAIN st.keys = 1..Len(st.keys)
      /\ \A i \in 1..Len(Now.keys) : Now.keys[i] \in KeyStates
      /\ \A i \in 1..Len(st.keys) : st.keys[i] \in KeyStates
  BY <1>2, <1>5 DEF States
<1>7. Len(st.keys) >= 1 /\ st.nonce \in -1..(Height + 1)
  BY <1>1, <1>5, <1>6 DEF Follows
<1>8. ASSUME NEW i \in DOMAIN st.keys
      PROVE  st.keys[i].seq <= Height + 1
  <2>1. st.keys[i].seq \in Nat /\ (i \in 1..Len(Now.keys) => Now.keys[i].seq \in Nat)
    BY <1>6 DEF KeyStates
  <2>2. CASE i \in 1..Len(Now.keys)
    <3>1. st.keys[i].seq <= Now.keys[i].seq + 1 /\ Now.keys[i].seq <= Height
      BY <1>5, <1>6, <2>2 DEF Follows
    <3> QED
      BY <1>1, <2>1, <2>2, <3>1
  <2>3. CASE i \notin 1..Len(Now.keys)
    <3>1. st.keys[i].seq = 0
      BY <1>6, <2>3 DEF Follows
    <3> QED
      BY <1>1, <3>1
  <2> QED
    BY <2>2, <2>3
<1>9. ASSUME NEW h \in 1..Height'
      PROVE  /\ Len(ledger'[h].keys) >= 1 /\ ledger'[h].nonce \in -1..h
             /\ \A i \in DOMAIN ledger'[h].keys : ledger'[h].keys[i].seq <= h
  <2>1. CASE h \in 1..Height
    BY <1>3, <2>1 DEF ChainInv
  <2>2. CASE h = Height + 1
    BY <1>3, <1>7, <1>8, <2>2
  <2>3. h \in 1..(Height + 1)
    BY <1>3
  <2>4. h \in 1..Height \/ h = Height + 1
    BY <1>1, <2>3
  <2> QED
    BY <2>1, <2>2, <2>4
<1>10. Height' \in 1..MaxHeight
  BY <1>1, <1>3
<1> QED
  BY <1>3, <1>4, <1>9, <1>10 DEF ChainInv
-----------------------------------------------------------------------------
(* Orders, options and transactions.                                       *)

\* parseIntent of the three kinds of orders.
LEMMA IntentKinds ==
  ASSUME NEW ops, parseIntent(ops) # None
  PROVE  /\ ops # <<>>
         /\ \/ /\ ops[1].type \in createTypes
               /\ ops[1].type = "create_proxy_account" => ~(Len(ops) > 1)
               /\ \A op \in ToSet(ops) :
                    op.data # None /\ ConvertRosettaPublicKey(op.data) # None
               /\ parseIntent(ops) = createIntent(ops)
            \/ /\ ops[1].type \in contractTypes /\ contractData(ops[1].data)
               /\ parseIntent(ops) = contractIntent(ops[1])
            \/ /\ matchOperations(ops)
               /\ parseIntent(ops) = transferIntent(ops)
<1>1. ops # <<>> /\ ~ \E op \in ToSet(ops) : op.type # ops[1].type
  BY DEF parseIntent
<1>2. CASE ops[1].type \in createTypes
  BY <1>1, <1>2 DEF parseIntent, createTypes, contractTypes, transferTypes
<1>3. CASE ops[1].type \in contractTypes
  BY <1>1, <1>3 DEF parseIntent, createTypes, contractTypes, transferTypes
<1>4. CASE ops[1].type \in transferTypes
  BY <1>1, <1>4 DEF parseIntent, createTypes, contractTypes, transferTypes
<1>5. CASE ops[1].type \notin createTypes \cup contractTypes \cup transferTypes
  BY <1>1, <1>5 DEF parseIntent
<1> QED
  BY <1>1, <1>2, <1>3, <1>4, <1>5

\* The metadata of a contract operation, converted.
LEMMA ContractParts ==
  ASSUME NEW d \in ContractMetadata, contractData(d)
  PROVE  LET c == [d EXCEPT !.new_key = ConvertRosettaPublicKey(d.new_key),
                            !.key_signature = ConvertDERSignature(d.key_signature)]
         IN  c.prev_key_index \in Nat /\ c.new_key.key \in Keys
<1> DEFINE k == ConvertRosettaPublicKey(d.new_key)
<1>1. d.new_key \in [fmt : STRING, key : Keys] /\ k # None
  BY DEF ContractMetadata, contractData
<1>2. k = [d.new_key EXCEPT !.fmt = "flow"]
  BY <1>1 DEF ConvertRosettaPublicKey
<1>3. k.key \in Keys
  BY <1>1, <1>2
<1> HIDE DEF k
<1>4. ASSUME NEW g
      PROVE  /\ [d EXCEPT !.new_key = k, !.key_signature = g].prev_key_index \in Nat
             /\ [d EXCEPT !.new_key = k, !.key_signature = g].new_key = k
  BY DEF ContractMetadata
<1> QED
  BY <1>3, <1>4 DEF k

\* What a caller may give to preprocess and to payloads.
LEMMA RequestFacts ==
  ASSUME NEW s \in Sessions, NEW r \in Requests[s]
  PROVE  r # None /\ Operations(r.preprocess) /\ Operations(r.payloads)
BY RequestsAssumption

\* What is known of the intent of an order.
LEMMA IntentFacts ==
  ASSUME NEW ops, Operations(ops), NEW intent, intent = parseIntent(ops), intent # None
  PROVE  /\ intent.inner \in BOOLEAN
         /\ intent.amount \in Nat
         /\ keyOf(intent) \in Nat
         /\ intent.contract # None => intent.contract.new_key.key \in Keys
<1>1. CASE intent = createIntent(ops)
  <2> DEFINE ks == [i \in DOMAIN ops |-> ConvertRosettaPublicKey(ops[i].data)]
             v  == ops[1].type = "create_proxy_account"
  <2>1. intent = [NoIntent EXCEPT !.keys = ks, !.proxy = v] /\ v \in BOOLEAN
    BY <1>1 DEF createIntent
  <2> HIDE DEF ks, v
  <2>2. intent.inner \in BOOLEAN /\ intent.amount = 0 /\ intent.contract = None
    BY <2>1 DEF NoIntent
  <2>3. keyOf(intent) = 0
    BY <2>2 DEF keyOf
  <2> QED
    BY <2>2, <2>3
<1>2. CASE /\ ops[1].type \in contractTypes /\ contractData(ops[1].data)
           /\ intent = contractIntent(ops[1])
  <2>1. ops # <<>> /\ ops \in Seq(ToSet(ops))
    BY IntentKinds DEF Operations
  <2>2. ops[1] \in ToSet(ops)
    BY <2>1
  <2>3. ops[1].data \in ContractMetadata
    BY <1>2, <2>2 DEF contractData, Operations
  <2> DEFINE d == ops[1].data
             c == [d EXCEPT !.new_key = ConvertRosettaPublicKey(d.new_key),
                            !.key_signature = ConvertDERSignature(d.key_signature)]
             v == ops[1].type = "update_contract"
  <2>4. c.prev_key_index \in Nat /\ c.new_key.key \in Keys
    BY <1>2, <2>3, ContractParts
  <2>5. intent = [NoIntent EXCEPT !.contract = c, !.update = v] /\ v \in BOOLEAN
    BY <1>2 DEF contractIntent
  <2> HIDE DEF c, v
  <2>6. intent.inner \in BOOLEAN /\ intent.amount = 0 /\ intent.contract = c
    BY <2>5 DEF NoIntent
  <2>7. keyOf(intent) \in Nat
    BY <2>4, <2>6 DEF keyOf
  <2> QED
    BY <2>4, <2>6, <2>7
<1>3. CASE matchOperations(ops) /\ intent = transferIntent(ops)
  <2> DEFINE take == CHOOSE op \in ToSet(ops) : op.value < 0
             give == CHOOSE op \in ToSet(ops) : op.value > 0
             v == ops[1].type = "proxy_transfer"
             w == ops[1].type = "proxy_transfer_inner"
  <2>1. ops \in Seq(ToSet(ops)) /\ \A op \in ToSet(ops) : op.value \in Int
    BY DEF Operations
  <2>2. \E op \in ToSet(ops) : op.value > 0
    BY <1>3, <2>1 DEF matchOperations
  <2>3. give \in ToSet(ops)
    BY <2>2
  <2> HIDE DEF give
  <2>4. Uint64(give.value) \in Nat
    BY <2>1, <2>3, ConstructionAssumption DEF Uint64
  <2>5. /\ intent = [NoIntent EXCEPT !.sender = take.account, !.receiver = give.account,
                                     !.amount = Uint64(give.value),
                                     !.proxy = v, !.inner = w]
        /\ v \in BOOLEAN /\ w \in BOOLEAN
    BY <1>3 DEF transferIntent, give
  <2> HIDE DEF take, v, w
  <2>6. intent.inner \in BOOLEAN /\ intent.amount = Uint64(give.value) /\ intent.contract = None
    BY <2>5 DEF NoIntent
  <2>7. keyOf(intent) = 0
    BY <2>6 DEF keyOf
  <2> QED
    BY <2>4, <2>6, <2>7
<1> QED
  BY <1>1, <1>2, <1>3, IntentKinds
\* The options that preprocess returns.
LEMMA PreprocessOpts ==
  ASSUME NEW intent, intent.inner \in BOOLEAN, NEW payload, NEW seq \in Int, Height \in Nat
  PROVE  /\ OptsFor(preprocessOpts(intent, payload, seq), intent)
         /\ preprocessOpts(intent, payload, seq).seq = seq
         /\ preprocessOpts(intent, payload, seq).ref = 0
         /\ preprocessOpts(intent, payload, seq).payload = payload
<1> DEFINE o == preprocessOpts(intent, payload, seq)
           n == Len(intent.keys)
           k == keyOf(intent)
           e == executionEffort(intent)
           p == IF intent.inner THEN intent.sender ELSE Payer
           v == FALSE
<1>1. /\ o = [inner |-> intent.inner, newAccounts |-> n, seq |-> seq,
              payload |-> payload, keyId |-> k, effort |-> e, payer |-> p,
              ref |-> 0, remote |-> v, fees |-> 0]
      /\ v \in BOOLEAN
  BY DEF preprocessOpts, keyOf
<1> HIDE DEF o, n, k, e, p, v
<1>2. /\ HasFields(o, optsFields) /\ o.inner = intent.inner /\ o.keyId = k
      /\ o.seq = seq /\ o.ref = 0 /\ o.payload = payload
  BY <1>1 DEF HasFields, optsFields
<1> QED
  BY <1>2 DEF OptsFor, o, k

\* /construction/metadata fills in a sequence number, unless there is one, and
\* a reference block.
LEMMA FlowMetadata ==
  ASSUME ChainInv, NEW intent, keyOf(intent) \in Nat, NEW o, OptsFor(o, intent),
         NEW h \in 1..Height, NEW latest \in 1..Height,
         NEW m, m = flowMetadata(o, h, latest), m # None
  PROVE  /\ OptsFor(m, intent)
         /\ o.seq # -1 => m.seq = o.seq
<1> DEFINE height == metadataHeight(h, latest)
           keys   == ledger[height].keys
           fees   == o.effort + o.newAccounts * MinimumAccountBalance
           remote == h > latest
           seq    == IF o.seq = -1 THEN keys[o.keyId + 1].seq ELSE o.seq
<1>1. height \in 1..Height
  BY DEF metadataHeight
<1>2. keyIsValid(o, keys)
  BY DEF flowMetadata
<1>3. ledger[height] \in States
  BY <1>1 DEF ChainInv, Height
<1>4. o.seq = -1 => keys[o.keyId + 1] \in KeyStates
  <2>1. keys \in Seq(KeyStates)
    BY <1>3 DEF States
  <2>2. o.seq = -1 => o.keyId + 1 \in DOMAIN keys
    BY <1>2 DEF keyIsValid, InForce
  <2> HIDE DEF keys
  <2> QED
    BY <2>1, <2>2
<1>5. seq \in Int /\ remote \in BOOLEAN
  BY <1>4 DEF OptsFor, KeyStates
<1>6. m = [o EXCEPT !.seq = seq, !.ref = height, !.remote = remote, !.fees = fees]
  BY <1>2 DEF flowMetadata
<1>7. o.seq # -1 => seq = o.seq
  OBVIOUS
<1> HIDE DEF seq, height, remote, fees
<1>8. /\ HasFields(m, optsFields)
      /\ m.inner = o.inner /\ m.keyId = o.keyId /\ m.seq = seq /\ m.ref = height
  BY <1>5, <1>6 DEF OptsFor, HasFields, optsFields
<1> QED
  BY <1>1, <1>5, <1>7, <1>8 DEF OptsFor

\* The same for an inner transfer, whose sequence number is the nonce of the
\* vault.
LEMMA InnerMetadata ==
  ASSUME ChainInv, NEW intent, NEW o, OptsFor(o, intent), NEW h \in 1..Height,
         NEW m, m = innerMetadata(o, h), m # None
  PROVE  /\ OptsFor(m, intent) /\ m.ref = o.ref /\ m.payload = o.payload
         /\ o.seq # -1 => m.seq = o.seq
<1> DEFINE seq == IF o.seq = -1 THEN GetProxyNonce(o.payer, h) ELSE o.seq
<1>1. ledger[h].nonce \in Int
  BY DEF ChainInv
<1>2. seq \in Int
  BY <1>1 DEF OptsFor, GetProxyNonce
<1>3. m = [o EXCEPT !.seq = seq]
  <2>1. CASE o.seq # -1
    <3>1. m = o /\ seq = o.seq
      BY <2>1 DEF innerMetadata
    <3>2. [o EXCEPT !.seq = o.seq] = o
      BY DEF OptsFor, HasFields, optsFields
    <3> QED
      BY <3>1, <3>2
  <2>2. CASE o.seq = -1
    BY <2>2 DEF innerMetadata
  <2> QED
    BY <2>1, <2>2
<1>4. o.seq # -1 => seq = o.seq
  OBVIOUS
<1> HIDE DEF seq
<1>5. /\ HasFields(m, optsFields)
      /\ m.inner = o.inner /\ m.keyId = o.keyId /\ m.seq = seq
      /\ m.ref = o.ref /\ m.payload = o.payload
  BY <1>3 DEF OptsFor, HasFields, optsFields
<1> QED
  BY <1>2, <1>4, <1>5 DEF OptsFor

\* The arguments that matter here.
LEMMA ArgsOf ==
  ASSUME NEW intent, NEW payload
  PROVE  /\ scriptOf(intent) \in DOMAIN Parameters
         /\ scriptOf(intent) \in {"basicTransfer", "proxyTransfer"} =>
              /\ argsOf(intent, payload).receiver = intent.receiver
              /\ argsOf(intent, payload).amount = intent.amount
         /\ scriptOf(intent) = "setContract" =>
              /\ argsOf(intent, payload).contract = intent.contract
              /\ intent.contract # None
<1>1. scriptOf(intent) \in {"basicTransfer", "proxyTransfer", "createAccount",
                           "createProxyAccount", "setContract"}
  BY DEF scriptOf
<1>2. DOMAIN Parameters = {"basicTransfer", "proxyTransfer", "createAccount",
                           "createProxyAccount", "setContract"}
  BY DEF Parameters
<1>3. ASSUME scriptOf(intent) = "basicTransfer"
      PROVE  /\ argsOf(intent, payload).receiver = intent.receiver
             /\ argsOf(intent, payload).amount = intent.amount
  <2>1. argsOf(intent, payload) = [NoArgs EXCEPT !.receiver = intent.receiver,
                                                 !.amount = intent.amount]
    BY <1>3 DEF argsOf
  <2> QED
    BY <2>1 DEF NoArgs
<1>4. ASSUME scriptOf(intent) = "proxyTransfer"
      PROVE  /\ argsOf(intent, payload).receiver = intent.receiver
             /\ argsOf(intent, payload).amount = intent.amount
  <2>1. argsOf(intent, payload) =
          [NoArgs EXCEPT !.sender = intent.sender, !.receiver = intent.receiver,
                         !.amount = intent.amount, !.nonce = payload.nonce,
                         !.sig = payload.sig]
    BY <1>4 DEF argsOf
  <2> QED
    BY <2>1 DEF NoArgs
<1>5. ASSUME scriptOf(intent) = "setContract"
      PROVE  argsOf(intent, payload).contract = intent.contract /\ intent.contract # None
  <2>1. argsOf(intent, payload) = [NoArgs EXCEPT !.contract = intent.contract,
                                                 !.update = intent.update]
    BY <1>5 DEF argsOf
  <2>2. intent.contract # None
    BY <1>5 DEF scriptOf
  <2> QED
    BY <2>1, <2>2 DEF NoArgs
<1> QED
  BY <1>1, <1>2, <1>3, <1>4, <1>5

\* The transaction that /construction/payloads makes.
LEMMA Unsigned ==
  ASSUME NEW ops, Operations(ops), NEW intent, intent = parseIntent(ops), intent # None,
         NEW vetted, NEW o, OptsFor(o, vetted), o.seq >= 0
  PROVE  /\ TxnFor(unsigned(intent, o), vetted)
         /\ ~isInner(unsigned(intent, o)) => unsigned(intent, o).seq = o.seq
<1> DEFINE t == unsigned(intent, o)
<1>1. /\ intent.inner \in BOOLEAN /\ intent.amount \in Nat
      /\ intent.contract # None => intent.contract.new_key.key \in Keys
  BY IntentFacts
<1>2. o.keyId = keyOf(vetted) /\ o.seq \in Nat /\ o.ref \in 0..Height
  BY DEF OptsFor
<1>3. CASE intent.inner
  <2>1. t = [script |-> "inner", amount |-> intent.amount, nonce |-> o.seq,
             receiver |-> intent.receiver, sender |-> intent.sender, sig |-> None]
    BY <1>3 DEF unsigned
  <2> HIDE DEF t
  <2>2. t.script = "inner" /\ HasFields(t, innerFields)
    BY <2>1 DEF HasFields, innerFields
  <2> QED
    BY <2>2 DEF TxnFor, isInner, t
<1>4. CASE ~intent.inner
  <2> DEFINE script == scriptOf(intent)
             args   == argsOf(intent, o.payload)
  <2>1. t = [script |-> script, args |-> args, payer |-> o.payer, keyId |-> o.keyId,
             seq |-> o.seq, ref |-> o.ref, sig |-> None]
    BY <1>4 DEF unsigned
  <2>2. /\ script \in DOMAIN Parameters
        /\ script \in {"basicTransfer", "proxyTransfer"} =>
             args.receiver = intent.receiver /\ args.amount = intent.amount
        /\ script = "setContract" => args.contract = intent.contract /\ intent.contract # None
    BY ArgsOf
  <2> HIDE DEF t, script, args
  <2>3. /\ HasFields(t, flowFields) /\ t.script = script /\ t.args = args
        /\ t.keyId = o.keyId /\ t.seq = o.seq /\ t.ref = o.ref
    BY <2>1 DEF HasFields, flowFields
  <2>4. FlowTxn(t, vetted)
    BY <1>1, <1>2, <2>2, <2>3 DEF FlowTxn
  <2>5. t.script # "inner"
    BY <2>2, <2>3 DEF Parameters
  <2> QED
    BY <2>3, <2>4, <2>5 DEF TxnFor, isInner, t
<1> QED
  BY <1>1, <1>3, <1>4

\* A signature changes nothing else.
LEMMA Combined ==
  ASSUME NEW intent, NEW t, TxnFor(t, intent)
  PROVE  /\ TxnFor(combined(t), intent) /\ combined(t).script = t.script
         /\ ~isInner(t) => combined(t).seq = t.seq
<1> DEFINE sig == IF isInner(t) THEN Sign(ColdKey, innerHash(t))
                  ELSE Sign(Last(Now.keys).key, TransactionEnvelopeHash(t))
           c   == combined(t)
<1>1. c = [t EXCEPT !.sig = sig]
  BY DEF combined
<1> HIDE DEF sig, c
<1>2. CASE isInner(t)
  <2>1. HasFields(t, innerFields)
    BY <1>2 DEF TxnFor
  <2>2. HasFields(c, innerFields) /\ c.script = t.script
    BY <1>1, <2>1 DEF HasFields, innerFields
  <2> QED
    BY <1>2, <2>2 DEF TxnFor, isInner, c
<1>3. CASE ~isInner(t)
  <2>1. FlowTxn(t, intent)
    BY <1>3 DEF TxnFor
  <2>2. /\ HasFields(c, flowFields) /\ c.script = t.script /\ c.args = t.args
        /\ c.keyId = t.keyId /\ c.seq = t.seq /\ c.ref = t.ref
    BY <1>1, <2>1 DEF FlowTxn, HasFields, flowFields
  <2>3. FlowTxn(c, intent)
    BY <2>1, <2>2 DEF FlowTxn
  <2> QED
    BY <1>3, <2>2, <2>3 DEF TxnFor, isInner, c
<1> QED
  BY <1>2, <1>3
\* A session that went beyond preprocess has operations that were not refused.
LEMMA OrderFacts ==
  ASSUME NEW s \in Sessions, CallerInv(s),
         stage[s] \notin {"preprocess", "refused"} \/ built[s] # {}
  PROVE  /\ order[s] \in Requests[s] /\ order[s] # None
         /\ Operations(order[s].preprocess) /\ Operations(order[s].payloads)
         /\ parseIntent(order[s].preprocess) # None
         /\ ~refused(parseIntent(order[s].preprocess))
         /\ keyOf(parseIntent(order[s].preprocess)) \in Nat
<1>1. order[s] \in Requests[s] /\ ~refused(parseIntent(order[s].preprocess))
  BY DEF CallerInv
<1>2. order[s] # None /\ Operations(order[s].preprocess) /\ Operations(order[s].payloads)
  BY <1>1, RequestFacts
<1>3. parseIntent(order[s].preprocess) # None
  BY <1>1 DEF refused
<1> QED
  BY <1>1, <1>2, <1>3, IntentFacts

\* The hash of a transaction names its reference block.
LEMMA HashNames ==
  ASSUME NEW t, NEW intent, FlowTxn(t, intent)
  PROVE  TransactionHash(t)[1].ref = t.ref
<1> DEFINE e == TransactionEnvelopeHash(t)
<1>1. e.ref = t.ref
  BY DEF FlowTxn, HasFields, flowFields, TransactionEnvelopeHash
<1>2. TransactionHash(t) = <<e, t.sig>>
  BY DEF TransactionHash
<1> HIDE DEF e
<1> QED
  BY <1>1, <1>2

-----------------------------------------------------------------------------
(* Steps of the chain.                                                     *)

\* A longer chain takes nothing away from what callers hold.
LEMMA CallersKeep ==
  ASSUME NEW s \in Sessions, CallerInv(s), UNCHANGED sessionVars,
         Height \in Nat, Height' \in Nat, Height <= Height'
  PROVE  CallerInv(s)'
<1>1. \A n \in 0..Height : n \in 0..Height'
  OBVIOUS
<1>2. ASSUME NEW t, NEW intent, TxnFor(t, intent)
      PROVE  TxnFor(t, intent)'
  BY <1>1, <1>2 DEF TxnFor, FlowTxn
<1>3. /\ order'[s] = order[s] /\ stage'[s] = stage[s] /\ pin'[s] = pin[s]
      /\ opts'[s] = opts[s] /\ txn'[s] = txn[s] /\ built'[s] = built[s]
  BY DEF sessionVars
<1> QED
  BY <1>1, <1>2, <1>3 DEF CallerInv, OptsFor

\* The transactions of the pool are those of orders that were not refused.
LEMMA PoolFacts ==
  ASSUME ConstructionInv, NEW t \in pool
  PROVE  \E intent : FlowTxn(t, intent) /\ keyOf(intent) \in Nat
<1>1. PICK s \in Sessions : t \in built[s]
  BY DEF ConstructionInv, ExecutedInv
<1>2. CallerInv(s) /\ ~isInner(t)
  BY DEF ConstructionInv, ExecutedInv
<1> DEFINE i == parseIntent(order[s].preprocess)
<1>3. FlowTxn(t, i)
  BY <1>1, <1>2 DEF CallerInv, TxnFor
<1>4. keyOf(i) \in Nat
  BY <1>1, <1>2, OrderFacts
<1> QED
  BY <1>3, <1>4
\* What is left of an execution when the chain goes on.
LEMMA SpentStays ==
  ASSUME Now \in States, Follows(Now, Now'), NEW e, SpentBy(e), e.txn.seq \in Nat
  PROVE  SpentBy(e)'
<1> SUFFICES ASSUME e.out.ok
             PROVE  SpentBy(e)'
  BY DEF SpentBy
<1> DEFINE i == e.txn.keyId + 1
<1>1. i \in DOMAIN Now.keys /\ e.txn.seq < Now.keys[i].seq
  BY DEF SpentBy
<1>2. /\ DOMAIN Now.keys = 1..Len(Now.keys) /\ Len(Now.keys) \in Nat
      /\ Now' \in States /\ Now.nonce \in Int
      /\ Now.keys[i] \in KeyStates
  BY <1>1 DEF States, Follows
<1>3. /\ DOMAIN Now'.keys = 1..Len(Now'.keys) /\ Len(Now'.keys) \in Nat
      /\ Now'.nonce \in Int
  BY <1>2 DEF States
<1>4. i \in DOMAIN Now'.keys
  BY <1>1, <1>2, <1>3 DEF Follows
<1>5. Now'.keys[i] \in KeyStates
  BY <1>2, <1>4 DEF States
<1>6. Now.keys[i].seq \in Nat /\ Now'.keys[i].seq \in Nat
  BY <1>2, <1>5 DEF KeyStates
<1>7. Now.keys[i].seq <= Now'.keys[i].seq
  BY <1>1, <1>2 DEF Follows
<1> HIDE DEF i
<1>8. e.txn.seq < Now'.keys[i].seq
  BY <1>1, <1>6, <1>7
<1>9. ASSUME e.txn.script = "proxyTransfer"
      PROVE  /\ e.txn.args.nonce \in Int /\ e.txn.args.nonce <= Now'.nonce
             /\ e.txn.args.sig = Sign(ColdKey, innerHash(e.txn.args))
  <2>1. /\ e.txn.args.nonce \in Int /\ e.txn.args.nonce <= Now.nonce
        /\ e.txn.args.sig = Sign(ColdKey, innerHash(e.txn.args))
    BY <1>9 DEF SpentBy
  <2>2. Now.nonce <= Now'.nonce
    BY DEF Follows
  <2> QED
    BY <1>2, <1>3, <2>1, <2>2
<1> QED
  BY <1>4, <1>8, <1>9 DEF SpentBy, i

\* The latest state.
LEMMA NowFacts ==
  ASSUME ChainInv
  PROVE  Now \in States /\ Len(Now.keys) >= 1 /\ Height \in Nat /\ Height \in 1..MaxHeight
BY DEF ChainInv, Now, Height

\* The parts that are alike for all blocks.
LEMMA BlockStep ==
  ASSUME ConstructionInv, Height < MaxHeight, UNCHANGED <<pool, sessionVars, expired>>,
         NEW st, Follows(Now, st), ledger' = Append(ledger, st)
  PROVE  /\ ChainInv' /\ ExpiredInv' /\ CallersInv' /\ Now' = st /\ Height' = Height + 1
         /\ \A s \in Sessions : CallerInv(s)'
         /\ \A e \in executed : SpentBy(e)'
<1>1. ChainInv' /\ Now' = st /\ Height' = Height + 1
  BY AppendBlock DEF ConstructionInv
<1>2. Height \in Nat /\ Now \in States
  BY NowFacts DEF ConstructionInv
<1>3. ExpiredInv'
  <2>1. Expiry \in Nat
    BY ConstructionAssumption
  <2>2. ASSUME NEW x \in expired
        PROVE  x[1].ref \in Nat /\ Height' - x[1].ref > Expiry
    <3>1. x[1].ref \in Nat /\ Height - x[1].ref > Expiry
      BY DEF ConstructionInv, ExpiredInv
    <3> QED
      BY <1>1, <1>2, <2>1, <3>1
  <2> QED
    BY <2>2 DEF ExpiredInv
<1>4. CallersInv'
  BY DEF ConstructionInv, CallersInv, sessionVars
<1>5. ASSUME NEW s \in Sessions
      PROVE  CallerInv(s)'
  <2>1. CallerInv(s)
    BY DEF ConstructionInv
  <2>2. Height' \in Nat /\ Height <= Height'
    BY <1>1, <1>2
  <2> QED
    BY <1>2, <2>1, <2>2, CallersKeep
<1>6. ASSUME NEW e \in executed
      PROVE  SpentBy(e)'
  <2>1. SpentBy(e) /\ e.txn \in pool
    BY DEF ConstructionInv, ExecutedInv
  <2>2. e.txn.seq \in Nat
    BY <2>1, PoolFacts DEF FlowTxn
  <2> QED
    BY <1>1, <1>2, <2>1, <2>2, SpentStays
<1> QED
  BY <1>1, <1>3, <1>4, <1>5, <1>6

\* A block of others.
LEMMA OthersInv ==
  ASSUME ConstructionInv, OtherBlock \/ RotateKey
  PROVE  ConstructionInv'
<1>1. Now \in States /\ Len(Now.keys) >= 1 /\ SpareKey \in Keys
  BY NowFacts, ConstructionAssumption DEF ConstructionInv
<1>2. PICK st : Follows(Now, st) /\ ledger' = Append(ledger, st)
  BY <1>1, OthersFollow DEF OtherBlock, RotateKey
<1>3. Height < MaxHeight /\ UNCHANGED <<pool, executed, sessionVars, expired>>
  BY DEF OtherBlock, RotateKey
<1>4. /\ ChainInv' /\ ExpiredInv' /\ CallersInv'
      /\ \A s \in Sessions : CallerInv(s)'
      /\ \A e \in executed : SpentBy(e)'
  BY <1>2, <1>3, BlockStep
<1>5. ExecutedInv'
  BY <1>3, <1>4 DEF ConstructionInv, ExecutedInv, sessionVars, Apart
<1>6. ASSUME NEW s \in Sessions
      PROVE  OneSeq(s)'
  BY <1>3 DEF ConstructionInv, OneSeq, sessionVars, Dead, Settled, Known
<1> QED
  BY <1>4, <1>5, <1>6 DEF ConstructionInv
\* The record of an execution.
LEMMA ExecutedParts ==
  ASSUME NEW t, NEW h, NEW out
  PROVE  Executed(t, h, out).txn = t /\ Executed(t, h, out).out = out
BY DEF Executed

\* A transaction that was settled without effect is not executed any more.
LEMMA DeadStays ==
  ASSUME ConstructionInv, NEW u \in pool, Includable(u, Height + 1),
         NEW h, NEW out, executed' = executed \cup {Executed(u, h, out)},
         UNCHANGED expired, NEW t, Dead(t)
  PROVE  Dead(t)'
<1>1. Settled(t) /\ \A e \in executed : e.txn = t => ~e.out.ok
  BY DEF Dead
<1>2. t # u
  <2> SUFFICES ASSUME t = u PROVE FALSE
    OBVIOUS
  <2>1. PICK intent : FlowTxn(u, intent)
    BY PoolFacts
  <2>2. Height \in Nat /\ Expiry \in Nat /\ u.ref \in Nat
    BY <2>1, NowFacts, ConstructionAssumption DEF ConstructionInv, FlowTxn
  <2>3. ~Known(u)
    BY Zenon DEF Includable
  <2>4. Height + 1 - u.ref <= Expiry
    BY <2>2 DEF Includable
  <2>5. TransactionHash(u) \in expired
    BY <1>1, <2>3 DEF Settled
  <2>6. TransactionHash(u)[1].ref = u.ref
    BY <2>1, HashNames
  <2>7. Height - u.ref > Expiry
    BY <2>5, <2>6 DEF ConstructionInv, ExpiredInv
  <2> QED
    BY <2>2, <2>4, <2>7
<1>3. Settled(t)'
  BY <1>1 DEF Settled, Known
<1>4. \A e \in executed' : e.txn = t => ~e.out.ok
  BY <1>1, <1>2, ExecutedParts
<1> QED
  BY <1>3, <1>4 DEF Dead

\* A block with a transaction of ours.  Its sequence number and its nonce are
\* the ones that the executions before it left behind.
LEMMA IncludeInv ==
  ASSUME ConstructionInv, Include
  PROVE  ConstructionInv'
<1>1. PICK t \in pool :
        /\ Includable(t, Height + 1)
        /\ ledger' = Append(ledger, After(t, Charged(t), Result(t)))
        /\ executed' = executed \cup {Executed(t, Height + 1, Result(t))}
  BY DEF Include
<1>2. Height < MaxHeight /\ UNCHANGED <<pool, sessionVars, expired>>
  BY DEF Include
<1>3. PICK intent : FlowTxn(t, intent) /\ keyOf(intent) \in Nat
  BY PoolFacts
<1>4. Now \in States /\ Len(Now.keys) >= 1
  BY NowFacts DEF ConstructionInv
<1> DEFINE out == Result(t)
           st  == After(t, Charged(t), Result(t))
           k   == t.keyId + 1
<1>5. /\ out.ok \in BOOLEAN
      /\ Follows(Now, st)
      /\ out.ok => k \in 1..Len(Now.keys) /\ Now.keys[k].seq = t.seq /\ st.keys[k].seq = t.seq + 1
      /\ out.ok /\ t.script = "proxyTransfer" =>
           vaultTransfers(t, Now) /\ st.nonce = Now.nonce + 1
  BY <1>3, <1>4, IncludeFacts
<1>6. PICK new : /\ new.txn = t /\ new.out = out
                 /\ executed' = executed \cup {new}
  <2> DEFINE x == Executed(t, Height + 1, Result(t))
  <2>1. x.txn = t /\ x.out = out
    BY ExecutedParts
  <2>2. executed' = executed \cup {x}
    BY <1>1
  <2> HIDE DEF x, out
  <2> QED
    BY <2>1, <2>2
<1>7. ledger' = Append(ledger, st)
  BY <1>1
<1> HIDE DEF out, st
<1>8. /\ ChainInv' /\ ExpiredInv' /\ CallersInv' /\ Now' = st
      /\ \A s \in Sessions : CallerInv(s)'
      /\ \A e \in executed : SpentBy(e)'
  BY <1>2, <1>5, <1>7, BlockStep
<1>9. ASSUME NEW s \in Sessions
       PROVE  OneSeq(s)'
  <2>1. OneSeq(s) /\ UNCHANGED expired
    BY <1>2 DEF ConstructionInv
  <2>2. \A u : Dead(u) => Dead(u)'
    BY <1>1, <2>1, DeadStays
  <2> QED
    BY <1>2, <2>1, <2>2 DEF OneSeq, sessionVars
<1>10. t.seq \in Nat /\ st \in States /\ Now.nonce \in Int
  BY <1>3, <1>4, <1>5 DEF FlowTxn, Follows, States
<1>11. SpentBy(new)'
  <2> SUFFICES ASSUME out.ok
               PROVE  SpentBy(new)'
    BY <1>6 DEF SpentBy
  <2>1. k \in DOMAIN st.keys
    <3>1. /\ DOMAIN st.keys = 1..Len(st.keys) /\ Len(st.keys) \in Nat
          /\ Len(Now.keys) \in Nat /\ Len(Now.keys) <= Len(st.keys)
      BY <1>4, <1>5, <1>10 DEF States, Follows
    <3> HIDE DEF k
    <3> QED
      BY <1>5, <3>1
  <2>2. t.seq < st.keys[k].seq
    BY <1>5, <1>10
  <2>3. ASSUME t.script = "proxyTransfer"
        PROVE  /\ t.args.nonce \in Int /\ t.args.nonce <= st.nonce
               /\ t.args.sig = Sign(ColdKey, innerHash(t.args))
    BY <1>5, <1>10, <2>3 DEF vaultTransfers
  <2> QED
    BY <1>6, <1>8, <2>1, <2>2, <2>3 DEF SpentBy
<1>12. ASSUME NEW e \in executed
       PROVE  Apart(e, new)' /\ Apart(new, e)'
  <2> SUFFICES ASSUME e.out.ok, out.ok
               PROVE  /\ e.txn.keyId # t.keyId \/ e.txn.seq # t.seq
                      /\ e.txn.script = "proxyTransfer" /\ t.script = "proxyTransfer" =>
                           e.txn.args.nonce # t.args.nonce
    BY <1>6 DEF Apart
  <2>1. SpentBy(e) /\ e.txn \in pool
    BY DEF ConstructionInv, ExecutedInv
  <2>2. e.txn.seq \in Nat
    BY <2>1, PoolFacts DEF FlowTxn
  <2>3. e.txn.keyId = t.keyId => e.txn.seq < t.seq
    BY <1>5, <2>1 DEF SpentBy
  <2>4. e.txn.script = "proxyTransfer" /\ t.script = "proxyTransfer" =>
          e.txn.args.nonce \in Int /\ e.txn.args.nonce < t.args.nonce
    BY <1>5, <1>10, <2>1 DEF SpentBy, vaultTransfers
  <2> QED
    BY <1>10, <2>2, <2>3, <2>4
<1>13. Apart(new, new)'
  BY DEF Apart
<1>14. ExecutedInv'
  <2>1. \A u \in pool' : ~isInner(u) /\ u.ref # 0 /\ \E s \in Sessions : u \in built'[s]
    BY <1>2 DEF ConstructionInv, ExecutedInv, sessionVars
  <2>2. \A e \in executed' : e.txn \in pool' /\ e.out.ok \in BOOLEAN /\ SpentBy(e)'
    BY <1>2, <1>5, <1>6, <1>7, <1>8, <1>11 DEF ConstructionInv, ExecutedInv
  <2>3. \A e, f \in executed : Apart(e, f)'
    BY DEF ConstructionInv, ExecutedInv, Apart
  <2>4. \A e, f \in executed' : Apart(e, f)'
    BY <1>6, <1>12, <1>13, <2>3
  <2> QED
    BY <2>1, <2>2, <2>4 DEF ExecutedInv
<1> QED
  BY <1>8, <1>9, <1>14 DEF ConstructionInv
-----------------------------------------------------------------------------
(* Steps of a session.                                                     *)

\* A step of session s leaves a variable of the other sessions alone.
Only(s, old, new) ==
  DOMAIN new = Sessions /\ \A z \in Sessions : z # s => new[z] = old[z]

OnlyCaller(s) ==
  /\ Only(s, stage, stage') /\ Only(s, order, order') /\ Only(s, pin, pin')
  /\ Only(s, opts, opts') /\ Only(s, txn, txn') /\ Only(s, built, built')

\* A variable that changes for s, or not at all.
LEMMA OnlyOne ==
  ASSUME NEW s \in Sessions, NEW f, DOMAIN f = Sessions
  PROVE  Only(s, f, f) /\ \A v : Only(s, f, [f EXCEPT ![s] = v])
BY DEF Only

\* It is enough to look at the session that takes the step.
LEMMA SessionStep ==
  ASSUME ConstructionInv, NEW s \in Sessions, OnlyCaller(s),
         UNCHANGED <<ledger, executed>>, expired \subseteq expired',
         built[s] \subseteq built'[s],
         CallerInv(s)', OneSeq(s)'
  PROVE  /\ ChainInv' /\ CallersInv'
         /\ \A z \in Sessions : CallerInv(z)' /\ OneSeq(z)' /\ built[z] \subseteq built'[z]
<1>1. ChainInv'
  BY DEF ConstructionInv, ChainInv, Height
<1>2. CallersInv'
  BY DEF OnlyCaller, Only, CallersInv
<1>3. ASSUME NEW z \in Sessions, z # s
      PROVE  CallerInv(z)' /\ OneSeq(z)' /\ built[z] \subseteq built'[z]
  <2>1. /\ stage'[z] = stage[z] /\ order'[z] = order[z] /\ pin'[z] = pin[z]
        /\ opts'[z] = opts[z] /\ txn'[z] = txn[z] /\ built'[z] = built[z]
    BY <1>3 DEF OnlyCaller, Only
  <2>2. CallerInv(z) /\ OneSeq(z) /\ Height' = Height
    BY DEF ConstructionInv, Height
  <2>3. \A t : Dead(t) => Dead(t)'
    BY DEF Dead, Settled, Known
  <2>4. \A t, i : TxnFor(t, i) => TxnFor(t, i)'
    BY <2>2 DEF TxnFor, FlowTxn
  <2>5. CallerInv(z)'
    BY <2>1, <2>2, <2>4 DEF CallerInv, OptsFor
  <2>6. OneSeq(z)'
    BY <2>1, <2>2, <2>3 DEF OneSeq
  <2> QED
    BY <2>1, <2>5, <2>6
<1> QED
  BY <1>1, <1>2, <1>3

\* The steps that leave chain, pool and expiries alone.
LEMMA QuietStep ==
  ASSUME ConstructionInv, NEW s \in Sessions, OnlyCaller(s),
         UNCHANGED <<chainVars, expired>>, built[s] \subseteq built'[s],
         CallerInv(s)', OneSeq(s)'
  PROVE  ConstructionInv'
<1>1. UNCHANGED <<ledger, pool, executed, expired>>
  BY DEF chainVars
<1>2. /\ ChainInv' /\ CallersInv'
      /\ \A z \in Sessions : CallerInv(z)' /\ OneSeq(z)' /\ built[z] \subseteq built'[z]
  BY <1>1, SessionStep
<1>3. ExpiredInv'
  BY <1>1 DEF ConstructionInv, ExpiredInv, Height
<1>4. ExecutedInv'
  <2>1. \A t \in pool' : ~isInner(t) /\ t.ref # 0 /\ \E z \in Sessions : t \in built'[z]
    BY <1>1, <1>2 DEF ConstructionInv, ExecutedInv
  <2>2. \A e \in executed' : e.txn \in pool' /\ e.out.ok \in BOOLEAN /\ SpentBy(e)'
    BY <1>1 DEF ConstructionInv, ExecutedInv, SpentBy, Now, Height
  <2>3. \A e, f \in executed' : Apart(e, f)'
    BY <1>1 DEF ConstructionInv, ExecutedInv, Apart
  <2> QED
    BY <2>1, <2>2, <2>3 DEF ExecutedInv
<1> QED
  BY <1>2, <1>3, <1>4 DEF ConstructionInv

\* Before a transaction is signed no other one counts.
LEMMA SameSeq ==
  ASSUME NEW s \in Sessions, OneSeq(s), stage[s] # "submit",
         UNCHANGED <<executed, expired>>, built'[s] = built[s], pin'[s] = pin[s]
  PROVE  OneSeq(s)'
<1>1. \A t : Dead(t) => Dead(t)'
  BY DEF Dead, Settled, Known
<1> QED
  BY <1>1 DEF OneSeq

\* The types of the variables of the sessions.
LEMMA Callers ==
  ASSUME ConstructionInv, NEW s \in Sessions
  PROVE  /\ CallerInv(s) /\ OneSeq(s) /\ ChainInv
         /\ DOMAIN stage = Sessions /\ DOMAIN order = Sessions /\ DOMAIN pin = Sessions
         /\ DOMAIN opts = Sessions /\ DOMAIN txn = Sessions /\ DOMAIN built = Sessions
BY DEF ConstructionInv, CallersInv

LEMMA PreprocessInv ==
  ASSUME ConstructionInv, NEW s \in Sessions, ConstructionPreprocess(s)
  PROVE  ConstructionInv'
<1>1. PICK r \in IF order[s] = None THEN Requests[s] ELSE {order[s]} :
        /\ order' = [order EXCEPT ![s] = r]
        /\ \/ /\ refused(parseIntent(r.preprocess))
              /\ stage' = [stage EXCEPT ![s] = "refused"]
              /\ UNCHANGED opts
           \/ /\ ~refused(parseIntent(r.preprocess))
              /\ \E payload : opts' = [opts EXCEPT ![s] =
                                         preprocessOpts(parseIntent(r.preprocess),
                                                        payload, pin[s])]
              /\ stage' = [stage EXCEPT ![s] = "metadata"]
  BY DEF ConstructionPreprocess
<1>2. stage[s] = "preprocess" /\ UNCHANGED <<chainVars, pin, txn, built, expired>>
  BY DEF ConstructionPreprocess
<1>3. OnlyCaller(s)
  <2>1. Only(s, stage, stage') /\ Only(s, order, order') /\ Only(s, opts, opts')
    <3>1. Only(s, order, order')
      BY <1>1, Callers, OnlyOne
    <3>2. Only(s, stage, stage')
      BY <1>1, Callers, OnlyOne
    <3>3. Only(s, opts, opts')
      BY <1>1, Callers, OnlyOne
    <3> QED
      BY <3>1, <3>2, <3>3
  <2>2. Only(s, pin, pin') /\ Only(s, txn, txn') /\ Only(s, built, built')
    BY <1>2, Callers, OnlyOne
  <2> QED
    BY <2>1, <2>2 DEF OnlyCaller
<1>4. r \in Requests[s] /\ r # None /\ Operations(r.preprocess)
  <2>1. r \in Requests[s]
    BY <1>1, Callers DEF CallerInv
  <2> QED
    BY <2>1, RequestFacts
<1> DEFINE vetted == parseIntent(r.preprocess)
           intent == parseIntent(r.payloads)
<1>5. /\ order'[s] = r /\ pin'[s] = pin[s] /\ txn'[s] = txn[s] /\ built'[s] = built[s]
      /\ \A t \in built[s] : TxnFor(t, vetted)
      /\ built[s] # {} => ~refused(vetted) /\ intent # None
  BY <1>1, <1>2, Callers DEF CallerInv
<1> HIDE DEF vetted, intent
<1>6. pin[s] \in Nat \cup {-1} /\ pin[s] \in Int
  BY Callers DEF CallerInv
<1>7. OneSeq(s)'
  BY <1>2, Callers, SameSeq DEF chainVars
<1>8. Height' = Height /\ Height \in Nat
  BY <1>2, Callers, NowFacts DEF chainVars, Height
<1>9. \A t, i : TxnFor(t, i) => TxnFor(t, i)'
  BY <1>8 DEF TxnFor, FlowTxn
<1>10. CASE stage'[s] = "refused"
  <2>1. CallerInv(s)'
    BY <1>4, <1>5, <1>6, <1>9, <1>10 DEF CallerInv, Stages, vetted, intent
  <2> QED
    BY <1>2, <1>3, <1>5, <1>7, <2>1, QuietStep
<1>11. CASE ~refused(vetted) /\ stage'[s] = "metadata"
  <2>1. PICK payload : opts'[s] = preprocessOpts(vetted, payload, pin[s])
    BY <1>1, <1>11, Callers DEF vetted
  <2>2. vetted # None
    BY <1>11 DEF refused
  <2>3. vetted.inner \in BOOLEAN
    BY <1>4, <2>2, IntentFacts DEF vetted
  <2>4. OptsFor(opts'[s], vetted) /\ opts'[s].seq = pin[s]
    BY <1>6, <1>8, <2>1, <2>3, PreprocessOpts
  <2>5. \A o, i : OptsFor(o, i) => OptsFor(o, i)'
    BY <1>8 DEF OptsFor
  <2>6. CallerInv(s)'
    BY <1>4, <1>5, <1>6, <1>9, <1>11, <2>4, <2>5 DEF CallerInv, Stages, vetted, intent
  <2> QED
    BY <1>2, <1>3, <1>5, <1>7, <2>6, QuietStep
<1> QED
  BY <1>1, <1>10, <1>11, Callers DEF vetted
LEMMA MetadataInv ==
  ASSUME ConstructionInv, NEW s \in Sessions, ConstructionMetadata(s)
  PROVE  ConstructionInv'
<1> DEFINE o == opts[s]
           vetted == parseIntent(order[s].preprocess)
<1>0. PICK h \in 1..Height, latest \in 1..Height :
        LET m == IF o.inner THEN innerMetadata(o, h) ELSE flowMetadata(o, h, latest)
        IN  m # None /\ opts' = [opts EXCEPT ![s] = m]
  BY DEF ConstructionMetadata
<1> DEFINE m == IF o.inner THEN innerMetadata(o, h) ELSE flowMetadata(o, h, latest)
<1>1. /\ m = IF o.inner THEN innerMetadata(o, h) ELSE flowMetadata(o, h, latest)
      /\ m # None
      /\ opts' = [opts EXCEPT ![s] = m]
  BY <1>0
<1> HIDE DEF m
<1>2. /\ stage[s] = "metadata" /\ stage' = [stage EXCEPT ![s] = "payloads"]
      /\ UNCHANGED <<chainVars, order, pin, txn, built, expired>>
  BY DEF ConstructionMetadata
<1>3. OnlyCaller(s)
  <2>1. Only(s, stage, stage') /\ Only(s, opts, opts')
    BY <1>1, <1>2, Callers, OnlyOne
  <2>2. Only(s, order, order') /\ Only(s, pin, pin') /\ Only(s, txn, txn')
    BY <1>2, Callers, OnlyOne
  <2>3. Only(s, built, built')
    BY <1>2, Callers, OnlyOne
  <2> QED
    BY <2>1, <2>2, <2>3 DEF OnlyCaller
<1>4. /\ stage'[s] = "payloads" /\ opts'[s] = m /\ order'[s] = order[s]
      /\ pin'[s] = pin[s] /\ built'[s] = built[s]
  BY <1>1, <1>2, Callers
<1>5. OptsFor(o, vetted) /\ o.seq = pin[s] /\ keyOf(vetted) \in Nat
  BY <1>2, Callers, OrderFacts DEF CallerInv
<1> HIDE DEF o, vetted
<1>6. OptsFor(m, vetted) /\ (o.seq # -1 => m.seq = o.seq)
  <2>1. CASE o.inner
    BY <1>1, <1>5, <2>1, Callers, InnerMetadata
  <2>2. CASE ~o.inner
    BY <1>1, <1>5, <2>2, Callers, FlowMetadata
  <2> QED
    BY <2>1, <2>2
<1>7. Height' = Height
  BY <1>2 DEF chainVars, Height
<1>8. \A x, i : OptsFor(x, i) => OptsFor(x, i)'
  BY <1>7 DEF OptsFor
<1>9. \A t, i : TxnFor(t, i) => TxnFor(t, i)'
  BY <1>7 DEF TxnFor, FlowTxn
<1>10. CallerInv(s)'
  BY <1>2, <1>4, <1>5, <1>6, <1>8, <1>9, Callers DEF CallerInv, Stages, vetted
<1>11. OneSeq(s)'
  BY <1>2, <1>4, Callers, SameSeq DEF chainVars
<1> QED
  BY <1>2, <1>3, <1>4, <1>10, <1>11, QuietStep

LEMMA PayloadsInv ==
  ASSUME ConstructionInv, NEW s \in Sessions, ConstructionPayloads(s)
  PROVE  ConstructionInv'
<1> DEFINE o == opts[s]
           vetted == parseIntent(order[s].preprocess)
           intent == parseIntent(order[s].payloads)
           t == unsigned(intent, o)
<1>1. stage[s] = "payloads" /\ UNCHANGED <<chainVars, order, pin, opts, built, expired>>
  BY DEF ConstructionPayloads
<1>2. \/ stage' = [stage EXCEPT ![s] = "refused"] /\ UNCHANGED txn
      \/ /\ ~unpayable(intent, o) /\ txn' = [txn EXCEPT ![s] = t]
         /\ stage' = [stage EXCEPT ![s] = "combine"]
  BY DEF ConstructionPayloads
<1>3. OnlyCaller(s)
  <2>1. Only(s, stage, stage')
    BY <1>2, Callers, OnlyOne
  <2>2. Only(s, txn, txn')
    BY <1>2, Callers, OnlyOne
  <2>3. Only(s, order, order') /\ Only(s, pin, pin') /\ Only(s, opts, opts')
    BY <1>1, Callers, OnlyOne
  <2>4. Only(s, built, built')
    BY <1>1, Callers, OnlyOne
  <2> QED
    BY <2>1, <2>2, <2>3, <2>4 DEF OnlyCaller
<1>4. order'[s] = order[s] /\ pin'[s] = pin[s] /\ built'[s] = built[s]
  BY <1>1
<1>5. Height' = Height
  BY <1>1 DEF chainVars, Height
<1>6. \A u, i : TxnFor(u, i) => TxnFor(u, i)'
  BY <1>5 DEF TxnFor, FlowTxn
<1>7. OneSeq(s)'
  BY <1>1, <1>4, Callers, SameSeq DEF chainVars
<1>8. CallerInv(s)'
  <2>1. CASE stage' = [stage EXCEPT ![s] = "refused"]
    <3>1. stage'[s] = "refused"
      BY <2>1, Callers
    <3> QED
      BY <1>1, <1>4, <1>6, <3>1, Callers DEF CallerInv, Stages
  <2>2. CASE /\ ~unpayable(intent, o) /\ txn' = [txn EXCEPT ![s] = t]
             /\ stage' = [stage EXCEPT ![s] = "combine"]
    <3>1. stage'[s] = "combine" /\ txn'[s] = t
      BY <2>2, Callers
    <3>2. Operations(order[s].payloads)
      BY <1>1, Callers, OrderFacts
    <3>3. OptsFor(o, vetted) /\ (pin[s] # -1 => o.seq = pin[s])
      BY <1>1, Callers DEF CallerInv
    <3>4. intent # None /\ o.seq >= 0
      BY <2>2, <3>3 DEF unpayable, OptsFor
    <3>5. TxnFor(t, vetted) /\ (~isInner(t) => t.seq = o.seq)
      BY <3>2, <3>3, <3>4, Unsigned
    <3> HIDE DEF t
    <3> QED
      BY <1>1, <1>4, <1>6, <3>1, <3>3, <3>4, <3>5, Callers DEF CallerInv, Stages
  <2> QED
    BY <1>2, <2>1, <2>2
<1> QED
  BY <1>1, <1>3, <1>4, <1>7, <1>8, QuietStep
LEMMA CombineInv ==
  ASSUME ConstructionInv, NEW s \in Sessions, ConstructionCombine(s)
  PROVE  ConstructionInv'
<1> DEFINE vetted == parseIntent(order[s].preprocess)
           c == combined(txn[s])
<1>1. stage[s] = "combine" /\ UNCHANGED <<chainVars, order, pin, opts, expired>>
  BY DEF ConstructionCombine
<1>2. \/ stage' = [stage EXCEPT ![s] = "refused"] /\ UNCHANGED <<txn, built>>
      \/ /\ txn' = [txn EXCEPT ![s] = c]
         /\ built' = [built EXCEPT ![s] = @ \cup {c}]
         /\ stage' = [stage EXCEPT ![s] = "submit"]
  BY DEF ConstructionCombine
<1>3. OnlyCaller(s)
  <2>1. Only(s, stage, stage')
    BY <1>2, Callers, OnlyOne
  <2>2. Only(s, txn, txn')
    BY <1>2, Callers, OnlyOne
  <2>3. Only(s, built, built')
    <3>1. UNCHANGED built \/ built' = [built EXCEPT ![s] = built[s] \cup {c}]
      BY <1>2
    <3> HIDE DEF c
    <3> QED
      BY <3>1, Callers, OnlyOne
  <2>4. Only(s, order, order') /\ Only(s, pin, pin') /\ Only(s, opts, opts')
    BY <1>1, Callers, OnlyOne
  <2> QED
    BY <2>1, <2>2, <2>3, <2>4 DEF OnlyCaller
<1>4. order'[s] = order[s] /\ pin'[s] = pin[s]
  BY <1>1
<1>5. Height' = Height
  BY <1>1 DEF chainVars, Height
<1>6. \A u, i : TxnFor(u, i) => TxnFor(u, i)'
  BY <1>5 DEF TxnFor, FlowTxn
<1>7. CASE stage' = [stage EXCEPT ![s] = "refused"] /\ UNCHANGED <<txn, built>>
  <2>1. stage'[s] = "refused" /\ built'[s] = built[s]
    BY <1>7, Callers
  <2>2. CallerInv(s)'
    BY <1>1, <1>4, <1>6, <2>1, Callers DEF CallerInv, Stages
  <2>3. OneSeq(s)'
    BY <1>1, <1>4, <2>1, Callers, SameSeq DEF chainVars
  <2> QED
    BY <1>1, <1>3, <2>1, <2>2, <2>3, QuietStep
<1>8. CASE /\ txn' = [txn EXCEPT ![s] = c]
           /\ built' = [built EXCEPT ![s] = @ \cup {c}]
           /\ stage' = [stage EXCEPT ![s] = "submit"]
  <2>1. stage'[s] = "submit" /\ txn'[s] = c /\ built'[s] = built[s] \cup {c}
    BY <1>8, Callers
  <2>2. /\ TxnFor(txn[s], vetted) /\ ~refused(vetted)
        /\ pin[s] # -1 /\ ~isInner(txn[s]) => txn[s].seq = pin[s]
    BY <1>1, Callers DEF CallerInv
  <2>3. /\ TxnFor(c, vetted) /\ (isInner(c) <=> isInner(txn[s]))
        /\ ~isInner(c) => c.seq = txn[s].seq
    BY <2>2, Combined DEF isInner
  <2> HIDE DEF c
  <2>4. CallerInv(s)'
    BY <1>1, <1>4, <1>6, <2>1, <2>2, <2>3, Callers DEF CallerInv, Stages
  <2>5. \A t : Dead(t) => Dead(t)'
    BY <1>1 DEF Dead, Settled, Known, chainVars
  <2>6. OneSeq(s)'
    BY <1>1, <1>4, <2>1, <2>2, <2>3, <2>5, Callers DEF OneSeq
  <2> QED
    BY <1>1, <1>3, <2>1, <2>4, <2>6, QuietStep
<1> QED
  BY <1>2, <1>7, <1>8

\* An Access API server reports an expiry only when its own blocks have
\* passed it.
LEMMA ExpiryReported ==
  ASSUME NEW t, NEW r \in Submissions(t), r.verdict = "expired"
  PROVE  \E h \in 1..Height : h - t.ref > Expiry
<1>0. PICK a \in UNION {Replies(t, h) : h \in 1..Height}, limited \in BOOLEAN :
        r = [sent |-> a.sent, verdict |-> verdict(InterceptRateLimitUnary(a, limited))]
  BY DEF Submissions
<1>1. PICK h \in 1..Height : a \in Replies(t, h)
  OBVIOUS
<1>2. verdict(InterceptRateLimitUnary(a, limited)) = "expired"
  BY <1>0
<1>3. /\ InterceptRateLimitUnary(a, limited).code = "InvalidArgument"
      /\ InterceptRateLimitUnary(a, limited).text = "transaction is expired"
  BY <1>2 DEF verdict
<1> DEFINE no == FALSE
           yes == TRUE
<1>4. \/ a = Reply(no, "Unavailable", "")
      \/ a = Reply(no, "InvalidArgument", "unknown reference block")
      \/ h - t.ref > Expiry /\ a = Reply(no, "InvalidArgument", "transaction is expired")
      \/ a = Reply(yes, "OK", "")
      \/ a = Reply(yes, "DeadlineExceeded", "")
  BY <1>1 DEF Replies
<1> HIDE DEF no, yes
<1>5. /\ Reply(no, "Unavailable", "").text = ""
      /\ Reply(no, "InvalidArgument", "unknown reference block").text
           = "unknown reference block"
      /\ Reply(yes, "OK", "").text = ""
      /\ Reply(yes, "DeadlineExceeded", "").text = ""
  BY DEF Reply
<1>6. ~limited
  <2> SUFFICES ASSUME limited PROVE FALSE
    OBVIOUS
  <2>1. InterceptRateLimitUnary(a, limited) =
          [a EXCEPT !.code = "ResourceExhausted", !.text = "rate limit reached"]
    BY DEF InterceptRateLimitUnary
  <2>2. PICK v, code, text : a = Reply(v, code, text)
    BY <1>4
  <2>3. a = [sent |-> v, code |-> code, text |-> text]
    BY <2>2 DEF Reply
  <2>4. InterceptRateLimitUnary(a, limited).code = "ResourceExhausted"
    BY <2>1, <2>3
  <2> QED
    BY <1>3, <2>4
<1>7. a.text = "transaction is expired"
  BY <1>3, <1>6 DEF InterceptRateLimitUnary
<1>8. h - t.ref > Expiry
  <2> SUFFICES ASSUME ~(h - t.ref > Expiry)
               PROVE  FALSE
    OBVIOUS
  <2>1. a.text = "" \/ a.text = "unknown reference block"
    BY <1>4, <1>5
  <2> QED
    BY <1>7, <2>1
<1> QED
  BY <1>8

\* It takes a transaction only when it knows the reference block.
LEMMA SentReference ==
  ASSUME NEW t, NEW r \in Submissions(t), r.sent
  PROVE  t.ref # 0
<1>0. PICK a \in UNION {Replies(t, h) : h \in 1..Height}, limited \in BOOLEAN :
        r = [sent |-> a.sent, verdict |-> verdict(InterceptRateLimitUnary(a, limited))]
  BY DEF Submissions
<1>1. PICK h \in 1..Height : a \in Replies(t, h)
  OBVIOUS
<1>2. a.sent
  BY <1>0
<1>3. \A code, text : Reply(FALSE, code, text).sent = FALSE
  BY DEF Reply
<1>4. t.ref \in 1..h
  BY <1>1, <1>2, <1>3 DEF Replies
<1> QED
  BY <1>4

LEMMA SubmitInv ==
  ASSUME ConstructionInv, NEW s \in Sessions, ConstructionSubmit(s)
  PROVE  ConstructionInv'
<1>1. stage[s] = "submit" /\ ~isInner(txn[s]) /\ UNCHANGED <<ledger, executed, sessionVars>>
  BY DEF ConstructionSubmit
<1>2. PICK r \in Submissions(txn[s]) :
        /\ pool' = IF r.sent THEN pool \cup {txn[s]} ELSE pool
        /\ expired' = IF r.verdict = "expired"
                      THEN expired \cup {TransactionHash(txn[s])} ELSE expired
  BY DEF ConstructionSubmit
<1>3. OnlyCaller(s)
  BY <1>1, Callers, OnlyOne DEF OnlyCaller, sessionVars
<1>4. /\ txn[s] \in built[s] /\ FlowTxn(txn[s], parseIntent(order[s].preprocess))
      /\ Height' = Height /\ Height \in Nat
  BY <1>1, Callers, NowFacts DEF CallerInv, TxnFor, Height
<1>5. CallerInv(s)'
  BY <1>1, <1>4, Callers, CallersKeep
<1>6. expired \subseteq expired'
  BY <1>2
<1>7. \A t : Dead(t) => Dead(t)'
  BY <1>1, <1>6 DEF Dead, Settled, Known
<1>8. OneSeq(s)'
  BY <1>1, <1>7, Callers DEF OneSeq, sessionVars
<1>9. /\ ChainInv' /\ CallersInv'
      /\ \A z \in Sessions : CallerInv(z)' /\ OneSeq(z)' /\ built[z] \subseteq built'[z]
  BY <1>1, <1>3, <1>5, <1>6, <1>8, SessionStep DEF sessionVars
<1>10. ExpiredInv'
  <2>1. ASSUME r.verdict = "expired"
        PROVE  /\ TransactionHash(txn[s])[1].ref \in Nat
               /\ Height - TransactionHash(txn[s])[1].ref > Expiry
    <3>1. TransactionHash(txn[s])[1].ref = txn[s].ref
      BY <1>4, HashNames
    <3>2. PICK h \in 1..Height : h - txn[s].ref > Expiry
      BY <2>1, ExpiryReported
    <3>3. txn[s].ref \in Nat /\ Expiry \in Nat
      BY <1>4, ConstructionAssumption DEF FlowTxn
    <3> QED
      BY <1>4, <3>1, <3>2, <3>3
  <2> QED
    BY <1>2, <1>4, <2>1 DEF ConstructionInv, ExpiredInv
<1>11. ExecutedInv'
  <2>0. r.sent => txn[s].ref # 0
    BY SentReference
  <2>1. \A t \in pool' : ~isInner(t) /\ t.ref # 0 /\ \E z \in Sessions : t \in built'[z]
    BY <1>1, <1>2, <1>4, <1>9, <2>0 DEF ConstructionInv, ExecutedInv
  <2>2. \A e \in executed' : e.txn \in pool' /\ e.out.ok \in BOOLEAN /\ SpentBy(e)'
    BY <1>1, <1>2 DEF ConstructionInv, ExecutedInv, SpentBy, Now, Height
  <2>3. \A e, f \in executed' : Apart(e, f)'
    BY <1>1 DEF ConstructionInv, ExecutedInv, Apart
  <2> QED
    BY <2>1, <2>2, <2>3 DEF ExecutedInv
<1> QED
  BY <1>9, <1>10, <1>11 DEF ConstructionInv
LEMMA StartOverInv ==
  ASSUME ConstructionInv, NEW s \in Sessions, StartOver(s)
  PROVE  ConstructionInv'
<1>1. /\ stage[s] = "submit" /\ ~isInner(txn[s])
      /\ stage' = [stage EXCEPT ![s] = "preprocess"]
      /\ opts' = [opts EXCEPT ![s] = None] /\ txn' = [txn EXCEPT ![s] = None]
      /\ UNCHANGED <<chainVars, order, built, expired>>
  BY DEF StartOver
<1>2. \/ pin' = [pin EXCEPT ![s] = txn[s].seq]
      \/ /\ \A t \in built[s] : Settled(t)
         /\ TRUE \notin Outcomes(s)
         /\ pin' = [pin EXCEPT ![s] = -1]
  BY DEF StartOver
<1>3. OnlyCaller(s)
  <2>1. Only(s, stage, stage') /\ Only(s, opts, opts') /\ Only(s, txn, txn')
    BY <1>1, Callers, OnlyOne
  <2>2. Only(s, pin, pin')
    <3>1. PICK v : pin' = [pin EXCEPT ![s] = v]
      BY <1>2
    <3>2. DOMAIN pin = Sessions
      BY Callers
    <3>3. Only(s, pin, [pin EXCEPT ![s] = v])
      BY <3>2, OnlyOne
    <3> QED
      BY <3>1, <3>3
  <2>3. Only(s, order, order') /\ Only(s, built, built')
    BY <1>1, Callers, OnlyOne
  <2> QED
    BY <2>1, <2>2, <2>3 DEF OnlyCaller
<1>4. stage'[s] = "preprocess" /\ order'[s] = order[s] /\ built'[s] = built[s]
  BY <1>1, Callers
<1>5. /\ txn[s] \in built[s] /\ txn[s].seq \in Nat
      /\ pin[s] # -1 => txn[s].seq = pin[s]
  BY <1>1, Callers DEF CallerInv, TxnFor, FlowTxn
<1>6. Height' = Height
  BY <1>1 DEF chainVars, Height
<1>7. \A u, i : TxnFor(u, i) => TxnFor(u, i)'
  BY <1>6 DEF TxnFor, FlowTxn
<1>8. \A t : Dead(t) => Dead(t)'
  BY <1>1 DEF Dead, Settled, Known, chainVars
<1>9. pin'[s] \in Nat \cup {-1} /\ OneSeq(s)'
  <2>1. CASE pin' = [pin EXCEPT ![s] = txn[s].seq]
    <3>1. pin'[s] = txn[s].seq /\ pin'[s] # -1
      BY <1>5, <2>1, Callers
    <3>2. ASSUME NEW t \in built[s]
          PROVE  isInner(t) \/ Dead(t)' \/ t.seq = pin'[s]
      BY <1>5, <1>8, <3>1, Callers DEF OneSeq
    <3> QED
      BY <1>4, <1>5, <3>1, <3>2 DEF OneSeq
  <2>2. CASE /\ \A t \in built[s] : Settled(t)
             /\ TRUE \notin Outcomes(s)
             /\ pin' = [pin EXCEPT ![s] = -1]
    <3>1. pin'[s] = -1
      BY <2>2, Callers
    <3>2. ASSUME NEW t \in built[s]
          PROVE  Dead(t)
      <4>1. ASSUME NEW e \in executed, e.txn = t
            PROVE  ~e.out.ok
        <5>1. e.out.ok \in Outcomes(s) /\ e.out.ok \in BOOLEAN
          BY <4>1 DEF Outcomes, ConstructionInv, ExecutedInv
        <5> QED
          BY <2>2, <5>1
      <4> QED
        BY <2>2, <4>1 DEF Dead
    <3> QED
      BY <1>4, <1>8, <3>1, <3>2 DEF OneSeq
  <2> QED
    BY <1>2, <2>1, <2>2
<1>10. CallerInv(s)'
  BY <1>1, <1>4, <1>5, <1>7, <1>9, Callers DEF CallerInv, Stages
<1> QED
  BY <1>1, <1>3, <1>4, <1>9, <1>10, QuietStep

-----------------------------------------------------------------------------
(* Theorems.                                                               *)

LEMMA InitInv ==
  ASSUME Init
  PROVE  ConstructionInv
<1> DEFINE ks == <<NewKey(FirstKey)>>
           st == [keys |-> ks, nonce |-> -1]
<1>1. NewKey(FirstKey) \in KeyStates /\ NewKey(FirstKey).seq = 0
  BY FreshKey, ConstructionAssumption
<1>2. st \in States /\ st.keys = ks /\ st.nonce = -1
  <2>1. ks \in Seq(KeyStates)
    BY <1>1
  <2> HIDE DEF ks
  <2>2. -1 \in Int
    OBVIOUS
  <2> QED
    BY <2>1, <2>2 DEF States
<1>3. Len(st.keys) = 1 /\ DOMAIN st.keys = 1..1 /\ st.keys[1].seq = 0
  BY <1>1, <1>2
<1>4. ledger = [h \in 1..2 |-> st]
  BY DEF Init
<1> HIDE DEF st
<1>5. ledger \in Seq(States) /\ Height = 2 /\ \A h \in 1..2 : ledger[h] = st
  <2>1. ledger \in [1..2 -> States]
    BY <1>2, <1>4
  <2>2. ledger \in Seq(States)
    BY <2>1, SeqDef
  <2>3. DOMAIN ledger = 1..2
    BY <2>1
  <2>4. Len(ledger) = 2
    BY <2>2, <2>3, LenProperties
  <2> QED
    BY <1>4, <2>2, <2>4 DEF Height
<1>6. ChainInv
  <2>1. Height \in 1..MaxHeight
    BY <1>5, ConstructionAssumption
  <2>2. ASSUME NEW h \in 1..Height
        PROVE  /\ Len(ledger[h].keys) >= 1 /\ ledger[h].nonce \in -1..h
               /\ \A i \in DOMAIN ledger[h].keys : ledger[h].keys[i].seq <= h
    <3>1. ledger[h] = st /\ h >= 1 /\ h \in Nat
      BY <1>5
    <3>2. \A i \in DOMAIN st.keys : st.keys[i].seq = 0
      BY <1>3
    <3>3. -1 \in -1..h /\ 0 <= h
      BY <3>1
    <3>4. Len(ledger[h].keys) >= 1
      BY <1>3, <3>1
    <3>5. ledger[h].nonce = -1
      BY <1>2, <3>1
    <3>6. ledger[h].nonce \in -1..h
      BY <3>3, <3>5
    <3> QED
      BY <3>1, <3>2, <3>3, <3>4, <3>6
  <2> QED
    BY <1>5, <2>1, <2>2 DEF ChainInv
<1>7. ExecutedInv /\ ExpiredInv /\ CallersInv
  BY DEF Init, ExecutedInv, ExpiredInv, CallersInv
<1>8. ASSUME NEW s \in Sessions
      PROVE  CallerInv(s) /\ OneSeq(s)
  <2>1. stage[s] = "preprocess" /\ order[s] = None /\ built[s] = {}
    BY DEF Init
  <2>2. pin[s] \in Nat \cup {-1}
    BY RequestsAssumption DEF Init
  <2> QED
    BY <2>1, <2>2 DEF CallerInv, OneSeq, Stages
<1> QED
  BY <1>6, <1>7, <1>8 DEF ConstructionInv

LEMMA StutterInv ==
  ASSUME ConstructionInv, UNCHANGED vars
  PROVE  ConstructionInv'
<1>1. UNCHANGED <<ledger, pool, executed, stage, order, pin, opts, txn, built, expired>>
  BY DEF vars, chainVars, sessionVars
<1>2. ChainInv' /\ ExpiredInv' /\ CallersInv'
  BY <1>1 DEF ConstructionInv, ChainInv, ExpiredInv, CallersInv, Height
<1>3. ExecutedInv'
  BY <1>1 DEF ConstructionInv, ExecutedInv, SpentBy, Apart, Now, Height
<1>4. ASSUME NEW s \in Sessions
      PROVE  CallerInv(s)' /\ OneSeq(s)'
  <2>1. CallerInv(s)'
    BY <1>1, Callers, NowFacts, CallersKeep DEF sessionVars, Height
  <2>2. OneSeq(s)'
    BY <1>1, Callers DEF OneSeq, Dead, Settled, Known
  <2> QED
    BY <2>1, <2>2
<1> QED
  BY <1>2, <1>3, <1>4 DEF ConstructionInv

LEMMA NextInv ==
  ASSUME ConstructionInv, [Next]_vars
  PROVE  ConstructionInv'
<1>1. CASE Include
  BY <1>1, IncludeInv
<1>2. CASE OtherBlock \/ RotateKey
  BY <1>2, OthersInv
<1>3. ASSUME NEW s \in Sessions,
             \/ ConstructionPreprocess(s) \/ ConstructionMetadata(s)
             \/ ConstructionPayloads(s) \/ ConstructionCombine(s)
             \/ ConstructionSubmit(s) \/ StartOver(s)
      PROVE  ConstructionInv'
  BY <1>3, PreprocessInv, MetadataInv, PayloadsInv, CombineInv, SubmitInv, StartOverInv
<1>4. CASE UNCHANGED vars
  BY <1>4, StutterInv
<1> QED
  BY <1>1, <1>2, <1>3, <1>4 DEF Next

\* The inductive invariant of the construction API: what each caller holds is
\* for its order and at the sequence number it counts on, and each execution
\* has used up its sequence number and nonce.
THEOREM ConstructionInvariant == Spec => []ConstructionInv
<1>1. Init => ConstructionInv
  BY InitInv
<1>2. ConstructionInv /\ [Next]_vars => ConstructionInv'
  BY NextInv
<1> QED
  BY <1>1, <1>2, PTL DEF Spec

\* At most one element.
LEMMA AtMostOne ==
  ASSUME NEW S, \A e, f \in S : e = f
  PROVE  Cardinality(S) <= 1
<1>1. CASE S = {}
  BY <1>1, FS_EmptySet
<1>2. CASE S # {}
  <2>1. PICK e : S = {e}
    BY <1>2
  <2> QED
    BY <2>1, FS_Singleton
<1> QED
  BY <1>1, <1>2

\* AtMostOnce: for any callers, orders and servers, submit and metadata give
\* answers that a caller can rely on to have its order executed at most once,
\* however often it resubmits and starts over.
THEOREM OrdersOnce == Spec => []AtMostOnce
<1>1. ConstructionInv => AtMostOnce
  <2> SUFFICES ASSUME ConstructionInv, NEW s \in Sessions
               PROVE  Cardinality({e \in executed : e.txn \in built[s] /\ e.out.ok}) <= 1
    BY DEF AtMostOnce
  <2>1. ASSUME NEW e \in executed, e.txn \in built[s], e.out.ok
        PROVE  /\ e.txn.keyId = keyOf(parseIntent(order[s].preprocess))
               /\ e.txn.seq = IF pin[s] # -1 THEN pin[s] ELSE txn[s].seq
    <3>1. ~isInner(e.txn)
      BY DEF ConstructionInv, ExecutedInv
    <3>2. ~Dead(e.txn)
      BY <2>1 DEF Dead
    <3>3. FlowTxn(e.txn, parseIntent(order[s].preprocess))
      BY <2>1, <3>1, Callers DEF CallerInv, TxnFor
    <3>4. e.txn.seq = IF pin[s] # -1 THEN pin[s] ELSE txn[s].seq
      BY <2>1, <3>1, <3>2, Callers DEF OneSeq
    <3> QED
      BY <3>3, <3>4 DEF FlowTxn
  <2>2. ASSUME NEW e \in executed, e.txn \in built[s], e.out.ok,
               NEW f \in executed, f.txn \in built[s], f.out.ok
        PROVE  e = f
    <3>1. e.txn.keyId = f.txn.keyId /\ e.txn.seq = f.txn.seq
      BY <2>1, <2>2
    <3>2. Apart(e, f)
      BY DEF ConstructionInv, ExecutedInv
    <3> QED
      BY <2>2, <3>1, <3>2 DEF Apart
  <2> QED
    BY <2>2, AtMostOne
<1> QED
  BY <1>1, ConstructionInvariant, PTL

\* ExpiredIsFinal: verdict takes a reply for an expiry only if the reference
\* block is too far back on the chain, and stays so.
THEOREM ExpiryIsFinal == Spec => ExpiredIsFinal
<1>1. ConstructionInv /\ [Next]_vars =>
        [\A e \in executed' \ executed : TransactionHash(e.txn) \notin expired]_vars
  <2> SUFFICES ASSUME ConstructionInv, [Next]_vars, NEW e \in executed' \ executed,
                      TransactionHash(e.txn) \in expired
               PROVE  FALSE
    OBVIOUS
  <2>1. Include
    BY DEF Next, OtherBlock, RotateKey, ConstructionPreprocess, ConstructionMetadata,
           ConstructionPayloads, ConstructionCombine, ConstructionSubmit, StartOver,
           chainVars, vars
  <2>2. PICK t \in pool : /\ Includable(t, Height + 1)
                          /\ executed' = executed \cup {Executed(t, Height + 1, Result(t))}
    BY <2>1 DEF Include
  <2>3. e.txn = t
    BY <2>2, ExecutedParts
  <2>4. PICK intent : FlowTxn(t, intent)
    BY PoolFacts
  <2>5. TransactionHash(t)[1].ref = t.ref /\ t.ref \in Nat
    BY <2>4, HashNames DEF FlowTxn
  <2>6. Height - t.ref > Expiry
    BY <2>3, <2>5 DEF ConstructionInv, ExpiredInv
  <2>7. Height \in Nat /\ Expiry \in Nat
    BY NowFacts, ConstructionAssumption DEF ConstructionInv
  <2>8. Height + 1 - t.ref <= Expiry
    BY <2>2, <2>5, <2>7 DEF Includable
  <2> QED
    BY <2>5, <2>6, <2>7, <2>8
<1> QED
  BY <1>1, ConstructionInvariant, PTL DEF Spec, ExpiredIsFinal

\* InnerOnce: the vault counts its nonces, and the cold key signs the nonce.
THEOREM InnersOnce == Spec => []InnerOnce
<1>1. ConstructionInv => InnerOnce
  <2> SUFFICES ASSUME ConstructionInv, NEW t \in Inners
               PROVE  Cardinality({e \in executed : /\ e.out.ok
                                                     /\ e.txn.script = "proxyTransfer"
                                                     /\ e.txn.args.sig = t.sig}) <= 1
    BY DEF InnerOnce
  <2>1. ASSUME NEW e \in executed, e.out.ok, e.txn.script = "proxyTransfer",
               e.txn.args.sig = t.sig
        PROVE  e.txn.args.nonce = t.sig.over.nonce
    <3>1. t.sig = Sign(ColdKey, innerHash(e.txn.args))
      BY <2>1 DEF ConstructionInv, ExecutedInv, SpentBy
    <3>2. t.sig.over = innerHash(e.txn.args)
      BY <3>1 DEF Sign
    <3> QED
      BY <3>2 DEF innerHash
  <2>2. ASSUME NEW e \in executed, e.out.ok, e.txn.script = "proxyTransfer",
               e.txn.args.sig = t.sig,
               NEW f \in executed, f.out.ok, f.txn.script = "proxyTransfer",
               f.txn.args.sig = t.sig
        PROVE  e = f
    <3>1. e.txn.args.nonce = f.txn.args.nonce
      BY <2>1, <2>2
    <3>2. Apart(e, f)
      BY DEF ConstructionInv, ExecutedInv
    <3> QED
      BY <2>2, <3>1, <3>2 DEF Apart
  <2> QED
    BY <2>2, AtMostOne
<1> QED
  BY <1>1, ConstructionInvariant, PTL

\* TypeOK: the state has the shape that the endpoints rely on, and sequence
\* numbers and nonces stay in range.
THEOREM TypeCorrect == Spec => []TypeOK
<1>1. ConstructionInv => TypeOK
  <2> SUFFICES ASSUME ConstructionInv
               PROVE  TypeOK
    OBVIOUS
  <2>1. Height \in 1..MaxHeight /\ MaxHeight \in Nat
    BY NowFacts, ConstructionAssumption DEF ConstructionInv
  <2>2. ASSUME NEW h \in 1..Height
        PROVE  /\ ledger[h].nonce \in -1..MaxHeight
               /\ \A i \in DOMAIN ledger[h].keys :
                    ledger[h].keys[i] \in [key : Keys, revoked : BOOLEAN, seq : 0..MaxHeight]
    <3>1. /\ ledger[h] \in States /\ ledger[h].nonce \in -1..h
          /\ \A i \in DOMAIN ledger[h].keys : ledger[h].keys[i].seq <= h
      BY <2>1 DEF ConstructionInv, ChainInv, Height
    <3>2. \A i \in DOMAIN ledger[h].keys : ledger[h].keys[i] \in KeyStates
      BY <3>1 DEF States
    <3>3. ASSUME NEW k \in KeyStates, k.seq <= h
          PROVE  k \in [key : Keys, revoked : BOOLEAN, seq : 0..MaxHeight]
      BY <2>1, <3>3 DEF KeyStates
    <3> QED
      BY <2>1, <3>1, <3>2, <3>3
  <2>3. /\ pool \subseteq UNION {built[s] : s \in Sessions}
        /\ {e.txn : e \in executed} \subseteq pool
    BY DEF ConstructionInv, ExecutedInv
  <2>4. ASSUME NEW s \in Sessions
        PROVE  /\ stage[s] \in {"preprocess", "metadata", "payloads", "combine", "submit",
                                "refused"}
               /\ stage[s] \in {"metadata", "payloads"} => opts[s].seq \in Int
               /\ stage[s] \in {"combine", "submit"} =>
                    txn[s].script \in {"inner"} \cup DOMAIN Parameters
               /\ stage[s] = "submit" => txn[s] \in built[s]
    BY Callers DEF CallerInv, Stages, OptsFor, TxnFor, FlowTxn, isInner
  <2> QED
    BY <2>1, <2>2, <2>3, <2>4 DEF TypeOK
<1> QED
  BY <1>1, ConstructionInvariant, PTL
-----------------------------------------------------------------------------
(* EffectMatchesIntent.                                                    *)

\* The places of an operation that is not listed.
LEMMA NoPlace ==
  ASSUME NEW ops, NEW op, op \notin ToSet(ops)
  PROVE  Cardinality(Places(op, ops)) = 0
<1>1. Places(op, ops) = {}
  BY DEF Places, ToSet
<1> QED
  BY <1>1, FS_EmptySet

\* The places of an operation that is listed.
LEMMA SomePlace ==
  ASSUME NEW S, NEW ops \in Seq(S), NEW op \in ToSet(ops)
  PROVE  Cardinality(Places(op, ops)) # 0
<1>1. Len(ops) \in Nat /\ DOMAIN ops = 1..Len(ops)
  OBVIOUS
<1>2. IsFiniteSet(1..Len(ops))
  BY <1>1, FS_Interval
<1>3. Places(op, ops) \in SUBSET (1..Len(ops)) /\ Places(op, ops) # {}
  BY <1>1 DEF Places, ToSet
<1>4. IsFiniteSet(Places(op, ops))
  BY <1>2, <1>3, FS_Subset
<1> QED
  BY <1>3, <1>4, FS_EmptySet

\* Lists that a caller takes for the same have the same operations.
LEMMA SameSets ==
  ASSUME NEW S, NEW a \in Seq(S), NEW T, NEW b \in Seq(T), SameOps(a, b)
  PROVE  ToSet(a) = ToSet(b)
<1>1. ASSUME NEW op \in ToSet(a)
      PROVE  op \in ToSet(b)
  <2>1. Cardinality(Places(op, a)) = Cardinality(Places(op, b))
    BY DEF SameOps
  <2> QED
    BY <2>1, SomePlace, NoPlace
<1>2. ASSUME NEW op \in ToSet(b)
      PROVE  op \in ToSet(a)
  <2>1. Cardinality(Places(op, a)) = Cardinality(Places(op, b))
    BY DEF SameOps
  <2> QED
    BY <2>1, SomePlace, NoPlace
<1> QED
  BY <1>1, <1>2

\* An outcome that is an effect is the effect of the transaction.
LEMMA OutcomeEffect ==
  ASSUME NEW t, NEW intent, FlowTxn(t, intent), NEW st, Outcome(t, st).ok
  PROVE  /\ Outcome(t, st).moves = EffectOf(t).moves
         /\ Outcome(t, st).made = EffectOf(t).made
<1>1. t.script \in {"basicTransfer", "proxyTransfer", "createAccount",
                    "createProxyAccount", "setContract"}
  BY DEF FlowTxn, Parameters
<1>2. Nothing.ok = FALSE /\ Nothing.moves = {} /\ Nothing.made = <<>>
  BY DEF Nothing
<1>3. Arguments(t) = Parameters[t.script] /\ Compiles(t.script)
  BY <1>2 DEF Outcome
<1>4. \A x, y, n : /\ Moved(x, y, n).moves = {<<x, -n>>, <<y, n>>}
                   /\ Moved(x, y, n).made = <<>>
  BY DEF Nothing, Moved
<1>5. \A ks : Made(ks).moves = {} /\ Made(ks).made = ks
  BY DEF Nothing, Made
<1>6. CASE t.script = "basicTransfer"
  <2>1. Outcome(t, st) = Moved(t.payer, t.args.receiver, t.args.amount)
    BY <1>3, <1>6 DEF Outcome
  <2>2. /\ EffectOf(t).moves = {<<t.payer, -t.args.amount>>, <<t.args.receiver, t.args.amount>>}
        /\ EffectOf(t).made = <<>>
    BY <1>6 DEF EffectOf
  <2> QED
    BY <1>4, <2>1, <2>2
<1>7. CASE t.script = "proxyTransfer"
  <2>1. Outcome(t, st) = Moved(t.args.sender, t.args.receiver, t.args.amount)
    BY <1>2, <1>3, <1>7 DEF Outcome
  <2>2. /\ EffectOf(t).moves = {<<t.args.sender, -t.args.amount>>,
                                <<t.args.receiver, t.args.amount>>}
        /\ EffectOf(t).made = <<>>
    BY <1>7 DEF EffectOf
  <2> QED
    BY <1>4, <2>1, <2>2
<1>8. CASE t.script = "createAccount"
  <2>1. Outcome(t, st) = Made(accountsMade(t))
    BY <1>2, <1>3, <1>8 DEF Outcome
  <2>2. EffectOf(t).moves = {} /\ EffectOf(t).made = accountsMade(t)
    BY <1>8 DEF EffectOf
  <2> QED
    BY <1>5, <2>1, <2>2
<1>9. CASE t.script = "createProxyAccount"
  <2>1. Outcome(t, st) = Made(<<t.args.publicKey.key>>)
    BY <1>3, <1>9 DEF Outcome
  <2>2. EffectOf(t).moves = {} /\ EffectOf(t).made = <<t.args.publicKey.key>>
    BY <1>9 DEF EffectOf
  <2> QED
    BY <1>5, <2>1, <2>2
<1>10. CASE t.script = "setContract"
  <2>1. Outcome(t, st) = [Nothing EXCEPT !.ok = contractIsSet(t, st)]
    BY <1>3, <1>10 DEF Outcome
  <2>2. contractIsSet(t, st) \in BOOLEAN
    BY DEF contractIsSet
  <2>3. ASSUME NEW v \in BOOLEAN
        PROVE  [Nothing EXCEPT !.ok = v].moves = {} /\ [Nothing EXCEPT !.ok = v].made = <<>>
    BY DEF Nothing
  <2>4. EffectOf(t).moves = {} /\ EffectOf(t).made = <<>>
    BY <1>10 DEF EffectOf
  <2> QED
    BY <2>1, <2>2, <2>3, <2>4
<1> QED
  BY <1>1, <1>6, <1>7, <1>8, <1>9, <1>10

\* A signature changes neither the operations nor the script.
LEMMA CombinedShows ==
  ASSUME NEW vetted, NEW intent, NEW t, TxnFor(t, vetted), BuiltFor(t, intent)
  PROVE  BuiltFor(combined(t), intent) /\ ConstructionParse(combined(t)) = ConstructionParse(t)
<1> DEFINE sig == IF isInner(t) THEN Sign(ColdKey, innerHash(t))
                  ELSE Sign(Last(Now.keys).key, TransactionEnvelopeHash(t))
           c   == combined(t)
<1>1. c = [t EXCEPT !.sig = sig]
  BY DEF combined
<1> HIDE DEF sig, c
<1>2. CASE isInner(t)
  <2>1. /\ c.script = t.script /\ c.sender = t.sender /\ c.receiver = t.receiver
        /\ c.amount = t.amount
    BY <1>1, <1>2 DEF TxnFor, HasFields, innerFields
  <2> QED
    BY <1>2, <2>1 DEF BuiltFor, ConstructionParse, isInner, c
<1>3. CASE ~isInner(t)
  <2>1. c.script = t.script /\ c.args = t.args /\ c.payer = t.payer
    BY <1>1, <1>3 DEF TxnFor, FlowTxn, HasFields, flowFields
  <2>2. BuiltFor(c, intent)
    BY <1>3, <2>1 DEF BuiltFor, isInner
  <2>3. ConstructionParse(c) = ConstructionParse(t)
    <3>1. /\ decodeTransferOps(c, TRUE) = decodeTransferOps(t, TRUE)
          /\ decodeTransferOps(c, FALSE) = decodeTransferOps(t, FALSE)
      BY <2>1 DEF decodeTransferOps
    <3>2. /\ decodeCreateAccountOps(c, TRUE) = decodeCreateAccountOps(t, TRUE)
          /\ decodeCreateAccountOps(c, FALSE) = decodeCreateAccountOps(t, FALSE)
      BY <2>1 DEF decodeCreateAccountOps
    <3>3. decodeContractOps(c) = decodeContractOps(t)
      BY <2>1, Zenon DEF decodeContractOps
    <3>4. t.script \in {"basicTransfer", "proxyTransfer", "createAccount",
                        "createProxyAccount", "setContract"}
      BY <1>3 DEF TxnFor, FlowTxn, Parameters
    <3> QED
      BY <2>1, <3>1, <3>2, <3>3, <3>4 DEF ConstructionParse, isInner
  <2> QED
    BY <2>2, <2>3 DEF c
<1> QED
  BY <1>2, <1>3

\* payloads encodes the keys of the operations.
LEMMA UnsignedFor ==
  ASSUME NEW intent, intent.inner \in BOOLEAN, NEW o
  PROVE  BuiltFor(unsigned(intent, o), intent)
<1> DEFINE t == unsigned(intent, o)
<1>1. CASE intent.inner
  <2>1. t.script = "inner"
    BY <1>1 DEF unsigned
  <2> QED
    BY <2>1 DEF BuiltFor, isInner
<1>2. CASE ~intent.inner
  <2> DEFINE script == scriptOf(intent)
             args   == argsOf(intent, o.payload)
  <2>1. t = [script |-> script, args |-> args, payer |-> o.payer, keyId |-> o.keyId,
             seq |-> o.seq, ref |-> o.ref, sig |-> None]
    BY <1>2 DEF unsigned
  <2>2. script = "createAccount" => args.keys = intent.keys
    BY DEF argsOf, NoArgs
  <2>3. script = "createProxyAccount" => args.publicKey = intent.keys[1]
    BY DEF argsOf, NoArgs
  <2> HIDE DEF t, script, args
  <2>4. t.script = script /\ t.args = args
    BY <2>1
  <2> QED
    BY <2>2, <2>3, <2>4 DEF BuiltFor, script, t
<1> QED
  BY <1>1, <1>2
\* What a caller has signed stays what it asked for when it takes another step.
LEMMA SignedKeeps ==
  ASSUME NEW s \in Sessions, SignedInv(s), order'[s] = order[s], built'[s] = built[s],
         stage'[s] = "combine" => stage[s] = "combine" /\ txn'[s] = txn[s]
  PROVE  SignedInv(s)'
BY DEF SignedInv

\* Each step of a caller.
LEMMA SignedStep ==
  ASSUME ConstructionInv, NEW s \in Sessions, SignedInv(s),
         \/ ConstructionPreprocess(s) \/ ConstructionMetadata(s)
         \/ ConstructionPayloads(s) \/ ConstructionCombine(s)
         \/ ConstructionSubmit(s) \/ StartOver(s)
  PROVE  SignedInv(s)'
<1>1. CASE ConstructionPreprocess(s)
  <2>1. /\ stage'[s] \in {"refused", "metadata"} /\ built' = built
        /\ order[s] # None => order'[s] = order[s]
    BY <1>1, Callers DEF ConstructionPreprocess
  <2>2. CASE order[s] = None
    <3>1. built[s] = {}
      BY <2>2, Callers DEF CallerInv
    <3> QED
      BY <2>1, <3>1 DEF SignedInv
  <2>3. CASE order[s] # None
    BY <2>1, <2>3, SignedKeeps
  <2> QED
    BY <2>2, <2>3
<1>2. CASE ConstructionMetadata(s)
  BY <1>2, Callers, SignedKeeps DEF ConstructionMetadata
<1>3. CASE ConstructionPayloads(s)
  <2> DEFINE intent == parseIntent(order[s].payloads)
  <2>1. order' = order /\ built' = built /\ stage[s] = "payloads"
    BY <1>3 DEF ConstructionPayloads
  <2>2. \/ stage'[s] = "refused"
        \/ txn'[s] = unsigned(intent, opts[s]) /\ intent # None
    BY <1>3, Callers DEF ConstructionPayloads, unpayable
  <2>3. intent # None => intent.inner \in BOOLEAN
    BY <2>1, Callers, OrderFacts, IntentFacts
  <2>4. stage'[s] = "combine" => BuiltFor(txn'[s], intent)
    BY <2>2, <2>3, UnsignedFor
  <2> QED
    BY <2>1, <2>4 DEF SignedInv
<1>4. CASE ConstructionCombine(s)
  <2> DEFINE intent == parseIntent(order[s].payloads)
             vetted == parseIntent(order[s].preprocess)
             c == combined(txn[s])
  <2>1. order' = order /\ stage[s] = "combine"
    BY <1>4 DEF ConstructionCombine
  <2>2. \/ stage'[s] = "refused" /\ built' = built
        \/ /\ SameOps(ConstructionParse(txn[s]), order[s].payloads)
           /\ built'[s] = built[s] \cup {c} /\ stage'[s] = "submit"
    BY <1>4, Callers DEF ConstructionCombine
  <2>3. TxnFor(txn[s], vetted) /\ BuiltFor(txn[s], intent)
    BY <2>1, Callers DEF CallerInv, SignedInv
  <2>4. BuiltFor(c, intent) /\ ConstructionParse(c) = ConstructionParse(txn[s])
    BY <2>3, CombinedShows
  <2> HIDE DEF c
  <2> QED
    BY <2>1, <2>2, <2>4 DEF SignedInv
<1>5. CASE ConstructionSubmit(s)
  BY <1>5, SignedKeeps DEF ConstructionSubmit, sessionVars
<1>6. CASE StartOver(s)
  BY <1>6, Callers, SignedKeeps DEF StartOver
<1> QED
  BY <1>1, <1>2, <1>3, <1>4, <1>5, <1>6

\* The other callers.
LEMMA OthersKeep ==
  ASSUME ConstructionInv, NEW s \in Sessions, NEW z \in Sessions, z # s, SignedInv(z),
         \/ ConstructionPreprocess(s) \/ ConstructionMetadata(s)
         \/ ConstructionPayloads(s) \/ ConstructionCombine(s)
         \/ ConstructionSubmit(s) \/ StartOver(s)
  PROVE  SignedInv(z)' /\ executed' = executed
<1>1. CASE ConstructionPreprocess(s)
  BY <1>1, Callers, SignedKeeps DEF ConstructionPreprocess, chainVars
<1>2. CASE ConstructionMetadata(s)
  BY <1>2, Callers, SignedKeeps DEF ConstructionMetadata, chainVars
<1>3. CASE ConstructionPayloads(s)
  BY <1>3, Callers, SignedKeeps DEF ConstructionPayloads, chainVars
<1>4. CASE ConstructionCombine(s)
  BY <1>4, Callers, SignedKeeps DEF ConstructionCombine, chainVars
<1>5. CASE ConstructionSubmit(s)
  BY <1>5, SignedKeeps DEF ConstructionSubmit, sessionVars
<1>6. CASE StartOver(s)
  BY <1>6, Callers, SignedKeeps DEF StartOver, chainVars
<1> QED
  BY <1>1, <1>2, <1>3, <1>4, <1>5, <1>6

LEMMA EffectStep ==
  ASSUME ConstructionInv, EffectInv, [Next]_vars
  PROVE  EffectInv'
<1> DEFINE Matches(e) == e.out.ok => /\ e.out.moves = EffectOf(e.txn).moves
                                     /\ e.out.made = EffectOf(e.txn).made
<1>1. ASSUME UNCHANGED sessionVars, NEW s \in Sessions
      PROVE  SignedInv(s)'
  BY <1>1, SignedKeeps DEF EffectInv, sessionVars
<1>2. CASE Include
  <2>1. PICK t \in pool : executed' = executed \cup {Executed(t, Height + 1, Result(t))}
    BY <1>2 DEF Include
  <2>2. PICK intent : FlowTxn(t, intent)
    BY PoolFacts
  <2>3. Result(t).ok => /\ Result(t).moves = EffectOf(t).moves
                        /\ Result(t).made = EffectOf(t).made
    <3>1. Result(t).ok => Result(t) = Outcome(t, Now)
      BY Effects DEF Result
    <3> QED
      BY <2>2, <3>1, OutcomeEffect
  <2>4. Matches(Executed(t, Height + 1, Result(t)))
    BY <2>3, ExecutedParts
  <2>5. \A e \in executed' : Matches(e)
    BY <2>1, <2>4 DEF EffectInv
  <2>6. UNCHANGED sessionVars
    BY <1>2 DEF Include
  <2> QED
    BY <1>1, <2>5, <2>6 DEF EffectInv
<1>3. CASE OtherBlock \/ RotateKey
  BY <1>1, <1>3 DEF OtherBlock, RotateKey, EffectInv
<1>4. ASSUME NEW s \in Sessions,
             \/ ConstructionPreprocess(s) \/ ConstructionMetadata(s)
             \/ ConstructionPayloads(s) \/ ConstructionCombine(s)
             \/ ConstructionSubmit(s) \/ StartOver(s)
      PROVE  EffectInv'
  <2>1. SignedInv(s)'
    BY <1>4, SignedStep DEF EffectInv
  <2>2. \A z \in Sessions : z # s => SignedInv(z)'
    BY <1>4, OthersKeep DEF EffectInv
  <2>3. executed' = executed
    BY <1>4 DEF ConstructionPreprocess, ConstructionMetadata, ConstructionPayloads,
                ConstructionCombine, ConstructionSubmit, StartOver, chainVars
  <2> QED
    BY <2>1, <2>2, <2>3 DEF EffectInv
<1>5. CASE UNCHANGED vars
  BY <1>1, <1>5 DEF vars, chainVars, EffectInv
<1> QED
  BY <1>2, <1>3, <1>4, <1>5 DEF Next
\* Only orders that create accounts have keys, and only those for contracts have
\* a contract.
LEMMA TransferIntent ==
  ASSUME NEW ops
  PROVE  transferIntent(ops).keys = <<>> /\ transferIntent(ops).contract = None
<1> DEFINE take == CHOOSE op \in ToSet(ops) : op.value < 0
           give == CHOOSE op \in ToSet(ops) : op.value > 0
           n == Uint64(give.value)
           v == ops[1].type = "proxy_transfer"
           w == ops[1].type = "proxy_transfer_inner"
<1>1. /\ transferIntent(ops) =
           [NoIntent EXCEPT !.sender = take.account, !.receiver = give.account,
                            !.amount = n, !.proxy = v, !.inner = w]
      /\ v \in BOOLEAN /\ w \in BOOLEAN
  BY DEF transferIntent
<1> HIDE DEF take, give, n, v, w
<1> QED
  BY <1>1 DEF NoIntent

LEMMA OtherKeys ==
  ASSUME NEW ops, NEW op
  PROVE  contractIntent(op).keys = <<>> /\ transferIntent(ops).keys = <<>>
<1>1. ASSUME NEW c, NEW v \in BOOLEAN
      PROVE  [NoIntent EXCEPT !.contract = c, !.update = v].keys = <<>>
  BY DEF NoIntent
<1>2. contractIntent(op).keys = <<>>
  <2>1. (op.type = "update_contract") \in BOOLEAN
    OBVIOUS
  <2> QED
    BY <1>1, <2>1, Zenon DEF contractIntent
<1> QED
  BY <1>2, TransferIntent

LEMMA OtherContracts ==
  ASSUME NEW ops
  PROVE  createIntent(ops).contract = None /\ transferIntent(ops).contract = None
<1> DEFINE ks == [i \in DOMAIN ops |-> ConvertRosettaPublicKey(ops[i].data)]
           v  == ops[1].type = "create_proxy_account"
<1>1. createIntent(ops) = [NoIntent EXCEPT !.keys = ks, !.proxy = v] /\ v \in BOOLEAN
  BY DEF createIntent
<1> HIDE DEF ks, v
<1>2. createIntent(ops).contract = None
  BY <1>1 DEF NoIntent
<1> QED
  BY <1>2, TransferIntent

\* The effect of a transaction that a caller has signed is what its order asks
\* for.
LEMMA EffectIsWanted ==
  ASSUME NEW ops, Operations(ops), NEW intent, intent = parseIntent(ops), intent # None,
         NEW t, NEW vetted, FlowTxn(t, vetted), ~isInner(t), BuiltFor(t, intent),
         SameOps(ConstructionParse(t), ops)
  PROVE  EffectOf(t).moves = Wanted(ops).moves /\ EffectOf(t).made = Wanted(ops).made
<1>1. /\ ops # <<>> /\ ops \in Seq(ToSet(ops))
      /\ \A op \in ToSet(ops) : op.type = ops[1].type
  BY IntentKinds DEF parseIntent, Operations
<1>2. ops[1] \in ToSet(ops)
  BY <1>1
<1>3. t.script \in {"basicTransfer", "proxyTransfer", "createAccount",
                    "createProxyAccount", "setContract"}
  BY DEF FlowTxn, Parameters
<1>4. ASSUME NEW x, NEW y, NEW n \in Nat, NEW type \in {"transfer", "proxy_transfer"},
             ConstructionParse(t) = transferOps(type, x, y, n)
      PROVE  Wanted(ops).moves = {<<x, -n>>, <<y, n>>} /\ Wanted(ops).made = <<>>
  <2> DEFINE take == Op(type, x, -n, None)
             give == Op(type, y, n, None)
  <2>1. /\ take.type = type /\ take.account = x /\ take.value = -n
        /\ give.type = type /\ give.account = y /\ give.value = n
    BY DEF Op
  <2>2. ConstructionParse(t) = <<take, give>>
    BY <1>4 DEF transferOps
  <2> HIDE DEF take, give
  <2>3. <<take, give>> \in Seq({take, give}) /\ ToSet(<<take, give>>) = {take, give}
    BY DEF ToSet
  <2>4. ToSet(ops) = {take, give}
    BY <1>1, <2>2, <2>3, SameSets
  <2>5. ops[1].type = type
    BY <1>2, <2>1, <2>4
  <2>6. Wanted(ops).made = <<>>
    BY <2>5 DEF Wanted, createTypes
  <2>7. Wanted(ops).moves = {<<op.account, op.value>> : op \in {take, give}}
    BY <1>1, <2>4, <2>5 DEF Wanted, transferTypes
  <2> QED
    BY <2>1, <2>6, <2>7
<1>5. CASE t.script = "basicTransfer"
  <2>1. ConstructionParse(t) = transferOps("transfer", t.payer, t.args.receiver, t.args.amount)
    BY <1>5 DEF ConstructionParse, decodeTransferOps, isInner
  <2>2. t.args.amount \in Nat
    BY <1>5 DEF FlowTxn
  <2> QED
    BY <1>4, <1>5, <2>1, <2>2 DEF EffectOf
<1>6. CASE t.script = "proxyTransfer"
  <2>1. ConstructionParse(t) =
          transferOps("proxy_transfer", t.args.sender, t.args.receiver, t.args.amount)
    BY <1>6 DEF ConstructionParse, decodeTransferOps, isInner
  <2>2. t.args.amount \in Nat
    BY <1>6 DEF FlowTxn
  <2> QED
    BY <1>4, <1>6, <2>1, <2>2 DEF EffectOf
<1>7. ASSUME ops[1].type \in createTypes \cup contractTypes
      PROVE  Wanted(ops).moves = {}
  BY <1>1, <1>7 DEF Wanted, createTypes, contractTypes, transferTypes
<1>8. ASSUME t.script \in {"createAccount", "createProxyAccount"}
      PROVE  /\ ops[1].type \in createTypes /\ intent = createIntent(ops)
             /\ t.script = "createProxyAccount" => Len(ops) = 1
             /\ \A i \in DOMAIN ops : ConvertRosettaPublicKey(ops[i].data).key = ops[i].data.key
             /\ intent.keys = [i \in DOMAIN ops |-> ConvertRosettaPublicKey(ops[i].data)]
  <2>1. intent.keys # <<>>
    BY <1>3, <1>8 DEF BuiltFor, scriptOf
  <2>2. /\ ops[1].type \in createTypes
        /\ ops[1].type = "create_proxy_account" => ~(Len(ops) > 1)
        /\ \A op \in ToSet(ops) : op.data # None /\ ConvertRosettaPublicKey(op.data) # None
        /\ intent = createIntent(ops)
    BY <2>1, IntentKinds, OtherKeys
  <2> DEFINE ks == [i \in DOMAIN ops |-> ConvertRosettaPublicKey(ops[i].data)]
             v  == ops[1].type = "create_proxy_account"
  <2>3. intent = [NoIntent EXCEPT !.keys = ks, !.proxy = v] /\ v \in BOOLEAN
    BY <2>2 DEF createIntent
  <2> HIDE DEF ks, v
  <2>4. intent.keys = ks /\ intent.proxy = v
    BY <2>3 DEF NoIntent
  <2>5. ASSUME t.script = "createProxyAccount"
        PROVE  Len(ops) = 1
    <3>1. intent.proxy
      BY <1>3, <2>1, <2>5 DEF BuiltFor, scriptOf
    <3>2. ~(Len(ops) > 1)
      BY <2>2, <2>4, <3>1 DEF v
    <3>3. Len(ops) \in Nat /\ Len(ops) # 0
      BY <1>1
    <3>4. \A n \in Nat : n # 0 /\ ~(n > 1) => n = 1
      OBVIOUS
    <3> QED
      BY <3>2, <3>3, <3>4, Zenon
  <2>6. ASSUME NEW i \in DOMAIN ops
        PROVE  ConvertRosettaPublicKey(ops[i].data).key = ops[i].data.key
    <3>1. ops[i] \in ToSet(ops)
      BY DEF ToSet
    <3>2. ops[i].data \in [fmt : STRING, key : Keys]
      BY <1>1, <2>2, <3>1 DEF Operations
    <3>3. ConvertRosettaPublicKey(ops[i].data) = [ops[i].data EXCEPT !.fmt = "flow"]
      BY <2>2, <3>1 DEF ConvertRosettaPublicKey
    <3> QED
      BY <3>2, <3>3
  <2> QED
    BY <2>2, <2>4, <2>5, <2>6 DEF ks
<1>9. CASE t.script = "createAccount"
  <2>1. t.args.keys = [i \in DOMAIN ops |-> ConvertRosettaPublicKey(ops[i].data)]
    BY <1>8, <1>9 DEF BuiltFor
  <2>2. accountsMade(t) = [i \in DOMAIN ops |-> ops[i].data.key]
    BY <1>8, <1>9, <2>1 DEF accountsMade
  <2>3. EffectOf(t).moves = {} /\ EffectOf(t).made = accountsMade(t)
    BY <1>9 DEF EffectOf
  <2> QED
    BY <1>7, <1>8, <1>9, <2>2, <2>3 DEF Wanted
<1>10. CASE t.script = "createProxyAccount"
  <2>1. Len(ops) = 1 /\ DOMAIN ops = 1..1
    BY <1>1, <1>8, <1>10
  <2>2. t.args.publicKey.key = ops[1].data.key
    BY <1>8, <1>10, <2>1 DEF BuiltFor
  <2>3. EffectOf(t).moves = {} /\ EffectOf(t).made = <<ops[1].data.key>>
    BY <1>10, <2>2 DEF EffectOf
  <2>4. Wanted(ops).made = [i \in 1..1 |-> ops[i].data.key]
    BY <1>8, <1>10, <2>1 DEF Wanted
  <2>5. [i \in 1..1 |-> ops[i].data.key] = <<ops[1].data.key>>
    OBVIOUS
  <2> QED
    BY <1>7, <1>8, <1>10, <2>3, <2>4, <2>5
<1>11. CASE t.script = "setContract"
  <2>1. ops[1].type \in contractTypes
    <3>1. intent.contract # None
      BY <1>11 DEF BuiltFor, scriptOf
    <3> QED
      BY <3>1, IntentKinds, OtherContracts
  <2>2. Wanted(ops).made = <<>>
    BY <2>1 DEF Wanted, contractTypes, createTypes
  <2>3. EffectOf(t).moves = {} /\ EffectOf(t).made = <<>>
    BY <1>11 DEF EffectOf
  <2> QED
    BY <1>7, <2>1, <2>2, <2>3
<1> QED
  BY <1>3, <1>5, <1>6, <1>9, <1>10, <1>11

\* EffectMatchesIntent: whatever payloads encodes, a caller that compares parse
\* with what it asked for signs only transactions whose scripts move the funds
\* and make the accounts of its order.
THEOREM EffectsAsOrdered == Spec => []EffectMatchesIntent
<1>1. Init => EffectInv
  BY DEF Init, EffectInv, SignedInv
<1>2. ConstructionInv /\ EffectInv /\ [Next]_vars => EffectInv'
  BY EffectStep
<1>3. ConstructionInv /\ EffectInv => EffectMatchesIntent
  <2> SUFFICES ASSUME ConstructionInv, EffectInv, NEW s \in Sessions, NEW e \in executed,
                      e.txn \in built[s], e.out.ok
               PROVE  [moves |-> e.out.moves, made |-> e.out.made] = Wanted(order[s].payloads)
    BY DEF EffectMatchesIntent
  <2> DEFINE t == e.txn
             intent == parseIntent(order[s].payloads)
             vetted == parseIntent(order[s].preprocess)
  <2>1. ~isInner(t)
    BY DEF ConstructionInv, ExecutedInv
  <2>2. TxnFor(t, vetted) /\ intent # None
    BY Callers DEF CallerInv
  <2>3. FlowTxn(t, vetted) /\ Operations(order[s].payloads)
    BY <2>1, <2>2, Callers, OrderFacts DEF TxnFor
  <2>4. BuiltFor(t, intent) /\ SameOps(ConstructionParse(t), order[s].payloads)
    BY DEF EffectInv, SignedInv
  <2>5. /\ EffectOf(t).moves = Wanted(order[s].payloads).moves
        /\ EffectOf(t).made = Wanted(order[s].payloads).made
    BY <2>1, <2>2, <2>3, <2>4, EffectIsWanted
  <2>6. e.out.moves = EffectOf(t).moves /\ e.out.made = EffectOf(t).made
    BY DEF EffectInv
  <2>7. Wanted(order[s].payloads) = [moves |-> Wanted(order[s].payloads).moves,
                                     made  |-> Wanted(order[s].payloads).made]
    BY DEF Wanted
  <2> QED
    BY <2>5, <2>6, <2>7
<1> QED
  BY <1>1, <1>2, <1>3, ConstructionInvariant, PTL DEF Spec
-----------------------------------------------------------------------------
(* FreshTransfersExecute: the history of the keys.                         *)

\* A proposal and a replacement change neither the key itself nor, a proposal,
\* whether it is in force.
LEMMA KeyFields ==
  ASSUME NEW k \in KeyStates
  PROVE  /\ Advanced(k).key = k.key /\ Advanced(k).revoked = k.revoked
         /\ Revoked(k).key = k.key
<1>1. \A v \in BOOLEAN : [k EXCEPT !.revoked = v].key = k.key
  BY DEF KeyStates
<1>2. Advanced(k).key = k.key /\ Advanced(k).revoked = k.revoked
  BY DEF Advanced, KeyStates
<1> QED
  BY <1>1, <1>2 DEF Revoked

LEMMA UsedKeys ==
  ASSUME NEW st \in States, NEW i \in 1..Len(st.keys), LastInForce(st)
  PROVE  KeysKept(st, Used(st, i)) /\ LastInForce(Used(st, i))
<1> DEFINE ks == [st.keys EXCEPT ![i] = Advanced(@)]
<1>1. st.keys \in Seq(KeyStates) /\ Len(st.keys) \in Nat
  BY DEF States
<1>2. DOMAIN st.keys = 1..Len(st.keys) /\ \A j \in 1..Len(st.keys) : st.keys[j] \in KeyStates
  BY <1>1
<1>3. /\ DOMAIN ks = 1..Len(st.keys)
      /\ \A j \in 1..Len(st.keys) : ks[j] = IF j = i THEN Advanced(st.keys[j]) ELSE st.keys[j]
  BY <1>2
<1>4. Used(st, i).keys = ks /\ Len(Used(st, i).keys) = Len(st.keys)
  BY UsedState DEF Used
<1> HIDE DEF ks
<1>5. \A j \in 1..Len(st.keys) : ks[j].key = st.keys[j].key /\ ks[j].revoked = st.keys[j].revoked
  BY <1>2, <1>3, KeyFields
<1>6. KeysKept(st, Used(st, i))
  BY <1>1, <1>2, <1>4, <1>5 DEF KeysKept
<1>7. LastInForce(Used(st, i))
  BY <1>2, <1>3, <1>4, <1>5 DEF LastInForce, InForce
<1> QED
  BY <1>6, <1>7

LEMMA RotatedKeys ==
  ASSUME NEW st \in States, Len(st.keys) >= 1, NEW k \in Keys
  PROVE  KeysKept(st, Rotated(st, k)) /\ LastInForce(Rotated(st, k))
<1> DEFINE n  == Len(st.keys)
           ls == [st.keys EXCEPT ![n] = Revoked(@)]
           ks == Append(ls, NewKey(k))
<1>1. /\ st.keys \in Seq(KeyStates) /\ n \in Nat /\ n \in 1..n
      /\ DOMAIN st.keys = 1..n /\ \A j \in 1..n : st.keys[j] \in KeyStates
  BY DEF States
<1>2. Revoked(st.keys[n]) \in KeyStates
  BY <1>1, RevokedKey
<1>3. /\ ls \in Seq(KeyStates) /\ Len(ls) = n
      /\ \A j \in 1..n : ls[j] = IF j = n THEN Revoked(st.keys[j]) ELSE st.keys[j]
  BY <1>1, <1>2
<1>4. NewKey(k) \in KeyStates
  BY FreshKey
<1> HIDE DEF ls
<1>5. /\ DOMAIN ks = 1..(n + 1) /\ Len(ks) = n + 1
      /\ \A j \in 1..n : ks[j] = ls[j]
      /\ ks[n + 1] = NewKey(k)
  BY <1>1, <1>3, <1>4
<1>6. Rotated(st, k).keys = ks
  BY DEF Rotated, ls
<1> HIDE DEF ks
<1>7. ASSUME NEW j \in 1..n
      PROVE  ks[j].key = st.keys[j].key
  <2>1. st.keys[j] \in KeyStates /\ ks[j] = ls[j]
    BY <1>1, <1>5
  <2>2. ls[j] = Revoked(st.keys[j]) \/ ls[j] = st.keys[j]
    BY <1>3
  <2> QED
    BY <2>1, <2>2, KeyFields
<1>8. KeysKept(st, Rotated(st, k))
  BY <1>1, <1>5, <1>6, <1>7 DEF KeysKept
<1>9. ~NewKey(k).revoked
  BY DEF NewKey
<1>10. LastInForce(Rotated(st, k))
  BY <1>1, <1>5, <1>6, <1>9 DEF LastInForce, InForce
<1> QED
  BY <1>8, <1>10

\* Keys that are kept twice are kept.
LEMMA KeptTwice ==
  ASSUME NEW a \in States, NEW b \in States, NEW c \in States,
         KeysKept(a, b), KeysKept(b, c)
  PROVE  KeysKept(a, c)
<1>1. /\ Len(a.keys) \in Nat /\ Len(b.keys) \in Nat /\ Len(c.keys) \in Nat
      /\ DOMAIN a.keys = 1..Len(a.keys) /\ DOMAIN b.keys = 1..Len(b.keys)
  BY DEF States
<1>2. DOMAIN a.keys \subseteq DOMAIN b.keys
  BY <1>1 DEF KeysKept
<1> QED
  BY <1>1, <1>2 DEF KeysKept

\* Each block keeps the keys.
LEMMA BlockKeys ==
  ASSUME NEW t, NEW intent, FlowTxn(t, intent), keyOf(intent) \in Nat,
         Now \in States, Len(Now.keys) >= 1, LastInForce(Now)
  PROVE  /\ KeysKept(Now, After(t, Charged(t), Result(t)))
         /\ LastInForce(After(t, Charged(t), Result(t)))
<1> DEFINE out == Result(t)
           st  == Charged(t)
           new == After(t, st, out)
<1>1. Len(Now.keys) \in Nat /\ DOMAIN Now.keys = 1..Len(Now.keys)
  BY DEF States
<1>2. /\ st \in States /\ Len(st.keys) >= 1
      /\ KeysKept(Now, st) /\ LastInForce(st)
  <2>1. CASE Proposes(t, Now)
    <3>1. st = Used(Now, t.keyId + 1) /\ t.keyId + 1 \in 1..Len(Now.keys)
      BY <1>1, <2>1 DEF Charged, Proposes
    <3> HIDE DEF st
    <3> QED
      BY <3>1, UsedState, UsedKeys
  <2>2. CASE ~Proposes(t, Now)
    <3>1. st = Now
      BY <2>2 DEF Charged
    <3> HIDE DEF st
    <3> QED
      BY <1>1, <3>1 DEF KeysKept
  <2> QED
    BY <2>1, <2>2
<1>3. out.ok \in BOOLEAN
  BY IncludeFacts
<1>4. new \in States
  BY <1>2, <1>3, AfterFacts
<1> HIDE DEF out, st
<1>5. KeysKept(st, new) /\ LastInForce(new)
  <2>1. CASE out.ok /\ t.script = "proxyTransfer"
    <3>1. new = [st EXCEPT !.nonce = st.nonce + 1]
      BY <2>1 DEF After, nextNonce
    <3>2. new.keys = st.keys
      BY <1>2, <3>1 DEF States
    <3>3. Len(st.keys) \in Nat
      BY <1>2 DEF States
    <3> QED
      BY <1>2, <3>2, <3>3 DEF KeysKept, LastInForce
  <2>2. CASE out.ok /\ t.script = "setContract"
    <3> DEFINE k == t.args.contract.new_key.key
    <3>1. new = Rotated(st, k)
      BY <2>2 DEF After
    <3>2. k \in Keys
      BY <2>2 DEF FlowTxn
    <3> HIDE DEF k, new
    <3> QED
      BY <1>2, <3>1, <3>2, RotatedKeys
  <2>3. CASE ~(out.ok /\ t.script = "proxyTransfer") /\ ~(out.ok /\ t.script = "setContract")
    <3>1. new = st
      BY <2>3 DEF After
    <3>2. Len(st.keys) \in Nat
      BY <1>2 DEF States
    <3> QED
      BY <1>2, <3>1, <3>2 DEF KeysKept
  <2> QED
    BY <2>1, <2>2, <2>3
<1> HIDE DEF new
<1>6. KeysKept(Now, new)
  BY <1>2, <1>4, <1>5, KeptTwice
<1> QED
  BY <1>5, <1>6 DEF new, st, out

\* The chain grows.
Longer ==
  /\ Height \in Nat /\ Height' \in Nat /\ Height <= Height'
  /\ \A h \in 1..Height : ledger'[h] = ledger[h]

LEMMA HistoryStep ==
  ASSUME ChainInv, HistoryInv, Height < MaxHeight, NEW st, Follows(Now, st),
         KeysKept(Now, st), LastInForce(st), ledger' = Append(ledger, st)
  PROVE  HistoryInv' /\ Longer
<1>1. ledger \in Seq(States) /\ Height \in 1..MaxHeight /\ Height \in Nat /\ MaxHeight \in Nat
  BY ConstructionAssumption DEF ChainInv, Height
<1>2. st \in States
  BY DEF Follows
<1>3. /\ Height' = Height + 1 /\ ledger'[Height + 1] = st
      /\ \A h \in 1..Height : ledger'[h] = ledger[h]
  BY <1>1, <1>2 DEF Height
<1>4. \A h \in 1..Height' : h \in 1..Height \/ h = Height + 1
  BY <1>1, <1>3
<1>5. \A h \in 1..Height' : LastInForce(ledger'[h])
  BY <1>3, <1>4 DEF HistoryInv
<1>6. \A h \in 1..Height : ledger[h] \in States
  BY <1>1 DEF Height
<1>7. Height \in 1..Height /\ ledger[Height] = Now
  BY <1>1 DEF Now
<1>8. ASSUME NEW g \in 1..Height', NEW h \in 1..Height', g <= h
      PROVE  KeysKept(ledger'[g], ledger'[h])
  <2>1. CASE h \in 1..Height
    <3>1. g \in 1..Height
      BY <1>1, <1>8, <2>1
    <3> QED
      BY <1>3, <1>8, <2>1, <3>1 DEF HistoryInv
  <2>2. CASE h = Height + 1 /\ g \in 1..Height
    <3>1. KeysKept(ledger[g], Now)
      BY <1>1, <1>7, <2>2 DEF HistoryInv
    <3>2. KeysKept(ledger[g], st)
      BY <1>2, <1>6, <1>7, <2>2, <3>1, KeptTwice
    <3> QED
      BY <1>3, <2>2, <3>2
  <2>3. CASE h = Height + 1 /\ g = Height + 1
    <3>1. Len(st.keys) \in Nat
      BY <1>2 DEF States
    <3> QED
      BY <1>3, <2>3, <3>1 DEF KeysKept
  <2> QED
    BY <1>4, <2>1, <2>2, <2>3
<1>9. Height' \in Nat /\ Height <= Height'
  BY <1>1, <1>3
<1> QED
  BY <1>1, <1>3, <1>5, <1>8, <1>9 DEF HistoryInv, Longer, LastInForce, KeysKept, InForce
\* What was looked up and signed stays so.
LEMMA LookedUpStays ==
  ASSUME Longer, NEW o, o.ref \in 1..Height, LookedUp(o)
  PROVE  LookedUp(o)'
BY DEF LookedUp, Longer

LEMMA SignedStays ==
  ASSUME Longer, NEW t, NEW h \in 1..Height, SignedBy(t, h),
         NEW j \in 1..Height', h <= j
  PROVE  SignedBy(t, j)'
<1>1. PICK g \in 1..h : /\ g >= t.ref
                        /\ t.sig = Sign(Last(ledger[g].keys).key, TransactionEnvelopeHash(t))
  BY DEF SignedBy
<1>2. g \in 1..Height /\ g \in 1..j
  BY DEF Longer
<1>3. ledger'[g] = ledger[g]
  BY <1>2 DEF Longer
<1> QED
  BY <1>1, <1>2, <1>3 DEF SignedBy

\* The reference block of what a caller holds is on the chain, if there is one.
LEMMA References ==
  ASSUME NEW s \in Sessions, CallerInv(s), Height \in Nat
  PROVE  /\ stage[s] \in {"metadata", "payloads"} =>
              opts[s].ref = 0 \/ opts[s].ref \in 1..Height
         /\ stage[s] \in {"combine", "submit"} /\ ~isInner(txn[s]) =>
              txn[s].ref = 0 \/ txn[s].ref \in 1..Height
BY DEF CallerInv, OptsFor, TxnFor, FlowTxn

\* A caller that takes no step while the chain may grow and others sign.
LEMMA FreshKeeps ==
  ASSUME Longer, Height \in 1..Height, NEW s \in Sessions, CallerInv(s), FreshInv(s),
         Inners \subseteq Inners',
         order'[s] = order[s], stage'[s] = stage[s], pin'[s] = pin[s],
         opts'[s] = opts[s], txn'[s] = txn[s], built'[s] = built[s]
  PROVE  FreshInv(s)'
<1> DEFINE intent == parseIntent(order[s].payloads)
<1>0. Height \in Nat /\ Height' \in 1..Height' /\ Height <= Height'
  BY DEF Longer
<1>1. stage'[s] \notin {"preprocess", "refused"} => opts'[s].payload \in Inners' \cup {None}
  BY DEF FreshInv
<1>2. ASSUME stage'[s] = "payloads", pin'[s] = -1
      PROVE  opts[s].ref = 0 \/ LookedUp(opts[s])'
  <2>1. opts[s].ref = 0 \/ (LookedUp(opts[s]) /\ opts[s].ref \in 1..Height)
    BY <1>0, <1>2, References DEF FreshInv
  <2>2. PICK o : o = opts[s]
    OBVIOUS
  <2>3. o.ref = 0 \/ LookedUp(o)'
    BY <2>1, <2>2, LookedUpStays
  <2> QED
    BY <2>2, <2>3
<1>3. ASSUME stage[s] \in {"combine", "submit"}, ~isInner(txn[s])
      PROVE  /\ txn[s].args = argsOf(intent, opts[s].payload)
             /\ NeedsPayload(intent) => opts[s].payload # None
             /\ pin[s] = -1 => txn[s].ref = 0 \/ LookedUp(txn[s])
  BY <1>3 DEF FreshInv
<1>4. ASSUME stage'[s] \in {"combine", "submit"}, ~isInner(txn'[s]), pin'[s] = -1
      PROVE  txn[s].ref = 0 \/ LookedUp(txn[s])'
  <2>1. txn[s].ref = 0 \/ (LookedUp(txn[s]) /\ txn[s].ref \in 1..Height)
    BY <1>0, <1>3, <1>4, References
  <2>2. PICK t : t = txn[s]
    OBVIOUS
  <2>3. t.ref = 0 \/ LookedUp(t)'
    BY <2>1, <2>2, LookedUpStays
  <2> QED
    BY <2>2, <2>3
<1>5. ASSUME NEW t \in built'[s]
      PROVE  IF isInner(t) THEN t.sig = Sign(ColdKey, innerHash(t)) ELSE SignedBy(t, Height)'
  <2>1. CASE isInner(t)
    BY <2>1 DEF FreshInv
  <2>2. CASE ~isInner(t)
    <3>1. SignedBy(t, Height)
      BY <2>2 DEF FreshInv
    <3> QED
      BY <1>0, <2>2, <3>1, SignedStays
  <2> QED
    BY <2>1, <2>2
<1>6. stage'[s] = "metadata" => opts'[s].ref = 0
  BY DEF FreshInv
<1> QED
  BY <1>1, <1>2, <1>3, <1>4, <1>5, <1>6 DEF FreshInv
\* metadata looks up the key and the sequence number at the reference block.
LEMMA FlowLooksUp ==
  ASSUME ChainInv, NEW intent, keyOf(intent) \in Nat, NEW o, OptsFor(o, intent),
         NEW h \in 1..Height, NEW latest \in 1..Height,
         NEW m, m = flowMetadata(o, h, latest), m # None
  PROVE  m.payload = o.payload /\ (o.seq = -1 => LookedUp(m))
<1> DEFINE height == metadataHeight(h, latest)
           keys   == ledger[height].keys
           fees   == o.effort + o.newAccounts * MinimumAccountBalance
           remote == h > latest
           seq    == IF o.seq = -1 THEN keys[o.keyId + 1].seq ELSE o.seq
<1>1. keyIsValid(o, keys)
  BY DEF flowMetadata
<1>2. m = [o EXCEPT !.seq = seq, !.ref = height, !.remote = remote, !.fees = fees]
  BY <1>1 DEF flowMetadata
<1>3. o.seq = -1 => seq = keys[o.keyId + 1].seq
  OBVIOUS
<1>4. remote \in BOOLEAN
  OBVIOUS
<1> HIDE DEF seq, height, remote, fees
<1>5. m.payload = o.payload /\ m.keyId = o.keyId /\ m.seq = seq /\ m.ref = height
  BY <1>2, <1>4 DEF OptsFor, HasFields, optsFields
<1>6. o.seq = -1 => o.keyId + 1 \in InForce(keys) /\ Cardinality(InForce(keys)) = 1
  BY <1>1 DEF keyIsValid
<1> QED
  BY <1>3, <1>5, <1>6 DEF LookedUp

\* What a signature covers.
LEMMA CombinedSigned ==
  ASSUME NEW intent, NEW t, TxnFor(t, intent), Height \in Nat, Height >= 1
  PROVE  /\ isInner(t) => combined(t).sig = Sign(ColdKey, innerHash(combined(t)))
         /\ ~isInner(t) => /\ combined(t).args = t.args /\ combined(t).keyId = t.keyId
                           /\ combined(t).seq = t.seq /\ combined(t).ref = t.ref
                           /\ SignedBy(combined(t), Height)
<1> DEFINE sig == IF isInner(t) THEN Sign(ColdKey, innerHash(t))
                  ELSE Sign(Last(Now.keys).key, TransactionEnvelopeHash(t))
           c   == combined(t)
<1>1. c = [t EXCEPT !.sig = sig]
  BY DEF combined
<1>2. /\ isInner(t) => sig = Sign(ColdKey, innerHash(t))
      /\ ~isInner(t) => sig = Sign(Last(Now.keys).key, TransactionEnvelopeHash(t))
  OBVIOUS
<1> HIDE DEF sig, c
<1>3. CASE isInner(t)
  <2>1. HasFields(t, innerFields)
    BY <1>3 DEF TxnFor
  <2>2. /\ c.sig = sig /\ c.receiver = t.receiver /\ c.amount = t.amount
        /\ c.nonce = t.nonce
    BY <1>1, <2>1 DEF HasFields, innerFields
  <2>3. innerHash(c) = innerHash(t)
    BY <2>2 DEF innerHash
  <2> QED
    BY <1>2, <1>3, <2>2, <2>3 DEF c
<1>4. CASE ~isInner(t)
  <2>1. HasFields(t, flowFields) /\ t.ref \in 0..Height
    BY <1>4 DEF TxnFor, FlowTxn
  <2>2. /\ c.args = t.args /\ c.keyId = t.keyId /\ c.seq = t.seq /\ c.ref = t.ref
        /\ c.sig = sig
    BY <1>1, <2>1 DEF HasFields, flowFields
  <2>3. TransactionEnvelopeHash(c) = TransactionEnvelopeHash(t)
    BY <1>1, <2>1 DEF TransactionEnvelopeHash, HasFields, flowFields
  <2>4. Height \in 1..Height /\ Height >= c.ref
    BY <2>1, <2>2
  <2>5. c.sig = Sign(Last(ledger[Height].keys).key, TransactionEnvelopeHash(c))
    BY <1>2, <1>4, <2>2, <2>3 DEF Now
  <2>6. SignedBy(c, Height)
    BY <2>4, <2>5 DEF SignedBy
  <2> QED
    BY <1>4, <2>2, <2>6 DEF c
<1> QED
  BY <1>3, <1>4
\* A step of a caller: chain and executions stay, and so do signed transactions.
LEMMA CallerStep ==
  ASSUME ConstructionInv, NEW s \in Sessions,
         \/ ConstructionPreprocess(s) \/ ConstructionMetadata(s)
         \/ ConstructionPayloads(s) \/ ConstructionCombine(s)
         \/ ConstructionSubmit(s) \/ StartOver(s)
  PROVE  /\ UNCHANGED <<ledger, executed>> /\ Longer /\ Height' = Height
         /\ Inners \subseteq Inners'
         /\ \A z \in Sessions : z # s =>
              /\ order'[z] = order[z] /\ stage'[z] = stage[z] /\ pin'[z] = pin[z]
              /\ opts'[z] = opts[z] /\ txn'[z] = txn[z] /\ built'[z] = built[z]
<1>1. UNCHANGED <<ledger, executed>>
  BY DEF ConstructionPreprocess, ConstructionMetadata, ConstructionPayloads,
         ConstructionCombine, ConstructionSubmit, StartOver, chainVars
<1>2. Longer /\ Height' = Height
  BY <1>1, NowFacts DEF Longer, Height, ConstructionInv
<1>3. CASE ConstructionPreprocess(s)
  BY <1>1, <1>2, <1>3, Callers DEF ConstructionPreprocess, Inners
<1>4. CASE ConstructionMetadata(s)
  BY <1>1, <1>2, <1>4, Callers DEF ConstructionMetadata, Inners
<1>5. CASE ConstructionPayloads(s)
  BY <1>1, <1>2, <1>5, Callers DEF ConstructionPayloads, Inners
<1>6. CASE ConstructionCombine(s)
  <2>1. \A z \in Sessions : built[z] \subseteq built'[z]
    BY <1>6, Callers DEF ConstructionCombine
  <2>2. Inners \subseteq Inners'
    BY <2>1 DEF Inners
  <2> QED
    BY <1>1, <1>2, <1>6, <2>2, Callers DEF ConstructionCombine
<1>7. CASE ConstructionSubmit(s)
  BY <1>1, <1>2, <1>7 DEF ConstructionSubmit, sessionVars, Inners
<1>8. CASE StartOver(s)
  <2>1. /\ \E n : pin' = [pin EXCEPT ![s] = n]
        /\ stage' = [stage EXCEPT ![s] = "preprocess"]
        /\ opts' = [opts EXCEPT ![s] = None] /\ txn' = [txn EXCEPT ![s] = None]
        /\ order' = order /\ built' = built
    BY <1>8 DEF StartOver
  <2> QED
    BY <1>1, <1>2, <2>1, Callers DEF Inners
<1> QED
  BY <1>3, <1>4, <1>5, <1>6, <1>7, <1>8

\* The transactions that a caller has signed already.
LEMMA BuiltKeeps ==
  ASSUME NEW s \in Sessions, FreshInv(s), UNCHANGED ledger, NEW t \in built[s]
  PROVE  IF isInner(t) THEN t.sig = Sign(ColdKey, innerHash(t)) ELSE SignedBy(t, Height)'
BY DEF FreshInv, SignedBy, Height

LEMMA FreshPreprocess ==
  ASSUME ConstructionInv, NEW s \in Sessions, FreshInv(s), ConstructionPreprocess(s)
  PROVE  FreshInv(s)'
<1>1. UNCHANGED ledger /\ Inners \subseteq Inners' /\ built'[s] = built[s]
  BY CallerStep DEF ConstructionPreprocess
<1>2. \/ stage'[s] = "refused"
      \/ /\ stage'[s] = "metadata"
         /\ \E intent : \E payload \in Inners \cup {None} :
              opts'[s] = preprocessOpts(intent, payload, pin[s])
  BY Callers DEF ConstructionPreprocess
<1>3. \A intent, payload, seq :
        /\ preprocessOpts(intent, payload, seq).payload = payload
        /\ preprocessOpts(intent, payload, seq).ref = 0
  BY DEF preprocessOpts
<1>4. stage'[s] = "metadata" => opts'[s].payload \in Inners' \cup {None} /\ opts'[s].ref = 0
  BY <1>1, <1>2, <1>3
<1>5. stage'[s] \in {"refused", "metadata"}
  BY <1>2
<1> QED
  BY <1>1, <1>4, <1>5, BuiltKeeps DEF FreshInv

LEMMA FreshMetadata ==
  ASSUME ConstructionInv, NEW s \in Sessions, FreshInv(s), ConstructionMetadata(s)
  PROVE  FreshInv(s)'
<1> DEFINE o == opts[s]
           vetted == parseIntent(order[s].preprocess)
<1>1. /\ UNCHANGED ledger /\ Inners \subseteq Inners' /\ built'[s] = built[s]
      /\ stage[s] = "metadata" /\ stage'[s] = "payloads" /\ order'[s] = order[s]
      /\ pin'[s] = pin[s]
  BY CallerStep, Callers DEF ConstructionMetadata
<1>2. PICK h \in 1..Height, latest \in 1..Height :
        LET m == IF o.inner THEN innerMetadata(o, h) ELSE flowMetadata(o, h, latest)
        IN  m # None /\ opts'[s] = m
  BY Callers DEF ConstructionMetadata
<1>3. PICK m : /\ m = IF o.inner THEN innerMetadata(o, h) ELSE flowMetadata(o, h, latest)
               /\ m # None /\ opts'[s] = m
  BY <1>2
<1>4. OptsFor(o, vetted) /\ o.seq = pin[s] /\ keyOf(vetted) \in Nat
  BY <1>1, Callers, OrderFacts DEF CallerInv
<1>5. o.ref = 0 /\ o.payload \in Inners \cup {None}
  BY <1>1 DEF FreshInv
<1> HIDE DEF o, vetted
<1>6. m.payload = o.payload /\ (pin[s] = -1 => m.ref = 0 \/ LookedUp(m))
  <2>1. CASE o.inner
    BY <1>3, <1>4, <1>5, <2>1, Callers, InnerMetadata
  <2>2. CASE ~o.inner
    BY <1>3, <1>4, <2>2, Callers, FlowLooksUp
  <2> QED
    BY <2>1, <2>2
<1>7. LookedUp(m)' <=> LookedUp(m)
  BY <1>1 DEF LookedUp
<1> QED
  BY <1>1, <1>3, <1>5, <1>6, <1>7, BuiltKeeps DEF FreshInv

LEMMA FreshPayloads ==
  ASSUME ConstructionInv, NEW s \in Sessions, FreshInv(s), ConstructionPayloads(s)
  PROVE  FreshInv(s)'
<1> DEFINE intent == parseIntent(order[s].payloads)
<1>1. /\ UNCHANGED ledger /\ Inners \subseteq Inners' /\ built'[s] = built[s]
      /\ stage[s] = "payloads" /\ stage'[s] \in {"refused", "combine"}
      /\ order'[s] = order[s] /\ pin'[s] = pin[s] /\ opts'[s] = opts[s]
  BY CallerStep, Callers DEF ConstructionPayloads
<1>2. opts[s].payload \in Inners' \cup {None}
  BY <1>1 DEF FreshInv
<1>3. CASE stage'[s] = "refused"
  BY <1>1, <1>3, BuiltKeeps DEF FreshInv
<1>4. CASE stage'[s] = "combine"
  <2>1. PICK t : txn'[s] = t /\ t = unsigned(intent, opts[s])
    BY <1>4, Callers DEF ConstructionPayloads
  <2>2. ~unpayable(intent, opts[s])
    BY <1>4, Callers DEF ConstructionPayloads
  <2>3. intent # None /\ (NeedsPayload(intent) => opts[s].payload # None)
    BY <2>2 DEF unpayable
  <2>4. intent.inner \in BOOLEAN
    BY <1>1, <2>3, Callers, OrderFacts, IntentFacts
  <2>5. CASE intent.inner
    <3>1. isInner(t)
      BY <2>1, <2>5 DEF unsigned, isInner
    <3> QED
      BY <1>1, <1>2, <1>4, <2>1, <3>1, BuiltKeeps DEF FreshInv
  <2>6. CASE ~intent.inner
    <3>1. /\ t.args = argsOf(intent, opts[s].payload)
          /\ t.keyId = opts[s].keyId /\ t.seq = opts[s].seq /\ t.ref = opts[s].ref
      BY <2>1, <2>6 DEF unsigned
    <3>2. pin[s] = -1 => opts[s].ref = 0 \/ LookedUp(opts[s])
      BY <1>1 DEF FreshInv
    <3>3. pin[s] = -1 => t.ref = 0 \/ LookedUp(t)'
      BY <1>1, <3>1, <3>2 DEF LookedUp
    <3> QED
      BY <1>1, <1>2, <1>4, <2>1, <2>3, <3>1, <3>3, BuiltKeeps DEF FreshInv
  <2> QED
    BY <2>4, <2>5, <2>6
<1> QED
  BY <1>1, <1>3, <1>4

LEMMA FreshCombine ==
  ASSUME ConstructionInv, NEW s \in Sessions, FreshInv(s), ConstructionCombine(s)
  PROVE  FreshInv(s)'
<1> DEFINE intent == parseIntent(order[s].payloads)
           vetted == parseIntent(order[s].preprocess)
<1>1. /\ UNCHANGED ledger /\ Inners \subseteq Inners' /\ Height' = Height
      /\ stage[s] = "combine" /\ order'[s] = order[s] /\ pin'[s] = pin[s]
      /\ opts'[s] = opts[s]
  BY CallerStep, Callers DEF ConstructionCombine
<1>2. PICK c : c = combined(txn[s])
  OBVIOUS
<1>3. \/ stage'[s] = "refused" /\ built'[s] = built[s]
      \/ stage'[s] = "submit" /\ txn'[s] = c /\ built'[s] = built[s] \cup {c}
  BY <1>2, Callers DEF ConstructionCombine
<1>4. TxnFor(txn[s], vetted) /\ Height \in Nat /\ Height >= 1
  BY <1>1, Callers, NowFacts DEF CallerInv
<1>5. /\ c.script = txn[s].script
      /\ isInner(txn[s]) => c.sig = Sign(ColdKey, innerHash(c))
      /\ ~isInner(txn[s]) => /\ c.args = txn[s].args /\ c.keyId = txn[s].keyId
                             /\ c.seq = txn[s].seq /\ c.ref = txn[s].ref
                             /\ SignedBy(c, Height)
  BY <1>2, <1>4, Combined, CombinedSigned
<1>6. IF isInner(c) THEN c.sig = Sign(ColdKey, innerHash(c)) ELSE SignedBy(c, Height)'
  BY <1>1, <1>5 DEF isInner, SignedBy
<1>7. ~isInner(c) => /\ c.args = argsOf(intent, opts[s].payload)
                     /\ NeedsPayload(intent) => opts[s].payload # None
                     /\ pin[s] = -1 => c.ref = 0 \/ LookedUp(c)'
  BY <1>1, <1>5 DEF FreshInv, LookedUp, isInner
<1>8. opts[s].payload \in Inners' \cup {None}
  BY <1>1 DEF FreshInv
<1>9. \A t \in built'[s] :
        IF isInner(t) THEN t.sig = Sign(ColdKey, innerHash(t)) ELSE SignedBy(t, Height)'
  BY <1>1, <1>3, <1>6, BuiltKeeps
<1> QED
  BY <1>1, <1>3, <1>7, <1>8, <1>9 DEF FreshInv

LEMMA FreshStep ==
  ASSUME ConstructionInv, NEW s \in Sessions, \A z \in Sessions : FreshInv(z),
         \/ ConstructionPreprocess(s) \/ ConstructionMetadata(s)
         \/ ConstructionPayloads(s) \/ ConstructionCombine(s)
         \/ ConstructionSubmit(s) \/ StartOver(s)
  PROVE  \A z \in Sessions : FreshInv(z)'
<1>1. Height \in 1..Height
  BY Callers, NowFacts
<1>2. ASSUME NEW z \in Sessions, z # s
      PROVE  FreshInv(z)'
  BY <1>1, <1>2, CallerStep, Callers, FreshKeeps
<1>3. FreshInv(s)'
  <2>1. CASE ConstructionSubmit(s)
    BY <1>1, <2>1, CallerStep, Callers, FreshKeeps DEF ConstructionSubmit, sessionVars
  <2>2. CASE StartOver(s)
    <3>1. stage'[s] = "preprocess" /\ built'[s] = built[s] /\ UNCHANGED ledger
      BY <2>2, CallerStep, Callers DEF StartOver
    <3> QED
      BY <3>1, BuiltKeeps DEF FreshInv
  <2> QED
    BY <2>1, <2>2, FreshPreprocess, FreshMetadata, FreshPayloads, FreshCombine
<1> QED
  BY <1>2, <1>3
\* An execution that is on the chain.
LEMMA OutcomeStays ==
  ASSUME Longer, NEW e, OutcomeInv(e)
  PROVE  OutcomeInv(e)'
<1>1. e.at \in 2..Height /\ SignedBy(e.txn, e.at - 1)
  BY DEF OutcomeInv
<1>2. e.at - 1 \in 1..Height /\ e.at - 1 \in 1..Height' /\ e.at \in 2..Height'
  BY <1>1 DEF Longer
<1>3. SignedBy(e.txn, e.at - 1)'
  BY <1>1, <1>2, SignedStays
<1>4. ledger'[e.at - 1] = ledger[e.at - 1]
  BY <1>2 DEF Longer
<1> QED
  BY <1>2, <1>3, <1>4 DEF OutcomeInv, Proposes

\* A block.
LEMMA ExecutionBlock ==
  ASSUME ConstructionInv, ExecutionInv, UNCHANGED sessionVars, HistoryInv', Longer
  PROVE  /\ \A s \in Sessions : FreshInv(s)'
         /\ \A e \in executed : OutcomeInv(e)'
<1>1. Height \in 1..Height
  BY NowFacts DEF ConstructionInv
<1>2. Inners \subseteq Inners'
  BY DEF Inners, sessionVars
<1>3. ASSUME NEW s \in Sessions
      PROVE  FreshInv(s)'
  BY <1>1, <1>2, Callers, FreshKeeps DEF ExecutionInv, sessionVars
<1>4. ASSUME NEW e \in executed
      PROVE  OutcomeInv(e)'
  BY OutcomeStays DEF ExecutionInv
<1> QED
  BY <1>3, <1>4

LEMMA ExecutionStep ==
  ASSUME ConstructionInv, ExecutionInv, [Next]_vars
  PROVE  ExecutionInv'
<1>1. /\ ChainInv /\ HistoryInv /\ Now \in States /\ Len(Now.keys) >= 1
      /\ Height \in Nat /\ Height \in 1..Height /\ LastInForce(Now)
  BY NowFacts DEF ConstructionInv, ExecutionInv, HistoryInv, Now
<1>2. CASE Include
  <2>1. PICK t \in pool :
          /\ Includable(t, Height + 1)
          /\ ledger' = Append(ledger, After(t, Charged(t), Result(t)))
          /\ executed' = executed \cup {Executed(t, Height + 1, Result(t))}
    BY <1>2 DEF Include
  <2>2. Height < MaxHeight /\ UNCHANGED sessionVars
    BY <1>2 DEF Include
  <2>3. PICK intent : FlowTxn(t, intent) /\ keyOf(intent) \in Nat
    BY PoolFacts
  <2> DEFINE st == After(t, Charged(t), Result(t))
  <2>4. Follows(Now, st) /\ KeysKept(Now, st) /\ LastInForce(st)
    BY <1>1, <2>3, IncludeFacts, BlockKeys
  <2> HIDE DEF st
  <2>5. HistoryInv' /\ Longer
    BY <1>1, <2>1, <2>2, <2>4, HistoryStep DEF st
  <2>6. Height' = Height + 1
    BY <1>1, <2>1, <2>2, <2>4, AppendBlock DEF st
  <2>7. /\ \A s \in Sessions : FreshInv(s)'
        /\ \A e \in executed : OutcomeInv(e)'
    BY <2>2, <2>5, ExecutionBlock
  <2>8. PICK e : /\ e.txn = t /\ e.at = Height + 1 /\ e.out = Result(t)
                 /\ executed' = executed \cup {e}
    <3>1. /\ Executed(t, Height + 1, Result(t)).txn = t
          /\ Executed(t, Height + 1, Result(t)).at = Height + 1
          /\ Executed(t, Height + 1, Result(t)).out = Result(t)
      BY DEF Executed
    <3> QED
      BY <2>1, <3>1
  <2>9. OutcomeInv(e)'
    <3>1. SignedBy(t, Height)
      <4>1. PICK s \in Sessions : t \in built[s] /\ ~isInner(t)
        BY DEF ConstructionInv, ExecutedInv
      <4> QED
        BY <4>1 DEF ExecutionInv, FreshInv
    <3>2. Height \in 1..Height' /\ e.at - 1 = Height /\ e.at \in 2..Height'
      BY <1>1, <2>6, <2>8
    <3>3. SignedBy(t, Height)
      BY <3>1
    <3>4. PICK h : h = Height
      OBVIOUS
    <3>5. SignedBy(t, h)'
      BY <1>1, <2>5, <3>1, <3>2, <3>4, SignedStays
    <3>6. ledger'[h] = Now
      BY <1>1, <2>5, <3>4 DEF Longer, Now
    <3>7. Result(t) = IF Proposes(t, Now) THEN Outcome(t, Now) ELSE Nothing
      BY DEF Result
    <3> QED
      BY <2>8, <3>2, <3>4, <3>5, <3>6, <3>7 DEF OutcomeInv
  <2> QED
    BY <2>5, <2>7, <2>8, <2>9 DEF ExecutionInv
<1>3. CASE OtherBlock
  <2>1. /\ Height < MaxHeight /\ ledger' = Append(ledger, Now)
        /\ executed' = executed /\ UNCHANGED sessionVars
    BY <1>3 DEF OtherBlock
  <2>2. Follows(Now, Now) /\ KeysKept(Now, Now)
    BY <1>1, OthersFollow, ConstructionAssumption DEF KeysKept, Follows
  <2>3. HistoryInv' /\ Longer
    BY <1>1, <2>1, <2>2, HistoryStep
  <2> QED
    BY <2>1, <2>3, ExecutionBlock DEF ExecutionInv
<1>4. CASE RotateKey
  <2>1. /\ Height < MaxHeight /\ ledger' = Append(ledger, Rotated(Now, SpareKey))
        /\ executed' = executed /\ UNCHANGED sessionVars
    BY <1>4 DEF RotateKey
  <2>2. SpareKey \in Keys
    BY ConstructionAssumption
  <2>3. /\ Follows(Now, Rotated(Now, SpareKey)) /\ KeysKept(Now, Rotated(Now, SpareKey))
        /\ LastInForce(Rotated(Now, SpareKey))
    BY <1>1, <2>2, OthersFollow, RotatedKeys
  <2>4. HistoryInv' /\ Longer
    BY <1>1, <2>1, <2>3, HistoryStep
  <2> QED
    BY <2>1, <2>4, ExecutionBlock DEF ExecutionInv
<1>5. ASSUME NEW s \in Sessions,
             \/ ConstructionPreprocess(s) \/ ConstructionMetadata(s)
             \/ ConstructionPayloads(s) \/ ConstructionCombine(s)
             \/ ConstructionSubmit(s) \/ StartOver(s)
      PROVE  ExecutionInv'
  <2>1. UNCHANGED <<ledger, executed>> /\ Longer /\ Height' = Height
    BY <1>5, CallerStep
  <2>2. \A z \in Sessions : FreshInv(z)'
    BY <1>5, FreshStep DEF ExecutionInv
  <2>3. HistoryInv'
    BY <1>1, <2>1 DEF HistoryInv, LastInForce, KeysKept, InForce
  <2>4. \A e \in executed' : OutcomeInv(e)'
    BY <2>1, OutcomeStays DEF ExecutionInv
  <2> QED
    BY <2>2, <2>3, <2>4 DEF ExecutionInv
<1>6. CASE UNCHANGED vars
  <2>1. UNCHANGED <<ledger, executed, sessionVars>> /\ Height' = Height
    BY <1>6 DEF vars, chainVars, Height
  <2>2. Longer
    BY <1>1, <2>1 DEF Longer
  <2>3. HistoryInv'
    BY <1>1, <2>1 DEF HistoryInv, LastInForce, KeysKept, InForce
  <2> QED
    BY <2>1, <2>2, <2>3, ExecutionBlock DEF ExecutionInv
<1> QED
  BY <1>2, <1>3, <1>4, <1>5, <1>6 DEF Next

-----------------------------------------------------------------------------
(* FreshTransfersExecute: what the orders that it is about come to.        *)

\* The intent of a transfer.
LEMMA TransferParts ==
  ASSUME NEW ops, Operations(ops), matchOperations(ops), NEW intent,
         intent = transferIntent(ops)
  PROVE  /\ intent.sender \in Accounts /\ intent.receiver \in Accounts
         /\ intent.keys = <<>> /\ intent.contract = None
         /\ intent.proxy = (ops[1].type = "proxy_transfer")
<1> DEFINE take == CHOOSE op \in ToSet(ops) : op.value < 0
           give == CHOOSE op \in ToSet(ops) : op.value > 0
           n == Uint64(give.value)
           v == ops[1].type = "proxy_transfer"
           w == ops[1].type = "proxy_transfer_inner"
<1>1. ops \in Seq(ToSet(ops)) /\ Len(ops) = 2 /\ DOMAIN ops = 1..2
  BY DEF matchOperations, Operations
<1>2. \A op \in ToSet(ops) : op.account \in Accounts
  BY <1>1 DEF matchOperations, ToSet
<1>3. /\ \E op \in ToSet(ops) : op.value < 0
      /\ \E op \in ToSet(ops) : op.value > 0
  <2>1. \A i \in 1..2 : ops[i] \in ToSet(ops)
    BY <1>1 DEF ToSet
  <2>2. PICK i \in 1..2, j \in 1..2 : ops[i].value < 0 /\ ops[j].value > 0
    BY DEF matchOperations
  <2> QED
    BY <2>1, <2>2
<1>4. take \in ToSet(ops) /\ give \in ToSet(ops)
  BY <1>3
<1>5. /\ intent = [NoIntent EXCEPT !.sender = take.account, !.receiver = give.account,
                                   !.amount = n, !.proxy = v, !.inner = w]
      /\ v \in BOOLEAN /\ w \in BOOLEAN
  BY DEF transferIntent
<1> HIDE DEF take, give, n, v, w
<1>6. /\ intent.sender = take.account /\ intent.receiver = give.account
      /\ intent.proxy = v
  BY <1>5 DEF NoIntent
<1> QED
  BY <1>2, <1>4, <1>6, TransferIntent DEF v

\* The intent of an order to create accounts.
LEMMA CreateParts ==
  ASSUME NEW ops, Operations(ops), parseIntent(ops) # None,
         ops[1].type = "create_account", NEW intent, intent = parseIntent(ops)
  PROVE  /\ intent.keys \in Seq([fmt : {"flow"}, key : Keys]) /\ intent.keys # <<>>
         /\ \A k \in ToSet(intent.keys) : k.fmt = "flow"
         /\ intent.proxy = FALSE /\ intent.contract = None
<1>1. /\ ops # <<>> /\ ops \in Seq(ToSet(ops))
      /\ \A op \in ToSet(ops) : op.type = ops[1].type
  BY IntentKinds DEF parseIntent, Operations
<1>2. ops[1].type \in createTypes /\ ops[1].type \notin contractTypes
  BY DEF createTypes, contractTypes
<1>3. ASSUME NEW d \in [fmt : STRING, key : Keys]
      PROVE  /\ [d EXCEPT !.fmt = "flow"] \in [fmt : {"flow"}, key : Keys]
             /\ [d EXCEPT !.fmt = "flow"].fmt = "flow"
  <2>1. d = [fmt |-> d.fmt, key |-> d.key] /\ d.key \in Keys
    OBVIOUS
  <2>2. [d EXCEPT !.fmt = "flow"] = [fmt |-> "flow", key |-> d.key]
    BY <2>1
  <2>3. [fmt |-> "flow", key |-> d.key] \in [fmt : {"flow"}, key : Keys]
    BY <2>1
  <2> QED
    BY <2>2, <2>3
<1>4. /\ \A op \in ToSet(ops) : op.data # None /\ ConvertRosettaPublicKey(op.data) # None
      /\ intent = createIntent(ops)
  BY <1>1, <1>2 DEF parseIntent, createTypes, contractTypes, transferTypes
<1> DEFINE ks == [i \in DOMAIN ops |-> ConvertRosettaPublicKey(ops[i].data)]
           v  == ops[1].type = "create_proxy_account"
<1>5. intent = [NoIntent EXCEPT !.keys = ks, !.proxy = v] /\ v = FALSE
  BY <1>4 DEF createIntent
<1>6. ASSUME NEW i \in DOMAIN ops
      PROVE  ks[i] \in [fmt : {"flow"}, key : Keys] /\ ks[i].fmt = "flow"
  <2>1. ops[i] \in ToSet(ops)
    BY DEF ToSet
  <2>2. ops[i].data \in [fmt : STRING, key : Keys]
    BY <1>1, <1>2, <1>4, <2>1 DEF Operations
  <2>3. ks[i] = [ops[i].data EXCEPT !.fmt = "flow"]
    BY <1>4, <2>1 DEF ConvertRosettaPublicKey
  <2> HIDE DEF ks
  <2> QED
    BY <1>3, <2>2, <2>3, Zenon
<1>7. Len(ops) \in Nat /\ Len(ops) >= 1 /\ DOMAIN ops = 1..Len(ops)
  BY <1>1
<1>8. ks \in Seq([fmt : {"flow"}, key : Keys]) /\ DOMAIN ks = 1..Len(ops)
  <2>1. ks \in [1..Len(ops) -> [fmt : {"flow"}, key : Keys]]
    BY <1>6, <1>7
  <2> QED
    BY <1>7, <2>1, SeqDef
<1>9. ks # <<>>
  BY <1>7, <1>8
<1>10. \A k \in ToSet(ks) : k.fmt = "flow"
  BY <1>6 DEF ToSet
<1> HIDE DEF ks, v
<1>11. intent.keys = ks /\ intent.proxy = FALSE /\ intent.contract = None
  BY <1>5 DEF NoIntent
<1> QED
  BY <1>8, <1>9, <1>10, <1>11

\* The names of the arguments.
ArgNames == {"keys", "publicKey", "contract", "update", "sender", "receiver", "amount",
             "nonce", "sig"}

\* With the arguments that its script asks for, the script of a transaction has
\* an effect.
LEMMA TransferRuns ==
  ASSUME NEW t, NEW st, NEW x, NEW n, x # None, n # None,
         t.script = "basicTransfer",
         t.args = [NoArgs EXCEPT !.receiver = x, !.amount = n]
  PROVE  Outcome(t, st).ok
<1>1. Arguments(t) = {"receiver", "amount"}
  <2>1. DOMAIN t.args = ArgNames
    BY DEF NoArgs, ArgNames
  <2>2. /\ t.args.keys = None /\ t.args.publicKey = None
        /\ t.args.contract = None /\ t.args.update = None
        /\ t.args.sender = None /\ t.args.nonce = None /\ t.args.sig = None
        /\ t.args.receiver = x /\ t.args.amount = n
    BY DEF NoArgs
  <2>3. \A p \in ArgNames : t.args[p] # None <=> p \in {"receiver", "amount"}
    BY <2>2 DEF ArgNames
  <2> QED
    BY <2>1, <2>3 DEF Arguments, ArgNames
<1>2. Parameters[t.script] = {"receiver", "amount"}
  BY DEF Parameters
<1>3. Compiles(t.script)
  BY DEF Compiles, Imports
<1>4. Outcome(t, st) = Moved(t.payer, t.args.receiver, t.args.amount)
  BY <1>1, <1>2, <1>3 DEF Outcome
<1> QED
  BY <1>4, Effects

LEMMA ProxyTransferRuns ==
  ASSUME NEW t, NEW st, NEW w, NEW x, NEW n, NEW c, NEW g,
         None \notin {w, x, n, c, g}, t.script = "proxyTransfer", Compiles("proxyTransfer"),
         t.args = [NoArgs EXCEPT !.sender = w, !.receiver = x, !.amount = n,
                                 !.nonce = c, !.sig = g],
         w = Proxy, c = st.nonce + 1,
         g = Sign(ColdKey, [receiver |-> x, amount |-> n, nonce |-> c])
  PROVE  Outcome(t, st).ok
<1>1. /\ t.args.sender = w /\ t.args.receiver = x /\ t.args.amount = n
      /\ t.args.nonce = c /\ t.args.sig = g
  BY DEF NoArgs
<1>2. Arguments(t) = {"sender", "receiver", "amount", "nonce", "sig"}
  <2>1. DOMAIN t.args = ArgNames
    BY DEF NoArgs, ArgNames
  <2>2. /\ t.args.keys = None /\ t.args.publicKey = None
        /\ t.args.contract = None /\ t.args.update = None
    BY DEF NoArgs
  <2>3. \A p \in ArgNames :
          t.args[p] # None <=> p \in {"sender", "receiver", "amount", "nonce", "sig"}
    BY <1>1, <2>2 DEF ArgNames
  <2> QED
    BY <2>1, <2>3 DEF Arguments, ArgNames
<1>3. Parameters[t.script] = {"sender", "receiver", "amount", "nonce", "sig"}
  BY DEF Parameters
<1>4. vaultTransfers(t, st)
  BY <1>1 DEF vaultTransfers, innerHash
<1>5. Outcome(t, st) = Moved(t.args.sender, t.args.receiver, t.args.amount)
  BY <1>2, <1>3, <1>4 DEF Outcome
<1> QED
  BY <1>5, Effects

LEMMA CreateAccountRuns ==
  ASSUME NEW t, NEW st, NEW ks, ks # None, \A k \in ToSet(ks) : k.fmt = "flow",
         t.script = "createAccount", t.args = [NoArgs EXCEPT !.keys = ks]
  PROVE  Outcome(t, st).ok
<1>1. t.args.keys = ks
  BY DEF NoArgs
<1>2. Arguments(t) = {"keys"}
  BY DEF Arguments, NoArgs
<1>3. Parameters[t.script] = {"keys"}
  BY DEF Parameters
<1>4. Compiles(t.script)
  BY DEF Compiles, Imports
<1>5. Outcome(t, st) = Made(accountsMade(t))
  BY <1>1, <1>2, <1>3, <1>4 DEF Outcome
<1> QED
  BY <1>5, Effects

\* The owner signed with the key that metadata looked up, as long as the keys are
\* those of the reference block.
LEMMA FreshProposes ==
  ASSUME ChainInv, HistoryInv, NEW t, NEW h \in 1..Height, t.ref \in 1..Height,
         t.keyId \in Nat, LookedUp(t), SignedBy(t, h), ledger[h].keys = ledger[t.ref].keys
  PROVE  Proposes(t, ledger[h])
<1> DEFINE ks == ledger[h].keys
<1>1. ks \in Seq(KeyStates) /\ Len(ks) \in Nat
  <2>1. ledger[h] \in States
    BY DEF ChainInv, Height
  <2> QED
    BY <2>1 DEF States
<1>2. /\ t.keyId + 1 \in InForce(ks) /\ Cardinality(InForce(ks)) = 1
      /\ ks[t.keyId + 1].seq = t.seq
  BY DEF LookedUp
<1>3. Len(ks) \in InForce(ks)
  BY DEF HistoryInv, LastInForce
<1>4. IsFiniteSet(InForce(ks))
  <2>1. InForce(ks) \subseteq 1..Len(ks)
    BY <1>1 DEF InForce
  <2>2. IsFiniteSet(1..Len(ks))
    BY <1>1, FS_Interval, 1 \in Int, Len(ks) \in Int
  <2> QED
    BY <2>1, <2>2, FS_Subset
<1>5. t.keyId + 1 = Len(ks)
  <2>1. PICK x : InForce(ks) = {x}
    BY <1>2, <1>4, FS_Singleton
  <2> QED
    BY <1>2, <1>3, <2>1
<1>6. PICK g \in 1..h : /\ g >= t.ref
                        /\ t.sig = Sign(Last(ledger[g].keys).key, TransactionEnvelopeHash(t))
  BY DEF SignedBy
<1>7. g \in 1..Height /\ t.ref <= g /\ g <= h
  <2>1. Height \in Nat
    BY DEF ChainInv, Height
  <2> QED
    BY <1>6, <2>1
<1>8. KeysKept(ledger[t.ref], ledger[g]) /\ KeysKept(ledger[g], ledger[h])
  BY <1>7 DEF HistoryInv
<1>9. ledger[g].keys \in Seq(KeyStates) /\ Len(ledger[g].keys) \in Nat
  <2>1. ledger[g] \in States
    BY <1>7 DEF ChainInv, Height
  <2> QED
    BY <2>1 DEF States
<1>10. Len(ledger[g].keys) = Len(ks)
  <2>1. Len(ledger[t.ref].keys) <= Len(ledger[g].keys)
    BY <1>8 DEF KeysKept
  <2>2. Len(ledger[g].keys) <= Len(ledger[h].keys)
    BY <1>8 DEF KeysKept
  <2>3. Len(ks) <= Len(ledger[g].keys) /\ Len(ledger[g].keys) <= Len(ks)
    BY <2>1, <2>2
  <2>4. \A m, n \in Nat : m <= n /\ n <= m => n = m
    OBVIOUS
  <2> QED
    BY <1>1, <1>9, <2>3, <2>4, Zenon
<1>11. Len(ks) \in DOMAIN ks /\ Len(ks) \in DOMAIN ledger[g].keys
  <2>1. Len(ks) \in DOMAIN ks
    BY <1>3 DEF InForce
  <2>2. DOMAIN ks = 1..Len(ks) /\ DOMAIN ledger[g].keys = 1..Len(ledger[g].keys)
    BY <1>1, <1>9
  <2> QED
    BY <1>10, <2>1, <2>2
<1>12. Last(ledger[g].keys).key = ks[Len(ks)].key
  BY <1>8, <1>10, <1>11 DEF KeysKept, Last
<1>13. t.sig = Sign(ks[t.keyId + 1].key, TransactionEnvelopeHash(t))
  BY <1>5, <1>6, <1>12
<1> QED
  BY <1>2, <1>13 DEF Proposes, InForce

\* An outcome is preceded by a block.
LEMMA OutcomePlace ==
  ASSUME ConstructionInv, ExecutionInv, NEW e \in executed
  PROVE  e.at - 1 \in 1..Height
<1>1. Height \in Nat /\ e.at \in 2..Height
  BY DEF ConstructionInv, ChainInv, Height, ExecutionInv, OutcomeInv
<1> QED
  BY <1>1

\* The script of an order to transfer or to create accounts has what it needs.
LEMMA FreshOutcome ==
  ASSUME ConstructionInv, EffectInv, ExecutionInv, NEW s \in Sessions, NEW e \in executed,
         order[s].payloads[1].type \in {"transfer", "proxy_transfer", "create_account"},
         order[s].payloads[1].type = "proxy_transfer" => Compiles("proxyTransfer"),
         Undisturbed(s, e)
  PROVE  Outcome(e.txn, ledger[e.at - 1]).ok
<1> DEFINE ops == order[s].payloads
           intent == parseIntent(ops)
           t == e.txn
           st == ledger[e.at - 1]
           p == opts[s].payload
<1>1. stage[s] = "submit" /\ built[s] = {t} /\ pin[s] = -1 /\ ~isInner(t)
  BY DEF Undisturbed, ConstructionInv, ExecutedInv
<1>2. CallerInv(s) /\ FreshInv(s) /\ SignedInv(s)
  BY Callers DEF ExecutionInv, EffectInv
<1>3. txn[s] = t
  BY <1>1, <1>2 DEF CallerInv
<1>4. Operations(ops) /\ intent # None /\ intent.amount \in Nat
  <2>1. Operations(ops) /\ intent # None
    BY <1>1, <1>2, OrderFacts DEF CallerInv
  <2> QED
    BY <2>1, IntentFacts
<1>5. t.args = argsOf(intent, p) /\ t.script = scriptOf(intent)
  BY <1>1, <1>2, <1>3 DEF FreshInv, SignedInv, BuiltFor
<1>6. CASE ops[1].type \in {"transfer", "proxy_transfer"}
  <2>1. matchOperations(ops) /\ intent = transferIntent(ops)
    BY <1>4, <1>6, IntentKinds DEF createTypes, contractTypes
  <2>2. /\ intent.sender \in Accounts /\ intent.receiver \in Accounts
        /\ intent.keys = <<>> /\ intent.contract = None
        /\ intent.proxy = (ops[1].type = "proxy_transfer")
    BY <1>4, <2>1, TransferParts
  <2>3. None \notin Accounts /\ None \notin Nat
    BY ConstructionAssumption, NoneAssumption DEF Accounts
  <2>4. CASE ops[1].type = "transfer"
    <3>1. t.script = "basicTransfer"
      BY <1>5, <2>2, <2>4 DEF scriptOf
    <3>2. t.args = [NoArgs EXCEPT !.receiver = intent.receiver, !.amount = intent.amount]
      BY <1>5, <3>1 DEF argsOf
    <3>3. intent.receiver # None /\ intent.amount # None
      BY <1>4, <2>2, <2>3, Zenon
    <3> QED
      BY <3>1, <3>2, <3>3, TransferRuns, Zenon
  <2>5. CASE ops[1].type = "proxy_transfer"
    <3>1. t.script = "proxyTransfer"
      BY <1>5, <2>2, <2>5 DEF scriptOf
    <3>2. t.args = [NoArgs EXCEPT !.sender = intent.sender, !.receiver = intent.receiver,
                                  !.amount = intent.amount, !.nonce = p.nonce,
                                  !.sig = p.sig]
      BY <1>5, <3>1 DEF argsOf
    <3>3. /\ t.args.sender = intent.sender /\ t.args.receiver = intent.receiver
          /\ t.args.amount = intent.amount
      BY <3>2 DEF NoArgs
    <3>4. p \in Inners
      <4>1. NeedsPayload(intent)
        BY <2>2, <2>5 DEF NeedsPayload
      <4> QED
        BY <1>1, <1>2, <1>3, <4>1 DEF FreshInv
    <3>5. p.sig = Sign(ColdKey, innerHash(p))
      BY <3>4 DEF Inners, ExecutionInv, FreshInv
    <3>6. /\ p.sender = Proxy /\ p.nonce = st.nonce + 1
          /\ p.sender = intent.sender /\ p.receiver = intent.receiver
          /\ p.amount = intent.amount
      BY <1>3, <3>1, <3>3 DEF Undisturbed, PayloadFits
    <3>7. p.nonce \in Int
      <4>1. e.at - 1 \in 1..Height
        BY OutcomePlace
      <4>2. st \in States
        BY <4>1 DEF ConstructionInv, ChainInv, Height
      <4>3. st.nonce \in Int
        BY <4>2 DEF States
      <4> QED
        BY <3>6, <4>3
    <3>8. p.sig = Sign(ColdKey, [receiver |-> intent.receiver, amount |-> intent.amount,
                                 nonce |-> p.nonce])
      BY <3>5, <3>6 DEF innerHash
    <3>9. p.sig # None
      <4>1. [receiver |-> intent.receiver, amount |-> intent.amount, nonce |-> p.nonce]
              \in [receiver : Accounts, amount : Nat, nonce : Int]
        BY <1>4, <2>2, <3>7
      <4>2. ColdKey \in Keys
        BY ConstructionAssumption
      <4>3. p.sig \in [fmt : {"flow"}, by : Keys,
                       over : [receiver : Accounts, amount : Nat, nonce : Int]]
        BY <3>8, <4>1, <4>2 DEF Sign
      <4> QED
        BY <4>3, NoneAssumption
    <3>10. p.nonce # None
      BY <3>7, NoneAssumption
    <3> HIDE DEF p, st, t, intent
    <3>11. None \notin {intent.sender, intent.receiver, intent.amount, p.nonce, p.sig}
      BY <1>4, <2>2, <2>3, <3>9, <3>10
    <3>12. intent.sender = Proxy
      BY <3>6
    <3>13. Outcome(t, st).ok
      BY <2>5, <3>1, <3>2, <3>6, <3>8, <3>11, <3>12, ProxyTransferRuns, Zenon
    <3> QED
      BY <3>13 DEF t, st
  <2> QED
    BY <1>6, <2>4, <2>5
<1>7. CASE ops[1].type = "create_account"
  <2>1. /\ intent.keys \in Seq([fmt : {"flow"}, key : Keys]) /\ intent.keys # <<>>
        /\ \A k \in ToSet(intent.keys) : k.fmt = "flow"
        /\ intent.proxy = FALSE /\ intent.contract = None
    BY <1>4, <1>7, CreateParts
  <2>2. t.script = "createAccount"
    <3>1. intent.keys # <<>> /\ ~intent.proxy /\ intent.contract = None
      BY <2>1
    <3> HIDE DEF intent
    <3>2. scriptOf(intent) = "createAccount"
      BY <3>1 DEF scriptOf
    <3> QED
      BY <1>5, <3>2
  <2>3. t.args = [NoArgs EXCEPT !.keys = intent.keys]
    BY <1>5, <2>2 DEF argsOf
  <2>4. intent.keys # None
    BY <2>1, NoneAssumption
  <2> QED
    BY <2>1, <2>2, <2>3, <2>4, CreateAccountRuns
<1> QED
  BY <1>6, <1>7

\* At the start the payer has one key, and no caller holds anything.
LEMMA ExecutionInit ==
  ASSUME Init
  PROVE  ExecutionInv
<1> DEFINE st == [keys |-> <<NewKey(FirstKey)>>, nonce |-> -1]
<1>1. ledger = [h \in 1..2 |-> st]
  BY DEF Init
<1>2. Height \in Nat /\ Len(ledger) = Height /\ DOMAIN ledger = 1..Height
  BY InitInv DEF ConstructionInv, ChainInv, Height
<1>3. LastInForce(st)
  <2>1. st.keys = <<NewKey(FirstKey)>> /\ NewKey(FirstKey).revoked = FALSE
    BY DEF NewKey
  <2> HIDE DEF st
  <2>2. Len(st.keys) = 1 /\ DOMAIN st.keys = 1..1 /\ st.keys[1] = NewKey(FirstKey)
    BY <2>1
  <2> QED
    BY <2>1, <2>2 DEF LastInForce, InForce
<1>4. KeysKept(st, st)
  BY DEF KeysKept
<1> HIDE DEF st
<1>5. \A h \in 1..Height : ledger[h] = st
  BY <1>1, <1>2
<1>6. HistoryInv
  BY <1>3, <1>4, <1>5 DEF HistoryInv
<1>7. ASSUME NEW s \in Sessions
      PROVE  FreshInv(s)
  <2>1. stage[s] = "preprocess" /\ built[s] = {}
    BY DEF Init
  <2> QED
    BY <2>1 DEF FreshInv
<1>8. executed = {}
  BY DEF Init
<1> QED
  BY <1>6, <1>7, <1>8 DEF ExecutionInv

\* FreshTransfersExecute: an order to transfer or to create accounts whose payer
\* nobody else used since the reference block takes effect, although its
\* sequence number, key and reference block come from servers that lag and from
\* the index, and it was signed some blocks later.  So does a proxy transfer, if
\* the chain resolves the address that its script imports from; the chains of the
\* repository do not.
THEOREM FreshOrdersExecute == Spec => []FreshTransfersExecute
<1>1. Init => EffectInv /\ ExecutionInv
  BY ExecutionInit DEF Init, EffectInv, SignedInv
<1>2. ConstructionInv /\ EffectInv /\ ExecutionInv /\ [Next]_vars => EffectInv' /\ ExecutionInv'
  BY EffectStep, ExecutionStep
<1>3. ConstructionInv /\ EffectInv /\ ExecutionInv => FreshTransfersExecute
  <2> SUFFICES ASSUME ConstructionInv, EffectInv, ExecutionInv,
                      NEW s \in Sessions, NEW e \in executed, Undisturbed(s, e),
                      \/ order[s].payloads[1].type \in {"transfer", "create_account"}
                      \/ /\ order[s].payloads[1].type = "proxy_transfer"
                         /\ Compiles("proxyTransfer")
               PROVE  e.out.ok
    BY DEF FreshTransfersExecute, ExecutesUndisturbed
  <2> DEFINE t == e.txn
             h == e.at - 1
  <2>1. Outcome(t, ledger[h]).ok
    BY FreshOutcome
  <2>2. /\ e.out = IF Proposes(t, ledger[h]) THEN Outcome(t, ledger[h]) ELSE Nothing
        /\ SignedBy(t, h) /\ e.at \in 2..Height
    BY DEF ExecutionInv, OutcomeInv
  <2>3. stage[s] = "submit" /\ built[s] = {t} /\ pin[s] = -1 /\ ledger[h].keys = ledger[t.ref].keys
    BY DEF Undisturbed
  <2>4. ~isInner(t)
    BY DEF ConstructionInv, ExecutedInv
  <2>5. CallerInv(s) /\ FreshInv(s) /\ ChainInv /\ HistoryInv
    BY Callers DEF ExecutionInv, ConstructionInv
  <2>6. txn[s] = t
    BY <2>3, <2>5 DEF CallerInv
  <2>7. t.keyId = keyOf(parseIntent(order[s].preprocess)) /\ t.ref \in 1..Height
    <3>1. t.keyId = keyOf(parseIntent(order[s].preprocess)) /\ t.ref \in 0..Height
      BY <2>3, <2>4, <2>5 DEF CallerInv, TxnFor, FlowTxn
    <3>2. t.ref # 0 /\ Height \in Nat
      BY NowFacts DEF ConstructionInv, ExecutedInv
    <3> QED
      BY <3>1, <3>2
  <2>8. LookedUp(t)
    BY <2>3, <2>4, <2>5, <2>6, <2>7 DEF FreshInv
  <2>9. t.keyId \in Nat
    BY <2>3, <2>5, <2>7, OrderFacts
  <2>10. h \in 1..Height
    BY OutcomePlace
  <2>11. Proposes(t, ledger[h])
    BY <2>2, <2>3, <2>5, <2>7, <2>8, <2>9, <2>10, FreshProposes
  <2> QED
    BY <2>1, <2>2, <2>11
<1> QED
  BY <1>1, <1>2, <1>3, ConstructionInvariant, PTL DEF Spec
=============================================================================
