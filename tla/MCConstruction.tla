--------------------------- MODULE MCConstruction ---------------------------
(***************************************************************************)
(* Instances of Construction: orders of callers that share a payer.        *)
(***************************************************************************)
EXTENDS Construction

CONSTANTS s1, s2, s3, user, fee

Key(k) == [fmt |-> "compressed", key |-> k]
Take(type, acct, n) == Op(type, acct, -n, None)
Give(type, acct, n) == Op(type, acct, n, None)
Transfer(type, from, to, n) == <<Take(type, from, n), Give(type, to, n)>>

ContractData ==
  [code |-> [fmt |-> "hex"], prev_key_index |-> 0, new_key |-> Key(SpareKey),
   key_message |-> "message",
   key_signature |-> [Sign(SpareKey, "message") EXCEPT !.fmt = "der"]]
SetContract(type) == <<Op(type, None, 0, ContractData)>>
CreateProxy == <<Op("create_proxy_account", None, 0, Key(ColdKey))>>
CreateTwo == <<Op("create_account", None, 0, Key(ColdKey)),
               Op("create_account", None, 0, Key(SpareKey))>>

Order(pre, pay) == [preprocess |-> pre, payloads |-> pay]
Same(orders) == {Order(ops, ops) : ops \in orders}

MCSessions == {s1, s2, s3}

Inner(from)    == Transfer("proxy_transfer_inner", from, user, 1)
ViaProxy(n)    == Transfer("proxy_transfer", Proxy, user, n)
Plain(from, n) == Transfer("transfer", from, user, n)

(* Orders that are refused: a sender that is not the payer, a fee address, *)
(* unequal amounts, an amount beyond the word, an operation that is missing*)
(* or of another type.                                                     *)
Refused ==
  {Transfer("transfer", user, Payer, 1),
   Transfer("transfer", Payer, fee, 1),
   <<Take("transfer", Payer, 1), Give("transfer", user, 2)>>,
   Plain(Payer, Word + 1),
   <<Take("transfer", Payer, 1)>>,
   <<Take("transfer", Payer, 1), Give("proxy_transfer", user, 1)>>}

(* One session spends from the payer while another has it create accounts  *)
(* or set a contract.  Operations that differ between the two calls: a     *)
(* transfer of the proxy after an inner one, which gets no reference block,*)
(* and a proxy transfer without a payload.                                 *)
MCPayerRequests ==
  [s \in MCSessions |->
     CASE s = s1 -> Same({<<Give("transfer", user, 2), Take("transfer", Payer, 2)>>}
                           \cup Refused)
                    \cup {Order(Inner(Proxy), Plain(Proxy, 1)),
                          Order(Plain(Payer, 1), ViaProxy(1))}
       [] s = s2 -> Same({CreateTwo, CreateProxy, SetContract("update_contract")})
       [] s = s3 -> {}]

(* Session s1 signs an inner transfer that s2 and s3 submit.  Operations   *)
(* that differ: the amount, and a fee address that only payloads is given. *)
MCProxyRequests ==
  [s \in MCSessions |->
     CASE s = s1 -> Same({Inner(Proxy), Inner(user)})
       [] s = s2 -> Same({ViaProxy(1)}) \cup {Order(ViaProxy(2), ViaProxy(1))}
       [] s = s3 -> Same({ViaProxy(1), ViaProxy(2)})
                    \cup {Order(ViaProxy(1), Transfer("transfer", Payer, fee, 1))}]

MCRequests == [s \in MCSessions |-> MCPayerRequests[s] \cup MCProxyRequests[s]]

(* Bound: the orders of the sessions are all of one kind or the other.     *)
Within(requests) == \A s \in Sessions : order[s] \in requests[s] \cup {None}

MCSpec ==
  Init /\ [][Next /\ (Within(MCPayerRequests) \/ Within(MCProxyRequests))']_vars

MCPins     == [s \in MCSessions |-> IF s = s1 THEN {-1, 0} ELSE {-1}]
MCMaxTries == [s \in MCSessions |-> IF s = s1 THEN 2 ELSE 1]
=============================================================================
