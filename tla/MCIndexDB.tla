----------------------------- MODULE MCIndexDB -----------------------------
(***************************************************************************)
(* IndexDB for TLC: an ordinary account o, known from the genesis block    *)
(* on, and an account p that may be created as a proxy.                    *)
(***************************************************************************)
EXTENDS IndexDB

CONSTANTS o, p

Op(type, account, receiver, amount, proxy) ==
  [type |-> type, account |-> account, receiver |-> receiver,
   amount |-> amount, proxy |-> proxy]

\* Nothing; a deposit from outside; an account is created and funded in the
\* same block, and its payer is charged a fee; money comes back; two
\* operations on an account cancel out.
MCBlocks ==
  { << >>,
    << Op("TRANSFER", NoAccount, o, 2, FALSE) >>,
    << Op("CREATE_ACCOUNT", p, NoAccount, 0, TRUE),
       Op("TRANSFER", o, p, 1, FALSE),
       Op("FEE", o, NoAccount, 1, FALSE) >>,
    << Op("PROXY_TRANSFER", p, o, 1, FALSE) >> }

ForkSymmetry == Permutations(Forks)

============================================================================
