---------------------------- MODULE MCIndexReads ----------------------------
(***************************************************************************)
(* IndexReads for TLC, with the blocks of MCIndexDB.                       *)
(***************************************************************************)
EXTENDS IndexReads

CONSTANTS o, p

Op(type, account, receiver, amount, proxy) ==
  [type |-> type, account |-> account, receiver |-> receiver,
   amount |-> amount, proxy |-> proxy]

\* Nothing; a deposit from outside; a proxy account is created and funded.
MCBlocks ==
  { << >>,
    << Op("TRANSFER", NoAccount, o, 2, FALSE) >>,
    << Op("CREATE_ACCOUNT", p, NoAccount, 0, TRUE),
       Op("TRANSFER", o, p, 1, FALSE) >> }

=============================================================================
