---------------------------- MODULE MCBlockSanity ----------------------------
(* Model-checking instance of BlockSanity: two producer/CR keys, two       *)
(* side-chain hashes and two refer keys; every transaction type that       *)
(* CheckDuplicateTx distinguishes, with payloads over those keys.          *)
EXTENDS BlockSanity, TLC

CONSTANTS k1, k2, h1, h2, r1, r2, NoKey

Keys == {k1, k2}

MkTx(t, o, n, c, hs, ins) ==
  [type |-> t, owner |-> o, node |-> n, cid |-> c, hashes |-> hs,
   inputs |-> ins]

MCTxs ==
  {MkTx("CoinBase", NoKey, NoKey, NoKey, <<>>, <<>>),
   MkTx("RecordSponsor", NoKey, NoKey, NoKey, <<>>, <<>>)}
  \cup {MkTx("TransferAsset", NoKey, NoKey, NoKey, <<>>, ins) :
          ins \in {<<r1>>, <<r2>>, <<r1, r1>>}}
  \cup {MkTx("WithdrawFromSideChain", NoKey, NoKey, NoKey, hs, <<>>) :
          hs \in {<<h1>>, <<h2>>, <<h1, h2>>, <<h1, h1>>}}
  \cup {MkTx(t, o, n, NoKey, <<>>, <<>>) :
          t \in NodeTypes, o \in Keys, n \in Keys}
  \cup {MkTx("CancelProducer", o, NoKey, NoKey, <<>>, <<>>) : o \in Keys}
  \cup {MkTx(t, NoKey, NoKey, c, <<>>, <<>>) : t \in CRTypes, c \in Keys}
====
