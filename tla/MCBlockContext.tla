--------------------------- MODULE MCBlockContext ---------------------------
(* Model-checking instance of BlockContext: ELA and one other asset, the   *)
(* program hashes the coinbase rules name, two arbiters, and sets of       *)
(* transactions and coinbase outputs chosen per run in the .cfg files.     *)
EXTENDS BlockContext, TLC

CONSTANTS X, Miner, CRAssets, Accumulate, Destroy, a1, a2

In(a, v, s) == [asset |-> a, value |-> v, sequence |-> s]
Out(a, v)   == [asset |-> a, value |-> v]
MkTx(t, ins, outs, lock, b) ==
  [type |-> t, inputs |-> ins, outputs |-> outs, lockTime |-> lock, budget |-> b]
CbOut(hh, v) == [hash |-> hh, value |-> v]

\* transfers that pay an ELA fee, pay none, spend only the other asset and
\* pay out ELA, or spend both assets; proposals of budget 1 or 2; a sponsor
\* record; a transfer locked until height 3, with and without maximal
\* input sequences
BlockTxs ==
  {MkTx("TransferAsset", ins, outs, 0, 0) :
     <<ins, outs>> \in {<<<<In(ELA, 1, 0)>>, <<>>>>,
                        <<<<In(ELA, 1, 0)>>, <<Out(ELA, 1)>>>>,
                        <<<<In(X, 1, 0)>>, <<Out(ELA, 1)>>>>,
                        <<<<In(ELA, 1, 0), In(X, 1, 0)>>, <<Out(X, 1)>>>>}}
  \cup {MkTx(t, <<In(ELA, 1, 0)>>, <<Out(ELA, 1)>>, 0, b) :
          <<t, b>> \in {<<"CRCProposal", 1>>, <<"CRCProposal", 2>>,
                        <<"RecordSponsor", 0>>}}
  \cup {MkTx("TransferAsset", <<In(ELA, 1, s)>>, <<Out(ELA, 1)>>, 3, 0) :
          s \in {0, MaxUint16}}

\* coinbase outputs: to the miner of 0..2, and of the values the shares
\* take for totals 1..3 to the CR assets, the DPoS accumulator, the burn
\* address and the arbiter
RewardOutputs ==
  {CbOut(Miner, v) : v \in 0..2} \cup {CbOut(a1, 1), CbOut(CRAssets, 1)}
  \cup {CbOut(hh, v) : hh \in {Accumulate, Destroy}, v \in 1..2}

\* a miner and two arbiters of equal round reward
ArbiterOutputs == {CbOut(hh, v) : hh \in {Miner, a1, a2}, v \in 0..1}

MinerOutputs == {CbOut(Miner, v) : v \in 1..2}

OneArbiter  == a1 :> 1
TwoArbiters == (a1 :> 1) @@ (a2 :> 1)

AllPrev ==
  {"dbConfirmed", "dbUnconfirmed", "cacheConfirmed", "cacheUnconfirmed",
   "cacheNoConfirmEntry", "missing"}
====
