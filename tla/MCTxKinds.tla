------------------------------ MODULE MCTxKinds ------------------------------
(* Model-checking instance of TxKinds: DPoS v2 from height 1, several      *)
(* signers and Schnorr programs from height 3, NFTs from height 2; two     *)
(* signers with stake addresses s1, s2 and two vote refer keys.  The       *)
(* transactions are a well-formed ExchangeVotes and CreateNFT and variants *)
(* that each differ from it in one part the checks look at.                *)
EXTENDS TxKinds, TLC

CONSTANTS o1, o2, s1, s2, v1, v2, Other

MCStakeAddressOf == (o1 :> s1) @@ (o2 :> s2)
MCVoteKeys == {v1, v2}

Prog(code, owner, param) == [code |-> code, owner |-> owner, parameter |-> param]
Std(owner) == Prog("standard", owner, TRUE)
Out(asset, value, type, payload, stake, dest) ==
  [asset |-> asset, value |-> value, type |-> type, payload |-> payload,
   stakeAddress |-> stake, dest |-> dest]
Stake(addr) == Out(ELA, 1, "OTStake", "valid", addr, "stakePool")
Change(dest) == Out(ELA, 1, "OTNone", "none", Other, dest)

EV(progs, outs) ==
  [type |-> "ExchangeVotes", payload |-> "ExchangeVotes",
   attributesValid |-> TRUE, programs |-> progs, outputs |-> outs, id |-> Other]
NFT(payload, id) ==
  [type |-> "CreateNFT", payload |-> payload, attributesValid |-> TRUE,
   programs |-> <<Std(o1)>>, outputs |-> <<>>, id |-> id]

MCTxs ==
  {EV(<<Std(o1)>>, outs) :
     outs \in {<<Stake(s1)>>, <<Stake(s2)>>, <<Stake(s1), Change("standard")>>,
               <<Stake(s1), Change("multisig")>>, <<Stake(s1), Change("other")>>,
               <<Stake(s1), Change("standard"), Change("standard")>>,
               <<Out(ELA, 0, "OTStake", "valid", s1, "stakePool")>>,
               <<Out(Other, 1, "OTStake", "valid", s1, "stakePool")>>,
               <<Out(ELA, 1, "OTNone", "none", s1, "stakePool")>>,
               <<Out(ELA, 1, "OTStake", "nil", s1, "stakePool")>>,
               <<Out(ELA, 1, "OTStake", "invalid", s1, "stakePool")>>,
               <<Stake(s1) @@ [dest |-> "standard"]>>}}
  \cup {EV(<<Std(o1), Std(o2)>>, <<Stake(s1)>>),
        EV(<<Prog("schnorr", o1, TRUE)>>, <<Stake(s1)>>),
        EV(<<Prog("short", o1, TRUE)>>, <<Stake(s1)>>),
        EV(<<Std(o1)>>, <<>>), EV(<<>>, <<Stake(s1)>>),
        EV(<<Std(o1)>>, <<Stake(s1)>>) @@ [payload |-> "CreateNFT"]}
  \cup {NFT("CreateNFT", v1), NFT("ExchangeVotes", v1)}
=============================================================================
