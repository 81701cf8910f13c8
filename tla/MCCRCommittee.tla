---------------------------- MODULE MCCRCommittee ----------------------------
(* Model-checking instance of CRCommittee: one proposal, two CR members,   *)
(* three output refer keys, vote amount 1 against a reject threshold of 1; *)
(* the periods and the other bounds are set per run in the .cfg files.     *)
EXTENDS CRCommittee, TLC

CONSTANTS p1, m1, m2, o1, o2, o3

MCProposals == {p1}
MCMembers   == {m1, m2}
MCOutputs   == {o1, o2, o3}
MCBudget    == p1 :> 2
====
