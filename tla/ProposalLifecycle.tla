-------------------------- MODULE ProposalLifecycle --------------------------
(***************************************************************************)
(* What the CR committee promises about CRC proposals (spec 4.4): with     *)
(* every block a proposal moves along at most one edge of                  *)
(*                                                                         *)
(*   (absent) -> Registered -> CRAgreed   -> VoterAgreed                   *)
(*                         \-> CRCanceled \-> VoterCanceled                *)
(*                                                                         *)
(* and a rollback to height r brings every proposal back to the status it  *)
(* had right after block r.  hist[h] is the status map after block h.      *)
(* Finished and Aborted are entered by proposal tracking, which is not     *)
(* part of this promise.                                                    *)
(***************************************************************************)
EXTENDS Naturals, Sequences

CONSTANTS Proposals

VARIABLES status, hist

Absent == "Absent"

\* the statuses a proposal may have after the next block
Successors(s) ==
  CASE s = Absent       -> {Absent, "Registered"}
    [] s = "Registered" -> {"Registered", "CRAgreed", "CRCanceled"}
    [] s = "CRAgreed"   -> {"CRAgreed", "VoterAgreed", "VoterCanceled"}
    [] OTHER            -> {s}

Init ==
  /\ status = [p \in Proposals |-> Absent]
  /\ hist = <<>>

\* a block is applied
Block ==
  /\ \A p \in Proposals : status'[p] \in Successors(status[p])
  /\ DOMAIN status' = Proposals
  /\ hist' = Append(hist, status')

\* the chain rolls back to height r
RollbackTo(r) ==
  /\ r < Len(hist)
  /\ hist' = SubSeq(hist, 1, r)
  /\ status' = IF r = 0 THEN [p \in Proposals |-> Absent] ELSE hist[r]

Next == Block \/ \E r \in 0..Len(hist) : RollbackTo(r)

Spec == Init /\ [][Next]_<<status, hist>>
====
