--------------------------- MODULE ArbitratorEvents ---------------------------
(***************************************************************************)
(* The event side of a DPoS node: the Arbitrator of dpos/arbitrator.go and *)
(* the revert-to-PoW watchdog of pow/revertlistener.go, which judge the    *)
(* same chain tip by two different clocks.                                 *)
(*                                                                         *)
(*  - Each ETNewBlockReceived event starts an OnBlockReceived goroutine;   *)
(*    when it runs it forwards the block to the DPoS network for           *)
(*    confirmation, unless the node is not current or the stop-confirm     *)
(*    time since the last block has passed.                                *)
(*  - changeViewLoop posts a change-view task every second while           *)
(*    enableViewLoop is set; Stop clears the flag without synchronisation. *)
(*  - The inactive-arbitrators path starts a recover goroutine on an       *)
(*    emergency candidate.                                                 *)
(*  - ListenForRevert wakes once a minute and, when no block has come for  *)
(*    the no-block time, appends a RevertToPOW transaction for the height  *)
(*    it reads again after its checks.                                     *)
(*                                                                         *)
(* The chain, the clock, the server's sync state and the arbiter set are   *)
(* the environment; Server.IsCurrent, IsArbitrator and the peer count are *)
(* read afresh by the code each time and are free inputs of the actions.  *)
(* The network, the DPoS manager and the transaction    *)
(* pool are outside src/: a task posted to the network is recorded only    *)
(* where a property is about it.                                           *)
(***************************************************************************)
EXTENDS Integers, Sequences, FiniteSets

CONSTANTS
  RevertToPOWStartHeight,   \* DPoSConfiguration.RevertToPOWStartHeight
  ChangeViewV1Height,       \* DPoSConfiguration.ChangeViewV1Height
  StopConfirmBlockTime,     \* DPoSConfiguration.StopConfirmBlockTime(V1)
  StopConfirmBlockTimeV1,
  RevertToPOWNoBlockTime,   \* DPoSConfiguration.RevertToPOWNoBlockTime(V1)
  RevertToPOWNoBlockTimeV1,
  Candidates,               \* Arbitrators.GetCandidates(): node keys in order
  ArbitersCount,            \* Arbitrators.GetArbitersCount()
  Self,                     \* the node's own public key
  MaxHeight,                \* bound: chain height
  MaxTime,                  \* bound: local clock
  MaxRecovers               \* bound: recover goroutines started

VARIABLES
  height,          \* BestChain.Height
  lastTs,          \* Arbitrators.GetLastBlockTimestamp()
  now,             \* TimeSource.AdjustedTime().Unix()
  powMode,         \* Arbitrators.IsInPOWMode()
  received,        \* heights of blocks whose OnBlockReceived goroutine waits
  lastForward,     \* <<h, tip, now>> of the last PostBlockReceivedTask, or <<>>
  enableViewLoop,  \* Arbitrator.enableViewLoop
  viewPc,          \* changeViewLoop: "test", "post" or "exited"
  lpc,             \* ListenForRevert: "sleep" or "append" (past its checks)
  judgedTip,       \* last tip the watchdog found without a block, or -1
  revertTxs,       \* WorkingHeight of each RevertToPOW appended to the pool
  recovers,        \* recover goroutines running
  recovered        \* recoverChan <- true sends

chainVars == <<height, lastTs, now, powMode>>
arbVars   == <<received, lastForward, enableViewLoop, viewPc, recovers, recovered>>
powVars   == <<lpc, judgedTip, revertTxs>>
vars      == <<chainVars, arbVars, powVars>>

ASSUME
  /\ StopConfirmBlockTime <= RevertToPOWNoBlockTime
  /\ StopConfirmBlockTimeV1 <= RevertToPOWNoBlockTimeV1
  /\ StopConfirmBlockTimeV1 <= RevertToPOWNoBlockTime

-----------------------------------------------------------------------------
(* Arbitrator.OnBlockReceived: the stop-confirm time is chosen by the      *)
(* height of the received block.                                            *)
\* Mutant: the V1 switch is forgotten.
StopConfirmTime_noV1(h) == StopConfirmBlockTime

StopConfirmTime(h) ==
  IF h < ChangeViewV1Height THEN StopConfirmBlockTime ELSE StopConfirmBlockTimeV1

StopConfirmed(h) ==
  h >= RevertToPOWStartHeight /\ now - lastTs >= StopConfirmTime(h)

\* the goroutine started for the block at height h runs
OnBlockReceived(h, current) ==
  /\ h \in received
  /\ received' = received \ {h}
  /\ lastForward' = IF current /\ ~StopConfirmed(h)
                    THEN <<h, height, now>> ELSE lastForward
  /\ UNCHANGED <<chainVars, enableViewLoop, viewPc, recovers, recovered,
                 powVars>>

(* The events.Subscribe callback of NewArbitrator: a block event starts  *)
(* an OnBlockReceived goroutine.  The confirm, illegal-evidence, sidechain *)
(* and peer events only hand their payload to the network.                 *)
NewBlockReceived ==
  /\ height < MaxHeight
  /\ received' = received \cup {height + 1}
  /\ UNCHANGED <<chainVars, lastForward, enableViewLoop, viewPc, recovers,
                 recovered, powVars>>

(* OnInactiveArbitratorsTxReceived on a node that is not an arbiter: if it  *)
(* is among the first GetArbitersCount()/3 candidates it forces the arbiter *)
(* change and, when that succeeds, starts recover (an arbiter only posts    *)
(* the task to the network).                                                *)
EmergencyCandidate ==
  \E i \in 1..Len(Candidates) :
    i <= ArbitersCount \div 3 /\ Candidates[i] = Self

OnInactiveArbitratorsTxReceived(isArbiter) ==
  /\ ~isArbiter /\ EmergencyCandidate
  /\ recovers + recovered < MaxRecovers
  /\ recovers' = recovers + 1
  /\ UNCHANGED <<chainVars, received, lastForward, enableViewLoop, viewPc,
                 recovered, powVars>>

\* Mutant: the return after the send is dropped; the loop keeps sending.
Recover_noReturn(current, minority) ==
  /\ recovers > 0 /\ current /\ minority
  /\ recovered' = recovered + 1
  /\ UNCHANGED <<chainVars, received, lastForward, enableViewLoop, viewPc,
                 recovers, powVars>>

\* Arbitrator.recover: poll once a second until current with a minority
Recover(current, minority) ==
  /\ recovers > 0 /\ current /\ minority
  /\ recovers' = recovers - 1
  /\ recovered' = recovered + 1
  /\ UNCHANGED <<chainVars, received, lastForward, enableViewLoop, viewPc,
                 powVars>>

-----------------------------------------------------------------------------
(* changeViewLoop: the loop condition reads enableViewLoop, which Stop     *)
(* writes from another goroutine without synchronisation.  That data race  *)
(* lets a test after Stop still read the old TRUE, so once the flag is     *)
(* cleared the test may exit or post again.                                *)
ViewLoopTest ==
  /\ viewPc = "test"
  /\ viewPc' \in IF enableViewLoop THEN {"post"} ELSE {"post", "exited"}
  /\ UNCHANGED <<chainVars, received, lastForward, enableViewLoop, recovers,
                 recovered, powVars>>

\* PostChangeViewTask, then sleep one second
ViewLoopPost ==
  /\ viewPc = "post"
  /\ viewPc' = "test"
  /\ UNCHANGED <<chainVars, received, lastForward, enableViewLoop, recovers,
                 recovered, powVars>>

ChangeViewLoop == ViewLoopTest \/ ViewLoopPost

\* Arbitrator.Stop clears the flag, then stops the network
Stop ==
  /\ enableViewLoop
  /\ enableViewLoop' = FALSE
  /\ UNCHANGED <<chainVars, received, lastForward, viewPc, recovers,
                 recovered, powVars>>

-----------------------------------------------------------------------------
(* ListenForRevert, one wake-up: lines 24-44 read the height, the mode,    *)
(* the last block time and the clock and may continue; lines 46-66 read    *)
(* BestChain.Height again for the WorkingHeight and append the transaction *)
(* (an error of the pool is logged).                                        *)
NoBlockTime(h) ==
  IF h < ChangeViewV1Height THEN RevertToPOWNoBlockTime
  ELSE RevertToPOWNoBlockTimeV1

ListenerCheck ==
  /\ lpc = "sleep"
  /\ height >= RevertToPOWStartHeight
  /\ ~powMode
  /\ now - lastTs >= NoBlockTime(height)
  /\ lpc' = "append"
  /\ judgedTip' = height
  /\ UNCHANGED <<chainVars, arbVars, revertTxs>>

ListenerAppend ==
  /\ lpc = "append"
  /\ lpc' = "sleep"
  /\ \/ revertTxs' = revertTxs \cup {height + 1}
     \/ UNCHANGED revertTxs
  /\ UNCHANGED <<chainVars, arbVars, judgedTip>>

RevertListener == ListenerCheck \/ ListenerAppend

-----------------------------------------------------------------------------
(* The environment.  The local clock only moves forward.  A block saved    *)
(* by the chain (confirmed by DPoS, synced, or mined in PoW mode) is the    *)
(* new tip and its time the last block time; a block that carries the      *)
(* RevertToPOW for its height switches the arbiters to PoW mode.           *)
Tick ==
  /\ now < MaxTime
  /\ now' = now + 1
  /\ UNCHANGED <<height, lastTs, powMode, arbVars, powVars>>

SaveBlock(revert) ==
  /\ height < MaxHeight
  /\ revert => ~powMode /\ height + 1 \in revertTxs
  /\ height' = height + 1
  /\ lastTs' = now
  /\ powMode' = (powMode \/ revert)
  /\ UNCHANGED <<now, arbVars, powVars>>

\* DPoS resumes once enough producers are elected again
ResumeDPoS ==
  /\ powMode
  /\ powMode' = FALSE
  /\ UNCHANGED <<height, lastTs, now, arbVars, powVars>>

-----------------------------------------------------------------------------
Init ==
  /\ height = 0 /\ lastTs = 0 /\ now = 0 /\ powMode = FALSE
  /\ received = {} /\ lastForward = <<>>
  /\ enableViewLoop = TRUE /\ viewPc = "test"
  /\ lpc = "sleep" /\ judgedTip = -1 /\ revertTxs = {}
  /\ recovers = 0 /\ recovered = 0

Next ==
  \/ \E h \in 1..MaxHeight, c \in BOOLEAN : OnBlockReceived(h, c)
  \/ NewBlockReceived
  \/ \E a \in BOOLEAN : OnInactiveArbitratorsTxReceived(a)
  \/ \E c, m \in BOOLEAN : Recover(c, m)
  \/ ChangeViewLoop
  \/ Stop
  \/ RevertListener
  \/ Tick
  \/ \E r \in BOOLEAN : SaveBlock(r)
  \/ ResumeDPoS

Spec == Init /\ [][Next]_vars

-----------------------------------------------------------------------------
TypeOK ==
  /\ height \in 0..MaxHeight /\ lastTs \in 0..MaxTime /\ now \in 0..MaxTime
  /\ lastTs <= now
  /\ received \subseteq 1..MaxHeight
  /\ lastForward \in {<<>>} \cup ((1..MaxHeight) \X (0..MaxHeight) \X (0..MaxTime))
  /\ viewPc \in {"test", "post", "exited"} /\ lpc \in {"sleep", "append"}
  /\ judgedTip \in -1..MaxHeight /\ revertTxs \subseteq 1..MaxHeight + 1
  /\ recovers \in 0..MaxRecovers /\ recovered \in 0..MaxRecovers

(* The arbitrator never forwards the next block for confirmation on top of *)
(* a tip that the revert watchdog has already found without a block for   *)
(* its no-block time: OnBlockReceived's stop-confirm time (chosen by the   *)
(* received block's height) always expires no later than the watchdog's   *)
(* no-block time (chosen by the tip's height), also across                 *)
(* ChangeViewV1Height, so DPoS stops confirming before PoW takes over.     *)
NoConfirmOnDeadTip ==
  [][lastForward' # lastForward /\ lastForward'[1] = height + 1
       => judgedTip # height]_vars
=============================================================================
