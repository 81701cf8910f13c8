-------------------------- MODULE CheckpointManager --------------------------
(***************************************************************************)
(* The checkpoint manager of core/checkpoint/manager.go together with the  *)
(* parts of its environment that it drives:                                *)
(*                                                                         *)
(*  - the registered checkpoints (ICheckPoint): a live state built from    *)
(*    the blocks delivered by OnBlockSaved through an undo journal         *)
(*    (History), and the height set by SetHeight when a snapshot is taken; *)
(*  - one file channel per key, a FIFO of Save / Replace commands served   *)
(*    by a background worker that writes <height><ext> files and the       *)
(*    "default" file (the channel code is not in src/: spec section 4.5);  *)
(*  - the block chain that feeds it: blocks are saved, rolled back by at   *)
(*    most MaxRollback blocks, and the node may crash and restart, after   *)
(*    which it registers the checkpoints, calls Restore and replays the    *)
(*    chain from SafeHeight with init = TRUE.                              *)
(*                                                                         *)
(* A block is a pair <<height, version>>: two versions of one height are   *)
(* the two sides of a fork.  A checkpoint's state is the sequence of the   *)
(* blocks its History holds, in the order they were applied.               *)
(***************************************************************************)
EXTENDS Integers, Sequences, FiniteSets, FiniteSetsExt, Functions

CONSTANTS
  Keys,             \* checkpoint keys (ICheckPoint.Key)
  Priority,         \* Keys -> 0..6  (VeryHigh = 0 .. VeryLow = 6)
  StartHeight,      \* Keys -> Nat   (ICheckPoint.StartHeight)
  SavePeriod,       \* Keys -> Nat   (ICheckPoint.SavePeriod)
  SaveStartHeight,  \* Keys -> Nat   (ICheckPoint.SaveStartHeight)
  EffectivePeriod,  \* Keys -> Nat   (ICheckPoint.EffectivePeriod)
  Versions,         \* block versions at one height (fork sides)
  FirstVersion,     \* the version of the first block seen at a height
  NeedSaveCfg,      \* CheckPointConfiguration.NeedSave at start-up
  EnableHistory,    \* CheckPointConfiguration.EnableHistory
  MaxFiles,         \* MaxCheckPointFilesCount: height files kept per key
  MaxRollback,      \* deepest rollback the chain performs (6 in the node)
  MaxHeight,        \* bound: highest block height
  MaxCrashes,       \* bound: number of crashes
  MaxReorgs,        \* bound: number of rollbacks
  NoFile            \* model value: no default file / nothing returned

ASSUME
  /\ FirstVersion \in Versions
  /\ Priority \in [Keys -> 0..6]
  /\ \A k \in Keys : SavePeriod[k] \in Nat \ {0} /\ EffectivePeriod[k] \in Nat
  /\ MaxFiles \in Nat \ {0} /\ MaxRollback \in Nat /\ MaxHeight \in Nat

VARIABLES
  chain,        \* best chain in the block database: chain[h] is the version
  maxTip,       \* highest tip reached: blocks below maxTip-MaxRollback are final
  pending,      \* the tip block is saved but OnBlockSaved has not run yet
  files,        \* files[k]: set of [h, s] snapshots written as <h><ext>
  dflt,         \* dflt[k]: snapshot in default<ext>, or NoFile
  phase,        \* "down" (starting, before Restore) or "up"
  registered,   \* keys of Manager.checkpoints
  height,       \* ICheckPoint.GetHeight of each checkpoint
  live,         \* live state of each checkpoint (blocks held by its History)
  base,         \* height of the snapshot the state was restored from
  chan,         \* pending commands of each key's file channel
  needSave,     \* CheckPointConfiguration.NeedSave
  crashes,      \* number of crashes so far
  reorgs,       \* number of rollbacks so far
  restoreErr,   \* error returned by the last Restore
  rollbackErr,  \* an OnRollbackTo returned an error
  lastGet       \* outcome of the last GetCheckpoint

persistent == <<chain, maxTip, pending, files, dflt>>
volatile   == <<phase, registered, height, live, base, chan, needSave>>
aux        == <<crashes, reorgs, restoreErr, rollbackErr, lastGet>>
vars       == <<persistent, volatile, aux>>

Tip == Len(chain)

\* The blocks of the best chain at heights lo..hi, as a checkpoint holds them.
Segment(lo, hi) ==
  LET l == Max({lo, 1})
  IN  [i \in 1..(hi - l + 1) |-> <<l + i - 1, chain[l + i - 1]>>]

Snapshots == [h : 0..MaxHeight, s : Seq((1..MaxHeight) \X Versions)]

-----------------------------------------------------------------------------
(* Manager.getOrderedCheckpoints: the registered checkpoints sorted by      *)
(* priority with sort.Slice, which is not stable, so checkpoints of equal   *)
(* priority come in any order.                                              *)
getOrderedCheckpoints(S) ==
  { o \in Bijection(1..Cardinality(S), S) :
      \A i, j \in 1..Cardinality(S) : i < j => Priority[o[i]] <= Priority[o[j]] }

(* Manager.SafeHeight: the lowest max(GetHeight - EffectivePeriod,         *)
(* StartHeight) over the registered checkpoints; MaxUint32 when none.      *)
SafeHeight(h, S) ==
  LET recordHeight(k) == IF h[k] >= EffectivePeriod[k]
                         THEN h[k] - EffectivePeriod[k] ELSE 0
      safe(k)         == Max({recordHeight(k), StartHeight[k]})
  IN  IF S = {} THEN MaxHeight + 1 ELSE Min({safe(k) : k \in S})

(* Manager.findHistoryCheckpoint: step back from the current height by     *)
(* SavePeriod until at or below the height asked for.                      *)
RECURSIVE StepBack(_, _, _)
StepBack(best, find, period) ==
  IF best > find /\ best >= period THEN StepBack(best - period, find, period)
                                   ELSE best

findHistoryCheckpoint(k, find) ==
  LET b0   == StepBack(height[k], find, SavePeriod[k])
      best == IF b0 > find THEN 0 ELSE b0
      hit  == {f \in files[k] : f.h = best}
  IN  IF hit = {} THEN NoFile ELSE CHOOSE f \in hit : TRUE

-----------------------------------------------------------------------------
(* Manager.onBlockSaved, for one checkpoint k and block blk = <<n, ver>>:   *)
(* deliver the block unless it is below StartHeight or not above the       *)
(* checkpoint's height; then, when saving, queue a Replace of the default  *)
(* file by the snapshot EffectivePeriod blocks old, and a Save of a new    *)
(* snapshot once SavePeriod blocks have passed (SetHeight first).          *)
\* Mutant: a checkpoint also takes the block at its own height.
Delivers_reapply(k, n, h) == n >= StartHeight[k] /\ n >= h

Delivers(k, n, h) == n >= StartHeight[k] /\ n > h

Saves(k, n, init) == Delivers(k, n, height[k]) /\ needSave /\ ~init /\ n > SaveStartHeight[k]

BlockSavedLive(k, blk) ==
  IF Delivers(k, blk[1], height[k]) THEN Append(live[k], blk) ELSE live[k]

BlockSavedHeight(k, blk, init) ==
  IF Saves(k, blk[1], init) /\ blk[1] >= height[k] + SavePeriod[k]
  THEN blk[1] ELSE height[k]

\* Mutant: the snapshot is taken before the block is applied.
BlockSavedCommands_early(k, blk, init) ==
  LET n       == blk[1]
      orig    == height[k]
      replace == IF orig > 0 /\ n = orig + EffectivePeriod[k]
                 THEN <<[op |-> "replace", h |-> orig]>> ELSE <<>>
      save    == IF n >= orig + SavePeriod[k]
                 THEN <<[op |-> "save", h |-> n, s |-> live[k]]>>
                 ELSE <<>>
  IN  IF Saves(k, n, init) THEN replace \o save ELSE <<>>

\* Mutant: Save (with SetHeight) is done first and Replace then promotes
\* GetHeight(), i.e. the snapshot just taken.
BlockSavedCommands_latest(k, blk, init) ==
  LET n       == blk[1]
      orig    == height[k]
      save    == IF n >= orig + SavePeriod[k]
                 THEN <<[op |-> "save", h |-> n, s |-> BlockSavedLive(k, blk)]>>
                 ELSE <<>>
      replace == IF orig > 0 /\ n = orig + EffectivePeriod[k]
                 THEN <<[op |-> "replace", h |-> BlockSavedHeight(k, blk, init)]>>
                 ELSE <<>>
  IN  IF Saves(k, n, init) THEN save \o replace ELSE <<>>

BlockSavedCommands(k, blk, init) ==
  LET n       == blk[1]
      orig    == height[k]
      replace == IF orig > 0 /\ n = orig + EffectivePeriod[k]
                 THEN <<[op |-> "replace", h |-> orig]>> ELSE <<>>
      save    == IF n >= orig + SavePeriod[k]
                 THEN <<[op |-> "save", h |-> n, s |-> BlockSavedLive(k, blk)]>>
                 ELSE <<>>
  IN  IF Saves(k, n, init) THEN replace \o save ELSE <<>>

OnBlockSaved(blk, init) ==
  /\ live'   = [k \in Keys |-> IF k \in registered THEN BlockSavedLive(k, blk) ELSE live[k]]
  /\ height' = [k \in Keys |-> IF k \in registered THEN BlockSavedHeight(k, blk, init) ELSE height[k]]
  /\ chan'   = [k \in Keys |-> IF k \in registered
                               THEN chan[k] \o BlockSavedCommands(k, blk, init)
                               ELSE chan[k]]

-----------------------------------------------------------------------------
(* Start-up: Manager.Register of each checkpoint, before Restore.           *)
Register(k) ==
  /\ phase = "down"
  /\ k \notin registered
  /\ registered' = registered \cup {k}
  /\ chan' = [chan EXCEPT ![k] = <<>>]
  /\ UNCHANGED <<persistent, phase, height, live, base, needSave, aux>>

(* Manager.Restore: in priority order load default<ext> into each          *)
(* checkpoint (skipping OnInit when that fails); the error returned is the  *)
(* one of the last checkpoint.  The node then replays the stored chain     *)
(* from SafeHeight through OnBlockSaved with init = TRUE.                  *)
Restore ==
  /\ phase = "down"
  /\ \E o \in getOrderedCheckpoints(registered) :
       LET n == Cardinality(registered)
           loaded(k) == k \in registered /\ dflt[k] # NoFile
           h0 == [k \in Keys |-> IF loaded(k) THEN dflt[k].h ELSE height[k]]
           s0 == [k \in Keys |-> IF loaded(k) THEN dflt[k].s ELSE live[k]]
           from == SafeHeight(h0, registered)
           replay(k) == SelectSeq(Segment(from, Tip), LAMBDA b : Delivers(k, b[1], h0[k]))
       IN  /\ restoreErr' = (n > 0 /\ dflt[o[n]] = NoFile)
           /\ height' = h0
           /\ base' = [k \in Keys |-> IF loaded(k) THEN dflt[k].h ELSE base[k]]
           /\ live' = [k \in Keys |-> IF k \in registered THEN s0[k] \o replay(k)
                                                           ELSE s0[k]]
  /\ phase' = "up"
  /\ pending' = FALSE
  /\ UNCHANGED <<chain, maxTip, files, dflt, registered, chan, needSave,
                 crashes, reorgs, rollbackErr, lastGet>>

(* The block chain stores block <<Tip+1, v>> in its database ...  The      *)
(* first block ever seen at a height is named FirstVersion; only a block   *)
(* replacing a rolled-back one can be another version (names are          *)
(* symmetric, so this loses no behaviour).                                 *)
SaveBlock(v) ==
  /\ phase = "up" /\ ~pending
  /\ Tip < MaxHeight
  /\ Tip + 1 > maxTip => v = FirstVersion
  /\ chain' = Append(chain, v)
  /\ maxTip' = Max({maxTip, Tip + 1})
  /\ pending' = TRUE
  /\ UNCHANGED <<files, dflt, volatile, aux>>

(* ... then calls Manager.OnBlockSaved with it (async, init = FALSE).       *)
BlockSaved ==
  /\ phase = "up" /\ pending
  /\ OnBlockSaved(<<Tip, chain[Tip]>>, FALSE)
  /\ pending' = FALSE
  /\ UNCHANGED <<chain, maxTip, files, dflt, phase, registered, base, needSave, aux>>

(* Manager.OnRollbackTo: the chain drops its blocks above r, then each      *)
(* checkpoint in priority order undoes its History above r.  A checkpoint  *)
(* restored from a snapshot cannot undo below it and returns an error,     *)
(* which stops the loop.                                                    *)
OnRollbackTo(r) ==
  /\ phase = "up" /\ ~pending
  /\ r < Tip /\ r >= maxTip - MaxRollback /\ r >= 0
  /\ reorgs < MaxReorgs
  /\ reorgs' = reorgs + 1
  /\ chain' = SubSeq(chain, 1, r)
  /\ \E o \in getOrderedCheckpoints(registered) :
       LET n     == Cardinality(registered)
           fails == {i \in 1..n : r < base[o[i]]}
           stop  == IF fails = {} THEN n + 1 ELSE Min(fails)
           done  == {o[i] : i \in 1..(stop - 1)}
       IN  /\ live' = [k \in Keys |-> IF k \in done
                                      THEN SelectSeq(live[k], LAMBDA b : b[1] <= r)
                                      ELSE live[k]]
           /\ rollbackErr' = (rollbackErr \/ fails # {})
  /\ UNCHANGED <<maxTip, pending, files, dflt, phase, registered, height, base,
                 chan, needSave, crashes, restoreErr, lastGet>>

(* Manager.Unregister: drop the checkpoint; its channel exits after        *)
(* flushing what it holds.                                                  *)
Unregister(k) ==
  /\ phase = "up"
  /\ k \in registered
  /\ registered' = registered \ {k}
  /\ UNCHANGED <<persistent, phase, height, live, base, chan, needSave, aux>>

(* Manager.SetNeedSave.                                                     *)
SetNeedSave(b) ==
  /\ phase = "up"
  /\ needSave' = b
  /\ UNCHANGED <<persistent, phase, registered, height, live, base, chan, aux>>

-----------------------------------------------------------------------------
(* The file channel worker of key k serves its oldest command; the write   *)
(* may fail (the error is logged and the command dropped).  Save writes    *)
(* <h><ext> and evicts the oldest files beyond MaxFiles; Replace copies    *)
(* <h><ext> over default<ext> when that file exists.                       *)
\* Mutant: eviction only starts one file past the limit.
Evict_late(fs) == IF Cardinality(fs) > MaxFiles + 1
                  THEN LET oldest == Min({f.h : f \in fs}) IN {f \in fs : f.h # oldest}
                  ELSE fs

Evict(fs) == IF Cardinality(fs) > MaxFiles
             THEN LET oldest == Min({f.h : f \in fs}) IN {f \in fs : f.h # oldest}
             ELSE fs

FileChannelServe(k) ==
  /\ phase = "up"
  /\ chan[k] # <<>>
  /\ LET c == Head(chan[k]) IN
       \/ /\ c.op = "save"
          /\ files' = [files EXCEPT ![k] =
                         Evict({f \in @ : f.h # c.h} \cup {[h |-> c.h, s |-> c.s]})]
          /\ UNCHANGED dflt
       \/ /\ c.op = "replace"
          /\ dflt' = [dflt EXCEPT ![k] =
                        IF \E f \in files[k] : f.h = c.h
                        THEN CHOOSE f \in files[k] : f.h = c.h ELSE @]
          /\ UNCHANGED files
       \/ /\ UNCHANGED <<files, dflt>>         \* I/O error, logged
  /\ chan' = [chan EXCEPT ![k] = Tail(@)]
  /\ UNCHANGED <<chain, maxTip, pending, phase, registered, height, live, base,
                 needSave, aux>>

(* The process stops: everything but the chain database and the files is   *)
(* lost, queued file commands included.                                     *)
ProcessLost ==
  /\ crashes' = crashes + 1
  /\ phase' = "down"
  /\ registered' = {}
  /\ chan' = [k \in Keys |-> <<>>]
  /\ height' = [k \in Keys |-> 0]
  /\ live' = [k \in Keys |-> <<>>]
  /\ base' = [k \in Keys |-> 0]
  /\ needSave' = NeedSaveCfg

(* Manager.GetCheckpoint(k, at) under the read lock.  The map lookup is     *)
(* followed by checkpoint.GetHeight() before the found test, so a key that *)
(* is not registered dereferences a nil interface: the node panics.        *)
GetCheckpoint(k, at) ==
  /\ phase = "up"
  /\ \/ /\ k \notin registered
        /\ crashes < MaxCrashes
        /\ lastGet' = "panic"
        /\ ProcessLost
     \/ /\ k \in registered
        /\ at >= height[k]
        /\ lastGet' = "live"
        /\ UNCHANGED <<volatile, crashes>>
     \/ /\ k \in registered
        /\ at < height[k]
        /\ lastGet' = IF EnableHistory /\ findHistoryCheckpoint(k, at) # NoFile
                      THEN "file" ELSE "none"
        /\ UNCHANGED <<volatile, crashes>>
  /\ UNCHANGED <<persistent, reorgs, restoreErr, rollbackErr>>

(* The node crashes at any point between two of the steps above.          *)
Crash ==
  /\ phase = "up"
  /\ crashes < MaxCrashes
  /\ ProcessLost
  /\ UNCHANGED <<persistent, reorgs, restoreErr, rollbackErr, lastGet>>

-----------------------------------------------------------------------------
Init ==
  /\ chain = <<>>
  /\ maxTip = 0
  /\ pending = FALSE
  /\ files = [k \in Keys |-> {}]
  /\ dflt = [k \in Keys |-> NoFile]
  /\ phase = "down"
  /\ registered = {}
  /\ height = [k \in Keys |-> 0]
  /\ live = [k \in Keys |-> <<>>]
  /\ base = [k \in Keys |-> 0]
  /\ chan = [k \in Keys |-> <<>>]
  /\ needSave = NeedSaveCfg
  /\ crashes = 0
  /\ reorgs = 0
  /\ restoreErr = FALSE
  /\ rollbackErr = FALSE
  /\ lastGet = "none"

Next ==
  \/ \E k \in Keys : Register(k)
  \/ Restore
  \/ \E v \in Versions : SaveBlock(v)
  \/ BlockSaved
  \/ \E r \in 0..MaxHeight : OnRollbackTo(r)
  \/ \E k \in Keys : Unregister(k)
  \/ \E b \in BOOLEAN : SetNeedSave(b)
  \/ \E k \in Keys : FileChannelServe(k)
  \/ \E k \in Keys, at \in 0..MaxHeight : GetCheckpoint(k, at)
  \/ Crash

Spec == Init /\ [][Next]_vars

-----------------------------------------------------------------------------
TypeOK ==
  /\ chain \in Seq(Versions) /\ Tip <= MaxHeight
  /\ maxTip \in 0..MaxHeight /\ pending \in BOOLEAN
  /\ files \in [Keys -> SUBSET Snapshots]
  /\ \A k \in Keys : Cardinality(files[k]) <= MaxFiles
  /\ dflt \in [Keys -> Snapshots \cup {NoFile}]
  /\ phase \in {"down", "up"}
  /\ registered \subseteq Keys
  /\ height \in [Keys -> 0..MaxHeight]
  /\ base \in [Keys -> 0..MaxHeight]
  /\ needSave \in BOOLEAN
  /\ crashes \in 0..MaxCrashes /\ reorgs \in 0..MaxReorgs

(* Spec 5, ordering invariants: every registered checkpoint has applied    *)
(* exactly the blocks of the best chain from its StartHeight, in order,    *)
(* once OnBlockSaved of the tip has returned -- across async snapshot     *)
(* writes, lost file commands, crashes and Restore + replay on a chain     *)
(* without reorganisations (a rollback below a checkpoint's height breaks *)
(* it, manager.go:333).                                                     *)
LiveStateMatchesChain ==
  phase = "up" /\ ~pending =>
    \A k \in registered : live[k] = Segment(StartHeight[k], Tip)

(* A tolerated rollback (at most MaxRollback blocks below the highest tip) *)
(* never fails: the default snapshot a checkpoint is restored from is      *)
(* never above a height the chain can still roll back to, so the History   *)
(* replayed on top of it always reaches back far enough (Replace is only   *)
(* issued for the snapshot EffectivePeriod blocks old).                    *)
RollbackNeverFails == ~rollbackErr

(* GetCheckpoint, for any key and any height below the checkpoint's, only *)
(* hands out a snapshot file taken at or below the height asked for, and  *)
(* that file holds exactly the chain up to its height: SetHeight and the  *)
(* Snapshot follow the block, the async write keeps that content, and     *)
(* crashes and lost commands never leave a file that lies.                *)
HistoryLookupSound ==
  \A k \in registered, at \in 0..MaxHeight :
    at < height[k] /\ EnableHistory =>
      LET f == findHistoryCheckpoint(k, at)
      IN  f # NoFile => f.h <= at /\ f.s = Segment(StartHeight[k], f.h)

(* Spec 7 (fatal: failure to restore a mandatory default snapshot):        *)
(* Restore reports an error whenever a registered checkpoint could not     *)
(* load its default snapshot.                                               *)
RestoreReportsFailure ==
  [][Restore => (restoreErr' <=> \E k \in registered : dflt[k] = NoFile)]_vars
=============================================================================
