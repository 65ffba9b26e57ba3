----------------------- MODULE CoordinatorProperties -----------------------
(***************************************************************************)
(* What the coordinator should keep: its backup in memory, the backup on   *)
(* disk, the drift shown for it, the spacing of recalls, and what happens  *)
(* in the end.  The last section states what comments of the code promise  *)
(* and the code does not keep.                                             *)
(***************************************************************************)
EXTENDS Coordinator

----------------------------------------------------------------------------
(* Safety.                                                                 *)

Busy == {"sending", "refreshing", "saving"}

\* The caller t writes what a caller with request r would also write.
Touches(t, r) ==
    /\ task[t].pc \notin {"idle", "refused"}
    /\ \/ task[t].req.kind = r.kind
       \/ {task[t].req.kind, r.kind} \subseteq {"rename", "save", "clear"}
    /\ task[t].req.port = r.port

SoleToucher(t) == \A u \in Tasks \ {t} : ~Touches(u, task[t].req)

Renaming(k) == \E t \in Tasks : /\ task[t].pc = "refreshing"
                                /\ task[t].req.kind = "rename"
                                /\ task[t].req.port = k

ChangingEdid(i) == \E t \in Tasks : /\ task[t].pc = "refreshing"
                                    /\ task[t].req.kind = "edid"
                                    /\ task[t].req.port = i

SavingBackup == \E t \in Tasks : task[t].pc = "saving" /\ task[t].req.kind # "recall"

(***************************************************************************)
(* The drift sensors say what a comparison of the state on show with the   *)
(* backup would say, except for a slot or an input whose own rename or     *)
(* EDID change is awaiting its refresh, and while a backup is being saved. *)
(* coordinator.py recomputes them in polls and saves only.                 *)
(***************************************************************************)
DriftCurrent ==
    LET fresh == BackupDrift(data, backup, edidBackup) IN
    \/ SavingBackup
    \/ /\ \A k \in Slots : ~Renaming(k) =>
              (k \in drift.presets <=> k \in fresh.presets)
       /\ \A i \in Inputs : ~ChangingEdid(i) =>
              (i \in drift.edids <=> i \in fresh.edids)

(***************************************************************************)
(* A change of the backup is on disk, or is the very content the store has *)
(* yet to take and some caller is there to see it written: overlapping     *)
(* saves never leave an older snapshot behind.                             *)
(***************************************************************************)
DiskCurrent ==
    LET latest == IF pending = None THEN disk ELSE pending IN
    /\ latest.presets = backup
    /\ latest.edids = edidBackup
    /\ pending # None => \E t \in Tasks : task[t].pc = "saving"

(***************************************************************************)
(* What a caller was told is done survives on disk, across restarts too,   *)
(* as long as nobody else wrote the same slot or input.                    *)
(***************************************************************************)
AcknowledgedIsDurable ==
    \A t \in Tasks :
        LET r == task[t].req IN
        task[t].pc = "done" /\ SoleToucher(t) =>
            /\ r.kind = "save" => disk.presets[r.port] # None
            /\ r.kind = "clear" => disk.presets[r.port] = None
            /\ r.kind = "rename" /\ disk.presets[r.port] # None =>
                  disk.presets[r.port].name = r.value
            /\ r.kind = "edid" => disk.edids[r.port] \in {None, r.value}

(***************************************************************************)
(* Once its caller was answered, a slot or input only that caller wrote    *)
(* carries in the backup the name or profile it has on the matrix, unless  *)
(* somebody changed the matrix behind the integration's back.              *)
(***************************************************************************)
BackupInStep ==
    \A t \in Tasks :
        LET r == task[t].req IN
        task[t].pc = "done" /\ SoleToucher(t) /\ outside = 0 =>
            /\ r.kind \in {"rename", "save"} /\ backup[r.port] # None =>
                  backup[r.port].name = device.names[r.port]
            /\ r.kind = "edid" /\ edidBackup[r.port] # None =>
                  edidBackup[r.port] = device.edids[r.port]

Recalling(t) == task[t].req.kind = "recall" /\ task[t].pc \in Busy \cup {"done"}

(***************************************************************************)
(* Two recalls let through are at least the cool-down apart when they are  *)
(* let through, as long as none failed and the integration ran on.         *)
(***************************************************************************)
RecallsSpaced ==
    \/ restarts > 0
    \/ \E t \in Tasks : task[t].req.kind = "recall" /\ task[t].pc = "failed"
    \/ \A t, u \in Tasks : t # u /\ Recalling(t) /\ Recalling(u) =>
          task[t].at - task[u].at >= Cooldown \/ task[u].at - task[t].at >= Cooldown

\* Somebody who has a command or a read to send.
Goes(a) ==
    \/ a \in Tasks /\ task[a].pc = "sending"
    \/ a \in Polls /\ poll[a].reading > 0

SomebodyMoves ==
    \/ \E t \in Tasks : Resuming(t)
    \/ \E a \in Tasks \cup Polls : Holds(a) /\ Goes(a)
    \/ timer /\ poll["scheduled"].reading = 0

(***************************************************************************)
(* Whoever has a command or a read to send has exactly one place in the    *)
(* queue of the client's lock; a caller that awaits its refresh is about   *)
(* to resume, or the refresh is in progress; and at every moment a caller  *)
(* is to resume, the holder of the lock has something to send, or the next *)
(* scheduled refresh is armed.                                             *)
(***************************************************************************)
NobodyStranded ==
    /\ \A a \in Tasks \cup Polls : Goes(a) <=> \E i \in 1..Len(queue) : queue[i] = a
    /\ \A i, j \in 1..Len(queue) : queue[i] = queue[j] => i = j
    /\ \A t \in Tasks : task[t].pc = "refreshing" => Resuming(t) \/ Goes("requested")
    /\ SomebodyMoves

----------------------------------------------------------------------------
(* Liveness.                                                               *)

(***************************************************************************)
(* Every call comes to an end: the lock's queue, the shared refresh and    *)
(* the store never leave a coroutine waiting.                              *)
(***************************************************************************)
CallsReturn == \A t \in Tasks : task[t].pc \in Busy ~> task[t].pc \notin Busy

(***************************************************************************)
(* When the faults and the changes stop, the state on show and the drift   *)
(* end up right for good, whichever optimistic values, stale polls and     *)
(* dropped refreshes came before.  Not in a standby with blank tables.     *)
(***************************************************************************)
EventuallyConfirmed ==
    <>[](\/ Blank
         \/ online /\ data = device /\ drift = BackupDrift(device, backup, edidBackup))

(***************************************************************************)
(* And so does the active preset: it names a slot whose backup the routing *)
(* is, or no slot when none matches, whoever recalled or changed what, as  *)
(* long as there is a backup to match and the matrix is on.  So an output  *)
(* routed after a recall takes the preset select off the preset recalled,  *)
(* where the repository's README.md says it leaves it on it.               *)
(***************************************************************************)
EventuallyDerived ==
    <>[](device.power /\ ~NoPresets(backup) =>
            IF active = None THEN Matches(device, backup) = {}
            ELSE active \in Matches(device, backup))

----------------------------------------------------------------------------
(* What comments of the code promise and the code does not keep.           *)

Undisturbed == outside = 0 /\ restarts = 0

(***************************************************************************)
(* "Recall a preset and remember it as the active one", "record which      *)
(* preset was applied": once a lone recall has returned, the store has its *)
(* slot.  The refresh inside the write reads a matrix still switching,     *)
(* derives that no slot is active, and that is what is persisted.          *)
(***************************************************************************)
RecallIsRemembered ==
    Undisturbed /\ (\A t \in Tasks : task[t].req.kind \in {"recall", "command"}) =>
        \A t \in Tasks : task[t].pc = "done" /\ task[t].req.kind = "recall" =>
            \E u \in Tasks : task[u].req.kind = "recall" /\ disk.active = task[u].req.port
=============================================================================
