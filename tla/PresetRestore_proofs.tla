------------------------- MODULE PresetRestore_proofs -------------------------
(***************************************************************************)
(* Proofs about what the snapshot and the restore achieve: the backup is   *)
(* what the slots hold, the slots, names and EDIDs are what the backup     *)
(* has, and the routing is as it was.                                      *)
(***************************************************************************)
EXTENDS PresetTransfer_proofs

----------------------------------------------------------------------------
(* What each step does to the job and to what the job is about.            *)

Keeps(fields) == \A f \in fields : job'[f] = job[f]

\* What a job is about, and what of itself it settles when it starts.
Terms == {"kind", "before", "names", "others"}
Lists == {"plan", "live", "found", "cut", "wrong"}

StartEffect ==
    /\ UNCHANGED vars
    /\ job'.awaits = "nothing" /\ job'.others = {} /\ job'.misread = job.misread
    /\ job'.live = data.routes /\ job'.before = data.routes
    /\ \/ job'.kind = "snapshot" /\ job'.phase = "reading" /\ job'.plan = SnapshotPlan
       \/ /\ job'.kind = "restore" /\ job'.phase = "pushing" /\ job'.plan = PushPlan
          /\ ~NoPresets(backup)

SkipEffect(step) ==
    /\ UNCHANGED vars
    /\ Keeps(Terms \cup (Lists \ {"plan"}) \cup {"phase", "awaits", "misread"})
    /\ job'.plan = job.plan \ {step}
    /\ job.awaits = "nothing"
    /\ Satisfied(step.does)

\* The job joins the queue of the lock, or dials.
WaitEffect ==
    /\ UNCHANGED <<matrixVars, memory, disk, task, pollVars, boundVars>>
    /\ Keeps(Terms \cup Lists \cup {"phase", "misread"})
    /\ job'.awaits # "quiet"

PhaseEffect ==
    /\ UNCHANGED vars
    /\ Keeps(Terms \cup (Lists \ {"plan"}) \cup {"awaits", "misread"})
    /\ job.plan = {} /\ job.awaits = "nothing"
    /\ \/ job.phase = "pushing" /\ job'.phase = "returning" /\ job'.plan = RoutesTo(0, job.before)
       \/ job.phase = "returning" /\ job'.phase = "edids" /\ job'.plan = EdidPlan
       \/ job.phase = "edids" /\ job'.phase = "verifying" /\ job'.plan = VerifyPlan

CommandEffect(step) ==
    LET r == step.does IN
    /\ r \in Request /\ Execute(r)
    /\ UNCHANGED <<memory, disk, task, pollVars, boundVars>>
    /\ job.phase \in {"pushing", "returning", "edids"}
    /\ Keeps(Terms \cup {"phase", "found", "wrong", "misread"})
    /\ job'.awaits = "nothing" /\ job'.plan = job.plan \ {step}
    /\ job'.live = IF r.kind = "route" THEN [job.live EXCEPT ![r.port] = r.value] ELSE job.live

\* What comes for a slot: all of it, or a beginning.
SentEffect(step) ==
    LET k == step.does.port IN
    /\ UNCHANGED <<matrixVars, memory, disk, task, pollVars, now, outside, restarts>>
    /\ job.phase \in {"reading", "verifying"}
    /\ step.does \in [kind : {"read"}, port : Slots, value : Table \cup {None}]
    /\ Keeps(Terms \cup {"phase", "plan", "live", "misread"})
    /\ job'.awaits = "quiet"
    /\ \E table \in Table \cup {None} :
          /\ \/ table = slots[k] /\ job'.cut = job.cut
             \/ /\ slots[k] # None /\ table \in Beginnings(slots[k])
                /\ job'.cut = job.cut \cup {k}
          /\ job'.found = [job.found EXCEPT ![k] = table]
          /\ job'.wrong = IF table # step.does.value THEN job.wrong \cup {k} ELSE job.wrong

ReadEffect(step) ==
    /\ UNCHANGED vars
    /\ job.phase \in {"reading", "verifying"}
    /\ step.does.kind = "read"
    /\ Keeps(Terms \cup (Lists \ {"plan"}) \cup {"phase", "misread"})
    /\ job.awaits = "quiet" /\ job'.awaits = "nothing"
    /\ job'.plan = job.plan \ {step}

FailEffect ==
    /\ UNCHANGED <<memory, disk, task, pollVars, now, outside, restarts>>
    /\ Keeps({"misread"})
    /\ job.phase # "saving" /\ job'.phase = "failed"
    /\ \/ UNCHANGED matrixVars
       \/ /\ job.phase \in {"pushing", "returning", "edids"}
          /\ \E step \in job.plan : step.does \in Request /\ Execute(step.does)

KeepEffect ==
    /\ UNCHANGED <<matrixVars, data, disk, task, queue, pollVars, boundVars>>
    /\ backup' = Snapshot /\ edidBackup' = data.edids
    /\ job.phase = "reading" /\ job.plan = {} /\ job'.phase = "saving"
    /\ Keeps(Terms \cup {"cut"})
    /\ job'.misread = (job.misread \/ data.edids # device.edids)

StoredEffect ==
    /\ UNCHANGED <<matrixVars, data, backup, edidBackup, task, queue, pollVars, boundVars>>
    /\ disk' = IF pending # None THEN pending ELSE disk
    /\ job.phase = "saving" /\ job'.phase = "done"
    /\ Keeps(Terms \cup {"cut", "misread"})

AppliedEffect ==
    /\ UNCHANGED <<matrixVars, backup, edidBackup, disk, task, boundVars>>
    /\ data' = Restored(data)
    /\ \A p \in Polls : poll'[p] = poll[p] \/ poll'[p].reading = 1
    /\ job.phase = "verifying" /\ job.plan = {}
    /\ job'.phase \in {"refreshing", Verdict}
    /\ Keeps(Terms \cup Lists \cup {"misread"})

ReturnEffect ==
    /\ UNCHANGED <<matrixVars, memory, disk, task, poll, boundVars>>
    /\ job.phase = "refreshing" /\ job'.phase = Verdict
    /\ Keeps(Terms \cup Lists \cup {"misread"})

\* Somebody else acts, and does not kill the job.
OtherEffect ==
    /\ [Next]_vars
    /\ Restart => ~InProgress
    /\ Keeps({"kind", "before", "names", "phase", "awaits", "misread"} \cup Lists)
    /\ "routes" \notin job'.others => "routes" \notin job.others /\ device'.routes = device.routes
    /\ "slots" \notin job'.others => "slots" \notin job.others /\ slots' = slots

KillEffect == Restart /\ job'.phase = "failed" /\ Keeps({"misread"})

LEMMA Effects ==
    ASSUME JobOK, [TransferNext]_transferVars
    PROVE  \/ ~InProgress /\ StartEffect
           \/ \E step \in job.plan :
                 Due(step) /\ \/ SkipEffect(step) \/ CommandEffect(step)
                              \/ SentEffect(step) \/ ReadEffect(step)
           \/ WaitEffect \/ PhaseEffect \/ FailEffect
           \/ KeepEffect \/ StoredEffect \/ AppliedEffect \/ ReturnEffect
           \/ OtherEffect \/ KillEffect
<1> USE DEF Keeps, Terms, Lists
<1>1. job \in Job /\ job.plan \in SUBSET Step
  BY JobOKType
<1>2. CASE StartSnapshot \/ StartRestore
  BY <1>1, <1>2 DEF StartSnapshot, StartRestore, Start, NoJob, StartEffect
<1>3. CASE SkipSatisfied
  BY <1>1, <1>3, Standing DEF SkipSatisfied, SkipEffect, Job
<1>4. CASE Send
  BY <1>1, <1>4 DEF Send, WaitEffect, Job
<1>5. CASE Dial
  BY <1>1, <1>5 DEF Dial, WaitEffect, Job, vars
<1>6. CASE NextPhase
  BY <1>1, <1>6, Standing DEF NextPhase, PhaseEffect, Job
<1>7. CASE CommandDone
  <2>1. PICK step \in job.plan : Due(step) /\ Execute(step.does) /\ job' = Completed(step)
    BY <1>7 DEF CommandDone
  <2>2. /\ UNCHANGED <<memory, disk, task, pollVars, boundVars>> /\ job.awaits = "lock"
    BY <1>7 DEF CommandDone, Arrives
  <2>3. step.does \in Request /\ job.phase \in {"pushing", "returning", "edids"}
    BY <2>2, Standing
  <2> QED
    BY <1>1, <2>1, <2>2, <2>3 DEF CommandEffect, Completed, Job
<1>8. ASSUME SlotSent PROVE \E step \in job.plan : Due(step) /\ SentEffect(step)
  <2>1. PICK step \in job.plan : Due(step) /\ job' = Heard(step.does, slots[step.does.port])
    BY <1>8 DEF SlotSent
  <2>2. UNCHANGED vars /\ job.awaits = "slot"
    BY <1>8 DEF SlotSent, Arrives
  <2>3. /\ job.phase \in {"reading", "verifying"} /\ slots[step.does.port] \in Table \cup {None}
        /\ step.does \in [kind : {"read"}, port : Slots, value : Table \cup {None}]
    BY <2>2, Standing, JobOKType, TableTypes DEF CoreTypeOK, MatrixTypeOK, SlotContents
  <2> QED
    BY <1>1, <2>1, <2>2, <2>3 DEF SentEffect, Heard, Mismatches, Job, vars, boundVars
<1>20. ASSUME SlotCut PROVE \E step \in job.plan : Due(step) /\ SentEffect(step)
  <2>1. PICK step \in job.plan :
           /\ Due(step) /\ slots[step.does.port] # None
           /\ \E part \in Beginnings(slots[step.does.port]) :
                  job' = [Heard(step.does, part) EXCEPT !.cut = @ \cup {step.does.port}]
    BY <1>20 DEF SlotCut
  <2>2. /\ UNCHANGED <<matrixVars, memory, disk, task, pollVars, now, outside, restarts>>
        /\ job.awaits = "slot"
    BY <1>20 DEF SlotCut, Arrives
  <2>3. /\ job.phase \in {"reading", "verifying"} /\ slots[step.does.port] \in Routing
        /\ step.does \in [kind : {"read"}, port : Slots, value : Table \cup {None}]
    BY <2>1, <2>2, Standing, JobOKType DEF CoreTypeOK, MatrixTypeOK, SlotContents
  <2>4. PICK table \in Table :
           /\ table \in Beginnings(slots[step.does.port])
           /\ job' = [Heard(step.does, table) EXCEPT !.cut = @ \cup {step.does.port}]
    BY <2>1, <2>3, TableTypes
  <2> QED
    BY <1>1, <2>1, <2>2, <2>3, <2>4 DEF SentEffect, Heard, Mismatches, Job
<1>9. ASSUME SlotRead PROVE \E step \in job.plan : Due(step) /\ ReadEffect(step)
  <2>1. PICK step \in job.plan :
           Due(step) /\ job' = [job EXCEPT !.awaits = "nothing", !.plan = @ \ {step}]
    BY <1>9 DEF SlotRead
  <2>2. UNCHANGED vars /\ job.awaits = "quiet"
    BY <1>9 DEF SlotRead, Arrives
  <2> QED
    BY <1>1, <2>1, <2>2, Standing DEF ReadEffect, Job
<1>10. ASSUME NEW executed \in BOOLEAN, TransferFail(executed) PROVE FailEffect
  BY <1>1, <1>10, Standing DEF TransferFail, Arrives, FailEffect, Job
<1>11. CASE RefuseSnapshot
  BY <1>1, <1>11 DEF RefuseSnapshot, FailEffect, Job, vars, boundVars
<1>12. CASE KeepSnapshot
  BY <1>1, <1>12 DEF KeepSnapshot, KeepEffect, Job
<1>13. CASE SnapshotStored
  BY <1>1, <1>13 DEF SnapshotStored, StoredEffect, Job, JobOK, PhaseOK
<1>14. CASE ApplyRestored
  <2>1. /\ UNCHANGED <<matrixVars, backup, edidBackup, disk, task, boundVars>>
        /\ data' = Restored(data) /\ job.phase = "verifying" /\ job.plan = {}
        /\ \/ poll' = [poll EXCEPT !["requested"] = [@ EXCEPT !.reading = 1]]
           \/ poll' = poll
        /\ \/ job' = [job EXCEPT !.phase = "refreshing", !.awaits = "refresh"]
           \/ job' = [job EXCEPT !.phase = Verdict]
    BY <1>14 DEF ApplyRestored, backupVars
  <2>2. \A p \in Polls : poll'[p] = poll[p] \/ poll'[p].reading = 1
    BY <1>1, <2>1, JobOKType DEF CoreTypeOK, LoopTypeOK
  <2> QED
    BY <1>1, <2>1, <2>2 DEF AppliedEffect, Job
<1>15. CASE RestoreReturns
  BY <1>1, <1>15, RestoreReturnsOK DEF RestoreReturns, ReturnEffect, Job
<1>16. CASE Noted /\ [Next]_vars
  BY <1>1, <1>16 DEF Noted, OtherEffect, Job
<1>17. CASE Killed
  BY <1>1, <1>17 DEF Killed, KillEffect, Job
<1>18. CASE OthersAct \/ UNCHANGED transferVars
  BY <1>16, <1>17, <1>18, OthersOK
<1>19. CASE JobSteps
  BY <1>2, <1>3, <1>4, <1>5, <1>6, <1>7, <1>8, <1>9, <1>10, <1>11, <1>12, <1>13, <1>14, <1>15, <1>19, <1>20
  DEF JobSteps, StartSnapshot, StartRestore, Start
<1> QED
  BY <1>18, <1>19 DEF TransferNext

----------------------------------------------------------------------------
(* What the other callers leave alone: who saves nothing changes no backup *)
(* of a slot, and who sets no EDID none of an input.                       *)

CallersOK ==
    \A t \in Tasks : /\ task[t].pc = "idle" => task[t].req = NoRequest
                     /\ task[t].req.kind # "rename"

NoEdids == \A t \in Tasks : task[t].req.kind # "edid"

\* The disk has the backup as far as nobody is to change it.
DiskSettled ==
    job.phase # "saving" => /\ NoSaves => disk.presets = backup
                            /\ NoEdids => disk.edids = edidBackup

Settled == JobOK /\ CallersOK /\ TransferStore /\ DiskSettled

\* A request, once made, stays.
RequestsStay ==
    \A t \in Tasks : task'[t].req = task[t].req \/ task[t].req = NoRequest

LEMMA OthersRequests ==
    ASSUME CoreTypeOK, CallersOK, [Next]_vars
    PROVE  CallersOK' /\ RequestsStay
<1>1. ASSUME NEW t \in Tasks, NEW r \in Requests,
             Submit(t, r) \/ SubmitRecall(t, r) \/ RefuseRecall(t, r)
      PROVE  CallersOK' /\ RequestsStay
  <2>1. /\ task[t].pc = "idle" /\ r.kind # "rename"
        /\ \E pc \in {"sending", "refused"} :
               task' = [task EXCEPT ![t] = [pc |-> pc, req |-> r, at |-> now]]
    BY <1>1, NoRenameAssumption DEF NoRenameAssumption, Submit, SubmitRecall, RefuseRecall, Begin
  <2> QED
    BY <2>1 DEF CoreTypeOK, LoopTypeOK, CallersOK, RequestsStay
<1>2. ASSUME NEW t \in Tasks, NEW pc, pc # "idle", task' = [task EXCEPT ![t].pc = pc]
      PROVE  CallersOK' /\ RequestsStay
  BY <1>2, OneCallerMoves DEF CoreTypeOK, LoopTypeOK, CallersOK, RequestsStay
<1>3. ASSUME NEW t \in Tasks, Caller(t) PROVE CallersOK' /\ RequestsStay
  <2>1. CASE \E r \in Requests : Submit(t, r) \/ SubmitRecall(t, r) \/ RefuseRecall(t, r)
    BY <1>1, <2>1
  <2>2. CASE Deliver(t) \/ (\E executed \in BOOLEAN : Fail(t, executed)) \/ Resume(t) \/ StoreWrite(t)
    <3>1. \E pc \in {"refreshing", "saving", "done", "failed"} : task' = [task EXCEPT ![t].pc = pc]
      BY <2>2 DEF Deliver, RefreshNow, RefreshLater, Fail, Resume, StoreWrite, FollowUp
    <3> QED
      BY <1>2, <3>1
  <2> QED
    BY <1>3, <2>1, <2>2 DEF Caller
<1>4. ASSUME task' = task PROVE CallersOK' /\ RequestsStay
  BY <1>4 DEF CallersOK, RequestsStay
<1>5. ASSUME NEW p \in Polls, Poller(p) PROVE task' = task
  BY <1>5 DEF Poller, PollRead, PollFinish, PollBlank, PollStumble, PollFail
<1>6. PollStart \/ Cooled \/ Rerun \/ RerunDone \/ Matrix \/ Tick \/ UNCHANGED vars => task' = task
  BY DEF PollStart, Cooled, Rerun, RerunDone, Matrix, SettleOutput, Outside, Flash, Tick, vars
<1>7. CASE Restart
  BY <1>7 DEF Restart, CoreTypeOK, LoopTypeOK, CallersOK, RequestsStay
<1> QED
  BY <1>3, <1>4, <1>5, <1>6, <1>7 DEF Next

LEMMA StepRequests ==
    ASSUME JobOK, CallersOK, [TransferNext]_transferVars
    PROVE  CallersOK' /\ (NoSaves' => NoSaves) /\ (NoEdids' => NoEdids)
<1>1. ASSUME CallersOK', RequestsStay
      PROVE  CallersOK' /\ (NoSaves' => NoSaves) /\ (NoEdids' => NoEdids)
  BY <1>1 DEF RequestsStay, NoSaves, NoEdids, NoRequest
<1>2. ASSUME task' = task PROVE CallersOK' /\ RequestsStay
  BY <1>2 DEF CallersOK, RequestsStay
<1>3. Aside \/ KeepSnapshot \/ SnapshotStored \/ ApplyRestored => task' = task
  BY DEF Aside, KeepSnapshot, SnapshotStored, ApplyRestored
<1>4. CoreTypeOK
  BY JobOKType
<1>5. CASE [Next]_vars
  BY <1>1, <1>4, <1>5, OthersRequests
<1> QED
  BY <1>1, <1>2, <1>3, <1>5, TransferStepOK

\* The others and the backup; a restart brings what the disk has.
LEMMA OthersKeepBackup ==
    ASSUME CoreTypeOK, CallersOK, InStore(TRUE), [Next]_vars
    PROVE  /\ NoSaves' /\ (Restart => disk.presets = backup) =>
                 backup' = backup /\ (disk.presets = backup => disk'.presets = backup)
           /\ NoEdids' /\ (Restart => disk.edids = edidBackup) =>
                 edidBackup' = edidBackup /\ (disk.edids = edidBackup => disk'.edids = edidBackup)
<1>1. CASE QuietStep
  BY <1>1 DEF QuietStep
<1>2. CASE Restart /\ LoadStep
  BY <1>2 DEF LoadStep
<1>3. ASSUME NEW t \in Tasks, SaveStep(t)
      PROVE  UNCHANGED <<backup, edidBackup>> /\ disk'.presets = backup /\ disk'.edids = edidBackup
  BY <1>3 DEF SaveStep
<1>4. ASSUME NEW t \in Tasks, FollowUpStep(t)
      PROVE  /\ disk' = disk
             /\ NoSaves' => backup' = backup
             /\ NoEdids' => edidBackup' = edidBackup
  <2>1. /\ backup' = BackupAfter(task[t].req, data', backup)
        /\ edidBackup' = EdidsAfter(task[t].req, edidBackup)
        /\ disk' = disk /\ task'[t].req = task[t].req
    BY <1>4 DEF FollowUpStep, FollowUp, Advances
  <2>2. task[t].req.kind # "rename"
    BY DEF CallersOK
  <2>3. NoSaves' => task[t].req.kind \notin {"save", "clear"}
    BY <2>1 DEF NoSaves
  <2>4. NoEdids' => task[t].req.kind # "edid"
    BY <2>1 DEF NoEdids
  <2> QED
    BY <2>1, <2>2, <2>3, <2>4 DEF BackupAfter, EdidsAfter
<1> QED
  BY <1>1, <1>2, <1>3, <1>4, StepsWithStore

LEMMA SettledKept ==
    ASSUME Settled, JobOK', TransferStore', [TransferNext]_transferVars
    PROVE  Settled'
<1>1. JobOK /\ CallersOK /\ TransferStore /\ DiskSettled /\ CoreTypeOK /\ InStore(TRUE)
  BY JobOKType DEF Settled, TransferStore
<1>2. CallersOK' /\ (NoSaves' => NoSaves) /\ (NoEdids' => NoEdids)
  BY <1>1, StepRequests
<1>3. CASE Aside /\ job.phase # "saving"
  <2>1. UNCHANGED <<backup, edidBackup, disk>>
    BY <1>3 DEF Aside, memory, backupVars
  <2>2. DiskSettled'
    BY <1>1, <1>2, <1>3, <2>1 DEF DiskSettled
  <2> QED
    BY <1>2, <2>2 DEF Settled
<1>4. CASE KeepSnapshot
  <2>1. job'.phase = "saving"
    BY <1>1, <1>4, JobOKType DEF KeepSnapshot, Job
  <2> QED
    BY <1>2, <2>1 DEF Settled, DiskSettled
<1>5. CASE SnapshotStored
  <2>1. /\ disk' = (IF pending # None THEN pending ELSE disk)
        /\ UNCHANGED <<backup, edidBackup>>
    BY <1>5 DEF SnapshotStored
  <2>2. disk'.presets = backup /\ disk'.edids = edidBackup
    BY <1>1, <2>1 DEF InStore
  <2> QED
    BY <1>2, <2>1, <2>2 DEF Settled, DiskSettled
<1>6. CASE ApplyRestored
  <2>1. UNCHANGED <<backup, edidBackup, disk>> /\ job.phase # "saving"
    BY <1>6 DEF ApplyRestored, backupVars
  <2> QED
    BY <1>1, <1>2, <2>1 DEF Settled, DiskSettled
<1>7. CASE [Next]_vars /\ Noted
  <2>1. job'.phase = job.phase
    BY <1>1, <1>7, JobOKType DEF Noted, Job
  <2>2. DiskSettled'
    BY <1>1, <1>2, <1>7, <2>1, OthersKeepBackup DEF DiskSettled
  <2> QED
    BY <1>2, <2>2 DEF Settled
<1>8. CASE Killed
  <2>1. disk'.presets = backup' /\ disk'.edids = edidBackup'
    BY <1>1, <1>8 DEF Killed, Restart, CoreTypeOK, MemoryTypeOK, Stored
  <2> QED
    BY <1>2, <2>1 DEF Settled, DiskSettled
<1> QED
  BY <1>1, <1>3, <1>4, <1>5, <1>6, <1>7, <1>8, TransferStepOK

\* Whoever acts, what a job counts on while it awaits holds: its phase is
\* coherent, callers that follow up have a request, and without saves the
\* disk has the presets in memory.
THEOREM SettledThroughout == TransferSpec => []Settled
<1>1. TransferInit => CallersOK /\ DiskSettled
  BY DEF TransferInit, Init, CallersOK, DiskSettled, NoRequest
<1>2. Settled /\ JobOK' /\ TransferStore' /\ [TransferNext]_transferVars => Settled'
  BY SettledKept
<1>3. JobOK /\ TransferStore /\ CallersOK /\ DiskSettled => Settled
  BY DEF Settled
<1> QED
  BY <1>1, <1>2, <1>3, JobCoherence, TransferStoreKept, PTL DEF TransferSpec

\* What the others cannot have done, if the conditions under which a job is
\* judged still hold after their step.
Respected ==
    /\ NoSaves' => backup' = backup
    /\ NoEdids' => edidBackup' = edidBackup
    /\ outside' = 0 => /\ device'.names = device.names
                       /\ NoEdids' => device'.edids = device.edids

LEMMA OthersRespect ==
    ASSUME Settled, OtherEffect
    PROVE  Respected
<1>1. /\ CoreTypeOK /\ CallersOK /\ InStore(TRUE) /\ DiskSettled
      /\ [Next]_vars /\ (Restart => ~InProgress)
  BY JobOKType DEF Settled, TransferStore, OtherEffect
<1>2. CallersOK' /\ RequestsStay
  BY <1>1, OthersRequests
<1>3. (NoSaves' => NoSaves) /\ (NoEdids' => NoEdids)
  BY <1>2 DEF RequestsStay, NoSaves, NoEdids, NoRequest
<1>4. Restart => job.phase # "saving"
  BY <1>1 DEF InProgress
<1>5. /\ NoSaves' => backup' = backup
      /\ NoEdids' => edidBackup' = edidBackup
  BY <1>1, <1>3, <1>4, OthersKeepBackup DEF DiskSettled
<1>6. ASSUME outside' = 0
      PROVE  device'.names = device.names /\ (NoEdids' => device'.edids = device.edids)
  <2>1. DeviceMoves
    BY <1>1, <1>6, DeviceSteps
  <2>2. device.names \in [Slots -> Names] /\ device'.names \in [Slots -> Names]
        /\ device.edids \in [Inputs -> Profiles] /\ device'.edids \in [Inputs -> Profiles]
    <3>1. CoreTypeOK'
      <4>1. Typed(Waiters)
        BY DEF Settled, JobOK, TransferTypeOK, Typed, QueueTypeOK, Waiters
      <4>2. Typed(Waiters)'
        BY <1>1, <4>1, NextType DEF Waiters
      <4> QED
        BY <4>2 DEF Typed
    <3> QED
      BY <1>1, <3>1 DEF CoreTypeOK, MatrixTypeOK, State
  <2>3. \A k \in Slots : device'.names[k] = device.names[k]
    BY <1>1, <2>1 DEF DeviceMoves, SlotWriters, CallersOK
  <2>4. NoEdids' => \A i \in Inputs : device'.edids[i] = device.edids[i]
    BY <1>3, <2>1 DEF DeviceMoves, InputWriters, NoEdids
  <2> QED
    BY <2>2, <2>3, <2>4
<1> QED
  BY <1>5, <1>6 DEF Respected

\* The conditions hold before a step if they hold after it; what others did
\* is forgotten when a job starts.
LEMMA ConditionsHeld ==
    ASSUME Settled, [TransferNext]_transferVars
    PROVE  /\ NoSaves' => NoSaves
           /\ NoEdids' => NoEdids
           /\ outside' = 0 => outside = 0
           /\ ~job'.misread => ~job.misread
<1> DEFINE Monotone == (outside' = 0 => outside = 0) /\ (~job'.misread => ~job.misread)
<1>1. JobOK /\ CallersOK /\ CoreTypeOK
  BY JobOKType DEF Settled
<1>2. (NoSaves' => NoSaves) /\ (NoEdids' => NoEdids)
  BY <1>1, StepRequests
<1>3. ASSUME OtherEffect \/ KillEffect PROVE Monotone
  <2>1. [Next]_vars /\ job'.misread = job.misread
    BY <1>3 DEF OtherEffect, KillEffect, Keeps, Next
  <2> QED
    BY <1>1, <2>1, DeviceSteps
<1>4. ASSUME StartEffect \/ WaitEffect \/ PhaseEffect \/ FailEffect PROVE Monotone
  BY <1>4 DEF StartEffect, WaitEffect, PhaseEffect, FailEffect, Keeps, vars, boundVars
<1>5. ASSUME KeepEffect \/ StoredEffect \/ AppliedEffect \/ ReturnEffect PROVE Monotone
  BY <1>5 DEF KeepEffect, StoredEffect, AppliedEffect, ReturnEffect, Keeps, boundVars
<1>6. ASSUME NEW step \in job.plan,
             SkipEffect(step) \/ CommandEffect(step) \/ SentEffect(step) \/ ReadEffect(step)
      PROVE  Monotone
  BY <1>6 DEF SkipEffect, CommandEffect, SentEffect, ReadEffect, Keeps, vars, boundVars
<1>7. Monotone
  BY <1>1, <1>3, <1>4, <1>5, <1>6, Effects
<1> QED
  BY <1>2, <1>7

----------------------------------------------------------------------------
(* The snapshot: what it has found is what the slots hold.                 *)

\* Of two reads one comes first.
LEMMA OneReadIsDue ==
    ASSUME JobOK, job.phase \in {"reading", "verifying"},
           NEW p \in job.plan, NEW q \in job.plan, Due(p), Due(q)
    PROVE  p = q
<1>1. job.plan \in SUBSET Step
  BY JobOKType
<1>2. ASSUME NEW step \in job.plan PROVE step.does.kind = "read" /\ step.does.port \in Nat /\ step.turn \in Nat
  <2>1. step.does.kind = "read"
    BY DEF JobOK, PlanOK, SnapshotPlan, At, Command
  <2> QED
    BY <1>1, <2>1, StepOfKind, PortsAssumption DEF Step, PortsAssumption
<1>3. SUFFICES ASSUME p # q PROVE FALSE
  OBVIOUS
<1>4. Earlier(p, q) /\ Earlier(q, p)
  BY <1>3 DEF Due
<1> QED
  BY <1>2, <1>4 DEF Earlier

----------------------------------------------------------------------------
(* The snapshot: what it has found so far is what the slots hold.          *)

Reading(k) == \E step \in job.plan : step.does.kind = "read" /\ step.does.port = k

SameAsSlot(k) ==
    \/ slots[k] = None /\ backup[k] = None
    \/ /\ slots[k] # None /\ backup[k] # None
       /\ \/ backup[k].routes = slots[k]
          \/ k \in job.cut /\ backup[k].routes \in Beginnings(slots[k])

FoundRight(k) ==
    \/ job.found[k] = slots[k]
    \/ slots[k] # None /\ k \in job.cut /\ job.found[k] \in Beginnings(slots[k])

FoundSoFar ==
    job.phase = "reading" =>
        /\ \A k \in Slots : FoundRight(k) \/ Reading(k)
        /\ job.awaits = "quiet" =>
              \A step \in job.plan : Due(step) => FoundRight(step.does.port)

Kept == job.phase = "saving" \/ Finished("snapshot") => \A k \in Slots : SameAsSlot(k)

SnapshotInv == SlotsUndisturbed => FoundSoFar /\ Kept

LEMMA SnapshotKept ==
    ASSUME Settled, JobOK', SnapshotInv, [TransferNext]_transferVars
    PROVE  SnapshotInv'
<1> SUFFICES ASSUME SlotsUndisturbed' PROVE FoundSoFar' /\ Kept'
  BY DEF SnapshotInv
<1> USE DEF Keeps, Terms, Lists
<1>1. JobOK /\ CoreTypeOK /\ job \in Job /\ NoSaves /\ NoSaves'
  <2>1. NoSaves /\ NoSaves'
    BY ConditionsHeld DEF SlotsUndisturbed
  <2> QED
    BY <2>1, JobOKType DEF Settled
<1>2. ASSUME job'.others = job.others PROVE FoundSoFar /\ Kept
  BY <1>1, <1>2 DEF SnapshotInv, SlotsUndisturbed
<1>3. ASSUME job'.phase \notin {"reading", "saving"}, ~Finished("snapshot")'
      PROVE  FoundSoFar' /\ Kept'
  BY <1>3 DEF FoundSoFar, Kept
<1>4. ASSUME UNCHANGED <<slots, backup>>, job'.kind = job.kind, job'.phase = job.phase,
             job'.found = job.found, job'.cut = job.cut, job'.plan = job.plan,
             job'.awaits # "quiet" \/ job'.awaits = job.awaits, FoundSoFar /\ Kept
      PROVE  FoundSoFar' /\ Kept'
  <2>1. \A step \in job.plan : Due(step)' <=> Due(step)
    BY <1>4 DEF Due, Earlier
  <2>2. \A k : (FoundRight(k)' <=> FoundRight(k)) /\ (SameAsSlot(k)' <=> SameAsSlot(k))
    BY <1>4 DEF FoundRight, SameAsSlot
  <2> QED
    BY <1>4, <2>1, <2>2 DEF FoundSoFar, Kept, Finished, Reading
<1>5. CASE StartEffect
  <2>1. CASE job'.phase = "reading"
    <3>1. job'.plan = SnapshotPlan /\ job'.awaits = "nothing"
      BY <1>5, <2>1 DEF StartEffect
    <3>2. ASSUME NEW k \in Slots PROVE Reading(k)'
      <4>1. At(0, Command("read", k, None)) \in job'.plan
        BY <3>1 DEF SnapshotPlan
      <4> QED
        BY <4>1 DEF Reading, At, Command
    <3> QED
      BY <2>1, <3>1, <3>2 DEF FoundSoFar, Kept, Finished
  <2> QED
    BY <1>3, <1>5, <2>1 DEF StartEffect, Finished
<1>6. ASSUME NEW step \in job.plan, Due(step), SkipEffect(step) PROVE FoundSoFar' /\ Kept'
  <2>1. job.phase # "reading" /\ job.phase # "saving"
    <3>1. step.does.kind # "read"
      BY <1>6 DEF SkipEffect, Satisfied
    <3> QED
      BY <1>1, <1>6, <3>1 DEF JobOK, PlanOK, PhaseOK, SkipEffect, SnapshotPlan, At, Command
  <2>2. /\ UNCHANGED <<slots, backup>> /\ job'.kind = job.kind /\ job'.phase = job.phase /\ Kept
        /\ job'.cut = job.cut
    BY <1>2, <1>6 DEF SkipEffect, vars, matrixVars, memory, backupVars
  <2> QED
    BY <2>1, <2>2 DEF FoundSoFar, Kept, Finished, SameAsSlot
<1>7. CASE WaitEffect
  BY <1>2, <1>4, <1>7 DEF WaitEffect, matrixVars, memory, backupVars
<1>8. CASE PhaseEffect
  BY <1>3, <1>8 DEF PhaseEffect, Finished
<1>9. ASSUME NEW step \in job.plan, CommandEffect(step) PROVE FoundSoFar' /\ Kept'
  BY <1>3, <1>9 DEF CommandEffect, Finished
<1>10. ASSUME NEW step \in job.plan, Due(step), SentEffect(step) PROVE FoundSoFar' /\ Kept'
  <2>1. CASE job.phase = "verifying"
    BY <1>3, <1>10, <2>1 DEF SentEffect, Finished
  <2>2. CASE job.phase = "reading"
    <3> DEFINE p == step.does.port
    <3>1. /\ slots' = slots /\ job'.phase = job.phase /\ job'.plan = job.plan /\ FoundSoFar
          /\ p \in Slots /\ job.cut \subseteq job'.cut
          /\ \E table : /\ job'.found = [job.found EXCEPT ![p] = table]
                        /\ \/ table = slots[p]
                           \/ slots[p] # None /\ p \in job'.cut /\ table \in Beginnings(slots[p])
      BY <1>2, <1>10 DEF SentEffect, matrixVars
    <3>2. job.found \in [Slots -> Table \cup {None}]
      BY <1>1 DEF Job
    <3>5. FoundRight(p)' /\ \A k \in Slots \ {p} : job'.found[k] = job.found[k]
      BY <3>1, <3>2 DEF FoundRight
    <3>3. \A k \in Slots : FoundRight(k)' \/ Reading(k)'
      <4>1. \A k \in Slots \ {p} : FoundRight(k) => FoundRight(k)'
        BY <3>1, <3>5 DEF FoundRight
      <4> QED
        BY <2>2, <3>1, <3>5, <4>1 DEF FoundSoFar, Reading
    <3>4. \A other \in job.plan : Due(other)' => other = step
      <4>1. \A other \in job.plan : Due(other)' <=> Due(other)
        BY <3>1 DEF Due, Earlier
      <4> QED
        BY <1>1, <1>10, <2>2, <4>1, OneReadIsDue
    <3> QED
      BY <2>2, <3>1, <3>5, <3>3, <3>4 DEF FoundSoFar, Kept, Finished
  <2> QED
    BY <1>10, <2>1, <2>2 DEF SentEffect
<1>11. ASSUME NEW step \in job.plan, Due(step), ReadEffect(step) PROVE FoundSoFar' /\ Kept'
  <2>1. CASE job.phase = "verifying"
    BY <1>3, <1>11, <2>1 DEF ReadEffect, Finished
  <2>2. CASE job.phase = "reading"
    <3>1. /\ slots' = slots /\ job'.phase = job.phase /\ FoundSoFar
          /\ job.awaits = "quiet" /\ job'.awaits = "nothing"
          /\ job'.plan = job.plan \ {step} /\ job'.found = job.found /\ job'.cut = job.cut
      BY <1>2, <1>11 DEF ReadEffect, vars, matrixVars
    <3>2. FoundRight(step.does.port) /\ \A k : FoundRight(k)' <=> FoundRight(k)
      BY <1>11, <2>2, <3>1 DEF FoundSoFar, FoundRight
    <3>3. \A k \in Slots : FoundRight(k)' \/ Reading(k)'
      BY <2>2, <3>1, <3>2 DEF FoundSoFar, Reading
    <3> QED
      BY <2>2, <3>1, <3>3 DEF FoundSoFar, Kept, Finished
  <2> QED
    BY <1>11, <2>1, <2>2 DEF ReadEffect
<1>12. CASE FailEffect \/ KillEffect
  BY <1>3, <1>12 DEF FailEffect, KillEffect, Finished
<1>13. CASE KeepEffect
  <2>1. /\ slots' = slots /\ backup' = Snapshot /\ job'.phase = "saving" /\ job'.cut = job.cut
        /\ \A k \in Slots : FoundRight(k)
    BY <1>2, <1>13 DEF KeepEffect, matrixVars, FoundSoFar, Reading
  <2>2. ASSUME NEW k \in Slots, slots[k] # None
        PROVE  backup'[k] # None /\ backup'[k].routes = job.found[k]
    <3>1. job.found[k] \in Table /\ job.names[k] \in Names
      <4>1. slots[k] \in Routing
        BY <1>1, <2>2 DEF CoreTypeOK, MatrixTypeOK, SlotContents
      <4> QED
        BY <1>1, <2>1, <4>1, TableTypes DEF FoundRight, Job
    <3>2. [name |-> job.names[k], routes |-> job.found[k]] \in Entry /\ job.found[k] # None
      BY <3>1, NoneAssumption DEF Entry, NoneAssumption
    <3> QED
      BY <2>1, <3>2, NoneAssumption DEF Snapshot, NoneAssumption
  <2>3. \A k \in Slots : slots[k] = None => backup'[k] = None
    BY <2>1 DEF Snapshot, FoundRight
  <2>4. \A k \in Slots : SameAsSlot(k)'
    BY <2>1, <2>2, <2>3 DEF SameAsSlot, FoundRight
  <2> QED
    BY <2>1, <2>4 DEF FoundSoFar, Kept
<1>14. CASE StoredEffect
  <2>1. UNCHANGED <<slots, backup>> /\ job'.kind = job.kind /\ job'.phase = "done" /\ Kept
        /\ job.phase = "saving" /\ job'.cut = job.cut
    BY <1>2, <1>14 DEF StoredEffect, matrixVars
  <2> QED
    BY <2>1 DEF FoundSoFar, Kept, Finished, SameAsSlot
<1>15. CASE AppliedEffect \/ ReturnEffect
  <2>1. job.kind = "restore" /\ job'.kind = job.kind /\ job'.phase \in {"refreshing", "done", "failed"}
    BY <1>1, <1>15 DEF AppliedEffect, ReturnEffect, Verdict, JobOK, PhaseOK, RestorePhases
  <2> QED
    BY <1>3, <2>1 DEF Finished
<1>16. CASE OtherEffect
  <2>1. slots' = slots /\ SlotsUndisturbed
    BY <1>1, <1>16 DEF OtherEffect, SlotsUndisturbed
  <2>2. backup' = backup
    BY <1>1, <1>16, OthersRespect DEF Respected
  <2> QED
    BY <1>4, <1>16, <2>1, <2>2 DEF OtherEffect, SnapshotInv
<1> QED
  BY <1>1, <1>5, <1>6, <1>7, <1>8, <1>9, <1>10, <1>11, <1>12, <1>13, <1>14, <1>15, <1>16, Effects

(***************************************************************************)
(* A snapshot that is over has made the backup what the slots hold, in     *)
(* memory and on disk, whatever polls, routes, recalls and EDID changes of *)
(* any number of callers came between its reads, unless slots changed; of  *)
(* a slot whose answer was cut short it has a beginning, never an empty    *)
(* slot nor what another slot holds.                                       *)
(***************************************************************************)
THEOREM SnapshotIsFaithful == TransferSpec => []SnapshotFaithful
<1>1. TransferInit => SnapshotInv
  BY DEF TransferInit, NoJob, SnapshotInv, FoundSoFar, Kept, Finished
<1>2. Settled /\ JobOK' /\ SnapshotInv /\ [TransferNext]_transferVars => SnapshotInv'
  BY SnapshotKept
<1>3. Settled /\ SnapshotInv => SnapshotFaithful
  BY DEF Settled, DiskSettled, SnapshotInv, Kept, SameAsSlot, SnapshotFaithful, Finished, SlotsUndisturbed
<1> QED
  BY <1>1, <1>2, <1>3, SettledThroughout, JobCoherence, PTL DEF TransferSpec

----------------------------------------------------------------------------
(* The restore: what it has left to do comes from the backup.              *)

PlanKinds ==
    /\ job.phase = "pushing" => \A step \in job.plan : step.does.kind \in {"route", "save", "rename"}
    /\ job.phase = "returning" => job.plan \subseteq RoutesTo(0, job.before)
    /\ job.phase = "edids" => \A step \in job.plan : step.does.kind = "edid"

PlanOfBackup ==
    /\ job.phase \in RestorePhases \/ Finished("restore") => ~NoPresets(backup)
    /\ job.phase = "pushing" => job.plan \subseteq PushPlan
    /\ job.phase = "verifying" => job.plan \subseteq VerifyPlan

PlanInv == PlanKinds /\ (NoSaves => PlanOfBackup)

LEMMA PlanKindsOf ==
    /\ \A step \in PushPlan : step.does.kind \in {"route", "save", "rename"}
    /\ \A step \in EdidPlan : step.does.kind = "edid"
  BY DEF PushPlan, Rebuild, RoutesTo, EdidPlan, At, Command

LEMMA PlanKept ==
    ASSUME Settled, PlanInv, [TransferNext]_transferVars
    PROVE  PlanInv'
<1> USE DEF Keeps, Terms, Lists
<1>1. JobOK /\ (NoSaves' => NoSaves)
  BY ConditionsHeld DEF Settled
<1>2. ASSUME job'.phase = job.phase, job'.kind = job.kind, job'.before = job.before,
             job'.plan \subseteq job.plan, NoSaves' => backup' = backup
      PROVE  PlanInv'
  <2>1. PlanKinds'
    BY <1>2 DEF PlanInv, PlanKinds, RoutesTo
  <2>2. ASSUME NoSaves' PROVE PlanOfBackup'
    <3>1. backup' = backup /\ PlanOfBackup
      BY <1>1, <1>2, <2>2 DEF PlanInv
    <3>2. PushPlan' = PushPlan /\ VerifyPlan' = VerifyPlan
      BY <3>1 DEF PushPlan, Rebuild, RoutesTo, VerifyPlan, BackedUp
    <3>3. NoPresets(backup') <=> NoPresets(backup)
      BY <3>1
    <3> QED
      BY <1>2, <3>1, <3>2, <3>3 DEF PlanOfBackup, Finished
  <2> QED
    BY <2>1, <2>2 DEF PlanInv
<1>3. ASSUME job'.phase \notin RestorePhases, ~Finished("restore")'
      PROVE  PlanInv'
  BY <1>3 DEF PlanInv, PlanKinds, PlanOfBackup, RestorePhases
<1>4. ASSUME job.phase \in RestorePhases, NoSaves', UNCHANGED backup
      PROVE  ~NoPresets(backup')
  BY <1>1, <1>4 DEF PlanInv, PlanOfBackup
<1>5. CASE StartEffect
  <2>1. CASE job'.phase = "reading"
    BY <1>3, <1>5, <2>1 DEF RestorePhases, Finished
  <2>2. CASE job'.phase = "pushing"
    <3>1. UNCHANGED backup /\ job'.plan = PushPlan /\ ~NoPresets(backup)
      BY <1>5, <2>2 DEF StartEffect, vars, memory, backupVars
    <3>2. PushPlan' = PushPlan
      BY <3>1 DEF PushPlan, Rebuild, RoutesTo, BackedUp
    <3> QED
      BY <2>2, <3>1, <3>2, PlanKindsOf DEF PlanInv, PlanKinds, PlanOfBackup
  <2> QED
    BY <1>5, <2>1, <2>2 DEF StartEffect
<1>6. ASSUME NEW step \in job.plan,
             SkipEffect(step) \/ CommandEffect(step) \/ SentEffect(step) \/ ReadEffect(step)
      PROVE  PlanInv'
  BY <1>2, <1>6
  DEF SkipEffect, CommandEffect, SentEffect, ReadEffect, vars, memory, backupVars
<1>7. CASE WaitEffect
  BY <1>2, <1>7 DEF WaitEffect, memory, backupVars
<1>8. CASE PhaseEffect
  <2>1. UNCHANGED backup /\ job'.before = job.before /\ job.phase \in RestorePhases
    BY <1>8 DEF PhaseEffect, vars, memory, backupVars, RestorePhases
  <2>2. VerifyPlan' = VerifyPlan /\ RoutesTo(0, job'.before) = RoutesTo(0, job.before)
    BY <2>1 DEF VerifyPlan, BackedUp
  <2>3. PlanKinds'
    BY <1>8, <2>2, PlanKindsOf DEF PhaseEffect, PlanKinds, RoutesTo
  <2> QED
    BY <1>4, <1>8, <2>1, <2>2, <2>3 DEF PhaseEffect, PlanInv, PlanOfBackup
<1>9. CASE FailEffect \/ KillEffect
  BY <1>3, <1>9 DEF FailEffect, KillEffect, RestorePhases, Finished
<1>10. CASE KeepEffect
  BY <1>3, <1>10 DEF KeepEffect, RestorePhases, Finished
<1>11. CASE StoredEffect
  BY <1>1, <1>3, <1>11 DEF StoredEffect, RestorePhases, Finished, JobOK, PhaseOK
<1>12. CASE AppliedEffect \/ ReturnEffect
  <2>1. UNCHANGED backup /\ job'.phase \in {"refreshing", "done", "failed"} /\ job.phase \in RestorePhases
    BY <1>12 DEF AppliedEffect, ReturnEffect, Verdict, RestorePhases, memory, backupVars
  <2> QED
    BY <1>4, <2>1 DEF PlanInv, PlanKinds, PlanOfBackup
<1>13. CASE OtherEffect
  BY <1>2, <1>13, OthersRespect DEF OtherEffect, Respected
<1> QED
  BY <1>1, <1>5, <1>6, <1>7, <1>8, <1>9, <1>10, <1>11, <1>12, <1>13, Effects

----------------------------------------------------------------------------
(* The names: rename by rename they become the backup's.                   *)

Rebuilt == job.phase \in RestorePhases \ {"pushing"} \/ Finished("restore")

NameInPlace(k) == device.names[k] = backup[k].name

RenameLeft(k) == At(k, Command("rename", k, backup[k].name)) \in job.plan

NamesInv ==
    NoSaves /\ outside = 0 =>
        /\ job.phase = "pushing" => \A k \in BackedUp : RenameLeft(k) \/ NameInPlace(k)
        /\ Rebuilt => \A k \in BackedUp : NameInPlace(k)

LEMMA NamesKept ==
    ASSUME Settled, JobOK', PlanInv, NamesInv, [TransferNext]_transferVars
    PROVE  NamesInv'
<1> SUFFICES ASSUME NoSaves', outside' = 0
             PROVE  /\ job'.phase = "pushing" => \A k \in BackedUp' : RenameLeft(k)' \/ NameInPlace(k)'
                    /\ Rebuilt' => \A k \in BackedUp' : NameInPlace(k)'
  BY DEF NamesInv
<1> DEFINE Goal == /\ job'.phase = "pushing" => \A k \in BackedUp' : RenameLeft(k)' \/ NameInPlace(k)'
                   /\ Rebuilt' => \A k \in BackedUp' : NameInPlace(k)'
<1> SUFFICES Goal
  OBVIOUS
<1> USE DEF Keeps, Terms, Lists
<1>1. /\ JobOK /\ CoreTypeOK /\ PlanKinds /\ PlanOfBackup
      /\ job.phase = "pushing" => \A k \in BackedUp : RenameLeft(k) \/ NameInPlace(k)
      /\ Rebuilt => \A k \in BackedUp : NameInPlace(k)
  <2>1. NoSaves /\ outside = 0
    BY ConditionsHeld
  <2> QED
    BY <2>1, JobOKType DEF Settled, PlanInv, NamesInv
<1>2. ASSUME job'.phase # "pushing", ~Rebuilt' PROVE Goal
  BY <1>2
<1>3. ASSUME device'.names = device.names, backup' = backup,
             job'.phase = "pushing" => job.phase = "pushing", Rebuilt' => Rebuilt,
             job'.phase = "pushing" => \A k \in BackedUp : RenameLeft(k) => RenameLeft(k)'
      PROVE  Goal
  BY <1>1, <1>3 DEF BackedUp, NameInPlace
<1>4. CASE StartEffect
  <2>1. CASE job'.phase = "pushing"
    <3>1. job'.plan = PushPlan /\ backup' = backup
      BY <1>4, <2>1 DEF StartEffect, vars, memory, backupVars
    <3>2. \A k \in BackedUp : At(k, Command("rename", k, backup[k].name)) \in PushPlan
      BY DEF PushPlan, Rebuild
    <3> QED
      BY <2>1, <3>1, <3>2 DEF BackedUp, RenameLeft, Rebuilt, Finished
  <2> QED
    BY <1>2, <1>4, <2>1 DEF StartEffect, Rebuilt, RestorePhases, Finished
<1>5. ASSUME NEW step \in job.plan, SkipEffect(step) PROVE Goal
  <2>1. step.does.kind # "rename" /\ job'.plan = job.plan \ {step} /\ UNCHANGED <<device, backup>>
    BY <1>5 DEF SkipEffect, Satisfied, vars, matrixVars, memory, backupVars
  <2>2. \A k \in BackedUp : RenameLeft(k) => RenameLeft(k)'
    BY <2>1 DEF RenameLeft, At, Command
  <2> QED
    BY <1>3, <1>5, <2>1, <2>2 DEF SkipEffect, Rebuilt, Finished
<1>6. CASE WaitEffect
  BY <1>3, <1>6 DEF WaitEffect, matrixVars, memory, backupVars, Rebuilt, Finished, RenameLeft
<1>7. CASE PhaseEffect
  <2>1. /\ UNCHANGED <<device, backup>> /\ job'.phase # "pushing"
        /\ \A k \in BackedUp : NameInPlace(k)
    BY <1>1, <1>7 DEF PhaseEffect, vars, matrixVars, memory, backupVars, RenameLeft, Rebuilt, RestorePhases
  <2> QED
    BY <2>1 DEF BackedUp, NameInPlace
<1>8. ASSUME NEW step \in job.plan, CommandEffect(step) PROVE Goal
  <2> DEFINE r == step.does
  <2>1. /\ device' = Written(device, r) /\ backup' = backup /\ r \in Request
        /\ job'.phase = job.phase /\ job'.kind = job.kind /\ job'.plan = job.plan \ {step}
        /\ job.phase \in {"pushing", "returning", "edids"} /\ device \in State
    BY <1>1, <1>8 DEF CommandEffect, Execute, memory, backupVars, CoreTypeOK, MatrixTypeOK
  <2>2. CASE r.kind = "rename"
    <3>1. job.phase = "pushing"
      BY <1>1, <2>1, <2>2 DEF PlanKinds, RoutesTo, At, Command
    <3>2. PICK k \in BackedUp : step = At(k, Command("rename", k, backup[k].name))
      BY <1>1, <2>2, <3>1 DEF PlanOfBackup, PushPlan, Rebuild, RoutesTo, At, Command
    <3>3. r.port = k /\ r.value = backup[k].name
      BY <3>2 DEF At, Command
    <3>4. ASSUME NEW l \in BackedUp PROVE RenameLeft(l)' \/ NameInPlace(l)'
      <4>1. l \in Slots
        BY DEF BackedUp
      <4>2. CASE l = k
        BY <2>1, <2>2, <3>3, <4>1, <4>2 DEF Written, NameInPlace, State
      <4>3. CASE l # k
        <5>1. device'.names[l] = device.names[l]
          BY <2>1, <2>2, <3>3, <4>1, <4>3, WrittenElsewhere
        <5>2. RenameLeft(l) => RenameLeft(l)'
          BY <2>1, <3>2, <4>3 DEF RenameLeft, At, Command
        <5> QED
          BY <1>1, <2>1, <3>1, <5>1, <5>2 DEF NameInPlace
      <4> QED
        BY <4>2, <4>3
    <3> QED
      BY <2>1, <3>1, <3>4 DEF BackedUp, Rebuilt, Finished
  <2>3. CASE r.kind # "rename"
    <3>1. device'.names = device.names
      BY <2>1, <2>3 DEF Written, State
    <3>2. \A k \in BackedUp : RenameLeft(k) => RenameLeft(k)'
      BY <2>1, <2>3 DEF RenameLeft, At, Command
    <3> QED
      BY <1>3, <2>1, <3>1, <3>2 DEF Rebuilt, Finished
  <2> QED
    BY <2>2, <2>3
<1>9. ASSUME NEW step \in job.plan, SentEffect(step) \/ ReadEffect(step) PROVE Goal
  <2>1. /\ UNCHANGED <<device, backup>> /\ job'.phase = job.phase /\ job'.kind = job.kind
        /\ job.phase \in {"reading", "verifying"}
    BY <1>9 DEF SentEffect, ReadEffect, vars, matrixVars, memory, backupVars
  <2> QED
    BY <1>3, <2>1 DEF Rebuilt, Finished
<1>10. CASE FailEffect \/ KillEffect
  BY <1>2, <1>10 DEF FailEffect, KillEffect, Rebuilt, RestorePhases, Finished
<1>11. CASE KeepEffect
  BY <1>2, <1>11 DEF KeepEffect, Rebuilt, RestorePhases, Finished
<1>12. CASE StoredEffect
  BY <1>1, <1>2, <1>12 DEF StoredEffect, Rebuilt, RestorePhases, Finished, JobOK, PhaseOK
<1>13. CASE AppliedEffect \/ ReturnEffect
  <2>1. UNCHANGED <<device, backup>> /\ job'.phase \in {"refreshing", "done", "failed"} /\ Rebuilt
    BY <1>13 DEF AppliedEffect, ReturnEffect, Verdict, Rebuilt, RestorePhases, matrixVars, memory, backupVars
  <2> QED
    BY <1>3, <2>1
<1>14. CASE OtherEffect
  <2>1. device'.names = device.names /\ backup' = backup
    BY <1>14, OthersRespect DEF Respected
  <2> QED
    BY <1>3, <1>14, <2>1 DEF OtherEffect, Rebuilt, Finished, RenameLeft
<1> QED
  BY <1>1, <1>4, <1>5, <1>6, <1>7, <1>8, <1>9, <1>10, <1>11, <1>12, <1>13, <1>14, Effects

----------------------------------------------------------------------------
(* The verification: what is not wrong has been stored.                    *)

Judged(k) == WholeBackup(k) => k \in job.wrong \/ slots[k] = backup[k].routes

\* A beginning is never taken for a whole.
LEMMA PartsAreNotWhole ==
    ASSUME NEW routes \in Routing, NEW part \in Beginnings(routes)
    PROVE  part \notin Routing
<1>1. None \notin Inputs
  BY NoneAssumption, PortNumbersAssumption DEF NoneAssumption, PortNumbersAssumption
<1>2. PICK last \in Outputs :
         /\ part = [o \in Outputs |-> IF o <= last THEN routes[o] ELSE None]
         /\ \E o \in Outputs : o > last
  BY DEF Beginnings
<1>3. PICK o \in Outputs : o > last
  BY <1>2
<1>4. part[o] = None
  BY <1>2, <1>3, PortNumbersAssumption DEF PortNumbersAssumption
<1> QED
  BY <1>1, <1>4 DEF Routing

Verified == job.phase \in {"verifying", "refreshing"} \/ Finished("restore")

VerifyInv ==
    SlotsUndisturbed =>
        /\ Verified => \A k \in BackedUp : Judged(k) \/ (job.phase = "verifying" /\ Reading(k))
        /\ job.phase = "verifying" /\ job.awaits = "quiet" =>
              \A step \in job.plan : Due(step) => Judged(step.does.port)
        /\ Finished("restore") => job.wrong = {}

LEMMA VerifyKept ==
    ASSUME Settled, JobOK', PlanInv, VerifyInv, [TransferNext]_transferVars
    PROVE  VerifyInv'
<1> DEFINE Goal == /\ Verified' => \A k \in BackedUp' :
                         Judged(k)' \/ (job'.phase = "verifying" /\ Reading(k)')
                   /\ job'.phase = "verifying" /\ job'.awaits = "quiet" =>
                         \A step \in job'.plan : Due(step)' => Judged(step.does.port)'
                   /\ Finished("restore")' => job'.wrong = {}
<1> SUFFICES ASSUME SlotsUndisturbed' PROVE Goal
  BY DEF VerifyInv
<1> USE DEF Keeps, Terms, Lists
<1>1. JobOK /\ job \in Job /\ PlanOfBackup /\ NoSaves'
  <2>1. NoSaves /\ NoSaves'
    BY ConditionsHeld DEF SlotsUndisturbed
  <2> QED
    BY <2>1, JobOKType DEF Settled, PlanInv
<1>2. ASSUME job'.others = job.others
      PROVE  /\ Verified => \A k \in BackedUp : Judged(k) \/ (job.phase = "verifying" /\ Reading(k))
             /\ job.phase = "verifying" /\ job.awaits = "quiet" =>
                   \A step \in job.plan : Due(step) => Judged(step.does.port)
             /\ Finished("restore") => job.wrong = {}
  BY <1>2, ConditionsHeld DEF VerifyInv, SlotsUndisturbed
<1>3. ASSUME ~Verified' PROVE Goal
  BY <1>3 DEF Verified
<1>4. ASSUME SlotsUndisturbed, UNCHANGED <<slots, backup>>, job'.kind = job.kind,
             job'.phase = job.phase, job'.wrong = job.wrong, job'.plan = job.plan,
             job'.awaits # "quiet" \/ job'.awaits = job.awaits
      PROVE  Goal
  <2>1. \A step \in job.plan : Due(step)' <=> Due(step)
    BY <1>4 DEF Due, Earlier
  <2>2. BackedUp' = BackedUp /\ \A k : Judged(k)' <=> Judged(k)
    BY <1>4 DEF BackedUp, Judged, WholeBackup
  <2>3. (\A k : Reading(k)' <=> Reading(k)) /\ (Verified' <=> Verified)
        /\ (Finished("restore")' <=> Finished("restore"))
    BY <1>4 DEF Reading, Verified, Finished
  <2> QED
    BY <1>4, <2>1, <2>2, <2>3 DEF VerifyInv
<1>5. ASSUME NEW step \in job.plan, SkipEffect(step) PROVE Goal
  <2>1. job.phase # "verifying"
    <3>1. step.does.kind # "read"
      BY <1>5 DEF SkipEffect, Satisfied
    <3> QED
      BY <1>1, <1>5, <3>1 DEF JobOK, PlanOK
  <2>2. /\ UNCHANGED <<slots, backup>> /\ job'.kind = job.kind /\ job'.phase = job.phase
        /\ job'.wrong = job.wrong /\ job'.others = job.others
    BY <1>5 DEF SkipEffect, vars, matrixVars, memory, backupVars
  <2> QED
    BY <1>2, <2>1, <2>2 DEF Verified, Finished, Judged, WholeBackup, BackedUp
<1>6. CASE WaitEffect
  <2>1. SlotsUndisturbed /\ UNCHANGED <<slots, backup>>
    BY <1>6, ConditionsHeld DEF WaitEffect, SlotsUndisturbed, matrixVars, memory, backupVars
  <2> QED
    BY <1>4, <1>6, <2>1 DEF WaitEffect
<1>7. CASE PhaseEffect
  <2>1. CASE job'.phase = "verifying"
    <3>1. /\ job'.plan = VerifyPlan /\ backup' = backup /\ job'.awaits = "nothing"
      BY <1>7, <2>1 DEF PhaseEffect, vars, memory, backupVars
    <3>2. ASSUME NEW k \in BackedUp PROVE Reading(k)'
      <4>1. At(0, Command("read", k, backup[k].routes)) \in job'.plan
        BY <3>1 DEF VerifyPlan
      <4> QED
        BY <4>1 DEF Reading, At, Command
    <3> QED
      BY <2>1, <3>1, <3>2 DEF BackedUp, Finished
  <2> QED
    BY <1>3, <1>7, <2>1 DEF PhaseEffect, Verified, Finished
<1>8. ASSUME NEW step \in job.plan, CommandEffect(step) PROVE Goal
  BY <1>3, <1>8 DEF CommandEffect, Verified, Finished
<1>9. ASSUME NEW step \in job.plan, Due(step), SentEffect(step) PROVE Goal
  <2>1. CASE job.phase = "reading"
    BY <1>3, <1>9, <2>1 DEF SentEffect, Verified, Finished
  <2>2. CASE job.phase = "verifying"
    <3> DEFINE p == step.does.port
    <3>1. /\ UNCHANGED <<slots, backup>> /\ job'.phase = job.phase /\ job'.plan = job.plan
          /\ job'.others = job.others /\ job.wrong \subseteq job'.wrong /\ p \in Slots
      BY <1>9 DEF SentEffect, matrixVars, memory, backupVars
    <3>2. step.does.value = backup[p].routes
      BY <1>1, <2>2 DEF PlanOfBackup, VerifyPlan, At, Command
    <3>3. Judged(p)'
      <4>1. PICK table :
              /\ \/ table = slots[p]
                 \/ slots[p] # None /\ table \in Beginnings(slots[p])
              /\ table # backup[p].routes => p \in job'.wrong
        BY <1>9, <3>2 DEF SentEffect
      <4>2. slots[p] # None => slots[p] \in Routing
        BY <1>1, <3>1, JobOKType DEF CoreTypeOK, MatrixTypeOK, SlotContents
      <4> QED
        BY <3>1, <4>1, <4>2, PartsAreNotWhole DEF Judged, WholeBackup
    <3>4. \A k \in BackedUp : Judged(k) => Judged(k)'
      BY <3>1 DEF Judged, WholeBackup
    <3>5. BackedUp' = BackedUp /\ \A k : Reading(k)' <=> Reading(k)
      BY <3>1 DEF BackedUp, Reading
    <3>6. \A other \in job.plan : Due(other)' => other = step
      <4>1. \A other \in job.plan : Due(other)' <=> Due(other)
        BY <3>1 DEF Due, Earlier
      <4> QED
        BY <1>1, <1>9, <2>2, <4>1, OneReadIsDue
    <3> QED
      BY <1>2, <2>2, <3>1, <3>3, <3>4, <3>5, <3>6 DEF Verified, Finished
  <2> QED
    BY <1>9, <2>1, <2>2 DEF SentEffect
<1>10. ASSUME NEW step \in job.plan, Due(step), ReadEffect(step) PROVE Goal
  <2>1. CASE job.phase = "reading"
    BY <1>3, <1>10, <2>1 DEF ReadEffect, Verified, Finished
  <2>2. CASE job.phase = "verifying"
    <3>1. /\ UNCHANGED <<slots, backup>> /\ job'.phase = job.phase /\ job'.wrong = job.wrong
          /\ job.awaits = "quiet" /\ job'.awaits = "nothing" /\ job'.others = job.others
          /\ job'.plan = job.plan \ {step}
      BY <1>10 DEF ReadEffect, vars, matrixVars, memory, backupVars
    <3>2. Judged(step.does.port)
      BY <1>2, <1>10, <2>2, <3>1
    <3>3. BackedUp' = BackedUp /\ \A k : Judged(k)' <=> Judged(k)
      BY <3>1 DEF BackedUp, Judged, WholeBackup
    <3>4. \A k \in BackedUp : Judged(k) \/ Reading(k)'
      BY <1>2, <2>2, <3>1, <3>2 DEF Verified, Reading
    <3> QED
      BY <2>2, <3>1, <3>3, <3>4 DEF Verified, Finished
  <2> QED
    BY <1>10, <2>1, <2>2 DEF ReadEffect
<1>11. CASE StartEffect \/ FailEffect \/ KillEffect
  BY <1>3, <1>11 DEF StartEffect, FailEffect, KillEffect, Verified, Finished
<1>12. CASE KeepEffect
  BY <1>3, <1>12 DEF KeepEffect, Verified, Finished
<1>13. CASE StoredEffect
  BY <1>1, <1>3, <1>13 DEF StoredEffect, Verified, Finished, JobOK, PhaseOK
<1>14. CASE AppliedEffect \/ ReturnEffect
  <2>1. /\ UNCHANGED <<slots, backup>> /\ job'.wrong = job.wrong /\ job'.others = job.others
        /\ job'.phase \in {"refreshing", Verdict} /\ Verified
        /\ job.phase = "verifying" => job.plan = {}
    BY <1>14 DEF AppliedEffect, ReturnEffect, Verified, matrixVars, memory, backupVars
  <2>2. \A k \in BackedUp : Judged(k)
    BY <1>2, <2>1 DEF Reading
  <2>3. BackedUp' = BackedUp /\ \A k : Judged(k)' <=> Judged(k)
    BY <2>1 DEF BackedUp, Judged, WholeBackup
  <2> QED
    BY <2>1, <2>2, <2>3 DEF Verdict, Finished
<1>15. CASE OtherEffect
  <2>1. slots' = slots /\ SlotsUndisturbed
    BY <1>15, ConditionsHeld DEF OtherEffect, SlotsUndisturbed
  <2>2. backup' = backup
    BY <1>1, <1>15, OthersRespect DEF Respected
  <2> QED
    BY <1>4, <1>15, <2>1, <2>2 DEF OtherEffect
<1> QED
  BY <1>1, <1>5, <1>6, <1>7, <1>8, <1>9, <1>10, <1>11, <1>12, <1>13, <1>14, <1>15, Effects

----------------------------------------------------------------------------
(* The routing: where the mirror of the writes is wrong, the job means to  *)
(* leave the output as it is, and the verification will see a slot that    *)
(* was saved from it.                                                      *)

\* The mirror of the writes is wrong about an output.
Stray(o) == device.routes[o] # job.live[o]

RouteLeft(k, o) == At(k, Command("route", o, backup[k].routes[o])) \in job.plan

SaveLeft(k) == At(k, Command("save", k, None)) \in job.plan

ReturnLeft(o) == At(0, Command("route", o, job.before[o])) \in job.plan

Unlike(k) == slots[k] # backup[k].routes

Whole == {k \in Slots : WholeBackup(k)}

StrayWhilePushing(o) ==
    Stray(o) => /\ job.live[o] = job.before[o]
                /\ \A k \in Whole : /\ RouteLeft(k, o) \/ backup[k].routes[o] = job.before[o]
                                    /\ SaveLeft(k) \/ Unlike(k)

StrayAfterwards(o) ==
    /\ job.live[o] = job.before[o] \/ (job.phase = "returning" /\ ReturnLeft(o))
    /\ Stray(o) => job.live[o] = job.before[o] /\ \A k \in Whole : Unlike(k)

RoutingInv ==
    SlotsUndisturbed /\ "routes" \notin job.others =>
        /\ job.phase = "pushing" => \A o \in Outputs : StrayWhilePushing(o)
        /\ Rebuilt => \A o \in Outputs : StrayAfterwards(o)

\* A slot is saved when every output is on its route.
LEMMA RoutedBeforeSaved ==
    ASSUME NEW k \in Slots, NEW o \in Outputs, Due(At(k, Command("save", k, None)))
    PROVE  ~RouteLeft(k, o)
<1> DEFINE save == At(k, Command("save", k, None))
           route == At(k, Command("route", o, backup[k].routes[o]))
<1>1. k \in Nat
  BY PortsAssumption DEF PortsAssumption
<1>2. route # save /\ ~Earlier(save, route)
  BY <1>1 DEF At, Command, Earlier
<1> QED
  BY <1>2 DEF Due, RouteLeft

\* All outputs of a routing are switched.
LEMMA AllSwitched ==
    ASSUME NEW turn, NEW routes \in Routing
    PROVE  \A o \in Outputs : At(turn, Command("route", o, routes[o])) \in RoutesTo(turn, routes)
<1>1. None \notin Inputs
  BY NoneAssumption, PortNumbersAssumption DEF NoneAssumption, PortNumbersAssumption
<1> QED
  BY <1>1 DEF RoutesTo, Routing

LEMMA RoutingKept ==
    ASSUME Settled, JobOK', PlanInv, RoutingInv, [TransferNext]_transferVars
    PROVE  RoutingInv'
<1> DEFINE Goal == /\ job'.phase = "pushing" => \A o \in Outputs : StrayWhilePushing(o)'
                   /\ Rebuilt' => \A o \in Outputs : StrayAfterwards(o)'
           Given == /\ job.phase = "pushing" => \A o \in Outputs : StrayWhilePushing(o)
                    /\ Rebuilt => \A o \in Outputs : StrayAfterwards(o)
<1> SUFFICES ASSUME SlotsUndisturbed', "routes" \notin job'.others PROVE Goal
  BY DEF RoutingInv
<1> USE DEF Keeps, Terms, Lists
<1>1. JobOK /\ CoreTypeOK /\ job \in Job /\ PlanKinds /\ PlanOfBackup /\ NoSaves' /\ NoSaves
  <2>1. NoSaves /\ NoSaves'
    BY ConditionsHeld DEF SlotsUndisturbed
  <2> QED
    BY <2>1, JobOKType DEF Settled, PlanInv
<1>2. job'.others = job.others => Given
  BY <1>1 DEF RoutingInv, SlotsUndisturbed
<1>3. ASSUME job'.phase # "pushing", ~Rebuilt' PROVE Goal
  BY <1>3
<1>4. ASSUME Given, UNCHANGED <<slots, backup>>, device'.routes = device.routes,
             job'.live = job.live, job'.before = job.before, job'.plan = job.plan,
             job'.phase = job.phase, job'.kind = job.kind
      PROVE  Goal
  <2>1. \A o \in Outputs : StrayWhilePushing(o)' <=> StrayWhilePushing(o)
    BY <1>4 DEF StrayWhilePushing, Stray, RouteLeft, SaveLeft, Unlike, Whole, WholeBackup
  <2>2. \A o \in Outputs : StrayAfterwards(o)' <=> StrayAfterwards(o)
    BY <1>4 DEF StrayAfterwards, Stray, ReturnLeft, Unlike, Whole, WholeBackup
  <2>3. Rebuilt' <=> Rebuilt
    BY <1>4 DEF Rebuilt, Finished
  <2> QED
    BY <1>4, <2>1, <2>2, <2>3
\* Once the routes are back the plan no longer matters.
<1>5. ASSUME Given, UNCHANGED <<slots, backup>>, device'.routes = device.routes,
             job'.live = job.live, job'.before = job.before, job'.phase # "pushing",
             Rebuilt, job.phase = "returning" => job.plan = {}
      PROVE  Goal
  <2>1. ASSUME NEW o \in Outputs PROVE StrayAfterwards(o)'
    <3>1. job.live[o] = job.before[o] /\ (Stray(o) => \A k \in Whole : Unlike(k))
      BY <1>5 DEF StrayAfterwards, ReturnLeft
    <3> QED
      BY <1>5, <3>1 DEF StrayAfterwards, Stray, Unlike, Whole, WholeBackup
  <2> QED
    BY <1>5, <2>1
<1>6. CASE StartEffect
  <2>1. CASE job'.phase = "pushing"
    <3>1. /\ job'.plan = PushPlan /\ backup' = backup /\ job'.live = job'.before
      BY <1>6, <2>1 DEF StartEffect, vars, memory, backupVars
    <3>2. ASSUME NEW k \in Whole
          PROVE  SaveLeft(k)' /\ \A o \in Outputs : RouteLeft(k, o)'
      <4>1. backup[k].routes \in Routing /\ k \in BackedUp
        BY DEF Whole, WholeBackup, BackedUp
      <4>2. /\ At(k, Command("save", k, None)) \in Rebuild(k)
            /\ \A o \in Outputs : At(k, Command("route", o, backup[k].routes[o])) \in Rebuild(k)
        BY <4>1, AllSwitched DEF Rebuild
      <4> QED
        BY <3>1, <4>1, <4>2 DEF SaveLeft, RouteLeft, PushPlan
    <3> QED
      BY <2>1, <3>1, <3>2 DEF StrayWhilePushing, Whole, WholeBackup, Rebuilt, Finished
  <2> QED
    BY <1>3, <1>6, <2>1 DEF StartEffect, Rebuilt, RestorePhases, Finished
<1>7. ASSUME NEW step \in job.plan, SkipEffect(step) PROVE Goal
  <2>1. /\ UNCHANGED <<slots, backup, device>> /\ job'.live = job.live /\ job'.before = job.before
        /\ job'.phase = job.phase /\ job'.kind = job.kind /\ job'.plan = job.plan \ {step}
        /\ Given /\ Satisfied(step.does)
    BY <1>2, <1>7 DEF SkipEffect, vars, matrixVars, memory, backupVars
  <2>2. CASE job.phase = "pushing"
    <3>1. ASSUME NEW o \in Outputs, Stray(o)' PROVE StrayWhilePushing(o)'
      <4>1. /\ job.live[o] = job.before[o]
            /\ \A k \in Whole : /\ RouteLeft(k, o) \/ backup[k].routes[o] = job.before[o]
                                /\ SaveLeft(k) \/ Unlike(k)
        BY <2>1, <2>2, <3>1 DEF Stray, StrayWhilePushing
      <4>2. \A k \in Whole : RouteLeft(k, o) => RouteLeft(k, o)' \/ backup[k].routes[o] = job.before[o]
        BY <2>1, <4>1 DEF RouteLeft, At, Command, Satisfied
      <4>3. \A k \in Whole : SaveLeft(k) => SaveLeft(k)'
        BY <2>1 DEF SaveLeft, At, Command, Satisfied
      <4> QED
        BY <2>1, <4>1, <4>2, <4>3 DEF StrayWhilePushing, Whole, WholeBackup, Unlike
    <3> QED
      BY <2>1, <2>2, <3>1 DEF StrayWhilePushing, Rebuilt, Finished
  <2>3. CASE job.phase # "pushing"
    <3>1. ASSUME Rebuilt, NEW o \in Outputs PROVE StrayAfterwards(o)'
      <4>1. StrayAfterwards(o)
        BY <2>1, <3>1
      <4>2. job.phase = "returning" /\ ReturnLeft(o) =>
               job.live[o] = job.before[o] \/ ReturnLeft(o)'
        BY <2>1 DEF ReturnLeft, At, Command, Satisfied
      <4> QED
        BY <2>1, <4>1, <4>2 DEF StrayAfterwards, Stray, Unlike, Whole, WholeBackup
    <3> QED
      BY <2>1, <2>3, <3>1 DEF Rebuilt, Finished
  <2> QED
    BY <2>2, <2>3
<1>8. CASE WaitEffect
  BY <1>2, <1>4, <1>8 DEF WaitEffect, matrixVars, memory, backupVars
<1>9. CASE PhaseEffect
  <2>1. /\ UNCHANGED <<slots, backup, device>> /\ job'.live = job.live /\ job'.before = job.before
        /\ Given /\ job.plan = {}
    BY <1>2, <1>9 DEF PhaseEffect, vars, matrixVars, memory, backupVars
  <2>2. CASE job.phase = "pushing"
    <3>1. job'.phase = "returning" /\ job'.plan = RoutesTo(0, job.before)
      BY <1>9, <2>2 DEF PhaseEffect
    <3>2. ASSUME NEW o \in Outputs PROVE StrayAfterwards(o)'
      <4>1. ReturnLeft(o)'
        <5>1. job.before \in Routing
          BY <1>1 DEF Job
        <5> QED
          BY <2>1, <3>1, <5>1, AllSwitched DEF ReturnLeft
      <4>2. Stray(o) => job.live[o] = job.before[o] /\ \A k \in Whole : Unlike(k)
        BY <2>1, <2>2 DEF StrayWhilePushing, SaveLeft
      <4> QED
        BY <2>1, <3>1, <4>1, <4>2 DEF StrayAfterwards, Stray, Unlike, Whole, WholeBackup
    <3> QED
      BY <3>1, <3>2
  <2>3. CASE job.phase # "pushing"
    <3>1. Rebuilt /\ job'.phase # "pushing"
      BY <1>9, <2>3 DEF PhaseEffect, Rebuilt, RestorePhases
    <3> QED
      BY <1>5, <2>1, <3>1
  <2> QED
    BY <2>2, <2>3
<1>10. ASSUME NEW step \in job.plan, Due(step), CommandEffect(step) PROVE Goal
  <2> DEFINE r == step.does
  <2>1. /\ device' = Written(device, r) /\ r \in Request /\ backup' = backup /\ Given
        /\ slots' = CASE r.kind = "save"  -> [slots EXCEPT ![r.port] = device.routes]
                      [] r.kind = "clear" -> [slots EXCEPT ![r.port] = None]
                      [] OTHER            -> slots
        /\ job'.before = job.before /\ job'.phase = job.phase /\ job'.kind = job.kind
        /\ job'.plan = job.plan \ {step}
        /\ job'.live = IF r.kind = "route" THEN [job.live EXCEPT ![r.port] = r.value] ELSE job.live
    BY <1>2, <1>10 DEF CommandEffect, Execute, memory, backupVars
  <2>2. /\ device.routes \in [Outputs -> Inputs] /\ job.live \in [Outputs -> Inputs]
        /\ device \in State /\ slots \in SlotContents
    BY <1>1 DEF CoreTypeOK, MatrixTypeOK, State, Job, Routing
  <2>3. CASE r.kind = "route"
    <3>1. r.port \in Outputs /\ r.value \in Inputs
      BY <2>1, <2>3 DEF Request
    <3>2. /\ device'.routes = [device.routes EXCEPT ![r.port] = r.value]
          /\ job'.live = [job.live EXCEPT ![r.port] = r.value] /\ slots' = slots
      BY <2>1, <2>2, <2>3 DEF Written, State
    <3>3. ~Stray(r.port)' /\ \A o \in Outputs \ {r.port} : Stray(o)' <=> Stray(o)
      BY <2>2, <3>1, <3>2 DEF Stray
    <3>4. CASE job.phase = "pushing"
      <4>1. ASSUME NEW o \in Outputs, o # r.port PROVE StrayWhilePushing(o)'
        <5>1. StrayWhilePushing(o) /\ job'.live[o] = job.live[o]
          BY <2>1, <2>2, <3>1, <3>2, <3>4, <4>1
        <5>2. \A k \in Whole : (RouteLeft(k, o) => RouteLeft(k, o)') /\ (SaveLeft(k) => SaveLeft(k)')
          BY <2>1, <2>3, <4>1 DEF RouteLeft, SaveLeft, At, Command
        <5> QED
          BY <2>1, <3>2, <3>3, <4>1, <5>1, <5>2 DEF StrayWhilePushing, Whole, WholeBackup, Unlike
      <4> QED
        BY <2>1, <3>3, <3>4, <4>1 DEF StrayWhilePushing, Rebuilt, Finished
    <3>5. CASE job.phase # "pushing"
      <4>1. job.phase = "returning"
        BY <1>1, <1>10, <2>3, <3>5 DEF CommandEffect, PlanKinds
      <4>2. r.value = job.before[r.port]
        BY <1>1, <4>1 DEF PlanKinds, RoutesTo, At, Command
      <4>3. ASSUME NEW o \in Outputs PROVE StrayAfterwards(o)'
        <5>1. CASE o = r.port
          BY <2>1, <2>2, <3>1, <3>2, <3>3, <4>2, <5>1 DEF StrayAfterwards
        <5>2. CASE o # r.port
          <6>1. StrayAfterwards(o) /\ job'.live[o] = job.live[o]
            BY <2>1, <2>2, <3>1, <3>2, <4>1, <5>2 DEF Rebuilt, RestorePhases
          <6>2. ReturnLeft(o) => ReturnLeft(o)'
            BY <2>1, <5>2 DEF ReturnLeft, At, Command
          <6> QED
            BY <2>1, <3>2, <3>3, <5>2, <6>1, <6>2 DEF StrayAfterwards, Unlike, Whole, WholeBackup
        <5> QED
          BY <5>1, <5>2
      <4> QED
        BY <2>1, <4>1, <4>3
    <3> QED
      BY <3>4, <3>5
  <2>4. CASE r.kind # "route"
    <3>1. device'.routes = device.routes /\ job'.live = job.live
      BY <2>1, <2>2, <2>4 DEF Written, State
    <3>2. CASE job.phase = "pushing"
      <4>1. \A k \in Whole : \A o \in Outputs : RouteLeft(k, o) => RouteLeft(k, o)'
        BY <2>1, <2>4 DEF RouteLeft, At, Command
      <4>2. CASE r.kind = "save"
        <5>1. PICK k \in BackedUp : step = At(k, Command("save", k, None))
          BY <1>1, <3>2, <4>2 DEF PlanOfBackup, PushPlan, Rebuild, RoutesTo, At, Command
        <5>2. k \in Slots /\ r.port = k
          BY <5>1 DEF BackedUp, At, Command
        <5>3. slots' = [slots EXCEPT ![k] = device.routes]
          BY <2>1, <4>2, <5>2
        <5>4. ASSUME NEW o \in Outputs, Stray(o)' PROVE StrayWhilePushing(o)'
          <6>1. Stray(o)
            BY <3>1, <5>4 DEF Stray
          <6>2. /\ job.live[o] = job.before[o]
                /\ \A l \in Whole : /\ RouteLeft(l, o) \/ backup[l].routes[o] = job.before[o]
                                    /\ SaveLeft(l) \/ Unlike(l)
            BY <2>1, <3>2, <6>1 DEF StrayWhilePushing
          <6>3. ~RouteLeft(k, o)
            BY <1>10, <5>1, <5>2, RoutedBeforeSaved
          <6>4. ASSUME k \in Whole PROVE device.routes # backup[k].routes
            <7>1. RouteLeft(k, o) \/ backup[k].routes[o] = job.before[o]
              BY <6>2, <6>4
            <7>2. backup[k].routes[o] = job.before[o]
              BY <6>3, <7>1
            <7> QED
              BY <6>1, <6>2, <7>2 DEF Stray
          <6>5. k \in Whole => Unlike(k)'
            BY <2>1, <2>2, <5>2, <5>3, <6>4 DEF Unlike, SlotContents
          <6>6. \A l \in Whole \ {k} : (SaveLeft(l) => SaveLeft(l)') /\ (Unlike(l) => Unlike(l)')
            BY <2>1, <5>1, <5>3 DEF SaveLeft, Unlike, At, Command
          <6> QED
            BY <2>1, <3>1, <4>1, <6>2, <6>5, <6>6 DEF StrayWhilePushing, Whole, WholeBackup
        <5> QED
          BY <2>1, <3>2, <5>4 DEF StrayWhilePushing, Rebuilt, Finished
      <4>3. CASE r.kind # "save"
        <5>1. slots' = slots
          BY <1>1, <2>1, <3>2, <4>3 DEF PlanKinds
        <5>2. \A k \in Whole : SaveLeft(k) => SaveLeft(k)'
          BY <2>1, <4>3 DEF SaveLeft, At, Command
        <5>3. \A o \in Outputs : StrayWhilePushing(o)'
          BY <2>1, <3>1, <3>2, <4>1, <5>1, <5>2 DEF StrayWhilePushing, Stray, Whole, WholeBackup, Unlike
        <5> QED
          BY <2>1, <3>2, <5>3 DEF Rebuilt, Finished
      <4> QED
        BY <4>2, <4>3
    <3>3. CASE job.phase # "pushing"
      <4>1. job.phase = "edids" /\ r.kind = "edid"
        BY <1>1, <1>10, <2>4, <3>3 DEF CommandEffect, PlanKinds, RoutesTo, At, Command
      <4>2. slots' = slots
        BY <2>1, <4>1
      <4> QED
        BY <1>5, <2>1, <3>1, <4>1, <4>2 DEF Rebuilt, RestorePhases
    <3> QED
      BY <3>2, <3>3
  <2> QED
    BY <2>3, <2>4
<1>11. ASSUME NEW step \in job.plan, SentEffect(step) \/ ReadEffect(step) PROVE Goal
  <2>1. /\ UNCHANGED <<slots, backup, device>> /\ job'.live = job.live /\ job'.before = job.before
        /\ job'.phase = job.phase /\ job'.others = job.others
        /\ job.phase \in {"reading", "verifying"}
    BY <1>11 DEF SentEffect, ReadEffect, vars, matrixVars, memory, backupVars
  <2>2. CASE job.phase = "verifying"
    BY <1>2, <1>5, <2>1, <2>2 DEF Rebuilt, RestorePhases
  <2> QED
    BY <1>3, <2>1, <2>2 DEF Rebuilt, RestorePhases, Finished
<1>12. CASE FailEffect \/ KillEffect
  BY <1>3, <1>12 DEF FailEffect, KillEffect, Rebuilt, RestorePhases, Finished
<1>13. CASE KeepEffect
  BY <1>3, <1>13 DEF KeepEffect, Rebuilt, RestorePhases, Finished
<1>14. CASE StoredEffect
  BY <1>1, <1>3, <1>14 DEF StoredEffect, Rebuilt, RestorePhases, Finished, JobOK, PhaseOK
<1>15. CASE AppliedEffect \/ ReturnEffect
  <2>1. /\ UNCHANGED <<slots, backup, device>> /\ job'.live = job.live /\ job'.before = job.before
        /\ job'.phase \in {"refreshing", "done", "failed"} /\ job'.others = job.others
        /\ job.phase \in {"verifying", "refreshing"}
    BY <1>15 DEF AppliedEffect, ReturnEffect, Verdict, matrixVars, memory, backupVars
  <2> QED
    BY <1>2, <1>5, <2>1 DEF Rebuilt, RestorePhases
<1>16. CASE OtherEffect
  <2>1. /\ slots' = slots /\ device'.routes = device.routes
        /\ "slots" \notin job.others /\ "routes" \notin job.others
    BY <1>16 DEF OtherEffect, SlotsUndisturbed
  <2>2. backup' = backup
    BY <1>1, <1>16, OthersRespect DEF Respected
  <2>3. Given
    BY <1>1, <2>1 DEF RoutingInv, SlotsUndisturbed
  <2> QED
    BY <1>4, <1>16, <2>1, <2>2, <2>3 DEF OtherEffect
<1> QED
  BY <1>1, <1>6, <1>7, <1>8, <1>9, <1>10, <1>11, <1>12, <1>13, <1>14, <1>15, <1>16, Effects

(***************************************************************************)
(* A restore that reports success has put the routing back that was on     *)
(* show when it began, unless somebody else switched an output: an output  *)
(* whose route was skipped by mistake spoils every slot the backup has     *)
(* otherwise, so that the verification fails, as long as it has one that   *)
(* is whole.  On show is what the last poll and the writes since have      *)
(* left, which the matrix may no longer have had.                          *)
(***************************************************************************)
THEOREM RoutingIsPutBack == TransferSpec => []RoutingPutBack
<1>1. TransferInit => PlanInv /\ VerifyInv /\ RoutingInv
  BY DEF TransferInit, NoJob, PlanInv, PlanKinds, PlanOfBackup, VerifyInv, RoutingInv, Rebuilt,
         Verified, Finished, RestorePhases
<1>2. Settled /\ PlanInv /\ [TransferNext]_transferVars => PlanInv'
  BY PlanKept
<1>3. Settled /\ JobOK' /\ PlanInv /\ VerifyInv /\ [TransferNext]_transferVars => VerifyInv'
  BY VerifyKept
<1>4. Settled /\ JobOK' /\ PlanInv /\ RoutingInv /\ [TransferNext]_transferVars => RoutingInv'
  BY RoutingKept
<1>5. Settled /\ PlanInv /\ VerifyInv /\ RoutingInv => RoutingPutBack
  <2> SUFFICES ASSUME Settled, PlanInv, VerifyInv, RoutingInv, Finished("restore"),
                      SlotsUndisturbed, "routes" \notin job.others,
                      \E k \in Slots : WholeBackup(k)
               PROVE  device.routes = job.before
    BY DEF RoutingPutBack
  <2>1. CoreTypeOK /\ job \in Job
    BY JobOKType DEF Settled
  <2>2. device.routes \in [Outputs -> Inputs] /\ job.before \in [Outputs -> Inputs]
    BY <2>1 DEF CoreTypeOK, MatrixTypeOK, State, Job, Routing
  <2>3. job.phase = "done" /\ \A k \in Whole : ~Unlike(k)
    BY DEF VerifyInv, Verified, Finished, Judged, Unlike, Whole, WholeBackup, BackedUp
  <2>4. PICK k \in Slots : k \in Whole
    BY DEF Whole
  <2>5. \A o \in Outputs : device.routes[o] = job.before[o]
    BY <2>3, <2>4 DEF RoutingInv, Rebuilt, StrayAfterwards, Stray
  <2> QED
    BY <2>2, <2>5
<1> QED
  BY <1>1, <1>2, <1>3, <1>4, <1>5, SettledThroughout, JobCoherence, PTL DEF TransferSpec

----------------------------------------------------------------------------
(* The EDIDs: one that is not the backup's is shown as it is, so that the  *)
(* restore does not take it for done.                                      *)

\* The poll has read the EDIDs.
InputRead(p) == \E n \in 1..(poll[p].reading - 1) : Reads[n] = "input"

EdidShown(i) ==
    /\ data.edids[i] = device.edids[i]
    /\ \A p \in Polls : InputRead(p) => poll[p].view.edids[i] = device.edids[i]

EdidInPlace(i) == edidBackup[i] = None \/ device.edids[i] = edidBackup[i]

EdidLeft(i) == At(0, Command("edid", i, edidBackup[i])) \in job.plan

EdidInv ==
    EdidsUndisturbed =>
        /\ \A i \in Inputs : EdidInPlace(i) \/ EdidShown(i)
        /\ job.phase = "edids" => /\ job.plan \subseteq EdidPlan
                                  /\ \A i \in Inputs : EdidInPlace(i) \/ EdidLeft(i)
        /\ Verified => \A i \in Inputs : EdidInPlace(i)

\* What polls and writes of anything else do to what is shown of an EDID.
LEMMA ShownKept ==
    ASSUME CoreTypeOK, CallersOK, [Next]_vars, NoEdids', NEW i \in Inputs, EdidShown(i),
           device'.edids[i] = device.edids[i]
    PROVE  EdidShown(i)'
<1>1. /\ data \in State /\ device \in State /\ Len(Reads) \in Nat
      /\ poll \in [Polls -> [reading : 0..Len(Reads), view : State]]
      /\ task \in [Tasks -> [pc : TaskStates, req : Request, at : Nat]]
  BY ReadsAssumption DEF ReadsAssumption, CoreTypeOK, MatrixTypeOK, MemoryTypeOK, LoopTypeOK
<1>2. ASSUME data'.edids[i] = data.edids[i],
             \A p \in Polls : poll'[p] = poll[p] \/ poll'[p].reading \in {0, 1}
      PROVE  EdidShown(i)'
  <2>1. \A p \in Polls : InputRead(p)' => InputRead(p) /\ poll'[p] = poll[p]
    BY <1>2 DEF InputRead
  <2> QED
    BY <1>2, <2>1 DEF EdidShown
<1>3. ASSUME NEW p \in Polls, poll' = [poll EXCEPT ![p] = [@ EXCEPT !.reading = 1]]
      PROVE  \A q \in Polls : poll'[q] = poll[q] \/ poll'[q].reading \in {0, 1}
  BY <1>1, <1>3
<1>4. ASSUME NEW p \in Polls, PollOver(p)
      PROVE  \A q \in Polls : poll'[q] = poll[q] \/ poll'[q].reading \in {0, 1}
  BY <1>1, <1>4 DEF PollOver, NotPolling
<1>5. ASSUME NEW t \in Tasks, Deliver(t) PROVE EdidShown(i)'
  <2>1. /\ data' = Written(data, task[t].req)
        /\ RefreshNow(t) \/ RefreshLater(t)
    BY <1>5 DEF Deliver, Reflect
  <2>2. task'[t].req = task[t].req
    <3>1. \E pc : task' = [task EXCEPT ![t].pc = pc]
      BY <2>1 DEF RefreshNow, RefreshLater, FollowUp
    <3> QED
      BY <1>1, <3>1
  <2>3. data'.edids = data.edids
    BY <1>1, <2>1, <2>2 DEF NoEdids, Written, State
  <2>4. CASE RefreshNow(t)
    <3>1. poll' = [poll EXCEPT !["requested"] = [@ EXCEPT !.reading = 1]] /\ "requested" \in Polls
      BY <2>4 DEF RefreshNow, Polls
    <3> QED
      BY <1>2, <1>3, <2>3, <3>1
  <2>5. CASE RefreshLater(t)
    BY <1>2, <2>3, <2>5 DEF RefreshLater
  <2> QED
    BY <2>1, <2>4, <2>5
<1>6. ASSUME UNCHANGED <<data, poll>> PROVE EdidShown(i)'
  BY <1>2, <1>6
<1>7. ASSUME NEW t \in Tasks, Caller(t) PROVE EdidShown(i)'
  <2>1. CASE \E r \in Requests : Submit(t, r) \/ SubmitRecall(t, r) \/ RefuseRecall(t, r)
    BY <1>6, <2>1 DEF Submit, SubmitRecall, RefuseRecall, Begin, memory, pollVars
  <2>2. CASE (\E executed \in BOOLEAN : Fail(t, executed)) \/ Resume(t) \/ StoreWrite(t)
    BY <1>6, <2>2 DEF Fail, Resume, StoreWrite, pollVars
  <2> QED
    BY <1>5, <1>7, <2>1, <2>2 DEF Caller
<1>8. ASSUME NEW p \in Polls, PollRead(p) PROVE EdidShown(i)'
  <2> DEFINE n == poll[p].reading
  <2>1. /\ n \in 1..(Len(Reads) - 1) /\ data' = data /\ device' = device
        /\ poll' = [poll EXCEPT ![p] = [reading |-> n + 1,
                                        view |-> ReadTable(poll[p].view, Reads[n])]]
    BY <1>1, <1>8 DEF PollRead, memory, matrixVars
  <2>2. \A q \in Polls \ {p} : poll'[q] = poll[q] /\ (InputRead(q)' <=> InputRead(q))
    BY <1>1, <2>1 DEF InputRead
  <2>3. poll'[p].reading = n + 1 /\ poll'[p].view.edids = ReadTable(poll[p].view, Reads[n]).edids
    BY <1>1, <2>1
  <2>4. InputRead(p)' => InputRead(p) \/ Reads[n] = "input"
    BY <1>1, <2>1, <2>3 DEF InputRead
  <2>5. InputRead(p)' => poll'[p].view.edids[i] = device.edids[i]
    BY <2>3, <2>4 DEF ReadTable, EdidShown
  <2> QED
    BY <2>1, <2>2, <2>5 DEF EdidShown
<1>9. ASSUME NEW p \in Polls, PollFinish(p) PROVE EdidShown(i)'
  <2>1. /\ data'.edids = ReadTable(poll[p].view, Reads[Len(Reads)]).edids
        /\ poll[p].reading = Len(Reads) /\ PollOver(p)
    BY <1>9 DEF PollFinish
  <2>2. Reads[Len(Reads)] = "input" \/ InputRead(p)
    BY <1>1, <2>1, EdidsReadAssumption DEF EdidsReadAssumption, InputRead
  <2>3. data'.edids[i] = device.edids[i]
    BY <2>1, <2>2 DEF ReadTable, EdidShown
  <2> QED
    BY <1>2, <1>4, <2>1, <2>3 DEF EdidShown
<1>10. ASSUME NEW p \in Polls, PollBlank(p) \/ PollFail(p) PROVE EdidShown(i)'
  <2>1. data'.edids = data.edids /\ PollOver(p)
    BY <1>1, <1>10 DEF PollBlank, PollFail, State
  <2> QED
    BY <1>2, <1>4, <2>1
<1>11. CASE \E p \in Polls : PollStumble(p)
  BY <1>6, <1>11 DEF PollStumble, memory, pollVars
<1>12. CASE PollStart \/ Rerun
  <2>1. /\ data' = data /\ {"scheduled", "requested"} \subseteq Polls
        /\ \/ poll' = [poll EXCEPT !["scheduled"] = [@ EXCEPT !.reading = 1]]
           \/ poll' = [poll EXCEPT !["requested"] = [@ EXCEPT !.reading = 1]]
    BY <1>12 DEF PollStart, Rerun, memory, Polls
  <2> QED
    BY <1>2, <1>3, <2>1
<1>13. CASE Cooled \/ RerunDone \/ Matrix \/ Tick \/ UNCHANGED vars
  BY <1>6, <1>13 DEF Cooled, RerunDone, Matrix, SettleOutput, Outside, Flash, Tick, vars, memory, pollVars
<1>14. CASE Restart
  <2>1. data' = device /\ device' = device /\ poll' = [p \in Polls |-> NotPolling]
    BY <1>14 DEF Restart, matrixVars
  <2>2. \A p \in Polls : poll'[p].reading = 0
    BY <2>1 DEF NotPolling
  <2> QED
    BY <2>1, <2>2 DEF EdidShown, InputRead
<1> QED
  BY <1>7, <1>8, <1>9, <1>10, <1>11, <1>12, <1>13, <1>14 DEF Next, Poller

\* A restart shows everything as it is.
LEMMA RestartShows ==
    ASSUME Restart, NEW i \in Inputs PROVE EdidShown(i)'
<1>1. data' = device /\ device' = device /\ \A p \in Polls : poll'[p].reading = 0
  BY DEF Restart, matrixVars, NotPolling
<1> QED
  BY <1>1 DEF EdidShown, InputRead

LEMMA EdidsKept ==
    ASSUME Settled, JobOK', PlanInv, EdidInv, [TransferNext]_transferVars
    PROVE  EdidInv'
<1> DEFINE Goal == /\ \A i \in Inputs : EdidInPlace(i)' \/ EdidShown(i)'
                   /\ job'.phase = "edids" => /\ job'.plan \subseteq EdidPlan'
                                              /\ \A i \in Inputs : EdidInPlace(i)' \/ EdidLeft(i)'
                   /\ Verified' => \A i \in Inputs : EdidInPlace(i)'
<1> SUFFICES ASSUME EdidsUndisturbed' PROVE Goal
  BY DEF EdidInv
<1> USE DEF Keeps, Terms, Lists
<1>1. /\ JobOK /\ CoreTypeOK /\ CallersOK /\ PlanKinds /\ NoEdids' /\ outside' = 0 /\ ~job'.misread
      /\ \A i \in Inputs : EdidInPlace(i) \/ EdidShown(i)
      /\ job.phase = "edids" => /\ job.plan \subseteq EdidPlan
                                /\ \A i \in Inputs : EdidInPlace(i) \/ EdidLeft(i)
      /\ Verified => \A i \in Inputs : EdidInPlace(i)
  <2>1. NoEdids' /\ outside' = 0 /\ ~job'.misread
    BY DEF EdidsUndisturbed, NoEdids
  <2>2. EdidsUndisturbed
    BY <2>1, ConditionsHeld DEF EdidsUndisturbed, NoEdids
  <2> QED
    BY <2>1, <2>2, JobOKType DEF Settled, PlanInv, EdidInv
<1>2. ASSUME UNCHANGED <<device, edidBackup>>
      PROVE  EdidPlan' = EdidPlan /\ \A i : EdidInPlace(i)' <=> EdidInPlace(i)
  BY <1>2 DEF EdidPlan, EdidInPlace
<1>3. ASSUME UNCHANGED <<device, edidBackup, data, poll>>
      PROVE  \A i : EdidShown(i)' <=> EdidShown(i)
  BY <1>3 DEF EdidShown, InputRead
\* Nothing the EDIDs depend on changes, nor what is left of them.
<1>4. ASSUME UNCHANGED <<device, edidBackup, data, poll>>,
             job'.phase = "edids" => job.phase = "edids" /\ job'.plan = job.plan,
             Verified' => Verified
      PROVE  Goal
  BY <1>1, <1>2, <1>3, <1>4 DEF EdidLeft
<1>5. CASE StartEffect
  BY <1>4, <1>5 DEF StartEffect, vars, matrixVars, memory, backupVars, pollVars, Verified, Finished
<1>6. ASSUME NEW step \in job.plan, SkipEffect(step) PROVE Goal
  <2>1. /\ UNCHANGED <<device, edidBackup, data, poll>> /\ job'.plan = job.plan \ {step}
        /\ job'.phase = job.phase /\ job'.kind = job.kind /\ Satisfied(step.does)
    BY <1>6 DEF SkipEffect, vars, matrixVars, memory, backupVars, pollVars
  <2>2. CASE job.phase = "edids"
    <3>1. PICK i \in Inputs : step = At(0, Command("edid", i, edidBackup[i]))
      BY <1>1, <2>2 DEF EdidPlan
    <3>2. EdidInPlace(i)
      <4>1. data.edids[i] = edidBackup[i]
        BY <2>1, <3>1 DEF Satisfied, At, Command
      <4> QED
        BY <1>1, <4>1 DEF EdidShown, EdidInPlace
    <3>3. \A j \in Inputs \ {i} : EdidLeft(j) => EdidLeft(j)'
      BY <2>1, <3>1 DEF EdidLeft, At, Command
    <3> QED
      BY <1>1, <1>2, <1>3, <2>1, <2>2, <3>2, <3>3 DEF Verified, Finished
  <2>3. CASE job.phase # "edids"
    BY <1>4, <2>1, <2>3 DEF Verified, Finished
  <2> QED
    BY <2>2, <2>3
<1>7. CASE WaitEffect
  BY <1>4, <1>7 DEF WaitEffect, matrixVars, memory, backupVars, pollVars, Verified, Finished
<1>8. CASE PhaseEffect
  <2>1. UNCHANGED <<device, edidBackup, data, poll>> /\ job.plan = {}
    BY <1>8 DEF PhaseEffect, vars, matrixVars, memory, backupVars, pollVars
  <2>2. CASE job.phase = "pushing"
    BY <1>4, <1>8, <2>1, <2>2 DEF PhaseEffect, Verified, Finished
  <2>3. CASE job.phase = "returning"
    <3>1. job'.phase = "edids" /\ job'.plan = EdidPlan
      BY <1>8, <2>3 DEF PhaseEffect
    <3>2. \A i \in Inputs : EdidInPlace(i) \/ EdidLeft(i)'
      BY <2>1, <3>1 DEF EdidInPlace, EdidLeft, EdidPlan
    <3> QED
      BY <1>1, <1>2, <1>3, <2>1, <3>1, <3>2 DEF Verified, Finished
  <2>4. CASE job.phase = "edids"
    <3>1. job'.phase = "verifying" /\ \A i \in Inputs : EdidInPlace(i)
      BY <1>1, <1>8, <2>1, <2>4 DEF PhaseEffect, EdidLeft
    <3> QED
      BY <1>2, <2>1, <3>1
  <2> QED
    BY <1>8, <2>2, <2>3, <2>4 DEF PhaseEffect
\* A command of the job, whether the job hears of its execution or not.
<1>9. ASSUME NEW step \in job.plan, step.does \in Request, Execute(step.does),
             UNCHANGED <<edidBackup, data, poll>>, job.phase \in {"pushing", "returning", "edids"},
             ~Verified', job'.phase = "edids" => job.phase = "edids" /\ job'.plan = job.plan \ {step}
      PROVE  Goal
  <2>1. device \in State /\ device' = Written(device, step.does)
    BY <1>1, <1>9 DEF CoreTypeOK, MatrixTypeOK, Execute
  <2>2. CASE job.phase = "edids"
    <3>1. PICK i \in Inputs : step = At(0, Command("edid", i, edidBackup[i]))
      BY <1>1, <2>2 DEF EdidPlan
    <3>2. device'.edids = [device.edids EXCEPT ![i] = edidBackup[i]]
      BY <2>1, <3>1 DEF Written, State, At, Command
    <3>3. device.edids \in [Inputs -> Profiles]
      BY <2>1 DEF State
    <3>4. EdidInPlace(i)'
      BY <1>9, <3>2, <3>3 DEF EdidInPlace
    <3>5. ASSUME NEW j \in Inputs, j # i
          PROVE  /\ EdidInPlace(j)' <=> EdidInPlace(j)
                 /\ EdidShown(j)' <=> EdidShown(j)
                 /\ job'.phase = "edids" /\ EdidLeft(j) => EdidLeft(j)'
      <4>1. device'.edids[j] = device.edids[j]
        BY <3>2, <3>3, <3>5
      <4>2. step # At(0, Command("edid", j, edidBackup[j]))
        BY <3>1, <3>5 DEF At, Command
      <4> QED
        BY <1>9, <4>1, <4>2 DEF EdidInPlace, EdidShown, InputRead, EdidLeft
    <3>6. EdidPlan' = EdidPlan
      BY <1>9 DEF EdidPlan
    <3>7. \A j \in Inputs : EdidInPlace(j)' \/ EdidShown(j)'
      BY <1>1, <3>4, <3>5
    <3>8. job'.phase = "edids" => /\ job'.plan \subseteq EdidPlan'
                                  /\ \A j \in Inputs : EdidInPlace(j)' \/ EdidLeft(j)'
      BY <1>1, <1>9, <2>2, <3>4, <3>5, <3>6
    <3> QED
      BY <1>9, <3>7, <3>8
  <2>3. CASE job.phase # "edids"
    <3>1. step.does.kind # "edid"
      BY <1>1, <1>9, <2>3 DEF PlanKinds, RoutesTo, At, Command
    <3>2. device'.edids = device.edids
      BY <2>1, <3>1 DEF Written, State
    <3>3. \A i : (EdidInPlace(i)' <=> EdidInPlace(i)) /\ (EdidShown(i)' <=> EdidShown(i))
      BY <1>9, <3>2 DEF EdidInPlace, EdidShown, InputRead
    <3> QED
      BY <1>1, <1>9, <2>3, <3>3
  <2> QED
    BY <2>2, <2>3
<1>10. ASSUME NEW step \in job.plan, CommandEffect(step) PROVE Goal
  <2>1. /\ step.does \in Request /\ Execute(step.does) /\ UNCHANGED <<edidBackup, data, poll>>
        /\ job'.phase = job.phase /\ job.phase \in {"pushing", "returning", "edids"}
        /\ job'.plan = job.plan \ {step}
    BY <1>10 DEF CommandEffect, memory, backupVars, pollVars
  <2> QED
    BY <1>9, <2>1 DEF Verified, Finished
<1>11. ASSUME NEW step \in job.plan, SentEffect(step) \/ ReadEffect(step) PROVE Goal
  <2>1. /\ UNCHANGED <<device, edidBackup, data, poll>> /\ job'.phase = job.phase
        /\ job.phase \in {"reading", "verifying"}
    BY <1>11 DEF SentEffect, ReadEffect, vars, matrixVars, memory, backupVars, pollVars
  <2> QED
    BY <1>4, <2>1 DEF Verified, Finished
<1>12. CASE FailEffect
  <2>1. UNCHANGED <<edidBackup, data, poll>> /\ job'.phase = "failed"
    BY <1>12 DEF FailEffect, memory, backupVars, pollVars
  <2>2. CASE UNCHANGED matrixVars
    BY <1>4, <2>1, <2>2 DEF matrixVars, Verified, Finished
  <2>3. CASE /\ job.phase \in {"pushing", "returning", "edids"}
             /\ \E step \in job.plan : step.does \in Request /\ Execute(step.does)
    BY <1>9, <2>1, <2>3 DEF Verified, Finished
  <2> QED
    BY <1>12, <2>2, <2>3 DEF FailEffect
<1>13. CASE KeepEffect
  <2>1. device' = device /\ edidBackup' = data.edids /\ data.edids = device.edids /\ job'.phase = "saving"
    BY <1>1, <1>13 DEF KeepEffect, matrixVars
  <2> QED
    BY <2>1 DEF EdidInPlace
<1>14. CASE StoredEffect
  BY <1>1, <1>4, <1>14
  DEF StoredEffect, matrixVars, pollVars, Verified, Finished, JobOK, PhaseOK
<1>15. CASE AppliedEffect \/ ReturnEffect
  <2>1. UNCHANGED <<device, edidBackup>> /\ Verified /\ job'.phase \in {"refreshing", "done", "failed"}
    BY <1>15 DEF AppliedEffect, ReturnEffect, Verdict, matrixVars, memory, backupVars, Verified
  <2> QED
    BY <1>1, <1>2, <2>1
<1>16. CASE OtherEffect
  <2>1. /\ edidBackup' = edidBackup /\ device'.edids = device.edids /\ [Next]_vars
        /\ job'.phase = job.phase /\ job'.kind = job.kind /\ job'.plan = job.plan
    BY <1>1, <1>16, OthersRespect DEF Respected, OtherEffect
  <2>2. \A i \in Inputs : EdidShown(i) => EdidShown(i)'
    BY <1>1, <2>1, ShownKept
  <2>3. EdidPlan' = EdidPlan /\ \A i : EdidInPlace(i)' <=> EdidInPlace(i)
    BY <2>1 DEF EdidPlan, EdidInPlace
  <2>4. (\A i : EdidLeft(i)' <=> EdidLeft(i)) /\ (Verified' <=> Verified)
    BY <2>1 DEF EdidLeft, Verified, Finished
  <2> QED
    BY <1>1, <2>1, <2>2, <2>3, <2>4
<1>17. CASE KillEffect
  BY <1>17, RestartShows DEF KillEffect, Verified, Finished
<1> QED
  BY <1>1, <1>5, <1>6, <1>7, <1>8, <1>10, <1>11, <1>12, <1>13, <1>14, <1>15, <1>16, <1>17, Effects

(***************************************************************************)
(* A restore that reports success has left every slot backed up whole with *)
(* its routing, every backed-up slot with its name and every input with    *)
(* its EDID, behind any polls, callers, failures, cut answers and          *)
(* restarts: as long as nobody else saves or clears for the slots, acts    *)
(* from outside for the names and sets EDIDs for those, and no snapshot    *)
(* had kept EDIDs that the matrix did not have.                            *)
(***************************************************************************)
THEOREM RestoredIsStored == TransferSpec => []RestoredMeansStored
<1>1. TransferInit => PlanInv /\ VerifyInv /\ NamesInv /\ EdidInv
  <2> SUFFICES ASSUME TransferInit PROVE PlanInv /\ VerifyInv /\ NamesInv /\ EdidInv
    OBVIOUS
  <2>1. job.phase = "idle" /\ job.kind = "none"
    BY DEF TransferInit, NoJob
  <2>2. data = device /\ \A p \in Polls : poll[p].reading = 0
    BY DEF TransferInit, Init, NotPolling
  <2>3. \A i \in Inputs : EdidShown(i)
    BY <2>2 DEF EdidShown, InputRead
  <2> QED
    BY <2>1, <2>3 DEF PlanInv, PlanKinds, PlanOfBackup, VerifyInv, NamesInv, EdidInv, Rebuilt,
                      Verified, Finished, RestorePhases
<1>2. Settled /\ PlanInv /\ [TransferNext]_transferVars => PlanInv'
  BY PlanKept
<1>3. Settled /\ JobOK' /\ PlanInv /\ VerifyInv /\ [TransferNext]_transferVars => VerifyInv'
  BY VerifyKept
<1>4. Settled /\ JobOK' /\ PlanInv /\ NamesInv /\ [TransferNext]_transferVars => NamesInv'
  BY NamesKept
<1>5. Settled /\ JobOK' /\ PlanInv /\ EdidInv /\ [TransferNext]_transferVars => EdidInv'
  BY EdidsKept
<1>6. VerifyInv /\ NamesInv /\ EdidInv => RestoredMeansStored
  <2> SUFFICES ASSUME VerifyInv, NamesInv, EdidInv, Finished("restore"), SlotsUndisturbed
               PROVE  /\ \A k \in Slots : WholeBackup(k) => slots[k] = backup[k].routes
                      /\ outside = 0 => \A k \in BackedUp : device.names[k] = backup[k].name
                      /\ EdidsUndisturbed =>
                            \A i \in Inputs : edidBackup[i] # None => device.edids[i] = edidBackup[i]
    BY DEF RestoredMeansStored
  <2>1. Verified /\ Rebuilt /\ job.phase = "done" /\ NoSaves
    BY DEF Verified, Rebuilt, Finished, SlotsUndisturbed
  <2>2. \A k \in Slots : WholeBackup(k) => slots[k] = backup[k].routes
    BY <2>1 DEF VerifyInv, Judged, WholeBackup, BackedUp
  <2>3. outside = 0 => \A k \in BackedUp : device.names[k] = backup[k].name
    BY <2>1 DEF NamesInv, NameInPlace
  <2>4. EdidsUndisturbed =>
           \A i \in Inputs : edidBackup[i] # None => device.edids[i] = edidBackup[i]
    BY <2>1 DEF EdidInv, EdidInPlace
  <2> QED
    BY <2>2, <2>3, <2>4
<1> QED
  BY <1>1, <1>2, <1>3, <1>4, <1>5, <1>6, SettledThroughout, JobCoherence, PTL DEF TransferSpec
=============================================================================
