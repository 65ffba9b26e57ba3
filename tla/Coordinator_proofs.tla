------------------------- MODULE Coordinator_proofs -------------------------
(***************************************************************************)
(* Proofs about the coordinator, for any matrix, any callers and any       *)
(* bounds: types, that no change of the backup is lost on its way to the   *)
(* disk, that recalls are spaced, and that nobody is stranded at the lock, *)
(* at the shared refresh or at the debouncer.                              *)
(***************************************************************************)
EXTENDS CoordinatorProperties, TLAPS

----------------------------------------------------------------------------
(* What the operators of the model return.                                 *)

LEMMA WrittenType ==
    ASSUME NEW s \in State, NEW r \in Request PROVE Written(s, r) \in State
<1> USE DEF State, Request, Written
<1>1. CASE r.kind = "power"
  BY <1>1
<1>2. CASE r.kind = "route"
  BY <1>2 DEF Routing
<1>3. CASE r.kind = "setting"
  BY <1>3
<1>4. CASE r.kind = "edid"
  BY <1>4
<1>5. CASE r.kind = "rename"
  BY <1>5
<1>6. CASE r.kind \in {"save", "clear", "recall", "command"}
  BY <1>6
<1> QED
  BY <1>1, <1>2, <1>3, <1>4, <1>5, <1>6

LEMMA ReadTableType ==
    ASSUME device \in State, NEW view \in State, NEW table PROVE ReadTable(view, table) \in State
  BY DEF State, ReadTable, Routing

LEMMA UnreadType == Unread \in State
  BY PortsAssumption, FactoryAssumption
  DEF PortsAssumption, FactoryAssumption, State, Unread, Routing

LEMMA DriftType ==
    ASSUME NEW s, NEW presets, NEW edids
    PROVE  BackupDrift(s, presets, edids) \in [presets : SUBSET Slots, edids : SUBSET Inputs]
  BY DEF BackupDrift

LEMMA ActiveType ==
    ASSUME NEW s, NEW presets, NEW current \in Slots \cup {None},
           NEW found \in ActivePreset(s, presets, current)
    PROVE  found \in Slots \cup {None}
  BY DEF ActivePreset, Matches

LEMMA BackupAfterType ==
    ASSUME NEW r \in Request, NEW s \in State, NEW presets \in Presets
    PROVE  BackupAfter(r, s, presets) \in Presets
<1> USE DEF Presets, Entry, BackupAfter
<1>1. CASE r.kind = "save"
  <2>1. r.port \in Slots
    BY <1>1 DEF Request
  <2>2. [name |-> s.names[r.port], routes |-> s.routes] \in Entry
    BY <2>1 DEF State, Routing, Table
  <2> QED
    BY <1>1, <2>2
<1>2. CASE r.kind = "clear"
  BY <1>2
<1>3. CASE r.kind = "rename" /\ presets[r.port] # None
  <2>1. r.port \in Slots /\ r.value \in Names
    BY <1>3 DEF Request
  <2>2. [presets[r.port] EXCEPT !.name = r.value] \in Entry
    BY <1>3, <2>1
  <2> QED
    BY <1>3, <2>2
<1>4. CASE /\ r.kind \notin {"save", "clear"}
           /\ ~(r.kind = "rename" /\ presets[r.port] # None)
  BY <1>4
<1> QED
  BY <1>1, <1>2, <1>3, <1>4

LEMMA EdidsAfterType ==
    ASSUME NEW r \in Request, NEW edids \in EdidBackup
    PROVE  EdidsAfter(r, edids) \in EdidBackup
<1>1. CASE r.kind = "edid"
  <2>1. r.value \in Profiles
    BY <1>1 DEF Request
  <2> QED
    BY <2>1 DEF EdidsAfter, EdidBackup
<1> QED
  BY <1>1 DEF EdidsAfter

LEMMA StoredType ==
    ASSUME NEW presets \in Presets, NEW edids \in EdidBackup, NEW preset \in Slots \cup {None}
    PROVE  StoredBackup(presets, edids, preset) \in Stored
  BY DEF StoredBackup, Stored

LEMMA NotPollingType == NotPolling \in [reading : 0..Len(Reads), view : State]
  BY ReadsAssumption, UnreadType DEF ReadsAssumption, NotPolling

LEMMA ExecuteType ==
    ASSUME MatrixTypeOK, now \in Nat, NEW r \in Request, Execute(r)
    PROVE  MatrixTypeOK'
<1>1. device' \in State
  BY WrittenType DEF MatrixTypeOK, Execute
<1>2. slots' \in SlotContents
  BY DEF MatrixTypeOK, Execute, SlotContents, State
<1>3. recalling' \in Recall \cup {None}
  <2>1. CASE Recalls(r)
    <3>1. slots[r.port] \in Routing
      BY <2>1 DEF Recalls, MatrixTypeOK, SlotContents, Request
    <3> QED
      BY <2>1, <3>1 DEF Execute, Recall
  <2>2. CASE ~Recalls(r)
    BY <2>2 DEF Execute, MatrixTypeOK
  <2> QED
    BY <2>1, <2>2
<1> QED
  BY <1>1, <1>2, <1>3 DEF MatrixTypeOK

LEMMA FollowUpType ==
    ASSUME MemoryTypeOK, LoopTypeOK, NEW t \in Tasks, FollowUp(t),
           data' \in State, active' \in Slots \cup {None}
    PROVE  /\ backup' \in Presets /\ edidBackup' \in EdidBackup
           /\ pending' \in Stored \cup {None}
           /\ task' \in [Tasks -> [pc : TaskStates, req : Request, at : Nat]]
<1>1. task[t].req \in Request
  BY DEF LoopTypeOK
<1>2. backup' \in Presets
  BY <1>1, BackupAfterType DEF FollowUp, MemoryTypeOK
<1>3. edidBackup' \in EdidBackup
  BY <1>1, EdidsAfterType DEF FollowUp, MemoryTypeOK
<1>4. pending' \in Stored \cup {None}
  BY <1>2, <1>3, StoredType DEF FollowUp, MemoryTypeOK
<1>5. task' \in [Tasks -> [pc : TaskStates, req : Request, at : Nat]]
  <2>1. \E pc \in {"saving", "done"} : task' = [task EXCEPT ![t].pc = pc]
    BY DEF FollowUp
  <2> QED
    BY <2>1 DEF LoopTypeOK, TaskStates
<1> QED
  BY <1>2, <1>3, <1>4, <1>5

LEMMA QueueType ==
    ASSUME NEW waiters, QueueTypeOK(waiters), NEW a \in waiters
    PROVE  /\ Append(queue, a) \in Seq(waiters)
           /\ queue # <<>> => /\ Release \in Seq(waiters)
                              /\ Append(Release, a) \in Seq(waiters)
  BY DEF QueueTypeOK, Release

----------------------------------------------------------------------------
(***************************************************************************)
(* Every variable keeps its type.                                          *)
(***************************************************************************)
LEMMA InitType == Init => TypeOK
<1> SUFFICES ASSUME Init PROVE TypeOK
  OBVIOUS
<1>1. PICK start \in Installations :
        /\ device = start.device /\ slots = start.slots /\ data = start.device
        /\ backup = start.stored.presets /\ edidBackup = start.stored.edids
        /\ active = start.stored.active /\ disk = start.stored
        /\ drift = BackupDrift(start.device, start.stored.presets, start.stored.edids)
  BY DEF Init
<1>2. start \in [device : State, slots : SlotContents, stored : Stored]
  BY InstallationsAssumption DEF InstallationsAssumption
<1>3. MatrixTypeOK
  BY <1>1, <1>2 DEF Init, MatrixTypeOK
<1>4. MemoryTypeOK
  BY <1>1, <1>2, DriftType DEF Init, MemoryTypeOK, Stored
<1>5. LoopTypeOK
  <2>1. NoRequest \in Request
    BY DEF NoRequest, Request
  <2> QED
    BY <2>1, NotPollingType DEF Init, LoopTypeOK, TaskStates
<1>6. QueueTypeOK(Tasks \cup Polls) /\ BoundsTypeOK
  BY DEF Init, QueueTypeOK, BoundsTypeOK
<1> QED
  BY <1>3, <1>4, <1>5, <1>6 DEF TypeOK, CoreTypeOK

\* The types, whoever else waits for the lock.
Typed(waiters) == CoreTypeOK /\ QueueTypeOK(waiters)

LEMMA CallerType ==
    ASSUME NEW waiters, Tasks \cup Polls \subseteq waiters, Typed(waiters), NEW t \in Tasks, Caller(t)
    PROVE  Typed(waiters)'
<1> USE DEF Typed, CoreTypeOK
<1>1. ASSUME NEW r \in Request, Begin(t, r), appliedAt' \in Nat \cup {None} PROVE Typed(waiters)'
  <2>1. task' \in [Tasks -> [pc : TaskStates, req : Request, at : Nat]]
    BY <1>1 DEF Begin, LoopTypeOK, TaskStates, BoundsTypeOK
  <2>2. QueueTypeOK(waiters)'
    BY <1>1, QueueType DEF Begin, QueueTypeOK
  <2>3. MatrixTypeOK' /\ BoundsTypeOK'
    BY <1>1 DEF Begin, matrixVars, boundVars, MatrixTypeOK, BoundsTypeOK
  <2>4. MemoryTypeOK'
    BY <1>1 DEF Begin, backupVars, MemoryTypeOK
  <2>5. LoopTypeOK'
    BY <1>1, <2>1 DEF Begin, pollVars, LoopTypeOK
  <2> QED
    BY <2>2, <2>3, <2>4, <2>5
<1>2. ASSUME NEW r \in Requests, Submit(t, r) \/ SubmitRecall(t, r) PROVE Typed(waiters)'
  <2>1. r \in Request
    BY RequestsAssumption DEF RequestsAssumption
  <2>2. appliedAt' \in Nat \cup {None} /\ Begin(t, r)
    BY <1>2 DEF Submit, SubmitRecall, MemoryTypeOK, BoundsTypeOK
  <2> QED
    BY <1>1, <2>1, <2>2
<1>3. ASSUME NEW r \in Requests, RefuseRecall(t, r) PROVE Typed(waiters)'
  <2>1. r \in Request
    BY RequestsAssumption DEF RequestsAssumption
  <2>2. task' \in [Tasks -> [pc : TaskStates, req : Request, at : Nat]]
    BY <1>3, <2>1 DEF RefuseRecall, LoopTypeOK, TaskStates, BoundsTypeOK
  <2>3. MatrixTypeOK' /\ BoundsTypeOK' /\ QueueTypeOK(waiters)'
    BY <1>3 DEF RefuseRecall, matrixVars, boundVars, MatrixTypeOK, BoundsTypeOK, QueueTypeOK
  <2>4. MemoryTypeOK'
    BY <1>3 DEF RefuseRecall, memory, backupVars, MemoryTypeOK
  <2>5. LoopTypeOK'
    BY <1>3, <2>2 DEF RefuseRecall, pollVars, LoopTypeOK
  <2> QED
    BY <2>3, <2>4, <2>5
<1>4. ASSUME Deliver(t) PROVE Typed(waiters)'
  <2>1. task[t].req \in Request /\ now \in Nat
    BY DEF LoopTypeOK, BoundsTypeOK
  <2>2. MatrixTypeOK'
    BY <1>4, <2>1, ExecuteType DEF Deliver
  <2>3. data' \in State
    BY <1>4, <2>1, WrittenType DEF Deliver, Reflect, MemoryTypeOK
  <2>4. active' \in Slots \cup {None}
    BY <1>4, <2>1 DEF Deliver, MemoryTypeOK, Request
  <2>5. /\ drift' = drift /\ appliedAt' = appliedAt /\ online' = online /\ disk' = disk
        /\ BoundsTypeOK'
    BY <1>4 DEF Deliver, boundVars, BoundsTypeOK
  <2>6. queue # <<>>
    BY <1>4 DEF Deliver, Holds
  <2>7. CASE RefreshNow(t)
    <3>1. /\ task' = [task EXCEPT ![t].pc = "refreshing"]
          /\ poll' = [poll EXCEPT !["requested"] = [@ EXCEPT !.reading = 1]]
          /\ timer' = FALSE /\ debounce' = "running"
          /\ queue' = Append(Release, "requested") /\ UNCHANGED backupVars
      BY <2>7 DEF RefreshNow
    <3>2. 1 \in 0..Len(Reads)
      BY ReadsAssumption DEF ReadsAssumption
    <3>3. LoopTypeOK'
      BY <3>1, <3>2 DEF LoopTypeOK, TaskStates, Polls
    <3>4. QueueTypeOK(waiters)'
      BY <2>6, <3>1, QueueType DEF QueueTypeOK, Polls
    <3>5. MemoryTypeOK'
      BY <2>3, <2>4, <2>5, <3>1 DEF MemoryTypeOK, backupVars
    <3> QED
      BY <2>2, <2>5, <3>3, <3>4, <3>5
  <2>8. CASE RefreshLater(t)
    <3>1. /\ FollowUp(t) /\ poll' = poll /\ timer' = timer /\ queue' = Release
          /\ debounce' \in {"rerun", debounce}
      BY <2>8 DEF RefreshLater
    <3>2. /\ backup' \in Presets /\ edidBackup' \in EdidBackup
          /\ pending' \in Stored \cup {None}
          /\ task' \in [Tasks -> [pc : TaskStates, req : Request, at : Nat]]
      BY <2>3, <2>4, <3>1, FollowUpType
    <3>3. LoopTypeOK' /\ MemoryTypeOK'
      BY <2>3, <2>4, <2>5, <3>1, <3>2 DEF LoopTypeOK, MemoryTypeOK
    <3>4. QueueTypeOK(waiters)'
      BY <2>6, <3>1, QueueType DEF QueueTypeOK
    <3> QED
      BY <2>2, <2>5, <3>3, <3>4
  <2> QED
    BY <1>4, <2>7, <2>8 DEF Deliver
<1>5. ASSUME NEW executed \in BOOLEAN, Fail(t, executed) PROVE Typed(waiters)'
  <2>1. task[t].req \in Request /\ now \in Nat
    BY DEF LoopTypeOK, BoundsTypeOK
  <2>2. MatrixTypeOK'
    <3>1. CASE Execute(task[t].req)
      BY <2>1, <3>1, ExecuteType
    <3>2. CASE UNCHANGED matrixVars
      BY <3>2 DEF matrixVars, MatrixTypeOK
    <3> QED
      BY <1>5, <3>1, <3>2 DEF Fail
  <2>3. MemoryTypeOK'
    BY <1>5 DEF Fail, MemoryTypeOK, backupVars
  <2>4. LoopTypeOK'
    BY <1>5 DEF Fail, LoopTypeOK, TaskStates, pollVars
  <2>5. QueueTypeOK(waiters)'
    BY <1>5, QueueType DEF Fail, Holds, QueueTypeOK
  <2>6. BoundsTypeOK'
    BY <1>5 DEF Fail, BoundsTypeOK
  <2> QED
    BY <2>2, <2>3, <2>4, <2>5, <2>6
<1>6. ASSUME Resume(t) PROVE Typed(waiters)'
  <2>1. FollowUp(t) /\ data' = data /\ active' = active
    BY <1>6 DEF Resume
  <2>2. /\ backup' \in Presets /\ edidBackup' \in EdidBackup
        /\ pending' \in Stored \cup {None}
        /\ task' \in [Tasks -> [pc : TaskStates, req : Request, at : Nat]]
    BY <2>1, FollowUpType DEF MemoryTypeOK
  <2>3. LoopTypeOK'
    BY <1>6, <2>2 DEF Resume, LoopTypeOK
  <2>4. MemoryTypeOK'
    BY <1>6, <2>1, <2>2 DEF Resume, MemoryTypeOK
  <2>5. MatrixTypeOK' /\ QueueTypeOK(waiters)' /\ BoundsTypeOK'
    BY <1>6 DEF Resume, matrixVars, boundVars, MatrixTypeOK, QueueTypeOK, BoundsTypeOK
  <2> QED
    BY <2>3, <2>4, <2>5
<1>7. ASSUME StoreWrite(t) PROVE Typed(waiters)'
  <2>1. drift' \in [presets : SUBSET Slots, edids : SUBSET Inputs]
    BY <1>7, DriftType DEF StoreWrite, DriftAfterSave, MemoryTypeOK
  <2>2. disk' \in Stored /\ pending' = None
    BY <1>7 DEF StoreWrite, MemoryTypeOK
  <2>3. MemoryTypeOK'
    BY <1>7, <2>1, <2>2 DEF StoreWrite, MemoryTypeOK
  <2>4. LoopTypeOK'
    BY <1>7 DEF StoreWrite, LoopTypeOK, TaskStates, pollVars
  <2>5. MatrixTypeOK' /\ QueueTypeOK(waiters)' /\ BoundsTypeOK'
    BY <1>7 DEF StoreWrite, matrixVars, boundVars, MatrixTypeOK, QueueTypeOK, BoundsTypeOK
  <2> QED
    BY <2>3, <2>4, <2>5
<1> QED
  BY <1>2, <1>3, <1>4, <1>5, <1>6, <1>7 DEF Caller

LEMMA PollOverType ==
    ASSUME NEW waiters, LoopTypeOK, QueueTypeOK(waiters),
           NEW p \in Polls, PollOver(p), queue # <<>>,
           UNCHANGED <<task, debounce>>
    PROVE  LoopTypeOK' /\ QueueTypeOK(waiters)'
<1>1. poll' = [poll EXCEPT ![p] = NotPolling] /\ timer' = TRUE /\ queue' = Release
  BY DEF PollOver
<1>2. LoopTypeOK'
  BY <1>1, NotPollingType DEF LoopTypeOK
<1>3. QueueTypeOK(waiters)'
  BY <1>1, QueueType DEF QueueTypeOK
<1> QED
  BY <1>2, <1>3

LEMMA PollerType ==
    ASSUME NEW waiters, Tasks \cup Polls \subseteq waiters, Typed(waiters), NEW p \in Polls, Poller(p)
    PROVE  Typed(waiters)'
<1> USE DEF Typed, CoreTypeOK
<1>1. ASSUME PollRead(p) PROVE Typed(waiters)'
  <2>1. poll[p].view \in State /\ poll[p].reading \in 1..(Len(Reads) - 1)
    BY <1>1 DEF PollRead, LoopTypeOK
  <2>2. poll' = [poll EXCEPT ![p] =
                   [reading |-> poll[p].reading + 1,
                    view |-> ReadTable(poll[p].view, Reads[poll[p].reading])]]
    BY <1>1 DEF PollRead
  <2>3. ReadTable(poll[p].view, Reads[poll[p].reading]) \in State
    BY <2>1, ReadTableType DEF MatrixTypeOK
  <2>4. poll[p].reading + 1 \in 0..Len(Reads)
    BY <2>1, ReadsAssumption DEF ReadsAssumption
  <2>5. LoopTypeOK'
    BY <1>1, <2>2, <2>3, <2>4 DEF PollRead, LoopTypeOK
  <2>6. QueueTypeOK(waiters)'
    BY <1>1, QueueType DEF PollRead, Holds, QueueTypeOK
  <2>7. MatrixTypeOK' /\ BoundsTypeOK'
    BY <1>1 DEF PollRead, matrixVars, boundVars, MatrixTypeOK, BoundsTypeOK
  <2>8. MemoryTypeOK'
    BY <1>1 DEF PollRead, memory, backupVars, MemoryTypeOK
  <2> QED
    BY <2>5, <2>6, <2>7, <2>8
<1>2. ASSUME PollFinish(p) PROVE Typed(waiters)'
  <2>1. /\ data' = ReadTable(poll[p].view, Reads[poll[p].reading])
        /\ drift' = BackupDrift(data', backup, edidBackup)
        /\ active' \in ActivePreset(data', backup, active)
        /\ online' = TRUE /\ PollOver(p) /\ queue # <<>>
        /\ UNCHANGED <<matrixVars, backupVars, appliedAt, disk, task, debounce, boundVars>>
    BY <1>2 DEF PollFinish, Holds
  <2>2. data' \in State
    BY <2>1, ReadTableType DEF MatrixTypeOK, LoopTypeOK
  <2>3. active' \in Slots \cup {None}
    BY <2>1, ActiveType DEF MemoryTypeOK
  <2>4. drift' \in [presets : SUBSET Slots, edids : SUBSET Inputs]
    BY <2>1, DriftType
  <2>5. MemoryTypeOK'
    BY <2>1, <2>2, <2>3, <2>4 DEF MemoryTypeOK, backupVars
  <2>6. LoopTypeOK' /\ QueueTypeOK(waiters)'
    BY <2>1, PollOverType
  <2>7. MatrixTypeOK' /\ BoundsTypeOK'
    BY <2>1 DEF matrixVars, boundVars, MatrixTypeOK, BoundsTypeOK
  <2> QED
    BY <2>5, <2>6, <2>7
<1>3. ASSUME PollBlank(p) PROVE Typed(waiters)'
  <2>1. data' \in State
    BY <1>3 DEF PollBlank, MemoryTypeOK, MatrixTypeOK, State
  <2>2. MemoryTypeOK'
    BY <1>3, <2>1 DEF PollBlank, MemoryTypeOK, backupVars
  <2>3. LoopTypeOK' /\ QueueTypeOK(waiters)'
    BY <1>3, PollOverType DEF PollBlank, Holds
  <2>4. MatrixTypeOK' /\ BoundsTypeOK'
    BY <1>3 DEF PollBlank, matrixVars, boundVars, MatrixTypeOK, BoundsTypeOK
  <2> QED
    BY <2>2, <2>3, <2>4
<1>4. ASSUME PollStumble(p) PROVE Typed(waiters)'
  <2>1. QueueTypeOK(waiters)'
    BY <1>4, QueueType DEF PollStumble, Holds, QueueTypeOK
  <2>2. MatrixTypeOK' /\ BoundsTypeOK'
    BY <1>4 DEF PollStumble, matrixVars, MatrixTypeOK, BoundsTypeOK
  <2>3. MemoryTypeOK' /\ LoopTypeOK'
    BY <1>4 DEF PollStumble, memory, backupVars, pollVars, MemoryTypeOK, LoopTypeOK
  <2> QED
    BY <2>1, <2>2, <2>3
<1>5. ASSUME PollFail(p) PROVE Typed(waiters)'
  <2>1. LoopTypeOK' /\ QueueTypeOK(waiters)'
    BY <1>5, PollOverType DEF PollFail, Holds
  <2>2. MatrixTypeOK' /\ BoundsTypeOK'
    BY <1>5 DEF PollFail, matrixVars, MatrixTypeOK, BoundsTypeOK
  <2>3. MemoryTypeOK'
    BY <1>5 DEF PollFail, backupVars, MemoryTypeOK
  <2> QED
    BY <2>1, <2>2, <2>3
<1> QED
  BY <1>1, <1>2, <1>3, <1>4, <1>5 DEF Poller

LEMMA TimerType ==
    ASSUME NEW waiters, Tasks \cup Polls \subseteq waiters, Typed(waiters), PollStart \/ Cooled \/ Rerun \/ RerunDone
    PROVE  Typed(waiters)'
<1> USE DEF Typed, CoreTypeOK
<1>1. ASSUME NEW p \in Polls, poll' = [poll EXCEPT ![p] = [@ EXCEPT !.reading = 1]],
             queue' = Append(queue, p), timer' = FALSE, task' = task,
             debounce' \in {"running", "idle"},
             UNCHANGED <<matrixVars, memory, disk, boundVars>>
      PROVE  Typed(waiters)'
  <2>1. 1 \in 0..Len(Reads)
    BY ReadsAssumption DEF ReadsAssumption
  <2>2. LoopTypeOK'
    BY <1>1, <2>1 DEF LoopTypeOK
  <2>3. QueueTypeOK(waiters)'
    BY <1>1, QueueType DEF QueueTypeOK
  <2>4. MatrixTypeOK' /\ BoundsTypeOK'
    BY <1>1 DEF matrixVars, boundVars, MatrixTypeOK, BoundsTypeOK
  <2>5. MemoryTypeOK'
    BY <1>1 DEF memory, backupVars, MemoryTypeOK
  <2> QED
    BY <2>2, <2>3, <2>4, <2>5
<1>2. CASE PollStart
  BY <1>1, <1>2 DEF PollStart, Polls
<1>3. CASE Rerun
  BY <1>1, <1>3 DEF Rerun, Polls
<1>4. CASE Cooled \/ RerunDone
  <2>1. /\ debounce' \in {"idle", "cooling"}
        /\ UNCHANGED <<matrixVars, memory, disk, task, queue, poll, timer, boundVars>>
    BY <1>4 DEF Cooled, RerunDone
  <2>2. MatrixTypeOK' /\ BoundsTypeOK' /\ QueueTypeOK(waiters)'
    BY <2>1 DEF matrixVars, boundVars, MatrixTypeOK, BoundsTypeOK, QueueTypeOK
  <2>3. MemoryTypeOK' /\ LoopTypeOK'
    BY <2>1 DEF memory, backupVars, MemoryTypeOK, LoopTypeOK
  <2> QED
    BY <2>2, <2>3
<1> QED
  BY <1>2, <1>3, <1>4

LEMMA MatrixType ==
    ASSUME NEW waiters, Tasks \cup Polls \subseteq waiters, Typed(waiters), Matrix \/ Tick
    PROVE  Typed(waiters)'
<1> USE DEF Typed, CoreTypeOK
<1>1. ASSUME MatrixTypeOK', UNCHANGED <<memory, disk, task, queue, pollVars>>, BoundsTypeOK'
      PROVE  Typed(waiters)'
  BY <1>1 DEF memory, backupVars, pollVars, MemoryTypeOK, LoopTypeOK, QueueTypeOK
<1>2. ASSUME NEW o \in Outputs, SettleOutput(o) PROVE Typed(waiters)'
  <2>1. recalling \in Recall
    BY <1>2 DEF SettleOutput, MatrixTypeOK
  <2>2. device' \in State
    BY <1>2, <2>1 DEF SettleOutput, MatrixTypeOK, State, Recall, Routing
  <2>3. recalling' \in Recall \cup {None}
    BY <1>2, <2>1 DEF SettleOutput, Recall
  <2> QED
    BY <1>1, <1>2, <2>2, <2>3 DEF SettleOutput, MatrixTypeOK, boundVars, BoundsTypeOK
<1>3. ASSUME NEW r \in OutsideRequests, Outside(r) PROVE Typed(waiters)'
  <2>1. r \in Request
    BY RequestsAssumption DEF RequestsAssumption
  <2>2. MatrixTypeOK'
    BY <1>3, <2>1, ExecuteType DEF Outside, BoundsTypeOK
  <2>3. BoundsTypeOK'
    BY <1>3 DEF Outside, BoundsTypeOK
  <2> QED
    BY <1>1, <1>3, <2>2, <2>3 DEF Outside
<1>4. CASE Flash
  <2>1. device' \in State /\ slots' \in SlotContents
    BY <1>4, FactoryAssumption
    DEF Flash, FactoryAssumption, MatrixTypeOK, State, SlotContents
  <2>2. MatrixTypeOK' /\ BoundsTypeOK'
    BY <1>4, <2>1 DEF Flash, MatrixTypeOK, BoundsTypeOK
  <2> QED
    BY <1>1, <1>4, <2>2 DEF Flash
<1>5. CASE Tick
  <2>1. MatrixTypeOK' /\ BoundsTypeOK'
    BY <1>5 DEF Tick, matrixVars, MatrixTypeOK, BoundsTypeOK
  <2> QED
    BY <1>1, <1>5, <2>1 DEF Tick
<1> QED
  BY <1>2, <1>3, <1>4, <1>5 DEF Matrix

LEMMA RestartType ==
    ASSUME NEW waiters, Tasks \cup Polls \subseteq waiters, Typed(waiters), Restart
    PROVE  Typed(waiters)'
<1> USE DEF Typed, CoreTypeOK
<1>1. disk.presets \in Presets /\ disk.edids \in EdidBackup /\ disk.active \in Slots \cup {None}
  BY DEF MemoryTypeOK, Stored
<1>2. active' \in Slots \cup {None} /\ disk' \in Stored
  BY <1>1 DEF Restart, Adopted, MemoryTypeOK, Stored
<1>3. MemoryTypeOK'
  BY <1>1, <1>2, DriftType DEF Restart, MemoryTypeOK, MatrixTypeOK
<1>4. LoopTypeOK'
  <2>1. task' \in [Tasks -> [pc : TaskStates, req : Request, at : Nat]]
    BY DEF Restart, LoopTypeOK, TaskStates
  <2> QED
    BY <2>1, NotPollingType DEF Restart, LoopTypeOK
<1>5. MatrixTypeOK' /\ QueueTypeOK(waiters)' /\ BoundsTypeOK'
  BY DEF Restart, matrixVars, MatrixTypeOK, QueueTypeOK, BoundsTypeOK
<1> QED
  BY <1>3, <1>4, <1>5

LEMMA StutterType ==
    ASSUME NEW waiters, Tasks \cup Polls \subseteq waiters, Typed(waiters), UNCHANGED vars
    PROVE  Typed(waiters)'
<1>1. MatrixTypeOK' /\ BoundsTypeOK' /\ QueueTypeOK(waiters)'
  BY DEF vars, Typed, CoreTypeOK, matrixVars, boundVars, MatrixTypeOK, BoundsTypeOK, QueueTypeOK
<1>2. MemoryTypeOK' /\ LoopTypeOK'
  BY DEF vars, Typed, CoreTypeOK, memory, backupVars, pollVars, MemoryTypeOK, LoopTypeOK
<1> QED
  BY <1>1, <1>2 DEF Typed, CoreTypeOK

LEMMA NextType ==
    ASSUME NEW waiters, Tasks \cup Polls \subseteq waiters, Typed(waiters), [Next]_vars
    PROVE  Typed(waiters)'
  BY CallerType, PollerType, TimerType, MatrixType, RestartType, StutterType DEF Next

(***************************************************************************)
(* Every variable of coordinator.py, of the matrix and of the event loop   *)
(* keeps its type, whatever is called, fails or is reloaded.               *)
(***************************************************************************)
THEOREM Typing == Spec => []TypeOK
<1>1. TypeOK /\ [Next]_vars => TypeOK'
  BY NextType DEF TypeOK, Typed
<1> QED
  BY <1>1, InitType, PTL DEF Spec

\* Every variable but the queue keeps its type, for the modules that put
\* others than callers and polls into the queue.
COROLLARY CoreTyping == Spec => []CoreTypeOK
<1>1. TypeOK => CoreTypeOK
  BY DEF TypeOK
<1> QED
  BY <1>1, Typing, PTL

----------------------------------------------------------------------------
\* A write that persists nothing changed nothing worth persisting.
LEMMA NothingToPersist ==
    ASSUME NEW r \in Request, NEW s, NEW presets \in Presets, NEW edids \in EdidBackup,
           ~Persists(r, presets, edids)
    PROVE  BackupAfter(r, s, presets) = presets /\ EdidsAfter(r, edids) = edids
<1>1. BackupAfter(r, s, presets) = presets
  <2>1. r.kind # "save" /\ ~(r.kind = "rename" /\ presets[r.port] # None)
    BY DEF Persists
  <2>2. CASE r.kind = "clear"
    <3>1. r.port \in Slots /\ presets[r.port] = None
      BY <2>2 DEF Persists, Request
    <3> QED
      BY <2>2, <3>1 DEF BackupAfter, Presets
  <2>3. CASE r.kind # "clear"
    BY <2>1, <2>3 DEF BackupAfter
  <2> QED
    BY <2>2, <2>3
<1>2. EdidsAfter(r, edids) = edids
  BY DEF Persists, EdidsAfter
<1> QED
  BY <1>1, <1>2

\* DiskCurrent; saved says that somebody other than a caller saves.
InStore(saved) ==
    LET latest == IF pending = None THEN disk ELSE pending IN
    /\ latest.presets = backup
    /\ latest.edids = edidBackup
    /\ pending # None => saved \/ \E t \in Tasks : task[t].pc = "saving"

\* The tail of a write hands the store exactly what memory now holds.
LEMMA FollowUpKeepsDisk ==
    ASSUME NEW saved, CoreTypeOK, InStore(saved), NEW t \in Tasks, FollowUp(t), disk' = disk,
           task[t].pc # "saving", data' \in State, active' \in Slots \cup {None}
    PROVE  InStore(saved)'
<1> DEFINE r == task[t].req
<1>1. r \in Request
  BY DEF CoreTypeOK, LoopTypeOK
<1>2. CASE Persists(r, backup, edidBackup)
  <2>1. /\ pending' = StoredBackup(backup', edidBackup', active')
        /\ task' = [task EXCEPT ![t].pc = "saving"]
    BY <1>2 DEF FollowUp
  <2>2. pending' # None
    BY <2>1, FollowUpType, StoredType, NoneAssumption DEF CoreTypeOK, NoneAssumption
  <2>3. task'[t].pc = "saving"
    BY <2>1 DEF CoreTypeOK, LoopTypeOK
  <2> QED
    BY <2>1, <2>2, <2>3 DEF InStore, StoredBackup
<1>3. CASE ~Persists(r, backup, edidBackup)
  <2>1. /\ pending' = pending /\ task' = [task EXCEPT ![t].pc = "done"]
        /\ backup' = BackupAfter(r, data', backup) /\ edidBackup' = EdidsAfter(r, edidBackup)
    BY <1>3 DEF FollowUp
  <2>2. backup' = backup /\ edidBackup' = edidBackup
    BY <1>1, <1>3, <2>1, NothingToPersist DEF CoreTypeOK, MemoryTypeOK
  <2>3. \A u \in Tasks : task[u].pc = "saving" => task'[u].pc = "saving"
    BY <2>1 DEF CoreTypeOK, LoopTypeOK
  <2> QED
    BY <2>1, <2>2, <2>3 DEF InStore
<1> QED
  BY <1>2, <1>3

\* A step that touches neither the backup nor the store keeps them in step,
\* provided nobody stops saving.
LEMMA StoreAloneKeepsDisk ==
    ASSUME NEW saved, InStore(saved), UNCHANGED <<backupVars, disk>>,
           \A u \in Tasks : task[u].pc = "saving" => task'[u].pc = "saving"
    PROVE  InStore(saved)'
  BY DEF InStore, backupVars

LEMMA CallerKeepsDisk ==
    ASSUME NEW saved, CoreTypeOK, CoreTypeOK', InStore(saved), NEW t \in Tasks, Caller(t)
    PROVE  InStore(saved)'
<1>1. ASSUME NEW r \in Requests, Submit(t, r) \/ SubmitRecall(t, r) PROVE InStore(saved)'
  <2>1. Begin(t, r)
    BY <1>1 DEF Submit, SubmitRecall
  <2>2. \A u \in Tasks : task[u].pc = "saving" => task'[u].pc = "saving"
    BY <2>1 DEF Begin, CoreTypeOK, LoopTypeOK
  <2> QED
    BY <2>1, <2>2, StoreAloneKeepsDisk DEF Begin
<1>2. ASSUME NEW r \in Requests, RefuseRecall(t, r) PROVE InStore(saved)'
  <2>1. \A u \in Tasks : task[u].pc = "saving" => task'[u].pc = "saving"
    BY <1>2 DEF RefuseRecall, CoreTypeOK, LoopTypeOK
  <2> QED
    BY <1>2, <2>1, StoreAloneKeepsDisk DEF RefuseRecall, memory
<1>3. CASE Deliver(t)
  <2>1. disk' = disk /\ task[t].pc # "saving"
    BY <1>3 DEF Deliver
  <2>2. CASE RefreshNow(t)
    <3>1. \A u \in Tasks : task[u].pc = "saving" => task'[u].pc = "saving"
      BY <2>1, <2>2 DEF RefreshNow, CoreTypeOK, LoopTypeOK
    <3> QED
      BY <2>1, <2>2, <3>1, StoreAloneKeepsDisk DEF RefreshNow
  <2>3. CASE RefreshLater(t)
    <3>1. FollowUp(t)
      BY <2>3 DEF RefreshLater
    <3> QED
      BY <2>1, <3>1, FollowUpKeepsDisk DEF CoreTypeOK, MemoryTypeOK
  <2> QED
    BY <1>3, <2>2, <2>3 DEF Deliver
<1>4. ASSUME NEW executed \in BOOLEAN, Fail(t, executed) PROVE InStore(saved)'
  <2>1. \A u \in Tasks : task[u].pc = "saving" => task'[u].pc = "saving"
    BY <1>4 DEF Fail, CoreTypeOK, LoopTypeOK
  <2> QED
    BY <1>4, <2>1, StoreAloneKeepsDisk DEF Fail
<1>5. CASE Resume(t)
  <2>1. FollowUp(t) /\ disk' = disk /\ task[t].pc # "saving"
    BY <1>5 DEF Resume, Resuming
  <2> QED
    BY <2>1, FollowUpKeepsDisk DEF CoreTypeOK, MemoryTypeOK
<1>6. CASE StoreWrite(t)
  <2>1. CASE pending = None
    BY <1>6, <2>1 DEF StoreWrite, InStore
  <2>2. CASE pending # None
    BY <1>6, <2>2 DEF StoreWrite, InStore
  <2> QED
    BY <2>1, <2>2
<1> QED
  BY <1>1, <1>2, <1>3, <1>4, <1>5, <1>6 DEF Caller

\* Everything else leaves the backup, the store and the callers alone.
LEMMA OthersKeepDisk ==
    ASSUME NEW saved, InStore(saved),
           \/ \E p \in Polls : Poller(p)
           \/ PollStart \/ Cooled \/ Rerun \/ RerunDone
           \/ Matrix \/ Tick \/ UNCHANGED vars
    PROVE  InStore(saved)'
<1>1. UNCHANGED <<backupVars, disk, task>>
  <2>1. ASSUME NEW p \in Polls, Poller(p) PROVE UNCHANGED <<backupVars, disk, task>>
    BY <2>1 DEF Poller, PollRead, PollFinish, PollBlank, PollStumble, PollFail, memory
  <2>2. CASE PollStart \/ Cooled \/ Rerun \/ RerunDone \/ Tick
    BY <2>2 DEF PollStart, Cooled, Rerun, RerunDone, Tick, memory
  <2>3. CASE Matrix
    BY <2>3 DEF Matrix, SettleOutput, Outside, Flash, memory
  <2>4. CASE UNCHANGED vars
    BY <2>4 DEF vars, memory
  <2> QED
    BY <2>1, <2>2, <2>3, <2>4
<1> QED
  BY <1>1, StoreAloneKeepsDisk

LEMMA NextKeepsDisk ==
    ASSUME NEW saved, CoreTypeOK, CoreTypeOK', InStore(saved), [Next]_vars
    PROVE  InStore(saved)'
<1>1. CASE Restart
  BY <1>1 DEF Restart, InStore, CoreTypeOK, MemoryTypeOK, Stored
<1>2. CASE \E t \in Tasks : Caller(t)
  BY <1>2, CallerKeepsDisk
<1> QED
  BY <1>1, <1>2, OthersKeepDisk DEF Next

(***************************************************************************)
(* No change of the backup is lost on its way to the disk, however the     *)
(* saves of coordinator.py's callers overlap and whenever the integration  *)
(* is reloaded.  DiskCurrent is inductive given the types.                 *)
(***************************************************************************)
THEOREM BackupReachesDisk == Spec => []DiskCurrent
<1>1. Init => InStore(FALSE)
  BY DEF Init, InStore
<1>2. CoreTypeOK /\ CoreTypeOK' /\ InStore(FALSE) /\ [Next]_vars => InStore(FALSE)'
  BY NextKeepsDisk
<1>3. InStore(FALSE) => DiskCurrent
  BY DEF InStore, DiskCurrent
<1> QED
  BY <1>1, <1>2, <1>3, CoreTyping, PTL DEF Spec

----------------------------------------------------------------------------
(* The spacing of recalls.                                                 *)

RecallFailed == \E t \in Tasks : task[t].req.kind = "recall" /\ task[t].pc = "failed"

\* _preset_applied_at is as late as any recall let through.
AppliedAtIsLatest ==
    \A t \in Tasks : Recalling(t) => appliedAt # None /\ task[t].at <= appliedAt

Apart(t, u) ==
    task[t].at - task[u].at >= Cooldown \/ task[u].at - task[t].at >= Cooldown

SpacedPairs ==
    \A t, u \in Tasks : t # u /\ Recalling(t) /\ Recalling(u) => Apart(t, u)

\* RecallsSpaced alone is not inductive: the guard of SubmitRecall looks at
\* the latest recall only.
SpacingInv ==
    \/ restarts > 0
    \/ RecallFailed
    \/ AppliedAtIsLatest /\ SpacedPairs

\* Whoever moves on from a step of a recall without failing leaves the
\* spacing as it was.
LEMMA ProgressKeepsSpacing ==
    ASSUME CoreTypeOK, SpacingInv, appliedAt' = appliedAt, restarts' = restarts,
           \A u \in Tasks : /\ task'[u].req = task[u].req
                            /\ task'[u].at = task[u].at
                            /\ Recalling(u)' => Recalling(u)
                            /\ task[u].pc = "failed" => task'[u].pc = "failed"
    PROVE  SpacingInv'
<1>1. CASE restarts > 0
  BY <1>1 DEF SpacingInv
<1>2. CASE RecallFailed
  <2>1. RecallFailed'
    BY <1>2 DEF RecallFailed
  <2> QED
    BY <2>1 DEF SpacingInv
<1>3. CASE AppliedAtIsLatest /\ SpacedPairs
  <2>1. AppliedAtIsLatest'
    BY <1>3 DEF AppliedAtIsLatest
  <2>2. SpacedPairs'
    BY <1>3 DEF SpacedPairs, Apart
  <2> QED
    BY <2>1, <2>2 DEF SpacingInv
<1> QED
  BY <1>1, <1>2, <1>3 DEF SpacingInv

\* A caller without a recall enters, or one is refused.
LEMMA EntryKeepsSpacing ==
    ASSUME CoreTypeOK, SpacingInv, appliedAt' = appliedAt, restarts' = restarts,
           NEW t \in Tasks, task[t].pc = "idle",
           NEW r \in Request, NEW pc \in {"sending", "refused"},
           r.kind # "recall" \/ pc = "refused",
           task' = [task EXCEPT ![t] = [pc |-> pc, req |-> r, at |-> now]]
    PROVE  SpacingInv'
<1>1. task'[t] = [pc |-> pc, req |-> r, at |-> now] /\ \A u \in Tasks \ {t} : task'[u] = task[u]
  BY DEF CoreTypeOK, LoopTypeOK
<1>2. ~Recalling(t)'
  BY <1>1 DEF Recalling, Busy
<1>3. \A u \in Tasks \ {t} : Recalling(u)' <=> Recalling(u)
  BY <1>1 DEF Recalling, Busy
<1>4. CASE restarts > 0
  BY <1>4 DEF SpacingInv
<1>5. CASE RecallFailed
  <2>1. RecallFailed'
    BY <1>1, <1>5 DEF RecallFailed
  <2> QED
    BY <2>1 DEF SpacingInv
<1>6. CASE AppliedAtIsLatest /\ SpacedPairs
  <2>1. AppliedAtIsLatest'
    BY <1>1, <1>2, <1>3, <1>6 DEF AppliedAtIsLatest
  <2>2. SpacedPairs'
    BY <1>1, <1>2, <1>3, <1>6 DEF SpacedPairs, Apart
  <2> QED
    BY <2>1, <2>2 DEF SpacingInv
<1> QED
  BY <1>4, <1>5, <1>6 DEF SpacingInv

\* A recall let through comes a whole cool-down after the latest one.
LEMMA RecallKeepsSpacing ==
    ASSUME CoreTypeOK, SpacingInv, NEW t \in Tasks, NEW r \in Request, SubmitRecall(t, r)
    PROVE  SpacingInv'
<1>1. /\ task[t].pc = "idle"
      /\ task' = [task EXCEPT ![t] = [pc |-> "sending", req |-> r, at |-> now]]
      /\ appliedAt' = now /\ restarts' = restarts /\ ~Cooling
  BY DEF SubmitRecall, Begin, boundVars
<1>2. /\ task'[t] = [pc |-> "sending", req |-> r, at |-> now]
      /\ \A u \in Tasks \ {t} : task'[u] = task[u]
  BY <1>1 DEF CoreTypeOK, LoopTypeOK
<1>3. \A u \in Tasks \ {t} : Recalling(u)' <=> Recalling(u)
  BY <1>2 DEF Recalling, Busy
<1>4. /\ now \in Nat /\ Cooldown \in Nat /\ appliedAt \in Nat \cup {None}
      /\ \A u \in Tasks : task[u].at \in Nat
      /\ now # None
  BY BoundsAssumption, NoneAssumption
  DEF CoreTypeOK, MemoryTypeOK, LoopTypeOK, BoundsTypeOK, BoundsAssumption, NoneAssumption
<1>5. CASE restarts > 0
  BY <1>1, <1>5 DEF SpacingInv
<1>6. CASE RecallFailed
  <2>1. RecallFailed'
    BY <1>1, <1>2, <1>6 DEF RecallFailed
  <2> QED
    BY <2>1 DEF SpacingInv
<1>7. CASE AppliedAtIsLatest /\ SpacedPairs
  <2>1. ASSUME NEW u \in Tasks \ {t}, Recalling(u) PROVE now - task[u].at >= Cooldown
    <3>1. appliedAt \in Nat /\ task[u].at <= appliedAt
      BY <1>4, <1>7, <2>1 DEF AppliedAtIsLatest
    <3>2. now - appliedAt >= Cooldown
      BY <1>1, <1>4, <3>1, NoneAssumption DEF Cooling, NoneAssumption
    <3> QED
      BY <1>4, <3>1, <3>2
  <2>2. AppliedAtIsLatest'
    <3>1. ASSUME NEW u \in Tasks \ {t}, Recalling(u) PROVE task[u].at <= now
      BY <1>4, <2>1, <3>1
    <3> QED
      BY <1>1, <1>2, <1>3, <1>4, <3>1 DEF AppliedAtIsLatest
  <2>3. \A u \in Tasks \ {t} : Recalling(u) => Apart(t, u)' /\ Apart(u, t)'
    BY <1>2, <2>1 DEF Apart
  <2>4. \A u, v \in Tasks \ {t} : Apart(u, v)' <=> Apart(u, v)
    BY <1>2 DEF Apart
  <2>5. SpacedPairs'
    BY <1>3, <1>7, <2>3, <2>4 DEF SpacedPairs
  <2> QED
    BY <2>2, <2>5 DEF SpacingInv
<1> QED
  BY <1>5, <1>6, <1>7 DEF SpacingInv

LEMMA FailKeepsSpacing ==
    ASSUME CoreTypeOK, SpacingInv, NEW t \in Tasks, NEW executed \in BOOLEAN, Fail(t, executed)
    PROVE  SpacingInv'
<1>1. task' = [task EXCEPT ![t].pc = "failed"] /\ restarts' = restarts
  BY DEF Fail
<1>2. \A u \in Tasks : /\ task'[u].req = task[u].req /\ task'[u].at = task[u].at
                       /\ u # t => task'[u].pc = task[u].pc
  BY <1>1 DEF CoreTypeOK, LoopTypeOK
<1>3. task'[t].pc = "failed"
  BY <1>1 DEF CoreTypeOK, LoopTypeOK
<1>4. CASE task[t].req.kind = "recall"
  <2>1. RecallFailed'
    BY <1>2, <1>3, <1>4 DEF RecallFailed
  <2> QED
    BY <2>1 DEF SpacingInv
<1>5. CASE task[t].req.kind # "recall"
  <2>1. appliedAt' = appliedAt
    BY <1>5 DEF Fail
  <2>2. \A u \in Tasks : /\ Recalling(u)' => Recalling(u)
                         /\ task[u].pc = "failed" => task'[u].pc = "failed"
    BY <1>2, <1>3, <1>5 DEF Recalling
  <2> QED
    BY <1>1, <1>2, <2>1, <2>2, ProgressKeepsSpacing
<1> QED
  BY <1>4, <1>5

LEMMA CallerKeepsSpacing ==
    ASSUME CoreTypeOK, SpacingInv, NEW t \in Tasks, Caller(t)
    PROVE  SpacingInv'
<1>1. ASSUME NEW r \in Requests, Submit(t, r) PROVE SpacingInv'
  <2>1. r \in Request /\ r.kind # "recall" /\ task[t].pc = "idle"
    BY <1>1, RequestsAssumption DEF RequestsAssumption, Submit, Begin
  <2>2. /\ task' = [task EXCEPT ![t] = [pc |-> "sending", req |-> r, at |-> now]]
        /\ appliedAt' = appliedAt /\ restarts' = restarts
    BY <1>1 DEF Submit, Begin, boundVars
  <2> QED
    BY <2>1, <2>2, EntryKeepsSpacing
<1>2. ASSUME NEW r \in Requests, RefuseRecall(t, r) PROVE SpacingInv'
  <2>1. r \in Request /\ task[t].pc = "idle"
    BY <1>2, RequestsAssumption DEF RequestsAssumption, RefuseRecall
  <2>2. /\ task' = [task EXCEPT ![t] = [pc |-> "refused", req |-> r, at |-> now]]
        /\ appliedAt' = appliedAt /\ restarts' = restarts
    BY <1>2 DEF RefuseRecall, memory, boundVars
  <2> QED
    BY <2>1, <2>2, EntryKeepsSpacing
<1>3. ASSUME NEW r \in Requests, SubmitRecall(t, r) PROVE SpacingInv'
  BY <1>3, RequestsAssumption, RecallKeepsSpacing DEF RequestsAssumption
<1>4. ASSUME NEW executed \in BOOLEAN, Fail(t, executed) PROVE SpacingInv'
  BY <1>4, FailKeepsSpacing
<1>5. CASE Deliver(t) \/ Resume(t) \/ StoreWrite(t)
  <2>1. /\ task[t].pc \in Busy
        /\ appliedAt' = appliedAt /\ restarts' = restarts
        /\ \E pc \in {"refreshing", "saving", "done"} : task' = [task EXCEPT ![t].pc = pc]
    <3>1. CASE Deliver(t)
      BY <3>1 DEF Deliver, RefreshNow, RefreshLater, FollowUp, Busy, boundVars
    <3>2. CASE Resume(t)
      BY <3>2 DEF Resume, Resuming, FollowUp, Busy, boundVars
    <3>3. CASE StoreWrite(t)
      BY <3>3 DEF StoreWrite, Busy, boundVars
    <3> QED
      BY <1>5, <3>1, <3>2, <3>3
  <2>2. PICK pc \in {"refreshing", "saving", "done"} : task' = [task EXCEPT ![t].pc = pc]
    BY <2>1
  <2>3. \A u \in Tasks : /\ task'[u].req = task[u].req /\ task'[u].at = task[u].at
                         /\ u # t => task'[u].pc = task[u].pc
    BY <2>2 DEF CoreTypeOK, LoopTypeOK
  <2>4. \A u \in Tasks : /\ Recalling(u)' => Recalling(u)
                         /\ task[u].pc = "failed" => task'[u].pc = "failed"
    BY <2>1, <2>3 DEF Recalling, Busy
  <2> QED
    BY <2>1, <2>3, <2>4, ProgressKeepsSpacing
<1> QED
  BY <1>1, <1>2, <1>3, <1>4, <1>5 DEF Caller

(***************************************************************************)
(* Recalls that async_apply_preset lets through are a cool-down apart, for *)
(* any number of callers and any cool-down, because _preset_applied_at is  *)
(* armed before the write goes out and given up by a failed recall only.   *)
(***************************************************************************)
THEOREM RecallsAreSpaced == Spec => []RecallsSpaced
<1>1. Init => SpacingInv
  BY DEF Init, NoRequest, SpacingInv, AppliedAtIsLatest, SpacedPairs, Recalling, Busy
<1>2. CoreTypeOK /\ SpacingInv /\ [Next]_vars => SpacingInv'
  <2> SUFFICES ASSUME CoreTypeOK, SpacingInv, [Next]_vars PROVE SpacingInv'
    OBVIOUS
  <2>1. CASE \E t \in Tasks : Caller(t)
    BY <2>1, CallerKeepsSpacing
  <2>2. CASE Restart
    <3>1. restarts' > 0
      BY <2>2 DEF Restart, CoreTypeOK, BoundsTypeOK
    <3> QED
      BY <3>1 DEF SpacingInv
  <2>3. CASE UNCHANGED <<task, appliedAt, restarts>>
    BY <2>3, ProgressKeepsSpacing DEF Recalling
  <2>4. ASSUME NEW p \in Polls, Poller(p) PROVE UNCHANGED <<task, appliedAt, restarts>>
    BY <2>4
    DEF Poller, PollRead, PollFinish, PollBlank, PollStumble, PollFail, memory, boundVars
  <2>5. CASE PollStart \/ Cooled \/ Rerun \/ RerunDone \/ Tick
    BY <2>3, <2>5 DEF PollStart, Cooled, Rerun, RerunDone, Tick, memory, boundVars
  <2>6. CASE Matrix
    BY <2>3, <2>6 DEF Matrix, SettleOutput, Outside, Flash, memory, boundVars
  <2>7. CASE UNCHANGED vars
    BY <2>3, <2>7 DEF vars, memory, boundVars
  <2> QED
    BY <2>1, <2>2, <2>3, <2>4, <2>5, <2>6, <2>7 DEF Next
<1>3. SpacingInv => RecallsSpaced
  BY DEF SpacingInv, RecallFailed, SpacedPairs, Apart, RecallsSpaced
<1> QED
  BY <1>1, <1>2, <1>3, CoreTyping, PTL DEF Spec

----------------------------------------------------------------------------
(* The lock's queue, the shared refresh and the timer: what the liveness   *)
(* of the calls and of polling rests on.                                   *)

\* Everybody in S has a place in the queue q, and one only.
Lines(q, S) ==
    /\ q \in Seq(S)
    /\ \A i, j \in 1..Len(q) : q[i] = q[j] => i = j
    /\ \A a \in S : \E i \in 1..Len(q) : q[i] = a

\* Joining at the end.
LEMMA Joins ==
    ASSUME NEW q, NEW S, Lines(q, S), NEW a, a \notin S
    PROVE  Lines(Append(q, a), S \cup {a})
<1> DEFINE r == Append(q, a)
<1>1. q \in Seq(S) /\ Len(q) \in Nat
  BY DEF Lines
<1>2. /\ r \in Seq(S \cup {a}) /\ Len(r) = Len(q) + 1
      /\ r[Len(q) + 1] = a /\ \A i \in 1..Len(q) : r[i] = q[i] /\ q[i] \in S
  BY <1>1
<1> HIDE DEF r
<1>3. ASSUME NEW i \in 1..Len(r), NEW j \in 1..Len(r), r[i] = r[j] PROVE i = j
  <2>1. (i \in 1..Len(q) \/ i = Len(q) + 1) /\ (j \in 1..Len(q) \/ j = Len(q) + 1)
    BY <1>1, <1>2
  <2> QED
    BY <1>2, <1>3, <2>1 DEF Lines
<1>4. ASSUME NEW b \in S \cup {a} PROVE \E i \in 1..Len(r) : r[i] = b
  <2>1. CASE b = a
    BY <1>1, <1>2, <2>1
  <2>2. CASE b \in S
    <3>1. PICK i \in 1..Len(q) : q[i] = b
      BY <2>2 DEF Lines
    <3>2. i \in 1..Len(r) /\ r[i] = b
      BY <1>1, <1>2, <3>1
    <3> QED
      BY <3>2
  <2> QED
    BY <2>1, <2>2
<1> QED
  BY <1>2, <1>3, <1>4 DEF Lines, r

\* Leaving from the head.
LEMMA Leaves ==
    ASSUME NEW q, NEW S, Lines(q, S), q # <<>>
    PROVE  Head(q) \in S /\ Lines(Tail(q), S \ {Head(q)})
<1> DEFINE r == Tail(q)
           a == Head(q)
<1>1. q \in Seq(S) /\ Len(q) \in Nat /\ Len(q) >= 1
  BY DEF Lines
<1>2. /\ a = q[1] /\ a \in S /\ Len(r) = Len(q) - 1 /\ r \in Seq(S)
      /\ \A i \in 1..Len(r) : r[i] = q[i + 1]
  BY <1>1
<1> HIDE DEF r, a
<1>3. \A i \in 1..Len(r) : i + 1 \in 1..Len(q) /\ i + 1 # 1
  BY <1>1, <1>2
<1>4. \A i \in 1..Len(r) : r[i] \in S \ {a}
  <2> SUFFICES ASSUME NEW i \in 1..Len(r) PROVE r[i] \in S \ {a}
    OBVIOUS
  <2>1. r[i] \in S
    BY <1>2
  <2>2. ASSUME r[i] = a PROVE FALSE
    <3>1. i + 1 \in 1..Len(q) /\ 1 \in 1..Len(q) /\ q[i + 1] = q[1]
      BY <1>1, <1>2, <1>3, <2>2
    <3>2. i + 1 = 1
      BY <3>1 DEF Lines
    <3> QED
      BY <1>3, <3>2
  <2> QED
    BY <2>1, <2>2
<1>5. r \in Seq(S \ {a})
  <2>1. r \in [1..Len(r) -> S \ {a}] /\ Len(r) \in Nat
    BY <1>1, <1>2, <1>4
  <2> QED
    BY <2>1
<1>6. ASSUME NEW i \in 1..Len(r), NEW j \in 1..Len(r), r[i] = r[j] PROVE i = j
  <2>1. i + 1 \in 1..Len(q) /\ j + 1 \in 1..Len(q) /\ q[i + 1] = q[j + 1]
    BY <1>2, <1>3, <1>6
  <2>2. i + 1 = j + 1
    BY <2>1 DEF Lines
  <2> QED
    BY <2>2
<1>7. ASSUME NEW b \in S \ {a} PROVE \E i \in 1..Len(r) : r[i] = b
  <2>1. PICK k \in 1..Len(q) : q[k] = b
    BY DEF Lines
  <2>2. k # 1
    BY <1>2, <2>1
  <2>3. k - 1 \in 1..Len(r) /\ (k - 1) + 1 = k
    BY <1>1, <1>2, <2>2
  <2> QED
    BY <1>2, <2>1, <2>3
<1> QED
  BY <1>2, <1>5, <1>6, <1>7 DEF Lines, r, a

\* Who is to have the lock: callers with a command, polls with a read.
Waiting ==
    {t \in Tasks : task[t].pc = "sending"} \cup {p \in Polls : poll[p].reading > 0}

Refreshing == {t \in Tasks : task[t].pc = "refreshing"}

\* Others than callers may await the lock, or a refresh of their own.
LockOK(others) == Lines(queue, Waiting \cup others)

DebouncerOK(others) ==
    /\ \A a, b \in Refreshing \cup others : a = b
    /\ Refreshing \cup others # {} \/ poll["requested"].reading > 0 => debounce = "running"

\* Another refresh is due, or one is in progress.
PollDue == timer \/ \E p \in Polls : poll[p].reading > 0

LoopOK(waiting, refreshing) == LockOK(waiting) /\ DebouncerOK(refreshing) /\ PollDue

\* Who waits and who refreshes after a caller's step.
LEMMA CallerMoves ==
    ASSUME CoreTypeOK, NEW t \in Tasks, NEW pc, task' = [task EXCEPT ![t].pc = pc]
    PROVE  /\ pc = "refreshing" => Refreshing' = Refreshing \cup {t}
           /\ pc # "refreshing" => Refreshing' = Refreshing \ {t}
           /\ pc # "sending" /\ poll' = poll => Waiting' = Waiting \ {t}
<1>1. task'[t].pc = pc /\ \A u \in Tasks \ {t} : task'[u].pc = task[u].pc
  BY DEF CoreTypeOK, LoopTypeOK
<1>2. t \notin Polls
  BY TasksAssumption DEF TasksAssumption
<1> QED
  BY <1>1, <1>2 DEF Refreshing, Waiting

\* The same for a refresh's step.
LEMMA PollMoves ==
    ASSUME CoreTypeOK, NEW p \in Polls, NEW next, poll' = [poll EXCEPT ![p] = next], task' = task
    PROVE  /\ Refreshing' = Refreshing
           /\ next.reading > 0 => Waiting' = Waiting \cup {p}
           /\ next.reading = 0 => Waiting' = Waiting \ {p}
<1>1. poll'[p] = next /\ \A o \in Polls \ {p} : poll'[o] = poll[o]
  BY DEF CoreTypeOK, LoopTypeOK
<1>2. p \notin Tasks
  BY TasksAssumption DEF TasksAssumption
<1> QED
  BY <1>1, <1>2 DEF Refreshing, Waiting

\* A step that leaves the lock, the refreshes and the debouncer alone.
LEMMA LoopUntouched ==
    ASSUME NEW waiting, NEW refreshing, LoopOK(waiting, refreshing),
           Waiting' = Waiting, Refreshing' = Refreshing, UNCHANGED <<queue, pollVars>>
    PROVE  LoopOK(waiting, refreshing)'
  BY DEF LoopOK, LockOK, DebouncerOK, PollDue, pollVars

\* At setup, and after a restart, nobody waits.
Resting ==
    /\ queue = <<>> /\ timer = TRUE
    /\ poll = [p \in Polls |-> NotPolling]
    /\ \A t \in Tasks : task[t].pc \notin {"sending", "refreshing"}

LEMMA LoopAtRest == Resting => LoopOK({}, {})
<1> SUFFICES ASSUME Resting PROVE LoopOK({}, {})
  OBVIOUS
<1>1. Waiting = {} /\ Refreshing = {} /\ poll["requested"].reading = 0
  BY DEF Resting, Waiting, Refreshing, NotPolling, Polls
<1>2. Lines(queue, {})
  BY DEF Lines, Resting
<1> QED
  BY <1>1, <1>2 DEF Resting, LoopOK, LockOK, DebouncerOK, PollDue

LEMMA RestartRests ==
    ASSUME CoreTypeOK, Restart
    PROVE  LoopOK({}, {})'
<1>1. \A t \in Tasks : task'[t].pc \notin {"sending", "refreshing"}
  BY DEF CoreTypeOK, LoopTypeOK, Restart
<1>2. Resting'
  BY <1>1 DEF Resting, Restart
<1> QED
  BY <1>2, LoopAtRest, PTL

\* A caller's step keeps the loop whole, whoever else waits or refreshes.
LEMMA CallerKeepsLoop ==
    ASSUME NEW waiting, NEW refreshing, (waiting \cup refreshing) \cap (Tasks \cup Polls) = {},
           CoreTypeOK, LoopOK(waiting, refreshing), NEW t \in Tasks, Caller(t)
    PROVE  LoopOK(waiting, refreshing)'
<1>t. t \notin Polls /\ t \notin waiting /\ t \notin refreshing /\ "requested" \in Polls
      /\ "requested" \notin Tasks /\ "requested" \notin waiting
  BY TasksAssumption DEF TasksAssumption, Polls
<1>p. task \in [Tasks -> [pc : TaskStates, req : Request, at : Nat]]
      /\ \A p \in Polls : poll[p].reading \in Nat
  BY ReadsAssumption DEF CoreTypeOK, LoopTypeOK, ReadsAssumption
<1>s. task[t].pc # "sending" => t \notin Waiting \cup waiting
  BY <1>t DEF Waiting
<1>1. ASSUME NEW r \in Requests, Submit(t, r) \/ SubmitRecall(t, r)
      PROVE  LoopOK(waiting, refreshing)'
  <2>1. Begin(t, r)
    BY <1>1 DEF Submit, SubmitRecall
  <2>2. Waiting' = Waiting \cup {t} /\ Refreshing' = Refreshing
    BY <1>p, <1>t, <2>1 DEF Begin, pollVars, Waiting, Refreshing
  <2>3. Lines(Append(queue, t), (Waiting \cup waiting) \cup {t})
    BY <1>s, <2>1, Joins DEF Begin, LoopOK, LockOK
  <2>4. LockOK(waiting)'
    <3>1. (Waiting \cup waiting) \cup {t} = Waiting' \cup waiting
      BY <2>2
    <3> QED
      BY <2>1, <2>3, <3>1 DEF Begin, LockOK
  <2> QED
    BY <2>1, <2>2, <2>4 DEF Begin, LoopOK, DebouncerOK, PollDue, pollVars
<1>2. ASSUME NEW r \in Requests, RefuseRecall(t, r) PROVE LoopOK(waiting, refreshing)'
  <2>1. Waiting' = Waiting /\ Refreshing' = Refreshing /\ UNCHANGED <<queue, pollVars>>
    BY <1>2, <1>p DEF RefuseRecall, pollVars, Waiting, Refreshing
  <2> QED
    BY <2>1, LoopUntouched
<1>f. ASSUME FollowUp(t)
      PROVE  \E pc \in {"saving", "done"} : task' = [task EXCEPT ![t].pc = pc]
  BY <1>f DEF FollowUp
<1>l. ASSUME Holds(t), queue' = Release, UNCHANGED <<poll, timer>>,
             \E pc \in {"saving", "done", "failed"} : task' = [task EXCEPT ![t].pc = pc],
             \/ debounce' = debounce
             \/ Refreshing \cup refreshing = {} /\ poll["requested"].reading = 0
      PROVE  LoopOK(waiting, refreshing)'
  <2>1. Waiting' = Waiting \ {t} /\ Refreshing' = Refreshing \ {t}
    BY <1>l, CallerMoves
  <2>2. Lines(Release, (Waiting \cup waiting) \ {t})
    BY <1>l, Leaves DEF Holds, LoopOK, LockOK, Release
  <2>3. (Waiting \cup waiting) \ {t} = Waiting' \cup waiting
    BY <1>t, <2>1
  <2>4. LockOK(waiting)'
    BY <1>l, <2>2, <2>3 DEF LockOK
  <2>5. DebouncerOK(refreshing)'
    BY <1>l, <2>1 DEF LoopOK, DebouncerOK
  <2> QED
    BY <1>l, <2>4, <2>5 DEF LoopOK, PollDue
<1>3. ASSUME Deliver(t) PROVE LoopOK(waiting, refreshing)'
  <2>1. Holds(t) /\ task[t].pc = "sending"
    BY <1>3 DEF Deliver
  <2>2. CASE RefreshNow(t)
    <3>1. Refreshing \cup refreshing = {} /\ ~(poll["requested"].reading > 0)
      BY <2>2 DEF RefreshNow, LoopOK, DebouncerOK
    <3>2. "requested" \notin Waiting \cup waiting
      BY <1>t, <3>1 DEF Waiting
    <3>3. /\ Lines(Append(Release, "requested"), ((Waiting \cup waiting) \ {t}) \cup {"requested"})
          /\ t \in Waiting
      <4>1. Lines(Release, (Waiting \cup waiting) \ {t})
        BY <2>1, Leaves DEF Holds, LoopOK, LockOK, Release
      <4> QED
        BY <2>1, <3>2, <4>1, Joins DEF Waiting
    <3>4. /\ task' = [task EXCEPT ![t].pc = "refreshing"]
          /\ poll' = [poll EXCEPT !["requested"] = [@ EXCEPT !.reading = 1]]
          /\ debounce' = "running" /\ queue' = Append(Release, "requested")
      BY <2>2 DEF RefreshNow
    <3>5. /\ poll'["requested"].reading = 1
          /\ \A p \in Polls \ {"requested"} : poll'[p] = poll[p]
      BY <1>t, <3>4 DEF CoreTypeOK, LoopTypeOK
    <3>6. Refreshing' = {t}
      BY <3>1, <3>4, CallerMoves
    <3>7. Waiting' = (Waiting \ {t}) \cup {"requested"}
      <4>1. \A u \in Tasks : task'[u].pc = "sending" <=> task[u].pc = "sending" /\ u # t
        BY <1>p, <3>4
      <4>2. \A p \in Polls : poll'[p].reading > 0 <=> poll[p].reading > 0 \/ p = "requested"
        BY <1>p, <3>5
      <4> QED
        BY <1>t, <4>1, <4>2 DEF Waiting
    <3>8. LockOK(waiting)'
      <4>1. ((Waiting \cup waiting) \ {t}) \cup {"requested"} = Waiting' \cup waiting
        BY <1>t, <3>7
      <4> QED
        BY <3>3, <3>4, <4>1 DEF LockOK
    <3>9. DebouncerOK(refreshing)' /\ PollDue'
      BY <1>t, <3>1, <3>4, <3>5, <3>6 DEF DebouncerOK, PollDue
    <3> QED
      BY <3>8, <3>9 DEF LoopOK
  <2>3. CASE RefreshLater(t)
    <3>1. /\ queue' = Release /\ UNCHANGED <<poll, timer>>
          /\ \E pc \in {"saving", "done", "failed"} : task' = [task EXCEPT ![t].pc = pc]
      BY <1>f, <2>3 DEF RefreshLater
    <3>2. debounce' = debounce \/ (Refreshing \cup refreshing = {} /\ poll["requested"].reading = 0)
      BY <1>p, <1>t, <2>3 DEF RefreshLater, LoopOK, DebouncerOK
    <3> QED
      BY <1>l, <2>1, <3>1, <3>2
  <2> QED
    BY <1>3, <2>2, <2>3 DEF Deliver
<1>4. ASSUME NEW executed \in BOOLEAN, Fail(t, executed) PROVE LoopOK(waiting, refreshing)'
  BY <1>4, <1>l DEF Fail, pollVars
<1>5. ASSUME Resume(t) PROVE LoopOK(waiting, refreshing)'
  <2>1. t \in Refreshing /\ poll["requested"].reading = 0 /\ UNCHANGED <<queue, poll, timer>>
    BY <1>5 DEF Resume, Resuming, Refreshing
  <2>2. Refreshing = {t} /\ refreshing = {}
    BY <1>t, <2>1 DEF LoopOK, DebouncerOK
  <2>3. Waiting' = Waiting \ {t} /\ Refreshing' = {}
    BY <1>5, <1>f, <2>1, <2>2, CallerMoves DEF Resume
  <2>4. Waiting' = Waiting
    BY <1>t, <2>1, <2>3 DEF Waiting, Refreshing
  <2> QED
    BY <2>1, <2>2, <2>3, <2>4 DEF LoopOK, LockOK, DebouncerOK, PollDue
<1>6. ASSUME StoreWrite(t) PROVE LoopOK(waiting, refreshing)'
  <2>1. /\ \E pc \in {"done"} : task' = [task EXCEPT ![t].pc = pc]
        /\ task[t].pc = "saving" /\ UNCHANGED <<queue, poll, timer, debounce>>
    BY <1>6 DEF StoreWrite, pollVars
  <2>2. Waiting' = Waiting \ {t} /\ Refreshing' = Refreshing \ {t}
    BY <2>1, CallerMoves
  <2>3. t \notin Waiting /\ t \notin Refreshing
    BY <1>t, <2>1 DEF Waiting, Refreshing
  <2> QED
    BY <2>1, <2>2, <2>3, LoopUntouched DEF pollVars
<1> QED
  BY <1>1, <1>2, <1>3, <1>4, <1>5, <1>6 DEF Caller

\* A refresh keeps the loop whole.
LEMMA PollerKeepsLoop ==
    ASSUME NEW waiting, NEW refreshing, (waiting \cup refreshing) \cap (Tasks \cup Polls) = {},
           CoreTypeOK, LoopOK(waiting, refreshing), NEW p \in Polls, Poller(p)
    PROVE  LoopOK(waiting, refreshing)'
<1>t. p \notin Tasks /\ p \notin waiting
  BY TasksAssumption DEF TasksAssumption
<1>p. /\ poll \in [Polls -> [reading : 0..Len(Reads), view : State]]
      /\ \A o \in Polls : poll[o].reading \in Nat
      /\ Len(Reads) \in Nat
  BY ReadsAssumption DEF CoreTypeOK, LoopTypeOK, ReadsAssumption
<1>1. Holds(p) /\ task' = task /\ debounce' = debounce
  BY DEF Poller, PollRead, PollFinish, PollBlank, PollStumble, PollFail, pollVars
<1>2. p \in Waiting \cup waiting /\ Lines(Release, (Waiting \cup waiting) \ {p})
  BY <1>1, Leaves DEF Holds, LoopOK, LockOK, Release
<1>3. p \in Waiting /\ poll[p].reading > 0
  BY <1>2, <1>t DEF Waiting
<1>4. CASE PollRead(p) \/ PollStumble(p)
  <2>1. /\ queue' = Append(Release, p) /\ timer' = timer
        /\ \E next : poll' = [poll EXCEPT ![p] = next] /\ next.reading > 0
    <3>1. CASE PollRead(p)
      <4> DEFINE next == [reading |-> poll[p].reading + 1,
                          view |-> ReadTable(poll[p].view, Reads[poll[p].reading])]
      <4>1. /\ queue' = Append(Release, p) /\ timer' = timer
            /\ poll' = [poll EXCEPT ![p] = next]
        BY <3>1 DEF PollRead
      <4>2. next.reading > 0
        BY <1>p, <1>3
      <4> HIDE DEF next
      <4> QED
        BY <4>1, <4>2
    <3>2. CASE PollStumble(p)
      <4>1. poll' = [poll EXCEPT ![p] = poll[p]]
        BY <1>p, <3>2 DEF PollStumble, pollVars
      <4> QED
        BY <1>3, <3>2, <4>1 DEF PollStumble, pollVars
    <3> QED
      BY <1>4, <3>1, <3>2
  <2>2. Waiting' = Waiting /\ Refreshing' = Refreshing
    <3>1. PICK next : poll' = [poll EXCEPT ![p] = next] /\ next.reading > 0
      BY <2>1
    <3>2. Waiting' = Waiting \cup {p} /\ Refreshing' = Refreshing
      BY <1>1, <3>1, PollMoves
    <3> QED
      BY <1>3, <3>2
  <2>3. Lines(Append(Release, p), ((Waiting \cup waiting) \ {p}) \cup {p})
    BY <1>2, Joins
  <2>4. LockOK(waiting)'
    <3>1. ((Waiting \cup waiting) \ {p}) \cup {p} = Waiting' \cup waiting
      BY <1>2, <2>2
    <3> QED
      BY <2>1, <2>3, <3>1 DEF LockOK
  <2>5. \A o \in Polls : poll'[o].reading > 0 <=> poll[o].reading > 0
    BY <1>p, <1>3, <2>1
  <2> QED
    BY <1>1, <2>1, <2>2, <2>4, <2>5 DEF LoopOK, DebouncerOK, PollDue, Polls
<1>5. CASE PollFinish(p) \/ PollBlank(p) \/ PollFail(p)
  <2>1. PollOver(p)
    BY <1>5 DEF PollFinish, PollBlank, PollFail
  <2>2. /\ queue' = Release /\ timer' = TRUE
        /\ poll' = [poll EXCEPT ![p] = NotPolling] /\ NotPolling.reading = 0
    BY <2>1 DEF PollOver, NotPolling
  <2>3. Waiting' = Waiting \ {p} /\ Refreshing' = Refreshing
    BY <1>1, <2>2, PollMoves
  <2>4. LockOK(waiting)'
    <3>1. (Waiting \cup waiting) \ {p} = Waiting' \cup waiting
      BY <1>t, <2>3
    <3> QED
      BY <1>2, <2>2, <3>1 DEF LockOK
  <2>5. \A o \in Polls : poll'[o].reading > 0 => poll[o].reading > 0
    BY <1>p, <2>2
  <2> QED
    BY <1>1, <2>2, <2>3, <2>4, <2>5 DEF LoopOK, DebouncerOK, PollDue, Polls
<1> QED
  BY <1>4, <1>5 DEF Poller

\* So do the timers, the matrix and the clock.  A caller whose refresh is
\* over has resumed before the debouncer can take it for the timer's.
LEMMA TimersKeepLoop ==
    ASSUME NEW waiting, NEW refreshing, (waiting \cup refreshing) \cap (Tasks \cup Polls) = {},
           CoreTypeOK, LoopOK(waiting, refreshing),
           refreshing # {} => poll["requested"].reading # 0,
           PollStart \/ Cooled \/ Rerun \/ RerunDone \/ Matrix \/ Tick
    PROVE  LoopOK(waiting, refreshing)'
<1>t. \A p \in Polls : p \notin Tasks /\ p \notin waiting
  BY TasksAssumption DEF TasksAssumption
<1>p. /\ poll \in [Polls -> [reading : 0..Len(Reads), view : State]]
      /\ \A o \in Polls : poll[o].reading \in Nat
      /\ Len(Reads) \in Nat
  BY ReadsAssumption DEF CoreTypeOK, LoopTypeOK, ReadsAssumption
<1>1. ASSUME NEW p \in Polls, poll[p].reading = 0, queue' = Append(queue, p), task' = task,
             poll' = [poll EXCEPT ![p] = [@ EXCEPT !.reading = 1]]
      PROVE  LockOK(waiting)' /\ Refreshing' = Refreshing /\ poll'[p].reading = 1
  <2>1. PICK next : poll' = [poll EXCEPT ![p] = next] /\ next.reading = 1
    <3> DEFINE first == [poll[p] EXCEPT !.reading = 1]
    <3>1. poll' = [poll EXCEPT ![p] = first]
      BY <1>1
    <3>2. first.reading = 1
      BY <1>p
    <3> HIDE DEF first
    <3> QED
      BY <3>1, <3>2
  <2>2. Waiting' = Waiting \cup {p} /\ Refreshing' = Refreshing
    <3>1. task' = task /\ next.reading > 0
      BY <1>1, <2>1
    <3> QED
      BY <2>1, <3>1, PollMoves
  <2>3. p \notin Waiting \cup waiting
    BY <1>t, <1>1 DEF Waiting
  <2>4. Lines(queue', (Waiting \cup waiting) \cup {p})
    BY <1>1, <2>3, Joins DEF LoopOK, LockOK
  <2>5. (Waiting \cup waiting) \cup {p} = Waiting' \cup waiting
    BY <2>2
  <2> QED
    BY <1>p, <2>1, <2>2, <2>4, <2>5 DEF LockOK
<1>2. CASE PollStart
  <2>1. /\ poll["scheduled"].reading = 0 /\ queue' = Append(queue, "scheduled") /\ task' = task
        /\ poll' = [poll EXCEPT !["scheduled"] = [@ EXCEPT !.reading = 1]]
        /\ debounce = "running" => debounce' = "running"
    BY <1>2 DEF PollStart
  <2>2. LockOK(waiting)' /\ Refreshing' = Refreshing /\ poll'["scheduled"].reading = 1
    BY <1>1, <2>1 DEF Polls
  <2>3. poll'["requested"] = poll["requested"]
    BY <1>p, <2>1 DEF Polls
  <2> QED
    BY <2>1, <2>2, <2>3 DEF LoopOK, DebouncerOK, PollDue, Polls
<1>3. CASE Rerun
  <2>1. ~(Refreshing \cup refreshing # {} \/ poll["requested"].reading > 0)
    BY <1>3 DEF Rerun, LoopOK, DebouncerOK
  <2>2. /\ poll["requested"].reading = 0 /\ queue' = Append(queue, "requested") /\ task' = task
        /\ poll' = [poll EXCEPT !["requested"] = [@ EXCEPT !.reading = 1]]
        /\ debounce' = "running"
    BY <1>3, <1>p, <2>1 DEF Rerun, Polls
  <2>3. LockOK(waiting)' /\ Refreshing' = Refreshing /\ poll'["requested"].reading = 1
    BY <1>1, <2>2 DEF Polls
  <2> QED
    BY <2>1, <2>2, <2>3 DEF LoopOK, DebouncerOK, PollDue, Polls
<1>4. CASE Cooled \/ RerunDone
  <2>1. /\ UNCHANGED <<task, queue, poll, timer>>
        /\ Refreshing \cup refreshing = {} /\ ~(poll["requested"].reading > 0)
    BY <1>4 DEF Cooled, RerunDone, LoopOK, DebouncerOK, Refreshing
  <2>2. Waiting' = Waiting /\ Refreshing' = Refreshing
    BY <2>1 DEF Waiting, Refreshing
  <2> QED
    BY <2>1, <2>2 DEF LoopOK, LockOK, DebouncerOK, PollDue
<1>5. CASE Matrix \/ Tick
  <2>1. UNCHANGED <<task, queue, pollVars>>
    BY <1>5 DEF Matrix, SettleOutput, Outside, Flash, Tick
  <2>2. Waiting' = Waiting /\ Refreshing' = Refreshing
    BY <2>1 DEF Waiting, Refreshing, pollVars
  <2> QED
    BY <2>1, <2>2, LoopUntouched
<1> QED
  BY <1>2, <1>3, <1>4, <1>5

\* Whoever acts, short of a restart.
LEMMA LoopKept ==
    ASSUME NEW waiting, NEW refreshing, (waiting \cup refreshing) \cap (Tasks \cup Polls) = {},
           CoreTypeOK, LoopOK(waiting, refreshing),
           refreshing # {} => poll["requested"].reading # 0,
           Next /\ ~Restart
    PROVE  LoopOK(waiting, refreshing)'
<1>1. CASE \E t \in Tasks : Caller(t)
  BY <1>1, CallerKeepsLoop
<1>2. CASE \E p \in Polls : Poller(p)
  BY <1>2, PollerKeepsLoop
<1>3. CASE PollStart \/ Cooled \/ Rerun \/ RerunDone \/ Matrix \/ Tick
  BY <1>3, TimersKeepLoop
<1> QED
  BY <1>1, <1>2, <1>3 DEF Next

----------------------------------------------------------------------------
(* Nobody is stranded.                                                     *)

LEMMA LoopIsNotStranded ==
    ASSUME CoreTypeOK, LoopOK({}, {})
    PROVE  NobodyStranded
<1>1. /\ queue \in Seq(Waiting) /\ Len(queue) \in Nat
      /\ \A i, j \in 1..Len(queue) : queue[i] = queue[j] => i = j
      /\ \A a \in Waiting : \E i \in 1..Len(queue) : queue[i] = a
  BY DEF LoopOK, LockOK, Lines
<1>2. \A a \in Tasks \cup Polls : Goes(a) <=> a \in Waiting
  BY TasksAssumption DEF TasksAssumption, Goes, Waiting
<1>3. \A a \in Tasks \cup Polls : Goes(a) <=> \E i \in 1..Len(queue) : queue[i] = a
  BY <1>1, <1>2
<1>4. "requested" \in Polls /\ "scheduled" \in Polls /\ \A p \in Polls : poll[p].reading \in Nat
  BY ReadsAssumption DEF Polls, CoreTypeOK, LoopTypeOK, ReadsAssumption
<1>5. ASSUME NEW t \in Tasks, task[t].pc = "refreshing" PROVE Resuming(t) \/ Goes("requested")
  BY <1>4, <1>5 DEF Resuming, Goes
<1>6. SomebodyMoves
  <2>1. CASE queue = <<>>
    <3>1. \A p \in Polls : ~(poll[p].reading > 0)
      BY <1>1, <2>1 DEF Waiting
    <3> QED
      BY <1>4, <3>1 DEF SomebodyMoves, LoopOK, PollDue
  <2>2. CASE queue # <<>>
    <3>1. Head(queue) \in Waiting
      BY <1>1, <2>2
    <3>2. Head(queue) \in Tasks \cup Polls /\ Goes(Head(queue))
      BY <1>2, <3>1 DEF Waiting
    <3> QED
      BY <2>2, <3>2 DEF SomebodyMoves, Holds
  <2> QED
    BY <2>1, <2>2
<1> QED
  BY <1>1, <1>3, <1>5, <1>6 DEF NobodyStranded

(***************************************************************************)
(* The lock, the shared refresh and the debouncer of coordinator.py never  *)
(* leave a caller behind: no lost waiter, no holder that has nothing to    *)
(* send, no refresh awaited that nobody runs, and polling never stops.  Of *)
(* the promise that every call returns this is all but the scheduling.     *)
(***************************************************************************)
THEOREM NobodyIsStranded == Spec => []NobodyStranded
<1>1. Init => LoopOK({}, {})
  <2>1. Init => Resting
    BY DEF Init, Resting
  <2> QED
    BY <2>1, LoopAtRest
<1>2. LoopOK({}, {}) /\ CoreTypeOK /\ [Next]_vars => LoopOK({}, {})'
  <2> SUFFICES ASSUME LoopOK({}, {}), CoreTypeOK, [Next]_vars PROVE LoopOK({}, {})'
    OBVIOUS
  <2>1. CASE Next /\ ~Restart
    BY <2>1, LoopKept
  <2>2. CASE Restart
    BY <2>2, RestartRests
  <2>3. CASE UNCHANGED vars
    <3>1. UNCHANGED <<task, queue, pollVars>>
      BY <2>3 DEF vars
    <3>2. Waiting' = Waiting /\ Refreshing' = Refreshing
      BY <3>1 DEF Waiting, Refreshing, pollVars
    <3> QED
      BY <3>1, <3>2, LoopUntouched
  <2> QED
    BY <2>1, <2>2, <2>3
<1>3. Spec => []CoreTypeOK
  BY Typing, PTL DEF TypeOK
<1>4. CoreTypeOK /\ LoopOK({}, {}) => NobodyStranded
  BY LoopIsNotStranded
<1> QED
  BY <1>1, <1>2, <1>3, <1>4, PTL DEF Spec
=============================================================================
