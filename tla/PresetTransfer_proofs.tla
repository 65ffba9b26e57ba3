------------------------ MODULE PresetTransfer_proofs ------------------------
(***************************************************************************)
(* Proofs about the snapshot and the restore among the other callers: the  *)
(* types, that the backup a snapshot takes reaches the disk, that the      *)
(* drift sensors stay right around both jobs, that only the clear of its   *)
(* last slot, or a reload, makes a backup empty, and that neither a job    *)
(* nor anybody else is stranded.                                           *)
(***************************************************************************)
EXTENDS PresetTransfer, CoordinatorBackup_proofs

Waiters == Tasks \cup Polls \cup {"transfer"}

----------------------------------------------------------------------------
(* What a job may be doing, and the commands it has left, phase by phase.  *)

RestorePhases == {"pushing", "returning", "edids", "verifying", "refreshing"}

PhaseOK ==
    /\ ~InProgress => job.awaits = "nothing"
    /\ job.phase = "saving" <=> job.awaits = "disk"
    /\ job.phase = "refreshing" <=> job.awaits = "refresh"
    /\ job.awaits = "lock" => job.phase \in {"pushing", "returning", "edids"}
    /\ job.awaits \in {"slot", "quiet"} => job.phase \in {"reading", "verifying"}
    /\ job.phase \in {"reading", "saving"} => job.kind = "snapshot"
    /\ job.phase \in RestorePhases => job.kind = "restore"

PlanOK ==
    /\ job.phase \in {"pushing", "returning", "edids"} =>
          \A step \in job.plan : step.does \in Request
    /\ job.phase = "reading" => job.plan \subseteq SnapshotPlan
    /\ job.phase = "verifying" => \A step \in job.plan : step.does.kind = "read"
    /\ job.phase \in {"saving", "refreshing"} => job.plan = {}

JobOK == TransferTypeOK /\ PhaseOK /\ PlanOK

\* What a job does by itself between two awaits changes itself and the queue.
Inward == UNCHANGED <<matrixVars, memory, disk, task, pollVars, boundVars>>

LEMMA StepOfKind ==
    ASSUME NEW step \in Step
    PROVE  step.does.kind = "read" <=> step.does \notin Request
  BY DEF Step, Request

LEMMA TableTypes ==
    /\ Routing \subseteq Table
    /\ \A routes \in Routing : Beginnings(routes) \subseteq Table
  BY DEF Routing, Table, Beginnings

LEMMA PlansType ==
    ASSUME CoreTypeOK, NEW routes \in Routing
    PROVE  /\ PushPlan \in SUBSET Step /\ \A step \in PushPlan : step.does \in Request
           /\ RoutesTo(0, routes) \in SUBSET Step
           /\ \A step \in RoutesTo(0, routes) : step.does \in Request
           /\ EdidPlan \in SUBSET Step /\ \A step \in EdidPlan : step.does \in Request
           /\ VerifyPlan \in SUBSET Step /\ \A step \in VerifyPlan : step.does.kind = "read"
           /\ SnapshotPlan \in SUBSET Step
<1> USE DEF Step, At, Command
<1>1. ASSUME NEW turn \in Nat, NEW to \in Table
      PROVE  /\ RoutesTo(turn, to) \in SUBSET Step
             /\ \A step \in RoutesTo(turn, to) : step.does \in Request
  <2>1. \A o \in Outputs : to[o] # None => Command("route", o, to[o]) \in Request
    BY DEF Request, Table
  <2> QED
    BY <2>1 DEF RoutesTo
<1>2. ASSUME NEW k \in BackedUp PROVE k \in Nat /\ k \in Slots /\ backup[k] \in Entry
  BY PortsAssumption DEF PortsAssumption, BackedUp, CoreTypeOK, MemoryTypeOK, Presets
<1>3. ASSUME NEW k \in BackedUp
      PROVE  Rebuild(k) \in SUBSET Step /\ \A step \in Rebuild(k) : step.does \in Request
  <2>1. backup[k].routes \in Table /\ backup[k].name \in Names
    BY <1>2 DEF Entry
  <2>2. Command("save", k, None) \in Request /\ Command("rename", k, backup[k].name) \in Request
    BY <1>2, <2>1 DEF Request
  <2> QED
    BY <1>1, <1>2, <2>1, <2>2 DEF Rebuild
<1>4. PushPlan \in SUBSET Step /\ \A step \in PushPlan : step.does \in Request
  BY <1>3 DEF PushPlan
<1>5. EdidPlan \in SUBSET Step /\ \A step \in EdidPlan : step.does \in Request
  <2>1. \A i \in Inputs : edidBackup[i] # None => Command("edid", i, edidBackup[i]) \in Request
    BY DEF CoreTypeOK, MemoryTypeOK, EdidBackup, Request
  <2> QED
    BY <2>1 DEF EdidPlan
<1>6. VerifyPlan \in SUBSET Step /\ \A step \in VerifyPlan : step.does.kind = "read"
  BY <1>2 DEF VerifyPlan, Entry
<1>7. SnapshotPlan \in SUBSET Step
  BY DEF SnapshotPlan
<1> QED
  BY <1>1, <1>4, <1>5, <1>6, <1>7, TableTypes

----------------------------------------------------------------------------
(* Every variable keeps its type, step by step of the job.                 *)

LEMMA InwardType == ASSUME CoreTypeOK, Inward PROVE CoreTypeOK'
<1>1. MatrixTypeOK' /\ BoundsTypeOK'
  BY DEF Inward, CoreTypeOK, matrixVars, boundVars, MatrixTypeOK, BoundsTypeOK
<1>2. MemoryTypeOK' /\ LoopTypeOK'
  BY DEF Inward, CoreTypeOK, memory, backupVars, pollVars, MemoryTypeOK, LoopTypeOK
<1> QED
  BY <1>1, <1>2 DEF CoreTypeOK

LEMMA JobOKType ==
    ASSUME JobOK
    PROVE  /\ CoreTypeOK /\ job \in Job /\ job.plan \in SUBSET Step
           /\ queue \in Seq(Waiters)
           /\ queue # <<>> => Release \in Seq(Waiters)
           /\ \A a \in Waiters : Append(queue, a) \in Seq(Waiters)
  BY DEF JobOK, TransferTypeOK, QueueTypeOK, Waiters, Job, Release

LEMMA StartOK ==
    ASSUME JobOK, StartSnapshot \/ StartRestore PROVE JobOK'
<1>1. CoreTypeOK /\ job \in Job
  BY JobOKType
<1>2. data.routes \in Routing /\ data.names \in [Slots -> Names]
  BY <1>1 DEF CoreTypeOK, MemoryTypeOK, State
<1>3. job.count \in Nat /\ MaxJobs \in Nat
  BY <1>1, JobsAssumption DEF JobsAssumption, Job
<1>4. /\ SnapshotPlan \in SUBSET Step /\ PushPlan \in SUBSET Step
      /\ \A step \in PushPlan : step.does \in Request
  BY <1>1, <1>2, PlansType
<1>5. ASSUME NEW kind \in {"snapshot", "restore"}, NEW phase \in {"reading", "pushing"},
             NEW plan \in SUBSET Step, Start(kind, phase, plan)
      PROVE  /\ TransferTypeOK' /\ Inward
             /\ job'.kind = kind /\ job'.phase = phase /\ job'.plan = plan
             /\ job'.awaits = "nothing"
  <2>1. /\ job' = [NoJob EXCEPT !.kind = kind, !.phase = phase, !.plan = plan,
                                !.count = job.count + 1, !.misread = job.misread]
        /\ job.count < MaxJobs /\ UNCHANGED vars
    BY <1>5 DEF Start
  <2>2. job' \in Job
    <3>1. NoJob \in Job
      BY <1>2, <1>3 DEF NoJob, Job
    <3>2. job.count + 1 \in 0..MaxJobs /\ job.misread \in BOOLEAN
      BY <1>1, <1>3, <2>1 DEF Job
    <3> QED
      BY <2>1, <3>1, <3>2 DEF Job
  <2>3. Inward /\ queue' = queue
    BY <2>1 DEF vars, Inward
  <2>4. CoreTypeOK'
    BY <1>1, <2>3, InwardType
  <2> QED
    BY <2>1, <2>2, <2>3, <2>4, JobOKType
    DEF JobOK, TransferTypeOK, QueueTypeOK, NoJob
<1>6. CASE StartSnapshot
  <2>1. /\ TransferTypeOK' /\ Inward
        /\ job'.kind = "snapshot" /\ job'.phase = "reading" /\ job'.plan = SnapshotPlan
        /\ job'.awaits = "nothing"
    BY <1>4, <1>5, <1>6 DEF StartSnapshot
  <2>2. PlanOK'
    BY <2>1 DEF PlanOK, SnapshotPlan
  <2> QED
    BY <2>1, <2>2 DEF JobOK, PhaseOK, RestorePhases, InProgress
<1>7. CASE StartRestore
  <2>1. /\ TransferTypeOK' /\ Inward
        /\ job'.kind = "restore" /\ job'.phase = "pushing" /\ job'.plan = PushPlan
        /\ job'.awaits = "nothing"
    BY <1>4, <1>5, <1>7 DEF StartRestore
  <2> QED
    BY <1>4, <2>1 DEF JobOK, PhaseOK, PlanOK, RestorePhases, InProgress
<1> QED
  BY <1>6, <1>7

\* Where a job stands when it runs, and when its lock or its slot comes.
LEMMA Standing ==
    ASSUME JobOK
    PROVE  /\ Running => \/ /\ job.awaits = "nothing"
                            /\ job.phase \in {"reading", "pushing", "returning", "edids", "verifying"}
                         \/ job.awaits = "refresh" /\ job.phase = "refreshing" /\ job.plan = {}
           /\ job.awaits = "lock" => /\ job.phase \in {"pushing", "returning", "edids"}
                                     /\ \A step \in job.plan : step.does \in Request
           /\ job.awaits \in {"slot", "quiet"} =>
                 /\ job.phase \in {"reading", "verifying"}
                 /\ \A step \in job.plan :
                       step.does \in [kind : {"read"}, port : Slots, value : Table \cup {None}]
<1>1. job \in Job /\ job.plan \in SUBSET Step
  BY JobOKType
<1>2. Running => \/ /\ job.awaits = "nothing"
                    /\ job.phase \in {"reading", "pushing", "returning", "edids", "verifying"}
                 \/ job.awaits = "refresh" /\ job.phase = "refreshing" /\ job.plan = {}
  BY <1>1 DEF JobOK, PhaseOK, PlanOK, Running, InProgress, Job
<1>3. job.awaits = "lock" => /\ job.phase \in {"pushing", "returning", "edids"}
                             /\ \A step \in job.plan : step.does \in Request
  BY DEF JobOK, PhaseOK, PlanOK
<1>4. ASSUME job.awaits \in {"slot", "quiet"}, NEW step \in job.plan
      PROVE  step.does \in [kind : {"read"}, port : Slots, value : Table \cup {None}]
  <2>1. job.phase \in {"reading", "verifying"}
    BY <1>4 DEF JobOK, PhaseOK
  <2>2. step.does.kind = "read"
    BY <1>4, <2>1 DEF JobOK, PlanOK, SnapshotPlan, At, Command
  <2> QED
    BY <1>1, <2>2, StepOfKind DEF Step
<1> QED
  BY <1>2, <1>3, <1>4 DEF JobOK, PhaseOK

LEMMA InwardTransferType ==
    ASSUME JobOK, Inward, queue' \in Seq(Waiters), job' \in Job
    PROVE  TransferTypeOK'
  BY JobOKType, InwardType DEF TransferTypeOK, QueueTypeOK, Waiters

\* The plan shrinks and the phase stays.
LEMMA PlanShrinks ==
    ASSUME JobOK, TransferTypeOK', job'.phase = job.phase, job'.kind = job.kind,
           job'.plan \subseteq job.plan,
           job'.awaits = job.awaits \/ job.phase \notin {"saving", "refreshing"},
           \/ job'.awaits = job.awaits
           \/ job'.awaits = "nothing"
           \/ job'.awaits = "lock" /\ job.phase \in {"pushing", "returning", "edids"}
           \/ job'.awaits \in {"slot", "quiet"} /\ job.phase \in {"reading", "verifying"}
    PROVE  JobOK'
<1>1. PhaseOK'
  BY DEF JobOK, PhaseOK, InProgress
<1>2. PlanOK'
  BY DEF JobOK, PlanOK, SnapshotPlan
<1> QED
  BY <1>1, <1>2 DEF JobOK

\* The job has an answer, whole or cut, and waits for silence.
HeardOne ==
    /\ job'.awaits = "quiet" /\ job'.plan = job.plan
    /\ job'.phase = job.phase /\ job'.kind = job.kind
    /\ job.phase \in {"reading", "verifying"}

LEMMA HeardType ==
    ASSUME JobOK, job.awaits = "slot", NEW step \in job.plan, NEW table \in Table \cup {None},
           \/ job' = Heard(step.does, table)
           \/ job' = [Heard(step.does, table) EXCEPT !.cut = @ \cup {step.does.port}]
    PROVE  job' \in Job /\ HeardOne
<1>1. job \in Job /\ step.does.port \in Slots /\ job.phase \in {"reading", "verifying"}
  BY JobOKType, Standing
<1>2. Mismatches(step.does, table) \in SUBSET Slots
  BY <1>1 DEF Mismatches, Job
<1>3. Heard(step.does, table) \in Job
  BY <1>1, <1>2 DEF Heard, Job
<1>4. job' \in Job
  BY <1>1, <1>3 DEF Job
<1> QED
  BY <1>1, <1>4 DEF Heard, HeardOne, Job

LEMMA InwardOK ==
    ASSUME JobOK, SkipSatisfied \/ Send \/ Dial \/ SlotSent \/ SlotRead
    PROVE  JobOK' /\ Inward
<1>1. CoreTypeOK /\ job \in Job /\ job.plan \in SUBSET Step
  BY JobOKType
<1>2. CASE SkipSatisfied
  <2>1. PICK step \in job.plan : job' = [job EXCEPT !.plan = @ \ {step}]
    BY <1>2 DEF SkipSatisfied
  <2>2. Inward /\ queue' = queue
    BY <1>2 DEF SkipSatisfied, vars, Inward
  <2>3. job' \in Job
    BY <1>1, <2>1 DEF Job
  <2>4. TransferTypeOK'
    BY <2>2, <2>3, InwardTransferType, JobOKType
  <2>5. /\ job'.phase = job.phase /\ job'.kind = job.kind /\ job'.awaits = job.awaits
        /\ job'.plan = job.plan \ {step}
    BY <1>1, <2>1 DEF Job
  <2> QED
    BY <2>2, <2>4, <2>5, PlanShrinks
<1>3. CASE Send
  <2>1. /\ job' = [job EXCEPT !.awaits = "lock"] /\ queue' = Append(queue, "transfer")
        /\ Inward /\ Running
        /\ \E step \in job.plan : step.does.kind # "read"
    BY <1>3 DEF Send, Inward
  <2>2. job.phase \in {"pushing", "returning", "edids"}
    BY <2>1, Standing DEF JobOK, PlanOK, SnapshotPlan, At, Command
  <2>3. job' \in Job
    BY <1>1, <2>1 DEF Job
  <2>4. TransferTypeOK'
    BY <2>1, <2>3, InwardTransferType, JobOKType DEF Waiters
  <2>5. /\ job'.phase = job.phase /\ job'.kind = job.kind /\ job'.awaits = "lock"
        /\ job'.plan = job.plan
    BY <1>1, <2>1 DEF Job
  <2> QED
    BY <2>1, <2>2, <2>4, <2>5, PlanShrinks
<1>4. CASE Dial
  <2>1. /\ job' = [job EXCEPT !.awaits = "slot"] /\ queue' = queue /\ Inward /\ Running
        /\ \E step \in job.plan : step.does.kind = "read"
    BY <1>4 DEF Dial, vars, Inward
  <2>2. job.phase \in {"reading", "verifying"}
    <3>1. PICK step \in job.plan : step.does.kind = "read"
      BY <2>1
    <3>2. step.does \notin Request
      BY <1>1, <3>1, StepOfKind
    <3> QED
      BY <2>1, <3>2, Standing DEF JobOK, PlanOK
  <2>3. job' \in Job
    BY <1>1, <2>1 DEF Job
  <2>4. TransferTypeOK'
    BY <2>1, <2>3, InwardTransferType, JobOKType
  <2>5. /\ job'.phase = job.phase /\ job'.kind = job.kind /\ job'.awaits = "slot"
        /\ job'.plan = job.plan
    BY <1>1, <2>1 DEF Job
  <2> QED
    BY <2>1, <2>2, <2>4, <2>5, PlanShrinks
<1>5. CASE SlotSent
  <2>1. job.awaits = "slot" /\ Inward /\ queue' = queue
    BY <1>5 DEF SlotSent, Arrives, vars, Inward
  <2>2. PICK step \in job.plan : job' = Heard(step.does, slots[step.does.port])
    BY <1>5 DEF SlotSent
  <2>3. slots[step.does.port] \in Table \cup {None}
    BY <1>1, <2>1, Standing, TableTypes DEF CoreTypeOK, MatrixTypeOK, SlotContents
  <2>4. job' \in Job /\ HeardOne
    BY <2>1, <2>2, <2>3, HeardType
  <2>5. TransferTypeOK'
    BY <2>1, <2>4, InwardTransferType, JobOKType
  <2> QED
    BY <2>1, <2>4, <2>5, PlanShrinks DEF HeardOne
<1>6. CASE SlotRead
  <2>1. PICK step \in job.plan : job' = [job EXCEPT !.awaits = "nothing", !.plan = @ \ {step}]
    BY <1>6 DEF SlotRead
  <2>2. job.awaits = "quiet" /\ Inward /\ queue' = queue
    BY <1>6 DEF SlotRead, Arrives, vars, Inward
  <2>3. job.phase \in {"reading", "verifying"}
    BY <2>2, Standing
  <2>4. job' \in Job
    BY <1>1, <2>1 DEF Job
  <2>5. TransferTypeOK'
    BY <2>2, <2>4, InwardTransferType, JobOKType
  <2>6. /\ job'.phase = job.phase /\ job'.kind = job.kind /\ job'.awaits = "nothing"
        /\ job'.plan = job.plan \ {step}
    BY <1>1, <2>1 DEF Job
  <2> QED
    BY <2>2, <2>3, <2>5, <2>6, PlanShrinks
<1> QED
  BY <1>2, <1>3, <1>4, <1>5, <1>6

LEMMA SlotCutOK ==
    ASSUME JobOK, SlotCut
    PROVE  /\ JobOK' /\ HeardOne /\ job.awaits = "slot"
           /\ UNCHANGED <<matrixVars, memory, disk, task, queue, pollVars>>
<1>1. CoreTypeOK /\ job.awaits = "slot"
  BY JobOKType DEF SlotCut, Arrives
<1>2. PICK step \in job.plan :
         /\ slots[step.does.port] # None
         /\ \E part \in Beginnings(slots[step.does.port]) :
                job' = [Heard(step.does, part) EXCEPT !.cut = @ \cup {step.does.port}]
  BY DEF SlotCut
<1>3. PICK table \in Table :
         job' = [Heard(step.does, table) EXCEPT !.cut = @ \cup {step.does.port}]
  <2>1. slots[step.does.port] \in Routing
    BY <1>1, <1>2, Standing DEF CoreTypeOK, MatrixTypeOK, SlotContents
  <2> QED
    BY <1>2, <2>1, TableTypes
<1>4. job' \in Job /\ HeardOne
  BY <1>1, <1>2, <1>3, HeardType
<1>5. UNCHANGED <<matrixVars, memory, disk, task, queue, pollVars>>
  BY DEF SlotCut
<1>6. MatrixTypeOK' /\ MemoryTypeOK' /\ LoopTypeOK'
  BY <1>1, <1>5
  DEF CoreTypeOK, matrixVars, memory, backupVars, pollVars, MatrixTypeOK, MemoryTypeOK, LoopTypeOK
<1>7. BoundsTypeOK'
  BY <1>1 DEF SlotCut, CoreTypeOK, BoundsTypeOK
<1>8. TransferTypeOK'
  BY <1>4, <1>5, <1>6, <1>7, JobOKType DEF TransferTypeOK, CoreTypeOK, QueueTypeOK, Waiters
<1> QED
  BY <1>1, <1>4, <1>5, <1>8, PlanShrinks DEF HeardOne

LEMMA NextPhaseOK ==
    ASSUME JobOK, NextPhase
    PROVE  JobOK' /\ Inward
<1>1. CoreTypeOK /\ job \in Job /\ job.before \in Routing
  BY JobOKType DEF Job
<1>2. Running /\ Inward /\ queue' = queue
  BY DEF NextPhase, vars, Inward
<1>3. /\ RoutesTo(0, job.before) \in SUBSET Step /\ EdidPlan \in SUBSET Step
      /\ VerifyPlan \in SUBSET Step
      /\ \A step \in RoutesTo(0, job.before) \cup EdidPlan : step.does \in Request
      /\ \A step \in VerifyPlan : step.does.kind = "read"
  BY <1>1, PlansType
<1>4. \/ /\ job.phase = "pushing"
         /\ job' = [job EXCEPT !.phase = "returning", !.plan = RoutesTo(0, job.before)]
      \/ /\ job.phase = "returning"
         /\ job' = [job EXCEPT !.phase = "edids", !.plan = EdidPlan]
      \/ /\ job.phase = "edids"
         /\ job' = [job EXCEPT !.phase = "verifying", !.plan = VerifyPlan]
  BY DEF NextPhase
<1>5. job' \in Job
  <2>1. ASSUME NEW phase \in {"returning", "edids", "verifying"}, NEW plan \in SUBSET Step
        PROVE  [job EXCEPT !.phase = phase, !.plan = plan] \in Job
    BY <1>1 DEF Job
  <2> QED
    BY <1>3, <1>4, <2>1
<1>6. TransferTypeOK'
  BY <1>2, <1>5, InwardTransferType, JobOKType
<1>7. /\ job'.kind = job.kind /\ job'.awaits = job.awaits
      /\ \/ /\ job.phase = "pushing" /\ job'.phase = "returning"
            /\ job'.plan = RoutesTo(0, job.before)
         \/ job.phase = "returning" /\ job'.phase = "edids" /\ job'.plan = EdidPlan
         \/ job.phase = "edids" /\ job'.phase = "verifying" /\ job'.plan = VerifyPlan
  BY <1>1, <1>4 DEF Job
<1>8. job.awaits = "nothing"
  BY <1>2, <1>7, Standing
<1>9. PhaseOK'
  BY <1>7, <1>8 DEF JobOK, PhaseOK, InProgress, RestorePhases
<1>10. PlanOK'
  BY <1>3, <1>7 DEF PlanOK
<1> QED
  BY <1>2, <1>6, <1>9, <1>10 DEF JobOK

\* What a command of the job leaves alone, and what it does to the job.
Outward == UNCHANGED <<memory, disk, task, pollVars, now, outside, restarts>>

LEMMA CommandDoneOK ==
    ASSUME JobOK, CommandDone
    PROVE  JobOK' /\ Outward
<1>1. CoreTypeOK /\ job \in Job /\ job.plan \in SUBSET Step
  BY JobOKType
<1>2. PICK step \in job.plan : Execute(step.does) /\ job' = Completed(step)
  BY DEF CommandDone
<1>3. /\ job.awaits = "lock" /\ queue # <<>> /\ queue' = Release
      /\ UNCHANGED <<memory, disk, task, pollVars, boundVars>>
  BY DEF CommandDone, Arrives, Holds
<1>4. step.does \in Request /\ job.phase \in {"pushing", "returning", "edids"}
  BY <1>3, Standing
<1>5. job' \in Job
  <2>1. step.does.kind = "route" => step.does.value \in Inputs
    BY <1>4 DEF Request
  <2> QED
    BY <1>1, <1>2, <2>1 DEF Completed, Job, Routing
<1>6. MatrixTypeOK'
  BY <1>1, <1>2, <1>4, ExecuteType DEF CoreTypeOK, BoundsTypeOK
<1>7. CoreTypeOK'
  <2>1. MemoryTypeOK' /\ LoopTypeOK' /\ BoundsTypeOK'
    BY <1>1, <1>3
    DEF CoreTypeOK, memory, backupVars, pollVars, boundVars, MemoryTypeOK, LoopTypeOK, BoundsTypeOK
  <2> QED
    BY <1>6, <2>1 DEF CoreTypeOK
<1>8. TransferTypeOK'
  BY <1>3, <1>5, <1>7, JobOKType DEF TransferTypeOK, QueueTypeOK, Waiters
<1>9. /\ job'.phase = job.phase /\ job'.kind = job.kind /\ job'.awaits = "nothing"
      /\ job'.plan = job.plan \ {step}
  BY <1>1, <1>2 DEF Completed, Job
<1> QED
  BY <1>3, <1>4, <1>8, <1>9, PlanShrinks DEF Outward, boundVars

LEMMA FailedOK ==
    ASSUME TransferTypeOK', job'.phase = "failed", job'.awaits = "nothing" PROVE JobOK'
  BY DEF JobOK, PhaseOK, PlanOK, InProgress, RestorePhases

LEMMA TransferFailOK ==
    ASSUME JobOK, NEW executed \in BOOLEAN, TransferFail(executed)
    PROVE  JobOK' /\ Outward /\ job'.phase = "failed"
<1>1. CoreTypeOK /\ job \in Job /\ job.plan \in SUBSET Step
  BY JobOKType
<1>2. /\ Outward /\ faults' = faults + 1
      /\ job' = [job EXCEPT !.phase = "failed", !.awaits = "nothing"]
  BY DEF TransferFail, Outward
<1>3. /\ queue' \in Seq(Waiters)
      /\ UNCHANGED matrixVars \/ \E step \in job.plan : step.does \in Request /\ Execute(step.does)
  BY Standing, JobOKType DEF TransferFail, Arrives, Holds
<1>4. MatrixTypeOK'
  <2>1. CASE UNCHANGED matrixVars
    BY <1>1, <2>1 DEF CoreTypeOK, matrixVars, MatrixTypeOK
  <2> QED
    BY <1>1, <1>3, <2>1, ExecuteType DEF CoreTypeOK, BoundsTypeOK
<1>5. MemoryTypeOK' /\ LoopTypeOK' /\ BoundsTypeOK'
  BY <1>1, <1>2
  DEF Outward, CoreTypeOK, memory, backupVars, pollVars, MemoryTypeOK, LoopTypeOK, BoundsTypeOK
<1>6. job' \in Job /\ job'.phase = "failed" /\ job'.awaits = "nothing"
  BY <1>1, <1>2 DEF Job
<1>7. TransferTypeOK'
  BY <1>3, <1>4, <1>5, <1>6 DEF TransferTypeOK, CoreTypeOK, QueueTypeOK, Waiters
<1> QED
  BY <1>2, <1>6, <1>7, FailedOK

LEMMA RefuseSnapshotOK ==
    ASSUME JobOK, RefuseSnapshot
    PROVE  JobOK' /\ Inward /\ job'.phase = "failed"
<1>1. job \in Job
  BY JobOKType
<1>2. Inward /\ queue' = queue /\ job' = [job EXCEPT !.phase = "failed"]
  BY DEF RefuseSnapshot, vars, Inward
<1>3. job.awaits = "nothing"
  BY Standing DEF RefuseSnapshot
<1>4. job' \in Job /\ job'.phase = "failed" /\ job'.awaits = "nothing"
  BY <1>1, <1>2, <1>3 DEF Job
<1>5. TransferTypeOK'
  BY <1>2, <1>4, InwardTransferType, JobOKType
<1> QED
  BY <1>2, <1>4, <1>5, FailedOK

LEMMA KeepSnapshotOK ==
    ASSUME JobOK, KeepSnapshot
    PROVE  JobOK'
<1>1. CoreTypeOK /\ job \in Job
  BY JobOKType
<1>2. /\ backup' = Snapshot /\ edidBackup' = data.edids /\ pending' = SnapshotForStore
      /\ job' = [job EXCEPT !.phase = "saving", !.awaits = "disk",
                            !.misread = @ \/ data.edids # device.edids]
      /\ UNCHANGED <<matrixVars, data, active, drift, appliedAt, online, disk, task,
                     queue, pollVars, boundVars>>
      /\ Running /\ job.phase = "reading" /\ job.plan = {}
  BY DEF KeepSnapshot
<1>3. backup' \in Presets
  <2>1. \A k \in Slots : job.found[k] # None =>
            [name |-> job.names[k], routes |-> job.found[k]] \in Entry
    BY <1>1 DEF Job, Entry
  <2> QED
    BY <1>2, <2>1 DEF Snapshot, Presets
<1>4. edidBackup' \in EdidBackup
  BY <1>1, <1>2 DEF CoreTypeOK, MemoryTypeOK, State, EdidBackup
<1>5. pending' \in Stored
  BY <1>1, <1>2, <1>3, <1>4, StoredType DEF SnapshotForStore, CoreTypeOK, MemoryTypeOK
<1>6. CoreTypeOK'
  <2>1. MemoryTypeOK'
    BY <1>1, <1>2, <1>3, <1>4, <1>5 DEF CoreTypeOK, MemoryTypeOK
  <2>2. MatrixTypeOK' /\ LoopTypeOK' /\ BoundsTypeOK'
    BY <1>1, <1>2
    DEF CoreTypeOK, matrixVars, pollVars, boundVars, MatrixTypeOK, LoopTypeOK, BoundsTypeOK
  <2> QED
    BY <2>1, <2>2 DEF CoreTypeOK
<1>7. job' \in Job
  BY <1>1, <1>2 DEF Job
<1>8. TransferTypeOK'
  BY <1>2, <1>6, <1>7, JobOKType DEF TransferTypeOK, QueueTypeOK, Waiters
<1>9. /\ job'.kind = job.kind /\ job'.phase = "saving" /\ job'.awaits = "disk"
      /\ job'.plan = {}
  BY <1>1, <1>2 DEF Job
<1> QED
  BY <1>2, <1>8, <1>9 DEF JobOK, PhaseOK, PlanOK, InProgress, RestorePhases

LEMMA SnapshotStoredOK ==
    ASSUME JobOK, SnapshotStored
    PROVE  JobOK'
<1>1. CoreTypeOK /\ job \in Job
  BY JobOKType
<1>2. /\ disk' = (IF pending # None THEN pending ELSE disk) /\ pending' = None
      /\ drift' = BackupDrift(data, backup, edidBackup)
      /\ active' \in ActivePreset(data, backup, active)
      /\ job' = [job EXCEPT !.phase = "done", !.awaits = "nothing"]
      /\ UNCHANGED <<matrixVars, data, backup, edidBackup, appliedAt, online, task,
                     queue, pollVars, boundVars>>
  BY DEF SnapshotStored
<1>3. active' \in Slots \cup {None}
  BY <1>1, <1>2, ActiveType DEF CoreTypeOK, MemoryTypeOK
<1>4. drift' \in [presets : SUBSET Slots, edids : SUBSET Inputs]
  BY <1>2, DriftType
<1>5. CoreTypeOK'
  <2>1. MemoryTypeOK'
    BY <1>1, <1>2, <1>3, <1>4 DEF CoreTypeOK, MemoryTypeOK
  <2>2. MatrixTypeOK' /\ LoopTypeOK' /\ BoundsTypeOK'
    BY <1>1, <1>2
    DEF CoreTypeOK, matrixVars, pollVars, boundVars, MatrixTypeOK, LoopTypeOK, BoundsTypeOK
  <2> QED
    BY <2>1, <2>2 DEF CoreTypeOK
<1>6. job' \in Job /\ job'.phase = "done" /\ job'.awaits = "nothing"
  BY <1>1, <1>2 DEF Job
<1>7. TransferTypeOK'
  BY <1>2, <1>5, <1>6, JobOKType DEF TransferTypeOK, QueueTypeOK, Waiters
<1> QED
  BY <1>6, <1>7 DEF JobOK, PhaseOK, PlanOK, InProgress, RestorePhases

LEMMA RestoredType ==
    ASSUME CoreTypeOK PROVE Restored(data) \in State
<1>1. data \in State /\ backup \in Presets /\ edidBackup \in EdidBackup
  BY DEF CoreTypeOK, MemoryTypeOK
<1>2. \A k \in Slots : backup[k] # None => backup[k].name \in Names
  BY <1>1 DEF Presets, Entry
<1>3. \A i \in Inputs : edidBackup[i] # None => edidBackup[i] \in Profiles
  BY <1>1 DEF EdidBackup
<1> QED
  BY <1>1, <1>2, <1>3 DEF Restored, State

LEMMA ApplyRestoredOK ==
    ASSUME JobOK, ApplyRestored
    PROVE  /\ JobOK'
           /\ job'.kind = job.kind /\ job'.phase \in {"refreshing", Verdict}
<1>1. CoreTypeOK /\ job \in Job
  BY JobOKType
<1>2. /\ data' = Restored(data) /\ drift' = BackupDrift(data', backup, edidBackup)
      /\ UNCHANGED <<matrixVars, backupVars, active, appliedAt, online, disk, task, boundVars>>
      /\ Running /\ job.phase = "verifying" /\ job.plan = {}
  BY DEF ApplyRestored, DriftRestored
<1>3. MemoryTypeOK'
  BY <1>1, <1>2, RestoredType, DriftType DEF CoreTypeOK, MemoryTypeOK, backupVars
<1>4. MatrixTypeOK' /\ BoundsTypeOK'
  BY <1>1, <1>2 DEF CoreTypeOK, matrixVars, boundVars, MatrixTypeOK, BoundsTypeOK
<1>5. job.awaits = "nothing" /\ Verdict \in {"done", "failed"}
  BY <1>2, Standing DEF Verdict
<1>6. CASE /\ debounce' = "running" /\ timer' = FALSE
           /\ poll' = [poll EXCEPT !["requested"] = [@ EXCEPT !.reading = 1]]
           /\ queue' = Append(queue, "requested")
           /\ job' = [job EXCEPT !.phase = "refreshing", !.awaits = "refresh"]
  <2>1. 1 \in 0..Len(Reads)
    BY ReadsAssumption DEF ReadsAssumption
  <2>2. LoopTypeOK'
    BY <1>1, <1>2, <1>6, <2>1 DEF CoreTypeOK, LoopTypeOK, Polls
  <2>3. job' \in Job /\ job'.phase = "refreshing" /\ job'.awaits = "refresh"
        /\ job'.kind = job.kind /\ job'.plan = {}
    BY <1>1, <1>2, <1>6 DEF Job
  <2>4. TransferTypeOK'
    BY <1>3, <1>4, <1>6, <2>2, <2>3, JobOKType
    DEF TransferTypeOK, CoreTypeOK, QueueTypeOK, Waiters, Polls
  <2> QED
    BY <1>2, <2>3, <2>4 DEF JobOK, PhaseOK, PlanOK, InProgress, RestorePhases
<1>7. CASE /\ debounce' = IF debounce = "cooling" THEN "rerun" ELSE debounce
           /\ job' = [job EXCEPT !.phase = Verdict]
           /\ UNCHANGED <<timer, poll, queue>>
  <2>1. LoopTypeOK'
    BY <1>1, <1>2, <1>7 DEF CoreTypeOK, LoopTypeOK
  <2>2. job' \in Job /\ job'.phase = Verdict /\ job'.awaits = "nothing" /\ job'.kind = job.kind
    BY <1>1, <1>5, <1>7 DEF Job
  <2>3. TransferTypeOK'
    BY <1>3, <1>4, <1>7, <2>1, <2>2, JobOKType
    DEF TransferTypeOK, CoreTypeOK, QueueTypeOK, Waiters
  <2> QED
    BY <1>5, <2>2, <2>3 DEF JobOK, PhaseOK, PlanOK, InProgress, RestorePhases
<1> QED
  BY <1>6, <1>7 DEF ApplyRestored

LEMMA RestoreReturnsOK ==
    ASSUME JobOK, RestoreReturns
    PROVE  /\ JobOK' /\ job.phase = "refreshing"
           /\ job'.kind = job.kind /\ job'.phase = Verdict
<1>1. CoreTypeOK /\ job \in Job
  BY JobOKType
<1>2. /\ debounce' = "cooling"
      /\ job' = [job EXCEPT !.phase = Verdict, !.awaits = "nothing"]
      /\ UNCHANGED <<matrixVars, memory, disk, task, queue, poll, timer, boundVars>>
      /\ Running /\ job.awaits = "refresh"
  BY DEF RestoreReturns
<1>3. CoreTypeOK'
  <2>1. MatrixTypeOK' /\ BoundsTypeOK'
    BY <1>1, <1>2 DEF CoreTypeOK, matrixVars, boundVars, MatrixTypeOK, BoundsTypeOK
  <2>2. MemoryTypeOK' /\ LoopTypeOK'
    BY <1>1, <1>2 DEF CoreTypeOK, memory, backupVars, MemoryTypeOK, LoopTypeOK
  <2> QED
    BY <2>1, <2>2 DEF CoreTypeOK
<1>4. job.phase = "refreshing" /\ Verdict \in {"done", "failed"}
  BY <1>2, Standing DEF Verdict
<1>5. job' \in Job /\ job'.phase = Verdict /\ job'.awaits = "nothing" /\ job'.kind = job.kind
  BY <1>1, <1>2, <1>4 DEF Job
<1>6. TransferTypeOK'
  BY <1>2, <1>3, <1>5, JobOKType DEF TransferTypeOK, QueueTypeOK, Waiters
<1> QED
  BY <1>4, <1>5, <1>6 DEF JobOK, PhaseOK, PlanOK, InProgress, RestorePhases

LEMMA OnlyRestarts ==
    ASSUME [Next]_vars, restarts' # restarts PROVE Restart
<1>1. ASSUME NEW t \in Tasks, Caller(t) PROVE restarts' = restarts
  BY <1>1 DEF Caller, Submit, SubmitRecall, RefuseRecall, Begin, Deliver, Fail, Resume, StoreWrite,
              boundVars
<1>2. ASSUME NEW p \in Polls, Poller(p) PROVE restarts' = restarts
  BY <1>2 DEF Poller, PollRead, PollFinish, PollBlank, PollStumble, PollFail, boundVars
<1>3. PollStart \/ Cooled \/ Rerun \/ RerunDone \/ Matrix \/ Tick \/ UNCHANGED vars =>
         restarts' = restarts
  BY DEF PollStart, Cooled, Rerun, RerunDone, Matrix, SettleOutput, Outside, Flash, Tick, vars,
         boundVars
<1> QED
  BY <1>1, <1>2, <1>3 DEF Next

\* The others leave the job as it is but for noting what they change, unless
\* they reload the integration and kill it.
Noted ==
    /\ job' = [job EXCEPT !.others = @ \cup ChangedHere]
    /\ Restart => ~InProgress
    /\ "routes" \notin job'.others => "routes" \notin job.others /\ device'.routes = device.routes
    /\ "slots" \notin job'.others => "slots" \notin job.others /\ slots' = slots

Killed == Restart /\ job' = [job EXCEPT !.phase = "failed", !.awaits = "nothing"]

LEMMA OthersOK ==
    ASSUME JobOK, OthersAct \/ UNCHANGED transferVars
    PROVE  JobOK' /\ [Next]_vars /\ (Noted \/ Killed)
<1>1. CoreTypeOK /\ job \in Job /\ Typed(Waiters)
  BY JobOKType DEF JobOK, TransferTypeOK, Typed, QueueTypeOK
<1>2. [Next]_vars
  BY DEF OthersAct, transferVars
<1>3. Typed(Waiters)'
  BY <1>1, <1>2, NextType DEF Waiters
<1>4. Restart => restarts' # restarts
  BY <1>1 DEF Restart, CoreTypeOK, BoundsTypeOK
<1>5. ASSUME job' = [job EXCEPT !.others = @ \cup ChangedHere], Restart => ~InProgress
      PROVE  JobOK' /\ Noted
  <2>1. ChangedHere \in SUBSET {"routes", "slots", "labels"}
    BY DEF ChangedHere
  <2>2. job' \in Job /\ job'.others = job.others \cup ChangedHere
        /\ job'.phase = job.phase /\ job'.kind = job.kind /\ job'.awaits = job.awaits
        /\ job'.plan = job.plan
    BY <1>1, <1>5, <2>1 DEF Job
  <2>3. TransferTypeOK'
    BY <1>3, <2>2 DEF Typed, TransferTypeOK, QueueTypeOK, Waiters
  <2>4. Noted
    BY <1>5, <2>2 DEF Noted, ChangedHere
  <2> QED
    BY <2>2, <2>3, <2>4, PlanShrinks
<1>6. CASE OthersAct /\ ~(restarts' # restarts /\ InProgress)
  BY <1>5, <1>6, <1>4 DEF OthersAct
<1>7. CASE OthersAct /\ restarts' # restarts /\ InProgress
  <2>1. job' = [job EXCEPT !.phase = "failed", !.awaits = "nothing"]
    BY <1>7 DEF OthersAct
  <2>2. job' \in Job /\ job'.phase = "failed" /\ job'.awaits = "nothing"
    BY <1>1, <2>1 DEF Job
  <2>3. TransferTypeOK'
    BY <1>3, <2>2 DEF Typed, TransferTypeOK, QueueTypeOK, Waiters
  <2>4. Restart
    BY <1>2, <1>7, OnlyRestarts
  <2> QED
    BY <1>2, <2>1, <2>2, <2>3, <2>4, FailedOK DEF Killed
<1>8. CASE UNCHANGED transferVars
  <2>1. ChangedHere = {}
    BY <1>8 DEF transferVars, vars, matrixVars, ChangedHere
  <2>2. job' = [job EXCEPT !.others = @ \cup ChangedHere]
    BY <1>1, <1>8, <2>1 DEF transferVars, Job
  <2>3. restarts' = restarts
    BY <1>8 DEF transferVars, vars, boundVars
  <2> QED
    BY <1>2, <1>5, <1>4, <2>2, <2>3
<1> QED
  BY <1>2, <1>6, <1>7, <1>8

\* Most steps of a job leave the memory, the disk and the callers alone.
Aside == UNCHANGED <<memory, disk, task>>

LEMMA JobStepsOK ==
    ASSUME JobOK, JobSteps
    PROVE  /\ JobOK'
           /\ (Aside /\ job.phase # "saving") \/ KeepSnapshot \/ SnapshotStored \/ ApplyRestored
<1>1. job.phase = "saving" => InProgress /\ ~Running /\ job.awaits = "disk"
  BY DEF JobOK, PhaseOK, InProgress, Running
<1>2. CASE ~Running /\ (StartSnapshot \/ StartRestore)
  <2>1. UNCHANGED vars /\ ~InProgress
    BY <1>2 DEF StartSnapshot, StartRestore, Start
  <2> QED
    BY <1>1, <1>2, <2>1, StartOK DEF vars, Aside
<1>3. CASE SkipSatisfied \/ Send \/ Dial \/ SlotSent \/ SlotRead
  <2>1. JobOK' /\ Inward
    BY <1>3, InwardOK
  <2>2. job.phase # "saving"
    BY <1>1, <1>3 DEF SkipSatisfied, Send, Dial, SlotSent, SlotRead, Arrives
  <2> QED
    BY <2>1, <2>2 DEF Inward, Aside
<1>4. CASE NextPhase
  BY <1>1, <1>4, NextPhaseOK DEF NextPhase, Inward, Aside
<1>9. CASE SlotCut
  BY <1>1, <1>9, SlotCutOK DEF Aside
<1>5. CASE CommandDone
  BY <1>1, <1>5, CommandDoneOK DEF CommandDone, Arrives, Outward, Aside
<1>6. ASSUME NEW executed \in BOOLEAN, TransferFail(executed)
      PROVE  JobOK' /\ Aside /\ job.phase # "saving"
  <2>1. job.awaits # "disk"
    BY <1>6 DEF TransferFail, Arrives
  <2> QED
    BY <1>1, <1>6, <2>1, TransferFailOK DEF Outward, Aside
<1>7. CASE RefuseSnapshot
  BY <1>1, <1>7, RefuseSnapshotOK DEF RefuseSnapshot, Inward, Aside
<1>8. CASE RestoreReturns
  BY <1>1, <1>8, RestoreReturnsOK DEF RestoreReturns, Aside
<1> QED
  BY <1>2, <1>3, <1>4, <1>5, <1>6, <1>7, <1>8, <1>9, KeepSnapshotOK, SnapshotStoredOK, ApplyRestoredOK
  DEF JobSteps

LEMMA TransferStepOK ==
    ASSUME JobOK, [TransferNext]_transferVars
    PROVE  /\ JobOK'
           /\ \/ Aside /\ job.phase # "saving"
              \/ KeepSnapshot \/ SnapshotStored \/ ApplyRestored
              \/ [Next]_vars /\ (Noted \/ Killed)
  BY JobStepsOK, OthersOK DEF TransferNext

LEMMA TransferInitOK == TransferInit => JobOK
<1> SUFFICES ASSUME TransferInit PROVE JobOK
  OBVIOUS
<1>1. TypeOK /\ job = NoJob /\ queue = <<>>
  BY InitType DEF TransferInit, Init
<1>2. job \in Job
  BY <1>1, JobsAssumption
  DEF NoJob, Job, TypeOK, CoreTypeOK, MemoryTypeOK, State, JobsAssumption
<1>3. TransferTypeOK
  BY <1>1, <1>2 DEF TransferTypeOK, TypeOK, QueueTypeOK
<1> QED
  BY <1>1, <1>3 DEF JobOK, PhaseOK, PlanOK, NoJob, InProgress, RestorePhases

(***************************************************************************)
(* With the snapshot and the restore of coordinator.py among the callers,  *)
(* every variable keeps its type, and a job is never in a phase its kind   *)
(* does not have, nor waits for what that phase does not wait for.         *)
(***************************************************************************)
THEOREM TransferTyping == TransferSpec => []TransferTypeOK
<1>1. JobOK /\ [TransferNext]_transferVars => JobOK'
  BY TransferStepOK
<1>2. JobOK => TransferTypeOK
  BY DEF JobOK
<1> QED
  BY <1>1, <1>2, TransferInitOK, PTL DEF TransferSpec

\* The phase of a job, what it awaits and what it has left to do agree at
\* every one of its awaits, whoever acts meanwhile.
THEOREM JobCoherence == TransferSpec => []JobOK
<1>1. JobOK /\ [TransferNext]_transferVars => JobOK'
  BY TransferStepOK
<1> QED
  BY <1>1, TransferInitOK, PTL DEF TransferSpec

----------------------------------------------------------------------------
(* The disk.                                                               *)

\* The store has the backup; whoever is to write it is a caller, or the job.
TransferStore == InStore(TRUE) /\ (job.phase # "saving" => InStore(FALSE))

LEMMA StoreKept ==
    ASSUME JobOK, JobOK', TransferStore, [TransferNext]_transferVars PROVE TransferStore'
<1>1. CoreTypeOK /\ CoreTypeOK' /\ job \in Job
  BY DEF JobOK, TransferTypeOK
<1>2. CASE Aside /\ job.phase # "saving"
  BY <1>2 DEF Aside, memory, backupVars, TransferStore, InStore
<1>3. CASE KeepSnapshot
  <2>1. pending' = StoredBackup(backup', edidBackup', active)
    BY <1>3 DEF KeepSnapshot, SnapshotForStore
  <2>2. pending' # None
    BY <1>1, <2>1, StoredType, NoneAssumption DEF NoneAssumption, CoreTypeOK, MemoryTypeOK
  <2>3. job'.phase = "saving"
    BY <1>1, <1>3 DEF KeepSnapshot, Job
  <2> QED
    BY <2>1, <2>2, <2>3 DEF TransferStore, InStore, StoredBackup
<1>4. CASE SnapshotStored
  <2>1. /\ disk' = (IF pending # None THEN pending ELSE disk) /\ pending' = None
        /\ backup' = backup /\ edidBackup' = edidBackup
    BY <1>4 DEF SnapshotStored
  <2> QED
    BY <2>1 DEF TransferStore, InStore
<1>5. CASE ApplyRestored
  <2>1. UNCHANGED <<backupVars, disk, task>> /\ job.phase # "saving"
    BY <1>5 DEF ApplyRestored
  <2> QED
    BY <2>1 DEF TransferStore, InStore, backupVars
<1>6. CASE [Next]_vars /\ (Noted \/ Killed)
  <2>1. InStore(TRUE)' /\ (InStore(FALSE) => InStore(FALSE)')
    BY <1>1, <1>6, NextKeepsDisk DEF TransferStore
  <2>2. CASE Noted
    <3>1. job'.phase = job.phase
      BY <1>1, <2>2 DEF Noted, Job
    <3> QED
      BY <2>1, <3>1 DEF TransferStore
  <2>3. CASE Killed
    BY <2>1, <2>3 DEF Killed, Restart, TransferStore, InStore
  <2> QED
    BY <1>6, <2>2, <2>3
<1> QED
  BY <1>2, <1>3, <1>4, <1>5, <1>6, TransferStepOK

\* What the store was last handed is the backup in memory, and only while the
\* snapshot saves may nobody else be there to write it.
THEOREM TransferStoreKept == TransferSpec => []TransferStore
<1>1. TransferInit => TransferStore
  BY DEF TransferInit, Init, TransferStore, InStore
<1>2. JobOK /\ JobOK' /\ TransferStore /\ [TransferNext]_transferVars => TransferStore'
  BY StoreKept
<1> QED
  BY <1>1, <1>2, JobCoherence, PTL DEF TransferSpec

(***************************************************************************)
(* The backup a snapshot takes reaches the disk like any other change of   *)
(* it, however the store's write of the snapshot overlaps with those of    *)
(* the callers and whenever the integration is reloaded.                   *)
(***************************************************************************)
THEOREM TransferReachesDisk == TransferSpec => []TransferKeepsDisk
<1>1. TransferStore => TransferKeepsDisk
  BY DEF TransferStore, InStore, TransferKeepsDisk
<1> QED
  BY <1>1, TransferStoreKept, PTL

----------------------------------------------------------------------------
(* The drift on show.                                                      *)

TransferDrift == job.phase = "saving" \/ DriftInv

LEMMA TransferDriftKept ==
    ASSUME JobOK, TransferDrift, [TransferNext]_transferVars PROVE TransferDrift'
<1>1. CoreTypeOK /\ job \in Job
  BY DEF JobOK, TransferTypeOK
<1>2. CASE Aside /\ job.phase # "saving"
  BY <1>2, DriftUntouched DEF Aside, memory, backupVars, TransferDrift
<1>3. CASE KeepSnapshot
  BY <1>1, <1>3 DEF KeepSnapshot, Job, TransferDrift
<1>4. CASE SnapshotStored
  <2>1. drift' = BackupDrift(data', backup', edidBackup')
    BY <1>4 DEF SnapshotStored
  <2> QED
    BY <2>1, FreshDriftNext DEF TransferDrift
<1>5. CASE ApplyRestored
  <2>1. drift' = BackupDrift(data', backup', edidBackup')
    BY <1>5 DEF ApplyRestored, DriftRestored, backupVars
  <2> QED
    BY <2>1, FreshDriftNext DEF TransferDrift
<1>6. CASE [Next]_vars /\ Noted
  <2>1. job'.phase = job.phase
    BY <1>1, <1>6 DEF Noted, Job
  <2> QED
    BY <1>1, <1>6, <2>1, NextKeepsDrift DEF TransferDrift
<1>7. CASE Killed
  <2>1. drift' = BackupDrift(data', backup', edidBackup')
    BY <1>7 DEF Killed, Restart
  <2> QED
    BY <2>1, FreshDriftNext DEF TransferDrift
<1> QED
  BY <1>2, <1>3, <1>4, <1>5, <1>6, <1>7, TransferStepOK

(***************************************************************************)
(* Neither a snapshot, which replaces the whole backup, nor a restore,     *)
(* which rewrites names and EDIDs in the state on show, leaves the drift   *)
(* sensors wrong, but for the time the snapshot takes to save.             *)
(***************************************************************************)
THEOREM TransferDriftIsShown == TransferSpec => []TransferKeepsDrift
<1>1. TransferInit => TransferDrift
  <2> SUFFICES ASSUME TransferInit PROVE TransferDrift
    OBVIOUS
  <2>1. drift = BackupDrift(data, backup, edidBackup)
    BY DEF TransferInit, Init
  <2> QED
    BY <2>1, FreshDrift DEF TransferDrift
<1>2. JobOK /\ TransferDrift /\ [TransferNext]_transferVars => TransferDrift'
  BY TransferDriftKept
<1>3. TransferDrift => TransferKeepsDrift
  BY DriftInvSuffices DEF TransferDrift, TransferKeepsDrift
<1> QED
  BY <1>1, <1>2, <1>3, JobCoherence, PTL DEF TransferSpec

----------------------------------------------------------------------------
(* The one copy worth having.                                              *)

\* The follow-up of a clear of the only slot backed up.
ClearsLast(t) ==
    /\ task[t].req.kind = "clear"
    /\ task[t].pc \in {"sending", "refreshing"}
    /\ task'[t].pc \in {"saving", "done"}
    /\ \A k \in Slots : backup[k] # None => k = task[t].req.port

LEMMA FollowUpWipes ==
    ASSUME CoreTypeOK, NEW t \in Tasks, FollowUpStep(t), ~NoPresets(backup), NoPresets(backup')
    PROVE  ClearsLast(t)
<1> DEFINE r == task[t].req
<1>1. r \in Request /\ data \in State /\ backup \in Presets
  BY DEF CoreTypeOK, LoopTypeOK, MemoryTypeOK
<1>2. data' \in State /\ backup' = BackupAfter(r, data', backup)
  BY <1>1, WrittenType DEF FollowUpStep, FollowUp
<1>3. None \notin Entry
  BY NoneAssumption DEF NoneAssumption
<1>4. ASSUME r.kind = "save" PROVE FALSE
  <2>1. r.port \in Slots /\ [name |-> data'.names[r.port], routes |-> data'.routes] \in Entry
    BY <1>1, <1>2, <1>4, TableTypes DEF Request, State, Entry
  <2>2. backup'[r.port] # None
    BY <1>1, <1>2, <1>3, <1>4, <2>1 DEF BackupAfter, Presets
  <2> QED
    BY <2>1, <2>2 DEF NoPresets
<1>5. ASSUME r.kind = "rename", backup[r.port] # None PROVE FALSE
  <2>1. r.port \in Slots /\ r.value \in Names /\ backup[r.port] \in Entry
    BY <1>1, <1>5 DEF Request, Presets
  <2>2. backup'[r.port] # None
    BY <1>1, <1>2, <1>3, <1>5, <2>1 DEF BackupAfter, Presets, Entry
  <2> QED
    BY <2>1, <2>2 DEF NoPresets
<1>6. ASSUME r.kind \notin {"save", "clear"}, ~(r.kind = "rename" /\ backup[r.port] # None)
      PROVE  FALSE
  BY <1>2, <1>6 DEF BackupAfter
<1>7. r.kind = "clear"
  BY <1>4, <1>5, <1>6
<1>8. task[t].pc \in {"sending", "refreshing"} /\ task'[t].pc \in {"saving", "done"}
  BY DEF FollowUpStep, Early, Late, Advances
<1>9. ASSUME NEW k \in Slots, k # r.port PROVE backup[k] = None
  <2>1. backup'[k] = backup[k]
    BY <1>1, <1>2, <1>7, <1>9 DEF BackupAfter, Presets
  <2> QED
    BY <2>1 DEF NoPresets
<1> QED
  BY <1>7, <1>8, <1>9 DEF ClearsLast

LEMMA OthersWipe ==
    ASSUME CoreTypeOK, InStore(TRUE), [Next]_vars, ~NoPresets(backup), NoPresets(backup')
    PROVE  (\E t \in Tasks : ClearsLast(t)) \/ (restarts' # restarts /\ NoPresets(disk.presets))
<1>1. CASE QuietStep \/ \E t \in Tasks : SaveStep(t)
  BY <1>1 DEF QuietStep, SaveStep
<1>2. CASE Restart
  BY <1>2 DEF Restart, CoreTypeOK, BoundsTypeOK
<1>3. CASE \E t \in Tasks : FollowUpStep(t)
  BY <1>3, FollowUpWipes
<1> QED
  BY <1>1, <1>2, <1>3, StepsWithStore

(***************************************************************************)
(* For any matrix and callers: no snapshot, poll or restore makes a backup *)
(* that holds a preset empty; what async_clear_preset does after it has    *)
(* cleared the only slot backed up does, or a reload that finds no preset  *)
(* on disk.                                                                *)
(***************************************************************************)
THEOREM BackupIsNotWiped == TransferSpec => BackupNotWiped
<1> DEFINE Kept == ~NoPresets(backup) /\ NoPresets(backup') =>
                      \/ \E t \in Tasks : ClearsLast(t)
                      \/ restarts' # restarts /\ NoPresets(disk.presets)
<1>1. JobOK /\ TransferStore /\ [TransferNext]_transferVars => Kept
  <2> SUFFICES ASSUME JobOK, TransferStore, [TransferNext]_transferVars PROVE Kept
    OBVIOUS
  <2>1. CoreTypeOK /\ job \in Job
    BY DEF JobOK, TransferTypeOK
  <2>2. CASE Aside \/ SnapshotStored \/ ApplyRestored
    BY <2>2 DEF Aside, memory, backupVars, SnapshotStored, ApplyRestored
  <2>3. CASE KeepSnapshot
    <3>1. PICK k \in Slots : job.found[k] # None
      BY <2>3 DEF KeepSnapshot, Refused
    <3>2. [name |-> job.names[k], routes |-> job.found[k]] \in Entry
      BY <2>1, <3>1 DEF Job, Entry
    <3>3. backup'[k] # None
      BY <2>3, <3>1, <3>2, NoneAssumption DEF KeepSnapshot, Snapshot, NoneAssumption
    <3> QED
      BY <3>3 DEF NoPresets
  <2>4. CASE [Next]_vars
    BY <2>1, <2>4, OthersWipe DEF TransferStore
  <2> QED
    BY <2>2, <2>3, <2>4, TransferStepOK
<1> QED
  BY <1>1, JobCoherence, TransferStoreKept, PTL DEF TransferSpec, BackupNotWiped, ClearsLast

----------------------------------------------------------------------------
(* Nobody is stranded by a job.                                            *)

\* The job, if this is what it waits for: the lock, or a refresh of its own.
JobFor(what) == {a \in {"transfer"} : job.awaits = what}

TransferLoop == LoopOK(JobFor("lock"), JobFor("refresh"))

\* A step of a job that leaves the loop as it is.
LEMMA LoopAside ==
    ASSUME TransferLoop, UNCHANGED <<task, queue, pollVars>>,
           JobFor("lock")' = JobFor("lock"), JobFor("refresh")' = JobFor("refresh")
    PROVE  TransferLoop'
<1>1. Waiting' = Waiting /\ Refreshing' = Refreshing
  BY DEF Waiting, Refreshing, pollVars
<1> QED
  BY <1>1 DEF TransferLoop, LoopOK, LockOK, DebouncerOK, PollDue, pollVars

LEMMA OthersKeepLoop ==
    ASSUME JobOK, TransferLoop, OthersAct \/ UNCHANGED transferVars
    PROVE  TransferLoop'
<1>1. CoreTypeOK /\ job \in Job
  BY JobOKType
<1>2. CASE OthersAct /\ Restart
  <2>1. job'.awaits = "nothing"
    <3>1. CASE InProgress /\ restarts' # restarts
      BY <1>1, <1>2, <3>1 DEF OthersAct, Job
    <3>2. CASE ~(InProgress /\ restarts' # restarts)
      <4>1. restarts' # restarts
        BY <1>1, <1>2 DEF Restart, CoreTypeOK, BoundsTypeOK
      <4>2. job.awaits = "nothing"
        BY <3>2, <4>1 DEF JobOK, PhaseOK
      <4> QED
        BY <1>1, <1>2, <3>2, <4>2 DEF OthersAct, Job
    <3> QED
      BY <3>1, <3>2
  <2>2. JobFor("lock")' = {} /\ JobFor("refresh")' = {}
    BY <2>1 DEF JobFor
  <2>3. LoopOK({}, {})'
    BY <1>1, <1>2, RestartRests
  <2> QED
    BY <2>2, <2>3 DEF TransferLoop, LoopOK, LockOK, DebouncerOK
<1>3. CASE OthersAct /\ ~Restart
  <2>1. PICK waiting, refreshing :
          waiting = JobFor("lock") /\ refreshing = JobFor("refresh")
    OBVIOUS
  <2>2. (waiting \cup refreshing) \cap (Tasks \cup Polls) = {}
    BY <2>1, TransferAssumption DEF TransferAssumption, JobFor
  <2>3. LoopOK(waiting, refreshing)
    BY <2>1 DEF TransferLoop
  <2>4. refreshing # {} => poll["requested"].reading # 0
    BY <1>3, <2>1 DEF JobFor, OthersAct, Running, InProgress, JobOK, PhaseOK
  <2>5. LoopOK(waiting, refreshing)'
    BY <1>1, <1>3, <2>2, <2>3, <2>4, LoopKept DEF OthersAct
  <2>6. job'.awaits = job.awaits
    <3>1. restarts' = restarts
      BY <1>3, OnlyRestarts DEF OthersAct
    <3> QED
      BY <1>1, <1>3, <3>1 DEF OthersAct, Job
  <2>7. JobFor("lock")' = waiting /\ JobFor("refresh")' = refreshing
    BY <2>1, <2>6 DEF JobFor
  <2> QED
    BY <2>5, <2>7 DEF TransferLoop, LoopOK, LockOK, DebouncerOK
<1>4. CASE UNCHANGED transferVars
  BY <1>4, LoopAside DEF transferVars, vars, JobFor
<1> QED
  BY <1>2, <1>3, <1>4

LEMMA JobKeepsLoop ==
    ASSUME JobOK, TransferLoop, JobSteps
    PROVE  TransferLoop'
<1>1. CoreTypeOK /\ job \in Job
  BY JobOKType
<1>2. "transfer" \notin Tasks \cup Polls /\ "requested" \in Polls
  BY TransferAssumption DEF TransferAssumption, Polls
<1>3. "transfer" \notin Waiting /\ "transfer" \notin Refreshing
  BY <1>2 DEF Waiting, Refreshing
<1>4. ASSUME UNCHANGED <<task, queue, pollVars>>,
             job.awaits \notin {"lock", "refresh"}, job'.awaits \notin {"lock", "refresh"}
      PROVE  TransferLoop'
  <2>1. JobFor("lock")' = JobFor("lock") /\ JobFor("refresh")' = JobFor("refresh")
    BY <1>4 DEF JobFor
  <2> QED
    BY <1>4, <2>1, LoopAside
<1>5. CASE ~Running /\ (StartSnapshot \/ StartRestore)
  <2>1. UNCHANGED vars /\ job.awaits = "nothing" /\ job'.awaits = "nothing"
    BY <1>5 DEF StartSnapshot, StartRestore, Start, NoJob, JobOK, PhaseOK
  <2> QED
    BY <1>4, <2>1 DEF vars
<1>6. CASE SkipSatisfied \/ Dial \/ NextPhase \/ RefuseSnapshot \/ KeepSnapshot
  <2>1. job.awaits = "nothing"
    <3>1. Running /\ job.phase # "refreshing"
      <4>1. CASE SkipSatisfied \/ Dial
        BY <4>1, Standing DEF SkipSatisfied, Dial
      <4>2. CASE NextPhase \/ RefuseSnapshot \/ KeepSnapshot
        BY <4>2 DEF NextPhase, RefuseSnapshot, KeepSnapshot
      <4> QED
        BY <1>6, <4>1, <4>2
    <3> QED
      BY <3>1, Standing
  <2>2. job'.awaits \in {"nothing", "slot", "disk"}
    BY <1>1, <1>6, <2>1 DEF SkipSatisfied, Dial, NextPhase, RefuseSnapshot, KeepSnapshot, Job
  <2>3. UNCHANGED <<task, queue, pollVars>>
    BY <1>6 DEF SkipSatisfied, Dial, NextPhase, RefuseSnapshot, KeepSnapshot, vars
  <2> QED
    BY <1>4, <2>1, <2>2, <2>3
<1>7. CASE SlotSent \/ SlotRead \/ SnapshotStored
  <2>1. job.awaits \in {"slot", "quiet", "disk"}
    BY <1>7 DEF SlotSent, SlotRead, SnapshotStored, Arrives
  <2>2. job'.awaits \in {"nothing", "quiet"}
    BY <1>1, <1>7 DEF SlotSent, Heard, SlotRead, SnapshotStored, Job
  <2>3. UNCHANGED <<task, queue, pollVars>>
    BY <1>7 DEF SlotSent, SlotRead, SnapshotStored, vars
  <2> QED
    BY <1>4, <2>1, <2>2, <2>3
<1>14. CASE SlotCut
  BY <1>4, <1>14, SlotCutOK DEF HeardOne
<1>8. CASE Send
  <2>1. job.awaits = "nothing" /\ job'.awaits = "lock"
    <3>1. Running /\ job.plan # {} /\ job' = [job EXCEPT !.awaits = "lock"]
      BY <1>8 DEF Send
    <3> QED
      BY <1>1, <3>1, Standing DEF Job
  <2>2. queue' = Append(queue, "transfer") /\ UNCHANGED <<task, pollVars>>
    BY <1>8 DEF Send
  <2>3. /\ JobFor("lock") = {} /\ JobFor("lock")' = {"transfer"}
        /\ JobFor("refresh") = {} /\ JobFor("refresh")' = {}
    BY <2>1 DEF JobFor
  <2>4. Waiting' = Waiting /\ Refreshing' = Refreshing
    BY <2>2 DEF Waiting, Refreshing, pollVars
  <2>5. Lines(queue', (Waiting \cup {}) \cup {"transfer"})
    BY <1>3, <2>2, <2>3, Joins DEF TransferLoop, LoopOK, LockOK
  <2>6. (Waiting \cup {}) \cup {"transfer"} = Waiting' \cup JobFor("lock")'
    BY <2>3, <2>4
  <2> QED
    BY <2>2, <2>3, <2>4, <2>5, <2>6 DEF TransferLoop, LoopOK, LockOK, DebouncerOK, PollDue, pollVars
<1>9. ASSUME Arrives("lock"), Holds("transfer"), queue' = Release, UNCHANGED <<task, pollVars>>,
             job'.awaits = "nothing"
      PROVE  TransferLoop'
  <2>1. /\ JobFor("lock") = {"transfer"} /\ JobFor("lock")' = {}
        /\ JobFor("refresh") = {} /\ JobFor("refresh")' = {}
    BY <1>9 DEF JobFor, Arrives
  <2>2. Waiting' = Waiting /\ Refreshing' = Refreshing
    BY <1>9 DEF Waiting, Refreshing, pollVars
  <2>3. Lines(Release, (Waiting \cup {"transfer"}) \ {"transfer"})
    BY <1>9, <2>1, Leaves DEF Holds, TransferLoop, LoopOK, LockOK, Release
  <2>4. (Waiting \cup {"transfer"}) \ {"transfer"} = Waiting' \cup JobFor("lock")'
    BY <1>3, <2>1, <2>2
  <2> QED
    BY <1>9, <2>1, <2>2, <2>3, <2>4 DEF TransferLoop, LoopOK, LockOK, DebouncerOK, PollDue, pollVars
<1>10. CASE CommandDone
  <2>1. job'.awaits = "nothing"
    BY <1>1, <1>10 DEF CommandDone, Completed, Job
  <2> QED
    BY <1>9, <1>10, <2>1 DEF CommandDone
<1>11. ASSUME NEW executed \in BOOLEAN, TransferFail(executed) PROVE TransferLoop'
  <2>1. job'.awaits = "nothing" /\ UNCHANGED <<task, pollVars>>
    BY <1>1, <1>11 DEF TransferFail, Job
  <2>2. CASE Arrives("lock") /\ Holds("transfer") /\ queue' = Release
    BY <1>9, <2>1, <2>2
  <2>3. CASE (Arrives("slot") \/ Arrives("quiet")) /\ UNCHANGED queue
    BY <1>4, <2>1, <2>3 DEF Arrives
  <2> QED
    BY <1>11, <2>2, <2>3 DEF TransferFail
<1>12. CASE ApplyRestored
  <2>1. job.awaits = "nothing" /\ task' = task
    BY <1>12, Standing DEF ApplyRestored
  <2>2. JobFor("lock") = {} /\ JobFor("refresh") = {}
    BY <2>1 DEF JobFor
  <2>3. CASE debounce = "idle"
    <3>1. /\ debounce' = "running" /\ queue' = Append(queue, "requested")
          /\ poll' = [poll EXCEPT !["requested"] = [@ EXCEPT !.reading = 1]]
          /\ job'.awaits = "refresh"
      BY <1>1, <1>12, <2>3 DEF ApplyRestored, Job
    <3>2. Refreshing = {} /\ poll["requested"].reading = 0
      BY <1>1, <1>2, <2>3, ReadsAssumption
      DEF TransferLoop, LoopOK, DebouncerOK, CoreTypeOK, LoopTypeOK, ReadsAssumption
    <3>3. PICK next : poll' = [poll EXCEPT !["requested"] = next] /\ next.reading = 1
      <4> DEFINE first == [poll["requested"] EXCEPT !.reading = 1]
      <4>1. poll' = [poll EXCEPT !["requested"] = first]
        BY <3>1
      <4>2. first.reading = 1
        BY <1>1, <1>2 DEF CoreTypeOK, LoopTypeOK
      <4> HIDE DEF first
      <4> QED
        BY <4>1, <4>2
    <3>4. Waiting' = Waiting \cup {"requested"} /\ Refreshing' = Refreshing
      <4>1. next.reading > 0
        BY <3>3
      <4> QED
        BY <1>1, <1>2, <2>1, <3>3, <4>1, PollMoves
    <3>5. poll'["requested"].reading = 1
      BY <1>1, <1>2, <3>3 DEF CoreTypeOK, LoopTypeOK
    <3>6. JobFor("lock")' = {} /\ JobFor("refresh")' = {"transfer"}
      BY <3>1 DEF JobFor
    <3>7. "requested" \notin Waiting
      BY <1>2, <3>2, TasksAssumption DEF Waiting, TasksAssumption
    <3>8. Lines(queue', (Waiting \cup {}) \cup {"requested"})
      BY <2>2, <3>1, <3>7, Joins DEF TransferLoop, LoopOK, LockOK
    <3>9. (Waiting \cup {}) \cup {"requested"} = Waiting' \cup JobFor("lock")'
      BY <3>4, <3>6
    <3>10. LockOK(JobFor("lock"))'
      BY <3>8, <3>9 DEF LockOK
    <3>11. DebouncerOK(JobFor("refresh"))'
      <4>1. Refreshing' \cup JobFor("refresh")' = {"transfer"}
        BY <3>2, <3>4, <3>6
      <4> QED
        BY <3>1, <4>1 DEF DebouncerOK
    <3>12. PollDue'
      BY <1>2, <3>5 DEF PollDue
    <3> QED
      BY <3>10, <3>11, <3>12 DEF TransferLoop, LoopOK
  <2>4. CASE debounce # "idle"
    <3>1. /\ UNCHANGED <<queue, poll, timer>> /\ job'.awaits = "nothing"
          /\ debounce' = IF debounce = "cooling" THEN "rerun" ELSE debounce
      BY <1>1, <1>12, <2>1, <2>4 DEF ApplyRestored, Job
    <3>2. JobFor("lock")' = {} /\ JobFor("refresh")' = {}
      BY <3>1 DEF JobFor
    <3>3. Waiting' = Waiting /\ Refreshing' = Refreshing
      BY <2>1, <3>1 DEF Waiting, Refreshing
    <3> QED
      BY <2>2, <3>1, <3>2, <3>3 DEF TransferLoop, LoopOK, LockOK, DebouncerOK, PollDue
  <2> QED
    BY <2>3, <2>4
<1>13. CASE RestoreReturns
  <2>1. /\ job.awaits = "refresh" /\ job'.awaits = "nothing" /\ poll["requested"].reading = 0
        /\ UNCHANGED <<task, queue, poll, timer>>
    BY <1>1, <1>13 DEF RestoreReturns, Running, Job
  <2>2. /\ JobFor("lock") = {} /\ JobFor("lock")' = {}
        /\ JobFor("refresh") = {"transfer"} /\ JobFor("refresh")' = {}
    BY <2>1 DEF JobFor
  <2>3. Refreshing = {}
    BY <1>3, <2>2 DEF TransferLoop, LoopOK, DebouncerOK
  <2>4. Waiting' = Waiting /\ Refreshing' = Refreshing
    BY <2>1 DEF Waiting, Refreshing
  <2> QED
    BY <2>1, <2>2, <2>3, <2>4 DEF TransferLoop, LoopOK, LockOK, DebouncerOK, PollDue
<1> QED
  BY <1>5, <1>6, <1>7, <1>8, <1>10, <1>11, <1>12, <1>13, <1>14 DEF JobSteps

TransferGoes(a) == Goes(a) \/ (a = "transfer" /\ job.awaits = "lock")

(***************************************************************************)
(* The job, like every caller and every refresh, has exactly one place in  *)
(* the queue while it waits for the lock; whoever awaits a refresh is to   *)
(* resume or the refresh is in progress; and somebody can always go on.    *)
(***************************************************************************)
NobodyStrandedByJobs ==
    /\ \A a \in Waiters : TransferGoes(a) <=> \E i \in 1..Len(queue) : queue[i] = a
    /\ \A i, j \in 1..Len(queue) : queue[i] = queue[j] => i = j
    /\ \A t \in Tasks : task[t].pc = "refreshing" => Resuming(t) \/ Goes("requested")
    /\ job.awaits = "refresh" => Running \/ Goes("requested")
    /\ \/ Running
       \/ \E t \in Tasks : Resuming(t)
       \/ \E a \in Waiters : Holds(a) /\ TransferGoes(a)
       \/ timer /\ poll["scheduled"].reading = 0

LEMMA TransferIsNotStranded ==
    ASSUME JobOK, TransferLoop
    PROVE  NobodyStrandedByJobs
<1> DEFINE all == Waiting \cup JobFor("lock")
<1>1. CoreTypeOK /\ job \in Job
  BY JobOKType
<1>2. /\ queue \in Seq(all) /\ Len(queue) \in Nat
      /\ \A i, j \in 1..Len(queue) : queue[i] = queue[j] => i = j
      /\ \A a \in all : \E i \in 1..Len(queue) : queue[i] = a
  BY DEF TransferLoop, LoopOK, LockOK, Lines
<1>3. \A a \in Waiters : TransferGoes(a) <=> a \in all
  BY TasksAssumption, TransferAssumption
  DEF TasksAssumption, TransferAssumption, TransferGoes, Goes, Waiting, Waiters, JobFor
<1>4. "requested" \in Polls /\ "scheduled" \in Polls /\ \A p \in Polls : poll[p].reading \in Nat
  BY <1>1, ReadsAssumption DEF Polls, CoreTypeOK, LoopTypeOK, ReadsAssumption
<1>5. all \subseteq Waiters
  BY DEF Waiting, Waiters, JobFor
<1> HIDE DEF all
<1>6. \A a \in Waiters : TransferGoes(a) <=> \E i \in 1..Len(queue) : queue[i] = a
  BY <1>2, <1>3
<1>7. ASSUME NEW t \in Tasks, task[t].pc = "refreshing" PROVE Resuming(t) \/ Goes("requested")
  BY <1>4, <1>7 DEF Resuming, Goes
<1>8. job.awaits = "refresh" => Running \/ Goes("requested")
  BY <1>4 DEF Goes, Running, InProgress, JobOK, PhaseOK
<1>9. CASE queue = <<>>
  <2>1. \A p \in Polls : ~(poll[p].reading > 0)
    BY <1>2, <1>9 DEF all, Waiting
  <2>2. timer /\ poll["scheduled"].reading = 0
    BY <1>4, <2>1 DEF TransferLoop, LoopOK, PollDue
  <2> QED
    BY <1>2, <1>6, <1>7, <1>8, <2>2 DEF NobodyStrandedByJobs
<1>10. CASE queue # <<>>
  <2>1. Head(queue) \in all
    BY <1>2, <1>10
  <2>2. Head(queue) \in Waiters /\ TransferGoes(Head(queue))
    BY <1>3, <1>5, <2>1
  <2>3. (\E t \in Tasks : Resuming(t)) \/ \E a \in Waiters : Holds(a) /\ TransferGoes(a)
    BY <1>10, <2>2 DEF Holds
  <2> QED
    BY <1>2, <1>6, <1>7, <1>8, <2>3 DEF NobodyStrandedByJobs
<1> QED
  BY <1>9, <1>10

(***************************************************************************)
(* A snapshot or a restore of coordinator.py shares the lock and the       *)
(* debouncer with the callers and the polls, and neither it nor any of     *)
(* them is left waiting for something that nobody will do, not when it     *)
(* fails in the middle nor when a reload kills it.                         *)
(***************************************************************************)
THEOREM NobodyIsStrandedByJobs == TransferSpec => []NobodyStrandedByJobs
<1>1. TransferInit => JobOK /\ TransferLoop
  <2> SUFFICES ASSUME TransferInit PROVE TransferLoop
    BY TransferInitOK
  <2>1. Resting /\ job = NoJob
    BY DEF TransferInit, Init, Resting
  <2>2. JobFor("lock") = {} /\ JobFor("refresh") = {}
    BY <2>1 DEF JobFor, NoJob
  <2> QED
    BY <2>1, <2>2, LoopAtRest DEF TransferLoop
<1>2. JobOK /\ TransferLoop /\ [TransferNext]_transferVars => JobOK' /\ TransferLoop'
  BY TransferStepOK, OthersKeepLoop, JobKeepsLoop DEF TransferNext
<1>3. JobOK /\ TransferLoop => NobodyStrandedByJobs
  BY TransferIsNotStranded
<1> QED
  BY <1>1, <1>2, <1>3, PTL DEF TransferSpec
=============================================================================
