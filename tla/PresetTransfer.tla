--------------------------- MODULE PresetTransfer ---------------------------
(***************************************************************************)
(* The two long jobs of the coordinator, among its other callers: the      *)
(* snapshot, which reads every preset slot over telnet into the backup,    *)
(* and the restore, which drives the matrix through every backed-up        *)
(* scenario and saves each one.  Both are one coroutine that awaits the    *)
(* matrix at every command, so that polls, callers and the front panel act *)
(* between any two of them.                                                *)
(***************************************************************************)
EXTENDS CoordinatorProperties

CONSTANT MaxJobs \* bound of the exploration

ASSUME JobsAssumption == MaxJobs \in Nat
ASSUME PortNumbersAssumption == Outputs \cup Inputs \subseteq Nat
\* A poll reads the EDIDs with the input status.
ASSUME EdidsReadAssumption == \E n \in 1..Len(Reads) : Reads[n] = "input"
ASSUME TransferAssumption == "transfer" \notin Tasks \cup Polls
\* A rename would reach into the list of names a snapshot holds on to.
ASSUME NoRenameAssumption == \A r \in Requests : r.kind # "rename"

VARIABLE job \* the coroutine of the snapshot or restore

transferVars == <<vars, job>>

\* A step of a job: a command or a read, at the turn of a backed-up slot (0 if none).
Step ==
    [turn : Nat,
     does : Request \cup [kind : {"read"}, port : Slots, value : Table \cup {None}]]

Job ==
    [kind : {"none", "snapshot", "restore"},
     phase : {"idle", "reading", "saving", "pushing", "returning", "edids", "verifying",
              "refreshing", "done", "failed"},
     awaits : {"nothing", "lock", "slot", "quiet", "refresh", "disk"},
     plan : SUBSET Step,    \* the steps it has left in this phase
     live : Routing,        \* what the restore believes the routing to be
     before : Routing,      \* the routing it is to put back
     names : [Slots -> Names],
     found : [Slots -> Table \cup {None}], \* what the snapshot has read
     cut : SUBSET Slots,    \* the slots whose answers came cut short
     wrong : SUBSET Slots,  \* what the restore could not verify
     count : 0..MaxJobs,
     others : SUBSET {"routes", "slots", "labels"}, \* what others changed since the start
     misread : BOOLEAN]     \* a snapshot, this or an earlier one, kept EDIDs the matrix has not

NoJob ==
    [kind |-> "none", phase |-> "idle", awaits |-> "nothing", plan |-> {},
     live |-> data.routes, before |-> data.routes, names |-> data.names,
     found |-> [k \in Slots |-> None], cut |-> {}, wrong |-> {}, count |-> 0,
     others |-> {}, misread |-> FALSE]

InProgress == job.phase \notin {"idle", "done", "failed"}

\* Between two awaits, when nobody else runs.
Running ==
    /\ InProgress
    /\ \/ job.awaits = "nothing"
       \/ job.awaits = "refresh" /\ poll["requested"].reading = 0

\* An exchange of the job's own ends; a write that is to resume goes first.
Arrives(what) ==
    /\ InProgress /\ ~Running /\ job.awaits = what
    /\ \A t \in Tasks : ~Resuming(t)

----------------------------------------------------------------------------
(* The steps of a job and their order.                                     *)

Command(kind, port, value) == [kind |-> kind, port |-> port, value |-> value]

At(turn, command) == [turn |-> turn, does |-> command]

BackedUp == {k \in Slots : backup[k] # None}

\* Only the outputs the table has are switched.
RoutesTo(turn, routes) ==
    {At(turn, Command("route", o, routes[o])) : o \in {p \in Outputs : routes[p] # None}}

Rebuild(k) ==
    RoutesTo(k, backup[k].routes)
    \cup {At(k, Command("save", k, None)), At(k, Command("rename", k, backup[k].name))}

PushPlan == UNION {Rebuild(k) : k \in BackedUp}

EdidPlan ==
    {At(0, Command("edid", i, edidBackup[i])) : i \in {j \in Inputs : edidBackup[j] # None}}

VerifyPlan == {At(0, Command("read", k, backup[k].routes)) : k \in BackedUp}

SnapshotPlan == {At(0, Command("read", k, None)) : k \in Slots}

\* A slot is routed, saved and renamed before the next; ports and slots ascend.
Earlier(p, q) ==
    \/ p.turn < q.turn
    \/ /\ p.turn = q.turn
       /\ \/ <<p.does.kind, q.does.kind>> \in {<<"route", "save">>, <<"route", "rename">>,
                                              <<"save", "rename">>}
          \/ p.does.kind = q.does.kind /\ p.does.port < q.does.port

\* What the job does next.
Due(step) == step \in job.plan /\ \A other \in job.plan \ {step} : Earlier(step, other)

\* Slip: the last poll is asked instead of the mirror of the writes.
SatisfiedByPoll(r) ==
    \/ r.kind = "route" /\ data.routes[r.port] = r.value
    \/ r.kind = "edid" /\ data.edids[r.port] = r.value

\* What is in place already is not written again.
Satisfied(r) ==
    \/ r.kind = "route" /\ job.live[r.port] = r.value
    \/ r.kind = "edid" /\ data.edids[r.port] = r.value

----------------------------------------------------------------------------
(* Starting, and running up to the next await.                             *)

Start(kind, phase, plan) ==
    /\ ~InProgress
    /\ job.count < MaxJobs
    /\ job' = [NoJob EXCEPT !.kind = kind, !.phase = phase, !.plan = plan,
                            !.count = job.count + 1, !.misread = job.misread]
    /\ UNCHANGED vars

StartSnapshot == Start("snapshot", "reading", SnapshotPlan)

StartRestore == ~NoPresets(backup) /\ Start("restore", "pushing", PushPlan)

SkipSatisfied ==
    /\ Running
    /\ \E step \in job.plan :
         /\ Due(step) /\ Satisfied(step.does)
         /\ job' = [job EXCEPT !.plan = @ \ {step}]
    /\ UNCHANGED vars

Send ==
    /\ Running
    /\ \E step \in job.plan :
         Due(step) /\ step.does.kind # "read" /\ ~Satisfied(step.does)
    /\ job' = [job EXCEPT !.awaits = "lock"]
    /\ queue' = Append(queue, "transfer")
    /\ UNCHANGED <<matrixVars, memory, disk, task, pollVars, boundVars>>

Dial ==
    /\ Running
    /\ \E step \in job.plan : Due(step) /\ step.does.kind = "read"
    /\ job' = [job EXCEPT !.awaits = "slot"]
    /\ UNCHANGED vars

NextPhase ==
    /\ Running /\ job.plan = {}
    /\ \/ /\ job.phase = "pushing"
          /\ job' = [job EXCEPT !.phase = "returning", !.plan = RoutesTo(0, job.before)]
       \/ /\ job.phase = "returning"
          /\ job' = [job EXCEPT !.phase = "edids", !.plan = EdidPlan]
       \/ /\ job.phase = "edids"
          /\ job' = [job EXCEPT !.phase = "verifying", !.plan = VerifyPlan]
    /\ UNCHANGED vars

----------------------------------------------------------------------------
(* What is awaited happens.                                                *)

Completed(step) ==
    LET r == step.does IN
    [job EXCEPT !.awaits = "nothing", !.plan = @ \ {step},
                !.live = IF r.kind = "route" THEN [@ EXCEPT ![r.port] = r.value] ELSE @]

CommandDone ==
    /\ Arrives("lock") /\ Holds("transfer")
    /\ \E step \in job.plan : Due(step) /\ Execute(step.does) /\ job' = Completed(step)
    /\ queue' = Release
    /\ UNCHANGED <<memory, disk, task, pollVars, boundVars>>

\* Slip: only the last slot's verdict is kept.
MismatchesLast(r, table) == IF table # r.value THEN {r.port} ELSE {}

Mismatches(r, table) == IF table # r.value THEN job.wrong \cup {r.port} ELSE job.wrong

Heard(r, table) ==
    [job EXCEPT !.awaits = "quiet", !.found[r.port] = table, !.wrong = Mismatches(r, table)]

\* The CLI answers; the client waits for silence before it believes it.
SlotSent ==
    /\ Arrives("slot")
    /\ \E step \in job.plan :
         Due(step) /\ job' = Heard(step.does, slots[step.does.port])
    /\ UNCHANGED vars

\* A table that lacks its last outputs.
Beginnings(table) ==
    {[o \in Outputs |-> IF o <= last THEN table[o] ELSE None] :
         last \in {p \in Outputs : \E o \in Outputs : o > p}}

\* The CLI pauses within its answer: what came is taken for all of it.
SlotCut ==
    /\ Arrives("slot")
    /\ faults < MaxFaults
    /\ faults' = faults + 1
    /\ \E step \in job.plan :
         LET r == step.does IN
         /\ Due(step) /\ slots[r.port] # None
         /\ \E table \in Beginnings(slots[r.port]) :
                job' = [Heard(r, table) EXCEPT !.cut = @ \cup {r.port}]
    /\ UNCHANGED <<matrixVars, memory, disk, task, queue, pollVars, now, outside, restarts>>

SlotRead ==
    /\ Arrives("quiet")
    /\ \E step \in job.plan :
         Due(step) /\ job' = [job EXCEPT !.awaits = "nothing", !.plan = @ \ {step}]
    /\ UNCHANGED vars

\* A command or a slot fails, and the job with it: nothing is put back.  A
\* command executed later still is again a step of Outside's.
TransferFail(executed) ==
    /\ faults < MaxFaults
    /\ faults' = faults + 1
    /\ \/ /\ Arrives("lock") /\ Holds("transfer")
          /\ IF executed THEN \E step \in job.plan : Due(step) /\ Execute(step.does)
                         ELSE UNCHANGED matrixVars
          /\ queue' = Release
       \/ /\ Arrives("slot") \/ Arrives("quiet")
          /\ ~executed
          /\ UNCHANGED <<matrixVars, queue>>
    /\ job' = [job EXCEPT !.phase = "failed", !.awaits = "nothing"]
    /\ UNCHANGED <<memory, disk, task, pollVars, now, outside, restarts>>

----------------------------------------------------------------------------
(* The end of a snapshot.                                                  *)

\* Slip: a wiped matrix is backed up like any other.
RefusedNever == FALSE

\* Nothing in any slot is what a fresh wipe looks like.
Refused == \A k \in Slots : job.found[k] = None

RefuseSnapshot ==
    /\ Running /\ job.phase = "reading" /\ job.plan = {}
    /\ Refused
    /\ job' = [job EXCEPT !.phase = "failed"]
    /\ UNCHANGED vars

\* Slip: a slot found empty keeps its old backup.
SnapshotMerges ==
    [k \in Slots |-> IF job.found[k] = None THEN backup[k]
                     ELSE [name |-> job.names[k], routes |-> job.found[k]]]

Snapshot ==
    [k \in Slots |-> IF job.found[k] = None THEN None
                     ELSE [name |-> job.names[k], routes |-> job.found[k]]]

\* Slip: the store is handed the EDIDs of before.
SnapshotForStoreEarly == StoredBackup(backup', edidBackup, active)

SnapshotForStore == StoredBackup(backup', edidBackup', active)

KeepSnapshot ==
    /\ Running /\ job.phase = "reading" /\ job.plan = {}
    /\ ~Refused
    /\ backup' = Snapshot
    /\ edidBackup' = data.edids
    /\ pending' = SnapshotForStore
    /\ job' = [job EXCEPT !.phase = "saving", !.awaits = "disk",
                          !.misread = @ \/ data.edids # device.edids]
    /\ UNCHANGED <<matrixVars, data, active, drift, appliedAt, online, disk, task,
                   queue, pollVars, boundVars>>

\* The contents may match another slot than before; that alone is not saved.
SnapshotStored ==
    /\ InProgress /\ job.awaits = "disk"
    /\ disk' = IF pending # None THEN pending ELSE disk
    /\ pending' = None
    /\ drift' = BackupDrift(data, backup, edidBackup)
    /\ active' \in ActivePreset(data, backup, active)
    /\ job' = [job EXCEPT !.phase = "done", !.awaits = "nothing"]
    /\ UNCHANGED <<matrixVars, data, backup, edidBackup, appliedAt, online, task,
                   queue, pollVars, boundVars>>

----------------------------------------------------------------------------
(* The end of a restore.                                                   *)

\* Names and EDIDs as the backup has them by now.
Restored(s) ==
    [s EXCEPT !.names = [k \in Slots |-> IF backup[k] = None THEN @[k] ELSE backup[k].name],
              !.edids = [i \in Inputs |-> IF edidBackup[i] = None THEN @[i] ELSE edidBackup[i]]]

\* Slip: the drift sensors are left to the refresh.
DriftRestoredStale == drift

DriftRestored == BackupDrift(data', backup, edidBackup)

Verdict == IF job.wrong = {} THEN "done" ELSE "failed"

\* The refresh of a job, with the debouncer's choice as for a write.
ApplyRestored ==
    /\ Running /\ job.phase = "verifying" /\ job.plan = {}
    /\ data' = Restored(data)
    /\ drift' = DriftRestored
    /\ \/ /\ debounce = "idle"
          /\ debounce' = "running"
          /\ timer' = FALSE
          /\ poll' = [poll EXCEPT !["requested"] = [@ EXCEPT !.reading = 1]]
          /\ queue' = Append(queue, "requested")
          /\ job' = [job EXCEPT !.phase = "refreshing", !.awaits = "refresh"]
       \/ /\ debounce # "idle"
          /\ debounce' = IF debounce = "cooling" THEN "rerun" ELSE debounce
          /\ job' = [job EXCEPT !.phase = Verdict]
          /\ UNCHANGED <<timer, poll, queue>>
    /\ UNCHANGED <<matrixVars, backupVars, active, appliedAt, online, disk, task, boundVars>>

RestoreReturns ==
    /\ Running /\ job.awaits = "refresh"
    /\ debounce' = "cooling"
    /\ job' = [job EXCEPT !.phase = Verdict, !.awaits = "nothing"]
    /\ UNCHANGED <<matrixVars, memory, disk, task, queue, poll, timer, boundVars>>

----------------------------------------------------------------------------
(* Everybody else, while the job awaits something.                         *)

ChangedHere ==
    (IF device'.routes # device.routes THEN {"routes"} ELSE {})
    \cup (IF slots' # slots THEN {"slots"} ELSE {})
    \cup (IF <<device'.names, device'.edids>> # <<device.names, device.edids>>
          THEN {"labels"} ELSE {})

\* A restart kills the job.
OthersAct ==
    /\ ~Running
    /\ Next
    /\ job' = IF restarts' # restarts /\ InProgress
              THEN [job EXCEPT !.phase = "failed", !.awaits = "nothing"]
              ELSE [job EXCEPT !.others = @ \cup ChangedHere]

TransferInit == Init /\ job = NoJob

JobSteps ==
    \/ ~Running /\ (StartSnapshot \/ StartRestore)
    \/ SkipSatisfied \/ Send \/ Dial \/ NextPhase
    \/ CommandDone \/ SlotSent \/ SlotCut \/ SlotRead
    \/ \E executed \in BOOLEAN : TransferFail(executed)
    \/ RefuseSnapshot \/ KeepSnapshot \/ SnapshotStored
    \/ ApplyRestored \/ RestoreReturns

TransferNext == OthersAct \/ JobSteps

TransferSpec == TransferInit /\ [][TransferNext]_transferVars

----------------------------------------------------------------------------
(* Types.                                                                  *)

TransferTypeOK ==
    /\ CoreTypeOK
    /\ QueueTypeOK(Tasks \cup Polls \cup {"transfer"})
    /\ job \in Job

----------------------------------------------------------------------------
(* What the jobs should keep.                                              *)

NoSaves == \A t \in Tasks : task[t].req.kind \notin {"save", "clear"}

\* Nobody but the job has, or had, to do with what the slots hold.
SlotsUndisturbed == "slots" \notin job.others /\ NoSaves

\* Nobody but the jobs set an EDID, and no snapshot took one that a poll or a
\* failed restore had left wrong in the state on show.
EdidsUndisturbed ==
    outside = 0 /\ ~job.misread /\ \A t \in Tasks : task[t].req.kind # "edid"

Finished(kind) == job.kind = kind /\ job.phase = "done"

\* A backup of all outputs.
WholeBackup(k) == backup[k] # None /\ backup[k].routes \in Routing

(***************************************************************************)
(* A restore that reports success has left every backed-up slot with its   *)
(* routing on the matrix, whoever routed or recalled in between, however   *)
(* an earlier attempt failed and however answers were cut short, as long   *)
(* as nobody else saved, cleared or flashed and the backup has all of the  *)
(* slot; with its name unless somebody renamed it at the matrix, and every *)
(* input with its EDID unless somebody set one.  async_restore_presets     *)
(* skips what it takes to be in place.                                     *)
(***************************************************************************)
RestoredMeansStored ==
    Finished("restore") /\ SlotsUndisturbed =>
        /\ \A k \in Slots : WholeBackup(k) => slots[k] = backup[k].routes
        /\ outside = 0 => \A k \in BackedUp : device.names[k] = backup[k].name
        /\ EdidsUndisturbed =>
              \A i \in Inputs : edidBackup[i] # None => device.edids[i] = edidBackup[i]

(***************************************************************************)
(* And it has put back the routing that was on show when it began, unless  *)
(* somebody else switched an output since or no slot was backed up whole.  *)
(* The docstring promises the routing "in effect beforehand", which is     *)
(* another one where the matrix was switched since the last poll.          *)
(***************************************************************************)
RoutingPutBack ==
    /\ Finished("restore") /\ SlotsUndisturbed /\ "routes" \notin job.others
    /\ \E k \in Slots : WholeBackup(k)
    => device.routes = job.before

(***************************************************************************)
(* A snapshot that is over has made the backup what the slots hold, slot   *)
(* by slot and on disk too, however routes, recalls and polls fell between *)
(* its reads, unless slots changed meanwhile.  Of a slot whose answer was  *)
(* cut short it has the first outputs, which nobody is told.               *)
(***************************************************************************)
SnapshotFaithful ==
    Finished("snapshot") /\ SlotsUndisturbed =>
        /\ \A k \in Slots :
              \/ slots[k] = None /\ backup[k] = None
              \/ /\ slots[k] # None /\ backup[k] # None
                 /\ \/ backup[k].routes = slots[k]
                    \/ k \in job.cut /\ backup[k].routes \in Beginnings(slots[k])
        /\ disk.presets = backup

(***************************************************************************)
(* A backup that holds a preset is made empty only by the follow-up of a   *)
(* clear of its last slot, and by a restart that finds none on disk: no    *)
(* snapshot, restore, poll or other write does it.  "Overwriting a good    *)
(* backup with that would destroy the one copy worth having".              *)
(***************************************************************************)
BackupNotWiped ==
    [][~NoPresets(backup) /\ NoPresets(backup') =>
          \/ \E t \in Tasks :
                /\ task[t].req.kind = "clear"
                /\ task[t].pc \in {"sending", "refreshing"}
                /\ task'[t].pc \in {"saving", "done"}
                /\ \A k \in Slots : backup[k] # None => k = task[t].req.port
          \/ restarts' # restarts /\ NoPresets(disk.presets)]_transferVars

(***************************************************************************)
(* With a job among the savers: the disk, or the content still to be       *)
(* written, is the backup in memory, and somebody is there to write it.    *)
(***************************************************************************)
TransferKeepsDisk ==
    LET latest == IF pending = None THEN disk ELSE pending IN
    /\ latest.presets = backup
    /\ latest.edids = edidBackup
    /\ pending # None => job.phase = "saving" \/ \E t \in Tasks : task[t].pc = "saving"

(***************************************************************************)
(* With a job that replaces the backup or the state on show, the drift     *)
(* sensors still say what a comparison would, except while it saves.       *)
(***************************************************************************)
TransferKeepsDrift == job.phase = "saving" \/ DriftCurrent

----------------------------------------------------------------------------
(* What comments of the code promise and the code does not keep.           *)

(***************************************************************************)
(* "Saves made through Home Assistant keep the backup fresh on their own": *)
(* once every call has returned, the backup has the routing of a slot      *)
(* saved by its only caller.  A snapshot that had read the slot before the *)
(* save replaces the whole backup after it.                                *)
(***************************************************************************)
SavesKeepBackupFresh ==
    outside = 0 /\ restarts = 0 /\ ~InProgress =>
        \A t \in Tasks : task[t].pc = "done" /\ task[t].req.kind = "save" =>
            LET k == task[t].req.port IN
            backup[k] # None /\ backup[k].routes = slots[k]

(***************************************************************************)
(* "Rebuild the preset slots and EDID selections from the backup": after a *)
(* restore that reports success the inputs have their EDIDs back.  An EDID *)
(* that the last poll still showed in place is skipped and never verified. *)
(***************************************************************************)
RestoreRebuildsEdids ==
    Finished("restore") /\ job.others = {} =>
        \A i \in Inputs : edidBackup[i] # None => device.edids[i] = edidBackup[i]
=============================================================================
