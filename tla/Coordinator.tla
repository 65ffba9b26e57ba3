---------------------------- MODULE Coordinator ----------------------------
(***************************************************************************)
(* The polling coordinator of one matrix: commands written by entities and *)
(* services, the polls that confirm them, the preset/EDID backup kept in   *)
(* memory and on disk, and the active preset derived from the routing.     *)
(*                                                                         *)
(* Every exchange with the matrix holds the client's lock (a FIFO), so one *)
(* step covers "the matrix executes the command, its reply arrives and the *)
(* coroutine runs up to its next await".  The interleavings that remain    *)
(* are the ones asyncio really has: between the exchanges of several tasks *)
(* and polls, at the refresh inside a write, and at the save of the store. *)
(***************************************************************************)
EXTENDS Integers, Sequences, FiniteSets

CONSTANTS
    Outputs, Inputs,      \* one-based port numbers
    Slots,                \* one-based preset slots
    Names, FactoryName,   \* preset names
    Profiles, FactoryProfile, \* EDID profile ids
    Settings,             \* every other writable field: port names, enables, modes...
    Levels,               \* the values of those fields
    SettingTable,         \* the status command that reports each of them
    Reads,                \* the status commands of a poll, in the code's order
    BlanksInStandby,      \* TRUE: a variant that blanks its tables in standby
    Tasks,                \* the callers of the coordinator, one write each
    Requests,             \* what they may ask for
    OutsideRequests,      \* what the front panel or the web UI may do
    Installations,        \* the matrix and the stored backup at setup
    Cooldown,             \* PRESET_APPLY_COOLDOWN
    MaxNow, MaxFaults, MaxOutside, MaxRestarts, \* bounds of the exploration
    None

TableNames == {"video", "output", "input", "system", "audio"}

Routing == [Outputs -> Inputs]
\* A slot as telnet shows it, which may lack the last outputs.
Table == [Outputs -> Inputs \cup {None}]
Entry == [name : Names, routes : Table]
Presets == [Slots -> Entry \cup {None}]
EdidBackup == [Inputs -> Profiles \cup {None}]
State == [power : BOOLEAN, routes : Routing, names : [Slots -> Names],
          edids : [Inputs -> Profiles], settings : [Settings -> Levels]]
Stored == [presets : Presets, edids : EdidBackup, active : Slots \cup {None}]
SlotContents == [Slots -> Routing \cup {None}]

Request ==
    [kind : {"power"}, port : {None}, value : BOOLEAN]
    \cup [kind : {"route"}, port : Outputs, value : Inputs]
    \cup [kind : {"setting"}, port : Settings, value : Levels]
    \cup [kind : {"edid"}, port : Inputs, value : Profiles]
    \cup [kind : {"rename"}, port : Slots, value : Names]
    \cup [kind : {"save", "clear", "recall"}, port : Slots, value : {None}]
    \cup [kind : {"command"}, port : {None}, value : {None}]

NoRequest == [kind |-> "command", port |-> None, value |-> None]

Polls == {"scheduled", "requested"}

ASSUME PortsAssumption ==
    /\ Slots \subseteq Nat
    /\ Inputs # {}
    /\ Levels # {}
ASSUME FactoryAssumption == FactoryName \in Names /\ FactoryProfile \in Profiles
ASSUME NoneAssumption ==
    /\ None \notin Profiles
    /\ None \notin Entry
    /\ None \notin Table
    /\ None \notin Stored
    /\ None \notin Nat
    /\ None \notin [goal : Routing, left : SUBSET Outputs, since : Nat]
ASSUME ReadsAssumption ==
    /\ Reads \in Seq(TableNames)
    /\ Len(Reads) > 0
    /\ Head(Reads) = "video"
    /\ SettingTable \in [Settings -> TableNames]
ASSUME RequestsAssumption ==
    /\ Requests \subseteq Request
    /\ OutsideRequests \subseteq Request
ASSUME TasksAssumption == Tasks \cap Polls = {}
ASSUME InstallationsAssumption ==
    Installations \subseteq [device : State, slots : SlotContents, stored : Stored]
ASSUME BoundsAssumption ==
    /\ {Cooldown, MaxNow, MaxFaults, MaxOutside, MaxRestarts} \subseteq Nat
    /\ BlanksInStandby \in BOOLEAN

VARIABLES
    device,     \* what the matrix holds and reports
    slots,      \* the routing stored in each preset slot, unreadable over HTTP
    recalling,  \* a recall still switching outputs, or None
    data,       \* coordinator.data, the state entities show
    backup,     \* coordinator.preset_backup
    edidBackup, \* coordinator.edid_backup
    active,     \* coordinator.active_preset
    drift,      \* preset_backup_drift and edid_backup_drift
    appliedAt,  \* _preset_applied_at
    online,     \* last_update_success
    pending,    \* the store's data not yet taken by a write
    disk,       \* the store's file
    task,       \* each caller's coroutine
    queue,      \* the waiters of the client's lock, its holder first
    poll,       \* each refresh in progress: reads done and what they returned
    timer,      \* the next scheduled refresh is armed
    debounce,   \* the debouncer of async_request_refresh
    now, faults, outside, restarts

matrixVars == <<device, slots, recalling>>
backupVars == <<backup, edidBackup, pending>>
pollVars == <<poll, timer, debounce>>
boundVars == <<now, faults, outside, restarts>>
memory == <<data, backupVars, active, drift, appliedAt, online>>
vars == <<matrixVars, memory, disk, task, queue, pollVars, boundVars>>

----------------------------------------------------------------------------
(* The matrix.                                                             *)

\* The field a command sets, in the matrix and in the coordinator's copy.
Written(s, r) ==
    CASE r.kind = "power"   -> [s EXCEPT !.power = r.value]
      [] r.kind = "route"   -> [s EXCEPT !.routes[r.port] = r.value]
      [] r.kind = "setting" -> [s EXCEPT !.settings[r.port] = r.value]
      [] r.kind = "edid"    -> [s EXCEPT !.edids[r.port] = r.value]
      [] r.kind = "rename"  -> [s EXCEPT !.names[r.port] = r.value]
      [] OTHER              -> s

\* A recall switches the outputs one after the other; it is not applied in
\* standby, and an empty slot holds nothing to apply.
Recalls(r) == r.kind = "recall" /\ device.power /\ slots[r.port] # None

Execute(r) ==
    /\ device' = Written(device, r)
    /\ slots' = CASE r.kind = "save"  -> [slots EXCEPT ![r.port] = device.routes]
                  [] r.kind = "clear" -> [slots EXCEPT ![r.port] = None]
                  [] OTHER            -> slots
    /\ recalling' = IF Recalls(r)
                    THEN [goal |-> slots[r.port], left |-> Outputs, since |-> now]
                    ELSE recalling

Blank == BlanksInStandby /\ ~device.power

SettleOutput(o) ==
    /\ recalling # None
    /\ o \in recalling.left
    /\ device' = [device EXCEPT !.routes[o] = recalling.goal[o]]
    /\ recalling' = IF recalling.left = {o} THEN None
                    ELSE [recalling EXCEPT !.left = @ \ {o}]
    /\ UNCHANGED <<slots, memory, disk, task, queue, pollVars, boundVars>>

\* Somebody at the front panel or in the device's web UI.
Outside(r) ==
    /\ outside < MaxOutside
    /\ outside' = outside + 1
    /\ Execute(r)
    /\ UNCHANGED <<memory, disk, task, queue, pollVars, now, faults, restarts>>

\* A firmware flash wipes the slots and resets the names and the EDIDs.
Flash ==
    /\ outside < MaxOutside
    /\ outside' = outside + 1
    /\ device' = [device EXCEPT !.names = [s \in Slots |-> FactoryName],
                                !.edids = [i \in Inputs |-> FactoryProfile]]
    /\ slots' = [s \in Slots |-> None]
    /\ UNCHANGED <<recalling, memory, disk, task, queue, pollVars, now,
                   faults, restarts>>

----------------------------------------------------------------------------
(* What is derived from a state and the backup.                            *)

BackupDrift(s, presets, edids) ==
    [presets |-> {k \in Slots : presets[k] # None /\ s.names[k] # presets[k].name},
     edids |-> {i \in Inputs : edids[i] # None /\ s.edids[i] # edids[i]}]

Matches(s, presets) ==
    {k \in Slots : presets[k] # None /\ presets[k].routes = s.routes}

NoPresets(presets) == \A k \in Slots : presets[k] = None

\* Slip: indices taken for slots.
ActivePresetZeroBased(s, presets, current) ==
    LET matches == Matches(s, presets) IN
    IF NoPresets(presets) \/ ~s.power \/ current \in matches THEN {current}
    ELSE IF matches = {} THEN {None}
    ELSE {k - 1 : k \in {m \in matches : \A j \in matches : m <= j}}

\* Slip: a remembered slot is never given up.
ActivePresetSticks(s, presets, current) ==
    LET matches == Matches(s, presets) IN
    IF NoPresets(presets) \/ ~s.power \/ current # None THEN {current}
    ELSE IF matches = {} THEN {None}
    ELSE {k \in matches : \A j \in matches : k <= j}

\* _refresh_active_preset: the remembered slot while it matches, else the
\* lowest match, else none; untouched without a backup or in standby.  The
\* set of the values it may leave, which is a singleton.
ActivePreset(s, presets, current) ==
    LET matches == Matches(s, presets) IN
    IF NoPresets(presets) \/ ~s.power \/ current \in matches THEN {current}
    ELSE IF matches = {} THEN {None}
    ELSE {k \in matches : \A j \in matches : k <= j}

StoredBackup(presets, edids, preset) ==
    [presets |-> presets, edids |-> edids, active |-> preset]

----------------------------------------------------------------------------
(* The tail of a write, after its refresh: keep the backup in step.        *)

\* Slip: a rename does not reach the backup.
BackupAfterIgnoresRename(r, s, presets) ==
    CASE r.kind = "save" ->
           [presets EXCEPT ![r.port] = [name |-> s.names[r.port], routes |-> s.routes]]
      [] r.kind = "clear" -> [presets EXCEPT ![r.port] = None]
      [] OTHER -> presets

BackupAfter(r, s, presets) ==
    CASE r.kind = "save" ->
           [presets EXCEPT ![r.port] = [name |-> s.names[r.port], routes |-> s.routes]]
      [] r.kind = "clear" -> [presets EXCEPT ![r.port] = None]
      [] r.kind = "rename" /\ presets[r.port] # None ->
           [presets EXCEPT ![r.port].name = r.value]
      [] OTHER -> presets

EdidsAfter(r, edids) ==
    IF r.kind = "edid" /\ edids[r.port] # None
    THEN [edids EXCEPT ![r.port] = r.value]
    ELSE edids

\* Slips: a cleared slot, or a new name, is not persisted.
PersistsNotClear(r, presets, edids) ==
    \/ r.kind \in {"save", "recall"}
    \/ r.kind = "rename" /\ presets[r.port] # None
    \/ r.kind = "edid" /\ edids[r.port] # None

PersistsNotRename(r, presets, edids) ==
    \/ r.kind \in {"save", "recall"}
    \/ r.kind = "clear" /\ presets[r.port] # None
    \/ r.kind = "edid" /\ edids[r.port] # None

Persists(r, presets, edids) ==
    \/ r.kind \in {"save", "recall"}
    \/ r.kind \in {"clear", "rename"} /\ presets[r.port] # None
    \/ r.kind = "edid" /\ edids[r.port] # None

FollowUp(t) ==
    LET r == task[t].req IN
    /\ backup' = BackupAfter(r, data', backup)
    /\ edidBackup' = EdidsAfter(r, edidBackup)
    /\ \/ /\ Persists(r, backup, edidBackup)
          /\ pending' = StoredBackup(backup', edidBackup', active')
          /\ task' = [task EXCEPT ![t].pc = "saving"]
       \/ /\ ~Persists(r, backup, edidBackup)
          /\ pending' = pending
          /\ task' = [task EXCEPT ![t].pc = "done"]

----------------------------------------------------------------------------
(* Writes.                                                                 *)

Begin(t, r) ==
    /\ task[t].pc = "idle"
    /\ task' = [task EXCEPT ![t] = [pc |-> "sending", req |-> r, at |-> now]]
    /\ queue' = Append(queue, t)
    /\ UNCHANGED <<matrixVars, data, backupVars, active, drift, online, disk,
                   pollVars, boundVars>>

Submit(t, r) ==
    /\ r.kind # "recall"
    /\ Begin(t, r)
    /\ UNCHANGED appliedAt

\* Slip: the window is one tick short.
CoolingShort == appliedAt # None /\ now - appliedAt < Cooldown - 1

Cooling == appliedAt # None /\ now - appliedAt < Cooldown

SubmitRecall(t, r) ==
    /\ r.kind = "recall"
    /\ ~Cooling
    /\ appliedAt' = now
    /\ Begin(t, r)

RefuseRecall(t, r) ==
    /\ r.kind = "recall"
    /\ Cooling
    /\ task[t].pc = "idle"
    /\ task' = [task EXCEPT ![t] = [pc |-> "refused", req |-> r, at |-> now]]
    /\ UNCHANGED <<matrixVars, memory, disk, queue, pollVars, boundVars>>

\* Slip: the lock is not given back.
ReleaseLeaks == queue

\* What is left of the queue when the holder gives the lock back.
Release == Tail(queue)

\* A write whose refresh is over runs again before any further exchange: it
\* is already in the event loop's ready queue, they need a round trip.
Resuming(t) == task[t].pc = "refreshing" /\ poll["requested"].reading = 0

\* The holder of the client's lock, at the end of its exchange.
Holds(a) ==
    /\ queue # <<>>
    /\ Head(queue) = a
    /\ \A t \in Tasks : ~Resuming(t)

\* The optimistic reflection of a write; saves, clears and commands have none.
Reflect(r) == Written(data, r)

\* The debouncer is idle: this write awaits a refresh of its own.
RefreshNow(t) ==
    /\ debounce = "idle"
    /\ debounce' = "running"
    /\ timer' = FALSE
    /\ poll' = [poll EXCEPT !["requested"] = [@ EXCEPT !.reading = 1]]
    /\ queue' = Append(Release, "requested")
    /\ task' = [task EXCEPT ![t].pc = "refreshing"]
    /\ UNCHANGED backupVars

\* A refresh is running (the request is dropped) or its cool-down is (the
\* refresh is left to the timer): the write goes on without waiting.
RefreshLater(t) ==
    /\ debounce # "idle"
    /\ debounce' = IF debounce = "cooling" THEN "rerun" ELSE debounce
    /\ queue' = Release
    /\ FollowUp(t)
    /\ UNCHANGED <<poll, timer>>

Deliver(t) ==
    LET r == task[t].req IN
    /\ Holds(t) /\ task[t].pc = "sending"
    /\ Execute(r)
    /\ data' = Reflect(r)
    /\ active' = IF r.kind = "recall" THEN r.port ELSE active
    /\ RefreshNow(t) \/ RefreshLater(t)
    /\ UNCHANGED <<drift, appliedAt, online, disk, boundVars>>

\* No usable answer: refused, garbled or timed out, and in the last two cases
\* the matrix may have executed the command all the same.  One it executes
\* later still, behind other commands, is a step of Outside's; MatrixClient
\* has the delay itself.
Fail(t, executed) ==
    LET r == task[t].req IN
    /\ Holds(t) /\ task[t].pc = "sending"
    /\ faults < MaxFaults
    /\ faults' = faults + 1
    /\ \/ executed /\ Execute(r)
       \/ ~executed /\ UNCHANGED matrixVars
    /\ appliedAt' = IF r.kind = "recall" THEN None ELSE appliedAt
    /\ queue' = Release
    /\ task' = [task EXCEPT ![t].pc = "failed"]
    /\ UNCHANGED <<data, backupVars, active, drift, online, disk, pollVars,
                   now, outside, restarts>>

\* The refresh a write awaited is over, successful or not.
Resume(t) ==
    /\ Resuming(t)
    /\ debounce' = "cooling"
    /\ UNCHANGED <<data, active>>
    /\ FollowUp(t)
    /\ UNCHANGED <<matrixVars, drift, appliedAt, online, disk, queue, poll,
                   timer, boundVars>>

\* Slip: the drift is not recomputed.
DriftAfterSaveStale(r) == drift

\* Persisting the active preset alone leaves the drift as it is.
DriftAfterSave(r) ==
    IF r.kind = "recall" THEN drift ELSE BackupDrift(data, backup, edidBackup)

\* The store's write lock is free: whoever comes first writes the latest data
\* and the others find nothing left to write.
StoreWrite(t) ==
    /\ task[t].pc = "saving"
    /\ disk' = IF pending # None THEN pending ELSE disk
    /\ pending' = None
    /\ drift' = DriftAfterSave(task[t].req)
    /\ task' = [task EXCEPT ![t].pc = "done"]
    /\ UNCHANGED <<matrixVars, data, backup, edidBackup, active, appliedAt,
                   online, queue, pollVars, boundVars>>

----------------------------------------------------------------------------
(* Polls.                                                                  *)

Unread ==
    [power |-> FALSE,
     routes |-> [o \in Outputs |-> CHOOSE i \in Inputs : TRUE],
     names |-> [k \in Slots |-> FactoryName],
     edids |-> [i \in Inputs |-> FactoryProfile],
     settings |-> [x \in Settings |-> CHOOSE l \in Levels : TRUE]]

NotPolling == [reading |-> 0, view |-> Unread]

\* The interval has passed.  A refresh cancels the debouncer's timer.
PollStart ==
    /\ timer
    /\ poll["scheduled"].reading = 0
    /\ timer' = FALSE
    /\ debounce' = IF debounce = "running" THEN "running" ELSE "idle"
    /\ poll' = [poll EXCEPT !["scheduled"] = [@ EXCEPT !.reading = 1]]
    /\ queue' = Append(queue, "scheduled")
    /\ UNCHANGED <<matrixVars, memory, disk, task, boundVars>>

Cooled ==
    /\ debounce = "cooling"
    /\ debounce' = "idle"
    /\ UNCHANGED <<matrixVars, memory, disk, task, queue, poll, timer,
                   boundVars>>

Rerun ==
    /\ debounce = "rerun"
    /\ debounce' = "running"
    /\ timer' = FALSE
    /\ poll' = [poll EXCEPT !["requested"] = [@ EXCEPT !.reading = 1]]
    /\ queue' = Append(queue, "requested")
    /\ UNCHANGED <<matrixVars, memory, disk, task, boundVars>>

\* The refresh run by the timer has no caller to resume.
RerunDone ==
    /\ debounce = "running"
    /\ poll["requested"].reading = 0
    /\ \A t \in Tasks : task[t].pc # "refreshing"
    /\ debounce' = "cooling"
    /\ UNCHANGED <<matrixVars, memory, disk, task, queue, poll, timer,
                   boundVars>>

\* Slip: only the video and the input status are read.
ReadTableForgets(view, table) ==
    LET video == table = "video" IN
    [power |-> IF video THEN device.power ELSE view.power,
     routes |-> IF video THEN device.routes ELSE view.routes,
     names |-> IF video THEN device.names ELSE view.names,
     edids |-> IF table = "input" THEN device.edids ELSE view.edids,
     settings |-> view.settings]

\* What one status command adds to the state being assembled.
ReadTable(view, table) ==
    LET video == table = "video" IN
    [power |-> IF video THEN device.power ELSE view.power,
     routes |-> IF video THEN device.routes ELSE view.routes,
     names |-> IF video THEN device.names ELSE view.names,
     edids |-> IF table = "input" THEN device.edids ELSE view.edids,
     settings |-> [s \in Settings |-> IF SettingTable[s] = table
                                      THEN device.settings[s]
                                      ELSE view.settings[s]]]

\* A refresh that ends, well or badly, arms the next scheduled one.
PollOver(p) ==
    /\ poll' = [poll EXCEPT ![p] = NotPolling]
    /\ timer' = TRUE
    /\ queue' = Release

\* The first command of a poll, answered by a variant in standby.
BlankRead(p) == Blank /\ poll[p].reading = 1

\* A status command that is not the last one.
PollRead(p) ==
    /\ Holds(p)
    /\ ~BlankRead(p)
    /\ poll[p].reading \in 1..(Len(Reads) - 1)
    /\ poll' = [poll EXCEPT ![p] =
                   [reading |-> @.reading + 1,
                    view |-> ReadTable(@.view, Reads[@.reading])]]
    /\ queue' = Append(Release, p)
    /\ UNCHANGED <<matrixVars, memory, disk, task, timer, debounce, boundVars>>

\* The last one: the new state replaces the old one, drift and active preset
\* are derived from it.
PollFinish(p) ==
    LET state == ReadTable(poll[p].view, Reads[poll[p].reading]) IN
    /\ Holds(p)
    /\ ~BlankRead(p)
    /\ poll[p].reading = Len(Reads)
    /\ data' = state
    /\ drift' = BackupDrift(state, backup, edidBackup)
    /\ active' \in ActivePreset(state, backup, active)
    /\ online' = TRUE
    /\ PollOver(p)
    /\ UNCHANGED <<matrixVars, backupVars, appliedAt, disk, task, debounce,
                   boundVars>>

\* Blank tables: only the power state is taken over, nothing is derived.
PollBlank(p) ==
    /\ Holds(p)
    /\ BlankRead(p)
    /\ data' = [data EXCEPT !.power = device.power]
    /\ online' = TRUE
    /\ PollOver(p)
    /\ UNCHANGED <<matrixVars, backupVars, active, drift, appliedAt, disk,
                   task, debounce, boundVars>>

\* An attempt fails and others overtake the retry while it sleeps.
PollStumble(p) ==
    /\ Holds(p)
    /\ faults < MaxFaults
    /\ faults' = faults + 1
    /\ queue' = Append(Release, p)
    /\ UNCHANGED <<matrixVars, memory, disk, task, pollVars, now, outside,
                   restarts>>

\* The last attempt of a read fails, and the refresh with it; data stands.
PollFail(p) ==
    /\ Holds(p)
    /\ faults < MaxFaults
    /\ faults' = faults + 1
    /\ online' = FALSE
    /\ PollOver(p)
    /\ UNCHANGED <<matrixVars, data, backupVars, active, drift, appliedAt,
                   disk, task, debounce, now, outside, restarts>>

----------------------------------------------------------------------------
(* Reload or crash, and time.                                              *)

\* The active preset is the stored one.  Where none is stored the preset
\* select takes up the name it showed last, if that was saved, for the first
\* slot that bears it.
Adopted ==
    LET named == {k \in Slots : active # None /\ device.names[k] = data.names[active]} IN
    IF disk.active # None THEN {disk.active}
    ELSE {None} \cup {k \in named : \A l \in named : k <= l}

\* The first refresh of the new coordinator, the stored backup, and what the
\* select adopts, stored at once.  Nothing is derived until the next poll.
Restart ==
    /\ restarts < MaxRestarts
    /\ ~Blank
    /\ restarts' = restarts + 1
    /\ data' = device
    /\ backup' = disk.presets
    /\ edidBackup' = disk.edids
    /\ active' \in Adopted
    /\ disk' = [disk EXCEPT !.active = active']
    /\ drift' = BackupDrift(device, disk.presets, disk.edids)
    /\ appliedAt' = None
    /\ online' = TRUE
    /\ pending' = None
    /\ task' = [t \in Tasks |->
                   IF task[t].pc \in {"sending", "refreshing", "saving"}
                   THEN [task[t] EXCEPT !.pc = "killed"] ELSE task[t]]
    /\ queue' = <<>>
    /\ poll' = [p \in Polls |-> NotPolling]
    /\ timer' = TRUE
    /\ debounce' = "idle"
    /\ UNCHANGED <<matrixVars, now, faults, outside>>

\* A recall settles within the cool-down measured from its execution.
Tick ==
    /\ now < MaxNow
    /\ recalling # None => now < recalling.since + Cooldown
    /\ now' = now + 1
    /\ UNCHANGED <<matrixVars, memory, disk, task, queue, pollVars, faults,
                   outside, restarts>>

----------------------------------------------------------------------------
Init ==
    /\ \E start \in Installations :
         /\ device = start.device
         /\ slots = start.slots
         /\ data = start.device
         /\ backup = start.stored.presets
         /\ edidBackup = start.stored.edids
         /\ active = start.stored.active
         /\ disk = start.stored
         /\ drift = BackupDrift(start.device, start.stored.presets, start.stored.edids)
    /\ recalling = None
    /\ appliedAt = None
    /\ online = TRUE
    /\ pending = None
    /\ task = [t \in Tasks |-> [pc |-> "idle", req |-> NoRequest, at |-> 0]]
    /\ queue = <<>>
    /\ poll = [p \in Polls |-> NotPolling]
    /\ timer = TRUE
    /\ debounce = "idle"
    /\ now = 0 /\ faults = 0 /\ outside = 0 /\ restarts = 0

Caller(t) ==
    \/ \E r \in Requests : Submit(t, r) \/ SubmitRecall(t, r) \/ RefuseRecall(t, r)
    \/ Deliver(t)
    \/ \E executed \in BOOLEAN : Fail(t, executed)
    \/ Resume(t)
    \/ StoreWrite(t)

Poller(p) == PollRead(p) \/ PollFinish(p) \/ PollBlank(p) \/ PollStumble(p) \/ PollFail(p)

Matrix ==
    \/ \E o \in Outputs : SettleOutput(o)
    \/ \E r \in OutsideRequests : Outside(r)
    \/ Flash

Next ==
    \/ \E t \in Tasks : Caller(t)
    \/ \E p \in Polls : Poller(p)
    \/ PollStart \/ Cooled \/ Rerun \/ RerunDone
    \/ Matrix
    \/ Restart
    \/ Tick

Spec == Init /\ [][Next]_vars

(***************************************************************************)
(* The event loop runs what is ready, the matrix answers once the fault    *)
(* budget is spent, timers expire, and a recall finishes switching.        *)
(* Nothing makes a caller call, a tick pass or a restart happen.           *)
(***************************************************************************)
Served ==
    \/ \E t \in Tasks : Deliver(t)
    \/ \E p \in Polls : PollRead(p) \/ PollFinish(p) \/ PollBlank(p)

Fairness ==
    /\ WF_vars(Served)
    /\ \A t \in Tasks : WF_vars(Resume(t)) /\ WF_vars(StoreWrite(t))
    /\ WF_vars(RerunDone)
    /\ WF_vars(PollStart)
    /\ WF_vars(Cooled \/ Rerun)
    /\ \A o \in Outputs : WF_vars(SettleOutput(o))

FairSpec == Spec /\ Fairness

----------------------------------------------------------------------------
(* Types.                                                                  *)

Recall == [goal : Routing, left : SUBSET Outputs, since : Nat]
TaskStates == {"idle", "sending", "refreshing", "saving", "done", "failed",
               "refused", "killed"}

MatrixTypeOK ==
    /\ device \in State
    /\ slots \in SlotContents
    /\ recalling \in Recall \cup {None}

MemoryTypeOK ==
    /\ data \in State
    /\ backup \in Presets
    /\ edidBackup \in EdidBackup
    /\ active \in Slots \cup {None}
    /\ drift \in [presets : SUBSET Slots, edids : SUBSET Inputs]
    /\ appliedAt \in Nat \cup {None}
    /\ online \in BOOLEAN
    /\ pending \in Stored \cup {None}
    /\ disk \in Stored

LoopTypeOK ==
    /\ task \in [Tasks -> [pc : TaskStates, req : Request, at : Nat]]
    /\ poll \in [Polls -> [reading : 0..Len(Reads), view : State]]
    /\ timer \in BOOLEAN
    /\ debounce \in {"idle", "running", "cooling", "rerun"}

QueueTypeOK(waiters) == queue \in Seq(waiters)

BoundsTypeOK == now \in Nat /\ faults \in Nat /\ outside \in Nat /\ restarts \in Nat

CoreTypeOK == MatrixTypeOK /\ MemoryTypeOK /\ LoopTypeOK /\ BoundsTypeOK

TypeOK == CoreTypeOK /\ QueueTypeOK(Tasks \cup Polls)
=============================================================================
