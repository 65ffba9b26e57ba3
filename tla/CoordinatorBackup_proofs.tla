----------------------- MODULE CoordinatorBackup_proofs -----------------------
(***************************************************************************)
(* Proofs about the backup and what is said of it: the drift on show is    *)
(* what a comparison would say, what a caller was told is done stays done  *)
(* on disk, and the backup says of it what the matrix says.                *)
(***************************************************************************)
EXTENDS Coordinator_proofs

----------------------------------------------------------------------------
NameDrifted(k) == backup[k] # None /\ data.names[k] # backup[k].name

EdidDrifted(i) == edidBackup[i] # None /\ data.edids[i] # edidBackup[i]

\* DriftCurrent alone is not inductive: a rename of a slot that is not backed
\* up ends without a save, and only the second half of this says that nothing
\* was left on show for the slot while it was excepted.
SlotDriftOK(k) ==
    /\ k \in drift.presets => backup[k] # None
    /\ ~Renaming(k) => (k \in drift.presets <=> NameDrifted(k))

InputDriftOK(i) ==
    /\ i \in drift.edids => edidBackup[i] # None
    /\ ~ChangingEdid(i) => (i \in drift.edids <=> EdidDrifted(i))

DriftInv ==
    \/ SavingBackup
    \/ (\A k \in Slots : SlotDriftOK(k)) /\ (\A i \in Inputs : InputDriftOK(i))

LEMMA DriftOf ==
    ASSUME NEW s, NEW presets, NEW edids
    PROVE  /\ \A k \in Slots : k \in BackupDrift(s, presets, edids).presets
                  <=> presets[k] # None /\ s.names[k] # presets[k].name
           /\ \A i \in Inputs : i \in BackupDrift(s, presets, edids).edids
                  <=> edids[i] # None /\ s.edids[i] # edids[i]
  BY DEF BackupDrift

LEMMA DriftInvSuffices == DriftInv => DriftCurrent
  BY DriftOf
  DEF DriftInv, DriftCurrent, SlotDriftOK, InputDriftOK, NameDrifted, EdidDrifted

\* A drift just computed is right.
LEMMA FreshDrift ==
    ASSUME drift = BackupDrift(data, backup, edidBackup) PROVE DriftInv
  BY DriftOf DEF DriftInv, SlotDriftOK, InputDriftOK, NameDrifted, EdidDrifted

LEMMA FreshDriftNext ==
    ASSUME drift' = BackupDrift(data', backup', edidBackup') PROVE DriftInv'
<1>1. /\ \A k \in Slots : k \in drift'.presets
            <=> backup'[k] # None /\ data'.names[k] # backup'[k].name
      /\ \A i \in Inputs : i \in drift'.edids
            <=> edidBackup'[i] # None /\ data'.edids[i] # edidBackup'[i]
  BY DriftOf
<1> QED
  BY <1>1 DEF DriftInv, SlotDriftOK, InputDriftOK, NameDrifted, EdidDrifted

\* What a step that leaves backup and drift alone may do to a slot: change
\* the name on show only while it is excepted, or not backed up.
SlotKept(k) ==
    \/ backup[k] = None
    \/ Renaming(k)'
    \/ ~Renaming(k) /\ data'.names[k] = data.names[k]

InputKept(i) ==
    \/ edidBackup[i] = None
    \/ ChangingEdid(i)'
    \/ ~ChangingEdid(i) /\ data'.edids[i] = data.edids[i]

LEMMA DriftKept ==
    ASSUME DriftInv, UNCHANGED <<backup, edidBackup, drift>>,
           SavingBackup => SavingBackup',
           \A k \in Slots : SlotKept(k), \A i \in Inputs : InputKept(i)
    PROVE  DriftInv'
<1>1. CASE SavingBackup
  BY <1>1 DEF DriftInv
<1>2. CASE ~SavingBackup
  <2>1. \A k \in Slots : SlotDriftOK(k)'
    BY <1>2 DEF DriftInv, SlotDriftOK, NameDrifted, SlotKept
  <2>2. \A i \in Inputs : InputDriftOK(i)'
    BY <1>2 DEF DriftInv, InputDriftOK, EdidDrifted, InputKept
  <2> QED
    BY <2>1, <2>2 DEF DriftInv
<1> QED
  BY <1>1, <1>2

\* In particular a step of nobody's write that leaves names and EDIDs alone.
LEMMA DriftUntouched ==
    ASSUME DriftInv, UNCHANGED <<backup, edidBackup, drift, task>>,
           data'.names = data.names, data'.edids = data.edids
    PROVE  DriftInv'
<1>1. /\ SavingBackup' <=> SavingBackup
      /\ \A k : Renaming(k)' <=> Renaming(k)
      /\ \A i : ChangingEdid(i)' <=> ChangingEdid(i)
  BY DEF SavingBackup, Renaming, ChangingEdid
<1> QED
  BY <1>1, DriftKept DEF SlotKept, InputKept

----------------------------------------------------------------------------
(* The steps of the callers.                                               *)

LEMMA WrittenElsewhere ==
    ASSUME NEW s \in State, NEW r \in Request
    PROVE  /\ \A k \in Slots : ~(r.kind = "rename" /\ r.port = k) =>
                                  Written(s, r).names[k] = s.names[k]
           /\ \A i \in Inputs : ~(r.kind = "edid" /\ r.port = i) =>
                                  Written(s, r).edids[i] = s.edids[i]
<1> USE DEF State, Request, Written
<1>1. CASE r.kind = "rename"
  BY <1>1
<1>2. CASE r.kind = "edid"
  BY <1>2
<1>3. CASE r.kind \in {"power", "route", "setting"}
  BY <1>3
<1>4. CASE r.kind \in {"save", "clear", "recall", "command"}
  BY <1>4
<1> QED
  BY <1>1, <1>2, <1>3, <1>4

\* What a change of one caller's record does to the exceptions.
LEMMA OneCallerMoves ==
    ASSUME CoreTypeOK, NEW t \in Tasks, NEW pc, task' = [task EXCEPT ![t].pc = pc]
    PROVE  /\ task'[t].pc = pc /\ task'[t].req = task[t].req
           /\ \A u \in Tasks \ {t} : task'[u] = task[u]
  BY DEF CoreTypeOK, LoopTypeOK

LEMMA FollowUpKeepsDrift ==
    ASSUME CoreTypeOK, DriftInv, NEW t \in Tasks, FollowUp(t), drift' = drift,
           task[t].pc \in {"sending", "refreshing"},
           data' \in {data, Written(data, task[t].req)},
           task[t].pc = "refreshing" => data' = data
    PROVE  DriftInv'
<1> DEFINE r == task[t].req
<1>1. r \in Request /\ data \in State /\ backup \in Presets /\ edidBackup \in EdidBackup
  BY DEF CoreTypeOK, LoopTypeOK, MemoryTypeOK
<1>2. CASE Persists(r, backup, edidBackup) /\ r.kind # "recall"
  <2>1. task' = [task EXCEPT ![t].pc = "saving"]
    BY <1>2 DEF FollowUp
  <2>2. SavingBackup'
    BY <1>2, <2>1, OneCallerMoves DEF SavingBackup
  <2> QED
    BY <2>2 DEF DriftInv
<1>3. CASE ~(Persists(r, backup, edidBackup) /\ r.kind # "recall")
  <2>1. PICK pc \in {"saving", "done"} : task' = [task EXCEPT ![t].pc = pc]
    BY DEF FollowUp
  <2>2. /\ task'[t].pc = pc /\ task'[t].req = r
        /\ \A u \in Tasks \ {t} : task'[u] = task[u]
    BY <2>1, OneCallerMoves
  <2>3. backup' = backup /\ edidBackup' = edidBackup
    <3>1. CASE r.kind = "recall"
      BY <3>1 DEF FollowUp, BackupAfter, EdidsAfter
    <3>2. CASE r.kind # "recall"
      BY <1>1, <1>3, <3>2, NothingToPersist DEF FollowUp
    <3> QED
      BY <3>1, <3>2
  <2>4. SavingBackup => SavingBackup'
    BY <2>2 DEF SavingBackup
  <2>5. ASSUME NEW k \in Slots PROVE SlotKept(k)
    <3>1. CASE r.kind = "rename" /\ r.port = k
      BY <1>3, <3>1 DEF Persists, SlotKept
    <3>2. CASE ~(r.kind = "rename" /\ r.port = k)
      <4>1. Renaming(k)' <=> Renaming(k)
        BY <2>2, <3>2 DEF Renaming
      <4>2. data'.names[k] = data.names[k]
        BY <1>1, <3>2, WrittenElsewhere
      <4> QED
        BY <4>1, <4>2 DEF SlotKept
    <3> QED
      BY <3>1, <3>2
  <2>6. ASSUME NEW i \in Inputs PROVE InputKept(i)
    <3>1. CASE r.kind = "edid" /\ r.port = i
      BY <1>3, <3>1 DEF Persists, InputKept
    <3>2. CASE ~(r.kind = "edid" /\ r.port = i)
      <4>1. ChangingEdid(i)' <=> ChangingEdid(i)
        BY <2>2, <3>2 DEF ChangingEdid
      <4>2. data'.edids[i] = data.edids[i]
        BY <1>1, <3>2, WrittenElsewhere
      <4> QED
        BY <4>1, <4>2 DEF InputKept
    <3> QED
      BY <3>1, <3>2
  <2> QED
    BY <2>3, <2>4, <2>5, <2>6, DriftKept
<1> QED
  BY <1>2, <1>3

LEMMA CallerKeepsDrift ==
    ASSUME CoreTypeOK, DriftInv, NEW t \in Tasks, Caller(t)
    PROVE  DriftInv'
<1>1. ASSUME UNCHANGED <<data, backup, edidBackup, drift>>,
             task[t].pc \in {"idle", "sending"}, task'[t].pc \in {"sending", "failed", "refused"},
             \A u \in Tasks \ {t} : task'[u] = task[u]
      PROVE  DriftInv'
  <2>1. /\ SavingBackup => SavingBackup'
        /\ \A k : Renaming(k)' <=> Renaming(k)
        /\ \A i : ChangingEdid(i)' <=> ChangingEdid(i)
    BY <1>1 DEF SavingBackup, Renaming, ChangingEdid
  <2> QED
    BY <1>1, <2>1, DriftKept DEF SlotKept, InputKept
<1>2. ASSUME NEW r \in Requests, Submit(t, r) \/ SubmitRecall(t, r) \/ RefuseRecall(t, r)
      PROVE  DriftInv'
  <2>1. /\ UNCHANGED <<data, backup, edidBackup, drift>> /\ task[t].pc = "idle"
        /\ \E pc \in {"sending", "refused"} :
               task' = [task EXCEPT ![t] = [pc |-> pc, req |-> r, at |-> now]]
    BY <1>2 DEF Submit, SubmitRecall, RefuseRecall, Begin, memory, backupVars
  <2>2. /\ task'[t].pc \in {"sending", "refused"}
        /\ \A u \in Tasks \ {t} : task'[u] = task[u]
    BY <2>1 DEF CoreTypeOK, LoopTypeOK
  <2> QED
    BY <1>1, <2>1, <2>2
<1>3. CASE Deliver(t)
  <2>1. /\ drift' = drift /\ task[t].pc = "sending" /\ data' = Written(data, task[t].req)
    BY <1>3 DEF Deliver, Reflect
  <2>2. CASE RefreshLater(t)
    BY <2>1, <2>2, FollowUpKeepsDrift DEF RefreshLater
  <2>3. CASE RefreshNow(t)
    <3>1. /\ UNCHANGED <<backup, edidBackup>>
          /\ task' = [task EXCEPT ![t].pc = "refreshing"]
      BY <2>3 DEF RefreshNow, backupVars
    <3>2. /\ task'[t].pc = "refreshing" /\ task'[t].req = task[t].req
          /\ \A u \in Tasks \ {t} : task'[u] = task[u]
      BY <3>1, OneCallerMoves
    <3>3. task[t].req \in Request /\ data \in State
      BY DEF CoreTypeOK, LoopTypeOK, MemoryTypeOK
    <3>4. SavingBackup => SavingBackup'
      BY <2>1, <3>2 DEF SavingBackup
    <3>5. ASSUME NEW k \in Slots PROVE SlotKept(k)
      <4>1. CASE task[t].req.kind = "rename" /\ task[t].req.port = k
        BY <3>2, <4>1 DEF SlotKept, Renaming
      <4>2. CASE ~(task[t].req.kind = "rename" /\ task[t].req.port = k)
        <5>1. data'.names[k] = data.names[k]
          BY <2>1, <3>3, <4>2, WrittenElsewhere
        <5>2. Renaming(k)' <=> Renaming(k)
          BY <2>1, <3>2, <4>2 DEF Renaming
        <5> QED
          BY <5>1, <5>2 DEF SlotKept
      <4> QED
        BY <4>1, <4>2
    <3>6. ASSUME NEW i \in Inputs PROVE InputKept(i)
      <4>1. CASE task[t].req.kind = "edid" /\ task[t].req.port = i
        BY <3>2, <4>1 DEF InputKept, ChangingEdid
      <4>2. CASE ~(task[t].req.kind = "edid" /\ task[t].req.port = i)
        <5>1. data'.edids[i] = data.edids[i]
          BY <2>1, <3>3, <4>2, WrittenElsewhere
        <5>2. ChangingEdid(i)' <=> ChangingEdid(i)
          BY <2>1, <3>2, <4>2 DEF ChangingEdid
        <5> QED
          BY <5>1, <5>2 DEF InputKept
      <4> QED
        BY <4>1, <4>2
    <3> QED
      BY <2>1, <3>1, <3>4, <3>5, <3>6, DriftKept
  <2> QED
    BY <1>3, <2>2, <2>3 DEF Deliver
<1>4. ASSUME NEW executed \in BOOLEAN, Fail(t, executed) PROVE DriftInv'
  <2>1. /\ UNCHANGED <<data, backup, edidBackup, drift>> /\ task[t].pc = "sending"
        /\ task' = [task EXCEPT ![t].pc = "failed"]
    BY <1>4 DEF Fail, backupVars
  <2> QED
    BY <1>1, <2>1, OneCallerMoves
<1>5. CASE Resume(t)
  <2>1. FollowUp(t) /\ drift' = drift /\ data' = data /\ task[t].pc = "refreshing"
    BY <1>5 DEF Resume, Resuming
  <2> QED
    BY <2>1, FollowUpKeepsDrift
<1>6. CASE StoreWrite(t)
  <2>1. CASE task[t].req.kind # "recall"
    <3>1. drift' = BackupDrift(data', backup', edidBackup')
      BY <1>6, <2>1 DEF StoreWrite, DriftAfterSave
    <3> QED
      BY <3>1, FreshDriftNext
  <2>2. CASE task[t].req.kind = "recall"
    <3>1. /\ UNCHANGED <<data, backup, edidBackup, drift>> /\ task[t].pc = "saving"
          /\ task' = [task EXCEPT ![t].pc = "done"]
      BY <1>6, <2>2 DEF StoreWrite, DriftAfterSave
    <3>2. /\ task'[t].pc = "done" /\ task'[t].req = task[t].req
          /\ \A u \in Tasks \ {t} : task'[u] = task[u]
      BY <3>1, OneCallerMoves
    <3>3. /\ SavingBackup => SavingBackup'
          /\ \A k : Renaming(k)' <=> Renaming(k)
          /\ \A i : ChangingEdid(i)' <=> ChangingEdid(i)
      BY <2>2, <3>1, <3>2 DEF SavingBackup, Renaming, ChangingEdid
    <3> QED
      BY <3>1, <3>3, DriftKept DEF SlotKept, InputKept
  <2> QED
    BY <2>1, <2>2
<1> QED
  BY <1>2, <1>3, <1>4, <1>5, <1>6 DEF Caller

----------------------------------------------------------------------------
LEMMA NextKeepsDrift == ASSUME CoreTypeOK, DriftInv, [Next]_vars PROVE DriftInv'
<1>1. CASE \E t \in Tasks : Caller(t)
  BY <1>1, CallerKeepsDrift
<1>2. ASSUME NEW p \in Polls, PollFinish(p) PROVE DriftInv'
  <2>1. drift' = BackupDrift(data', backup', edidBackup')
    BY <1>2 DEF PollFinish, backupVars
  <2> QED
    BY <2>1, FreshDriftNext
<1>3. ASSUME NEW p \in Polls, PollBlank(p) PROVE DriftInv'
  <2>1. /\ UNCHANGED <<backup, edidBackup, drift, task>>
        /\ data'.names = data.names /\ data'.edids = data.edids
    BY <1>3 DEF PollBlank, backupVars, CoreTypeOK, MemoryTypeOK, State
  <2> QED
    BY <2>1, DriftUntouched
<1>4. ASSUME NEW p \in Polls, PollRead(p) \/ PollStumble(p) \/ PollFail(p) PROVE DriftInv'
  BY <1>4, DriftUntouched DEF PollRead, PollStumble, PollFail, memory, backupVars
<1>5. CASE PollStart \/ Cooled \/ Rerun \/ RerunDone \/ Tick
  BY <1>5, DriftUntouched DEF PollStart, Cooled, Rerun, RerunDone, Tick, memory, backupVars
<1>6. CASE Matrix
  BY <1>6, DriftUntouched DEF Matrix, SettleOutput, Outside, Flash, memory, backupVars
<1>7. CASE Restart
  <2>1. drift' = BackupDrift(data', backup', edidBackup')
    BY <1>7 DEF Restart
  <2> QED
    BY <2>1, FreshDriftNext
<1>8. CASE UNCHANGED vars
  BY <1>8, DriftUntouched DEF vars, memory, backupVars
<1> QED
  BY <1>1, <1>2, <1>3, <1>4, <1>5, <1>6, <1>7, <1>8 DEF Next, Poller

(***************************************************************************)
(* The drift sensors say what a comparison would say, for any matrix, any  *)
(* number of callers and however their renames, EDID changes and saves     *)
(* overlap, apart from the windows coordinator.py leaves open.             *)
(***************************************************************************)
THEOREM DriftIsShown == Spec => []DriftCurrent
<1>1. Init => DriftInv
  <2> SUFFICES ASSUME Init PROVE DriftInv
    OBVIOUS
  <2>1. drift = BackupDrift(data, backup, edidBackup)
    BY DEF Init
  <2> QED
    BY <2>1, FreshDrift
<1>2. CoreTypeOK /\ DriftInv /\ [Next]_vars => DriftInv'
  BY NextKeepsDrift
<1> QED
  BY <1>1, <1>2, DriftInvSuffices, CoreTyping, PTL DEF Spec
----------------------------------------------------------------------------
(***************************************************************************)
(* The cells of the backup: one per slot and one per input, each with the  *)
(* callers that write it, what memory holds and what the disk holds.  They *)
(* all follow one discipline, stated here for any of them.                 *)
(***************************************************************************)
Early == {"sending", "refreshing"}
Late == {"saving", "done"}

\* Until a writer of the cell has followed up, the disk has what memory has;
\* a sole writer that followed up left a good value in memory, and one that
\* is done a good value on disk.
Cell(tasks, who, mem, dsk, good) ==
    /\ (\A u \in who : tasks[u].pc \in Early) => dsk = mem
    /\ \A t \in who : who = {t} =>
         /\ tasks[t].pc \in Late => mem \in good[t]
         /\ tasks[t].pc = "done" => dsk \in good[t]

\* The writers of a cell move on, none of them by a follow-up.
LEMMA CellOnward ==
    ASSUME NEW old, NEW new, NEW who, NEW more, NEW mem, NEW dsk, NEW good, NEW better,
           Cell(old, who, mem, dsk, good), who \subseteq more,
           \A u \in who : /\ new[u].pc \in Early => old[u].pc \in Early
                          /\ new[u].pc \in Late => new[u].pc = old[u].pc
                          /\ who = {u} /\ old[u].pc \in Late => good[u] \subseteq better[u],
           \A u \in more \ who : new[u].pc \notin Late
    PROVE  Cell(new, more, mem, dsk, better)
<1>1. (\A u \in more : new[u].pc \in Early) => dsk = mem
  BY DEF Cell
<1>2. ASSUME NEW t \in more, more = {t}, new[t].pc \in Late
      PROVE  /\ mem \in better[t]
             /\ new[t].pc = "done" => dsk \in better[t]
  <2>1. who = {t}
    BY <1>2
  <2> QED
    BY <1>2, <2>1 DEF Cell, Late
<1> QED
  BY <1>1, <1>2 DEF Cell, Late

\* One of them follows up.
LEMMA CellFollowUp ==
    ASSUME NEW old, NEW new, NEW who, NEW more, NEW mem, NEW fresh, NEW dsk,
           NEW good, NEW better,
           Cell(old, who, mem, dsk, good), who \subseteq more, NEW t \in who,
           old[t].pc \in Early, new[t].pc \in Late,
           who = {t} => fresh \in better[t], new[t].pc = "done" => fresh = mem
    PROVE  Cell(new, more, fresh, dsk, better)
<1>1. ~(\A u \in more : new[u].pc \in Early)
  BY DEF Early, Late
<1>2. ASSUME more = {t}, new[t].pc = "done" PROVE dsk \in better[t]
  BY <1>2 DEF Cell
<1> QED
  BY <1>1, <1>2 DEF Cell

\* The store writes what memory holds: a saver is done.
LEMMA CellWritten ==
    ASSUME NEW old, NEW new, NEW who, NEW more, NEW mem, NEW dsk, NEW good, NEW better,
           Cell(old, who, mem, dsk, good), who \subseteq more,
           \A u \in who : /\ new[u].pc \in Late => old[u].pc \in Late
                          /\ who = {u} /\ old[u].pc \in Late => good[u] \subseteq better[u],
           \A u \in more \ who : new[u].pc \notin Late
    PROVE  Cell(new, more, mem, mem, better)
<1>1. ASSUME NEW t \in more, more = {t}, new[t].pc \in Late PROVE mem \in better[t]
  <2>1. who = {t}
    BY <1>1
  <2> QED
    BY <1>1, <2>1 DEF Cell
<1> QED
  BY <1>1 DEF Cell, Late

\* Memory is loaded from disk.
LEMMA CellLoaded ==
    ASSUME NEW old, NEW new, NEW who, NEW more, NEW mem, NEW dsk, NEW good, NEW better,
           Cell(old, who, mem, dsk, good), who \subseteq more,
           \A u \in who : /\ new[u].pc \in Late => new[u].pc = "done" /\ old[u].pc = "done"
                          /\ who = {u} /\ old[u].pc \in Late => good[u] \subseteq better[u],
           \A u \in more \ who : new[u].pc \notin Late
    PROVE  Cell(new, more, dsk, dsk, better)
<1>1. ASSUME NEW t \in more, more = {t}, new[t].pc \in Late PROVE dsk \in better[t]
  <2>1. who = {t}
    BY <1>1
  <2> QED
    BY <1>1, <2>1 DEF Cell, Late
<1> QED
  BY <1>1 DEF Cell, Late

----------------------------------------------------------------------------
(* The callers that write a slot or an input, and how they move.           *)

Wrote(u) == task[u].pc \notin {"idle", "refused"}

SlotWriters(k) ==
    {u \in Tasks : /\ Wrote(u)
                   /\ task[u].req.kind \in {"rename", "save", "clear"}
                   /\ task[u].req.port = k}

InputWriters(i) ==
    {u \in Tasks : Wrote(u) /\ task[u].req.kind = "edid" /\ task[u].req.port = i}

\* A step of a caller, or of nobody, that is no follow-up and no save.
Onward(u) ==
    \/ task'[u] = task[u]
    \/ task[u].pc = "idle" /\ task'[u].pc \in {"sending", "refused"}
    \/ /\ task[u].pc = "sending" /\ task'[u].pc \in {"refreshing", "failed"}
       /\ task'[u].req = task[u].req

Advances(t, pc) ==
    /\ task'[t].pc = pc /\ task'[t].req = task[t].req
    /\ \A u \in Tasks \ {t} : task'[u] = task[u]

\* The steps of the specification, as the cells see them.
QuietStep ==
    /\ UNCHANGED <<backup, edidBackup>>
    /\ disk'.presets = disk.presets /\ disk'.edids = disk.edids
    /\ \A u \in Tasks : Onward(u)

FollowUpStep(t) ==
    /\ FollowUp(t) /\ disk' = disk
    /\ task[t].pc \in Early
    /\ \/ /\ task[t].pc = "sending" /\ data' = Written(data, task[t].req)
          /\ device' = Written(device, task[t].req)
       \/ task[t].pc = "refreshing" /\ UNCHANGED <<data, device>>
    /\ \E pc \in Late : Advances(t, pc)

SaveStep(t) ==
    /\ UNCHANGED <<backup, edidBackup>>
    /\ disk'.presets = backup /\ disk'.edids = edidBackup
    /\ task[t].pc = "saving" /\ Advances(t, "done")

LoadStep ==
    /\ backup' = disk.presets /\ edidBackup' = disk.edids
    /\ disk'.presets = disk.presets /\ disk'.edids = disk.edids
    /\ \A u \in Tasks : \/ task'[u] = task[u] /\ task[u].pc \notin Early \cup {"saving"}
                        \/ /\ task[u].pc \in Early \cup {"saving"}
                           /\ task'[u].pc = "killed" /\ task'[u].req = task[u].req

LEMMA CallerSteps ==
    ASSUME CoreTypeOK, NEW saved, InStore(saved), NEW t \in Tasks, Caller(t)
    PROVE  QuietStep \/ FollowUpStep(t) \/ SaveStep(t)
<1>1. ASSUME NEW r \in Requests, Submit(t, r) \/ SubmitRecall(t, r) \/ RefuseRecall(t, r)
      PROVE  QuietStep
  <2>1. /\ UNCHANGED <<backup, edidBackup, disk>> /\ task[t].pc = "idle"
        /\ \E pc \in {"sending", "refused"} :
               task' = [task EXCEPT ![t] = [pc |-> pc, req |-> r, at |-> now]]
    BY <1>1 DEF Submit, SubmitRecall, RefuseRecall, Begin, memory, backupVars
  <2>2. \A u \in Tasks : Onward(u)
    BY <2>1 DEF CoreTypeOK, LoopTypeOK, Onward
  <2> QED
    BY <2>1, <2>2 DEF QuietStep
<1>2. CASE Deliver(t)
  <2>1. /\ disk' = disk /\ task[t].pc = "sending" /\ data' = Written(data, task[t].req)
        /\ device' = Written(device, task[t].req)
    BY <1>2 DEF Deliver, Reflect, Execute
  <2>2. CASE RefreshNow(t)
    <3>1. UNCHANGED <<backup, edidBackup>> /\ task' = [task EXCEPT ![t].pc = "refreshing"]
      BY <2>2 DEF RefreshNow, backupVars
    <3>2. \A u \in Tasks : Onward(u)
      BY <2>1, <3>1, OneCallerMoves DEF Onward
    <3> QED
      BY <2>1, <3>1, <3>2 DEF QuietStep
  <2>3. CASE RefreshLater(t)
    <3>1. FollowUp(t)
      BY <2>3 DEF RefreshLater
    <3>2. PICK pc \in Late : task' = [task EXCEPT ![t].pc = pc]
      BY <3>1 DEF FollowUp, Late
    <3> QED
      BY <2>1, <3>1, <3>2, OneCallerMoves DEF FollowUpStep, Advances, Early
  <2> QED
    BY <1>2, <2>2, <2>3 DEF Deliver
<1>3. ASSUME NEW executed \in BOOLEAN, Fail(t, executed) PROVE QuietStep
  <2>1. /\ UNCHANGED <<backup, edidBackup, disk>> /\ task[t].pc = "sending"
        /\ task' = [task EXCEPT ![t].pc = "failed"]
    BY <1>3 DEF Fail, backupVars
  <2>2. \A u \in Tasks : Onward(u)
    BY <2>1, OneCallerMoves DEF Onward
  <2> QED
    BY <2>1, <2>2 DEF QuietStep
<1>4. CASE Resume(t)
  <2>1. /\ FollowUp(t) /\ disk' = disk /\ UNCHANGED <<data, device>>
        /\ task[t].pc = "refreshing"
    BY <1>4 DEF Resume, Resuming, matrixVars
  <2>2. PICK pc \in Late : task' = [task EXCEPT ![t].pc = pc]
    BY <2>1 DEF FollowUp, Late
  <2> QED
    BY <2>1, <2>2, OneCallerMoves DEF FollowUpStep, Advances, Early
<1>5. CASE StoreWrite(t)
  <2>1. disk'.presets = backup /\ disk'.edids = edidBackup
    <3>1. CASE pending = None
      BY <1>5, <3>1 DEF StoreWrite, InStore
    <3>2. CASE pending # None
      BY <1>5, <3>2 DEF StoreWrite, InStore
    <3> QED
      BY <3>1, <3>2
  <2>2. /\ UNCHANGED <<backup, edidBackup>> /\ task[t].pc = "saving"
        /\ task' = [task EXCEPT ![t].pc = "done"]
    BY <1>5 DEF StoreWrite
  <2> QED
    BY <2>1, <2>2, OneCallerMoves DEF SaveStep, Advances
<1> QED
  BY <1>1, <1>2, <1>3, <1>4, <1>5 DEF Caller

LEMMA StepsWithStore ==
    ASSUME CoreTypeOK, NEW saved, InStore(saved), [Next]_vars
    PROVE  \/ QuietStep \/ (Restart /\ LoadStep)
           \/ \E t \in Tasks : FollowUpStep(t) \/ SaveStep(t)
<1>1. CASE \E t \in Tasks : Caller(t)
  BY <1>1, CallerSteps
<1>2. CASE Restart
  <2>1. /\ backup' = disk.presets /\ edidBackup' = disk.edids
        /\ disk'.presets = disk.presets /\ disk'.edids = disk.edids
    BY <1>2 DEF Restart, CoreTypeOK, MemoryTypeOK, Stored
  <2>2. \A u \in Tasks : \/ task'[u] = task[u] /\ task[u].pc \notin Early \cup {"saving"}
                         \/ /\ task[u].pc \in Early \cup {"saving"}
                            /\ task'[u].pc = "killed" /\ task'[u].req = task[u].req
    BY <1>2 DEF Restart, CoreTypeOK, LoopTypeOK, Early
  <2> QED
    BY <1>2, <2>1, <2>2 DEF LoadStep
<1>3. ASSUME UNCHANGED <<backupVars, disk, task>> PROVE QuietStep
  BY <1>3 DEF QuietStep, Onward, backupVars
<1>4. ASSUME NEW p \in Polls, Poller(p) PROVE UNCHANGED <<backupVars, disk, task>>
  BY <1>4 DEF Poller, PollRead, PollFinish, PollBlank, PollStumble, PollFail, memory
<1>5. CASE PollStart \/ Cooled \/ Rerun \/ RerunDone \/ Tick
  BY <1>3, <1>5 DEF PollStart, Cooled, Rerun, RerunDone, Tick, memory
<1>6. CASE Matrix
  BY <1>3, <1>6 DEF Matrix, SettleOutput, Outside, Flash, memory
<1>7. CASE UNCHANGED vars
  BY <1>3, <1>7 DEF vars, memory
<1> QED
  BY <1>1, <1>2, <1>3, <1>4, <1>5, <1>6, <1>7 DEF Next

LEMMA StepsOfTheBackup ==
    ASSUME CoreTypeOK, DiskCurrent, [Next]_vars
    PROVE  \/ QuietStep \/ LoadStep
           \/ \E t \in Tasks : FollowUpStep(t) \/ SaveStep(t)
<1>1. InStore(FALSE)
  BY DEF InStore, DiskCurrent
<1> QED
  BY <1>1, StepsWithStore

\* A writer of a cell stays one, and a new one has just begun.
LEMMA WritersStay ==
    ASSUME \/ QuietStep \/ LoadStep
           \/ \E t \in Tasks : FollowUpStep(t) \/ SaveStep(t)
    PROVE  /\ \A u \in Tasks : Wrote(u) => Wrote(u)' /\ task'[u].req = task[u].req
           /\ \A u \in Tasks : ~Wrote(u) /\ Wrote(u)' => task'[u].pc = "sending"
<1>1. CASE QuietStep
  BY <1>1 DEF QuietStep, Onward, Wrote
<1>2. CASE LoadStep
  BY <1>2 DEF LoadStep, Wrote, Early
<1>3. ASSUME NEW t \in Tasks, NEW pc \in Late, task[t].pc \in Early \cup {"saving"}, Advances(t, pc)
      PROVE  \A u \in Tasks : (Wrote(u) <=> Wrote(u)') /\ task'[u].req = task[u].req
  BY <1>3 DEF Advances, Wrote, Early, Late
<1>4. CASE \E t \in Tasks : FollowUpStep(t) \/ SaveStep(t)
  BY <1>3, <1>4 DEF FollowUpStep, SaveStep, Late
<1> QED
  BY <1>1, <1>2, <1>4

\* What each step makes of a cell; a follow-up, of the cells it does not write.
LEMMA CellSteps ==
    ASSUME NEW who \in SUBSET Tasks, NEW more \in SUBSET Tasks, NEW mem, NEW dsk,
           NEW good, NEW better,
           Cell(task, who, mem, dsk, good), who \subseteq more,
           \A u \in who : /\ Wrote(u)
                          /\ who = {u} /\ task[u].pc \in Late => good[u] \subseteq better[u],
           \A u \in more \ who : task'[u].pc = "sending"
    PROVE  /\ QuietStep => Cell(task', more, mem, dsk, better)
           /\ LoadStep => Cell(task', more, dsk, dsk, better)
           /\ \A t \in Tasks : SaveStep(t) => Cell(task', more, mem, mem, better)
           /\ \A t \in Tasks \ who : FollowUpStep(t) => Cell(task', more, mem, dsk, better)
<1>1. \A u \in more \ who : task'[u].pc \notin Late
  BY DEF Late
<1>2. ASSUME QuietStep PROVE Cell(task', more, mem, dsk, better)
  <2>1. \A u \in who : /\ task'[u].pc \in Early => task[u].pc \in Early
                       /\ task'[u].pc \in Late => task'[u].pc = task[u].pc
    BY <1>2 DEF QuietStep, Onward, Wrote, Early, Late
  <2> QED
    BY <1>1, <2>1, CellOnward
<1>3. ASSUME LoadStep PROVE Cell(task', more, dsk, dsk, better)
  <2>1. \A u \in who : task'[u].pc \in Late => task'[u].pc = "done" /\ task[u].pc = "done"
    BY <1>3 DEF LoadStep, Late, Early
  <2> QED
    BY <1>1, <2>1, CellLoaded
<1>4. ASSUME NEW t \in Tasks, SaveStep(t) PROVE Cell(task', more, mem, mem, better)
  <2>1. \A u \in who : task'[u].pc \in Late => task[u].pc \in Late
    BY <1>4 DEF SaveStep, Advances, Late
  <2> QED
    BY <1>1, <2>1, CellWritten
<1>5. ASSUME NEW t \in Tasks \ who, FollowUpStep(t) PROVE Cell(task', more, mem, dsk, better)
  <2>1. \A u \in who : task'[u] = task[u]
    BY <1>5 DEF FollowUpStep, Advances
  <2> QED
    BY <1>1, <2>1, CellOnward
<1> QED
  BY <1>2, <1>3, <1>4, <1>5

----------------------------------------------------------------------------
(* What a request leaves in the backup.                                    *)

Fits(r) ==
    IF r.kind = "edid" THEN {None, r.value}
    ELSE {e \in Entry \cup {None} :
             /\ r.kind = "save" => e # None
             /\ r.kind = "clear" => e = None
             /\ r.kind = "rename" /\ e # None => e.name = r.value}

LEMMA FitsSlot ==
    ASSUME NEW r, r.kind # "edid", NEW e \in Fits(r)
    PROVE  /\ r.kind = "save" => e # None
           /\ r.kind = "clear" => e = None
           /\ r.kind = "rename" /\ e # None => e.name = r.value
  BY DEF Fits

Fitting(tasks) == [t \in Tasks |-> Fits(tasks[t].req)]

BackupHolds ==
    /\ \A k \in Slots : Cell(task, SlotWriters(k), backup[k], disk.presets[k], Fitting(task))
    /\ \A i \in Inputs : Cell(task, InputWriters(i), edidBackup[i], disk.edids[i], Fitting(task))

\* The tail of a write reaches no other cell, fits its request, and changes
\* nothing where there is nothing to save.
LEMMA FollowUpCells ==
    ASSUME CoreTypeOK, NEW t \in Tasks, FollowUpStep(t)
    PROVE  /\ \A k \in Slots : t \notin SlotWriters(k) => backup'[k] = backup[k]
           /\ \A i \in Inputs : t \notin InputWriters(i) => edidBackup'[i] = edidBackup[i]
           /\ \A k \in Slots : t \in SlotWriters(k) =>
                 /\ backup'[k] \in Fits(task[t].req)
                 /\ task[t].req.kind = "save" => backup'[k].name = data'.names[k]
           /\ \A i \in Inputs : t \in InputWriters(i) => edidBackup'[i] \in Fits(task[t].req)
           /\ task'[t].pc = "done" => backup' = backup /\ edidBackup' = edidBackup
<1> DEFINE r == task[t].req
<1>1. /\ r \in Request /\ data \in State /\ backup \in Presets /\ edidBackup \in EdidBackup
      /\ task \in [Tasks -> [pc : TaskStates, req : Request, at : Nat]]
  BY DEF CoreTypeOK, LoopTypeOK, MemoryTypeOK
<1>2. /\ backup' = BackupAfter(r, data', backup) /\ edidBackup' = EdidsAfter(r, edidBackup)
      /\ data' \in State /\ Wrote(t)
  BY <1>1, WrittenType DEF FollowUpStep, FollowUp, Wrote, Early
<1>3. backup' \in Presets /\ edidBackup' \in EdidBackup
  BY <1>1, <1>2, BackupAfterType, EdidsAfterType
<1>4. ASSUME NEW k \in Slots, t \notin SlotWriters(k) PROVE backup'[k] = backup[k]
  <2>1. ~(r.kind \in {"rename", "save", "clear"} /\ r.port = k)
    BY <1>2, <1>4 DEF SlotWriters
  <2> QED
    BY <1>1, <1>2, <2>1 DEF BackupAfter, Presets
<1>5. ASSUME NEW i \in Inputs, t \notin InputWriters(i) PROVE edidBackup'[i] = edidBackup[i]
  <2>1. ~(r.kind = "edid" /\ r.port = i)
    BY <1>2, <1>5 DEF InputWriters
  <2> QED
    BY <1>1, <1>2, <2>1 DEF EdidsAfter, EdidBackup
<1>6. ASSUME NEW k \in Slots, t \in SlotWriters(k)
      PROVE  /\ backup'[k] \in Fits(r)
             /\ r.kind = "save" => backup'[k].name = data'.names[k]
  <2>1. r.port = k /\ backup'[k] \in Entry \cup {None}
    BY <1>3, <1>6 DEF SlotWriters, Presets
  <2>2. CASE r.kind = "save"
    <3>1. backup'[k] = [name |-> data'.names[k], routes |-> data'.routes]
      BY <1>1, <1>2, <2>1, <2>2 DEF BackupAfter, Presets
    <3>2. backup'[k] # None
      BY <1>2, <3>1, NoneAssumption DEF NoneAssumption, Entry, State, Routing, Table
    <3> QED
      BY <2>1, <2>2, <3>1, <3>2 DEF Fits
  <2>3. CASE r.kind = "clear"
    BY <1>1, <1>2, <2>1, <2>3 DEF BackupAfter, Presets, Fits
  <2>4. CASE r.kind = "rename"
    <3>1. CASE backup[k] = None
      BY <1>2, <2>1, <2>4, <3>1 DEF BackupAfter, Fits
    <3>2. CASE backup[k] # None
      <4>1. backup'[k] = [backup[k] EXCEPT !.name = r.value]
        BY <1>1, <1>2, <2>1, <2>4, <3>2 DEF BackupAfter, Presets
      <4>2. backup[k] \in Entry
        BY <1>1, <3>2 DEF Presets
      <4> QED
        BY <2>1, <2>4, <4>1, <4>2 DEF Fits, Entry
    <3> QED
      BY <3>1, <3>2
  <2> QED
    BY <1>6, <2>2, <2>3, <2>4 DEF SlotWriters
<1>7. ASSUME NEW i \in Inputs, t \in InputWriters(i) PROVE edidBackup'[i] \in Fits(r)
  BY <1>1, <1>2, <1>7 DEF InputWriters, EdidsAfter, EdidBackup, Fits
<1>8. ASSUME task'[t].pc = "done" PROVE backup' = backup /\ edidBackup' = edidBackup
  <2>1. ~Persists(r, backup, edidBackup)
    BY <1>1, <1>8 DEF FollowUpStep, FollowUp
  <2> QED
    BY <1>1, <1>2, <2>1, NothingToPersist
<1> QED
  BY <1>4, <1>5, <1>6, <1>7, <1>8

LEMMA StepKeepsBackup ==
    ASSUME CoreTypeOK, DiskCurrent, BackupHolds, [Next]_vars PROVE BackupHolds'
<1>1. \/ QuietStep \/ LoadStep
      \/ \E t \in Tasks : FollowUpStep(t) \/ SaveStep(t)
  BY StepsOfTheBackup
<1>2. /\ \A u \in Tasks : Wrote(u) => Wrote(u)' /\ task'[u].req = task[u].req
      /\ \A u \in Tasks : ~Wrote(u) /\ Wrote(u)' => task'[u].pc = "sending"
  BY <1>1, WritersStay
<1>3. ASSUME NEW k \in Slots
      PROVE  Cell(task', SlotWriters(k)', backup'[k], disk'.presets[k], Fitting(task'))
  <2> DEFINE who == SlotWriters(k)  more == SlotWriters(k)'
  <2>1. /\ who \in SUBSET Tasks /\ more \in SUBSET Tasks /\ who \subseteq more
        /\ \A u \in who : Wrote(u) /\ Fitting(task)[u] = Fitting(task')[u]
        /\ \A u \in more \ who : task'[u].pc = "sending"
    BY <1>2 DEF SlotWriters, Fitting
  <2>2. Cell(task, who, backup[k], disk.presets[k], Fitting(task))
    BY DEF BackupHolds
  <2> HIDE DEF who, more
  <2>3. /\ QuietStep => Cell(task', more, backup[k], disk.presets[k], Fitting(task'))
        /\ LoadStep => Cell(task', more, disk.presets[k], disk.presets[k], Fitting(task'))
        /\ \A t \in Tasks : SaveStep(t) =>
              Cell(task', more, backup[k], backup[k], Fitting(task'))
        /\ \A t \in Tasks \ who : FollowUpStep(t) =>
              Cell(task', more, backup[k], disk.presets[k], Fitting(task'))
    BY <2>1, <2>2, CellSteps
  <2>4. CASE QuietStep \/ LoadStep
    BY <2>3, <2>4 DEF QuietStep, LoadStep, more
  <2>5. ASSUME NEW t \in Tasks, SaveStep(t)
        PROVE  Cell(task', more, backup'[k], disk'.presets[k], Fitting(task'))
    BY <2>3, <2>5 DEF SaveStep
  <2>6. ASSUME NEW t \in Tasks, FollowUpStep(t)
        PROVE  Cell(task', more, backup'[k], disk'.presets[k], Fitting(task'))
    <3>1. CASE t \in who
      <4>1. /\ task[t].pc \in Early /\ task'[t].pc \in Late /\ disk' = disk
            /\ backup'[k] \in Fitting(task')[t]
            /\ task'[t].pc = "done" => backup'[k] = backup[k]
        BY <2>6, <3>1, FollowUpCells DEF FollowUpStep, Advances, Fitting, who
      <4> QED
        BY <2>1, <2>2, <3>1, <4>1, CellFollowUp
    <3>2. CASE t \notin who
      BY <2>3, <2>6, <3>2, FollowUpCells DEF FollowUpStep, who
    <3> QED
      BY <3>1, <3>2
  <2> QED
    BY <1>1, <2>4, <2>5, <2>6 DEF more
<1>4. ASSUME NEW i \in Inputs
      PROVE  Cell(task', InputWriters(i)', edidBackup'[i], disk'.edids[i], Fitting(task'))
  <2> DEFINE who == InputWriters(i)  more == InputWriters(i)'
  <2>1. /\ who \in SUBSET Tasks /\ more \in SUBSET Tasks /\ who \subseteq more
        /\ \A u \in who : Wrote(u) /\ Fitting(task)[u] = Fitting(task')[u]
        /\ \A u \in more \ who : task'[u].pc = "sending"
    BY <1>2 DEF InputWriters, Fitting
  <2>2. Cell(task, who, edidBackup[i], disk.edids[i], Fitting(task))
    BY DEF BackupHolds
  <2> HIDE DEF who, more
  <2>3. /\ QuietStep => Cell(task', more, edidBackup[i], disk.edids[i], Fitting(task'))
        /\ LoadStep => Cell(task', more, disk.edids[i], disk.edids[i], Fitting(task'))
        /\ \A t \in Tasks : SaveStep(t) =>
              Cell(task', more, edidBackup[i], edidBackup[i], Fitting(task'))
        /\ \A t \in Tasks \ who : FollowUpStep(t) =>
              Cell(task', more, edidBackup[i], disk.edids[i], Fitting(task'))
    BY <2>1, <2>2, CellSteps
  <2>4. CASE QuietStep \/ LoadStep
    BY <2>3, <2>4 DEF QuietStep, LoadStep, more
  <2>5. ASSUME NEW t \in Tasks, SaveStep(t)
        PROVE  Cell(task', more, edidBackup'[i], disk'.edids[i], Fitting(task'))
    BY <2>3, <2>5 DEF SaveStep
  <2>6. ASSUME NEW t \in Tasks, FollowUpStep(t)
        PROVE  Cell(task', more, edidBackup'[i], disk'.edids[i], Fitting(task'))
    <3>1. CASE t \in who
      <4>1. /\ task[t].pc \in Early /\ task'[t].pc \in Late /\ disk' = disk
            /\ edidBackup'[i] \in Fitting(task')[t]
            /\ task'[t].pc = "done" => edidBackup'[i] = edidBackup[i]
        BY <2>6, <3>1, FollowUpCells DEF FollowUpStep, Advances, Fitting, who
      <4> QED
        BY <2>1, <2>2, <3>1, <4>1, CellFollowUp
    <3>2. CASE t \notin who
      BY <2>3, <2>6, <3>2, FollowUpCells DEF FollowUpStep, who
    <3> QED
      BY <3>1, <3>2
  <2> QED
    BY <1>1, <2>4, <2>5, <2>6 DEF more
<1> QED
  BY <1>3, <1>4 DEF BackupHolds

(***************************************************************************)
(* What a caller was told is done survives on disk, across restarts too,   *)
(* for any number of callers whose saves, clears, renames and EDID changes *)
(* overlap, as long as nobody else wrote the same slot or input.           *)
(***************************************************************************)
THEOREM DoneIsDurable == Spec => []AcknowledgedIsDurable
<1>1. Init => BackupHolds
  BY DEF Init, BackupHolds, Cell, SlotWriters, InputWriters, Wrote
<1>2. CoreTypeOK /\ DiskCurrent /\ BackupHolds /\ [Next]_vars => BackupHolds'
  BY StepKeepsBackup
<1>3. CoreTypeOK /\ BackupHolds => AcknowledgedIsDurable
  <2> SUFFICES ASSUME CoreTypeOK, BackupHolds, NEW t \in Tasks, task[t].pc = "done", SoleToucher(t)
               PROVE  LET r == task[t].req IN
                      /\ r.kind = "save" => disk.presets[r.port] # None
                      /\ r.kind = "clear" => disk.presets[r.port] = None
                      /\ r.kind = "rename" /\ disk.presets[r.port] # None =>
                            disk.presets[r.port].name = r.value
                      /\ r.kind = "edid" => disk.edids[r.port] \in {None, r.value}
    BY DEF AcknowledgedIsDurable
  <2> DEFINE r == task[t].req
  <2>1. r \in Request /\ Wrote(t)
    BY DEF CoreTypeOK, LoopTypeOK, Wrote
  <2>2. CASE r.kind \in {"rename", "save", "clear"}
    <3>1. r.port \in Slots
      BY <2>1, <2>2 DEF Request
    <3>2. SlotWriters(r.port) = {t}
      BY <2>1, <2>2 DEF SlotWriters, SoleToucher, Touches, Wrote
    <3>3. disk.presets[r.port] \in Fits(r)
      BY <3>1, <3>2 DEF BackupHolds, Cell, Fitting
    <3>4. r.kind # "edid"
      BY <2>2
    <3> QED
      BY <3>3, <3>4, FitsSlot
  <2>3. CASE r.kind = "edid"
    <3>1. r.port \in Inputs
      BY <2>1, <2>3 DEF Request
    <3>2. InputWriters(r.port) = {t}
      BY <2>1, <2>3 DEF InputWriters, SoleToucher, Touches, Wrote
    <3>3. disk.edids[r.port] \in Fits(r)
      BY <3>1, <3>2 DEF BackupHolds, Cell, Fitting
    <3> QED
      BY <2>3, <3>3 DEF Fits
  <2> QED
    BY <2>2, <2>3
<1> QED
  BY <1>1, <1>2, <1>3, CoreTyping, BackupReachesDisk, PTL DEF Spec
----------------------------------------------------------------------------
(* The names and EDIDs of the matrix, as long as nobody else changes them. *)

Renamed(k) == \E t \in SlotWriters(k) : task[t].req.kind = "rename"

\* A name on show, or in a state being read, is the matrix's own unless
\* somebody has called to change it.
NamesRead ==
    \A k \in Slots : ~Renamed(k) =>
        /\ data.names[k] = device.names[k]
        /\ \A p \in Polls : poll[p].reading > 1 => poll[p].view.names[k] = device.names[k]

\* A sole writer that awaits its refresh has set the name or the EDID.
Carried ==
    /\ \A k \in Slots : \A t \in SlotWriters(k) :
          SlotWriters(k) = {t} /\ task[t].req.kind = "rename" /\ task[t].pc = "refreshing" =>
              device.names[k] = task[t].req.value
    /\ \A i \in Inputs : \A t \in InputWriters(i) :
          InputWriters(i) = {t} /\ task[t].pc = "refreshing" =>
              device.edids[i] = task[t].req.value

AgreeingSlot(tasks, name) ==
    [t \in Tasks |-> IF tasks[t].req.kind = "clear" THEN Entry \cup {None}
                     ELSE {e \in Entry \cup {None} : e # None => e.name = name}]

AgreeingInput(profile) == [t \in Tasks |-> {None, profile}]

BackupAgrees ==
    /\ \A k \in Slots : Cell(task, SlotWriters(k), backup[k], disk.presets[k],
                             AgreeingSlot(task, device.names[k]))
    /\ \A i \in Inputs : Cell(task, InputWriters(i), edidBackup[i], disk.edids[i],
                              AgreeingInput(device.edids[i]))

AgreeInv == outside = 0 => NamesRead /\ Carried /\ BackupAgrees

\* What the matrix's names and EDIDs do in a step of nobody from outside.
LEMMA CommandMoves ==
    ASSUME CoreTypeOK, NEW t \in Tasks, task[t].pc = "sending", Execute(task[t].req)
    PROVE  /\ device' = Written(device, task[t].req)
           /\ \A k \in Slots : ~(t \in SlotWriters(k) /\ task[t].req.kind = "rename") =>
                                  device'.names[k] = device.names[k]
           /\ \A i \in Inputs : t \notin InputWriters(i) => device'.edids[i] = device.edids[i]
<1>1. device \in State /\ task[t].req \in Request /\ Wrote(t)
  BY DEF CoreTypeOK, MatrixTypeOK, LoopTypeOK, Wrote
<1>2. device' = Written(device, task[t].req)
  BY DEF Execute
<1>3. ASSUME NEW k \in Slots, ~(t \in SlotWriters(k) /\ task[t].req.kind = "rename")
      PROVE  device'.names[k] = device.names[k]
  <2>1. ~(task[t].req.kind = "rename" /\ task[t].req.port = k)
    BY <1>1, <1>3 DEF SlotWriters
  <2> QED
    BY <1>1, <1>2, <2>1, WrittenElsewhere
<1>4. ASSUME NEW i \in Inputs, t \notin InputWriters(i)
      PROVE  device'.edids[i] = device.edids[i]
  <2>1. ~(task[t].req.kind = "edid" /\ task[t].req.port = i)
    BY <1>1, <1>4 DEF InputWriters
  <2> QED
    BY <1>1, <1>2, <2>1, WrittenElsewhere
<1> QED
  BY <1>2, <1>3, <1>4

DeviceMoves ==
    /\ \A k \in Slots : \/ device'.names[k] = device.names[k]
                        \/ \E t \in SlotWriters(k) : /\ task[t].pc = "sending"
                                                     /\ task[t].req.kind = "rename"
    /\ \A i \in Inputs : \/ device'.edids[i] = device.edids[i]
                         \/ \E t \in InputWriters(i) : task[t].pc = "sending"
    /\ \A t \in Tasks : task[t].pc # "refreshing" /\ task'[t].pc = "refreshing" =>
          task[t].pc = "sending" /\ device' = Written(device, task[t].req)

LEMMA DeviceSteps ==
    ASSUME CoreTypeOK, [Next]_vars, outside' = 0
    PROVE  outside = 0 /\ DeviceMoves
<1>1. ASSUME NEW t \in Tasks, Caller(t) PROVE outside' = outside /\ DeviceMoves
  <2>1. ASSUME NEW r \in Requests, Submit(t, r) \/ SubmitRecall(t, r) \/ RefuseRecall(t, r)
        PROVE  outside' = outside /\ DeviceMoves
    <3>1. /\ UNCHANGED <<device, outside>>
          /\ \E pc \in {"sending", "refused"} :
                 task' = [task EXCEPT ![t] = [pc |-> pc, req |-> r, at |-> now]]
      BY <2>1 DEF Submit, SubmitRecall, RefuseRecall, Begin, matrixVars, boundVars
    <3> QED
      BY <3>1 DEF CoreTypeOK, LoopTypeOK, DeviceMoves
  <2>2. CASE Deliver(t)
    <3>1. outside' = outside /\ task[t].pc = "sending" /\ Execute(task[t].req)
      BY <2>2 DEF Deliver, boundVars
    <3>2. \A u \in Tasks \ {t} : task'[u] = task[u]
      <4>1. \E pc \in {"refreshing"} \cup Late : task' = [task EXCEPT ![t].pc = pc]
        BY <2>2 DEF Deliver, RefreshNow, RefreshLater, FollowUp, Late
      <4> QED
        BY <4>1, OneCallerMoves
    <3> QED
      BY <3>1, <3>2, CommandMoves DEF DeviceMoves
  <2>3. ASSUME NEW executed \in BOOLEAN, Fail(t, executed) PROVE outside' = outside /\ DeviceMoves
    <3>1. /\ outside' = outside /\ task[t].pc = "sending"
          /\ Execute(task[t].req) \/ device' = device
          /\ task' = [task EXCEPT ![t].pc = "failed"]
      BY <2>3 DEF Fail, matrixVars
    <3>2. \A u \in Tasks : task'[u].pc = "refreshing" => task[u].pc = "refreshing"
      BY <3>1, OneCallerMoves
    <3> QED
      BY <3>1, <3>2, CommandMoves DEF DeviceMoves
  <2>4. CASE Resume(t) \/ StoreWrite(t)
    <3>1. /\ UNCHANGED <<device, outside>>
          /\ \E pc \in Late : task' = [task EXCEPT ![t].pc = pc]
      BY <2>4 DEF Resume, StoreWrite, FollowUp, Late, matrixVars, boundVars
    <3>2. \A u \in Tasks : task'[u].pc = "refreshing" => task[u].pc = "refreshing"
      BY <3>1, OneCallerMoves DEF Late
    <3> QED
      BY <3>1, <3>2 DEF DeviceMoves
  <2> QED
    BY <1>1, <2>1, <2>2, <2>3, <2>4 DEF Caller
<1>2. ASSUME UNCHANGED <<task, outside>>, device'.names = device.names, device'.edids = device.edids
      PROVE  outside' = outside /\ DeviceMoves
  BY <1>2 DEF DeviceMoves
<1>3. ASSUME NEW p \in Polls, Poller(p) PROVE UNCHANGED <<task, outside, device>>
  BY <1>3 DEF Poller, PollRead, PollFinish, PollBlank, PollStumble, PollFail, matrixVars, boundVars
<1>4. CASE PollStart \/ Cooled \/ Rerun \/ RerunDone \/ Tick \/ UNCHANGED vars
  BY <1>2, <1>4 DEF PollStart, Cooled, Rerun, RerunDone, Tick, vars, matrixVars, boundVars
<1>5. ASSUME NEW o \in Outputs, SettleOutput(o) PROVE outside' = outside /\ DeviceMoves
  <2>1. device'.names = device.names /\ device'.edids = device.edids /\ UNCHANGED <<task, outside>>
    BY <1>5 DEF SettleOutput, boundVars, CoreTypeOK, MatrixTypeOK, State
  <2> QED
    BY <1>2, <2>1
<1>6. CASE Flash \/ \E r \in OutsideRequests : Outside(r)
  BY <1>6 DEF Flash, Outside, CoreTypeOK, BoundsTypeOK
<1>7. CASE Restart
  <2>1. UNCHANGED <<device, outside>>
    BY <1>7 DEF Restart, matrixVars
  <2>2. \A u \in Tasks : task'[u].pc = "refreshing" => task[u].pc = "refreshing"
    BY <1>7 DEF Restart, CoreTypeOK, LoopTypeOK
  <2> QED
    BY <2>1, <2>2 DEF DeviceMoves
<1> QED
  BY <1>1, <1>2, <1>3, <1>4, <1>5, <1>6, <1>7 DEF Next, Matrix
\* What a poll has read of a name is what the matrix says, or stands.
LEMMA ReadName ==
    ASSUME NEW view, NEW table, NEW k
    PROVE  ReadTable(view, table).names[k] = IF table = "video" THEN device.names[k] ELSE view.names[k]
  BY DEF ReadTable

LEMMA PollerReads ==
    ASSUME CoreTypeOK, NamesRead, NEW p \in Polls, Poller(p)
    PROVE  NamesRead'
<1>1. /\ UNCHANGED <<device, task>>
      /\ \A k : Renamed(k)' <=> Renamed(k)
  BY DEF Poller, PollRead, PollFinish, PollBlank, PollStumble, PollFail, matrixVars,
         Renamed, SlotWriters, Wrote
<1>2. /\ data \in State /\ poll \in [Polls -> [reading : 0..Len(Reads), view : State]]
      /\ Len(Reads) \in Nat /\ Reads[1] = "video"
  BY ReadsAssumption DEF ReadsAssumption, CoreTypeOK, MemoryTypeOK, LoopTypeOK
<1>3. ASSUME NEW k \in Slots, ~Renamed(k), poll[p].reading >= 1
      PROVE  ReadTable(poll[p].view, Reads[poll[p].reading]).names[k] = device.names[k]
  <2>1. CASE poll[p].reading = 1
    BY <1>2, <2>1, ReadName
  <2>2. CASE poll[p].reading > 1
    BY <1>3, <2>2, ReadName DEF NamesRead
  <2> QED
    BY <1>2, <1>3, <2>1, <2>2
<1>4. CASE PollRead(p)
  <2>1. /\ data' = data /\ poll[p].reading >= 1
        /\ poll' = [poll EXCEPT ![p] = [reading |-> poll[p].reading + 1,
                        view |-> ReadTable(poll[p].view, Reads[poll[p].reading])]]
    BY <1>2, <1>4 DEF PollRead, memory
  <2>2. \A k \in Slots : ~Renamed(k) => poll'[p].view.names[k] = device.names[k]
    BY <1>2, <1>3, <2>1
  <2>3. \A q \in Polls \ {p} : poll'[q] = poll[q]
    BY <1>2, <2>1
  <2> QED
    BY <1>1, <2>1, <2>2, <2>3 DEF NamesRead
<1>5. ASSUME \A k \in Slots : ~Renamed(k) => data'.names[k] = device.names[k], PollOver(p)
      PROVE  NamesRead'
  <2>1. \A q \in Polls : poll'[q] = poll[q] \/ poll'[q].reading = 0
    BY <1>2, <1>5 DEF PollOver, NotPolling
  <2> QED
    BY <1>1, <1>5, <2>1 DEF NamesRead
<1>6. CASE PollFinish(p)
  <2>1. /\ data' = ReadTable(poll[p].view, Reads[poll[p].reading])
        /\ poll[p].reading >= 1 /\ PollOver(p)
    BY <1>2, <1>6, ReadsAssumption DEF PollFinish, ReadsAssumption
  <2> QED
    BY <1>3, <1>5, <2>1
<1>7. CASE PollBlank(p) \/ PollFail(p)
  <2>1. data'.names = data.names /\ PollOver(p)
    BY <1>2, <1>7 DEF PollBlank, PollFail, State
  <2> QED
    BY <1>5, <2>1 DEF NamesRead
<1>8. CASE PollStumble(p)
  BY <1>1, <1>8 DEF PollStumble, NamesRead, memory, pollVars
<1> QED
  BY <1>4, <1>6, <1>7, <1>8 DEF Poller

LEMMA StepKeepsNames ==
    ASSUME CoreTypeOK, CoreTypeOK', DiskCurrent, NamesRead, [Next]_vars, outside' = 0
    PROVE  NamesRead'
<1>1. /\ \A u \in Tasks : Wrote(u) => Wrote(u)' /\ task'[u].req = task[u].req
      /\ DeviceMoves
  BY StepsOfTheBackup, WritersStay, DeviceSteps
<1>2. \A k \in Slots : ~Renamed(k)' => ~Renamed(k) /\ device'.names[k] = device.names[k]
  BY <1>1 DEF Renamed, SlotWriters, DeviceMoves
<1>3. ASSUME \A k \in Slots : ~Renamed(k) => data'.names[k] = data.names[k],
             \A p \in Polls : poll'[p] = poll[p] \/ poll'[p].reading \in {0, 1}
      PROVE  NamesRead'
  BY <1>2, <1>3 DEF NamesRead
<1>4. /\ data \in State /\ poll \in [Polls -> [reading : 0..Len(Reads), view : State]]
      /\ task \in [Tasks -> [pc : TaskStates, req : Request, at : Nat]]
  BY DEF CoreTypeOK, MemoryTypeOK, LoopTypeOK
<1>5. ASSUME NEW t \in Tasks, Caller(t) PROVE NamesRead'
  <2>1. CASE Deliver(t)
    <3>1. /\ task[t].pc = "sending" /\ data' = Written(data, task[t].req)
          /\ \/ poll' = poll
             \/ poll' = [poll EXCEPT !["requested"] = [@ EXCEPT !.reading = 1]]
      BY <2>1 DEF Deliver, Reflect, RefreshNow, RefreshLater
    <3>2. ASSUME NEW k \in Slots, ~Renamed(k) PROVE data'.names[k] = data.names[k]
      <4>1. ~(task[t].req.kind = "rename" /\ task[t].req.port = k)
        BY <3>1, <3>2 DEF Renamed, SlotWriters, Wrote
      <4> QED
        BY <1>4, <3>1, <4>1, WrittenElsewhere
    <3>3. \A p \in Polls : poll'[p] = poll[p] \/ poll'[p].reading \in {0, 1}
      BY <1>4, <3>1
    <3> QED
      BY <1>3, <3>2, <3>3
  <2>2. ASSUME NEW r \in Requests, Submit(t, r) \/ SubmitRecall(t, r) \/ RefuseRecall(t, r)
        PROVE  UNCHANGED <<data, poll>>
    BY <2>2 DEF Submit, SubmitRecall, RefuseRecall, Begin, memory, pollVars
  <2>3. CASE Resume(t) \/ StoreWrite(t) \/ \E executed \in BOOLEAN : Fail(t, executed)
    BY <1>3, <2>3 DEF Resume, StoreWrite, Fail, pollVars
  <2> QED
    BY <1>3, <1>5, <2>1, <2>2, <2>3 DEF Caller
<1>6. CASE PollStart \/ Rerun
  <2>1. /\ data' = data
        /\ \E p \in Polls : poll' = [poll EXCEPT ![p] = [@ EXCEPT !.reading = 1]]
    BY <1>6 DEF PollStart, Rerun, memory, Polls
  <2>2. \A p \in Polls : poll'[p] = poll[p] \/ poll'[p].reading \in {0, 1}
    BY <1>4, <2>1
  <2> QED
    BY <1>3, <2>1, <2>2
<1>7. CASE Cooled \/ RerunDone \/ Tick \/ Matrix \/ UNCHANGED vars
  BY <1>3, <1>7
  DEF Cooled, RerunDone, Tick, Matrix, SettleOutput, Outside, Flash, vars, memory, pollVars
<1>8. CASE Restart
  BY <1>8 DEF Restart, NamesRead, NotPolling, matrixVars
<1> QED
  BY <1>5, <1>6, <1>7, <1>8, PollerReads DEF Next
LEMMA StepKeepsCarried ==
    ASSUME CoreTypeOK, CoreTypeOK', DiskCurrent, Carried, [Next]_vars, outside' = 0
    PROVE  Carried'
<1>1. /\ \A u \in Tasks : Wrote(u) => Wrote(u)' /\ task'[u].req = task[u].req
      /\ DeviceMoves
  BY StepsOfTheBackup, WritersStay, DeviceSteps
<1>2. device \in State /\ \A t \in Tasks : task[t].req \in Request
  BY DEF CoreTypeOK, MatrixTypeOK, LoopTypeOK
<1>3. ASSUME NEW k \in Slots, NEW t \in SlotWriters(k)', SlotWriters(k)' = {t},
             task'[t].req.kind = "rename", task'[t].pc = "refreshing"
      PROVE  device'.names[k] = task'[t].req.value
  <2>1. CASE task[t].pc = "refreshing"
    <3>1. Wrote(t) /\ task'[t].req = task[t].req /\ t \in Tasks
      BY <1>1, <2>1 DEF Wrote, SlotWriters
    <3>2. t \in SlotWriters(k) /\ SlotWriters(k) = {t}
      BY <1>1, <1>3, <3>1 DEF SlotWriters
    <3>3. device'.names[k] = device.names[k]
      BY <1>1, <2>1, <3>2 DEF DeviceMoves
    <3> QED
      BY <1>3, <2>1, <3>1, <3>2, <3>3 DEF Carried
  <2>2. CASE task[t].pc # "refreshing"
    <3>1. t \in Tasks /\ task[t].pc = "sending" /\ device' = Written(device, task[t].req)
      BY <1>1, <1>3, <2>2 DEF DeviceMoves, SlotWriters
    <3>2. task'[t].req = task[t].req /\ task[t].req.port = k
      BY <1>1, <3>1 DEF Wrote, SlotWriters
    <3> QED
      BY <1>2, <1>3, <3>1, <3>2 DEF Written, State
  <2> QED
    BY <2>1, <2>2
<1>4. ASSUME NEW i \in Inputs, NEW t \in InputWriters(i)', InputWriters(i)' = {t},
             task'[t].pc = "refreshing"
      PROVE  device'.edids[i] = task'[t].req.value
  <2>1. CASE task[t].pc = "refreshing"
    <3>1. Wrote(t) /\ task'[t].req = task[t].req /\ t \in Tasks
      BY <1>1, <2>1 DEF Wrote, InputWriters
    <3>2. t \in InputWriters(i) /\ InputWriters(i) = {t}
      BY <1>1, <1>4, <3>1 DEF InputWriters
    <3>3. device'.edids[i] = device.edids[i]
      BY <1>1, <2>1, <3>2 DEF DeviceMoves
    <3> QED
      BY <1>4, <2>1, <3>1, <3>2, <3>3 DEF Carried
  <2>2. CASE task[t].pc # "refreshing"
    <3>1. t \in Tasks /\ task[t].pc = "sending" /\ device' = Written(device, task[t].req)
      BY <1>1, <1>4, <2>2 DEF DeviceMoves, InputWriters
    <3>2. task'[t].req = task[t].req /\ task[t].req.port = i /\ task[t].req.kind = "edid"
      BY <1>1, <3>1 DEF Wrote, InputWriters
    <3> QED
      BY <1>2, <3>1, <3>2 DEF Written, State
  <2> QED
    BY <2>1, <2>2
<1> QED
  BY <1>3, <1>4 DEF Carried

\* The tail of a sole writer's call leaves in the backup what it left on the
\* matrix.
LEMMA FollowUpAgrees ==
    ASSUME CoreTypeOK, NamesRead, Carried, NEW t \in Tasks, FollowUpStep(t)
    PROVE  /\ \A k \in Slots : SlotWriters(k) = {t} =>
                 backup'[k] \in AgreeingSlot(task, device'.names[k])[t]
           /\ \A i \in Inputs : InputWriters(i) = {t} =>
                 edidBackup'[i] \in AgreeingInput(device'.edids[i])[t]
<1> DEFINE r == task[t].req
<1>1. r \in Request /\ device \in State /\ data \in State
  BY DEF CoreTypeOK, MatrixTypeOK, MemoryTypeOK, LoopTypeOK
<1>2. /\ \/ /\ task[t].pc = "sending" /\ data' = Written(data, r)
            /\ device' = Written(device, r)
         \/ task[t].pc = "refreshing" /\ UNCHANGED <<data, device>>
      /\ backup' \in Presets
  BY <1>1, BackupAfterType, WrittenType DEF FollowUpStep, FollowUp, CoreTypeOK, MemoryTypeOK
<1>3. ASSUME NEW k \in Slots, SlotWriters(k) = {t}
      PROVE  backup'[k] \in AgreeingSlot(task, device'.names[k])[t]
  <2>1. /\ t \in SlotWriters(k) /\ r.port = k /\ r.kind \in {"rename", "save", "clear"}
        /\ backup'[k] \in Entry \cup {None} /\ backup'[k] \in Fits(r)
        /\ r.kind = "save" => backup'[k].name = data'.names[k]
    BY <1>2, <1>3, FollowUpCells DEF SlotWriters, Presets
  <2>2. CASE r.kind = "clear"
    BY <2>1, <2>2 DEF AgreeingSlot
  <2>3. CASE r.kind = "rename"
    <3>1. device'.names[k] = r.value
      <4>1. CASE task[t].pc = "refreshing"
        BY <1>2, <1>3, <2>1, <2>3, <4>1 DEF Carried
      <4>2. CASE task[t].pc = "sending"
        BY <1>1, <1>2, <2>1, <2>3, <4>2 DEF Written, State
      <4> QED
        BY <1>2, <4>1, <4>2
    <3>2. backup'[k] # None => backup'[k].name = r.value
      BY <2>1, <2>3, FitsSlot
    <3> QED
      BY <2>1, <2>3, <3>1, <3>2 DEF AgreeingSlot
  <2>4. CASE r.kind = "save"
    <3>1. ~Renamed(k)
      BY <1>3, <2>4 DEF Renamed
    <3>2. data.names[k] = device.names[k]
      BY <3>1 DEF NamesRead
    <3>3. data'.names[k] = data.names[k] /\ device'.names[k] = device.names[k]
      BY <1>2, <2>4 DEF Written
    <3> QED
      BY <2>1, <2>4, <3>2, <3>3 DEF AgreeingSlot
  <2> QED
    BY <2>1, <2>2, <2>3, <2>4
<1>4. ASSUME NEW i \in Inputs, InputWriters(i) = {t}
      PROVE  edidBackup'[i] \in AgreeingInput(device'.edids[i])[t]
  <2>1. /\ t \in InputWriters(i) /\ r.port = i /\ r.kind = "edid"
        /\ edidBackup'[i] \in Fits(r)
    BY <1>4, FollowUpCells DEF InputWriters
  <2>2. device'.edids[i] = r.value
    <3>1. CASE task[t].pc = "refreshing"
      BY <1>2, <1>4, <2>1, <3>1 DEF Carried
    <3>2. CASE task[t].pc = "sending"
      BY <1>1, <1>2, <2>1, <3>2 DEF Written, State
    <3> QED
      BY <1>2, <3>1, <3>2
  <2> QED
    BY <2>1, <2>2 DEF AgreeingInput, Fits
<1> QED
  BY <1>3, <1>4

LEMMA StepKeepsAgreement ==
    ASSUME CoreTypeOK, DiskCurrent, NamesRead, Carried, BackupAgrees, [Next]_vars, outside' = 0
    PROVE  BackupAgrees'
<1>1. \/ QuietStep \/ LoadStep
      \/ \E t \in Tasks : FollowUpStep(t) \/ SaveStep(t)
  BY StepsOfTheBackup
<1>2. /\ \A u \in Tasks : Wrote(u) => Wrote(u)' /\ task'[u].req = task[u].req
      /\ \A u \in Tasks : ~Wrote(u) /\ Wrote(u)' => task'[u].pc = "sending"
  BY <1>1, WritersStay
<1>3. DeviceMoves
  BY DeviceSteps
<1>4. ASSUME NEW k \in Slots
      PROVE  Cell(task', SlotWriters(k)', backup'[k], disk'.presets[k], AgreeingSlot(task, device.names[k])')
  <2> DEFINE who == SlotWriters(k)  more == SlotWriters(k)'
             good == AgreeingSlot(task, device.names[k])
             better == AgreeingSlot(task, device.names[k])'
  <2>1. /\ who \in SUBSET Tasks /\ more \in SUBSET Tasks /\ who \subseteq more
        /\ \A u \in who : Wrote(u) /\ task'[u].req = task[u].req
        /\ \A u \in more \ who : task'[u].pc = "sending"
    BY <1>2 DEF SlotWriters
  <2>2. Cell(task, who, backup[k], disk.presets[k], good)
    BY DEF BackupAgrees
  <2>3. \A u \in who : who = {u} /\ task[u].pc \in Late => good[u] \subseteq better[u]
    <3> SUFFICES ASSUME NEW u \in who, who = {u}, task[u].pc \in Late
                 PROVE  good[u] \subseteq better[u]
      OBVIOUS
    <3>1. device'.names[k] = device.names[k]
      BY <1>3 DEF DeviceMoves, Late
    <3> QED
      BY <2>1, <3>1 DEF SlotWriters, AgreeingSlot, AgreeingInput
  <2> HIDE DEF who, more, good, better
  <2>4. /\ QuietStep => Cell(task', more, backup[k], disk.presets[k], better)
        /\ LoadStep => Cell(task', more, disk.presets[k], disk.presets[k], better)
        /\ \A t \in Tasks : SaveStep(t) => Cell(task', more, backup[k], backup[k], better)
        /\ \A t \in Tasks \ who : FollowUpStep(t) =>
              Cell(task', more, backup[k], disk.presets[k], better)
    BY <2>1, <2>2, <2>3, CellSteps
  <2>5. CASE QuietStep \/ LoadStep
    BY <2>4, <2>5 DEF QuietStep, LoadStep, more, better
  <2>6. ASSUME NEW t \in Tasks, SaveStep(t)
        PROVE  Cell(task', more, backup'[k], disk'.presets[k], better)
    BY <2>4, <2>6 DEF SaveStep
  <2>7. ASSUME NEW t \in Tasks, FollowUpStep(t)
        PROVE  Cell(task', more, backup'[k], disk'.presets[k], better)
    <3>1. CASE t \in who
      <4>1. /\ task[t].pc \in Early /\ task'[t].pc \in Late /\ disk' = disk
            /\ task'[t].pc = "done" => backup'[k] = backup[k]
        BY <2>7, <3>1, FollowUpCells DEF FollowUpStep, Advances, who
      <4>2. who = {t} => backup'[k] \in better[t]
        <5>1. better[t] = AgreeingSlot(task, device'.names[k])[t]
          BY <2>1, <3>1 DEF better, AgreeingSlot
        <5> QED
          BY <2>7, <5>1, FollowUpAgrees DEF who
      <4> QED
        BY <2>1, <2>2, <3>1, <4>1, <4>2, CellFollowUp
    <3>2. CASE t \notin who
      BY <2>4, <2>7, <3>2, FollowUpCells DEF FollowUpStep, who
    <3> QED
      BY <3>1, <3>2
  <2> QED
    BY <1>1, <2>5, <2>6, <2>7 DEF more, better
<1>5. ASSUME NEW i \in Inputs
      PROVE  Cell(task', InputWriters(i)', edidBackup'[i], disk'.edids[i], AgreeingInput(device.edids[i])')
  <2> DEFINE who == InputWriters(i)  more == InputWriters(i)'
             good == AgreeingInput(device.edids[i])
             better == AgreeingInput(device.edids[i])'
  <2>1. /\ who \in SUBSET Tasks /\ more \in SUBSET Tasks /\ who \subseteq more
        /\ \A u \in who : Wrote(u) /\ task'[u].req = task[u].req
        /\ \A u \in more \ who : task'[u].pc = "sending"
    BY <1>2 DEF InputWriters
  <2>2. Cell(task, who, edidBackup[i], disk.edids[i], good)
    BY DEF BackupAgrees
  <2>3. \A u \in who : who = {u} /\ task[u].pc \in Late => good[u] \subseteq better[u]
    <3> SUFFICES ASSUME NEW u \in who, who = {u}, task[u].pc \in Late
                 PROVE  good[u] \subseteq better[u]
      OBVIOUS
    <3>1. device'.edids[i] = device.edids[i]
      BY <1>3 DEF DeviceMoves, Late
    <3> QED
      BY <2>1, <3>1 DEF InputWriters, AgreeingSlot, AgreeingInput
  <2> HIDE DEF who, more, good, better
  <2>4. /\ QuietStep => Cell(task', more, edidBackup[i], disk.edids[i], better)
        /\ LoadStep => Cell(task', more, disk.edids[i], disk.edids[i], better)
        /\ \A t \in Tasks : SaveStep(t) => Cell(task', more, edidBackup[i], edidBackup[i], better)
        /\ \A t \in Tasks \ who : FollowUpStep(t) =>
              Cell(task', more, edidBackup[i], disk.edids[i], better)
    BY <2>1, <2>2, <2>3, CellSteps
  <2>5. CASE QuietStep \/ LoadStep
    BY <2>4, <2>5 DEF QuietStep, LoadStep, more, better
  <2>6. ASSUME NEW t \in Tasks, SaveStep(t)
        PROVE  Cell(task', more, edidBackup'[i], disk'.edids[i], better)
    BY <2>4, <2>6 DEF SaveStep
  <2>7. ASSUME NEW t \in Tasks, FollowUpStep(t)
        PROVE  Cell(task', more, edidBackup'[i], disk'.edids[i], better)
    <3>1. CASE t \in who
      <4>1. /\ task[t].pc \in Early /\ task'[t].pc \in Late /\ disk' = disk
            /\ task'[t].pc = "done" => edidBackup'[i] = edidBackup[i]
        BY <2>7, <3>1, FollowUpCells DEF FollowUpStep, Advances, who
      <4>2. who = {t} => edidBackup'[i] \in better[t]
        BY <2>7, FollowUpAgrees DEF who, better
      <4> QED
        BY <2>1, <2>2, <3>1, <4>1, <4>2, CellFollowUp
    <3>2. CASE t \notin who
      BY <2>4, <2>7, <3>2, FollowUpCells DEF FollowUpStep, who
    <3> QED
      BY <3>1, <3>2
  <2> QED
    BY <1>1, <2>5, <2>6, <2>7 DEF more, better
<1> QED
  BY <1>4, <1>5 DEF BackupAgrees

(***************************************************************************)
(* A slot or input only one caller wrote carries in the backup the name or *)
(* profile it has on the matrix once that caller was answered, for any     *)
(* matrix and any number of callers, polls, failures and restarts, unless  *)
(* somebody changed the matrix behind the integration's back.              *)
(***************************************************************************)
THEOREM BackupFollowsMatrix == Spec => []BackupInStep
<1>1. Init => AgreeInv
  BY DEF Init, AgreeInv, NamesRead, Carried, BackupAgrees, Cell, SlotWriters, InputWriters,
         Wrote, NotPolling
<1>2. CoreTypeOK /\ CoreTypeOK' /\ DiskCurrent /\ AgreeInv /\ [Next]_vars => AgreeInv'
  <2> SUFFICES ASSUME CoreTypeOK, CoreTypeOK', DiskCurrent, AgreeInv, [Next]_vars, outside' = 0
               PROVE  NamesRead' /\ Carried' /\ BackupAgrees'
    BY DEF AgreeInv
  <2>1. NamesRead /\ Carried /\ BackupAgrees
    BY DeviceSteps DEF AgreeInv
  <2> QED
    BY <2>1, StepKeepsNames, StepKeepsCarried, StepKeepsAgreement
<1>3. CoreTypeOK /\ AgreeInv => BackupInStep
  <2> SUFFICES ASSUME CoreTypeOK, AgreeInv, NEW t \in Tasks, task[t].pc = "done", SoleToucher(t),
                      outside = 0
               PROVE  LET r == task[t].req IN
                      /\ r.kind \in {"rename", "save"} /\ backup[r.port] # None =>
                            backup[r.port].name = device.names[r.port]
                      /\ r.kind = "edid" /\ edidBackup[r.port] # None =>
                            edidBackup[r.port] = device.edids[r.port]
    BY DEF BackupInStep
  <2> DEFINE r == task[t].req
  <2>1. r \in Request /\ Wrote(t) /\ BackupAgrees
    BY DEF CoreTypeOK, LoopTypeOK, Wrote, AgreeInv
  <2>2. CASE r.kind \in {"rename", "save"}
    <3>1. r.port \in Slots /\ r.kind # "edid"
      BY <2>1, <2>2 DEF Request
    <3>2. SlotWriters(r.port) = {t}
      BY <2>1, <2>2 DEF SlotWriters, SoleToucher, Touches, Wrote
    <3>3. backup[r.port] \in AgreeingSlot(task, device.names[r.port])[t]
      BY <2>1, <3>1, <3>2 DEF BackupAgrees, Cell, Late
    <3> QED
      BY <2>2, <3>1, <3>3 DEF AgreeingSlot
  <2>3. CASE r.kind = "edid"
    <3>1. r.port \in Inputs
      BY <2>1, <2>3 DEF Request
    <3>2. InputWriters(r.port) = {t}
      BY <2>1, <2>3 DEF InputWriters, SoleToucher, Touches, Wrote
    <3>3. edidBackup[r.port] \in AgreeingInput(device.edids[r.port])[t]
      BY <2>1, <3>1, <3>2 DEF BackupAgrees, Cell, Late
    <3> QED
      BY <2>3, <3>3 DEF AgreeingInput
  <2> QED
    BY <2>2, <2>3
<1> QED
  BY <1>1, <1>2, <1>3, CoreTyping, BackupReachesDisk, PTL DEF Spec
=============================================================================
