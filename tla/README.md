# A verification project for the HDCVT HDMI Matrix integration

The repository is a Home Assistant integration for HDMI matrices: it polls one
matrix over a JSON-over-HTTP interface, sends it commands, reads preset contents
over a telnet CLI, and keeps a backup of presets and EDIDs because the device
forgets them when its firmware is flashed. Everything runs on one asyncio event
loop, so there are no data races; what is hard is what happens at each `await`.

Contents: [the system](#the-system), [modules](#modules),
[runs](#runs-and-what-they-show), [bounds](#bounds), [fairness](#fairness),
[proofs](#proofs), [disagreements](#where-the-code-and-its-comments-disagree),
[not modelled](#what-is-not-modelled), [plan](#plan).

Paths below are relative to `src/custom_components/hdcvt_matrix/`.

## The system

| part | state | operations | talks to |
| --- | --- | --- | --- |
| coordinator (`coordinator.py`) | `data`, preset and EDID backup, drift, active preset, `_preset_applied_at`, the store | poll, ~20 writes, save/clear/rename/recall a preset, snapshot, restore, load | both clients, the store, entities |
| HTTP client (`api/client.py`) | a lock | reads (3 attempts), writes (1), login | the matrix's single-threaded CGI |
| telnet client (`api/telnet.py`) | a lock | read a preset slot, restart the network module | the CLI on port 23 |
| models, commands, options (`api/*.py`) | the polled state | — | — |
| entry lifecycle (`__init__.py`) | runtime data (client, coordinator) | set up, retry, reload, unload; find the coordinator of a device | config flow, coordinator, registries |
| config flow (`config_flow.py`) | one flow's host and identity | setup, reconfigure, DHCP, reauth, options; each login validated in two exchanges | client, config entries |
| services (`services.py`) | — | CEC to an output or an input of a device | coordinator |
| entities (`select.py`, `switch.py`, …) | the preset select's last option | views of the polled state; one write per option, flip or press | coordinator |
| features (`features.py`) | the entity registry | say which entities exist; prune the others on each set-up | config entry |
| option tables (`api/options.py`) | — | firmware value ↔ option | entities |

How they interact: an entity or service calls a write of the coordinator. The
write awaits the client, which takes its lock, posts one command and waits for
the answer. When it is back, the coordinator changes its copy of the state
(*optimistic reflection*), requests a refresh through Home Assistant's debouncer
and, if its request was the one that started the refresh, waits for it. Only then
does it bring the backup in step and save the store. Polls do five reads in a row, each
taking the lock anew, so commands of other callers fall between them; when the
last one is in, the new state replaces the old one, and drift and active preset
are derived from it.

What is hard, and what should hold:

* **Coordinator.** Polls older than a write; refreshes dropped by the debouncer;
  backup follow-ups of overlapping calls; saves overlapping in the store; a
  restart between any two steps; a recall that takes seconds on the matrix. The
  backup, the disk, the drift and the matrix should agree again afterwards.
* **HTTP client.** The lock must survive every exit; reads may be repeated,
  writes must not; an abandoned request may be carried out late.
* **Telnet client.** There is no end marker: silence, the end of the connection
  or the deadline ends a reply, and each can fall in the middle of one.
* **Snapshot and restore.** Long sequences of commands on a matrix others use at
  the same time; partial failure; what a retry starts from.
* **Config flow and lifecycle.** Between two exchanges of a dialogue or a set-up
  another dialogue may write the entry, the matrix may change its login, another
  matrix may get the address. A matrix should have one entry, an entry should drive
  its own matrix with the login stored for it, and one that failed should recover.
* **Entities.** A menu may be older than the names it was made of; arrays come
  short, with junk, or with an aggregate at their end; ports count from one and
  arrays from zero. What a port shows, and where a command goes, should be right.

## Modules

**`Coordinator`** models `coordinator.py` together with the matrix it drives, the
store, the debouncer and the scheduled refresh. State:

| variable | code |
| --- | --- |
| `device`, `slots`, `recalling` | the matrix: what it reports, what its slots hold (not readable over HTTP), a recall still switching outputs |
| `data` | `coordinator.data`; every field without a role of its own (enables, modes, port names, panel …) is a *setting*, reported by the status command `SettingTable` gives |
| `backup`, `edidBackup`, `drift`, `active`, `appliedAt` | the attributes of those names |
| `online` | `last_update_success` |
| `pending`, `disk` | the store: data handed over and not yet written, the file |
| `task` | per caller: `idle → sending → refreshing → saving → done`, or `failed`, `refused`, `killed` |
| `queue` | the waiters of the client's lock, the holder first |
| `poll` | per refresh in progress: the next status command and the state assembled so far |
| `timer`, `debounce` | the scheduled refresh, and the debouncer: idle, running, cooling, cooling with a rerun due |

Actions: `Submit`, `SubmitRecall`, `RefuseRecall` (up to the queue of the lock);
`Deliver` (the exchange, the reflection, and the debouncer's choice between
`RefreshNow`, where the write waits, and `RefreshLater`, where it goes straight to
its `FollowUp`); `Fail`; `Resume` (the refresh is over: `FollowUp`); `StoreWrite`
(the save, the drift recomputed); `PollStart`, `PollRead`, `PollFinish`,
`PollBlank`, `PollStumble`, `PollFail`; `Cooled`, `Rerun`, `RerunDone` (the
debouncer's timer); `Restart` (a reload or crash with the set-up after it);
`SettleOutput`, `Outside`, `Flash` and `Tick` (the world). After a `Restart` the
active preset is the stored one; where none is stored, the preset select adopts what
it showed last (`Adopted`), and that is stored at once.

*Atomicity.* An exchange holds the client's lock from request to reply and the
queue is FIFO, so one step stands for "the matrix executes the head's command,
its reply arrives and the coroutine runs to its next await". A coroutine whose
awaited refresh ended is already in the loop's ready queue, while any other
exchange needs a network round trip; `Holds` therefore lets `Resume` go first. A
read that fails and sleeps is `PollStumble`: it goes to the end of the queue.

**`CoordinatorProperties`** states what the coordinator should keep.

**`PresetTransfer`** extends `Coordinator` with the two long jobs,
`async_snapshot_presets` and `async_restore_presets`. The job is a record: its
phase, what it awaits (the lock, a slot over telnet, silence after it, a refresh,
the disk), the steps it has left in the phase (`plan`), the restore's mirror of the
routing (`live`), what the snapshot found, what the verification found wrong. A plan is
a *set* of steps, each a command or a read at the turn of a backed-up slot, as the loops
of the code generate it; `Earlier` is the order of those loops (slots ascend, a slot is
routed output by output, then saved, then renamed) and the job does what is `Due`, the
step before all others. What happens without an await between (`SkipSatisfied`, `Send`, `Dial`, `NextPhase`, the ends of
both jobs) are steps during which `Running` keeps everybody else out; what is
awaited (`CommandDone`, `SlotSent`, `SlotCut`, `SlotRead`, `TransferFail`,
`SnapshotStored`, `RestoreReturns`) interleaves with all of `Coordinator`'s steps, which
`OthersAct` takes over unchanged. A restore's phases are those of the code: `pushing` and
`returning` (`_async_push_backup`), `edids`, `verifying`, `refreshing`. HTTP commands of a job queue for the same lock as
everybody's; a slot read has a connection of its own, and a second in which the
matrix has answered and the client still waits for silence. An answer may come cut
short (`SlotCut`): its first lines are numbered without gaps, and `async_read_preset`
returns them as the slot, so that a backup may lack the last outputs of a slot
(`Table`), and a restore switches those it has. `before` is the list the
restore puts back (`original`). Three fields are history. `cut` is the slots whose
answers came cut short. `others` is what somebody else
changed on the matrix since the job began. `misread` says that a snapshot kept EDIDs the
matrix did not have: a restore that fails half-way has written EDIDs that the state on show
does not have yet, a snapshot taken before the next poll backs up the old ones, and the
next restore skips them because the state on show has them. `RestoredMeansStored` excepts
that path for EDIDs; it takes three jobs.

**`MatrixClient`** models `_async_read` and `_async_command`: `Call`, `Post`
(take the lock and send), `Serve` (the CGI deals with a request, even one nobody
waits for), `Receive` (release, then judge the body), `NoReply` (refused, or timed
out with the request possibly left behind), `Wake` (after the retry pause),
`Cancel` and `Skip` (Home Assistant cancels a task; the lock passes over it).
**`CommandService`** is the abstract promise: calls succeed, fail or are cancelled, a
write takes effect at most once and before its success. `MatrixClient!ServiceSpec`
instantiates it with `status` read off the caller's state and `effects` the count
of executions.

**`TelnetReply`** models one CLI command: the connection, `_async_read_reply`'s
three ways to end, what is read back. Text is reduced to the number of lines
received: banner, echo, then the reply.

**`ConfigFlow`** has the config entries and the dialogues. A dialogue (`flow`) is
opened by hand, by a DHCP lease, for an entry to reconfigure, or by a rejected login,
and one opened by its user may be closed again (`Abandon`);
`Submit` resolves the form (`Resolved`: the checkbox stands for the factory login);
then come the two exchanges of `_async_validate`, each a step that finds whichever
matrix is at the host by then (`Answers`): `LoginAnswered` or `ProbeAnswered`,
`InfoAnswered`, or `Unanswered`. At the end an entry is made (`Create`), merged with
the form (`Update`, `Merged`) or given a new host (`MoveEntry`). What the flow
manager does (a second flow of the same identity is turned away, flows about a new
entry's matrix end, an update schedules a reload) is part of these steps. `ChangeLogin`
and `MoveMatrix` are the world's.

**`Entities`** says which entities each platform creates for which features and ports
(`Catalogue`, `Wanted`) and what its pruning leaves of those registered before
(`Pruned`). A platform is pruned against what *it* wants.

**`EntryLifecycle`** composes both. `Begin` takes host and login as they are stored at
that time; `SetupLogin`, `SetupInfo` and `SetupFinish` are the exchanges of
`async_setup_entry` (login, identity, first refresh with device, registry and
platforms), `SetupFails` a lost or missing answer, after which the set-up is due again.
A rejected login opens a reauthentication (`SetupLogin`) unless a reauthentication or
a reconfiguration of the entry is open, as Home Assistant has it (`InDialogue`). `Talk`, `Options`,
`Restart`, `Standby` and `WorldTurns` interleave. `CoordinatorFor` is the services'
choice of a coordinator by device; it gives all candidates where `_coordinator_for`
takes the first.

| variable | code |
| --- | --- |
| `entries`, `state`, `reload` | config entries with identity, host, login and features; the state of their set-up; a reload scheduled |
| `flow` | the open dialogues; a reauthentication goes by its entry |
| `client`, `runtime`, `seen` | what a set-up works with: host and login, the matrix whose identity it read, the port counts of the first refresh |
| `devices`, `registry` | device registry links, entity registry |
| `at`, `account`, `blank`, `past` | the matrices: who answers at an address, with which login, blank in standby, and (history) who ever answered there |

**`EntityControls`** follows one select or switch from the menu to the matrix and
back: `OpenMenu`, `Choose` (the option is looked up when it arrives), `Done`/`Failed`,
`Rename`, `Outside`, `Poll`/`PollBroken` (`IntList`, `Trimmed`, `Value` turn a reply into
what each port shows). `control` says which one is followed; it is one of the tables
(`Table`), of the flags, or named after inputs. What comes broken (`Broken`) is an array cut short
or with junk in it, or a single value: one that is missing is taken for its
default (`Default`), junk in a flag for on or off, and junk in a number fails the poll.
A command on its way carries, as history, the option chosen and the inputs in `doubt`:
those whose names in the copy were not the matrix's at the choice (`Misnamed`), and
those renamed since (`Doubted`). A poll is one step here; commands and
renames that fall between its five reads, and the stale copies they leave, are in `Coordinator`.

The `MC*` modules give constants their values. `*_proofs` hold the theorems.
Definitions commented *Slip* are wrong variants of the one they stand before;
no specification uses them. Each is a plausible bug that a property must notice.

## Runs and what they show

Passing:

| run | states | question |
| --- | --- | --- |
| `CoordinatorBackup` | 2.1 M | With three overlapping callers, a fault and a restart: is an acknowledged change on disk and in the backup (`AcknowledgedIsDurable`, `BackupInStep`), is the disk never older than memory with nobody left to write (`DiskCurrent`), does the drift say what a comparison would (`DriftCurrent`), can somebody always go on, and has every waiter its place in the lock's queue or a refresh in progress (`NobodyStranded`)? |
| `CoordinatorLive` | 710 k | With standby blanks, slow recalls, a fault and somebody at the front panel: are recalls let through a cool-down apart (`RecallsSpaced`), does every call return (`CallsReturn`), do state and drift (`EventuallyConfirmed`) and active preset (`EventuallyDerived`) end up right? |
| `PresetTransfer` | 5.4 M | Two jobs in a row (a retry, a snapshot after a restore, …) among polls and a caller, with a failure or a cut answer anywhere and a restart: does a restore that reports success leave every slot, name and EDID as backed up (`RestoredMeansStored`) and the routing as it was on show (`RoutingPutBack`), is a snapshot what the slots hold, but for what was cut (`SnapshotFaithful`), is a backup emptied only by the clear of its one slot or by a restart that finds none on disk (`BackupNotWiped`), do disk and drift follow (`TransferKeepsDisk`, `TransferKeepsDrift`)? |
| `ClientService` | 230 k | One exchange at a time (`OneExchange`), at-most-once writes (`WriteAtMostOnce`, `SuccessIsFinal`), all attempts made (`GivesUpAfterAllAttempts`), every call returns (`CallsReturn`), the abstract service implemented (`ServiceSpec`). |
| `TelnetReply` | 5 k | Only an empty slot reads as empty (`EmptyIsEmpty`), a prompt reply is read whole however it is cut (`PromptReplyIsWhole`), a reboot survives the drop it causes (`RebootSurvivesDrop`), every command ends (`CommandEnds`). |
| `EntryLife` | 248 k | Whatever dialogues, set-ups, moves of matrices and changes of logins interleave: has a matrix one entry (`OneEntryPerMatrix`), does an entry drive its own matrix (`BoundToItsMatrix`) with its stored login (`LoadedWithStoredLogin`), is somebody asked when a login is rejected, but where a reconfiguration stands in the way (`AskedForLogin`), are exactly the wanted entities registered (`RegistryMatches`), does an entry recover once its matrix can be reached, unless a rejected login stopped it (`Recovers`)? |
| `EntityControls` | 1.9 M | With menus left open over polls and renames, and replies cut or with junk: does every port show what the matrix does with it (`ShownIsTheDevices`), what can it show after a broken array (`ArraysOnlyMoveUp`), and does an option go to an input that has its name, up to the delivery (`ChosenBearsItsName`)? |

Several properties carry conditions: `BackupInStep` and `AcknowledgedIsDurable` that
nobody else wrote the same slot, `RecallsSpaced` that no recall failed,
`BoundToItsMatrix` that no address passed from one matrix to another, which a set-up
does not check, `AskedForLogin` that no reconfiguration was open, `ChosenBearsItsName`
that nobody renamed the input without the copy knowing or under the command,
`SnapshotFaithful` that no answer was cut. Each condition is one the code really needs: take it away and the
model checker finds a violation (for `RecallsSpaced`, with a third caller: one recall
that fails after another was let through lifts the other's cool-down as well).

Deadlock checking is off where everybody may stop for good: `ClientService` and the
telnet runs, whose callers call once, `EntryLife` and `EmptyFieldsKept`, where users and
the world owe nothing, and `EntityControls`. The coordinator never stops, because its
refresh timer is always armed again.

## Where the code and its comments disagree

Each of these runs checks one statement of a comment, docstring or test and finds
it violated.

| run | statement | what happens |
| --- | --- | --- |
| `RecallForgotten` | `coordinator.py:433` "Recall a preset and remember it as the active one" | With a backup, the refresh inside the write reads outputs still switching, finds no match, clears the active preset, and the cleared value is persisted. |
| `SnapshotLosesSave` | `button.py:127` "Saves made through Home Assistant keep the backup fresh on their own" | A snapshot that read the slot before the save replaces the whole backup after it. The drift sensors compare names only and stay quiet. |
| `RestoreSkipsEdids` | `coordinator.py:644` "Rebuild the preset slots and EDID selections from the backup" | Between a flash and the next poll the EDIDs still look in place: they are skipped, nothing verifies them, and the restore reports success. |
| `TelnetHalfTable` | `tests/test_telnet.py:143` "Half a crosspoint table must fail loudly" | A table cut after line *k* is numbered 1…*k* without gaps and accepted. |
| `EmptyFieldsKept` | `README.md:105` "Leave them empty if the matrix has no login configured." | In a reconfiguration or reauthentication with the fields left empty, validation skips the login and passes; the merge (`config_flow.py:251`, `:339`) keeps the old login, and the next set-up is rejected as before. |

Met on the way. The first three are statements of the documentation that the code
does not keep, and a passing property says what it does instead:

* `README.md:93`: "Routing an individual output after recalling a preset likewise
  leaves the select showing the preset you last chose", because "there is no command
  to read a preset's stored routing back". With a backup present,
  `_refresh_active_preset` (`coordinator.py:482-490`) compares its routings with every
  poll, so the select changes to the slot that matches or to none. `EventuallyDerived` says that it
  does; the sentence holds only without a backup.
* `coordinator.py:646-648`: a restore puts back "the routing that was in effect
  beforehand". What it puts back is the routing *on show* (`coordinator.py:655`),
  which is another one if the matrix was switched since the last poll or an earlier
  restore failed. `RoutingPutBack` is about the routing on show.
* `README.md:154`: a changed password "surfaces as a reauth prompt". While a
  reconfiguration of the entry is open Home Assistant opens no second dialogue about
  it (`__init__.py:44`), and if that one is closed or comes to nothing the entry stays
  stopped with nobody asked, until the next reload. `AskedForLogin` says that there is
  no other way to that state.

And without such a statement:

* A telnet answer cut within a slot's table is taken for the whole (`telnet.py:89`, run
  `TelnetHalfTable`), so a snapshot backs up the beginning of the slot and reports
  success. `SnapshotFaithful` says what is left of it; a restore then rebuilds the slot
  with whatever the other outputs had, and its verification, unless cut alike, reports it.
* A snapshot is refused only if it finds no slot at all (`coordinator.py:585`). Of a matrix
  wiped in part it replaces the good backup by what is left.
* A missing single value is shown as its default: a reply without `power` reads as on
  (`client.py:249`), one without a mode as 0 (`client.py:287`, `:291-294`). Junk in a flag
  reads as on, or, where it is empty, as off.
* An input renamed between the choice of an option and its delivery, or renamed behind
  the integration's back before it, gets the route meant for its old name. Between two
  polls nothing can tell (`ChosenBearsItsName` excepts just these inputs).
* A CEC command for a port the matrix does not have, and any CEC command after a first
  refresh blank in standby, which leaves no names to count, is sent with a mask that
  selects nothing, and reported as done (`coordinator.py:281-294`).
* Two overlapping renames of one slot: the first waits for the refresh, the second
  does not, so the backup keeps the older name for good (`coordinator.py:377`).
* A save is backed up with whatever routing is there after its refresh
  (`coordinator.py:428`), which another caller may have changed.
* `async_get_state` says "Three requests, and no more" (`api/client.py:241`) and makes
  five.
* A single rename counts as drift from the refresh inside it until its save
  (`DriftCurrent` excepts that window).
* The recall cool-down is counted from the call, not from the delivery, and a recall
  whose answer was lost lifts it.
* A restore that fails leaves the live routing on a slot's scenario.
* A failed restore has written EDIDs the state on show does not have yet. A snapshot
  before the next poll backs up the old ones from the state on show
  (`coordinator.py:598`), and the restore after it finds them in place there and skips
  them (`RestoredMeansStored` excepts this by `misread`).
* Junk in an array moves its later items up, so that the last port can show the
  aggregate over all ports (`ArraysOnlyMoveUp` allows it).
* A set-up while the matrix is blank in standby sees no ports and prunes all entities
  that exist per port (`RegistryMatches` goes by the ports that set-up saw).

## Bounds

`MaxFaults`, `MaxOutside` and `MaxRestarts` cap failed exchanges, interventions
behind the integration's back and restarts; `MaxNow` caps time; each caller makes
one call. `CoordinatorBackup` has three callers on one slot and one input, because
two can overlap in a refresh while a third uses the debouncer's cool-down; two
status commands suffice to put a write between the read of the names and that of
the EDIDs. `CoordinatorLive` has two callers, so that a recall can be refused, let
through, or delayed in the queue behind the other; a cool-down of one and one unit of
time are enough for that, and two inputs for a routing that no slot holds.
`RecallForgotten` has two outputs, so that a recall has a state half-way. Callers are
symmetric except in the run with liveness. The client's run has three attempts, the
code's `READ_ATTEMPTS`. The telnet run's window (3) and deadline (6) leave room for a
pause inside, at and past the window and for a deadline during one.

`PresetTransfer` has two outputs, so that a table can be cut, two inputs and two slots:
enough for a slot that is right and one that is not, and for a routing that no slot
holds; one caller that routes or saves, one failure or cut answer and one restart, and
two jobs (`MaxJobs`), so that a retry starts from what a failure left. The path of
`misread` takes three; the proofs hold for any number. Its callers do not rename, because
a rename reaches into the list of names a snapshot holds on to, and do not recall, because
that would be too large a run: for recalls there are the proofs.

`EntryLife` has two matrices, addresses, entries and dialogues: enough for the same
matrix twice, for an address that passes from one to the other, and for a dialogue and
a set-up of two entries between each other's exchanges. `MaxDeeds = 2` counts
what users and the world start (a dialogue, a lease, a new login, a move, a standby, a
restart), and each of these unfolds into several steps of a dialogue and a set-up;
`MaxLost = 1` answer lost by a set-up. Three forms (the checkbox, empty fields, another
login) tell apart every branch of `Resolved` and `Merged`; two sets of features make one
change of options that adds and one that removes entities. `EmptyFieldsKept` uses the
same instance.

`EntityControls` follows nine controls, one of each kind of table, label, array and
width; two outputs and inputs with two names, so that names can be swapped or equal;
values 0, 2
and 9 from the front panel, of which 9 is in no small table and equals the aggregate;
three moves (`MaxMoves`), so that a menu can outlive a rename and a broken poll.

Assumed: the store's write itself does not fail; stored dictionaries are values
(the code hands the store references, which can only make the file newer); at most
one scheduled and one debounced refresh are in progress; a recall settles within
the cool-down counted from its execution, as the comment at `coordinator.py:36` has
it; tables are as long as the matrix has ports. A command whose answer was lost is
carried out at once or never (`Fail`, `TransferFail`); one that the matrix carries out
later, behind other commands, is for the coordinator a change behind its back, which is a
step of `Outside`, and the delay itself is in `MatrixClient`.

## Fairness

`Coordinator!Fairness` is weak fairness of: successful exchanges (the lock's head is
served; faults are bounded, so the matrix answers in the end), resumed coroutines
and saves (the event loop runs what is ready), the refresh timer and the debouncer's
timer (Home Assistant fires timers), and the outputs of a recall (it finishes).
Nothing forces a call, a restart, an intervention or a tick. Retries of the same
client cannot be starved, because the lock is FIFO. `MatrixClient!FairSpec` has weak fairness of each
caller's own steps only, including the timeout inside `NoReply`; the CGI owes
nothing. `TelnetReply!FairSpec` has weak fairness of the client and of time.
`EntryLifecycle!Fairness` is weak fairness of each entry's set-up: the event loop runs
what is due, the request times out if nobody answers, and Home Assistant retries an
entry that is not ready. Lost answers are bounded (`MaxLost`), so a set-up gets through
in the end. Nothing forces a user to finish a dialogue, so `Recovers` asks for a loaded
entry or for one stopped over its login, and no more; that a stopped one has somebody
asked is the safety property `AskedForLogin`.

## Proofs

Checked by TLAPS for every value of the constants under the named assumptions of
the modules (ports are a set of numbers, the default values belong to their sets,
`None` is none of the values, polls are no callers, …).

`Coordinator_proofs`:

* `Typing`: `Spec => []TypeOK`, one lemma per group of actions.
* `BackupReachesDisk`: `Spec => []DiskCurrent`. Inductive given the types. The step
  that matters is `FollowUp`: where it persists nothing, it has changed nothing
  (`NothingToPersist`), and where it persists, it hands over exactly the new memory
  and becomes a saver; and a saver leaves that state only by a `StoreWrite`, which
  empties `pending`.
* `RecallsAreSpaced`: `Spec => []RecallsSpaced`. Not inductive, since the guard
  looks at the latest recall only; `SpacingInv` adds that `appliedAt` is as late as
  every recall let through, unless one failed or the integration restarted.
* `NobodyIsStranded`: `Spec => []NobodyStranded`, what safety can say of `CallsReturn`. Whoever
  has something to send has exactly one place in the lock's queue and nobody else has
  one; who awaits a refresh is to resume or the refresh is in progress; and at every
  moment somebody can go on: a caller resumes, the holder of the lock sends, or the next
  refresh is armed. The invariant, `LoopOK`, says the queue is a line of those who wait
  (`Lines`, with the lemmas `Joins` and `Leaves`), that at most one coroutine awaits the shared
  refresh and the debouncer runs while it does, and that polling never stops. It takes the
  other waiters as parameters, so that the jobs' proof uses its step lemmas. The run shows
  `CallsReturn` itself, on its instance.

`CoordinatorBackup_proofs` (any number of callers, polls, slots and inputs):

* `DriftIsShown`: `Spec => []DriftCurrent`, by `DriftInv`. `DriftCurrent` excepts slots
  being renamed, so it is not inductive: a rename of a slot that is not backed up ends
  without a save. The half added says that such a slot is never in the drift.
* `DoneIsDurable`: `Spec => []AcknowledgedIsDurable`. Slots and inputs are treated alike,
  as cells with writers, a value in memory, one on disk, and the values that are good
  for each writer (`Cell`): until a writer followed up, the disk has what memory has; a
  sole writer that followed up left a good value in memory; one that is done left a
  good value on disk. `FollowUpCells` shows that the tail of a write touches no cell
  but its own and persists whenever it changes one.
* `BackupFollowsMatrix`: `Spec => []BackupInStep`, by `AgreeInv`: the same discipline with
  what the matrix has as the good value (`BackupAgrees`). It needs two more facts: no
  poll carries an old name of a slot nobody renames (`NamesRead`), and a rename or EDID
  change that waits for its refresh has been carried out (`Carried`).

`MatrixClient_proofs`:

* `Typing`, and `OneExchangeAtATime` for the lock.
* `AllAttemptsAreMade`, from an invariant that ties the attempt number to the state.
* `WritesAtMostOnce`, `SuccessStands`, from `WritesInv`: for each write, the request
  on the wire and the executions together never exceed one, and which of the two it
  is follows from the caller's state.
* `ImplementsService`: `Spec => ServiceSpec`, each step mapped to a step of
  `CommandService` or a stutter.

`EntryLifecycle_proofs` (any matrices, addresses, entries, dialogues, logins):
`Invariance` is `Spec => []Inv`, where `Inv` adds to the types what the steps rest on. An
open discovery is of a matrix without an entry, and a reauthentication of the entry it
goes by (`FlowsOK`); a set-up has an entry and a client whose address once was the
matrix's (`SetupsOK`); whatever entries and devices are bound to once answered where it
was found (`Traced`). Without these a discovery could create a second entry and a device
link could name any matrix. From it: `Typing`, `OneEntry`, `Bound`, `StoredLoginInUse`,
`RegistryIsWanted`, the run's five invariants, and `LoginIsAskedFor`, its action property:
each action by which an entry stops or loses its dialogue is looked at in turn.

`TelnetReply_proofs` (any length of table, any window and timeout): `Typing`, which needs
that the silence is no longer than the time (`QuietInv`); `EmptyMeansEmpty`,
`PromptIsWhole` and `RebootOutlivesDrop` from `ReplyInv`, which says what has been said
and heard when a window or the deadline is over, and which of the three ends a finished
command came to.

`PresetTransfer_proofs` (any number of jobs, callers, polls, slots and ports) reuses the
coordinator's step lemmas for `OthersAct`; for that, `Coordinator` states its types with
the waiters of the queue as a parameter (`QueueTypeOK`), and so do their proofs (`Typed`).

* `TransferTyping`: `TransferSpec => []TransferTypeOK`, by `JobOK`, which adds what a phase
  may await (`PhaseOK`) and, of a read's plan, that it holds reads only (`PlanOK`).
* `TransferReachesDisk`: by `TransferStore`, the coordinator's `InStore` with the snapshot as
  one more saver.
* `TransferDriftIsShown`: by `DriftInv` outside a snapshot's save.
* `BackupIsNotWiped`: an action property. A snapshot of empty slots is refused, and of the
  callers' writes only the follow-up of a clear whose slot was the last one backed up
  empties the backup.
* `NobodyIsStrandedByJobs`: the same as `NobodyIsStranded` with the job as one more waiter of
  the lock or of the refresh. A restore that starts its own refresh is the only one that
  awaits it, which is why the debouncer cannot take it for the timer's.

`PresetRestore_proofs` proves what the two jobs promise. `Effects` says once what each of the
fourteen kinds of step does to the job and the matrix, so that every invariant below
is a case split over effects, not over actions; `OthersRespect` says what other callers
leave alone while they save nothing and set no EDID.

* `SnapshotIsFaithful`, by `SnapshotInv`: while the job reads, each slot has been found
  as it is or cut short, or still has its read left (and a slot whose answer is in, but
  not yet believed, is both); afterwards the backup is what was found. That the disk has it too is
  `DiskSettled`: without savers, disk and memory have the same presets at every await.
* `RoutingIsPutBack`, by `RoutingInv`. The mirror of the writes may be wrong: it starts from
  the last poll, and after a failed restore that is not the matrix's routing. Where it is
  wrong about an output, the restore has not written that output yet, so the mirror has
  still the value to be put back, and every slot saved so far wanted just that value there
  and got another (`StrayWhilePushing`). At the end such an output has spoiled every
  slot of the backup (`StrayAfterwards`), the verification finds one wrong, and the restore
  does not report success. The theorem rests on there being a slot that is backed up whole, because one of which
  only the beginning is known routes only those outputs, and on all outputs of a slot being routed before it is saved
  (`RoutedBeforeSaved`).
* `RestoredIsStored`: slots by `VerifyInv` (each slot is as backed up, found wrong, still to
  be read, or not backed up whole; a cut answer never equals a whole backup), names by `NamesInv` (in place or still to be renamed), EDIDs by `EdidInv`. The
  last is the hard one, because EDIDs are skipped by what is on show and never verified:
  unless somebody else sets EDIDs, one that is not the backup's is shown as it is, by
  the state on show and by every poll that has read the input status (`EdidShown`), so
  that the restore does not skip it.

Their assumptions: ports are numbers (`PortNumbersAssumption`), a poll reads the input status
(`EdidsReadAssumption`), callers do not rename (`NoRenameAssumption`).

`EntityControls_proofs` (any names, ports, values and menus of any age): `ChoiceIsNamed`,
`ControlsTyping`, and

* `ShownIsTrue`, by `CopyOK`: a copy that is up to date *is* the matrix's state. The step that
  matters is a poll: a reply without junk is kept as it is (`WhatIsKept`) and the aggregate
  is all that is cut off (`WhatIsTaken`).
* `BrokenRepliesOnlyMoveUp`: the items kept take the places from 1 on, each at or before its
  own; the property is about arrays, since single values have defaults. `PlacesAreTaken` proves that by counting: `Place` is an injection of the
  positions kept into as many places, hence onto them.

Only model-checked: all liveness (`CallsReturn`, `EventuallyConfirmed`, `EventuallyDerived`,
`Recovers`, `CommandEnds`), because the prover handles neither fairness nor `ENABLED`; of the
first, `NobodyIsStranded` proves the part that needs neither, and `CoordinatorBackup`
checks it. Every invariant and every other action
property of the passing runs is a theorem.

## What is not modelled

* Of the telnet client: the lock between two commands, and the text itself. The restart
  of the network module goes over telnet, not through the HTTP lock; it is taken for
  one more of `Coordinator`'s commands, which only makes it wait longer.
* Of the jobs: two at once (nothing in the code keeps a snapshot and a restore apart),
  and one beside a rename.
* Of the lifecycle: an entry being removed; the polling interval among the options.
* Of the services: CEC commands. They change nothing the integration keeps, and what a
  mask selects follows from its definition; what they do with no ports is noted above.
* Of the entities: the sensors for sources and sinks, whether the extracted-audio routes
  are available, buttons that do nothing but call one write of `Coordinator`.
* The matrix's own behaviour beyond what the code relies on; it is marked
  external in the map of `PROJECT.json`, as are Home Assistant's flow manager, debouncer,
  refresh timer and store.
* Diagnostics (a read-only dump), translations and metadata.

## Plan

In order:

1. Two telnet commands sharing the lock, with the network module restarting: the lock
   outlives every way a command ends.
2. A snapshot and a restore at the same time, and jobs beside renames. `MaxJobs` and
   the one `job` become a function of jobs, as callers are.
3. Removal of an entry, with its store and its open dialogues.

The runs stay few: as modules come, runs that ask related questions of the same
instance are joined.
