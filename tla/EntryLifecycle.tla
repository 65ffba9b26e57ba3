--------------------------- MODULE EntryLifecycle ---------------------------
(***************************************************************************)
(* The set-up of the config entries, composed with the dialogues that      *)
(* write them.  A set-up takes the entry's host and login as they are when *)
(* it begins, checks the login, reads which matrix answers, takes a first  *)
(* state, registers the device and brings the entity registry in line.     *)
(* Everything it learns hangs on the matrix that happened to answer.       *)
(***************************************************************************)
EXTENDS ConfigFlow, Entities

CONSTANTS
    Counts,    \* how many ports of each kind a matrix has
    MaxLost    \* bound on the answers a set-up loses

Client == [host : Hosts, login : Login]

ASSUME ClientsAssumption == None \notin Client
ASSUME CountsAssumption == Counts \in [PortKinds -> Nat]
ASSUME LostAssumption == MaxLost \in Nat

VARIABLES
    client,    \* the host and login each entry's set-up works with
    runtime,   \* the matrix its set-up read
    seen,      \* the port counts its first refresh reported
    registry,  \* the entities registered for each entry
    devices,   \* the entries each device is linked to
    blank,     \* matrices of a variant that blanks its tables, in standby
    lost,      \* answers set-ups lost so far
    past       \* the matrices that ever answered at each host, as far as known

setupVars == <<client, runtime, seen, registry, devices>>
worldVars == <<at, account, blank, past>>
vars == <<worldVars, entryVars, flow, deeds, lost, setupVars>>

NoPorts == [k \in PortKinds |-> 0]

----------------------------------------------------------------------------
(* The set-up of an entry.                                                 *)

Busy(e) == state[e] \in {"login", "info", "refresh"}

\* Slip: a set-up that found nobody is not tried again.
BeginOnReload(e) ==
    /\ entries[e] # None
    /\ ~Busy(e)
    /\ reload[e]
    /\ reload' = [reload EXCEPT ![e] = FALSE]
    /\ state' = [state EXCEPT ![e] = FirstStep(entries[e].login)]
    /\ client' = [client EXCEPT ![e] = [host |-> entries[e].host, login |-> entries[e].login]]
    /\ runtime' = [runtime EXCEPT ![e] = None]
    /\ UNCHANGED <<worldVars, entries, flow, deeds, lost, seen, registry, devices>>

\* A reload waits for a set-up under way; a set-up that found nobody is
\* tried again.  Unloading drops the entry's coordinator.
Begin(e) ==
    /\ entries[e] # None
    /\ ~Busy(e)
    /\ reload[e] \/ state[e] = "retry"
    /\ reload' = [reload EXCEPT ![e] = FALSE]
    /\ state' = [state EXCEPT ![e] = FirstStep(entries[e].login)]
    /\ client' = [client EXCEPT ![e] = [host |-> entries[e].host, login |-> entries[e].login]]
    /\ runtime' = [runtime EXCEPT ![e] = None]
    /\ UNCHANGED <<worldVars, entries, flow, deeds, lost, seen, registry, devices>>

\* The matrix that answers an entry's set-up in this step.
AnswersSetup(e, step) == IF state[e] = step THEN at[client[e].host] ELSE None

\* Nobody answers, or the answer is lost or makes no sense.
SetupFails(e) ==
    /\ Busy(e)
    /\ \/ at[client[e].host] = None /\ lost' = lost
       \/ lost < MaxLost /\ lost' = lost + 1
    /\ state' = [state EXCEPT ![e] = "retry"]
    /\ UNCHANGED <<worldVars, entries, reload, flow, deeds, setupVars>>

\* A rejected login ends the set-up and asks the user for another, unless a
\* dialogue about the entry is open already.
SetupLogin(e) ==
    LET m == AnswersSetup(e, "login") IN
    /\ m # None
    /\ \/ /\ Accepts(m, client[e].login)
          /\ state' = [state EXCEPT ![e] = "info"]
          /\ flow' = flow
       \/ /\ ~Accepts(m, client[e].login)
          /\ state' = [state EXCEPT ![e] = "error"]
          /\ flow' = IF InDialogue(e) THEN flow
                     ELSE [flow EXCEPT ![e] =
                               Opened("reauth", "form", e, entries[e].unique, None)]
    /\ UNCHANGED <<worldVars, entries, reload, deeds, lost, setupVars>>

SetupInfo(e) ==
    LET m == AnswersSetup(e, "info") IN
    /\ m # None
    /\ runtime' = [runtime EXCEPT ![e] = m]
    /\ state' = [state EXCEPT ![e] = "refresh"]
    /\ UNCHANGED <<worldVars, entries, reload, flow, deeds, lost,
                   client, seen, registry, devices>>

PortsReported(m) == IF m \in blank THEN NoPorts ELSE Counts

\* The device, and every platform's entities, with the options of the moment.
SetupFinish(e) ==
    LET m == AnswersSetup(e, "refresh")
        counts == PortsReported(m)
    IN
    /\ m # None
    /\ seen' = [seen EXCEPT ![e] = counts]
    /\ devices' = [devices EXCEPT ![runtime[e]] = @ \cup {e}]
    /\ registry' = [registry EXCEPT ![e] =
           Registered(@, entries[e].features, runtime[e], counts)]
    /\ state' = [state EXCEPT ![e] = "loaded"]
    /\ UNCHANGED <<worldVars, entries, reload, flow, deeds, lost, client, runtime>>

\* The entry that answers for a device, and the matrix it talks to.
CoordinatorFor(device) ==
    {runtime[e] : e \in {d \in devices[device] : state[d] = "loaded"}}

----------------------------------------------------------------------------
(* The world.                                                              *)

\* Home Assistant restarts: dialogues and set-ups are gone, storage stays.
Restart ==
    /\ Deed
    /\ state' = [e \in Entries |-> "not_loaded"]
    /\ reload' = [e \in Entries |-> entries[e] # None]
    /\ flow' = [f \in Flows |-> NoFlow]
    /\ client' = [e \in Entries |-> None]
    /\ runtime' = [e \in Entries |-> None]
    /\ UNCHANGED <<worldVars, entries, lost, seen, registry, devices>>

Standby(m) ==
    /\ Deed
    /\ blank' = IF m \in blank THEN blank \ {m} ELSE blank \cup {m}
    /\ UNCHANGED <<at, account, past, lost, entryVars, flow, setupVars>>

WorldTurns ==
    /\ World
    /\ past' = [h \in Hosts |-> past[h] \cup ({at'[h]} \ {None})]
    /\ UNCHANGED <<blank, lost, setupVars>>

Talk(f) ==
    /\ Dialogue(f)
    /\ UNCHANGED <<blank, past, lost, setupVars>>

Options(e) ==
    /\ \E features \in Choices : SetOptions(e, features)
    /\ UNCHANGED <<blank, past, lost, setupVars>>

Setup(e) == Begin(e) \/ SetupFails(e) \/ SetupLogin(e) \/ SetupInfo(e) \/ SetupFinish(e)

Init ==
    /\ at \in Places
    /\ account \in Accounts
    /\ entries \in Stored
    /\ state = [e \in Entries |-> "not_loaded"]
    /\ reload = [e \in Entries |-> entries[e] # None]
    /\ flow = [f \in Flows |-> NoFlow]
    /\ deeds = 0
    /\ lost = 0
    /\ client = [e \in Entries |-> None]
    /\ runtime = [e \in Entries |-> None]
    /\ seen = [e \in Entries |-> NoPorts]
    /\ registry = [e \in Entries |-> {}]
    /\ devices = [m \in Matrices |-> {}]
    /\ blank = {}
    /\ past = [h \in Hosts |->
           ({at[h]} \ {None}) \cup {m \in Matrices : \E e \in Known(m) : entries[e].host = h}]

Next ==
    \/ \E e \in Entries : Setup(e) \/ Options(e)
    \/ \E f \in Flows : Talk(f)
    \/ \E m \in Matrices : Standby(m)
    \/ Restart
    \/ WorldTurns

\* The event loop runs what is due, and the retry timer fires.
Fairness == \A e \in Entries : WF_vars(Setup(e))

Spec == Init /\ [][Next]_vars /\ Fairness

----------------------------------------------------------------------------
(* Properties.                                                             *)

TypeOK ==
    /\ FlowTypeOK
    /\ client \in [Entries -> Client \cup {None}]
    /\ runtime \in [Entries -> Matrices \cup {None}]
    /\ seen \in [Entries -> [PortKinds -> Nat]]
    /\ devices \in [Matrices -> SUBSET Entries]
    /\ blank \subseteq Matrices
    /\ lost \in Nat
    /\ past \in [Hosts -> SUBSET Matrices]

\* However dialogues by hand and discoveries of the same matrix interleave,
\* a matrix ends up with at most one entry.
OneEntryPerMatrix ==
    \A d, e \in Entries :
        entries[d] # None /\ entries[e] # None /\ entries[d].unique = entries[e].unique
            => d = e

\* A loaded entry works with the login that is stored for it, unless a
\* reload is due: no dialogue ends leaving the old login in use.
LoadedWithStoredLogin ==
    \A e \in Entries :
        state[e] = "loaded" /\ ~reload[e] => client[e].login = entries[e].login

\* Stopped over its login, with nothing due and no dialogue to enter another.
Stopped(e) == state[e] = "error" /\ ~reload[e]
Stranded(e) == Stopped(e) /\ ~InDialogue(e)

\* An entry that stopped over its login has the user asked for another, or a
\* new set-up due.  It is left without a way on only where a reconfiguration
\* that kept the question from being asked is closed or comes to nothing.
AskedForLogin ==
    [][\A e \in Entries : ~Stranded(e) /\ Stranded(e)' =>
           \E f \in Dialogs :
               flow[f].kind = "reconfigure" /\ flow[f].entry = e /\ flow'[f] = NoFlow]_vars

\* What is registered for a loaded entry is what its options ask for, for
\* the matrix and the ports its set-up saw: nothing left of features turned
\* off, of another matrix, or of ports that are gone.
RegistryMatches ==
    \A e \in Entries :
        state[e] = "loaded" /\ ~reload[e]
            => registry[e] = AllWanted(entries[e].features, runtime[e], seen[e])

Shared == \E h \in Hosts : \E m, n \in past[h] : m # n

\* As long as no address passes from one matrix to another, an entry's
\* coordinator drives the matrix the entry is of, and an action on a device
\* reaches that device.
BoundToItsMatrix ==
    \/ Shared
    \/ /\ \A e \in Entries : state[e] = "loaded" => runtime[e] = entries[e].unique
       /\ \A m \in Matrices : CoordinatorFor(m) \subseteq {m}

\* The matrix at the entry's address takes its login.
Reachable(e) ==
    /\ entries[e] # None
    /\ at[entries[e].host] # None
    /\ ~LogsIn(entries[e].login) \/ Accepts(at[entries[e].host], entries[e].login)

\* Once the matrix can be reached at the entry's address with its login, the
\* entry gets loaded, unless a login it had before stopped it for good.
Recovers ==
    \A e \in Entries :
        <>[]Reachable(e) => []<>(state[e] = "loaded" \/ Stopped(e))

\* What the documentation says of the forms, where fields are left empty for
\* a matrix without a login: an entry keeps the login entered last.
StoresWhatWasEntered ==
    [][\A f \in Flows :
          /\ flow[f].kind \in {"reconfigure", "reauth"}
          /\ flow[f].step = "info"
          /\ flow'[f].kind = "none"
          /\ ~reload[flow[f].entry] /\ reload'[flow[f].entry]
          => entries'[flow[f].entry].login = flow[f].login]_vars
=============================================================================
