----------------------------- MODULE ConfigFlow -----------------------------
(***************************************************************************)
(* The config entries of the integration and the dialogues that write      *)
(* them: set-up by hand, discovery by a DHCP lease, reconfiguration,       *)
(* reauthentication and options.  A dialogue validates a login against a   *)
(* host in up to two exchanges, the login and the status command that      *)
(* names the matrix, and writes an entry when both are in.  Meanwhile      *)
(* other dialogues go on and matrices change their login or their address. *)
(***************************************************************************)
EXTENDS Integers, FiniteSets

CONSTANTS
    Matrices,   \* a matrix stands for its MAC address, its identity
    Hosts,      \* addresses
    Users, Passwords,
    DefaultLogin,  \* the factory login the checkbox stands for
    Forms,      \* what users enter: the checkbox, a user name, a password
    Choices,    \* the sets of features users tick
    Entries,    \* ids of config entries
    Dialogs,    \* dialogues users or leases may have open at once
    Places, Accounts,   \* where the matrices are at first, and their logins
    Stored,     \* the entries stored at first
    MaxDeeds,   \* bound of the exploration
    None

Login == [user : Users \cup {None}, password : Passwords \cup {None}]
Form == [default : BOOLEAN, user : Users \cup {None}, password : Passwords \cup {None}]
Entry == [unique : Matrices, host : Hosts, login : Login, features : Choices]

Flow == [kind : {"none", "user", "dhcp", "reconfigure", "reauth"},
         step : {"over", "form", "probe", "login", "info"},
         entry : Entries \cup {None}, unique : Matrices \cup {None},
         host : Hosts \cup {None}, login : Login]

NoLogin == [user |-> None, password |-> None]
NoFlow == [kind |-> "none", step |-> "over", entry |-> None, unique |-> None,
           host |-> None, login |-> NoLogin]

\* An entry has at most one reauthentication open, which goes by its id.
Flows == Dialogs \cup Entries

States == {"not_loaded", "login", "info", "refresh", "loaded", "retry", "error"}

ASSUME NoneIsNone ==
    None \notin Matrices \cup Hosts \cup Users \cup Passwords \cup Entries \cup Entry
ASSUME IdsAssumption == Dialogs \cap Entries = {}
ASSUME LoginsAssumption ==
    /\ DefaultLogin \in [user : Users, password : Passwords]
    /\ Forms \subseteq Form
    /\ Accounts \subseteq [Matrices -> [user : Users, password : Passwords]]
    /\ {} \in Choices
ASSUME PlacesAssumption == Places \subseteq [Hosts -> Matrices \cup {None}]
ASSUME StoredAssumption ==
    \A s \in Stored :
        /\ s \in [Entries -> Entry \cup {None}]
        /\ \A d, e \in Entries :
               s[d] # None /\ s[e] # None /\ s[d].unique = s[e].unique => d = e
ASSUME DeedsAssumption == MaxDeeds \in Nat

VARIABLES
    at,        \* the matrix that answers at each host
    account,   \* the login each matrix asks for
    entries,   \* the stored config entries
    state,     \* of each entry's set-up
    reload,    \* a reload of the entry is scheduled
    flow,      \* each dialogue
    deeds      \* dialogues opened and changes made so far

networkVars == <<at, account>>
entryVars == <<entries, state, reload>>

----------------------------------------------------------------------------
(* Validation.                                                             *)

\* Without a user name the login is skipped: reads need none.
LogsIn(login) == login.user # None

Accepts(m, login) == login = account[m]

\* The next step once a login is to be validated.
FirstStep(login) == IF LogsIn(login) THEN "login" ELSE "info"

\* Slip: the checkbox is stored with the rest of the form.
ResolvedWithFlag(form) == IF form.default THEN DefaultLogin ELSE form

\* The checkbox wins over the text fields.
Resolved(form) ==
    IF form.default THEN DefaultLogin
    ELSE [user |-> form.user, password |-> form.password]

\* An update of an entry's data replaces the fields it has and no others.
Merged(login, update) ==
    [user |-> IF update.user = None THEN login.user ELSE update.user,
     password |-> IF update.password = None THEN login.password ELSE update.password]

----------------------------------------------------------------------------
(* The framework's part.                                                   *)

Known(m) == {e \in Entries : entries[e] # None /\ entries[e].unique = m}

\* Another dialogue holds this identity: the framework turns this one away.
InProgress(f, m) == \E g \in Flows \ {f} : flow[g].unique = m

\* A reauthentication or a reconfiguration of the entry is open.
InDialogue(e) == \E f \in Flows : flow[f].entry = e

End(f) == flow' = [flow EXCEPT ![f] = NoFlow]

\* A known matrix at a new host: its entry follows, and is reloaded unless a
\* set-up is under way or has failed over the login.
MoveEntry(e, h) ==
    /\ entries' = [entries EXCEPT ![e].host = h]
    /\ reload' = [reload EXCEPT ![e] =
           @ \/ (h # entries[e].host /\ state[e] \in {"loaded", "retry"})]

\* The new entry, under a fresh id, is to be set up, and other dialogues about
\* the same matrix are over.
Create(f, m, host, login) ==
    /\ \E d \in Entries : entries[d] = None
    /\ LET e == CHOOSE d \in Entries : entries[d] = None IN
        /\ entries' = [entries EXCEPT ![e] =
               [unique |-> m, host |-> host, login |-> login, features |-> {}]]
        /\ reload' = [reload EXCEPT ![e] = TRUE]
        /\ flow' = [g \in Flows |-> IF g = f \/ flow[g].unique = m THEN NoFlow
                                    ELSE flow[g]]

\* Slip: a reauthentication does not ask for a reload.
UpdateQuietly(f, host, login) ==
    LET e == flow[f].entry IN
    /\ entries' = [entries EXCEPT ![e].host = host, ![e].login = Merged(@, login)]
    /\ reload' = reload
    /\ End(f)

\* The dialogue's data goes into its entry, which is reloaded in any case.
Update(f, host, login) ==
    LET e == flow[f].entry IN
    /\ entries' = [entries EXCEPT ![e].host = host, ![e].login = Merged(@, login)]
    /\ reload' = [reload EXCEPT ![e] = TRUE]
    /\ End(f)

----------------------------------------------------------------------------
(* Opening a dialogue, and submitting its form.                            *)

Deed == deeds < MaxDeeds /\ deeds' = deeds + 1

Opened(kind, step, entry, unique, host) ==
    [kind |-> kind, step |-> step, entry |-> entry, unique |-> unique, host |-> host,
     login |-> NoLogin]

StartUser(f) ==
    /\ Deed
    /\ flow[f].kind = "none"
    /\ flow' = [flow EXCEPT ![f] = Opened("user", "form", None, None, None)]
    /\ UNCHANGED <<networkVars, entryVars>>

StartReconfigure(f, e) ==
    /\ Deed
    /\ flow[f].kind = "none"
    /\ entries[e] # None
    /\ flow' = [flow EXCEPT ![f] = Opened("reconfigure", "form", e, None, None)]
    /\ UNCHANGED <<networkVars, entryVars>>

\* A lease the matrix at h has just been given.
Lease(f, m, h) ==
    /\ Deed
    /\ flow[f].kind = "none"
    /\ at[h] = m
    /\ ~InProgress(f, m)

\* Of a known matrix: its entry's host is updated, unvalidated.
LeaseOfKnown(f, m, h) ==
    /\ Lease(f, m, h)
    /\ \E e \in Known(m) : MoveEntry(e, h)
    /\ UNCHANGED <<networkVars, state, flow>>

\* Of a new one: is it a matrix at all?  Reads need no login.
LeaseOfNew(f, m, h) ==
    /\ Lease(f, m, h)
    /\ Known(m) = {}
    /\ flow' = [flow EXCEPT ![f] = Opened("dhcp", "probe", None, m, h)]
    /\ UNCHANGED <<networkVars, entryVars>>

\* A dialogue its user opened is deleted when it is closed.
Abandon(f) ==
    /\ flow[f].kind \in {"user", "reconfigure"}
    /\ flow[f].step = "form"
    /\ End(f)
    /\ UNCHANGED <<networkVars, entryVars, deeds>>

\* The host and the login a submitted form is validated with.
Submit(f, h, form) ==
    LET fl == flow[f]
        host == CASE fl.kind = "dhcp"   -> fl.host
                  [] fl.kind = "reauth" -> entries[fl.entry].host
                  [] OTHER              -> h
        login == IF fl.kind = "reauth"
                 THEN [user |-> form.user, password |-> form.password]
                 ELSE Resolved(form)
    IN
    /\ fl.step = "form"
    /\ flow' = [flow EXCEPT ![f].host = host, ![f].login = login,
                            ![f].step = FirstStep(login)]
    /\ UNCHANGED <<networkVars, entryVars, deeds>>

SetOptions(e, features) ==
    /\ Deed
    /\ entries[e] # None
    /\ features # entries[e].features
    /\ entries' = [entries EXCEPT ![e].features = features]
    /\ reload' = [reload EXCEPT ![e] = TRUE]
    /\ UNCHANGED <<networkVars, state, flow>>

----------------------------------------------------------------------------
(* The exchanges of a validation.                                          *)

\* The matrix that answers a dialogue in this step of its validation.
Answers(f, step) ==
    IF flow[f].step = step /\ flow[f].host # None THEN at[flow[f].host] ELSE None

\* No usable answer: back to the form, or the end of a discovery.
Unanswered(f) ==
    /\ flow[f].step \in {"probe", "login", "info"}
    /\ \/ flow[f].step = "probe" /\ End(f)
       \/ flow[f].step # "probe" /\ flow' = [flow EXCEPT ![f].step = "form"]
    /\ UNCHANGED <<networkVars, entryVars, deeds>>

LoginAnswered(f) ==
    LET m == Answers(f, "login") IN
    /\ m # None
    /\ flow' = [flow EXCEPT ![f].step =
                    IF Accepts(m, flow[f].login) THEN "info" ELSE "form"]
    /\ UNCHANGED <<networkVars, entryVars, deeds>>

ProbeAnswered(f) ==
    /\ Answers(f, "probe") # None
    /\ flow' = [flow EXCEPT ![f].step = "form"]
    /\ UNCHANGED <<networkVars, entryVars, deeds>>

\* Slip: set-up by hand does not look for an entry of the same matrix.
FinishUserUnchecked(f, m) ==
    /\ flow[f].kind = "user"
    /\ \/ InProgress(f, m) /\ End(f) /\ UNCHANGED <<entries, reload>>
       \/ ~InProgress(f, m) /\ Create(f, m, flow[f].host, flow[f].login)

FinishUser(f, m) ==
    /\ flow[f].kind = "user"
    /\ \/ InProgress(f, m) /\ End(f) /\ UNCHANGED <<entries, reload>>
       \/ /\ ~InProgress(f, m)
          /\ \E e \in Known(m) : MoveEntry(e, flow[f].host)
          /\ End(f)
       \/ /\ ~InProgress(f, m)
          /\ Known(m) = {}
          /\ Create(f, m, flow[f].host, flow[f].login)

\* Slip: whatever matrix answers will do.
SameMatrixAny(f, m) == ~InProgress(f, m)

\* A reconfigured entry stays with its matrix.
SameMatrix(f, m) == ~InProgress(f, m) /\ m = entries[flow[f].entry].unique

FinishReconfigure(f, m) ==
    /\ flow[f].kind = "reconfigure"
    /\ \/ SameMatrix(f, m) /\ Update(f, flow[f].host, flow[f].login)
       \/ ~SameMatrix(f, m) /\ End(f) /\ UNCHANGED <<entries, reload>>

\* The identity of a discovered matrix is the lease's.
FinishDiscovery(f) ==
    /\ flow[f].kind = "dhcp"
    /\ Create(f, flow[f].unique, flow[f].host, flow[f].login)

FinishReauth(f) ==
    /\ flow[f].kind = "reauth"
    /\ Update(f, entries[flow[f].entry].host, flow[f].login)

InfoAnswered(f) ==
    LET m == Answers(f, "info") IN
    /\ m # None
    /\ FinishUser(f, m) \/ FinishReconfigure(f, m) \/ FinishDiscovery(f) \/ FinishReauth(f)
    /\ UNCHANGED <<networkVars, state, deeds>>

----------------------------------------------------------------------------
(* The world: somebody changes a matrix's login, or an address.            *)

ChangeLogin(m, login) ==
    /\ Deed
    /\ account' = [account EXCEPT ![m] = login]
    /\ UNCHANGED <<at, entryVars, flow>>

MoveMatrix(m, h) ==
    /\ Deed
    /\ at[h] = None
    /\ at' = [k \in Hosts |-> IF k = h THEN m ELSE IF at[k] = m THEN None ELSE at[k]]
    /\ UNCHANGED <<account, entryVars, flow>>

Opening(f) ==
    \/ StartUser(f)
    \/ \E e \in Entries : StartReconfigure(f, e)
    \/ \E m \in Matrices, h \in Hosts : LeaseOfKnown(f, m, h) \/ LeaseOfNew(f, m, h)

Dialogue(f) ==
    \/ f \in Dialogs /\ Opening(f)
    \/ \E h \in Hosts, form \in Forms : Submit(f, h, form)
    \/ Abandon(f)
    \/ Unanswered(f) \/ LoginAnswered(f) \/ ProbeAnswered(f) \/ InfoAnswered(f)

World ==
    \E m \in Matrices :
        \/ \E a \in Accounts : ChangeLogin(m, a[m])
        \/ \E h \in Hosts : MoveMatrix(m, h)

FlowTypeOK ==
    /\ at \in [Hosts -> Matrices \cup {None}]
    /\ account \in [Matrices -> [user : Users, password : Passwords]]
    /\ entries \in [Entries -> Entry \cup {None}]
    /\ state \in [Entries -> States]
    /\ reload \in [Entries -> BOOLEAN]
    /\ flow \in [Flows -> Flow]
    /\ deeds \in Nat
=============================================================================
