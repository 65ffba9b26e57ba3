------------------------ MODULE EntryLifecycle_proofs ------------------------
(***************************************************************************)
(* Proofs about EntryLifecycle, for any matrices, addresses, entries,      *)
(* dialogues and bounds.  The invariant says what a dialogue, a set-up and *)
(* a device link rest on: a discovery is of a matrix that has no entry, a  *)
(* reauthentication is of the entry it goes by, and whatever an entry was  *)
(* bound to once answered at the address it was found at.                  *)
(***************************************************************************)
EXTENDS EntryLifecycle, TLAPS

----------------------------------------------------------------------------
(* The invariant.                                                          *)

\* What the framework and the steps before know of an open dialogue.
FlowOK(f) ==
    /\ flow[f].kind = "dhcp" =>
           /\ flow[f].unique # None /\ flow[f].host # None
           /\ Known(flow[f].unique) = {}
           /\ flow[f].unique \in past[flow[f].host]
    /\ flow[f].kind \in {"reconfigure", "reauth"} =>
           flow[f].entry # None /\ entries[flow[f].entry] # None
    /\ flow[f].step = "probe" => flow[f].kind = "dhcp"
    /\ f \in Entries /\ flow[f].kind # "none" =>
           /\ flow[f].kind = "reauth" /\ flow[f].entry = f
           /\ flow[f].unique = entries[f].unique
    /\ flow[f].entry # None => flow[f].kind \in {"reconfigure", "reauth"}
    /\ flow[f].kind = "reconfigure" => flow[f].unique = None
    /\ flow[f].kind = "reauth" => f \in Entries

\* What a set-up rests on from its first step on.
SetupOK(e) ==
    /\ state[e] # "not_loaded" =>
           /\ entries[e] # None /\ client[e] # None
           /\ entries[e].unique \in past[client[e].host]
    /\ state[e] \in {"refresh", "loaded"} =>
           runtime[e] # None /\ runtime[e] \in past[client[e].host]

\* Addresses, entries and devices go back to a matrix that answered.
Traced ==
    /\ \A h \in Hosts : at[h] # None => at[h] \in past[h]
    /\ \A e \in Entries : entries[e] # None => entries[e].unique \in past[entries[e].host]
    /\ \A m \in Matrices : \A e \in devices[m] :
           entries[e] # None /\ \E h \in Hosts : {m, entries[e].unique} \subseteq past[h]

FlowsOK == \A f \in Flows : FlowOK(f)
SetupsOK == \A e \in Entries : SetupOK(e)

Inv == TypeOK /\ FlowsOK /\ SetupsOK /\ Traced

----------------------------------------------------------------------------
(* Types of what the operators return.                                     *)

LEMMA EntryIsSome == None \notin Entry /\ None \notin Matrices /\ None \notin Hosts
    /\ None \notin Entries /\ None \notin Client
BY NoneIsNone, ClientsAssumption

\* What a form stands for is a login, and so is what an update leaves.
LEMMA LoginTypes ==
    ASSUME NEW form \in Forms, NEW login \in Login, NEW update \in Login
    PROVE  /\ Resolved(form) \in Login
           /\ [user |-> form.user, password |-> form.password] \in Login
           /\ Merged(login, update) \in Login
           /\ FirstStep(login) \in {"login", "info"}
<1>1. form \in Form /\ DefaultLogin \in Login
  BY LoginsAssumption DEF Login
<1>2. form.user \in Users \cup {None} /\ form.password \in Passwords \cup {None}
  BY <1>1 DEF Form
<1>3. [user |-> form.user, password |-> form.password] \in Login
  BY <1>2 DEF Login
<1>4. Resolved(form) \in Login
  BY <1>1, <1>3 DEF Resolved
<1>5. Merged(login, update) \in Login
  BY DEF Merged, Login
<1> QED
  BY <1>3, <1>4, <1>5 DEF FirstStep

LEMMA OpenedType ==
    ASSUME NEW kind \in {"none", "user", "dhcp", "reconfigure", "reauth"},
           NEW step \in {"over", "form", "probe", "login", "info"},
           NEW entry \in Entries \cup {None}, NEW unique \in Matrices \cup {None},
           NEW host \in Hosts \cup {None}
    PROVE  NoFlow \in Flow /\ Opened(kind, step, entry, unique, host) \in Flow
BY DEF Opened, NoFlow, NoLogin, Flow, Login

----------------------------------------------------------------------------
(* What the framework's operations write.                                  *)

LEMMA MoveEntryType ==
    ASSUME FlowTypeOK, NEW e \in Entries, entries[e] # None, NEW h \in Hosts, MoveEntry(e, h)
    PROVE  /\ entries' \in [Entries -> Entry \cup {None}]
           /\ reload' \in [Entries -> BOOLEAN]
<1>1. entries[e] \in Entry
  BY DEF FlowTypeOK
<1> QED
  BY <1>1 DEF MoveEntry, FlowTypeOK, Entry

LEMMA UpdateType ==
    ASSUME FlowTypeOK, NEW f \in Flows, flow[f].entry \in Entries,
           entries[flow[f].entry] # None, NEW host \in Hosts, NEW login \in Login,
           Update(f, host, login)
    PROVE  /\ entries' \in [Entries -> Entry \cup {None}]
           /\ reload' \in [Entries -> BOOLEAN]
           /\ flow' \in [Flows -> Flow]
<1> DEFINE e == flow[f].entry
<1>1. entries[e] \in Entry
  BY DEF FlowTypeOK
<1>2. entries[e].login \in Login /\ Merged(entries[e].login, login) \in Login
  BY <1>1, LoginTypes DEF Entry, Merged, Login
<1>3. entries' \in [Entries -> Entry \cup {None}]
  BY <1>1, <1>2 DEF Update, FlowTypeOK, Entry
<1>4. NoFlow \in Flow
  BY DEF NoFlow, NoLogin, Flow, Login
<1> QED
  BY <1>3, <1>4 DEF Update, End, FlowTypeOK

LEMMA CreateType ==
    ASSUME FlowTypeOK, NEW f \in Flows, NEW m \in Matrices, NEW host \in Hosts,
           NEW login \in Login, Create(f, m, host, login)
    PROVE  /\ entries' \in [Entries -> Entry \cup {None}]
           /\ reload' \in [Entries -> BOOLEAN]
           /\ flow' \in [Flows -> Flow]
<1>1. NoFlow \in Flow
  BY DEF NoFlow, NoLogin, Flow, Login
<1>2. [unique |-> m, host |-> host, login |-> login, features |-> {}] \in Entry
  BY LoginsAssumption DEF Entry
<1> QED
  BY <1>1, <1>2 DEF Create, FlowTypeOK

----------------------------------------------------------------------------
(* The types.                                                              *)

\* A dialogue touches its own variables only, and keeps their types.
LEMMA DialogueType ==
    ASSUME Inv, NEW f \in Flows, Talk(f) PROVE TypeOK'
<1> DEFINE Typed == /\ deeds' \in Nat
                    /\ entries' \in [Entries -> Entry \cup {None}]
                    /\ reload' \in [Entries -> BOOLEAN]
                    /\ flow' \in [Flows -> Flow]
<1>1. FlowTypeOK /\ flow[f] \in Flow /\ FlowOK(f)
  BY DEF Inv, TypeOK, FlowTypeOK, FlowsOK
<1>2. ASSUME StartUser(f) PROVE Typed
  <2>1. Opened("user", "form", None, None, None) \in Flow
    BY OpenedType
  <2> QED
    BY <1>1, <1>2, <2>1 DEF StartUser, Deed, FlowTypeOK, entryVars
<1>3. ASSUME NEW e \in Entries, StartReconfigure(f, e) PROVE Typed
  <2>1. Opened("reconfigure", "form", e, None, None) \in Flow
    BY OpenedType
  <2> QED
    BY <1>1, <1>3, <2>1 DEF StartReconfigure, Deed, FlowTypeOK, entryVars
<1>4. ASSUME NEW m \in Matrices, NEW h \in Hosts, LeaseOfKnown(f, m, h) PROVE Typed
  BY <1>1, <1>4, MoveEntryType DEF LeaseOfKnown, Lease, Deed, Known, FlowTypeOK
<1>5. ASSUME NEW m \in Matrices, NEW h \in Hosts, LeaseOfNew(f, m, h) PROVE Typed
  <2>1. Opened("dhcp", "probe", None, m, h) \in Flow
    BY OpenedType
  <2> QED
    BY <1>1, <1>5, <2>1 DEF LeaseOfNew, Lease, Deed, FlowTypeOK, entryVars
<1>6. ASSUME NEW h \in Hosts, NEW form \in Forms, Submit(f, h, form) PROVE Typed
  <2> DEFINE host == CASE flow[f].kind = "dhcp"   -> flow[f].host
                       [] flow[f].kind = "reauth" -> entries[flow[f].entry].host
                       [] OTHER                   -> h
             login == IF flow[f].kind = "reauth"
                      THEN [user |-> form.user, password |-> form.password]
                      ELSE Resolved(form)
  <2>1. host \in Hosts \cup {None}
    BY <1>1 DEF FlowOK, FlowTypeOK, Flow, Entry
  <2>2. NoLogin \in Login
    BY DEF NoLogin, Login
  <2>3. login \in Login /\ FirstStep(login) \in {"login", "info"}
    BY <2>2, LoginTypes
  <2>4. flow' = [flow EXCEPT ![f].host = host, ![f].login = login, ![f].step = FirstStep(login)]
    BY <1>6 DEF Submit
  <2> HIDE DEF host, login
  <2>5. flow' \in [Flows -> Flow]
    BY <1>1, <2>1, <2>3, <2>4 DEF FlowTypeOK, Flow
  <2> QED
    BY <1>1, <1>6, <2>5 DEF Submit, FlowTypeOK, entryVars
<1>7. ASSUME Abandon(f) \/ Unanswered(f) \/ LoginAnswered(f) \/ ProbeAnswered(f) PROVE Typed
  <2>1. flow' \in [Flows -> Flow]
    <3>1. ASSUME NEW step \in {"form", "info"}, flow' = [flow EXCEPT ![f].step = step]
          PROVE  flow' \in [Flows -> Flow]
      BY <1>1, <3>1 DEF FlowTypeOK, Flow
    <3>2. ASSUME End(f) PROVE flow' \in [Flows -> Flow]
      BY <1>1, <3>2, OpenedType DEF End, FlowTypeOK
    <3> QED
      BY <1>7, <3>1, <3>2 DEF Abandon, Unanswered, LoginAnswered, ProbeAnswered
  <2> QED
    BY <1>1, <1>7, <2>1 DEF Abandon, Unanswered, LoginAnswered, ProbeAnswered, FlowTypeOK, entryVars
<1>8. ASSUME InfoAnswered(f) PROVE Typed
  <2> DEFINE m == Answers(f, "info")
  <2>1. flow[f].host \in Hosts /\ m \in Matrices /\ flow[f].login \in Login
    BY <1>1, <1>8 DEF InfoAnswered, Answers, FlowTypeOK, Flow
  <2>2. deeds' = deeds
    BY <1>8 DEF InfoAnswered
  <2>3. CASE FinishUser(f, m)
    <3> HIDE DEF m
    <3>1. CASE End(f) /\ UNCHANGED <<entries, reload>>
      BY <1>1, <2>2, <3>1, OpenedType DEF End, FlowTypeOK
    <3>2. ASSUME NEW e \in Known(m), MoveEntry(e, flow[f].host), End(f) PROVE Typed
      BY <1>1, <2>1, <2>2, <3>2, OpenedType, MoveEntryType DEF End, Known, FlowTypeOK
    <3>3. CASE Create(f, m, flow[f].host, flow[f].login)
      BY <1>1, <2>1, <2>2, <3>3, CreateType DEF FlowTypeOK
    <3> QED
      BY <2>3, <3>1, <3>2, <3>3 DEF FinishUser
  <2>4. CASE FinishReconfigure(f, m)
    <3> HIDE DEF m
    <3>1. flow[f].entry \in Entries /\ entries[flow[f].entry] # None
      BY <1>1, <2>4 DEF FinishReconfigure, FlowOK, FlowTypeOK, Flow
    <3> QED
      BY <1>1, <2>1, <2>2, <2>4, <3>1, UpdateType, OpenedType
      DEF FinishReconfigure, End, FlowTypeOK
  <2>5. CASE FinishDiscovery(f)
    <3>1. flow[f].unique \in Matrices
      BY <1>1, <2>5 DEF FinishDiscovery, FlowOK, FlowTypeOK, Flow
    <3> QED
      BY <1>1, <2>1, <2>2, <2>5, <3>1, CreateType DEF FinishDiscovery, FlowTypeOK
  <2>6. CASE FinishReauth(f)
    <3>1. flow[f].entry \in Entries /\ entries[flow[f].entry] \in Entry
      BY <1>1, <2>6 DEF FinishReauth, FlowOK, FlowTypeOK, Flow
    <3>2. entries[flow[f].entry].host \in Hosts /\ entries[flow[f].entry] # None
      BY <3>1, EntryIsSome DEF Entry
    <3> QED
      BY <1>1, <2>1, <2>2, <2>6, <3>1, <3>2, UpdateType DEF FinishReauth, FlowTypeOK
  <2> QED
    BY <1>8, <2>3, <2>4, <2>5, <2>6 DEF InfoAnswered
<1>9. Typed
  BY <1>2, <1>3, <1>4, <1>5, <1>6, <1>7, <1>8 DEF Talk, Dialogue, Opening
<1>10. UNCHANGED <<state, client, runtime, seen, devices, blank, lost, past, at, account>>
  BY DEF Talk, Dialogue, Opening, StartUser, StartReconfigure, LeaseOfKnown, LeaseOfNew,
         Submit, Abandon, Unanswered, LoginAnswered, ProbeAnswered, InfoAnswered,
         setupVars, networkVars, entryVars
<1> QED
  BY <1>9, <1>10 DEF Inv, TypeOK, FlowTypeOK

----------------------------------------------------------------------------
(* What dialogues rest on.                                                 *)

\* No entry is lost or passes to another matrix ...
UniquesKept ==
    \A e \in Entries : entries[e] # None =>
        entries'[e] # None /\ entries'[e].unique = entries[e].unique

\* ... none appears ...
NoneAdded == \A e \in Entries : entries[e] = None => entries'[e] = None

\* ... and each was found where it is.
Found ==
    \A e \in Entries : entries'[e] # None => entries'[e].unique \in past[entries'[e].host]

\* What is to hold of a dialogue's steps: above all, no second entry.
OneStays == OneEntryPerMatrix => OneEntryPerMatrix'

LEMMA KnownStays ==
    ASSUME UniquesKept, NoneAdded, NEW m PROVE Known(m)' = Known(m)
BY DEF UniquesKept, NoneAdded, Known

LEMMA OneEntryStays == ASSUME UniquesKept, NoneAdded PROVE OneStays
BY DEF UniquesKept, NoneAdded, OneStays, OneEntryPerMatrix

\* A dialogue left alone stays right, as long as its matrix gets no entry.
LEMMA FlowStays ==
    ASSUME Inv, UniquesKept, \A h \in Hosts : past[h] \subseteq past'[h],
           NEW f \in Flows, flow'[f] = flow[f],
           flow[f].kind = "dhcp" => Known(flow[f].unique)' = {}
    PROVE  FlowOK(f)'
<1>1. FlowOK(f) /\ flow[f] \in Flow
  BY DEF Inv, TypeOK, FlowTypeOK, FlowsOK
<1> QED
  BY <1>1 DEF FlowOK, UniquesKept, Flow

LEMMA MoveEffect ==
    ASSUME Inv, NEW m \in Matrices, NEW h \in Hosts, m \in past[h],
           NEW e \in Known(m), MoveEntry(e, h)
    PROVE  UniquesKept /\ NoneAdded /\ Found
<1>1. e \in Entries /\ entries[e] \in Entry /\ entries[e].unique = m
  BY DEF Known, Inv, TypeOK, FlowTypeOK
<1>2. entries'[e] = [entries[e] EXCEPT !.host = h]
  BY <1>1 DEF MoveEntry, Inv, TypeOK, FlowTypeOK
<1>3. \A d \in Entries \ {e} : entries'[d] = entries[d]
  BY <1>1 DEF MoveEntry, Inv, TypeOK, FlowTypeOK
<1>4. entries'[e] \in Entry /\ entries'[e].unique = m /\ entries'[e].host = h
  BY <1>1, <1>2 DEF Entry
<1> QED
  BY <1>1, <1>3, <1>4, EntryIsSome DEF UniquesKept, NoneAdded, Found, Inv, Traced

LEMMA UpdateEffect ==
    ASSUME Inv, NEW f \in Flows, flow[f].entry \in Entries,
           entries[flow[f].entry] # None, NEW host \in Hosts, NEW login \in Login,
           entries[flow[f].entry].unique \in past[host], Update(f, host, login)
    PROVE  UniquesKept /\ NoneAdded /\ Found
<1> DEFINE e == flow[f].entry
<1>1. entries[e] \in Entry /\ entries \in [Entries -> Entry \cup {None}]
  BY DEF Inv, TypeOK, FlowTypeOK
<1>2. entries' = [entries EXCEPT ![e].host = host, ![e].login = Merged(@, login)]
  BY DEF Update
<1> HIDE DEF e
<1>3. \A d \in Entries \ {e} : entries'[d] = entries[d]
  BY <1>1, <1>2
<1>4. entries'[e].unique = entries[e].unique /\ entries'[e].host = host
  BY <1>1, <1>2 DEF Entry, e
<1>5. entries'[e] # None
  <2>1. entries[e] \in Entry /\ e \in Entries
    BY <1>1 DEF e
  <2>2. Merged(entries[e].login, login) \in Login
    BY <2>1 DEF Merged, Login, Entry
  <2>3. entries'[e] \in Entry
    BY <1>1, <1>2, <2>1, <2>2 DEF Entry
  <2> QED
    BY <2>3, EntryIsSome
<1> QED
  BY <1>1, <1>3, <1>4, <1>5 DEF UniquesKept, NoneAdded, Found, Inv, Traced, e

\* A new entry is of a matrix that had none, under an id that was free, and
\* the other dialogues about that matrix are over.
LEMMA CreateEffect ==
    ASSUME Inv, UNCHANGED past, NEW f \in Flows, NEW m \in Matrices, NEW host \in Hosts,
           NEW login \in Login, m \in past[host], Known(m) = {},
           Create(f, m, host, login)
    PROVE  UniquesKept /\ Found /\ FlowsOK' /\ OneStays
<1> DEFINE e == CHOOSE d \in Entries : entries[d] = None
<1>1. e \in Entries /\ entries[e] = None
  BY DEF Create
<1>2. entries' = [entries EXCEPT ![e] =
          [unique |-> m, host |-> host, login |-> login, features |-> {}]]
  BY DEF Create
<1>3. flow' = [g \in Flows |-> IF g = f \/ flow[g].unique = m THEN NoFlow ELSE flow[g]]
  BY DEF Create
<1> HIDE DEF e
<1>4. /\ entries'[e].unique = m /\ entries'[e].host = host
      /\ \A d \in Entries \ {e} : entries'[d] = entries[d]
  BY <1>1, <1>2 DEF Inv, TypeOK, FlowTypeOK
<1>5. entries'[e] # None
  <2>1. [unique |-> m, host |-> host, login |-> login, features |-> {}] \in Entry
    BY LoginsAssumption DEF Entry
  <2> QED
    BY <1>1, <1>2, <2>1, EntryIsSome DEF Inv, TypeOK, FlowTypeOK
<1>6. UniquesKept /\ Found
  BY <1>1, <1>4, <1>5 DEF UniquesKept, Found, Inv, Traced
<1>7. ASSUME NEW g \in Flows PROVE FlowOK(g)'
  <2>1. CASE g = f \/ flow[g].unique = m
    <3>1. flow'[g] = NoFlow
      BY <1>3, <2>1
    <3> QED
      BY <3>1 DEF FlowOK, NoFlow
  <2>2. CASE g # f /\ flow[g].unique # m
    <3>1. flow'[g] = flow[g]
      BY <1>3, <2>2
    <3>2. flow[g].kind = "dhcp" => Known(flow[g].unique)' = {}
      <4>1. ASSUME NEW d \in Entries, flow[g].kind = "dhcp"
            PROVE  entries'[d] = None \/ entries'[d].unique # flow[g].unique
        BY <1>1, <1>4, <2>2, <4>1 DEF Inv, FlowsOK, FlowOK, Known
      <4> QED
        BY <3>1, <4>1 DEF Known
    <3> QED
      BY <1>6, <3>1, <3>2, FlowStays
  <2> QED
    BY <2>1, <2>2
<1>8. OneStays
  BY <1>1, <1>4 DEF OneStays, OneEntryPerMatrix, Known
<1> QED
  BY <1>6, <1>7, <1>8 DEF FlowsOK

\* A step that adds no entry leaves every dialogue right when it leaves the
\* one it is about right.
LEMMA OthersStay ==
    ASSUME Inv, UNCHANGED past, UniquesKept, NoneAdded, NEW f \in Flows,
           \A g \in Flows \ {f} : flow'[g] = flow[g], FlowOK(f)'
    PROVE  FlowsOK' /\ OneStays
<1>1. ASSUME NEW g \in Flows \ {f} PROVE FlowOK(g)'
  <2>1. flow'[g] = flow[g] /\ FlowOK(g)
    BY DEF Inv, FlowsOK
  <2>2. flow[g].kind = "dhcp" => Known(flow[g].unique)' = {}
    BY <2>1, KnownStays DEF FlowOK
  <2> QED
    BY <2>1, <2>2, FlowStays
<1> QED
  BY <1>1, OneEntryStays DEF FlowsOK

LEMMA DialogueEffect ==
    ASSUME Inv, NEW f \in Flows, Talk(f)
    PROVE  UniquesKept /\ Found /\ FlowsOK' /\ OneStays
<1> DEFINE Goal == UniquesKept /\ Found /\ FlowsOK' /\ OneStays
<1>1. /\ FlowTypeOK /\ flow[f] \in Flow /\ FlowOK(f) /\ Traced
      /\ past \in [Hosts -> SUBSET Matrices]
      /\ UNCHANGED past
  BY DEF Inv, TypeOK, FlowTypeOK, FlowsOK, Talk
<1>2. ASSUME UNCHANGED entries PROVE UniquesKept /\ NoneAdded /\ Found
  BY <1>1, <1>2 DEF UniquesKept, NoneAdded, Found, Traced
<1>3. ASSUME UniquesKept, NoneAdded, Found, End(f) PROVE Goal
  <2>1. FlowOK(f)' /\ \A g \in Flows \ {f} : flow'[g] = flow[g]
    BY <1>1, <1>3 DEF End, FlowOK, NoFlow, FlowTypeOK
  <2> QED
    BY <1>1, <1>3, <2>1, OthersStay
<1>4. ASSUME UNCHANGED entries, NEW fl, flow' = [flow EXCEPT ![f] = fl],
             FlowOK(f)' PROVE Goal
  <2>1. \A g \in Flows \ {f} : flow'[g] = flow[g]
    BY <1>1, <1>4 DEF FlowTypeOK
  <2> QED
    BY <1>1, <1>2, <1>4, <2>1, OthersStay
<1>5. ASSUME f \in Dialogs, Opening(f) PROVE Goal
  <2>1. f \notin Entries
    BY <1>5, IdsAssumption
  <2>2. CASE StartUser(f)
    <3>1. UNCHANGED entries /\ FlowOK(f)'
      BY <1>1, <2>1, <2>2 DEF StartUser, Opened, FlowOK, FlowTypeOK, entryVars
    <3> QED
      BY <1>4, <2>2, <3>1 DEF StartUser
  <2>3. ASSUME NEW e \in Entries, StartReconfigure(f, e) PROVE Goal
    <3>1. UNCHANGED entries /\ FlowOK(f)'
      BY <1>1, <2>1, <2>3, EntryIsSome DEF StartReconfigure, Opened, FlowOK, FlowTypeOK, entryVars
    <3> QED
      BY <1>4, <2>3, <3>1 DEF StartReconfigure
  <2>4. ASSUME NEW m \in Matrices, NEW h \in Hosts, LeaseOfKnown(f, m, h) PROVE Goal
    <3>1. m \in past[h] /\ flow' = flow
      BY <1>1, <2>4, EntryIsSome DEF LeaseOfKnown, Lease, Traced
    <3>2. UniquesKept /\ NoneAdded /\ Found
      BY <2>4, <3>1, MoveEffect DEF LeaseOfKnown
    <3>3. FlowOK(f)'
      BY <1>1, <3>1, <3>2, FlowStays, KnownStays DEF FlowOK
    <3> QED
      BY <1>1, <3>1, <3>2, <3>3, OthersStay
  <2>5. ASSUME NEW m \in Matrices, NEW h \in Hosts, LeaseOfNew(f, m, h) PROVE Goal
    <3>1. m \in past[h] /\ Known(m) = {} /\ UNCHANGED entries
      BY <1>1, <2>5, EntryIsSome DEF LeaseOfNew, Lease, Traced, entryVars
    <3>2. flow'[f] = Opened("dhcp", "probe", None, m, h)
      BY <1>1, <2>5 DEF LeaseOfNew, FlowTypeOK
    <3>3. Known(flow[f].unique)' = {}
      BY <3>1, <3>2 DEF Known, Opened
    <3>4. FlowOK(f)'
      BY <1>1, <2>1, <3>1, <3>2, <3>3, EntryIsSome DEF FlowOK, Opened
    <3> QED
      BY <1>4, <2>5, <3>1, <3>4 DEF LeaseOfNew
  <2> QED
    BY <1>5, <2>2, <2>3, <2>4, <2>5 DEF Opening

<1>6. ASSUME NEW h \in Hosts, NEW form \in Forms, Submit(f, h, form) PROVE Goal
  <2>1. UNCHANGED entries /\ \A g \in Flows \ {f} : flow'[g] = flow[g]
    BY <1>1, <1>6 DEF Submit, FlowTypeOK, entryVars
  <2>2. /\ flow'[f].kind = flow[f].kind /\ flow'[f].unique = flow[f].unique
        /\ flow'[f].entry = flow[f].entry /\ flow'[f].step \in {"login", "info"}
        /\ flow[f].kind = "dhcp" => flow'[f].host = flow[f].host
    BY <1>1, <1>6 DEF Submit, FlowTypeOK, Flow, FirstStep
  <2>3. Known(flow[f].unique)' = Known(flow[f].unique)
    BY <2>1, <2>2 DEF Known
  <2>4. FlowOK(f)'
    BY <1>1, <2>1, <2>2, <2>3 DEF FlowOK
  <2> QED
    BY <1>1, <1>2, <2>1, <2>4, OthersStay
<1>7. ASSUME Abandon(f) \/ Unanswered(f) \/ LoginAnswered(f) \/ ProbeAnswered(f) PROVE Goal
  <2>1. UNCHANGED entries
    BY <1>7 DEF Abandon, Unanswered, LoginAnswered, ProbeAnswered, entryVars
  <2>2. ASSUME NEW step \in {"form", "info"}, flow' = [flow EXCEPT ![f].step = step]
        PROVE  Goal
    <3>1. /\ flow'[f].kind = flow[f].kind /\ flow'[f].unique = flow[f].unique
          /\ flow'[f].entry = flow[f].entry /\ flow'[f].host = flow[f].host
          /\ flow'[f].step = step /\ \A g \in Flows \ {f} : flow'[g] = flow[g]
      BY <1>1, <2>2 DEF FlowTypeOK, Flow
    <3>2. Known(flow[f].unique)' = Known(flow[f].unique)
      BY <2>1, <3>1 DEF Known
    <3>3. FlowOK(f)'
      BY <1>1, <2>1, <3>1, <3>2 DEF FlowOK
    <3> QED
      BY <1>1, <1>2, <2>1, <3>1, <3>3, OthersStay
  <2>3. ASSUME End(f) PROVE Goal
    BY <1>2, <1>3, <2>1, <2>3
  <2> QED
    BY <1>7, <2>2, <2>3 DEF Abandon, Unanswered, LoginAnswered, ProbeAnswered
<1>8. ASSUME InfoAnswered(f) PROVE Goal
  <2> DEFINE m == Answers(f, "info")
  <2>1. /\ flow[f].host \in Hosts /\ m \in Matrices /\ flow[f].login \in Login
        /\ m \in past[flow[f].host]
    BY <1>1, <1>8 DEF InfoAnswered, Answers, FlowTypeOK, Flow, Traced
  <2> HIDE DEF m
  <2>2. CASE FinishUser(f, m)
    <3>1. ASSUME End(f), UNCHANGED entries PROVE Goal
      BY <1>2, <1>3, <3>1
    <3>2. ASSUME NEW e \in Known(m), MoveEntry(e, flow[f].host), End(f) PROVE Goal
      BY <1>3, <2>1, <3>2, MoveEffect
    <3>3. ASSUME Known(m) = {}, Create(f, m, flow[f].host, flow[f].login) PROVE Goal
      BY <1>1, <2>1, <3>3, CreateEffect
    <3> QED
      BY <2>2, <3>1, <3>2, <3>3 DEF FinishUser
  <2>3. CASE FinishReconfigure(f, m)
    <3>1. flow[f].entry \in Entries /\ entries[flow[f].entry] # None
      BY <1>1, <2>3 DEF FinishReconfigure, FlowOK, FlowTypeOK, Flow
    <3>2. ASSUME SameMatrix(f, m), Update(f, flow[f].host, flow[f].login) PROVE Goal
      <4>1. entries[flow[f].entry].unique \in past[flow[f].host]
        BY <2>1, <3>2 DEF SameMatrix
      <4>2. UniquesKept /\ NoneAdded /\ Found
        BY <2>1, <3>1, <3>2, <4>1, UpdateEffect
      <4> QED
        BY <1>3, <3>2, <4>2 DEF Update
    <3> QED
      BY <1>2, <1>3, <2>3, <3>2 DEF FinishReconfigure
  <2>4. CASE FinishDiscovery(f)
    <3>1. /\ flow[f].unique \in Matrices /\ Known(flow[f].unique) = {}
          /\ flow[f].unique \in past[flow[f].host]
      BY <1>1, <2>4 DEF FinishDiscovery, FlowOK, FlowTypeOK, Flow
    <3> QED
      BY <1>1, <2>1, <2>4, <3>1, CreateEffect DEF FinishDiscovery
  <2>5. CASE FinishReauth(f)
    <3>1. flow[f].entry \in Entries /\ entries[flow[f].entry] # None
      BY <1>1, <2>5 DEF FinishReauth, FlowOK, FlowTypeOK, Flow
    <3>2. entries[flow[f].entry] \in Entry
      BY <1>1, <3>1 DEF FlowTypeOK
    <3>3. /\ entries[flow[f].entry].host \in Hosts
          /\ entries[flow[f].entry].unique \in past[entries[flow[f].entry].host]
      BY <1>1, <3>1, <3>2 DEF Entry, Traced
    <3>4. Update(f, entries[flow[f].entry].host, flow[f].login)
      BY <2>5 DEF FinishReauth
    <3>5. UniquesKept /\ NoneAdded /\ Found
      BY <2>1, <3>1, <3>3, <3>4, UpdateEffect
    <3> QED
      BY <1>3, <3>4, <3>5 DEF Update
  <2> QED
    BY <1>8, <2>2, <2>3, <2>4, <2>5 DEF InfoAnswered, m
<1> QED
  BY <1>5, <1>6, <1>7, <1>8 DEF Talk, Dialogue

----------------------------------------------------------------------------
(* What set-ups rest on, and the invariant.                                *)

PastGrows == \A h \in Hosts : past[h] \subseteq past'[h]

LEMMA SetupStays ==
    ASSUME Inv, UniquesKept, PastGrows, NEW e \in Entries, state'[e] = state[e],
           client'[e] = client[e], runtime'[e] = runtime[e]
    PROVE  SetupOK(e)'
<1>1. SetupOK(e) /\ client[e] \in Client \cup {None}
  BY DEF Inv, SetupsOK, TypeOK
<1> QED
  BY <1>1 DEF SetupOK, UniquesKept, PastGrows, Client

LEMMA DevicesStay ==
    ASSUME Inv, UniquesKept, PastGrows, NEW m \in Matrices, NEW e \in devices[m]
    PROVE  entries'[e] # None /\ \E h \in Hosts : {m, entries'[e].unique} \subseteq past'[h]
<1>1. /\ e \in Entries /\ entries[e] # None
      /\ \E h \in Hosts : {m, entries[e].unique} \subseteq past[h]
  BY DEF Inv, Traced, TypeOK
<1> QED
  BY <1>1 DEF UniquesKept, PastGrows

LEMMA StillTraced ==
    ASSUME Inv, UniquesKept, PastGrows, UNCHANGED <<at, devices>>,
           \A e \in Entries : entries'[e] # None => entries'[e].unique \in past'[entries'[e].host]
    PROVE  Traced'
<1>1. \A h \in Hosts : at'[h] # None => at'[h] \in past'[h]
  BY DEF Inv, Traced, PastGrows
<1>2. \A m \in Matrices : \A e \in devices'[m] :
          entries'[e] # None /\ \E h \in Hosts : {m, entries'[e].unique} \subseteq past'[h]
  BY DevicesStay
<1> QED
  BY <1>1, <1>2 DEF Traced

LEMMA DialogueKeeps == ASSUME Inv, NEW f \in Flows, Talk(f) PROVE Inv'
<1>1. TypeOK' /\ UniquesKept /\ Found /\ FlowsOK'
  BY DialogueType, DialogueEffect
<1>2. UNCHANGED <<at, state, client, runtime, devices, past>>
  BY DEF Talk, Dialogue, Opening, StartUser, StartReconfigure, LeaseOfKnown, LeaseOfNew,
         Submit, Abandon, Unanswered, LoginAnswered, ProbeAnswered, InfoAnswered,
         setupVars, networkVars, entryVars
<1>3. PastGrows
  BY <1>2 DEF PastGrows
<1>4. SetupsOK'
  BY <1>1, <1>2, <1>3, SetupStays DEF SetupsOK
<1>5. Traced'
  BY <1>1, <1>2, <1>3, StillTraced DEF Found
<1> QED
  BY <1>1, <1>4, <1>5 DEF Inv

LEMMA OptionsEffect ==
    ASSUME Inv, NEW e \in Entries, Options(e)
    PROVE  /\ UniquesKept /\ NoneAdded /\ Found
           /\ entries' \in [Entries -> Entry \cup {None}]
           /\ \A d \in Entries : entries'[d] # entries[d] => reload'[d]
           /\ \A d \in Entries : reload[d] => reload'[d]
           /\ UNCHANGED <<at, account, state, flow, blank, past, lost, setupVars>>
           /\ deeds' = deeds + 1 /\ reload' \in [Entries -> BOOLEAN]
<1>1. PICK features \in Choices : SetOptions(e, features)
  BY DEF Options
<1>2. /\ entries[e] # None /\ deeds' = deeds + 1
      /\ entries' = [entries EXCEPT ![e].features = features]
      /\ reload' = [reload EXCEPT ![e] = TRUE]
      /\ UNCHANGED <<at, account, state, flow>>
  BY <1>1 DEF SetOptions, Deed, networkVars
<1>3. UNCHANGED <<blank, past, lost, setupVars>>
  BY DEF Options
<1>4. entries \in [Entries -> Entry \cup {None}] /\ entries[e] \in Entry
  BY <1>2 DEF Inv, TypeOK, FlowTypeOK
<1>5. /\ entries'[e] \in Entry /\ entries'[e].unique = entries[e].unique
      /\ entries'[e].host = entries[e].host
      /\ \A d \in Entries \ {e} : entries'[d] = entries[d]
  BY <1>2, <1>4 DEF Entry
<1>6. UniquesKept /\ NoneAdded /\ Found
  BY <1>2, <1>4, <1>5, EntryIsSome DEF UniquesKept, NoneAdded, Found, Inv, Traced
<1>7. /\ entries' \in [Entries -> Entry \cup {None}]
      /\ \A d \in Entries : entries'[d] # entries[d] => reload'[d]
      /\ \A d \in Entries : reload[d] => reload'[d]
      /\ reload' \in [Entries -> BOOLEAN]
  BY <1>2, <1>4, <1>5 DEF Inv, TypeOK, FlowTypeOK
<1> QED
  BY <1>2, <1>3, <1>6, <1>7

LEMMA OptionsKeep == ASSUME Inv, NEW e \in Entries, Options(e) PROVE Inv'
<1>1. /\ UniquesKept /\ NoneAdded /\ Found
      /\ entries' \in [Entries -> Entry \cup {None}]
      /\ UNCHANGED <<at, account, state, flow, blank, past, lost, setupVars>>
      /\ deeds' = deeds + 1 /\ reload' \in [Entries -> BOOLEAN]
  BY OptionsEffect
<1>2. PastGrows
  BY <1>1 DEF PastGrows
<1>3. TypeOK'
  BY <1>1 DEF Inv, TypeOK, FlowTypeOK, setupVars
<1>4. FlowsOK'
  <2>1. ASSUME NEW f \in Flows PROVE FlowOK(f)'
    <3>1. flow'[f] = flow[f] /\ FlowOK(f)
      BY <1>1 DEF Inv, FlowsOK
    <3>2. flow[f].kind = "dhcp" => Known(flow[f].unique)' = {}
      BY <1>1, <3>1, KnownStays DEF FlowOK
    <3> QED
      BY <1>1, <1>2, <3>1, <3>2, FlowStays DEF PastGrows
  <2> QED
    BY <2>1 DEF FlowsOK
<1>5. SetupsOK'
  BY <1>1, <1>2, SetupStays DEF SetupsOK, setupVars
<1>6. Traced'
  BY <1>1, <1>2, StillTraced DEF Found, setupVars
<1> QED
  BY <1>3, <1>4, <1>5, <1>6 DEF Inv

\* Steps that leave entries and dialogues alone leave dialogues right.
LEMMA FlowsStay ==
    ASSUME Inv, UNCHANGED <<entries, flow>>, PastGrows
    PROVE  UniquesKept /\ FlowsOK'
<1>1. UniquesKept /\ NoneAdded
  BY DEF UniquesKept, NoneAdded
<1>2. ASSUME NEW f \in Flows PROVE FlowOK(f)'
  <2>1. flow'[f] = flow[f] /\ FlowOK(f)
    BY DEF Inv, FlowsOK
  <2>2. flow[f].kind = "dhcp" => Known(flow[f].unique)' = {}
    BY <1>1, <2>1, KnownStays DEF FlowOK
  <2> QED
    BY <1>1, <2>1, <2>2, FlowStays DEF PastGrows
<1> QED
  BY <1>1, <1>2 DEF FlowsOK

LEMMA WorldKeeps == ASSUME Inv, WorldTurns PROVE Inv'
<1>1. /\ UNCHANGED <<entries, state, reload, flow, client, runtime, seen, devices, blank, lost>>
      /\ deeds' = deeds + 1
      /\ past' = [h \in Hosts |-> past[h] \cup ({at'[h]} \ {None})]
  BY DEF WorldTurns, World, ChangeLogin, MoveMatrix, Deed, entryVars, setupVars
<1>2. at' \in [Hosts -> Matrices \cup {None}]
  BY DEF WorldTurns, World, ChangeLogin, MoveMatrix, Inv, TypeOK, FlowTypeOK
<1>3. account' \in [Matrices -> [user : Users, password : Passwords]]
  <2>1. account \in [Matrices -> [user : Users, password : Passwords]]
    BY DEF Inv, TypeOK, FlowTypeOK
  <2>2. ASSUME NEW m \in Matrices, NEW a \in Accounts, ChangeLogin(m, a[m])
        PROVE  account' \in [Matrices -> [user : Users, password : Passwords]]
    <3>1. a[m] \in [user : Users, password : Passwords]
      BY LoginsAssumption
    <3> QED
      BY <2>1, <2>2, <3>1 DEF ChangeLogin
  <2> QED
    BY <2>1, <2>2 DEF WorldTurns, World, MoveMatrix
<1>4. PastGrows /\ past' \in [Hosts -> SUBSET Matrices]
  BY <1>1, <1>2 DEF PastGrows, Inv, TypeOK
<1>5. TypeOK'
  BY <1>1, <1>2, <1>3, <1>4 DEF Inv, TypeOK, FlowTypeOK
<1>6. UniquesKept /\ FlowsOK'
  BY <1>1, <1>4, FlowsStay
<1>7. SetupsOK'
  BY <1>1, <1>4, <1>6, SetupStays DEF SetupsOK
<1>8. Traced'
  <2>1. \A h \in Hosts : at'[h] # None => at'[h] \in past'[h]
    BY <1>1
  <2>2. \A e \in Entries : entries'[e] # None => entries'[e].unique \in past'[entries'[e].host]
    BY <1>1, <1>4 DEF PastGrows, Inv, Traced, TypeOK, FlowTypeOK, Entry
  <2>3. \A m \in Matrices : \A e \in devices'[m] :
            entries'[e] # None /\ \E h \in Hosts : {m, entries'[e].unique} \subseteq past'[h]
    BY <1>1, <1>4, <1>6, DevicesStay
  <2> QED
    BY <2>1, <2>2, <2>3 DEF Traced
<1> QED
  BY <1>5, <1>6, <1>7, <1>8 DEF Inv

LEMMA StandbyKeeps == ASSUME Inv, NEW m \in Matrices, Standby(m) PROVE Inv'
<1>1. /\ UNCHANGED <<at, account, past, lost, entries, state, reload, flow>>
      /\ UNCHANGED <<client, runtime, seen, devices>>
      /\ deeds' = deeds + 1
      /\ blank' = IF m \in blank THEN blank \ {m} ELSE blank \cup {m}
  BY DEF Standby, Deed, entryVars, setupVars
<1>2. PastGrows
  BY <1>1 DEF PastGrows
<1>3. TypeOK'
  BY <1>1 DEF Inv, TypeOK, FlowTypeOK
<1>4. UniquesKept /\ FlowsOK'
  BY <1>1, <1>2, FlowsStay
<1>5. SetupsOK'
  BY <1>1, <1>2, <1>4, SetupStays DEF SetupsOK
<1>6. Traced'
  BY <1>1, <1>2, <1>4, StillTraced DEF Inv, Traced
<1> QED
  BY <1>3, <1>4, <1>5, <1>6 DEF Inv

LEMMA RestartKeeps == ASSUME Inv, Restart PROVE Inv'
<1>1. /\ UNCHANGED <<at, account, blank, past, entries, lost, seen, devices>>
      /\ deeds' = deeds + 1
      /\ state' = [e \in Entries |-> "not_loaded"]
      /\ reload' = [e \in Entries |-> entries[e] # None]
      /\ flow' = [f \in Flows |-> NoFlow]
      /\ client' = [e \in Entries |-> None]
      /\ runtime' = [e \in Entries |-> None]
  BY DEF Restart, Deed, worldVars
<1>2. PastGrows /\ UniquesKept
  BY <1>1 DEF PastGrows, UniquesKept
<1>3. TypeOK'
  <2>1. NoFlow \in Flow
    BY DEF NoFlow, NoLogin, Flow, Login
  <2>2. FlowTypeOK'
    BY <1>1, <2>1 DEF Inv, TypeOK, FlowTypeOK, States
  <2> QED
    BY <1>1, <2>2 DEF Inv, TypeOK
<1>4. FlowsOK'
  BY <1>1 DEF FlowsOK, FlowOK, NoFlow
<1>5. SetupsOK'
  BY <1>1 DEF SetupsOK, SetupOK
<1>6. Traced'
  BY <1>1, <1>2, StillTraced DEF Inv, Traced
<1> QED
  BY <1>3, <1>4, <1>5, <1>6 DEF Inv

\* A step of a set-up that changes no dialogue.
LEMMA SetupSteps ==
    ASSUME Inv, NEW e \in Entries, SetupOK(e)', TypeOK',
           UNCHANGED <<at, past, entries, flow, devices>>,
           \A d \in Entries \ {e} :
               state'[d] = state[d] /\ client'[d] = client[d] /\ runtime'[d] = runtime[d]
    PROVE  Inv'
<1>1. PastGrows
  BY DEF PastGrows
<1>2. UniquesKept /\ FlowsOK'
  BY <1>1, FlowsStay
<1>3. SetupsOK'
  BY <1>1, <1>2, SetupStays DEF SetupsOK
<1>4. Traced'
  BY <1>1, <1>2, StillTraced DEF Inv, Traced
<1> QED
  BY <1>2, <1>3, <1>4 DEF Inv

LEMMA BeginKeeps == ASSUME Inv, NEW e \in Entries, Begin(e) PROVE Inv'
<1>1. entries[e] \in Entry /\ entries[e].unique \in past[entries[e].host]
  BY DEF Begin, Inv, TypeOK, FlowTypeOK, Traced
<1>2. /\ reload' = [reload EXCEPT ![e] = FALSE]
      /\ state' = [state EXCEPT ![e] = FirstStep(entries[e].login)]
      /\ client' = [client EXCEPT ![e] = [host |-> entries[e].host, login |-> entries[e].login]]
      /\ runtime' = [runtime EXCEPT ![e] = None]
      /\ UNCHANGED <<at, account, blank, past, entries, flow, deeds, lost, seen, registry, devices>>
  BY DEF Begin, worldVars
<1>3. [host |-> entries[e].host, login |-> entries[e].login] \in Client
  BY <1>1 DEF Client, Entry
<1>4. FirstStep(entries[e].login) \in {"login", "info"}
  BY DEF FirstStep
<1>5. TypeOK'
  BY <1>2, <1>3, <1>4 DEF Inv, TypeOK, FlowTypeOK, States
<1>6. /\ state'[e] \in {"login", "info"} /\ client'[e].host = entries[e].host
      /\ client'[e] # None
      /\ \A d \in Entries \ {e} :
             state'[d] = state[d] /\ client'[d] = client[d] /\ runtime'[d] = runtime[d]
  BY <1>2, <1>3, <1>4, EntryIsSome DEF Inv, TypeOK, FlowTypeOK
<1>7. SetupOK(e)'
  BY <1>1, <1>2, <1>6, EntryIsSome DEF SetupOK
<1> QED
  BY <1>2, <1>5, <1>6, <1>7, SetupSteps

\* A set-up under way has an entry and a client that found it.
LEMMA BusyHas ==
    ASSUME Inv, NEW e \in Entries, Busy(e)
    PROVE  /\ entries[e] \in Entry /\ client[e] \in Client /\ client[e].host \in Hosts
           /\ entries[e].unique \in past[client[e].host]
           /\ at[client[e].host] # None =>
                  /\ at[client[e].host] \in Matrices
                  /\ at[client[e].host] \in past[client[e].host]
           /\ state[e] = "refresh" => runtime[e] \in Matrices /\ runtime[e] \in past[client[e].host]
<1>1. SetupOK(e) /\ state[e] # "not_loaded"
  BY DEF Inv, SetupsOK, Busy
<1>2. entries[e] \in Entry /\ client[e] \in Client
  BY <1>1 DEF SetupOK, Inv, TypeOK, FlowTypeOK
<1>3. client[e].host \in Hosts
  BY <1>2 DEF Client
<1> QED
  BY <1>1, <1>2, <1>3 DEF SetupOK, Inv, TypeOK, FlowTypeOK, Traced

LEMMA SetupFailsKeeps == ASSUME Inv, NEW e \in Entries, SetupFails(e) PROVE Inv'
<1>1. /\ UNCHANGED <<at, account, blank, past, entries, reload, flow, deeds>>
      /\ UNCHANGED <<client, runtime, seen, registry, devices>>
      /\ state' = [state EXCEPT ![e] = "retry"]
  BY DEF SetupFails, worldVars, setupVars
<1>2. lost' \in Nat
  BY DEF SetupFails, Inv, TypeOK
<1>3. TypeOK'
  BY <1>1, <1>2 DEF Inv, TypeOK, FlowTypeOK, States
<1>4. SetupOK(e)'
  BY <1>1, BusyHas, EntryIsSome DEF SetupFails, SetupOK, Inv, TypeOK, FlowTypeOK
<1>5. \A d \in Entries \ {e} : state'[d] = state[d]
  BY <1>1 DEF Inv, TypeOK, FlowTypeOK
<1> QED
  BY <1>1, <1>3, <1>4, <1>5, SetupSteps

LEMMA SetupLoginKeeps == ASSUME Inv, NEW e \in Entries, SetupLogin(e) PROVE Inv'
<1>1. /\ UNCHANGED <<at, account, blank, past, entries, reload, deeds, lost>>
      /\ UNCHANGED <<client, runtime, seen, registry, devices>>
      /\ state[e] = "login" /\ Busy(e)
  BY DEF SetupLogin, AnswersSetup, Busy, worldVars, setupVars
<1>2. PICK next \in {"info", "error"} : state' = [state EXCEPT ![e] = next]
  BY DEF SetupLogin
<1>3. SetupOK(e)'
  BY <1>1, <1>2, BusyHas, EntryIsSome DEF SetupOK, Inv, TypeOK, FlowTypeOK
<1>4. \A d \in Entries \ {e} : state'[d] = state[d]
  BY <1>2 DEF Inv, TypeOK, FlowTypeOK
<1>5. state' \in [Entries -> States]
  BY <1>2 DEF Inv, TypeOK, FlowTypeOK, States
<1>6. CASE flow' = flow
  BY <1>1, <1>3, <1>4, <1>5, <1>6, SetupSteps DEF Inv, TypeOK, FlowTypeOK
<1>7. CASE flow' = [flow EXCEPT ![e] = Opened("reauth", "form", e, entries[e].unique, None)]
  <2>1. entries[e] \in Entry /\ entries[e].unique \in Matrices /\ e \in Flows
    BY <1>1, BusyHas DEF Entry, Flows
  <2>2. Opened("reauth", "form", e, entries[e].unique, None) \in Flow
    BY <2>1, OpenedType
  <2>3. TypeOK'
    BY <1>1, <1>5, <1>7, <2>2 DEF Inv, TypeOK, FlowTypeOK
  <2>4. /\ flow'[e] = Opened("reauth", "form", e, entries[e].unique, None)
        /\ \A g \in Flows \ {e} : flow'[g] = flow[g]
    BY <1>7, <2>1 DEF Inv, TypeOK, FlowTypeOK
  <2>5. FlowOK(e)'
    BY <1>1, <2>1, <2>4, EntryIsSome DEF FlowOK, Opened
  <2>6. PastGrows /\ UniquesKept /\ NoneAdded
    BY <1>1 DEF PastGrows, UniquesKept, NoneAdded
  <2>7. FlowsOK'
    BY <1>1, <2>1, <2>4, <2>5, <2>6, OthersStay
  <2>8. SetupsOK'
    BY <1>1, <1>3, <1>4, <2>6, SetupStays DEF SetupsOK
  <2>9. Traced'
    BY <1>1, <2>6, StillTraced DEF Inv, Traced
  <2> QED
    BY <2>3, <2>7, <2>8, <2>9 DEF Inv
<1> QED
  BY <1>6, <1>7 DEF SetupLogin

LEMMA SetupInfoKeeps == ASSUME Inv, NEW e \in Entries, SetupInfo(e) PROVE Inv'
<1> DEFINE m == at[client[e].host]
<1>1. /\ UNCHANGED <<at, account, blank, past, entries, reload, flow, deeds, lost>>
      /\ UNCHANGED <<client, seen, registry, devices>>
      /\ Busy(e) /\ m # None
      /\ runtime' = [runtime EXCEPT ![e] = m]
      /\ state' = [state EXCEPT ![e] = "refresh"]
  BY DEF SetupInfo, AnswersSetup, Busy, worldVars
<1>2. m \in Matrices /\ m \in past[client[e].host]
  BY <1>1, BusyHas
<1> HIDE DEF m
<1>3. TypeOK'
  BY <1>1, <1>2 DEF Inv, TypeOK, FlowTypeOK, States
<1>4. SetupOK(e)'
  BY <1>1, <1>2, BusyHas, EntryIsSome DEF SetupOK, Inv, TypeOK, FlowTypeOK
<1>5. \A d \in Entries \ {e} : state'[d] = state[d] /\ runtime'[d] = runtime[d]
  BY <1>1 DEF Inv, TypeOK, FlowTypeOK
<1> QED
  BY <1>1, <1>3, <1>4, <1>5, SetupSteps

LEMMA SetupFinishKeeps == ASSUME Inv, NEW e \in Entries, SetupFinish(e) PROVE Inv'
<1> DEFINE counts == PortsReported(at[client[e].host])
<1>1. /\ UNCHANGED <<at, account, blank, past, entries, reload, flow, deeds, lost>>
      /\ UNCHANGED <<client, runtime>>
      /\ Busy(e) /\ state[e] = "refresh" /\ at[client[e].host] # None
      /\ seen' = [seen EXCEPT ![e] = counts]
      /\ devices' = [devices EXCEPT ![runtime[e]] = @ \cup {e}]
      /\ state' = [state EXCEPT ![e] = "loaded"]
  BY DEF SetupFinish, AnswersSetup, Busy, worldVars
<1>2. counts \in [PortKinds -> Nat]
  BY CountsAssumption DEF PortsReported, NoPorts
<1> HIDE DEF counts
<1>3. /\ entries[e] # None /\ client[e] # None /\ client[e].host \in Hosts
      /\ runtime[e] \in Matrices /\ runtime[e] # None
      /\ {runtime[e], entries[e].unique} \subseteq past[client[e].host]
  BY <1>1, BusyHas, EntryIsSome
<1>4. TypeOK'
  BY <1>1, <1>2, <1>3 DEF Inv, TypeOK, FlowTypeOK, States
<1>5. SetupOK(e)'
  BY <1>1, <1>3 DEF SetupOK, Inv, TypeOK, FlowTypeOK
<1>6. PastGrows /\ UniquesKept /\ FlowsOK'
  BY <1>1, FlowsStay DEF PastGrows
<1>7. SetupsOK'
  <2>1. \A d \in Entries \ {e} : state'[d] = state[d]
    BY <1>1 DEF Inv, TypeOK, FlowTypeOK
  <2> QED
    BY <1>1, <1>5, <1>6, <2>1, SetupStays DEF SetupsOK
<1>8. Traced'
  <2>1. ASSUME NEW n \in Matrices, NEW d \in devices'[n]
        PROVE  entries'[d] # None /\ \E h \in Hosts : {n, entries'[d].unique} \subseteq past'[h]
    <3>1. CASE d \in devices[n]
      BY <1>6, <3>1, DevicesStay
    <3>2. CASE d \notin devices[n]
      <4>1. n = runtime[e] /\ d = e
        BY <1>1, <2>1, <3>2 DEF Inv, TypeOK
      <4> QED
        BY <1>1, <1>3, <4>1
    <3> QED
      BY <3>1, <3>2
  <2> QED
    BY <1>1, <2>1 DEF Inv, Traced
<1> QED
  BY <1>4, <1>6, <1>7, <1>8 DEF Inv

LEMMA StutterKeeps == ASSUME Inv, UNCHANGED vars PROVE Inv'
<1>1. UNCHANGED <<at, account, blank, past, entries, state, reload, flow, deeds, lost>>
      /\ UNCHANGED <<client, runtime, seen, registry, devices>>
  BY DEF vars, worldVars, entryVars, setupVars
<1>2. TypeOK'
  BY <1>1 DEF Inv, TypeOK, FlowTypeOK
<1>3. PastGrows
  BY <1>1 DEF PastGrows
<1>4. UniquesKept /\ FlowsOK'
  BY <1>1, <1>3, FlowsStay
<1>5. SetupsOK'
  BY <1>1, <1>3, <1>4, SetupStays DEF SetupsOK
<1>6. Traced'
  BY <1>1, <1>3, <1>4, StillTraced DEF Inv, Traced
<1> QED
  BY <1>2, <1>4, <1>5, <1>6 DEF Inv

LEMMA InitHolds == ASSUME Init PROVE Inv
<1>1. NoFlow \in Flow
  BY DEF NoFlow, NoLogin, Flow, Login
<1>2. TypeOK
  BY <1>1, PlacesAssumption, LoginsAssumption, StoredAssumption
  DEF Init, TypeOK, FlowTypeOK, States, NoPorts
<1>3. FlowsOK
  BY DEF Init, FlowsOK, FlowOK, NoFlow
<1>4. SetupsOK
  BY DEF Init, SetupsOK, SetupOK
<1>5. Traced
  <2>1. \A e \in Entries : entries[e] # None => entries[e] \in Entry
    BY <1>2 DEF TypeOK, FlowTypeOK
  <2>2. \A e \in Entries : entries[e] # None => entries[e].unique \in past[entries[e].host]
    BY <2>1 DEF Init, Known, Entry
  <2> QED
    BY <2>2 DEF Init, Traced
<1> QED
  BY <1>2, <1>3, <1>4, <1>5 DEF Inv

\* The invariant is inductive.
THEOREM Invariance == Spec => []Inv
<1>1. Inv /\ [Next]_vars => Inv'
  <2> SUFFICES ASSUME Inv, [Next]_vars PROVE Inv'
    OBVIOUS
  <2>1. ASSUME NEW e \in Entries, Setup(e) PROVE Inv'
    BY <2>1, BeginKeeps, SetupFailsKeeps, SetupLoginKeeps, SetupInfoKeeps, SetupFinishKeeps
    DEF Setup
  <2> QED
    BY <2>1, OptionsKeep, DialogueKeeps, StandbyKeeps, RestartKeeps, WorldKeeps, StutterKeeps
    DEF Next
<1> QED
  BY InitHolds, <1>1, PTL DEF Spec

----------------------------------------------------------------------------
(* What dialogues do to set-ups.                                           *)

\* An entry whose login or features change is to be reloaded, and no reload
\* that is due is called off ...
ChangesReload ==
    \A e \in Entries :
        /\ reload[e] => reload'[e]
        /\ \/ reload'[e]
           \/ /\ entries'[e].login = entries[e].login
              /\ entries'[e].features = entries[e].features

\* ... and a dialogue about an entry goes on, or has it reloaded, or is a
\* reconfiguration that ends.
AskStays ==
    \A g \in Flows : flow[g].entry # None =>
        \/ flow'[g].entry = flow[g].entry
        \/ reload'[flow[g].entry]
        \/ flow[g].kind = "reconfigure" /\ flow'[g] = NoFlow

LEMMA MoveReloads ==
    ASSUME Inv, NEW m \in Matrices, NEW h \in Hosts, NEW e \in Known(m), MoveEntry(e, h)
    PROVE  ChangesReload
<1>1. /\ entries \in [Entries -> Entry \cup {None}] /\ reload \in [Entries -> BOOLEAN]
      /\ e \in Entries /\ entries[e] \in Entry
  BY DEF Known, Inv, TypeOK, FlowTypeOK
<1>2. /\ entries' = [entries EXCEPT ![e].host = h]
      /\ reload' = [reload EXCEPT ![e] =
             @ \/ (h # entries[e].host /\ state[e] \in {"loaded", "retry"})]
  BY DEF MoveEntry
<1>3. /\ entries'[e].login = entries[e].login /\ entries'[e].features = entries[e].features
      /\ \A d \in Entries \ {e} : entries'[d] = entries[d] /\ reload'[d] = reload[d]
  BY <1>1, <1>2 DEF Entry
<1>4. reload[e] => reload'[e]
  BY <1>1, <1>2
<1> QED
  BY <1>3, <1>4 DEF ChangesReload

LEMMA UpdateReloads ==
    ASSUME Inv, NEW f \in Flows, flow[f].entry \in Entries, NEW host, NEW login,
           Update(f, host, login)
    PROVE  ChangesReload /\ reload'[flow[f].entry]
<1>1. /\ reload' = [reload EXCEPT ![flow[f].entry] = TRUE]
      /\ \A d \in Entries \ {flow[f].entry} : entries'[d] = entries[d]
      /\ reload \in [Entries -> BOOLEAN]
  BY DEF Update, Inv, TypeOK, FlowTypeOK
<1> QED
  BY <1>1 DEF ChangesReload

LEMMA CreateReloads ==
    ASSUME Inv, NEW f \in Flows \ Entries, NEW m \in Matrices, NEW host, NEW login,
           flow[f].entry = None, Known(m) = {}, Create(f, m, host, login)
    PROVE  ChangesReload /\ AskStays
<1> DEFINE e == CHOOSE d \in Entries : entries[d] = None
<1>1. e \in Entries
  BY DEF Create
<1>2. /\ reload' = [reload EXCEPT ![e] = TRUE]
      /\ \A d \in Entries \ {e} : entries'[d] = entries[d]
      /\ reload \in [Entries -> BOOLEAN]
  BY DEF Create, Inv, TypeOK, FlowTypeOK
<1>3. flow' = [g \in Flows |-> IF g = f \/ flow[g].unique = m THEN NoFlow ELSE flow[g]]
  BY DEF Create
<1> HIDE DEF e
<1>4. ASSUME NEW g \in Flows, flow[g].entry # None PROVE flow'[g] = flow[g]
  <2>1. FlowOK(g) /\ g # f /\ flow[g].kind \in {"reconfigure", "reauth"}
    BY <1>4 DEF Inv, FlowsOK, FlowOK
  <2>2. flow[g].unique # m
    BY <2>1, EntryIsSome DEF FlowOK, Known
  <2> QED
    BY <1>3, <2>1, <2>2
<1> QED
  BY <1>1, <1>2, <1>4 DEF ChangesReload, AskStays

LEMMA DialogueReloads ==
    ASSUME Inv, NEW f \in Flows, Talk(f) PROVE ChangesReload /\ AskStays
<1> DEFINE Goal == ChangesReload /\ AskStays
<1>1. FlowTypeOK /\ flow[f] \in Flow /\ FlowOK(f) /\ Entries \subseteq Flows
  BY DEF Inv, TypeOK, FlowTypeOK, FlowsOK, Flows
<1>2. ASSUME UNCHANGED <<entries, reload>> PROVE ChangesReload
  BY <1>2 DEF ChangesReload
<1>3. ASSUME flow[f].kind \notin {"reconfigure", "reauth"},
             NEW fl, flow' = [flow EXCEPT ![f] = fl] PROVE AskStays
  BY <1>1, <1>3 DEF AskStays, FlowOK, FlowTypeOK
<1>4. ASSUME flow[f].kind # "reauth", End(f) PROVE AskStays
  BY <1>1, <1>4 DEF AskStays, End, FlowOK, FlowTypeOK
<1>5. ASSUME f \in Dialogs, Opening(f) PROVE Goal
  <2>1. flow[f].kind = "none"
    BY <1>5 DEF Opening, StartUser, StartReconfigure, LeaseOfKnown, LeaseOfNew, Lease
  <2>2. ASSUME NEW m \in Matrices, NEW h \in Hosts, LeaseOfKnown(f, m, h) PROVE Goal
    <3>1. ChangesReload /\ flow' = flow
      BY <2>2, MoveReloads DEF LeaseOfKnown
    <3> QED
      BY <3>1 DEF AskStays
  <2>3. CASE StartUser(f)
    BY <1>2, <1>3, <2>1, <2>3 DEF StartUser, entryVars
  <2>4. ASSUME NEW e \in Entries, StartReconfigure(f, e) PROVE Goal
    BY <1>2, <1>3, <2>1, <2>4 DEF StartReconfigure, entryVars
  <2>5. ASSUME NEW m \in Matrices, NEW h \in Hosts, LeaseOfNew(f, m, h) PROVE Goal
    BY <1>2, <1>3, <2>1, <2>5 DEF LeaseOfNew, entryVars
  <2> QED
    BY <1>5, <2>2, <2>3, <2>4, <2>5 DEF Opening
<1>6. ASSUME NEW h \in Hosts, NEW form \in Forms, Submit(f, h, form) PROVE Goal
  <2>1. UNCHANGED <<entries, reload>> /\ \A g \in Flows : flow'[g].entry = flow[g].entry
    BY <1>1, <1>6 DEF Submit, FlowTypeOK, Flow, entryVars
  <2> QED
    BY <1>1, <1>2, <2>1 DEF AskStays
<1>7. ASSUME Abandon(f) \/ Unanswered(f) \/ LoginAnswered(f) \/ ProbeAnswered(f) PROVE Goal
  <2>1. UNCHANGED <<entries, reload>>
    BY <1>7 DEF Abandon, Unanswered, LoginAnswered, ProbeAnswered, entryVars
  <2>2. ASSUME NEW step, flow' = [flow EXCEPT ![f].step = step] PROVE Goal
    <3>1. \A g \in Flows : flow'[g].entry = flow[g].entry
      BY <1>1, <2>2 DEF FlowTypeOK, Flow
    <3> QED
      BY <1>1, <1>2, <2>1, <3>1 DEF AskStays
  <2>3. ASSUME flow[f].step = "probe" \/ flow[f].kind \in {"user", "reconfigure"}, End(f)
        PROVE  Goal
    BY <1>1, <1>2, <1>4, <2>1, <2>3 DEF FlowOK
  <2> QED
    BY <1>7, <2>2, <2>3 DEF Abandon, Unanswered, LoginAnswered, ProbeAnswered
<1>8. ASSUME InfoAnswered(f) PROVE Goal
  <2> DEFINE m == Answers(f, "info")
  <2>1. flow[f].host \in Hosts /\ m \in Matrices
    BY <1>1, <1>8 DEF InfoAnswered, Answers, FlowTypeOK, Flow
  <2> HIDE DEF m
  <2>2. ASSUME flow[f].kind # "reauth", End(f), UNCHANGED <<entries, reload>> PROVE Goal
    BY <1>2, <1>4, <2>2
  <2>3. CASE FinishUser(f, m)
    <3>1. f \notin Entries /\ flow[f].kind = "user"
      BY <1>1, <2>3 DEF FinishUser, FlowOK
    <3>2. ASSUME NEW e \in Known(m), MoveEntry(e, flow[f].host), End(f) PROVE Goal
      BY <1>4, <2>1, <3>1, <3>2, MoveReloads
    <3>3. ASSUME Known(m) = {}, Create(f, m, flow[f].host, flow[f].login) PROVE Goal
      BY <1>1, <2>1, <2>3, <3>1, <3>3, CreateReloads DEF FinishUser, FlowOK
    <3> QED
      BY <2>2, <2>3, <3>1, <3>2, <3>3 DEF FinishUser
  <2>4. CASE FinishReconfigure(f, m)
    <3>1. flow[f].kind = "reconfigure" /\ flow[f].entry \in Entries
      BY <1>1, <2>4 DEF FinishReconfigure, FlowOK, Flow
    <3>2. ASSUME Update(f, flow[f].host, flow[f].login) PROVE Goal
      BY <1>4, <3>1, <3>2, UpdateReloads DEF Update
    <3> QED
      BY <2>2, <2>4, <3>1, <3>2 DEF FinishReconfigure
  <2>5. CASE FinishDiscovery(f)
    <3>1. /\ f \notin Entries /\ flow[f].entry = None
          /\ flow[f].unique \in Matrices /\ Known(flow[f].unique) = {}
      BY <1>1, <2>5 DEF FinishDiscovery, FlowOK, Flow
    <3> QED
      BY <2>5, <3>1, CreateReloads DEF FinishDiscovery
  <2>6. CASE FinishReauth(f)
    <3>1. /\ flow[f].entry \in Entries /\ (f \in Entries => flow[f].entry = f)
          /\ Update(f, entries[flow[f].entry].host, flow[f].login)
      BY <1>1, <2>6 DEF FinishReauth, FlowOK, Flow
    <3>2. ChangesReload /\ reload'[flow[f].entry]
      BY <3>1, UpdateReloads
    <3>3. \A g \in Flows \ {f} : flow'[g] = flow[g]
      BY <1>1, <3>1 DEF Update, End, FlowTypeOK
    <3> QED
      BY <1>1, <3>1, <3>2, <3>3 DEF AskStays
  <2> QED
    BY <1>8, <2>3, <2>4, <2>5, <2>6 DEF InfoAnswered, m
<1> QED
  BY <1>5, <1>6, <1>7, <1>8 DEF Talk, Dialogue

----------------------------------------------------------------------------
(* The theorems.                                                           *)

(***************************************************************************)
(* Every variable keeps its type, for any matrices, addresses, entries,    *)
(* dialogues and bounds.                                                   *)
(***************************************************************************)
THEOREM Typing == Spec => []TypeOK
<1>1. Inv => TypeOK
  BY DEF Inv
<1> QED
  BY <1>1, Invariance, PTL

(***************************************************************************)
(* A matrix has at most one entry: the steps of config_flow.py that create *)
(* an entry look for one first, and a discovery that has its identity from *)
(* its lease is turned away or over once another dialogue has used it.     *)
(***************************************************************************)
THEOREM OneEntry == Spec => []OneEntryPerMatrix
<1>1. Init => OneEntryPerMatrix
  BY StoredAssumption DEF Init, OneEntryPerMatrix
<1>2. Inv /\ OneEntryPerMatrix /\ [Next]_vars => OneEntryPerMatrix'
  <2> SUFFICES ASSUME Inv, OneEntryPerMatrix, [Next]_vars PROVE OneEntryPerMatrix'
    OBVIOUS
  <2>1. CASE UNCHANGED entries
    BY <2>1 DEF OneEntryPerMatrix
  <2>2. ASSUME NEW f \in Flows, Talk(f) PROVE OneEntryPerMatrix'
    BY <2>2, DialogueEffect DEF OneStays
  <2>3. ASSUME NEW e \in Entries, Options(e) PROVE OneEntryPerMatrix'
    <3>1. UniquesKept /\ NoneAdded
      BY <2>3, OptionsEffect
    <3> QED
      BY <3>1, OneEntryStays DEF OneStays
  <2>4. ASSUME NEW e \in Entries, Setup(e) PROVE UNCHANGED entries
    BY <2>4 DEF Setup, Begin, SetupFails, SetupLogin, SetupInfo, SetupFinish
  <2>5. CASE (\E m \in Matrices : Standby(m)) \/ Restart \/ WorldTurns \/ UNCHANGED vars
    BY <2>1, <2>5
    DEF Standby, Restart, WorldTurns, World, ChangeLogin, MoveMatrix, entryVars, vars
  <2> QED
    BY <2>1, <2>2, <2>3, <2>4, <2>5 DEF Next
<1> QED
  BY <1>1, <1>2, Invariance, PTL DEF Spec

(***************************************************************************)
(* As long as no address passes from one matrix to another, an entry is    *)
(* set up with its own matrix and an action on a device reaches that       *)
(* device: whatever a dialogue or a lease writes was seen at the address.  *)
(***************************************************************************)
THEOREM Bound == Spec => []BoundToItsMatrix
<1>1. Inv => BoundToItsMatrix
  <2> SUFFICES ASSUME Inv, ~Shared PROVE BoundToItsMatrix
    BY DEF BoundToItsMatrix
  <2>1. ASSUME NEW e \in Entries, state[e] = "loaded"
        PROVE  runtime[e] = entries[e].unique /\ runtime[e] # None
    <3>1. SetupOK(e) /\ client[e] \in Client
      BY <2>1 DEF Inv, SetupsOK, SetupOK, TypeOK
    <3>2. client[e].host \in Hosts
      BY <3>1 DEF Client
    <3> QED
      BY <2>1, <3>1, <3>2 DEF SetupOK, Shared
  <2>2. ASSUME NEW m \in Matrices, NEW e \in devices[m]
        PROVE  e \in Entries /\ entries[e].unique = m
    BY DEF Inv, Traced, Shared, TypeOK
  <2> QED
    BY <2>1, <2>2 DEF BoundToItsMatrix, CoordinatorFor
<1> QED
  BY <1>1, Invariance, PTL

\* What steps other than dialogues, options and set-ups do to set-ups.
LEMMA WorldEffect ==
    ASSUME Inv, (\E m \in Matrices : Standby(m)) \/ Restart \/ WorldTurns \/ UNCHANGED vars
    PROVE  /\ UNCHANGED <<entries, seen, registry>>
           /\ \/ UNCHANGED <<state, reload, flow, client, runtime>>
              \/ \A e \in Entries : state'[e] = "not_loaded"
BY DEF Standby, Restart, WorldTurns, World, ChangeLogin, MoveMatrix, entryVars, setupVars, vars

LEMMA DialogueLeaves ==
    ASSUME NEW f \in Flows, Talk(f)
    PROVE  UNCHANGED <<state, client, runtime, seen, registry>>
BY DEF Talk, Dialogue, Opening, StartUser, StartReconfigure, LeaseOfKnown, LeaseOfNew,
       Submit, Abandon, Unanswered, LoginAnswered, ProbeAnswered, InfoAnswered,
       setupVars, networkVars, entryVars

LEMMA OptionsReload ==
    ASSUME Inv, NEW e \in Entries, Options(e)
    PROVE  ChangesReload /\ UNCHANGED <<state, flow, client, runtime, seen, registry>>
BY OptionsEffect DEF ChangesReload, setupVars

\* A set-up of one entry leaves those of the others alone.
LEMMA SetupsApart ==
    ASSUME Inv, NEW e \in Entries, Setup(e), NEW d \in Entries \ {e}
    PROVE  /\ state'[d] = state[d] /\ reload'[d] = reload[d] /\ client'[d] = client[d]
           /\ runtime'[d] = runtime[d] /\ seen'[d] = seen[d]
           /\ flow'[d] = flow[d] /\ UNCHANGED entries
<1>1. /\ state \in [Entries -> States] /\ reload \in [Entries -> BOOLEAN]
      /\ client \in [Entries -> Client \cup {None}]
      /\ runtime \in [Entries -> Matrices \cup {None}]
      /\ seen \in [Entries -> [PortKinds -> Nat]] /\ flow \in [Flows -> Flow]
      /\ d \in Flows
  BY DEF Inv, TypeOK, FlowTypeOK, Flows
<1>2. CASE Begin(e)
  BY <1>1, <1>2 DEF Begin
<1>3. CASE SetupFails(e)
  BY <1>1, <1>3 DEF SetupFails, setupVars
<1>4. CASE SetupLogin(e)
  BY <1>1, <1>4 DEF SetupLogin, setupVars
<1>5. CASE SetupInfo(e)
  BY <1>1, <1>5 DEF SetupInfo
<1>6. CASE SetupFinish(e)
  BY <1>1, <1>6 DEF SetupFinish
<1> QED
  BY <1>2, <1>3, <1>4, <1>5, <1>6 DEF Setup

\* From its first step to its reload a set-up works with the stored login.
StoredLogin(e) ==
    state[e] \in {"login", "info", "refresh", "loaded"} /\ ~reload[e]
        => client[e].login = entries[e].login

(***************************************************************************)
(* A loaded entry works with the login stored for it: every step of        *)
(* config_flow.py that stores another one has the entry reloaded, also one *)
(* that ends while a set-up is under way.                                  *)
(***************************************************************************)
THEOREM StoredLoginInUse == Spec => []LoadedWithStoredLogin
<1> DEFINE LoginInv == \A e \in Entries : StoredLogin(e)
<1>1. Init => LoginInv
  BY DEF Init, StoredLogin
<1>2. Inv /\ LoginInv /\ [Next]_vars => LoginInv'
  <2> SUFFICES ASSUME Inv, LoginInv, [Next]_vars PROVE LoginInv'
    OBVIOUS
  <2>1. ASSUME ChangesReload, UNCHANGED <<state, client>> PROVE LoginInv'
    BY <2>1 DEF ChangesReload, StoredLogin
  <2>2. ASSUME NEW e \in Entries, Setup(e) PROVE LoginInv'
    <3>1. ASSUME NEW d \in Entries \ {e} PROVE StoredLogin(d)'
      BY <2>2, <3>1, SetupsApart DEF StoredLogin
    <3>2. StoredLogin(e)'
      <4>1. CASE Begin(e)
        <5>1. client'[e].login = entries'[e].login
          BY <4>1 DEF Begin, Inv, TypeOK
        <5> QED
          BY <5>1 DEF StoredLogin
      <4>2. CASE SetupFails(e)
        BY <4>2 DEF SetupFails, StoredLogin, Inv, TypeOK, FlowTypeOK
      <4>3. CASE SetupLogin(e)
        BY <4>3 DEF SetupLogin, AnswersSetup, StoredLogin, setupVars, Inv, TypeOK, FlowTypeOK
      <4>4. CASE SetupInfo(e)
        BY <4>4 DEF SetupInfo, AnswersSetup, StoredLogin, Inv, TypeOK, FlowTypeOK
      <4>5. CASE SetupFinish(e)
        BY <4>5 DEF SetupFinish, AnswersSetup, StoredLogin, Inv, TypeOK, FlowTypeOK
      <4> QED
        BY <2>2, <4>1, <4>2, <4>3, <4>4, <4>5 DEF Setup
    <3> QED
      BY <3>1, <3>2
  <2>3. ASSUME NEW f \in Flows, Talk(f) PROVE LoginInv'
    BY <2>1, <2>3, DialogueReloads, DialogueLeaves
  <2>4. ASSUME NEW e \in Entries, Options(e) PROVE LoginInv'
    BY <2>1, <2>4, OptionsReload
  <2>5. CASE (\E m \in Matrices : Standby(m)) \/ Restart \/ WorldTurns \/ UNCHANGED vars
    BY <2>5, WorldEffect DEF StoredLogin
  <2> QED
    BY <2>2, <2>3, <2>4, <2>5 DEF Next
<1>3. LoginInv => LoadedWithStoredLogin
  BY DEF StoredLogin, LoadedWithStoredLogin
<1> QED
  BY <1>1, <1>2, <1>3, Invariance, PTL DEF Spec

(***************************************************************************)
(* An entry whose set-up ends over its login has a dialogue about it open, *)
(* and it is left without one and with no reload due only where a          *)
(* reconfiguration ends: no reauthentication ends that way, and no other   *)
(* dialogue, lease, option or set-up takes the question away.              *)
(***************************************************************************)
THEOREM LoginIsAskedFor == Spec => AskedForLogin
<1> DEFINE Left(e) ==
             ~Stranded(e) /\ Stranded(e)' =>
                 \E f \in Dialogs :
                     flow[f].kind = "reconfigure" /\ flow[f].entry = e /\ flow'[f] = NoFlow
<1>1. Inv /\ [Next]_vars => [\A e \in Entries : Left(e)]_vars
  <2> SUFFICES ASSUME Inv, [Next]_vars, NEW e \in Entries, ~Stranded(e), Stranded(e)'
               PROVE  \E f \in Dialogs : flow[f].kind = "reconfigure" /\ flow[f].entry = e
                                       /\ flow'[f] = NoFlow
    OBVIOUS
  <2>1. state'[e] = "error" /\ ~reload'[e] /\ ~InDialogue(e)'
    BY DEF Stranded, Stopped
  <2>2. e \in Flows /\ e # None /\ flow \in [Flows -> Flow] /\ state \in [Entries -> States]
    BY EntryIsSome DEF Flows, Inv, TypeOK, FlowTypeOK
  <2>3. CASE Begin(e) \/ SetupFails(e) \/ SetupInfo(e) \/ SetupFinish(e)
    BY <2>1, <2>2, <2>3 DEF Begin, FirstStep, SetupFails, SetupInfo, SetupFinish
  <2>4. CASE SetupLogin(e)
    BY <2>1, <2>2, <2>4 DEF SetupLogin, Opened, InDialogue
  <2>5. ASSUME NEW d \in Entries \ {e}, Setup(d) PROVE FALSE
    <3>1. state'[e] = state[e] /\ reload'[e] = reload[e]
      BY <2>5, SetupsApart
    <3>2. PICK g \in Flows : flow[g].entry = e
      BY <2>1, <3>1 DEF Stranded, Stopped, InDialogue
    <3>3. g # d
      BY <2>2, <2>5, <3>2 DEF Inv, FlowsOK, FlowOK
    <3>4. flow'[g] = flow[g]
      BY <2>2, <2>5, <3>3
      DEF Setup, Begin, SetupFails, SetupLogin, SetupInfo, SetupFinish
    <3> QED
      BY <2>1, <3>2, <3>4 DEF InDialogue
  <2>6. ASSUME NEW f \in Flows, Talk(f)
        PROVE  \E g \in Dialogs : flow[g].kind = "reconfigure" /\ flow[g].entry = e
                                /\ flow'[g] = NoFlow
    <3>1. ChangesReload /\ AskStays /\ state' = state
      BY <2>6, DialogueReloads, DialogueLeaves
    <3>2. ~reload[e]
      BY <2>1, <3>1 DEF ChangesReload
    <3>3. PICK g \in Flows : flow[g].entry = e
      BY <2>1, <3>1, <3>2 DEF Stranded, Stopped, InDialogue
    <3>4. flow[g].kind = "reconfigure" /\ flow'[g] = NoFlow
      BY <2>1, <2>2, <3>1, <3>3 DEF AskStays, InDialogue
    <3>5. g \in Dialogs
      BY <3>4 DEF Inv, FlowsOK, FlowOK, Flows
    <3> QED
      BY <3>3, <3>4, <3>5
  <2>7. ASSUME NEW d \in Entries, Options(d) PROVE FALSE
    BY <2>1, <2>7, OptionsReload DEF ChangesReload, Stranded, Stopped, InDialogue
  <2>8. CASE (\E m \in Matrices : Standby(m)) \/ Restart \/ WorldTurns \/ UNCHANGED vars
    BY <2>1, <2>8, WorldEffect DEF Stranded, Stopped, InDialogue
  <2>9. ASSUME NEW d \in Entries, Setup(d)
        PROVE  \E f \in Dialogs : flow[f].kind = "reconfigure" /\ flow[f].entry = e
                                /\ flow'[f] = NoFlow
    BY <2>3, <2>4, <2>5, <2>9 DEF Setup
  <2> QED
    BY <2>6, <2>7, <2>8, <2>9 DEF Next
<1> QED
  BY <1>1, Invariance, PTL DEF Spec, AskedForLogin

----------------------------------------------------------------------------
(* The entity registry.                                                    *)

LEMMA WantedPlatform ==
    ASSUME NEW p, NEW features, NEW mac, NEW counts, NEW x \in Wanted(p, features, mac, counts)
    PROVE  x.platform = p
BY DEF Wanted

\* Whatever was registered before, the pruning and adding of all platforms
\* leaves what they want.
LEMMA RegisteredIsWanted ==
    ASSUME NEW registered, NEW features, NEW mac, NEW counts,
           \A x \in registered : x.platform \in Platforms
    PROVE  Registered(registered, features, mac, counts) = AllWanted(features, mac, counts)
<1> DEFINE keep(p) == Wanted(p, features, mac, counts)
           kept == {x \in registered : \A p \in Platforms : x \in Pruned(registered, p, keep(p))}
<1>1. ASSUME NEW x \in kept PROVE x \in AllWanted(features, mac, counts)
  <2>1. x.platform \in Platforms
    OBVIOUS
  <2>2. x \in Wanted(x.platform, features, mac, counts)
    BY <2>1 DEF Pruned
  <2> QED
    BY <2>1, <2>2 DEF AllWanted
<1> QED
  BY <1>1 DEF Registered

\* Of the five platforms, and what its options want once it is loaded.
RegistryOK(e) ==
    /\ \A x \in registry[e] : x.platform \in Platforms
    /\ state[e] = "loaded" /\ ~reload[e]
           => registry[e] = AllWanted(entries[e].features, runtime[e], seen[e])

(***************************************************************************)
(* The entities registered for a loaded entry are those its options ask    *)
(* for, of the matrix and the ports its set-up saw, for any options, any   *)
(* counts and whatever was registered before: the platforms of a set-up    *)
(* prune what they do not want, and add what they do.                      *)
(***************************************************************************)
THEOREM RegistryIsWanted == Spec => []RegistryMatches
<1> DEFINE RegistryInv == /\ registry = [e \in Entries |-> registry[e]]
                          /\ \A e \in Entries : RegistryOK(e)
<1>1. Init => RegistryInv
  BY DEF Init, RegistryOK
<1>2. Inv /\ RegistryInv /\ [Next]_vars => RegistryInv'
  <2> SUFFICES ASSUME Inv, RegistryInv, [Next]_vars PROVE RegistryInv'
    OBVIOUS
  <2>1. ASSUME ChangesReload, UNCHANGED <<state, runtime, seen, registry>> PROVE RegistryInv'
    BY <2>1 DEF ChangesReload, RegistryOK
  <2>2. ASSUME NEW e \in Entries, Setup(e), UNCHANGED registry, state'[e] # "loaded"
        PROVE  RegistryInv'
    <3>1. ASSUME NEW d \in Entries \ {e} PROVE RegistryOK(d)'
      BY <2>2, <3>1, SetupsApart DEF RegistryOK
    <3>2. RegistryOK(e)'
      BY <2>2 DEF RegistryOK
    <3> QED
      BY <2>2, <3>1, <3>2
  <2>3. ASSUME NEW e \in Entries, SetupFinish(e) PROVE RegistryInv'
    <3> DEFINE counts == PortsReported(at[client[e].host])
    <3>1. /\ registry' = [registry EXCEPT ![e] =
                 Registered(registry[e], entries[e].features, runtime[e], counts)]
          /\ seen' = [seen EXCEPT ![e] = counts] /\ UNCHANGED <<entries, runtime>>
      BY <2>3 DEF SetupFinish, AnswersSetup
    <3> HIDE DEF counts
    <3>2. registry'[e] = AllWanted(entries[e].features, runtime[e], counts)
      BY <3>1, RegisteredIsWanted DEF RegistryOK
    <3>3. seen'[e] = counts
      BY <3>1 DEF Inv, TypeOK
    <3>4. \A x \in registry'[e] : x.platform \in Platforms
      BY <3>2, WantedPlatform DEF AllWanted
    <3>5. RegistryOK(e)'
      BY <3>1, <3>2, <3>3, <3>4 DEF RegistryOK
    <3>6. ASSUME NEW d \in Entries \ {e} PROVE RegistryOK(d)'
      <4>1. Setup(e) /\ registry'[d] = registry[d]
        BY <2>3, <3>1 DEF Setup
      <4> QED
        BY <4>1, <3>6, SetupsApart DEF RegistryOK
    <3> QED
      BY <3>1, <3>5, <3>6
  <2>4. ASSUME NEW e \in Entries, Setup(e) PROVE RegistryInv'
    <3>1. CASE Begin(e)
      BY <2>2, <2>4, <3>1 DEF Begin, FirstStep, Inv, TypeOK, FlowTypeOK
    <3>2. CASE SetupFails(e)
      BY <2>2, <2>4, <3>2 DEF SetupFails, setupVars, Inv, TypeOK, FlowTypeOK
    <3>3. CASE SetupLogin(e)
      BY <2>2, <2>4, <3>3 DEF SetupLogin, setupVars, Inv, TypeOK, FlowTypeOK
    <3>4. CASE SetupInfo(e)
      BY <2>2, <2>4, <3>4 DEF SetupInfo, Inv, TypeOK, FlowTypeOK
    <3> QED
      BY <2>3, <2>4, <3>1, <3>2, <3>3, <3>4 DEF Setup
  <2>5. ASSUME NEW f \in Flows, Talk(f) PROVE RegistryInv'
    BY <2>1, <2>5, DialogueReloads, DialogueLeaves
  <2>6. ASSUME NEW e \in Entries, Options(e) PROVE RegistryInv'
    BY <2>1, <2>6, OptionsReload
  <2>7. CASE (\E m \in Matrices : Standby(m)) \/ Restart \/ WorldTurns \/ UNCHANGED vars
    BY <2>7, WorldEffect DEF RegistryOK
  <2> QED
    BY <2>4, <2>5, <2>6, <2>7 DEF Next
<1>3. RegistryInv => RegistryMatches
  BY DEF RegistryOK, RegistryMatches
<1> QED
  BY <1>1, <1>2, <1>3, Invariance, PTL DEF Spec
=============================================================================
