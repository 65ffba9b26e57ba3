---------------------------- MODULE MatrixClient ----------------------------
(***************************************************************************)
(* The HTTP client: one lock around each exchange with the single-threaded *)
(* CGI, replies judged after the lock is released, reads retried with a    *)
(* pause outside the lock, writes never retried.  The network may refuse a *)
(* connection, lose or garble a reply, or answer after the caller's        *)
(* timeout, in which case the CGI still has the abandoned request.         *)
(***************************************************************************)
EXTENDS Integers, Sequences, FiniteSets

CONSTANTS
    Callers,        \* coroutines that call the client once
    Reads,          \* those calling a retried read
    Writes,         \* those calling a write; the rest log in or take diagnostics
    ReadAttempts,   \* READ_ATTEMPTS
    None

ASSUME CallersAssumption ==
    /\ Reads \subseteq Callers
    /\ Writes \subseteq Callers
    /\ Reads \cap Writes = {}
    /\ None \notin Callers
ASSUME AttemptsAssumption == ReadAttempts \in Nat \ {0}

VARIABLES
    call,      \* each caller's progress: its state, its attempt, the answer
    holder,    \* who holds the client's lock
    waiters,   \* who waits for it, in order of arrival
    wire,      \* requests the CGI has not dealt with
    executed   \* how often each write was carried out

vars == <<call, holder, waiters, wire, executed>>

States == {"idle", "waiting", "posted", "answered", "sleeping",
           "ok", "failed", "cancelled"}
Requests == [caller : Callers, attempt : 1..ReadAttempts]
Request(c) == [caller |-> c, attempt |-> call[c].attempt]

Active(c) == call[c].state \in {"waiting", "posted", "answered", "sleeping"}

----------------------------------------------------------------------------
Queue(c) == waiters' = Append(waiters, c)

Call(c) ==
    /\ call[c].state = "idle"
    /\ call' = [call EXCEPT ![c].state = "waiting"]
    /\ Queue(c)
    /\ UNCHANGED <<holder, wire, executed>>

\* Slip: the turn comes without the lock being free.
FreeUnlocked(c) == Head(waiters) = c

Free(c) == holder = None /\ Head(waiters) = c

\* The lock is free and it is this caller's turn: it posts its request.
Post(c) ==
    /\ waiters # <<>>
    /\ Free(c)
    /\ call[c].state = "waiting"
    /\ holder' = c
    /\ waiters' = Tail(waiters)
    /\ call' = [call EXCEPT ![c].state = "posted"]
    /\ wire' = wire \cup {Request(c)}
    /\ UNCHANGED executed

\* A waiter that was cancelled meanwhile is passed over.
Skip(c) ==
    /\ waiters # <<>>
    /\ Free(c)
    /\ call[c].state = "cancelled"
    /\ waiters' = Tail(waiters)
    /\ UNCHANGED <<call, holder, wire, executed>>

\* The CGI deals with a request, whether or not anybody still waits for it:
\* it carries the command out or refuses it, and its reply is usable ("good":
\* a JSON object with result 1) or not.  A busy CGI answers with an empty body.
Serve(r, done, answer) ==
    /\ r \in wire
    /\ wire' = wire \ {r}
    /\ answer = "good" => done
    /\ executed' = IF done /\ r.caller \in Writes
                   THEN [executed EXCEPT ![r.caller] = @ + 1] ELSE executed
    /\ call' = IF call[r.caller].state = "posted" /\ r = Request(r.caller)
               THEN [call EXCEPT ![r.caller].state = "answered",
                                 ![r.caller].answer = answer]
               ELSE call
    /\ UNCHANGED <<holder, waiters>>

\* Slip: writes are retried like reads.
RetriesEverything(c) == call[c].attempt < ReadAttempts

\* Slip: the last attempt is not made.
RetriesTooFew(c) == c \in Reads /\ call[c].attempt < ReadAttempts - 1

\* Slip: one attempt too many.
RetriesTooOften(c) == c \in Reads /\ call[c].attempt <= ReadAttempts

Retries(c) == c \in Reads /\ call[c].attempt < ReadAttempts

\* An attempt that failed: a read sleeps before the next, anything else raises.
AttemptFails(c) ==
    call' = IF Retries(c)
            THEN [call EXCEPT ![c].state = "sleeping", ![c].attempt = @ + 1]
            ELSE [call EXCEPT ![c].state = "failed"]

\* Slip: the lock is kept when the exchange ends in an exception.
ReleaseOnReply(c) == IF call[c].state = "answered" THEN None ELSE holder

Released(c) == None

\* The reply is in and the lock released; the body is judged afterwards.
Receive(c) ==
    /\ call[c].state = "answered"
    /\ holder' = Released(c)
    /\ \/ call[c].answer = "good" /\ call' = [call EXCEPT ![c].state = "ok"]
       \/ call[c].answer # "good" /\ AttemptFails(c)
    /\ UNCHANGED <<waiters, wire, executed>>

\* No connection (the request never left) or no reply in time (it may have
\* arrived, and stays with the CGI): the lock is released on the way out.
NoReply(c, arrived) ==
    /\ call[c].state = "posted"
    /\ holder' = Released(c)
    /\ wire' = IF arrived THEN wire ELSE wire \ {Request(c)}
    /\ AttemptFails(c)
    /\ UNCHANGED <<waiters, executed>>

Wake(c) ==
    /\ call[c].state = "sleeping"
    /\ call' = [call EXCEPT ![c].state = "waiting"]
    /\ Queue(c)
    /\ UNCHANGED <<holder, wire, executed>>

\* Home Assistant cancels the caller's task: at the lock, in the exchange
\* (whose lock the async with releases) or in the pause.
Cancel(c) ==
    /\ Active(c)
    /\ call' = [call EXCEPT ![c].state = "cancelled"]
    /\ holder' = IF holder = c THEN None ELSE holder
    /\ UNCHANGED <<waiters, wire, executed>>

----------------------------------------------------------------------------
Init ==
    /\ call = [c \in Callers |-> [state |-> "idle", attempt |-> 1, answer |-> None]]
    /\ holder = None
    /\ waiters = <<>>
    /\ wire = {}
    /\ executed = [c \in Callers |-> 0]

Exchange(c) ==
    \/ Post(c) \/ Skip(c) \/ Receive(c) \/ Wake(c)
    \/ \E arrived \in BOOLEAN : NoReply(c, arrived)

Next ==
    \/ \E c \in Callers : Call(c) \/ Exchange(c) \/ Cancel(c)
    \/ \E r \in wire, done \in BOOLEAN, answer \in {"good", "bad"} :
         Serve(r, done, answer)

Spec == Init /\ [][Next]_vars

\* The event loop runs what can run and the request timeout fires.  The CGI
\* owes nothing: it may never answer.
FairSpec == Spec /\ \A c \in Callers : WF_vars(Exchange(c))

----------------------------------------------------------------------------
TypeOK ==
    /\ call \in [Callers -> [state : States, attempt : 1..ReadAttempts,
                             answer : {"good", "bad", None}]]
    /\ holder \in Callers \cup {None}
    /\ waiters \in Seq(Callers)
    /\ wire \subseteq Requests
    /\ executed \in [Callers -> Nat]

(***************************************************************************)
(* At most one caller is in an exchange, and the lock is taken exactly as  *)
(* long as one is: released on success, error, timeout and cancellation.   *)
(***************************************************************************)
OneExchange ==
    \A c \in Callers : call[c].state \in {"posted", "answered"} <=> holder = c

(***************************************************************************)
(* A write is carried out at most once, whatever the network does to its   *)
(* reply, and however late the CGI gets to an abandoned request.           *)
(***************************************************************************)
WriteAtMostOnce == \A c \in Writes : executed[c] <= 1

(***************************************************************************)
(* A caller told that its write succeeded can rely on it having been       *)
(* carried out, once, and on no copy of it being under way.                *)
(***************************************************************************)
SuccessIsFinal ==
    \A c \in Writes : call[c].state = "ok" =>
        executed[c] = 1 /\ \A r \in wire : r.caller # c

(***************************************************************************)
(* A read is given up only after all its attempts, so that one stumble of  *)
(* a busy CGI does not fail a poll; everything else gets one attempt.      *)
(***************************************************************************)
GivesUpAfterAllAttempts ==
    \A c \in Callers :
        /\ c \in Reads /\ call[c].state = "failed" => call[c].attempt = ReadAttempts
        /\ c \notin Reads => call[c].attempt = 1

(***************************************************************************)
(* Every call returns, even on a matrix that never answers again: no lost  *)
(* lock, no lost wake-up, no endless retrying.                             *)
(***************************************************************************)
CallsReturn == \A c \in Callers : Active(c) ~> ~Active(c)

\* What callers see of the client.
Status(c) == IF Active(c) THEN "pending" ELSE call[c].state

(***************************************************************************)
(* The client implements the service its callers rely on.                  *)
(***************************************************************************)
Service == INSTANCE CommandService WITH
    status <- [c \in Callers |-> Status(c)],
    effects <- executed

ServiceSpec == Service!ServiceSpec
=============================================================================
