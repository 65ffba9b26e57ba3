------------------------ MODULE MatrixClient_proofs -------------------------
(***************************************************************************)
(* Proofs about the HTTP client, for any set of callers and any number of  *)
(* attempts: types, the lock, writes at most once, and that the client     *)
(* implements CommandService.                                              *)
(***************************************************************************)
EXTENDS MatrixClient, TLAPS

USE CallersAssumption, AttemptsAssumption DEF CallersAssumption, AttemptsAssumption

\* What a write leaves behind: its request is with the CGI only while it has
\* not been carried out, and has been carried out when its caller is told so.
WriteProgress(c) ==
    /\ call[c].state # "sleeping" /\ call[c].attempt = 1
    /\ executed[c] \in {0, 1}
    /\ \A r \in wire : r.caller = c =>
          /\ r.attempt = 1
          /\ executed[c] = 0
          /\ call[c].state \in {"posted", "failed", "cancelled"}
    /\ call[c].state \in {"idle", "waiting"} => executed[c] = 0
    /\ call[c].state = "answered" /\ call[c].answer = "good" => executed[c] = 1
    /\ call[c].state = "ok" => executed[c] = 1

WritesInv == \A c \in Writes : WriteProgress(c)

\* Reads give up late and nothing else is retried.
AttemptsInv ==
    \A c \in Callers :
        /\ c \in Reads /\ call[c].state = "failed" => call[c].attempt = ReadAttempts
        /\ c \notin Reads => call[c].attempt = 1 /\ call[c].state # "sleeping"

----------------------------------------------------------------------------
\* What a reply or a missing one makes of its caller.
LEMMA Outcomes ==
    ASSUME NEW c \in Callers, Receive(c)
    PROVE  /\ call[c].answer = "good" => call' = [call EXCEPT ![c].state = "ok"]
           /\ call[c].answer # "good" => AttemptFails(c)
  BY DEF Receive

LEMMA FailedAttempts ==
    ASSUME NEW c \in Callers, AttemptFails(c)
    PROVE  /\ Retries(c) => call' = [call EXCEPT ![c].state = "sleeping",
                                                ![c].attempt = @ + 1]
           /\ ~Retries(c) => call' = [call EXCEPT ![c].state = "failed"]
  BY DEF AttemptFails

(***************************************************************************)
(* Every variable keeps its type.                                          *)
(***************************************************************************)
THEOREM Typing == Spec => []TypeOK
<1>1. Init => TypeOK
  BY DEF Init, TypeOK, States, Requests
<1>2. TypeOK /\ [Next]_vars => TypeOK'
  <2> SUFFICES ASSUME TypeOK, [Next]_vars PROVE TypeOK'
    OBVIOUS
  <2> DEFINE Calls == [Callers -> [state : States, attempt : 1..ReadAttempts,
                                   answer : {"good", "bad", None}]]
  <2>1. ASSUME NEW c \in Callers, Call(c) PROVE TypeOK'
    <3>1. call' \in Calls
      BY <2>1 DEF TypeOK, Call, States
    <3>2. waiters' \in Seq(Callers)
      BY <2>1 DEF TypeOK, Call, Queue
    <3> QED
      BY <2>1, <3>1, <3>2 DEF TypeOK, Call
  <2>2. ASSUME NEW c \in Callers, Post(c) PROVE TypeOK'
    <3>1. call' \in Calls
      BY <2>2 DEF TypeOK, Post, States
    <3>2. waiters' \in Seq(Callers)
      BY <2>2 DEF TypeOK, Post
    <3>3. Request(c) \in Requests
      BY DEF TypeOK, Request, Requests
    <3> QED
      BY <2>2, <3>1, <3>2, <3>3 DEF TypeOK, Post
  <2>3. ASSUME NEW c \in Callers, Skip(c) PROVE TypeOK'
    <3>1. waiters' \in Seq(Callers)
      BY <2>3 DEF TypeOK, Skip
    <3> QED
      BY <2>3, <3>1 DEF TypeOK, Skip
  <2>4. ASSUME NEW c \in Callers, AttemptFails(c) PROVE call' \in Calls
    BY <2>4 DEF AttemptFails, Retries, TypeOK, States
  <2>5. ASSUME NEW c \in Callers, Receive(c) PROVE TypeOK'
    <3>1. call' \in Calls
      <4>1. CASE call[c].answer = "good"
        <5>1. call' = [call EXCEPT ![c].state = "ok"]
          BY <2>5, <4>1, Outcomes
        <5> QED
          BY <5>1 DEF TypeOK, States
      <4>2. CASE call[c].answer # "good"
        BY <2>4, <2>5, <4>2, Outcomes
      <4> QED
        BY <4>1, <4>2
    <3> QED
      BY <2>5, <3>1 DEF TypeOK, Receive, Released
  <2>6. ASSUME NEW c \in Callers, NEW arrived \in BOOLEAN, NoReply(c, arrived)
        PROVE TypeOK'
    <3>1. call' \in Calls
      BY <2>4, <2>6 DEF NoReply
    <3> QED
      BY <2>6, <3>1 DEF TypeOK, NoReply, Released
  <2>7. ASSUME NEW c \in Callers, Wake(c) PROVE TypeOK'
    <3>1. call' \in Calls
      BY <2>7 DEF TypeOK, Wake, States
    <3>2. waiters' \in Seq(Callers)
      BY <2>7 DEF TypeOK, Wake, Queue
    <3> QED
      BY <2>7, <3>1, <3>2 DEF TypeOK, Wake
  <2>8. ASSUME NEW c \in Callers, Cancel(c) PROVE TypeOK'
    <3>1. call' \in Calls
      BY <2>8 DEF TypeOK, Cancel, States
    <3> QED
      BY <2>8, <3>1 DEF TypeOK, Cancel
  <2>9. ASSUME NEW r \in wire, NEW done \in BOOLEAN, NEW answer \in {"good", "bad"},
               Serve(r, done, answer)
        PROVE TypeOK'
    <3>1. r.caller \in Callers
      BY DEF TypeOK, Requests
    <3>2. call' \in Calls
      <4>1. CASE UNCHANGED call
        BY <4>1 DEF TypeOK
      <4>2. CASE call' = [call EXCEPT ![r.caller].state = "answered",
                                      ![r.caller].answer = answer]
        <5>1. call' = [call EXCEPT ![r.caller] =
                         [call[r.caller] EXCEPT !.state = "answered", !.answer = answer]]
          BY <4>2, <3>1 DEF TypeOK
        <5> QED
          BY <5>1, <3>1 DEF TypeOK, States
      <4> QED
        BY <2>9, <4>1, <4>2 DEF Serve
    <3>3. executed' \in [Callers -> Nat]
      BY <2>9, <3>1 DEF TypeOK, Serve
    <3> QED
      BY <2>9, <3>2, <3>3 DEF TypeOK, Serve
  <2>10. CASE UNCHANGED vars
    BY <2>10 DEF vars, TypeOK
  <2> QED
    BY <2>1, <2>2, <2>3, <2>5, <2>6, <2>7, <2>8, <2>9, <2>10 DEF Next, Exchange
<1> QED
  BY <1>1, <1>2, PTL DEF Spec

(***************************************************************************)
(* The lock is held exactly during an exchange, by the one caller in it.   *)
(***************************************************************************)
THEOREM OneExchangeAtATime == Spec => []OneExchange
<1>1. Init => OneExchange
  BY DEF Init, OneExchange
<1>2. TypeOK /\ OneExchange /\ [Next]_vars => OneExchange'
  <2> SUFFICES ASSUME TypeOK, OneExchange, [Next]_vars PROVE OneExchange'
    OBVIOUS
  <2> USE DEF TypeOK, OneExchange, States, Requests
  <2>1. ASSUME NEW c \in Callers, Call(c) PROVE OneExchange'
    BY <2>1 DEF Call
  <2>2. ASSUME NEW c \in Callers, Post(c) PROVE OneExchange'
    BY <2>2 DEF Post, Free
  <2>3. ASSUME NEW c \in Callers, Skip(c) PROVE OneExchange'
    BY <2>3 DEF Skip
  <2>4. ASSUME NEW c \in Callers, Receive(c) PROVE OneExchange'
    <3>1. call[c].state = "answered" /\ holder' = None
      BY <2>4 DEF Receive, Released
    <3>2. CASE call[c].answer = "good"
      <4>1. call' = [call EXCEPT ![c].state = "ok"]
        BY <2>4, <3>2, Outcomes
      <4> QED
        BY <3>1, <4>1
    <3>3. CASE call[c].answer # "good" /\ Retries(c)
      <4>1. call' = [call EXCEPT ![c].state = "sleeping", ![c].attempt = @ + 1]
        BY <2>4, <3>3, Outcomes, FailedAttempts
      <4> QED
        BY <3>1, <4>1
    <3>4. CASE call[c].answer # "good" /\ ~Retries(c)
      <4>1. call' = [call EXCEPT ![c].state = "failed"]
        BY <2>4, <3>4, Outcomes, FailedAttempts
      <4> QED
        BY <3>1, <4>1
    <3> QED
      BY <3>2, <3>3, <3>4
  <2>5. ASSUME NEW c \in Callers, Wake(c) PROVE OneExchange'
    BY <2>5 DEF Wake
  <2>6. ASSUME NEW c \in Callers, NEW arrived \in BOOLEAN, NoReply(c, arrived)
        PROVE OneExchange'
    BY <2>6 DEF NoReply, Released, AttemptFails
  <2>7. ASSUME NEW c \in Callers, Cancel(c) PROVE OneExchange'
    BY <2>7 DEF Cancel, Active
  <2>8. ASSUME NEW r \in wire, NEW done \in BOOLEAN, NEW answer \in {"good", "bad"},
               Serve(r, done, answer)
        PROVE OneExchange'
    BY <2>8 DEF Serve
  <2>9. CASE UNCHANGED vars
    BY <2>9 DEF vars
  <2> QED
    BY <2>1, <2>2, <2>3, <2>4, <2>5, <2>6, <2>7, <2>8, <2>9 DEF Next, Exchange
<1> QED
  BY <1>1, <1>2, Typing, PTL DEF Spec

(***************************************************************************)
(* One stumble never fails a read, and nothing but a read is tried twice.  *)
(***************************************************************************)
THEOREM AllAttemptsAreMade == Spec => []GivesUpAfterAllAttempts
<1>1. Init => AttemptsInv
  BY DEF Init, AttemptsInv
<1>2. TypeOK /\ AttemptsInv /\ [Next]_vars => AttemptsInv'
  <2> SUFFICES ASSUME TypeOK, AttemptsInv, [Next]_vars PROVE AttemptsInv'
    OBVIOUS
  <2> USE DEF TypeOK, AttemptsInv, States, Requests
  <2>a. ASSUME NEW c \in Callers, AttemptFails(c) PROVE AttemptsInv'
    <3>1. CASE Retries(c)
      BY <2>a, <3>1 DEF AttemptFails, Retries
    <3>2. CASE ~Retries(c)
      BY <2>a, <3>2 DEF AttemptFails, Retries
    <3> QED
      BY <3>1, <3>2
  <2>1. ASSUME NEW c \in Callers, Call(c) \/ Post(c) \/ Skip(c) \/ Wake(c) \/ Cancel(c)
        PROVE AttemptsInv'
    <3>1. CASE Call(c)
      BY <3>1 DEF Call
    <3>2. CASE Post(c) \/ Skip(c)
      BY <3>2 DEF Post, Skip
    <3>3. CASE Wake(c)
      BY <3>3 DEF Wake
    <3>4. CASE Cancel(c)
      BY <3>4 DEF Cancel
    <3> QED
      BY <2>1, <3>1, <3>2, <3>3, <3>4
  <2>2. ASSUME NEW c \in Callers, Receive(c) PROVE AttemptsInv'
    <3>1. CASE call[c].answer = "good"
      <4>1. call' = [call EXCEPT ![c].state = "ok"]
        BY <2>2, <3>1, Outcomes
      <4> QED
        BY <4>1
    <3>2. CASE call[c].answer # "good"
      BY <2>2, <2>a, <3>2, Outcomes
    <3> QED
      BY <3>1, <3>2
  <2>3. ASSUME NEW c \in Callers, NEW arrived \in BOOLEAN, NoReply(c, arrived)
        PROVE AttemptsInv'
    BY <2>3, <2>a DEF NoReply
  <2>4. ASSUME NEW r \in wire, NEW done \in BOOLEAN, NEW answer \in {"good", "bad"},
               Serve(r, done, answer)
        PROVE AttemptsInv'
    BY <2>4 DEF Serve
  <2>5. CASE UNCHANGED vars
    BY <2>5 DEF vars
  <2> QED
    BY <2>1, <2>2, <2>3, <2>4, <2>5 DEF Next, Exchange
<1>3. AttemptsInv => GivesUpAfterAllAttempts
  BY DEF AttemptsInv, GivesUpAfterAllAttempts
<1> QED
  BY <1>1, <1>2, <1>3, Typing, PTL DEF Spec

----------------------------------------------------------------------------
\* The strengthening of WriteAtMostOnce and SuccessIsFinal is inductive.
LEMMA WritesInvInitially == Init => WritesInv
  BY DEF Init, WritesInv, WriteProgress

LEMMA WritesInvPreserved == TypeOK /\ WritesInv /\ [Next]_vars => WritesInv'
<1> SUFFICES ASSUME TypeOK, WritesInv, [Next]_vars, NEW w \in Writes
             PROVE WriteProgress(w)'
  BY DEF WritesInv
<1>w. w \in Callers /\ w \notin Reads /\ WriteProgress(w)
  BY DEF WritesInv
<1> USE <1>w DEF TypeOK, WriteProgress, States, Requests
<1>1. ASSUME NEW c \in Callers, Call(c) PROVE WriteProgress(w)'
  BY <1>1 DEF Call
<1>2. ASSUME NEW c \in Callers, Post(c) PROVE WriteProgress(w)'
  BY <1>2 DEF Post, Request
<1>3. ASSUME NEW c \in Callers, Skip(c) PROVE WriteProgress(w)'
  BY <1>3 DEF Skip
<1>4. ASSUME NEW c \in Callers, Receive(c) PROVE WriteProgress(w)'
  <2>1. call[c].state = "answered" /\ UNCHANGED <<wire, executed>>
    BY <1>4 DEF Receive
  <2>2. CASE call[c].answer = "good"
    <3>1. call' = [call EXCEPT ![c].state = "ok"]
      BY <1>4, <2>2, Outcomes
    <3> QED
      BY <2>1, <2>2, <3>1
  <2>3. CASE call[c].answer # "good" /\ Retries(c)
    <3>1. c # w /\ call' = [call EXCEPT ![c].state = "sleeping", ![c].attempt = @ + 1]
      BY <1>4, <2>3, Outcomes, FailedAttempts DEF Retries
    <3> QED
      BY <2>1, <3>1
  <2>4. CASE call[c].answer # "good" /\ ~Retries(c)
    <3>1. call' = [call EXCEPT ![c].state = "failed"]
      BY <1>4, <2>4, Outcomes, FailedAttempts
    <3> QED
      BY <2>1, <3>1
  <2> QED
    BY <2>2, <2>3, <2>4
<1>5. ASSUME NEW c \in Callers, Wake(c) PROVE WriteProgress(w)'
  BY <1>5 DEF Wake
<1>6. ASSUME NEW c \in Callers, NEW arrived \in BOOLEAN, NoReply(c, arrived)
      PROVE WriteProgress(w)'
  <2>1. wire' \subseteq wire
    BY <1>6 DEF NoReply
  <2> QED
    BY <1>6, <2>1 DEF NoReply, AttemptFails, Retries
<1>7. ASSUME NEW c \in Callers, Cancel(c) PROVE WriteProgress(w)'
  BY <1>7 DEF Cancel, Active
<1>8. ASSUME NEW r \in wire, NEW done \in BOOLEAN, NEW answer \in {"good", "bad"},
             Serve(r, done, answer)
      PROVE WriteProgress(w)'
  <2>1. CASE r.caller # w
    BY <1>8, <2>1 DEF Serve
  <2>2. CASE r.caller = w
    <3>1. executed[w] = 0 /\ call[w].state \in {"posted", "failed", "cancelled"}
      BY <2>2
    <3>2. \A q \in wire' : q.caller # w
      <4> SUFFICES ASSUME NEW q \in wire', q.caller = w PROVE FALSE
        OBVIOUS
      <4>1. q \in wire /\ q # r
        BY <1>8 DEF Serve
      <4>2. q = [caller |-> w, attempt |-> 1] /\ r = [caller |-> w, attempt |-> 1]
        BY <4>1, <2>2
      <4> QED
        BY <4>1, <4>2
    <3>3. executed'[w] = IF done THEN 1 ELSE 0
      BY <1>8, <2>2, <3>1 DEF Serve
    <3>4. CASE UNCHANGED call
      BY <3>1, <3>2, <3>3, <3>4
    <3>5. CASE call' = [call EXCEPT ![w].state = "answered", ![w].answer = answer]
      <4>1. /\ call'[w].state = "answered" /\ call'[w].answer = answer
            /\ call'[w].attempt = 1
        BY <3>5
      <4> QED
        BY <1>8, <3>2, <3>3, <4>1 DEF Serve
    <3> QED
      BY <1>8, <2>2, <3>4, <3>5 DEF Serve
  <2> QED
    BY <2>1, <2>2
<1>9. CASE UNCHANGED vars
  BY <1>9 DEF vars
<1> QED
  BY <1>1, <1>2, <1>3, <1>4, <1>5, <1>6, <1>7, <1>8, <1>9 DEF Next, Exchange

\* At every await of client.py each write is where WriteProgress says: never
\* sent again, and carried out once by the time its caller hears of success.
THEOREM WritesStayInv == Spec => []WritesInv
  BY WritesInvInitially, WritesInvPreserved, Typing, PTL DEF Spec

(***************************************************************************)
(* Writes are carried out at most once.                                    *)
(***************************************************************************)
THEOREM WritesAtMostOnce == Spec => []WriteAtMostOnce
<1>1. TypeOK /\ WritesInv => WriteAtMostOnce
  BY DEF TypeOK, WritesInv, WriteProgress, WriteAtMostOnce
<1> QED
  BY <1>1, Typing, WritesStayInv, PTL

(***************************************************************************)
(* A successful write was carried out, and no copy of it can follow.       *)
(***************************************************************************)
THEOREM SuccessStands == Spec => []SuccessIsFinal
<1>1. WritesInv => SuccessIsFinal
  BY DEF WritesInv, WriteProgress, SuccessIsFinal
<1> QED
  BY <1>1, WritesStayInv, PTL

----------------------------------------------------------------------------
(***************************************************************************)
(* The client implements CommandService: of a write, callers see only that *)
(* it takes effect at most once, and before its success.                   *)
(***************************************************************************)
THEOREM ImplementsService == Spec => ServiceSpec
<1>1. Init => Service!ServiceInit
  BY DEF Init, Service!ServiceInit, Status, Active
<1>2. TypeOK /\ WritesInv /\ [Next]_vars => [Service!ServiceNext]_(Service!serviceVars)
  <2> SUFFICES ASSUME TypeOK, WritesInv, Next
               PROVE  Service!ServiceNext \/ UNCHANGED Service!serviceVars
    BY DEF vars, Service!serviceVars, Status, Active
  <2> USE DEF Service!serviceVars
  <2> DEFINE Seen == [c \in Callers |-> Status(c)]
  <2>1. ASSUME NEW c \in Callers, Call(c) PROVE Service!BeginCall(c)
    <3>1. Status(c) = "idle" /\ Seen' = [Seen EXCEPT ![c] = "pending"]
      BY <2>1 DEF Call, Status, Active, TypeOK
    <3> QED
      BY <2>1, <3>1 DEF Call, Service!BeginCall
  <2>2. ASSUME NEW c \in Callers, UNCHANGED executed, NEW outcome,
               Status(c) = "pending",
               outcome = "ok" => (c \in Writes => executed[c] = 1),
               outcome \in {"ok", "failed", "cancelled"},
               call' = [call EXCEPT ![c].state = outcome]
        PROVE  Service!Succeed(c) \/ Service!GiveUp(c)
    <3>1. Seen' = [Seen EXCEPT ![c] = outcome]
      BY <2>2 DEF Status, Active, TypeOK
    <3> QED
      BY <2>2, <3>1 DEF Service!Succeed, Service!GiveUp
  <2>3. ASSUME NEW c \in Callers, UNCHANGED executed, Active(c), Active(c)',
               \A d \in Callers \ {c} : call'[d] = call[d]
        PROVE  UNCHANGED Service!serviceVars
    BY <2>3 DEF Status, Active, TypeOK
  <2>4. ASSUME NEW c \in Callers, Post(c) \/ Skip(c) \/ Wake(c)
        PROVE  UNCHANGED Service!serviceVars
    <3>1. CASE Post(c)
      BY <3>1, <2>3 DEF Post, Active, TypeOK
    <3>2. CASE Skip(c)
      BY <3>2 DEF Skip, Status, Active
    <3>3. CASE Wake(c)
      BY <3>3, <2>3 DEF Wake, Active, TypeOK
    <3> QED
      BY <2>4, <3>1, <3>2, <3>3
  <2>5. ASSUME NEW c \in Callers, UNCHANGED executed, Active(c), AttemptFails(c)
        PROVE  Service!ServiceNext \/ UNCHANGED Service!serviceVars
    <3>1. CASE Retries(c)
      <4>1. call' = [call EXCEPT ![c].state = "sleeping", ![c].attempt = @ + 1]
        BY <2>5, <3>1, FailedAttempts
      <4>2. Active(c)' /\ \A d \in Callers \ {c} : call'[d] = call[d]
        BY <4>1 DEF Active, TypeOK
      <4> QED
        BY <2>3, <2>5, <4>2
    <3>2. CASE ~Retries(c)
      <4>1. call' = [call EXCEPT ![c].state = "failed"]
        BY <2>5, <3>2, FailedAttempts
      <4> QED
        BY <2>2, <2>5, <4>1 DEF Status, Service!ServiceNext
    <3> QED
      BY <3>1, <3>2
  <2>6. ASSUME NEW c \in Callers, Receive(c)
        PROVE  Service!ServiceNext \/ UNCHANGED Service!serviceVars
    <3>1. Active(c) /\ UNCHANGED executed
      BY <2>6 DEF Receive, Active
    <3>2. CASE call[c].answer = "good"
      <4>1. call' = [call EXCEPT ![c].state = "ok"]
        BY <2>6, <3>2, Outcomes
      <4>2. c \in Writes => executed[c] = 1
        BY <2>6, <3>2 DEF Receive, WritesInv, WriteProgress
      <4> QED
        BY <2>2, <3>1, <4>1, <4>2 DEF Status, Service!ServiceNext
    <3>3. CASE call[c].answer # "good"
      BY <2>5, <2>6, <3>1, <3>3, Outcomes
    <3> QED
      BY <3>2, <3>3
  <2>7. ASSUME NEW c \in Callers, NEW arrived \in BOOLEAN, NoReply(c, arrived)
        PROVE  Service!ServiceNext \/ UNCHANGED Service!serviceVars
    BY <2>5, <2>7 DEF NoReply, Active
  <2>8. ASSUME NEW c \in Callers, Cancel(c) PROVE Service!ServiceNext
    BY <2>2, <2>8 DEF Cancel, Status, Service!ServiceNext
  <2>9. ASSUME NEW r \in wire, NEW done \in BOOLEAN, NEW answer \in {"good", "bad"},
               Serve(r, done, answer)
        PROVE  Service!ServiceNext \/ UNCHANGED Service!serviceVars
    <3>1. r.caller \in Callers
      BY DEF TypeOK, Requests
    <3>2. Seen' = Seen
      BY <2>9, <3>1 DEF Serve, Status, Active, TypeOK
    <3>3. CASE done /\ r.caller \in Writes
      <4>1. executed[r.caller] = 0 /\ Status(r.caller) # "idle"
        BY <3>3 DEF WritesInv, WriteProgress, Status, Active
      <4>2. executed' = [executed EXCEPT ![r.caller] = 1]
        BY <2>9, <3>3, <4>1 DEF Serve
      <4>3. Service!TakeEffect(r.caller)
        BY <3>1, <3>2, <3>3, <4>1, <4>2 DEF Service!TakeEffect
      <4> QED
        BY <3>1, <4>3 DEF Service!ServiceNext
    <3>4. CASE ~(done /\ r.caller \in Writes)
      BY <2>9, <3>2, <3>4 DEF Serve
    <3> QED
      BY <3>3, <3>4
  <2> QED
    BY <2>1, <2>4, <2>6, <2>7, <2>8, <2>9 DEF Next, Exchange, Service!ServiceNext
<1> QED
  BY <1>1, <1>2, Typing, WritesStayInv, PTL DEF Spec, ServiceSpec, Service!ServiceSpec
=============================================================================
