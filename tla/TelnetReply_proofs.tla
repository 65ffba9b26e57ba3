------------------------- MODULE TelnetReply_proofs -------------------------
(***************************************************************************)
(* Proofs about one telnet command, for a table of any length and any      *)
(* idle window and timeout: what a reply cut, late or lost can be taken    *)
(* for.                                                                    *)
(***************************************************************************)
EXTENDS TelnetReply, TLAPS

LEMMA Sizes ==
    /\ OutputCount \in Nat \ {0} /\ IdleWindow \in Nat \ {0} /\ Timeout \in Nat \ {0}
    /\ IdleWindow < Timeout
    /\ ReplyLines \in Nat \ {0} /\ Total = 2 + ReplyLines
    /\ content # "saved" => Total = 3
    /\ content = "saved" /\ command = "read" => Total = 2 + OutputCount
  BY TelnetAssumption DEF TelnetAssumption, ReplyLines, Total

LEMMA TotalStays == ASSUME UNCHANGED session PROVE Total' = Total /\ ReplyLines' = ReplyLines
  BY DEF session, Total, ReplyLines

\* A read is never of more lines than its table has.
LEMMA ParsedType ==
    ASSUME TypeOK
    PROVE  Parsed \in [kind : {"error", "ok", "empty", "routes"}, lines : 0..OutputCount]
<1>1. /\ sent \in Nat /\ got \in Nat /\ got <= sent /\ sent <= Total
  BY Sizes DEF TypeOK
<1>2. BodyLines \in 0..ReplyLines
  BY <1>1, Sizes DEF BodyLines
<1>3. CASE command = "read"
  <2>1. content = "saved" => BodyLines \in 0..OutputCount
    BY <1>2, <1>3 DEF ReplyLines
  <2> QED
    BY <1>3, <2>1, Sizes DEF TypeOK, Parsed, ParsedPreset, Outcome, Error
<1>4. CASE command # "read"
  BY <1>4, Sizes DEF Parsed, ParsedReboot, Outcome, Error
<1> QED
  BY <1>3, <1>4

LEMMA LostType == Lost \in [kind : {"error", "ok"}, lines : 0..OutputCount]
  BY Sizes DEF Lost, Outcome, Error

\* The output has not been quiet for longer than there was time: without
\* this a silence could outlast the deadline that ends it.
QuietInv == TypeOK /\ quiet <= elapsed

----------------------------------------------------------------------------
LEMMA Quiet == Spec => []QuietInv
<1>1. Init => QuietInv
  <2> SUFFICES ASSUME Init PROVE QuietInv
    OBVIOUS
  <2>1. Total \in Nat /\ 0 \in 0..Total /\ 0 \in 0..Timeout /\ 0 \in 0..OutputCount /\ 0 \in 0..0
    BY Sizes
  <2>2. result \in [kind : {"pending", "error", "ok", "empty", "routes"}, lines : 0..OutputCount]
    BY <2>1 DEF Init, Pending
  <2>3. /\ sent \in 0..Total /\ got \in 0..sent /\ elapsed \in 0..Timeout /\ quiet \in 0..Timeout
        /\ quiet <= elapsed
    BY <2>1 DEF Init
  <2>4. slow \in BOOLEAN
    BY DEF Init
  <2> QED
    BY <2>2, <2>3, <2>4 DEF Init, QuietInv, TypeOK
<1>2. QuietInv /\ [Next]_vars => QuietInv'
  <2> SUFFICES ASSUME QuietInv, [Next]_vars PROVE QuietInv'
    OBVIOUS
  <2>1. /\ TypeOK /\ quiet <= elapsed
        /\ Total \in Nat /\ sent \in Nat /\ got \in Nat /\ elapsed \in Nat /\ quiet \in Nat
    BY Sizes DEF QuietInv, TypeOK
  <2>2. ASSUME NEW outcome \in [kind : {"error", "ok", "empty", "routes"}, lines : 0..OutputCount],
               Finish(outcome)
        PROVE  QuietInv'
    BY <2>1, <2>2, TotalStays DEF Finish, QuietInv, TypeOK, session
  <2>3. CASE Connect
    BY <2>1, <2>3, TotalStays DEF Connect, QuietInv, TypeOK, session
  <2>4. CASE ConnectFails
    <3>1. Error \in [kind : {"error", "ok", "empty", "routes"}, lines : 0..OutputCount]
      BY Sizes DEF Error
    <3> QED
      BY <2>2, <2>4, <3>1 DEF ConnectFails
  <2>5. CASE ReadChunk
    BY <2>1, <2>5, TotalStays DEF ReadChunk, QuietInv, TypeOK, session
  <2>6. CASE EndOfReply
    BY <2>1, <2>2, <2>6, ParsedType DEF EndOfReply
  <2>7. CASE Breaks
    BY <2>2, <2>7, LostType DEF Breaks
  <2>8. ASSUME NEW n \in 1..Total, Emit(n) PROVE QuietInv'
    <3>1. /\ sent' \in 0..Total /\ got' \in 0..sent' /\ quiet' \in 0..Timeout
          /\ quiet' <= elapsed'
      BY <2>1, <2>8, Sizes DEF Emit, TypeOK
    <3> QED
      BY <2>1, <2>8, <3>1, TotalStays DEF Emit, QuietInv, TypeOK, session
  <2>9. ASSUME NEW how \in {"closed", "broken"}, HangUp(how) PROVE QuietInv'
    BY <2>1, <2>9, TotalStays DEF HangUp, QuietInv, TypeOK, session
  <2>10. CASE Tick
    <3>1. /\ elapsed' \in 0..Timeout /\ quiet' \in 0..Timeout /\ quiet' <= elapsed'
      BY <2>1, <2>10, Sizes DEF Tick
    <3>2. slow' \in BOOLEAN
      BY <2>10 DEF Tick
    <3> QED
      BY <2>1, <2>10, <3>1, <3>2, TotalStays DEF Tick, QuietInv, TypeOK, session
  <2>11. CASE UNCHANGED vars
    BY <2>1, <2>11, TotalStays DEF vars, QuietInv, TypeOK, session
  <2> QED
    BY <2>3, <2>4, <2>5, <2>6, <2>7, <2>8, <2>9, <2>10, <2>11 DEF Next, Client, Cli
<1> QED
  BY <1>1, <1>2, PTL DEF Spec

(***************************************************************************)
(* Every variable keeps its type, and no more is collected than was sent.  *)
(***************************************************************************)
THEOREM Typing == Spec => []TypeOK
<1>1. QuietInv => TypeOK
  BY DEF QuietInv
<1> QED
  BY <1>1, Quiet, PTL

----------------------------------------------------------------------------
(* How a command can have ended.                                           *)

\* Nothing is sent before the connection stands.
Unsent == phase = "connecting" => sent = 0 /\ link = "up"

\* A CLI that was not slow has said it all when its pause or the time is
\* up, and it has been heard.
SaidAll ==
    ~slow =>
        /\ sent > 0 /\ quiet >= IdleWindow => sent = Total
        /\ elapsed >= Timeout => sent = Total /\ got = sent

\* What a command that is over makes of what it collected.
Ended ==
    phase = "done" =>
        \/ sent = 0 /\ link = "up" /\ result = Error
        \/ result = Lost /\ (link = "broken" \/ (got = 0 /\ OutOfTime))
        \/ /\ result = Parsed /\ link # "broken"
           /\ \/ link = "closed" /\ got = sent
              \/ GoneQuiet /\ got = sent
              \/ got > 0 /\ OutOfTime

Running == phase # "done" => result = Pending

ReplyInv == Unsent /\ SaidAll /\ Ended /\ Running

LEMMA ReplyKept == Spec => []ReplyInv
<1>1. Init => ReplyInv
  BY Sizes DEF Init, ReplyInv, Unsent, SaidAll, Ended, Running
<1>2. TypeOK /\ ReplyInv /\ [Next]_vars => ReplyInv'
  <2> SUFFICES ASSUME TypeOK, ReplyInv, [Next]_vars PROVE ReplyInv'
    OBVIOUS
  <2>1. /\ Total \in Nat /\ sent \in Nat /\ got \in Nat /\ elapsed \in Nat /\ quiet \in Nat
        /\ got <= sent /\ sent <= Total
    BY Sizes DEF TypeOK
  <2>2. CASE Client
    <3>1. /\ UNCHANGED <<session, sent, link, elapsed, quiet, slow>>
          /\ Total' = Total /\ Lost' = Lost
      BY <2>2, TotalStays
      DEF Client, Connect, ConnectFails, ReadChunk, EndOfReply, Breaks, Finish, session, Lost
    <3>2. CASE Connect \/ ReadChunk
      BY <2>1, <3>1, <3>2
      DEF Connect, ReadChunk, Readable, OutOfTime, ReplyInv, Unsent, SaidAll, Ended, Running
    <3>3. CASE ConnectFails
      BY <2>1, <3>1, <3>3 DEF ConnectFails, Finish, ReplyInv, Unsent, SaidAll, Ended, Running
    <3>4. CASE Breaks
      BY <2>1, <3>1, <3>4
      DEF Breaks, Finish, OutOfTime, ReplyInv, Unsent, SaidAll, Ended, Running
    <3>5. CASE EndOfReply
      <4>1. got' = got /\ Parsed' = Parsed /\ result' = Parsed /\ phase' = "done"
        BY <3>5, TotalStays
        DEF EndOfReply, Finish, session, Parsed, ParsedPreset, ParsedReboot, BodyLines
      <4> QED
        BY <2>1, <3>1, <3>5, <4>1
        DEF EndOfReply, Readable, OutOfTime, GoneQuiet, ReplyInv, Unsent, SaidAll, Ended, Running
    <3> QED
      BY <2>2, <3>2, <3>3, <3>4, <3>5 DEF Client
  <2>3. CASE Cli
    <3>1. /\ phase = "collecting" /\ phase' = "collecting"
          /\ UNCHANGED <<session, got, elapsed, slow, result>> /\ Total' = Total
          /\ link = "up"
      BY <2>3, TotalStays DEF Cli, Emit, HangUp, session
    <3>2. ASSUME NEW n \in 1..Total, Emit(n) PROVE SaidAll'
      BY <2>1, <3>1, <3>2, Sizes DEF Emit, ReplyInv, SaidAll
    <3>3. ASSUME NEW how \in {"closed", "broken"}, HangUp(how) PROVE SaidAll'
      BY <3>1, <3>3 DEF HangUp, ReplyInv, SaidAll
    <3> QED
      BY <2>3, <3>1, <3>2, <3>3 DEF Cli, ReplyInv, Unsent, Ended, Running
  <2>4. CASE Tick
    <3>1. /\ phase = "collecting" /\ phase' = "collecting" /\ result' = result
          /\ UNCHANGED <<session, sent, got, link>> /\ Total' = Total /\ got = sent
      BY <2>1, <2>4, TotalStays DEF Tick, Readable, session
    <3>2. SaidAll'
      BY <2>1, <2>4, <3>1 DEF Tick, ReplyInv, SaidAll
    <3> QED
      BY <3>1, <3>2 DEF ReplyInv, Unsent, Ended, Running
  <2>5. CASE UNCHANGED vars
    BY <2>5, TotalStays
    DEF vars, session, ReplyInv, Unsent, SaidAll, Ended, Running, Lost, Parsed, ParsedPreset,
        ParsedReboot, BodyLines, GoneQuiet, OutOfTime
  <2> QED
    BY <2>2, <2>3, <2>4, <2>5 DEF Next
<1> QED
  BY <1>1, <1>2, Typing, PTL DEF Spec

----------------------------------------------------------------------------
(***************************************************************************)
(* Only a slot the CLI calls empty reads as empty, and only when its reply *)
(* was heard to the end, for a table of any length: no loss or delay makes *)
(* a backup forget a slot.                                                 *)
(***************************************************************************)
THEOREM EmptyMeansEmpty == Spec => []EmptyIsEmpty
<1>1. TypeOK /\ ReplyInv => EmptyIsEmpty
  <2> SUFFICES ASSUME TypeOK, ReplyInv, result.kind = "empty"
               PROVE  content = "empty" /\ got = Total
    BY DEF EmptyIsEmpty
  <2>1. phase = "done" /\ result = Parsed
    BY DEF ReplyInv, Ended, Running, Pending, Error, Lost, Outcome
  <2>2. content = "empty" /\ BodyLines # 0
    BY <2>1 DEF Parsed, ParsedPreset, ParsedReboot, Outcome, Error
  <2> QED
    BY <2>2, Sizes DEF BodyLines, TypeOK
<1> QED
  BY <1>1, ReplyKept, Typing, PTL

(***************************************************************************)
(* A CLI that keeps its pauses under the idle window and ends in time is   *)
(* heard to the end, for any window and timeout, however its output is cut *)
(* into chunks.                                                            *)
(***************************************************************************)
THEOREM PromptIsWhole == Spec => []PromptReplyIsWhole
<1>1. TypeOK /\ ReplyInv => PromptReplyIsWhole
  <2> SUFFICES ASSUME TypeOK, ReplyInv, phase = "done", command = "read", content = "saved",
                      link = "up", ~slow, sent > 0
               PROVE  result = [kind |-> "routes", lines |-> OutputCount]
    BY DEF PromptReplyIsWhole
  <2>1. Total = 2 + OutputCount /\ OutputCount \in Nat \ {0} /\ sent \in Nat
    BY Sizes DEF TypeOK
  <2>2. result = Parsed /\ got = Total
    BY <2>1 DEF ReplyInv, Ended, SaidAll, GoneQuiet, OutOfTime
  <2>3. BodyLines = OutputCount
    BY <2>1, <2>2 DEF BodyLines
  <2> QED
    BY <2>1, <2>2, <2>3 DEF Parsed, ParsedPreset
<1> QED
  BY <1>1, ReplyKept, Typing, PTL

(***************************************************************************)
(* A reboot whose command may have gone out succeeds unless the CLI        *)
(* refused it, whatever becomes of the connection and whenever.            *)
(***************************************************************************)
THEOREM RebootOutlivesDrop == Spec => []RebootSurvivesDrop
<1>1. TypeOK /\ ReplyInv => RebootSurvivesDrop
  <2> SUFFICES ASSUME TypeOK, ReplyInv, phase = "done", command = "reboot",
                      sent > 0 \/ link # "up", content # "refused"
               PROVE  result.kind = "ok"
    BY DEF RebootSurvivesDrop
  <2>1. result = Lost \/ result = Parsed
    BY DEF ReplyInv, Ended, TypeOK
  <2> QED
    BY <2>1 DEF Lost, Parsed, ParsedReboot, Outcome
<1> QED
  BY <1>1, ReplyKept, Typing, PTL
=============================================================================
