---------------------------- MODULE TelnetReply -----------------------------
(***************************************************************************)
(* One command on the telnet CLI: connect, send, collect the reply until   *)
(* it goes quiet, ends or runs out of time, and read a preset out of it.   *)
(* The CLI marks no end: it sends banner, echo and reply in bursts, and    *)
(* may pause, close the connection or break it at any point.               *)
(***************************************************************************)
EXTENDS Naturals, Sequences

CONSTANTS
    OutputCount,   \* lines of a saved preset's table
    IdleWindow,    \* _IDLE_WINDOW, in ticks
    Timeout        \* the client's timeout, in ticks

ASSUME TelnetAssumption ==
    /\ {OutputCount, IdleWindow, Timeout} \subseteq Nat \ {0}
    /\ IdleWindow < Timeout

VARIABLES
    command,   \* "read" a preset slot or "reboot" the network module
    content,   \* what the CLI has to say: "saved", "empty" slot or "refused"
    phase,     \* "connecting", "collecting", "done"
    sent,      \* lines the CLI has sent
    got,       \* lines collected
    link,      \* "up", "closed" by the CLI, "broken"
    elapsed,   \* ticks since the reply was first awaited
    quiet,     \* ticks since the last output
    slow,      \* the CLI kept the client waiting longer than it waits
    result     \* [kind, lines]

vars == <<command, content, phase, sent, got, link, elapsed, quiet, slow, result>>
session == <<command, content>>

Pending == [kind |-> "pending", lines |-> 0]
Error == [kind |-> "error", lines |-> 0]
Outcome(kind) == [kind |-> kind, lines |-> 0]

\* What the CLI sends: banner, echo, then the reply line by line.
ReplyLines == IF content = "saved" /\ command = "read" THEN OutputCount ELSE 1
Total == 2 + ReplyLines

----------------------------------------------------------------------------
(* The reply read back.                                                    *)

\* Slip: a reply without routes is taken for an empty slot.
ParsedPresetLenient(lines) ==
    IF lines = 0 THEN Outcome("empty")
    ELSE IF content = "empty" THEN Outcome("empty")
    ELSE IF content = "refused" THEN Error
    ELSE [kind |-> "routes", lines |-> lines]

\* Lines past the echo: "is none" is an empty slot, E00 a refusal, a table
\* that starts at output 1 without gaps its routes, anything else an error.
ParsedPreset(lines) ==
    IF lines = 0 THEN Error
    ELSE IF content = "empty" THEN Outcome("empty")
    ELSE IF content = "refused" THEN Error
    ELSE [kind |-> "routes", lines |-> lines]

\* The reboot's reply is not looked at beyond a refusal.
ParsedReboot(lines) ==
    IF lines > 0 /\ content = "refused" THEN Error ELSE Outcome("ok")

\* Slip: a connection lost under a reboot is an error.
LostStrict == Error

Lost == IF command = "reboot" THEN Outcome("ok") ELSE Error

\* Slip: the echo is counted as a line of the reply.
BodyLinesWithEcho == IF got > 1 THEN got - 1 ELSE 0

BodyLines == IF got > 2 THEN got - 2 ELSE 0

Finish(outcome) ==
    /\ phase' = "done"
    /\ result' = outcome
    /\ UNCHANGED <<session, sent, got, link, elapsed, quiet, slow>>

Parsed == IF command = "read" THEN ParsedPreset(BodyLines)
          ELSE ParsedReboot(BodyLines)

----------------------------------------------------------------------------
(* The client.                                                             *)

Connect ==
    /\ phase = "connecting"
    /\ phase' = "collecting"
    /\ UNCHANGED <<session, sent, got, link, elapsed, quiet, slow, result>>

\* Refused or timed out before the command is on the wire.
ConnectFails == phase = "connecting" /\ Finish(Error)

\* Slip: the pause that ends a reply is one tick short.
GoneQuietEarly == got > 0 /\ quiet >= IdleWindow - 1

GoneQuiet == got > 0 /\ quiet >= IdleWindow

\* Slip: the deadline counts only once something has arrived.
OutOfTimeIfHeard == got > 0 /\ elapsed >= Timeout

OutOfTime == elapsed >= Timeout

Readable == sent > got /\ link # "broken"

ReadChunk ==
    /\ phase = "collecting"
    /\ Readable
    /\ ~OutOfTime
    /\ got' = sent
    /\ UNCHANGED <<session, phase, sent, link, elapsed, quiet, slow, result>>

EndOfReply ==
    /\ phase = "collecting"
    /\ link # "broken"
    /\ \/ link = "closed" /\ ~Readable
       \/ GoneQuiet /\ ~Readable
       \/ got > 0 /\ OutOfTime
    /\ Finish(Parsed)

Breaks ==
    /\ phase = "collecting"
    /\ link = "broken" \/ (got = 0 /\ OutOfTime)
    /\ Finish(Lost)

----------------------------------------------------------------------------
(* The CLI and the network.                                                *)

Emit(n) ==
    /\ phase = "collecting" /\ link = "up"
    /\ sent + n <= Total
    /\ sent' = sent + n
    /\ quiet' = 0
    /\ UNCHANGED <<session, phase, got, link, elapsed, slow, result>>

HangUp(how) ==
    /\ phase = "collecting" /\ link = "up"
    /\ link' = how
    /\ UNCHANGED <<session, phase, sent, got, elapsed, quiet, slow, result>>

\* Time passes while the client has nothing to do.
Tick ==
    /\ phase = "collecting" /\ link = "up"
    /\ ~Readable /\ ~GoneQuiet /\ elapsed < Timeout
    /\ elapsed' = elapsed + 1
    /\ quiet' = quiet + 1
    /\ slow' = \/ slow
                \/ /\ sent < Total
                   /\ (sent > 0 /\ quiet + 1 >= IdleWindow) \/ elapsed + 1 >= Timeout
    /\ UNCHANGED <<session, phase, sent, got, link, result>>

----------------------------------------------------------------------------
Init ==
    /\ command \in {"read", "reboot"}
    /\ content \in {"saved", "empty", "refused"}
    /\ phase = "connecting"
    /\ sent = 0 /\ got = 0 /\ link = "up"
    /\ elapsed = 0 /\ quiet = 0 /\ slow = FALSE
    /\ result = Pending

Client == Connect \/ ConnectFails \/ ReadChunk \/ EndOfReply \/ Breaks

Cli == (\E n \in 1..Total : Emit(n)) \/ (\E how \in {"closed", "broken"} : HangUp(how))

Next == Client \/ Cli \/ Tick

Spec == Init /\ [][Next]_vars

FairSpec == Spec /\ WF_vars(Connect \/ ReadChunk \/ EndOfReply \/ Breaks) /\ WF_vars(Tick)

----------------------------------------------------------------------------
TypeOK ==
    /\ command \in {"read", "reboot"}
    /\ content \in {"saved", "empty", "refused"}
    /\ phase \in {"connecting", "collecting", "done"}
    /\ sent \in 0..Total /\ got \in 0..sent
    /\ link \in {"up", "closed", "broken"}
    /\ elapsed \in 0..Timeout /\ quiet \in 0..Timeout /\ slow \in BOOLEAN
    /\ result \in [kind : {"pending", "error", "ok", "empty", "routes"},
                   lines : 0..OutputCount]

(***************************************************************************)
(* Only a slot the CLI calls empty reads as empty: a lost, late or refused *)
(* reply never makes a backup forget a slot.                               *)
(***************************************************************************)
EmptyIsEmpty == result.kind = "empty" => content = "empty" /\ got = Total

(***************************************************************************)
(* A CLI that keeps its pauses under the idle window and ends in time is   *)
(* heard to the end, however its output is cut into chunks.                *)
(***************************************************************************)
PromptReplyIsWhole ==
    /\ phase = "done" /\ command = "read" /\ content = "saved"
    /\ link = "up" /\ ~slow /\ sent > 0
    => result = [kind |-> "routes", lines |-> OutputCount]

(***************************************************************************)
(* A reboot whose command went out succeeds unless the CLI refused it,     *)
(* whatever becomes of the connection.                                     *)
(***************************************************************************)
RebootSurvivesDrop ==
    phase = "done" /\ command = "reboot" /\ (sent > 0 \/ link # "up") =>
        result.kind = "ok" \/ content = "refused"

(***************************************************************************)
(* Every command ends, also on a CLI that keeps trickling output.          *)
(***************************************************************************)
CommandEnds == phase = "collecting" ~> phase = "done"

(***************************************************************************)
(* "Half a crosspoint table must fail loudly, not restore half a preset":  *)
(* what is returned is the whole table.  A table cut after its first lines *)
(* still numbers its outputs from 1 without gaps and is returned as it is. *)
(***************************************************************************)
WholeTableOrError == result.kind = "routes" => result.lines = OutputCount
=============================================================================
