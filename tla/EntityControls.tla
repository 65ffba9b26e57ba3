--------------------------- MODULE EntityControls ---------------------------
(***************************************************************************)
(* The selects and switches between a user and a matrix: how an option     *)
(* becomes a firmware value, a command and an optimistic value, and how a  *)
(* polled array becomes what each port shows.  One control is followed at  *)
(* a time; menus stay open while polls and renames go on.  A poll is one   *)
(* step here: what slips between its reads is in Coordinator.              *)
(***************************************************************************)
EXTENDS Integers, Sequences, FiniteSets

LOCAL INSTANCE TLC

CONSTANTS
    Controls,    \* the controls to follow
    Ports,       \* how many outputs
    Sources,     \* how many inputs
    Names,       \* what an input can be called
    Firsts,      \* values a control may have at first, where its table has them
    Others,      \* values the front panel may set, some in no table
    MaxMoves,    \* bound on what users, the front panel and junk do
    Aggregate,   \* the item over all ports at the end of an array
    Junk, None

Unnamed == {"hdcp", "scaler", "edid", "ext_audio_mode", "baud_rate", "lcd_on_time"}
Named == {"route", "ext_audio_route"}
Flags == {"stream", "mute", "arc", "ext_audio_out", "power", "panel_lock", "beep"}
Scalars == {"ext_audio_mode", "baud_rate", "lcd_on_time", "power", "panel_lock", "beep"}
Extracted == {"ext_audio_route", "ext_audio_out"}

ASSUME ControlsAssumption == Controls \subseteq Unnamed \cup Named \cup Flags
ASSUME SizesAssumption ==
    {Ports, Sources} \subseteq Nat \ {0} /\ MaxMoves \in Nat /\ Firsts \cup Others \subseteq Int
ASSUME MarkersAssumption ==
    None \notin Names \cup Int /\ Junk \notin Int /\ Aggregate \in Int

VARIABLES
    control,   \* the control followed
    device,    \* the matrix: the inputs' names and the control's values
    data,      \* the coordinator's copy of both
    menu,      \* the options a user is looking at
    pending,   \* the command of the option chosen, and (history) the inputs in doubt
    current,   \* the copy is of a whole reply and nothing changed since
    moves

vars == <<control, device, data, menu, pending, current, moves>>

----------------------------------------------------------------------------
(* The firmware's enumerations.                                            *)

HDCP_MODES == <<"hdcp_1_4", "hdcp_2_2", "follow_sink", "follow_source", "off">>

SCALER_MODES ==
    [v \in 0..4 |-> <<"bypass", "downscale_4k_to_1080p", "downscale_8k_4k_to_1080p",
                      "auto", "audio_only">>[v + 1]]

EXT_AUDIO_MODES ==
    [v \in 0..2 |-> <<"bind_to_input", "bind_to_output", "audio_matrix">>[v + 1]]

BAUD_RATES == <<"4800", "9600", "19200", "38400", "57600", "115200">>

LCD_ON_TIMES ==
    [v \in 0..6 |-> <<"always_on", "5_seconds", "10_seconds", "30_seconds",
                      "1_minute", "5_minutes", "10_minutes">>[v + 1]]

Pictures ==
    <<"1080P", "4K30", "4K60(420)", "4K60(444)", "1080P_HDR", "4K30_HDR", "4K60(420)_HDR",
      "4K60(444)_HDR", "4K120(420)_HDR", "4K120(444)_HDR", "FRL10G_8K_HDR", "FRL12G_8K_HDR">>
Sounds == <<"2.0CH", "5.1CH", "7.1CH">>

\* A picture with a sound each, the users' own, and a copy of each output's.
EDID_PROFILES ==
    [v \in 1..47 |-> CASE v <= 36 -> <<Pictures[(v + 2) \div 3], Sounds[((v + 2) % 3) + 1]>>
                       [] v \in 37..39 -> <<"User_EDID", ToString(v - 36)>>
                       [] OTHER -> <<"COPY_FROM_OUTPUT", ToString(v - 39)>>]

Table(c) ==
    CASE c = "hdcp"           -> HDCP_MODES
      [] c = "scaler"         -> SCALER_MODES
      [] c = "edid"           -> EDID_PROFILES
      [] c = "ext_audio_mode" -> EXT_AUDIO_MODES
      [] c = "baud_rate"      -> BAUD_RATES
      [] c = "lcd_on_time"    -> LCD_ON_TIMES
      [] OTHER                -> [v \in {0, 1} |-> IF v = 0 THEN "off" ELSE "on"]

----------------------------------------------------------------------------
(* From firmware values to options, and back.                              *)

\* A control of inputs is labelled with their names at the time.
Labels(c, names) == IF c \in Named THEN names ELSE Table(c)

\* Values do not always start at zero and need not be in the table; any
\* value but zero is on.
Label(c, names, v) ==
    LET labels == Labels(c, names)
        u == IF c \in Flags /\ v # 0 THEN 1 ELSE v
    IN  IF u \in DOMAIN labels THEN labels[u] ELSE None

Options(c, names) == {Labels(c, names)[v] : v \in DOMAIN Labels(c, names)}

\* The values of an option: of equal names the first is taken.
ValuesFor(c, names, option) ==
    LET labels == Labels(c, names)
        is == {v \in DOMAIN labels : labels[v] = option}
    IN  {v \in is : \A w \in is : v <= w}

\* EDIDs are shown to the sources.
PortCount(c) == IF c \in Scalars THEN 1 ELSE IF c = "edid" THEN Sources ELSE Ports

\* Slip: one-based ports index zero-based arrays.
ValueOffByOne(values, port) == IF port >= Len(values) THEN None ELSE values[port + 1]

\* A port shows its own item of the array, or nothing when the array is short.
Value(values, port) == IF port > Len(values) THEN None ELSE values[port]

Shown(port) ==
    LET v == Value(data.values, port)
    IN  IF v = None THEN None ELSE Label(control, data.names, v)

----------------------------------------------------------------------------
(* Polls.                                                                  *)

\* Slip: what is not a number counts as zero.
IntListZeroed(reply) == [p \in DOMAIN reply |-> IF reply[p] = Junk THEN 0 ELSE reply[p]]

\* Where an item goes when only those at the kept positions stay.
Place(kept, p) == Cardinality({q \in kept : q <= p})

\* Whatever is not a number is dropped, and what follows moves up.
IntList(reply) ==
    LET kept == {p \in DOMAIN reply : reply[p] # Junk}
    IN  [n \in 1..Cardinality(kept) |-> reply[CHOOSE p \in kept : Place(kept, p) = n]]

\* Slip: the aggregate is left in.
TrimmedNot(values, count) == values

\* The arrays of the video ports end with an aggregate over all ports, which
\* is cut off.
Trimmed(values, count) ==
    SubSeq(values, 1, IF Len(values) < count THEN Len(values) ELSE count)

Whole ==
    IF control \in Scalars \cup Extracted THEN device.values ELSE Append(device.values, Aggregate)

\* What a single value that is missing is taken for.
Default(c) == IF c = "power" THEN 1 ELSE 0

\* An array can come cut short or with junk in a place.  A single value can be
\* missing, and junk in a flag can mean either; junk in a number fails the
\* poll, which changes nothing.
Broken ==
    IF control \in Scalars
    THEN {<<v>> : v \in {Default(control)} \cup (IF control \in Flags THEN {0, 1} ELSE {})}
    ELSE {SubSeq(Whole, 1, n) : n \in 0..(Len(device.values) - 1)}
         \cup {[Whole EXCEPT ![p] = Junk] : p \in 1..Len(device.values)}

Move == moves < MaxMoves /\ moves' = moves + 1

Taken(reply) ==
    data' = [names |-> device.names,
             values |-> IF control \in Extracted THEN IntList(reply)
                        ELSE Trimmed(IntList(reply), PortCount(control))]

Poll ==
    /\ Taken(Whole)
    /\ current' = TRUE
    /\ UNCHANGED <<control, device, menu, pending, moves>>

PollBroken ==
    /\ Move
    /\ \E reply \in Broken : Taken(reply)
    /\ current' = FALSE
    /\ UNCHANGED <<control, device, menu, pending>>

----------------------------------------------------------------------------
(* Users.                                                                  *)

OpenMenu ==
    /\ Move
    /\ menu' = Options(control, data.names)
    /\ UNCHANGED <<control, device, data, pending, current>>

\* The inputs whose names in the copy are not the matrix's.
Misnamed == {source \in 1..Sources : data.names[source] # device.names[source]}

\* Slip: the value of the option as it was in the menu.
ChooseOffered(port, option) ==
    /\ pending = None
    /\ option \in menu
    /\ menu' = {}
    /\ \E v \in IF control \in Named THEN 1..Sources ELSE ValuesFor(control, data.names, option) :
           pending' = [port |-> port, value |-> v, option |-> option, doubt |-> Misnamed]
    /\ UNCHANGED <<control, device, data, current, moves>>

\* The option is looked up when it arrives, not when it was offered; one that
\* is gone is refused.  Presets are picked by name in the same way.
Choose(port, option) ==
    /\ pending = None
    /\ option \in menu
    /\ menu' = {}
    /\ \/ \E v \in ValuesFor(control, data.names, option) :
              pending' = [port |-> port, value |-> v, option |-> option, doubt |-> Misnamed]
       \/ ValuesFor(control, data.names, option) = {} /\ pending' = pending
    /\ UNCHANGED <<control, device, data, current, moves>>

Reflected(values, port, v) ==
    IF port <= Len(values) THEN [values EXCEPT ![port] = v] ELSE values

\* The matrix does as told, and the coordinator shows it at once.
Done ==
    /\ pending # None
    /\ device' = [device EXCEPT !.values[pending.port] = pending.value]
    /\ data' = [data EXCEPT !.values = Reflected(@, pending.port, pending.value)]
    /\ pending' = None
    /\ UNCHANGED <<control, menu, current, moves>>

\* The matrix refuses, or is not heard after doing as told.
Failed ==
    /\ pending # None
    /\ Move
    /\ pending' = None
    /\ \/ device' = device /\ current' = current
       \/ /\ device' = [device EXCEPT !.values[pending.port] = pending.value]
          /\ current' = FALSE
    /\ UNCHANGED <<control, data, menu>>

\* A name changes while a command is on its way.
Doubted(source) ==
    IF pending = None THEN None ELSE [pending EXCEPT !.doubt = @ \cup {source}]

\* A name field: the name is on the matrix and in the copy.
Rename(source, name) ==
    /\ Move
    /\ device' = [device EXCEPT !.names[source] = name]
    /\ data' = [data EXCEPT !.names[source] = name]
    /\ pending' = Doubted(source)
    /\ UNCHANGED <<control, menu, current>>

\* The front panel or the web UI.
Outside ==
    /\ Move
    /\ \/ \E source \in 1..Sources, name \in Names :
              /\ device' = [device EXCEPT !.names[source] = name]
              /\ pending' = Doubted(source)
       \/ \E port \in 1..PortCount(control), v \in Others :
              /\ device' = [device EXCEPT !.values[port] = v]
              /\ pending' = pending
    /\ current' = FALSE
    /\ UNCHANGED <<control, data, menu>>

----------------------------------------------------------------------------
Init ==
    /\ control \in Controls
    /\ \E names \in [1..Sources -> Names] : \E v \in Firsts \cap DOMAIN Labels(control, names) :
           device = [names |-> names, values |-> [p \in 1..PortCount(control) |-> v]]
    /\ data = device
    /\ menu = {}
    /\ pending = None
    /\ current = TRUE
    /\ moves = 0

Next ==
    \/ Poll \/ PollBroken \/ OpenMenu \/ Done \/ Failed \/ Outside
    \/ \E port \in 1..PortCount(control), option \in menu : Choose(port, option)
    \/ \E source \in 1..Sources, name \in Names : Rename(source, name)

Spec == Init /\ [][Next]_vars

----------------------------------------------------------------------------
(* Properties.                                                             *)

TypeOK ==
    /\ control \in Controls
    /\ device \in [names : [1..Sources -> Names], values : [1..PortCount(control) -> Int]]
    /\ data \in [names : [1..Sources -> Names], values : Seq(Int)]
    /\ Len(data.values) <= PortCount(control)
    /\ pending # None =>
           /\ DOMAIN pending = {"port", "value", "option", "doubt"}
           /\ pending.port \in 1..PortCount(control)
           /\ pending.value \in Int
           /\ pending.doubt \subseteq 1..Sources
    /\ current \in BOOLEAN
    /\ moves \in Nat

\* With a copy that is up to date every port shows what the matrix does with
\* it, optimistic values included.
ShownIsTheDevices ==
    current =>
        \A port \in 1..PortCount(control) :
            Shown(port) = Label(control, device.names, device.values[port])

\* However long a menu stayed open and whatever is renamed, polled or set
\* meanwhile, the command on its way is for an input that has the option's
\* name on the matrix, up to its delivery, unless that very input was renamed
\* behind the copy's back before the choice, or by anybody after it.
ChosenBearsItsName ==
    pending # None =>
        \/ control \in Named /\ pending.value \in pending.doubt
        \/ Label(control, device.names, pending.value) = pending.option

\* However broken an array is, a port shows nothing, or a value of its own or
\* a later port's, or the aggregate that moved up: nothing is made up, and no
\* value of an earlier port moves down.  Single values are another matter: a
\* missing one shows as its default.
ArraysOnlyMoveUp ==
    [][\A reply \in Broken : control \notin Scalars /\ Taken(reply) =>
           \A port \in 1..PortCount(control) :
               Shown(port)' \in {None} \cup
                   {Label(control, device.names, Whole[p]) : p \in port..Len(Whole)}]_data
=============================================================================
