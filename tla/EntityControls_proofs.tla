----------------------- MODULE EntityControls_proofs -----------------------
(***************************************************************************)
(* Proofs about the controls, for any number of ports and inputs, any      *)
(* names and any values: what a user chose is what the matrix is told,     *)
(* what a port shows is the matrix's, and a broken array moves values up   *)
(* and never down.                                                         *)
(***************************************************************************)
EXTENDS EntityControls, FiniteSetTheorems, FunctionTheorems, TLAPS

\* The value of an option is one the option labels: for a flag, because its
\* labels are those of 0 and 1.
LEMMA ValuesBearTheOption ==
    ASSUME NEW c, NEW names, NEW option, NEW v \in ValuesFor(c, names, option)
    PROVE  Label(c, names, v) = option
<1>1. v \in DOMAIN Labels(c, names) /\ Labels(c, names)[v] = option
  BY DEF ValuesFor
<1>2. CASE c \in Flags
  <2>1. Labels(c, names) = [u \in {0, 1} |-> IF u = 0 THEN "off" ELSE "on"]
    BY <1>2 DEF Flags, Labels, Named, Table
  <2>2. v \in {0, 1}
    BY <1>1, <2>1
  <2>3. (IF c \in Flags /\ v # 0 THEN 1 ELSE v) = v
    BY <2>2
  <2> QED
    BY <1>1, <2>3 DEF Label
<1>3. CASE c \notin Flags
  BY <1>1, <1>3 DEF Label
<1> QED
  BY <1>2, <1>3

----------------------------------------------------------------------------
(* What becomes of an array.                                               *)

\* Every place is taken, by an item that was not before it.
LEMMA PlacesAreTaken ==
    ASSUME NEW length \in Nat, NEW kept \in SUBSET (1..length)
    PROVE  /\ Cardinality(kept) \in 0..length
           /\ \A n \in 1..Cardinality(kept) : \E p \in kept : Place(kept, p) = n /\ n <= p
<1> DEFINE count == Cardinality(kept)
           places == [p \in kept |-> Place(kept, p)]
<1>1. IsFiniteSet(1..length) /\ Cardinality(1..length) = length
  BY FS_Interval
<1>2. IsFiniteSet(kept) /\ count \in Nat /\ count <= length
  BY <1>1, FS_Subset, FS_CardinalityType
<1> kept \subseteq Nat /\ 0 \notin kept
  OBVIOUS
<1>3. ASSUME NEW p \in kept
      PROVE  Place(kept, p) \in 1..count /\ Place(kept, p) <= p
  <2> DEFINE before == {q \in kept : q <= p}
  <2>1. IsFiniteSet(before) /\ Cardinality(before) <= count
    BY <1>2, FS_Subset
  <2>2. Cardinality(before) \in Nat /\ (Cardinality(before) = 0 => before = {})
    BY <2>1, FS_CardinalityType, FS_EmptySet
  <2>3. before # {}
    BY <1>3
  <2>4. Cardinality(before) <= p
    <3>1. p \in Nat /\ IsFiniteSet(1..p) /\ Cardinality(1..p) = p
      BY FS_Interval
    <3>2. ASSUME NEW q \in before PROVE q \in 1..p
      <4>1. q \in 1..length /\ q <= p
        BY <3>2
      <4> QED
        BY <3>1, <4>1
    <3> QED
      BY <3>1, <3>2, FS_Subset
  <2> QED
    BY <1>2, <2>1, <2>2, <2>3, <2>4 DEF Place
<1>4. ASSUME NEW p \in kept, NEW q \in kept, p < q
      PROVE  Place(kept, p) < Place(kept, q)
  <2> DEFINE low == {x \in kept : x <= p}
             high == {x \in kept : x <= q}
  <2>1. low \subseteq high /\ q \in high /\ q \notin low
      <3>1. p \in Nat /\ q \in Nat /\ \A x \in kept : x \in Nat
      BY <1>4
    <3>2. ASSUME NEW x \in low PROVE x \in high
      BY <1>4, <3>1, <3>2
    <3>3. ~(q <= p)
      BY <1>4, <3>1
    <3>4. q \in high /\ q \notin low
      BY <3>1, <3>3
    <3> QED
      BY <3>2, <3>4
  <2>2. IsFiniteSet(high) /\ low \in SUBSET high
    BY <1>2, <2>1, FS_Subset
  <2>3. Cardinality(low) <= Cardinality(high) /\ Cardinality(low) # Cardinality(high)
    BY <2>1, <2>2, FS_Subset
  <2>4. Cardinality(low) \in Nat /\ Cardinality(high) \in Nat
    BY <1>3 DEF Place
  <2> QED
    BY <2>3, <2>4 DEF Place
<1>5. places \in Injection(kept, 1..count)
  <2>1. places \in [kept -> 1..count]
    BY <1>3
  <2>2. ASSUME NEW p \in kept, NEW q \in kept, places[p] = places[q] PROVE p = q
    <3>1. p \in Int /\ q \in Int /\ Place(kept, p) = Place(kept, q) /\ Place(kept, p) \in Int
      BY <1>3, <2>2
    <3> QED
      BY <1>4, <3>1
  <2> QED
    BY <2>1, <2>2 DEF Injection, IsInjective
<1>6. places \in Surjection(kept, 1..count)
  <2>1. IsFiniteSet(1..count) /\ Cardinality(1..count) = count
    BY <1>2, FS_Interval
  <2> QED
    BY <1>5, <2>1, FS_Injection
<1>7. ASSUME NEW n \in 1..count PROVE \E p \in kept : Place(kept, p) = n /\ n <= p
  <2>1. PICK p \in kept : places[p] = n
    BY <1>6, <1>7 DEF Surjection
  <2> QED
    BY <1>3, <2>1
<1> QED
  BY <1>2, <1>7

\* What is left of a reply: numbers of its own, none of them from further
\* left, and everything if it has no junk.
LEMMA WhatIsKept ==
    ASSUME NEW reply \in Seq(Int \cup {Junk})
    PROVE  /\ IntList(reply) \in Seq(Int) /\ Len(IntList(reply)) <= Len(reply)
           /\ \A n \in 1..Len(IntList(reply)) :
                 \E p \in n..Len(reply) : reply[p] # Junk /\ IntList(reply)[n] = reply[p]
           /\ reply \in Seq(Int) => IntList(reply) = reply
<1> DEFINE kept == {p \in DOMAIN reply : reply[p] # Junk}
           from(n) == CHOOSE p \in kept : Place(kept, p) = n
           count == Cardinality(kept)
<1>1. Len(reply) \in Nat /\ DOMAIN reply = 1..Len(reply) /\ kept \in SUBSET (1..Len(reply))
  OBVIOUS
<1>2. count \in 0..Len(reply)
  BY <1>1, PlacesAreTaken
<1>3. ASSUME NEW n \in 1..count
      PROVE  /\ from(n) \in n..Len(reply) /\ reply[from(n)] # Junk /\ reply[from(n)] \in Int
  <2>1. \E p \in kept : Place(kept, p) = n
    BY <1>1, PlacesAreTaken
  <2>2. from(n) \in kept /\ Place(kept, from(n)) = n
    BY <2>1
  <2>3. from(n) >= n
    <3> DEFINE before == {q \in kept : q <= from(n)}
    <3>1. from(n) \in Nat /\ IsFiniteSet(1..from(n)) /\ Cardinality(1..from(n)) = from(n)
      BY <1>1, <2>2, FS_Interval
    <3>2. before \in SUBSET (1..from(n))
      BY <1>1, <3>1
    <3>3. Cardinality(before) <= from(n)
      BY <3>1, <3>2, FS_Subset
    <3> QED
      BY <2>2, <3>1, <3>3 DEF Place
  <2>4. from(n) \in 1..Len(reply) /\ reply[from(n)] \in Int \cup {Junk}
    BY <1>1, <2>2
  <2> QED
    BY <2>2, <2>3, <2>4
<1>4. IntList(reply) = [n \in 1..count |-> reply[from(n)]]
  BY DEF IntList
<1> HIDE DEF from, count, kept
<1>5. IntList(reply) \in Seq(Int) /\ Len(IntList(reply)) = count
  <2>1. IntList(reply) \in [1..count -> Int]
    BY <1>3, <1>4
  <2> QED
    BY <1>2, <2>1
<1>6. ASSUME reply \in Seq(Int) PROVE IntList(reply) = reply
  <2>1. kept = 1..Len(reply)
    BY <1>1, <1>6, MarkersAssumption DEF MarkersAssumption, kept
  <2>2. count = Len(reply)
    BY <1>1, <2>1, FS_Interval DEF count
  <2>3. ASSUME NEW n \in 1..count PROVE from(n) = n
    <3>1. \A p \in kept : {q \in kept : q <= p} = 1..p
      BY <1>1, <2>1
    <3>2. \A p \in kept : Place(kept, p) = p
      <4> SUFFICES ASSUME NEW p \in kept PROVE Place(kept, p) = p
        OBVIOUS
      <4>1. p \in Nat /\ Cardinality(1..p) = p
        BY <1>1, <2>1, FS_Interval
      <4> QED
        BY <3>1, <4>1 DEF Place
    <3>3. n \in kept
      BY <2>1, <2>2
    <3> QED
      BY <3>2, <3>3 DEF from
  <2>4. IntList(reply) = [n \in 1..Len(reply) |-> reply[n]]
    BY <1>4, <2>2, <2>3
  <2> QED
    BY <1>1, <1>6, <2>4
<1> QED
  BY <1>2, <1>3, <1>4, <1>5, <1>6

----------------------------------------------------------------------------
(* Types.                                                                  *)

\* There is a port of every control.
LEMMA PortsAreCounted ==
    \A c : PortCount(c) \in Nat \ {0}
BY SizesAssumption DEF SizesAssumption, PortCount

\* Values are numbers, whichever table or names they index.
LEMMA ValuesAreNumbers ==
    ASSUME NEW names \in [1..Sources -> Names], NEW c \in Controls
    PROVE  DOMAIN Labels(c, names) \subseteq Int
<1>1. CASE c \in Named
  <2>1. DOMAIN Labels(c, names) = 1..Sources
    BY <1>1 DEF Labels
  <2> QED
    BY <2>1, SizesAssumption DEF SizesAssumption
<1>2. CASE c \notin Named
  <2>1. DOMAIN HDCP_MODES = 1..5
    BY DEF HDCP_MODES
  <2>2. DOMAIN BAUD_RATES = 1..6
    BY DEF BAUD_RATES
  <2>3. DOMAIN SCALER_MODES = 0..4 /\ DOMAIN EXT_AUDIO_MODES = 0..2 /\ DOMAIN LCD_ON_TIMES = 0..6
    BY DEF SCALER_MODES, EXT_AUDIO_MODES, LCD_ON_TIMES
  <2>4. DOMAIN EDID_PROFILES = 1..47
    BY DEF EDID_PROFILES
  <2> DEFINE OnOff == [v \in {0, 1} |-> IF v = 0 THEN "off" ELSE "on"]
  <2>5. DOMAIN OnOff = {0, 1}
    OBVIOUS
  <2> HIDE DEF OnOff
  <2>6. \/ Table(c) = HDCP_MODES \/ Table(c) = SCALER_MODES \/ Table(c) = EDID_PROFILES
        \/ Table(c) = EXT_AUDIO_MODES \/ Table(c) = BAUD_RATES \/ Table(c) = LCD_ON_TIMES
        \/ Table(c) = OnOff
    BY DEF Table, OnOff
  <2>7. \/ DOMAIN Table(c) = 1..5 \/ DOMAIN Table(c) = 0..4 \/ DOMAIN Table(c) = 1..47
        \/ DOMAIN Table(c) = 0..2 \/ DOMAIN Table(c) = 1..6 \/ DOMAIN Table(c) = 0..6
        \/ DOMAIN Table(c) = {0, 1}
    BY <2>1, <2>2, <2>3, <2>4, <2>5, <2>6
  <2> QED
    BY <1>2, <2>7 DEF Labels
<1> QED
  BY <1>1, <1>2

\* A whole reply has an item for every port, the port's own; those of a broken
\* array are its own or junk.
LEMMA RepliesAreTheDevices ==
    ASSUME TypeOK
    PROVE  /\ Whole \in Seq(Int)
           /\ PortCount(control) <= Len(Whole)
           /\ \A p \in 1..PortCount(control) : Whole[p] = device.values[p]
           /\ control \in Extracted => Len(Whole) = PortCount(control)
           /\ \A reply \in Broken :
                 /\ reply \in Seq(Int \cup {Junk})
                 /\ Len(reply) <= Len(Whole)
                 /\ control \notin Scalars => \A p \in 1..Len(reply) : reply[p] \in {Whole[p], Junk}
<1>1. device.values \in Seq(Int) /\ Len(device.values) = PortCount(control)
  <2>1. device.values \in [1..PortCount(control) -> Int]
    BY DEF TypeOK
  <2> QED
    BY <2>1, PortsAreCounted
<1>2. Aggregate \in Int
  BY MarkersAssumption DEF MarkersAssumption
<1>3. /\ Whole \in Seq(Int)
      /\ Len(Whole) \in {PortCount(control), PortCount(control) + 1}
      /\ \A p \in 1..PortCount(control) : Whole[p] = device.values[p]
      /\ control \in Extracted => Len(Whole) = PortCount(control)
  <2>1. CASE control \in Scalars \cup Extracted
    BY <1>1, <2>1 DEF Whole
  <2>2. CASE control \notin Scalars \cup Extracted
    <3>1. Whole = Append(device.values, Aggregate)
      BY <2>2 DEF Whole
    <3> QED
      BY <1>1, <1>2, <2>2, <3>1
  <2> QED
    BY <2>1, <2>2
<1>4. ASSUME control \notin Scalars, NEW reply \in Broken
      PROVE  /\ reply \in Seq(Int \cup {Junk})
             /\ Len(reply) <= Len(Whole)
             /\ \A p \in 1..Len(reply) : reply[p] \in {Whole[p], Junk}
  <2>1. \/ \E n \in 0..(Len(device.values) - 1) : reply = SubSeq(Whole, 1, n)
        \/ \E p \in 1..Len(device.values) : reply = [Whole EXCEPT ![p] = Junk]
    BY <1>4 DEF Broken
  <2>2. ASSUME NEW n \in 0..(Len(device.values) - 1), reply = SubSeq(Whole, 1, n)
        PROVE  /\ reply \in Seq(Int \cup {Junk})
               /\ Len(reply) <= Len(Whole)
               /\ \A p \in 1..Len(reply) : reply[p] \in {Whole[p], Junk}
    <3>1. n \in Nat /\ n <= Len(Whole)
      BY <1>1, <1>3, PortsAreCounted
    <3>2. reply \in Seq(Int) /\ Len(reply) = n /\ \A p \in 1..n : reply[p] = Whole[p]
      BY <1>3, <2>2, <3>1
    <3> QED
      BY <3>1, <3>2
  <2>3. ASSUME NEW q \in 1..Len(device.values), reply = [Whole EXCEPT ![q] = Junk]
        PROVE  /\ reply \in Seq(Int \cup {Junk})
               /\ Len(reply) <= Len(Whole)
               /\ \A p \in 1..Len(reply) : reply[p] \in {Whole[p], Junk}
    <3>1. Whole \in [1..Len(Whole) -> Int] /\ Len(Whole) \in Nat
      BY <1>3
    <3>2. reply \in [1..Len(Whole) -> Int \cup {Junk}]
      BY <2>3, <3>1
    <3>3. \A p \in 1..Len(Whole) : reply[p] \in {Whole[p], Junk}
      BY <2>3, <3>1
    <3>4. reply \in Seq(Int \cup {Junk}) /\ Len(reply) = Len(Whole)
      BY <3>1, <3>2
    <3> QED
      BY <3>1, <3>3, <3>4
  <2> QED
    BY <2>1, <2>2, <2>3
<1>5. ASSUME control \in Scalars, NEW reply \in Broken
      PROVE  reply \in Seq(Int \cup {Junk}) /\ Len(reply) <= Len(Whole)
  <2>1. PICK v \in Int : reply = <<v>>
    BY <1>5 DEF Broken, Default
  <2> QED
    BY <1>3, <2>1, PortsAreCounted
<1> QED
  BY <1>3, <1>4, <1>5, PortsAreCounted

\* What a poll takes from a reply: the names, and of its numbers no more than
\* there are ports.
LEMMA WhatIsTaken ==
    ASSUME TypeOK, NEW reply \in Seq(Int \cup {Junk}), Len(reply) <= Len(Whole), Taken(reply)
    PROVE  /\ data' \in [names : [1..Sources -> Names], values : Seq(Int)]
           /\ Len(data'.values) <= PortCount(control)
           /\ data'.names = device.names
           /\ \A n \in 1..Len(data'.values) :
                 n <= Len(IntList(reply)) /\ data'.values[n] = IntList(reply)[n]
           /\ Len(data'.values) = Len(IntList(reply)) \/ Len(data'.values) = PortCount(control)
<1> DEFINE list == IntList(reply)
           count == PortCount(control)
<1>1. list \in Seq(Int) /\ Len(list) <= Len(reply) /\ count \in Nat /\ Len(reply) \in Nat
  BY WhatIsKept, PortsAreCounted
<1>2. control \in Extracted => Len(list) <= count
  BY <1>1, RepliesAreTheDevices
<1>3. data' = [names |-> device.names,
               values |-> IF control \in Extracted THEN list ELSE Trimmed(list, count)]
  BY DEF Taken
<1>4. device.names \in [1..Sources -> Names]
  BY DEF TypeOK
<1> HIDE DEF list, count
<1>5. /\ Trimmed(list, count) \in Seq(Int)
      /\ Len(Trimmed(list, count)) = IF Len(list) < count THEN Len(list) ELSE count
      /\ \A n \in 1..Len(Trimmed(list, count)) : Trimmed(list, count)[n] = list[n]
  BY <1>1 DEF Trimmed
<1>6. CASE control \in Extracted
  <2>1. data'.values = list /\ data' = [names |-> device.names, values |-> list]
    BY <1>3, <1>6
  <2> QED
    BY <1>1, <1>2, <1>4, <1>6, <2>1 DEF list, count
<1>7. CASE control \notin Extracted
  <2> DEFINE trimmed == Trimmed(list, count)
  <2>1. data' = [names |-> device.names, values |-> trimmed]
    BY <1>3, <1>7
  <2> HIDE DEF trimmed
  <2>2. trimmed \in Seq(Int) /\ Len(trimmed) <= count
    BY <1>1, <1>5 DEF trimmed
  <2>3. \A n \in 1..Len(trimmed) : n <= Len(list) /\ trimmed[n] = list[n]
    BY <1>1, <1>5 DEF trimmed
  <2>4. Len(trimmed) = Len(list) \/ Len(trimmed) = count
    BY <1>5 DEF trimmed
  <2> QED
    BY <1>4, <2>1, <2>2, <2>3, <2>4 DEF list, count
<1> QED
  BY <1>6, <1>7

LEMMA NextType ==
    ASSUME TypeOK, [Next]_vars
    PROVE  TypeOK'
<1> DEFINE Sized == data' \in [names : [1..Sources -> Names], values : Seq(Int)]
                    /\ Len(data'.values) <= PortCount(control)
           Built == device' \in [names : [1..Sources -> Names],
                                 values : [1..PortCount(control) -> Int]]
           Told == pending' # None =>
                       /\ DOMAIN pending' = {"port", "value", "option", "doubt"}
                       /\ pending'.port \in 1..PortCount(control)
                       /\ pending'.value \in Int
                       /\ pending'.doubt \subseteq 1..Sources
<1>1. control' = control /\ current' \in BOOLEAN
  BY DEF TypeOK, Next, vars, Poll, PollBroken, OpenMenu, Choose, Done, Failed, Rename, Outside
<1>2. moves' \in Nat
  BY DEF TypeOK, Next, vars, Poll, PollBroken, OpenMenu, Choose, Done, Failed, Rename, Outside,
         Move
<1>3. device' = device => Built
  BY DEF TypeOK
<1>4. data' = data => Sized
  BY DEF TypeOK
<1>5. pending' \in {pending, None} => Told
  BY DEF TypeOK
<1>6. pending # None => pending.value \in Int /\ pending.port \in 1..PortCount(control)
  BY DEF TypeOK
<1>7. ASSUME NEW port \in 1..PortCount(control), NEW v \in Int,
             device' = [device EXCEPT !.values[port] = v]
      PROVE  Built
  BY <1>7 DEF TypeOK
<1>8. ASSUME NEW source \in 1..Sources, NEW name \in Names,
             device' = [device EXCEPT !.names[source] = name]
      PROVE  Built
  BY <1>8 DEF TypeOK
<1>9. ASSUME NEW source \in 1..Sources, pending' = Doubted(source)
      PROVE  Told
  BY <1>9 DEF Doubted, TypeOK
<1>10. SUFFICES Built /\ Sized /\ Told
  BY <1>1, <1>2 DEF TypeOK
<1> HIDE DEF Sized, Built, Told
<1>11. CASE Poll
  <2>1. Whole \in Seq(Int \cup {Junk}) /\ Len(Whole) <= Len(Whole) /\ Taken(Whole)
    BY <1>11, RepliesAreTheDevices DEF Poll
  <2>2. Sized
    BY <2>1, WhatIsTaken DEF Sized
  <2> QED
    BY <1>3, <1>5, <1>11, <2>2 DEF Poll
<1>12. CASE PollBroken
  <2>1. PICK reply \in Broken : Taken(reply)
    BY <1>12 DEF PollBroken
  <2>2. Sized
    BY <2>1, RepliesAreTheDevices, WhatIsTaken DEF Sized
  <2> QED
    BY <1>3, <1>5, <1>12, <2>2 DEF PollBroken
<1>13. CASE OpenMenu
  BY <1>3, <1>4, <1>5, <1>13 DEF OpenMenu
<1>14. ASSUME NEW port \in 1..PortCount(control), NEW option \in menu, Choose(port, option)
       PROVE  Built /\ Sized /\ Told
  <2>1. ASSUME NEW v \in ValuesFor(control, data.names, option) PROVE v \in Int
    <3>1. v \in DOMAIN Labels(control, data.names)
      BY DEF ValuesFor
    <3>2. control \in Controls /\ data.names \in [1..Sources -> Names]
      BY DEF TypeOK
    <3> QED
      BY <3>1, <3>2, ValuesAreNumbers
  <2>2. Told
    BY <1>5, <1>14, <2>1 DEF Choose, Misnamed, Told
  <2> QED
    BY <1>3, <1>4, <1>14, <2>2 DEF Choose
<1>15. CASE Done
  <2>1. pending.value \in Int /\ pending.port \in 1..PortCount(control)
    BY <1>6, <1>15 DEF Done
  <2>2. Built
    BY <1>7, <1>15, <2>1 DEF Done
  <2>3. Reflected(data.values, pending.port, pending.value) \in Seq(Int)
        /\ Len(Reflected(data.values, pending.port, pending.value)) = Len(data.values)
    BY <2>1 DEF Reflected, TypeOK
  <2>4. Sized
    BY <1>15, <2>3 DEF Done, TypeOK, Sized
  <2> QED
    BY <1>5, <1>15, <2>2, <2>4 DEF Done
<1>16. CASE Failed
  <2>1. pending.value \in Int /\ pending.port \in 1..PortCount(control)
    BY <1>6, <1>16 DEF Failed
  <2>2. Built
    BY <1>3, <1>7, <1>16, <2>1 DEF Failed
  <2> QED
    BY <1>4, <1>5, <1>16, <2>2 DEF Failed
<1>17. CASE Outside
  <2>1. Others \subseteq Int
    BY SizesAssumption DEF SizesAssumption
  <2>2. Built
    BY <1>7, <1>8, <1>17, <2>1 DEF Outside
  <2>3. Told
    BY <1>5, <1>9, <1>17 DEF Outside
  <2> QED
    BY <1>4, <1>17, <2>2, <2>3 DEF Outside
<1>18. ASSUME NEW source \in 1..Sources, NEW name \in Names, Rename(source, name)
       PROVE  Built /\ Sized /\ Told
  <2>1. Built
    BY <1>8, <1>18 DEF Rename
  <2>2. Sized
    BY <1>18 DEF Rename, TypeOK, Sized
  <2> QED
    BY <1>9, <1>18, <2>1, <2>2 DEF Rename
<1>19. CASE UNCHANGED vars
  BY <1>3, <1>4, <1>5, <1>19 DEF vars
<1> QED
  BY <1>11, <1>12, <1>13, <1>14, <1>15, <1>16, <1>17, <1>18, <1>19 DEF Next

LEMMA InitType == Init => TypeOK
<1> SUFFICES ASSUME Init PROVE TypeOK
  OBVIOUS
<1>1. PICK names \in [1..Sources -> Names] : \E v \in Firsts \cap DOMAIN Labels(control, names) :
        device = [names |-> names, values |-> [p \in 1..PortCount(control) |-> v]]
  BY DEF Init
<1> PICK v \in Firsts :
        device = [names |-> names, values |-> [p \in 1..PortCount(control) |-> v]]
  BY <1>1
<1>2. v \in Int
  BY SizesAssumption DEF SizesAssumption
<1> DEFINE values == [p \in 1..PortCount(control) |-> v]
<1>3. values \in [1..PortCount(control) -> Int]
  BY <1>2
<1>4. values \in Seq(Int) /\ Len(values) = PortCount(control)
  BY <1>3, PortsAreCounted
<1>5. device = [names |-> names, values |-> values]
  OBVIOUS
<1> HIDE DEF values
<1>6. Len(values) <= PortCount(control)
  BY <1>4, PortsAreCounted
<1> QED
  BY <1>3, <1>4, <1>5, <1>6 DEF Init, TypeOK

(***************************************************************************)
(* Whatever the replies, the front panel and the users do, the copy has    *)
(* numbers only and no more of them than there are ports, and a command    *)
(* under way is for a port there is.                                       *)
(***************************************************************************)
THEOREM ControlsTyping == Spec => []TypeOK
BY InitType, NextType, PTL DEF Spec

----------------------------------------------------------------------------
(* What a chosen option reaches.                                           *)

\* A label is the name of the input, or no concern of the names.
LEMMA LabelsFollowNames ==
    ASSUME NEW c, NEW names \in [1..Sources -> Names], NEW others \in [1..Sources -> Names], NEW v,
           c \in Named => v \in 1..Sources /\ names[v] = others[v]
    PROVE  Label(c, names, v) = Label(c, others, v)
<1>1. CASE c \in Named
  <2>1. c \notin Flags
    BY <1>1 DEF Named, Flags
  <2> QED
    BY <1>1, <2>1 DEF Label, Labels
<1>2. CASE c \notin Named
  BY <1>2 DEF Label, Labels
<1> QED
  BY <1>1, <1>2

\* Of inputs, an option means one there is.
LEMMA NamedValuesAreInputs ==
    ASSUME NEW c \in Named, NEW names \in [1..Sources -> Names], NEW option,
           NEW v \in ValuesFor(c, names, option)
    PROVE  v \in 1..Sources
BY DEF ValuesFor, Labels

\* Unless its input is in doubt, the command on its way bears its option, and
\* of inputs it is for one there is.
Aimed ==
    pending # None =>
        /\ control \in Named => pending.value \in 1..Sources
        /\ \/ control \in Named /\ pending.value \in pending.doubt
           \/ Label(control, device.names, pending.value) = pending.option

LEMMA AimKept ==
    ASSUME TypeOK, Aimed, [Next]_vars
    PROVE  Aimed'
<1>1. control' = control
  BY DEF Next, vars, Poll, PollBroken, OpenMenu, Choose, Done, Failed, Rename, Outside
<1>2. CASE pending' = None
  BY <1>2 DEF Aimed
<1>3. CASE pending' = pending /\ device'.names = device.names
  BY <1>1, <1>3 DEF Aimed
<1>4. ASSUME NEW source \in 1..Sources, NEW name \in Names,
             device' = [device EXCEPT !.names[source] = name], pending' = Doubted(source),
             pending' # None
      PROVE  Aimed'
  <2>1. pending # None /\ pending' = [pending EXCEPT !.doubt = @ \cup {source}]
    BY <1>4 DEF Doubted
  <2>2. /\ pending'.value = pending.value /\ pending'.option = pending.option
        /\ pending'.doubt = pending.doubt \cup {source}
    BY <2>1 DEF TypeOK
  <2>3. device.names \in [1..Sources -> Names] /\ device'.names \in [1..Sources -> Names]
        /\ \A other \in 1..Sources \ {source} : device'.names[other] = device.names[other]
    BY <1>4 DEF TypeOK
  <2>4. control \in Named => pending.value \in 1..Sources
    BY <2>1 DEF Aimed
  <2>5. CASE control \in Named /\ pending'.value \in pending'.doubt
    BY <1>1, <2>2, <2>4, <2>5 DEF Aimed
  <2>6. CASE ~(control \in Named /\ pending'.value \in pending'.doubt)
    <3>1. Label(control, device.names, pending.value) = pending.option
      BY <2>1, <2>2, <2>6 DEF Aimed
    <3>2. control \in Named => pending.value \in 1..Sources \ {source}
      BY <2>2, <2>4, <2>6
    <3>3. Label(control, device'.names, pending.value) = Label(control, device.names, pending.value)
      BY <2>3, <3>2, LabelsFollowNames
    <3> QED
      BY <1>1, <2>2, <2>4, <3>1, <3>3 DEF Aimed
  <2> QED
    BY <2>5, <2>6
<1>5. ASSUME NEW port \in 1..PortCount(control), NEW option \in menu,
             NEW v \in ValuesFor(control, data.names, option),
             pending' = [port |-> port, value |-> v, option |-> option, doubt |-> Misnamed],
             device' = device
      PROVE  Aimed'
  <2>1. Label(control, data.names, v) = option
    BY ValuesBearTheOption
  <2>2. device.names \in [1..Sources -> Names] /\ data.names \in [1..Sources -> Names]
    BY DEF TypeOK
  <2>3. control \in Named => v \in 1..Sources
    BY <2>2, NamedValuesAreInputs
  <2>4. CASE control \in Named /\ v \in Misnamed
    BY <1>1, <1>5, <2>3, <2>4 DEF Aimed
  <2>5. CASE ~(control \in Named /\ v \in Misnamed)
    <3>1. control \in Named => v \in 1..Sources /\ device.names[v] = data.names[v]
      BY <2>3, <2>5 DEF Misnamed
    <3>2. Label(control, device.names, v) = Label(control, data.names, v)
      BY <2>2, <3>1, LabelsFollowNames
    <3> QED
      BY <1>1, <1>5, <2>1, <2>3, <3>2 DEF Aimed
  <2> QED
    BY <2>4, <2>5
<1>6. CASE Poll \/ PollBroken \/ OpenMenu \/ Done \/ Failed \/ UNCHANGED vars
  BY <1>2, <1>3, <1>6 DEF Poll, PollBroken, OpenMenu, Done, Failed, vars
<1>7. CASE Outside
  <2>1. CASE device'.names = device.names /\ pending' = pending
    BY <1>3, <2>1
  <2>2. ASSUME NEW port \in 1..PortCount(control), NEW v \in Others,
               device' = [device EXCEPT !.values[port] = v]
        PROVE  device'.names = device.names
    BY <2>2 DEF TypeOK
  <2> QED
    BY <1>2, <1>4, <1>7, <2>1, <2>2 DEF Outside
<1>8. ASSUME NEW source \in 1..Sources, NEW name \in Names, Rename(source, name)
      PROVE  Aimed'
  BY <1>2, <1>4, <1>8 DEF Rename
<1>9. ASSUME NEW port \in 1..PortCount(control), NEW option \in menu, Choose(port, option)
      PROVE  Aimed'
  BY <1>3, <1>5, <1>9 DEF Choose
<1> QED
  BY <1>6, <1>7, <1>8, <1>9 DEF Next

(***************************************************************************)
(* However long its menu stayed open and whatever is polled or renamed     *)
(* meanwhile, an option reaches an input that bears its name when the      *)
(* matrix carries the command out, unless that input was renamed behind    *)
(* the copy's back or after the choice.                                    *)
(***************************************************************************)
THEOREM ChoiceIsNamed == Spec => []ChosenBearsItsName
<1>1. Init => Aimed
  BY DEF Init, Aimed
<1>2. Aimed => ChosenBearsItsName
  BY DEF Aimed, ChosenBearsItsName
<1> QED
  BY <1>1, <1>2, InitType, NextType, AimKept, PTL DEF Spec

----------------------------------------------------------------------------
(* What the ports show.                                                    *)

\* A copy that is up to date is the matrix's own state.
CopyOK == current => data.names = device.names /\ data.values = device.values

LEMMA CopyKept ==
    ASSUME TypeOK, CopyOK, [Next]_vars
    PROVE  CopyOK'
<1>1. CASE Poll
  <2> DEFINE count == PortCount(control)
  <2>1. /\ Whole \in Seq(Int) /\ Whole \in Seq(Int \cup {Junk})
        /\ count \in Nat /\ count <= Len(Whole)
        /\ \A p \in 1..count : Whole[p] = device.values[p]
    BY RepliesAreTheDevices, PortsAreCounted
  <2>2. IntList(Whole) = Whole
    BY <2>1, WhatIsKept
  <2>3. /\ data'.names = device.names
        /\ data'.values \in Seq(Int)
        /\ Len(data'.values) <= count
        /\ \A n \in 1..Len(data'.values) : data'.values[n] = Whole[n]
        /\ Len(data'.values) = Len(Whole) \/ Len(data'.values) = count
    BY <1>1, <2>1, <2>2, WhatIsTaken DEF Poll
  <2>4. Len(data'.values) = count
    BY <2>1, <2>3
  <2>5. device.values \in [1..count -> Int] /\ device' = device
    BY <1>1 DEF Poll, TypeOK
  <2> DEFINE shown == data'.values
             own == device.values
  <2>6. shown \in [1..count -> Int] /\ own \in [1..count -> Int]
    BY <2>3, <2>4, <2>5
  <2>7. \A n \in 1..count : shown[n] = own[n]
    BY <2>1, <2>3, <2>4
  <2> HIDE DEF shown, own, count
  <2>8. shown = own
    <3>1. shown = [n \in 1..count |-> shown[n]] /\ own = [n \in 1..count |-> own[n]]
      BY <2>6
    <3>2. [n \in 1..count |-> shown[n]] = [n \in 1..count |-> own[n]]
      BY <2>7
    <3> QED
      BY <3>1, <3>2
  <2> QED
    BY <2>3, <2>5, <2>8 DEF CopyOK, shown, own
<1>2. CASE PollBroken \/ Outside
  BY <1>2 DEF PollBroken, Outside, CopyOK
<1>3. CASE OpenMenu \/ (\E port \in 1..PortCount(control), option \in menu : Choose(port, option))
           \/ UNCHANGED vars
  BY <1>3 DEF OpenMenu, Choose, vars, CopyOK
<1>4. CASE Done
  <2>1. pending.port \in 1..PortCount(control) /\ current' = current
    BY <1>4 DEF Done, TypeOK
  <2>2. CASE current
    <3>1. data.names = device.names /\ data.values = device.values
      BY <2>2 DEF CopyOK
    <3>2. DOMAIN device.values = 1..PortCount(control) /\ Len(data.values) = PortCount(control)
      BY <3>1, PortsAreCounted DEF TypeOK
    <3>3. Reflected(data.values, pending.port, pending.value)
            = [device.values EXCEPT ![pending.port] = pending.value]
      BY <2>1, <3>1, <3>2 DEF Reflected
    <3> QED
      BY <1>4, <3>1, <3>3 DEF Done, TypeOK, CopyOK
  <2> QED
    BY <2>1, <2>2 DEF CopyOK
<1>5. CASE Failed
  BY <1>5 DEF Failed, CopyOK
<1>6. ASSUME NEW source \in 1..Sources, NEW name \in Names, Rename(source, name)
      PROVE  CopyOK'
  BY <1>6 DEF Rename, TypeOK, CopyOK
<1> QED
  BY <1>1, <1>2, <1>3, <1>4, <1>5, <1>6 DEF Next

(***************************************************************************)
(* Once a whole reply was taken, and until the front panel, a broken reply *)
(* or a lost answer, every port shows what the matrix does with it, values *)
(* set before the next poll included.  The copy is then the matrix's own   *)
(* state, which is what each step keeps.                                   *)
(***************************************************************************)
THEOREM ShownIsTrue == Spec => []ShownIsTheDevices
<1>1. Init => CopyOK
  BY DEF Init, CopyOK
<1>2. TypeOK /\ CopyOK => ShownIsTheDevices
  <2> SUFFICES ASSUME TypeOK, CopyOK, current, NEW port \in 1..PortCount(control)
               PROVE  Shown(port) = Label(control, device.names, device.values[port])
    BY DEF ShownIsTheDevices
  <2>1. data.names = device.names /\ data.values = device.values
    BY DEF CopyOK
  <2>2. device.values \in [1..PortCount(control) -> Int] /\ Len(device.values) = PortCount(control)
    BY PortsAreCounted DEF TypeOK
  <2>3. ~(port > Len(data.values))
    BY <2>1, <2>2, PortsAreCounted
  <2>4. Value(data.values, port) = device.values[port]
    BY <2>1, <2>3 DEF Value
  <2>5. device.values[port] # None
    BY <2>2, MarkersAssumption DEF MarkersAssumption
  <2> QED
    BY <2>1, <2>4, <2>5 DEF Shown
<1> QED
  BY <1>1, <1>2, InitType, NextType, CopyKept, PTL DEF Spec

(***************************************************************************)
(* However broken an array, a port shows nothing, or a value the matrix    *)
(* has for it or for a later port: dropping what is not a number moves     *)
(* what follows up, and never anything down.  Nothing of the kind holds of *)
(* a single value, which its default stands in for.                        *)
(***************************************************************************)
THEOREM BrokenRepliesOnlyMoveUp == Spec => ArraysOnlyMoveUp
<1> DEFINE Honest ==
             \A reply \in Broken : control \notin Scalars /\ Taken(reply) =>
                 \A port \in 1..PortCount(control) :
                     Shown(port)' \in {None} \cup
                         {Label(control, device.names, Whole[p]) : p \in port..Len(Whole)}
<1>1. TypeOK /\ [Next]_vars => [Honest]_data
  <2> SUFFICES ASSUME TypeOK, Next,
                      control \notin Scalars, NEW reply \in Broken, Taken(reply),
                      NEW port \in 1..PortCount(control), Shown(port)' # None
               PROVE  \E p \in port..Len(Whole) :
                         Shown(port)' = Label(control, device.names, Whole[p])
    BY DEF vars
  <2>1. control' = control
    BY DEF Next, Poll, PollBroken, OpenMenu, Choose, Done, Failed, Rename, Outside
  <2>2. /\ reply \in Seq(Int \cup {Junk})
        /\ Len(reply) <= Len(Whole)
        /\ \A p \in 1..Len(reply) : reply[p] \in {Whole[p], Junk}
    BY RepliesAreTheDevices
  <2>3. /\ data'.names = device.names
        /\ data'.values \in Seq(Int)
        /\ \A n \in 1..Len(data'.values) :
              n <= Len(IntList(reply)) /\ data'.values[n] = IntList(reply)[n]
    BY <2>2, WhatIsTaken
  <2>4. Value(data'.values, port) # None
        /\ Shown(port)' = Label(control', data'.names, Value(data'.values, port))
    BY DEF Shown
  <2>5. port \in 1..Len(data'.values) /\ Value(data'.values, port) = data'.values[port]
    BY <2>3, <2>4, PortsAreCounted DEF Value
  <2>6. port \in 1..Len(IntList(reply)) /\ data'.values[port] = IntList(reply)[port]
    BY <2>2, <2>3, <2>5, WhatIsKept
  <2>7. PICK p \in port..Len(reply) : reply[p] # Junk /\ IntList(reply)[port] = reply[p]
    BY <2>2, <2>6, WhatIsKept
  <2>8. Len(reply) \in Nat /\ Len(Whole) \in Nat
    BY <2>2, RepliesAreTheDevices
  <2>9. p \in port..Len(Whole) /\ p \in 1..Len(reply)
    BY <2>2, <2>5, <2>7, <2>8
  <2>10. reply[p] = Whole[p]
    BY <2>2, <2>7, <2>9
  <2> QED
    BY <2>1, <2>3, <2>4, <2>5, <2>6, <2>7, <2>9, <2>10
<1> QED
  BY <1>1, InitType, NextType, PTL DEF Spec, ArraysOnlyMoveUp
=============================================================================
