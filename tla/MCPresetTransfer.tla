-------------------------- MODULE MCPresetTransfer --------------------------
(* Values for the constants of PresetTransfer on a small matrix.           *)
EXTENDS PresetTransfer

CONSTANTS n0, n1, p0, p1, t1

One == {1}
Two == {1, 2}
VideoInput == <<"video", "input">>
NoSettings == [s \in {} |-> "output"]

Rq(kind, port, value) == [kind |-> kind, port |-> port, value |-> value]

TransferRequests ==
    {Rq("route", 1, 2), Rq("save", 1, None)}

SaveRequest == {Rq("save", 1, None)}

Nobody == {}

\* Slot k holds input k; the matrix shows input 1, under its factory names.
Slot(k) == [o \in Outputs |-> k]

Factory == [power |-> TRUE, routes |-> Slot(1), names |-> [k \in Slots |-> n0],
            edids |-> [i \in Inputs |-> p0], settings |-> [s \in Settings |-> FALSE]]

\* One slot was renamed, and one input's EDID changed.
SlotNames == [k \in Slots |-> IF k = 1 THEN n1 ELSE n0]

Backup == [presets |-> [k \in Slots |-> [name |-> SlotNames[k], routes |-> Slot(k)]],
           edids |-> [i \in Inputs |-> IF i = 1 THEN p1 ELSE p0], active |-> None]

Named == [Factory EXCEPT !.names = SlotNames, !.edids = Backup.edids]

\* Before a flash, with one slot another's and the other empty, and after one.
TransferInstallations ==
    {[device |-> Named, slots |-> [k \in Slots |-> IF k = 1 THEN Slot(2) ELSE None],
      stored |-> Backup],
     [device |-> Factory, slots |-> [k \in Slots |-> None], stored |-> Backup]}

\* The backup is right and the matrix shows a routing of no slot.
InStepInstallation ==
    {[device |-> [Named EXCEPT !.routes = Slot(2)], slots |-> [k \in Slots |-> Slot(1)],
      stored |-> [Backup EXCEPT !.presets =
                      [k \in Slots |-> [name |-> SlotNames[k], routes |-> Slot(1)]]]]}
=============================================================================
