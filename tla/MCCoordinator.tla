--------------------------- MODULE MCCoordinator ---------------------------
(* Values for the constants of Coordinator on small matrices.              *)
EXTENDS CoordinatorProperties, TLC

CONSTANTS n0, n1, p0, p1, t1, t2, t3

Symmetric == Permutations(Tasks)

\* One input: every routing is the same, only names and EDIDs matter.
One == {1}
Two == {1, 2}
VideoInput == <<"video", "input">>
VideoOutput == <<"video", "output">>
VideoOnly == <<"video">>
NoSettings == [s \in {} |-> "output"]
OneSetting == [s \in {"enabled"} |-> "output"]

Rq(kind, port, value) == [kind |-> kind, port |-> port, value |-> value]

BackupRequests ==
    {Rq("rename", 1, n) : n \in Names}
    \cup {Rq("edid", 1, p1), Rq("save", 1, None), Rq("clear", 1, None)}

BackupOutside == {Rq("rename", 1, n0), Rq("edid", 1, p1)}

Straight == [o \in Outputs |-> 1]
Crossed == [o \in Outputs |-> 2]

On == [power |-> TRUE, routes |-> Straight, names |-> [k \in Slots |-> n0],
       edids |-> [i \in Inputs |-> p0], settings |-> [s \in Settings |-> FALSE]]

Nothing == [presets |-> [k \in Slots |-> None], edids |-> [i \in Inputs |-> None],
            active |-> None]

Saved == [presets |-> [k \in Slots |-> [name |-> n0, routes |-> Straight]],
          edids |-> [i \in Inputs |-> p0], active |-> 1]

BackupInstallations ==
    {[device |-> On, slots |-> [k \in Slots |-> Straight], stored |-> b] :
        b \in {Nothing, Saved}}

RecallRequests == {Rq("recall", k, None) : k \in Slots} \cup {Rq("route", 1, 1)}

RecallInstallations ==
    {[device |-> On,
      slots |-> [k \in Slots |-> IF k = 1 THEN Crossed ELSE Straight],
      stored |-> [presets |-> [k \in Slots |->
                    [name |-> n0, routes |-> IF k = 1 THEN Crossed ELSE Straight]],
                  edids |-> [i \in Inputs |-> None],
                  active |-> None]]}

MixedRequests ==
    {Rq("power", None, FALSE), Rq("setting", "enabled", TRUE), Rq("recall", 1, None),
     Rq("clear", 1, None)}

RouteRequests == {Rq("route", 1, 2)}
=============================================================================
