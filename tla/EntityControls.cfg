SPECIFICATION Spec
CONSTANTS
    Controls = {"route", "hdcp", "scaler", "edid", "ext_audio_mode", "baud_rate", "stream", "power", "ext_audio_route"}
    Ports = 2
    Sources = 2
    Names = {tv, game}
    Firsts = {1}
    Others = {0, 2, 9}
    MaxMoves = 3
    Aggregate = 9
    Junk = Junk
    None = None
INVARIANTS
    TypeOK
    ShownIsTheDevices
    ChosenBearsItsName
PROPERTIES
    ArraysOnlyMoveUp
CHECK_DEADLOCK FALSE
