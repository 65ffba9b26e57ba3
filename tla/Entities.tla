------------------------------ MODULE Entities ------------------------------
(***************************************************************************)
(* Which entities the five platforms create for one matrix, and what the   *)
(* pruning of a set-up leaves of those created before.  An entity is known *)
(* by its platform and its unique id: the MAC address of the matrix the    *)
(* set-up read, a key, and a port (0 for an entity of the whole matrix).   *)
(***************************************************************************)
EXTENDS Naturals, FiniteSets

Platforms == {"binary_sensor", "button", "select", "switch", "text"}

Features == {"video_settings", "edid", "output_switches", "signal_sensors",
             "preset_management", "cec", "ext_audio", "system", "renaming"}

PortKinds == {"input", "output", "preset", "ext_audio"}

Classes(platform, feature, per, keys) ==
    [platform : {platform}, feature : {feature}, per : {per}, key : keys]

\* The classes of entities, each with the feature that switches it on and
\* the kind of port it exists once for.
SelectClasses ==
    Classes("select", "core", "matrix", {"preset"})
    \cup Classes("select", "core", "output", {"route"})
    \cup Classes("select", "video_settings", "output", {"hdcp", "scaler"})
    \cup Classes("select", "edid", "input", {"edid"})
    \cup Classes("select", "ext_audio", "matrix", {"ext_audio_mode"})
    \cup Classes("select", "ext_audio", "ext_audio", {"route"})
    \cup Classes("select", "system", "matrix", {"baud_rate", "lcd_on_time"})

SwitchClasses ==
    Classes("switch", "core", "matrix", {"power"})
    \cup Classes("switch", "system", "matrix", {"panel_lock", "beep"})
    \cup Classes("switch", "output_switches", "output", {"stream", "mute", "arc"})
    \cup Classes("switch", "ext_audio", "ext_audio", {"out"})

ButtonClasses ==
    Classes("button", "system", "matrix", {"reboot", "net_reboot"})
    \cup Classes("button", "preset_management", "matrix",
                 {"backup_presets", "restore_presets"})
    \cup Classes("button", "preset_management", "preset",
                 {"save_preset", "clear_preset"})
    \cup Classes("button", "cec", "output",
                 {"display_on", "display_off", "display_volume_up",
                  "display_volume_down", "display_mute"})

SensorClasses ==
    Classes("binary_sensor", "signal_sensors", "input", {"signal"})
    \cup Classes("binary_sensor", "signal_sensors", "output", {"sink"})
    \cup Classes("binary_sensor", "preset_management", "matrix", {"preset_backup"})

TextClasses ==
    UNION {Classes("text", "renaming", kind, {"name"}) :
               kind \in {"input", "output", "preset"}}

Catalogue ==
    SelectClasses \cup SwitchClasses \cup ButtonClasses \cup SensorClasses \cup TextClasses

\* The ports a class exists for, by the counts the first refresh reported.
PortsOf(class, counts) ==
    IF class.per = "matrix" THEN {0} ELSE 1..counts[class.per]

\* What one platform's set-up creates with these features on.
Wanted(platform, features, mac, counts) ==
    UNION {{[platform |-> platform, mac |-> mac, per |-> c.per, key |-> c.key,
             port |-> p] : p \in PortsOf(c, counts)} :
           c \in {d \in Catalogue :
                      d.platform = platform /\ d.feature \in features \cup {"core"}}}

AllWanted(features, mac, counts) ==
    UNION {Wanted(p, features, mac, counts) : p \in Platforms}

\* Slip: a platform with nothing to create has nothing to prune.
PrunedIfAny(registered, platform, keep) ==
    {x \in registered : keep = {} \/ x.platform # platform \/ x \in keep}

\* What one platform's pruning leaves of an entry's registered entities.
Pruned(registered, platform, keep) ==
    {x \in registered : x.platform = platform => x \in keep}

\* All platforms of one set-up: prune, then add.
Registered(registered, features, mac, counts) ==
    LET keep(p) == Wanted(p, features, mac, counts)
        kept == {x \in registered : \A p \in Platforms : x \in Pruned(registered, p, keep(p))}
    IN  kept \cup AllWanted(features, mac, counts)
=============================================================================
