-------------------------- MODULE MCBeamAndSettings --------------------------
(***************************************************************************)
(* Three components with nothing in common but the GUI that serves them,   *)
(* checked in one run: a behaviour is one of BeamFeed, Alerts or Settings, *)
(* its `part`, and the variables of the other two stand still.             *)
(***************************************************************************)
EXTENDS BeamFeed, Alerts, Settings

VARIABLE part

SERVICESValue == <<"vmm_capture_guard", "vmm_processor">>

PartsInit ==
    /\ part \in {"feed", "alerts", "settings"}
    /\ FeedInit /\ AlertsInit /\ SettingsInit
    /\ part # "feed" => feed = "beam" /\ cycle[0] = "stray"
    /\ part # "alerts" => rule = "beam_off"
    /\ part # "settings" => topic = "guardian"

PartsNext ==
    \/ part = "feed" /\ FeedNext /\ UNCHANGED <<part, alerts_vars, settings_vars>>
    \/ part = "alerts" /\ AlertsNext /\ UNCHANGED <<part, feed_vars, settings_vars>>
    \/ part = "settings" /\ SettingsNext /\ UNCHANGED <<part, feed_vars, alerts_vars>>

PartsSpec == PartsInit /\ [][PartsNext]_<<part, feed_vars, alerts_vars, settings_vars>>

===============================================================================
