-------------------------------- MODULE Alerts --------------------------------
(***************************************************************************)
(* What tells a person at home that the DAQ is in trouble:                 *)
(*   flask_app/monitor.py      the rules, their memory and the messages;   *)
(*   flask_app/daq_status.py   the status cards the rules read;            *)
(*   flask_app/beam_state.py   the beam as the SPS page shows it;          *)
(*   flask_app/power_control.py  the LV readings behind one of the cards.  *)
(*                                                                         *)
(* The rules share the monitor's thread and nothing else: a behaviour      *)
(* follows one of them, and what the others read stands still.  A rule     *)
(* that is switched off is one the monitor does not get to, and a channel  *)
(* without its keys one that does not deliver.  Time is kept as ages, in   *)
(* checks of the monitor, that stop counting beyond every threshold they   *)
(* are compared with; the tracker polls several times in a unit, or none.  *)
(***************************************************************************)
EXTENDS Integers, Sequences

CONSTANTS
    IS_BEAM_SITE,
    min_duration, resend_interval,    \* of the rule
    UNKNOWN_AFTER, UNKNOWN_ALERT,     \* tracker, rule_beam_state_unknown
    DEBOUNCE_N,
    Targets, DEFAULT_TARGET,
    Channels                          \* "telegram", "whatsapp"

ASSUME AlertsAssumption ==
    /\ IS_BEAM_SITE \in BOOLEAN
    /\ {min_duration, resend_interval, UNKNOWN_AFTER, UNKNOWN_ALERT} \subseteq Nat
    /\ DEBOUNCE_N \in Nat \ {0}
    /\ DEFAULT_TARGET \in Targets

VARIABLES
    rule,       \* the one followed
    card,       \* what the tmux pane behind it shows, as its status card says
    power,      \* power scripts that run, the one claimed, age of the TDK readings
    page,       \* SPS Page 1, as far as the target is concerned
    tracker, persisted,     \* BeamStateTracker and config/beam_state.json
    monitor,    \* its thread, its switch
    memory,     \* what it remembers of the rule
    told,       \* history: age of the last alert delivered
    due,        \* history: the check just made was one at which an alert was due
    dark        \* history: good samples in a row below the threshold

beam_vars == <<page, tracker, persisted, dark>>
monitor_vars == <<monitor, memory, told, due>>
alerts_vars == <<rule, card, power, beam_vars, monitor_vars>>

NoAge == -1
Older(age, cap) == IF age = NoAge \/ age > cap THEN age ELSE age + 1

------------------------------------------------------------------------------
(* The rules and the cards they read.                                      *)

Cards ==
    [vmm_daq |-> {"ERROR", "CAPTURE ERROR", "Stopping", "DAQ Stopped", "RUNNING", "STARTING",
                  "WAITING", "UNKNOWN STATE"},
     daq_control |-> {"ERROR", "WAITING", "Run Complete", "Paused", "RUNNING", "UNKNOWN STATE"},
     hv_control |-> {"ERROR", "WAITING", "HV Off", "Monitoring HV", "HV Ramped", "Ramping HV",
                     "UNKNOWN STATE"},
     lv_control |-> {"ERROR", "LV Disconnected", "Monitoring LV", "IDLE", "LV Connected",
                     "WAITING", "UNKNOWN STATE"}]

Reads ==
    [vmm_daq_session_dead |-> "vmm_daq", daq_control_session_dead |-> "daq_control",
     hv_control_monitoring |-> "hv_control", lv_disconnected |-> "lv_control",
     vmm_daq_capture_error |-> "vmm_daq", vmm_daq_unknown_state |-> "vmm_daq",
     daq_control_unknown_state |-> "daq_control"]

CardRules == DOMAIN Reads
BeamRules == {"beam_off", "beam_state_unknown"}
Rules == CardRules \cup BeamRules

(* The card of the LV shows the TDK readings while they are fresh, whatever *)
(* the pane says.                                                          *)
Status == IF rule = "lv_disconnected" /\ power.age \in 0 .. 1 THEN "LV OK (TDK)" ELSE card

Bad ==
    [vmm_daq_session_dead |-> {"ERROR"}, daq_control_session_dead |-> {"ERROR"},
     hv_control_monitoring |-> Cards.hv_control \ {"Monitoring HV", "HV Ramped", "Ramping HV"},
     lv_disconnected |-> {"LV Disconnected", "ERROR", "UNKNOWN STATE"},
     vmm_daq_capture_error |-> {"CAPTURE ERROR"}, vmm_daq_unknown_state |-> {"UNKNOWN STATE"},
     daq_control_unknown_state |-> {"UNKNOWN STATE"}]

IsAlert ==
    CASE rule = "beam_off" -> tracker.state = "OFF"
      [] rule = "beam_state_unknown" -> tracker.state = "UNKNOWN" /\ tracker.since > UNKNOWN_ALERT
      [] OTHER -> Status \in Bad[rule]

rule_enabled == rule \in BeamRules => IS_BEAM_SITE

------------------------------------------------------------------------------
NoMemory == [alert_active |-> FALSE, sent_at |-> NoAge, pending_since |-> NoAge]

AlertsInit ==
    /\ rule \in Rules
    /\ card \in (IF rule \in CardRules THEN Cards[Reads[rule]] ELSE {"-"})
    /\ power = [running |-> "none", scripts |-> {}, age |-> NoAge]
    /\ page = "away"
    /\ tracker = [state |-> "UNKNOWN", since |-> 0, last_ok |-> NoAge, pending |-> <<>>,
                  target |-> DEFAULT_TARGET]
    /\ persisted = [state |-> "UNKNOWN", since |-> 0, target |-> DEFAULT_TARGET]
    /\ monitor = [thread |-> "off", enabled |-> FALSE]
    /\ memory = NoMemory /\ told = NoAge /\ due = FALSE /\ dark = 0

AlertsTick ==
    /\ power' = [power EXCEPT !.age = Older(@, 1)]
    /\ IF rule \in BeamRules
       THEN /\ tracker' = [tracker EXCEPT !.since = Older(@, UNKNOWN_ALERT),
                                          !.last_ok = Older(@, UNKNOWN_AFTER)]
            /\ persisted' = [persisted EXCEPT !.since = Older(@, UNKNOWN_ALERT)]
       ELSE UNCHANGED <<tracker, persisted>>
    /\ memory' = [memory EXCEPT !.sent_at = Older(@, resend_interval),
                                !.pending_since = Older(@, min_duration)]
    /\ told' = Older(told, resend_interval)
    /\ due' = FALSE
    /\ UNCHANGED <<rule, card, page, monitor, dark>>

(* The program behind the card prints, is restarted, or its session dies.  *)
PanePrints ==
    /\ rule \in CardRules
    /\ card' \in Cards[Reads[rule]]
    /\ UNCHANGED <<rule, power, beam_vars, monitor_vars>>

------------------------------------------------------------------------------
(* The power scripts.  A script started by hand claims `running`; the      *)
(* background measure looks at it and claims nothing.                      *)

Actions == {"measure", "on", "off"}

PowerStarts(a) ==
    /\ rule = "lv_disconnected" /\ power.running = "none"
    /\ power' = [power EXCEPT !.running = a, !.scripts = @ \cup {a}]
    /\ UNCHANGED <<rule, card, beam_vars, monitor_vars>>

AutoMeasureStarts ==
    /\ rule = "lv_disconnected" /\ power.running = "none" /\ "auto" \notin power.scripts
    /\ power' = [power EXCEPT !.scripts = @ \cup {"auto"}]
    /\ UNCHANGED <<rule, card, beam_vars, monitor_vars>>

(* A measure that worked leaves readings behind; nothing else does.        *)
ScriptEnds(a) ==
    /\ a \in power.scripts
    /\ \E worked \in BOOLEAN :
          power' = [running |-> IF a = power.running THEN "none" ELSE power.running,
                    scripts |-> power.scripts \ {a},
                    age |-> IF worked /\ a \in {"measure", "auto"} THEN 0 ELSE power.age]
    /\ UNCHANGED <<rule, card, beam_vars, monitor_vars>>

------------------------------------------------------------------------------
(* The beam tracker.                                                       *)

PageChanges ==
    /\ rule \in BeamRules
    /\ page' \in {"above", "below", "unreadable", "garbled", "away"}
    /\ UNCHANGED <<rule, card, power, tracker, persisted, dark, monitor_vars>>

(* _set_state: nothing if it is the state already, else dated and saved.   *)
SetState(t, new) ==
    IF new = t.state THEN tracker' = t /\ UNCHANGED persisted
    ELSE /\ tracker' = [t EXCEPT !.state = new, !.since = 0]
         /\ persisted' = [state |-> new, since |-> 0, target |-> t.target]

LastN(s) == IF Len(s) > DEBOUNCE_N THEN Tail(s) ELSE s
\* Mutant of Agreed: as many again as the window holds.
AgreedTwice(s) == Len(s) > DEBOUNCE_N /\ \A i \in 1 .. Len(s) : s[i] = s[1]
Agreed(s) == Len(s) = DEBOUNCE_N /\ \A i \in 1 .. Len(s) : s[i] = s[1]
TooOld(t) == t.state # "UNKNOWN" /\ (t.last_ok = NoAge \/ t.last_ok > UNKNOWN_AFTER)

(* One poll.  A good parse is a sample; the state goes when parses do, but *)
(* not by an answer that is no image at all: that raises, and nothing of   *)
(* the poll is done.                                                       *)
Sample ==
    /\ rule \in BeamRules /\ page # "garbled"
    /\ LET good == page \in {"above", "below"}
           pending == IF good THEN LastN(Append(tracker.pending, page = "above"))
                      ELSE tracker.pending
           t == [tracker EXCEPT !.pending = pending, !.last_ok = IF good THEN 0 ELSE @]
       IN  /\ dark' = CASE page = "below" -> IF dark < DEBOUNCE_N THEN dark + 1 ELSE dark
                        [] page = "above" -> 0
                        [] OTHER -> IF TooOld(t) THEN 0 ELSE dark
           /\ CASE good /\ Agreed(pending) -> SetState(t, IF pending[1] THEN "ON" ELSE "OFF")
                [] TooOld(t) -> SetState([t EXCEPT !.pending = <<>>], "UNKNOWN")
                [] OTHER -> tracker' = t /\ UNCHANGED persisted
    /\ UNCHANGED <<rule, card, power, page, monitor_vars>>

SetTarget(target) ==
    /\ rule \in BeamRules /\ target # tracker.target
    /\ SetState([tracker EXCEPT !.target = target, !.pending = <<>>], "UNKNOWN")
    /\ dark' = 0
    /\ UNCHANGED <<rule, card, power, page, monitor_vars>>

(* The threshold decides what "above" is; the state waits for new samples. *)
SetThreshold ==
    /\ rule \in BeamRules
    /\ tracker' = [tracker EXCEPT !.pending = <<>>] /\ dark' = 0
    /\ UNCHANGED <<rule, card, power, page, persisted, monitor_vars>>

------------------------------------------------------------------------------
(* The monitor.                                                            *)

(* CallMeBot says 200 to a message it refuses; the reason is in the page.  *)
Answers == {"sent", "refused", "away"}
\* Mutant of Delivered: a status of 200 is a message sent.
DeliveredByStatus(answer, c) == answer[c] = "sent" \/ (c = "whatsapp" /\ answer[c] = "refused")
Delivered(answer, c) == answer[c] = "sent"
Broadcast(answer) == \E c \in Channels : Delivered(answer, c)

\* Mutant of SentAt: the time of the last alert tried.
SentAtTried(sent, ok) == IF sent THEN 0 ELSE memory.sent_at
SentAt(sent, ok) == IF sent /\ ok THEN 0 ELSE memory.sent_at

(* One look at the rule: an alert when its condition has held for long     *)
(* enough, again and again as long as it holds; a word when it ends.       *)
Check(answer) ==
    LET since == IF memory.pending_since = NoAge THEN 0 ELSE memory.pending_since
        long == since >= min_duration
        resend_due == memory.sent_at = NoAge \/ memory.sent_at > resend_interval
        sent == long /\ (~memory.alert_active \/ resend_due)
        reached == \E c \in Channels : answer[c] = "sent"
    IN  IF IsAlert
        THEN /\ memory' = [pending_since |-> since,
                           alert_active |-> long \/ memory.alert_active,
                           sent_at |-> SentAt(sent, Broadcast(answer))]
             /\ told' = IF sent /\ reached THEN 0 ELSE told
             /\ due' = (long /\ reached)
        ELSE /\ memory' = [memory EXCEPT !.alert_active = FALSE, !.pending_since = NoAge]
             /\ due' = FALSE /\ UNCHANGED told

Checks ==
    /\ monitor.thread = "running" /\ rule_enabled
    /\ \E answer \in [Channels -> Answers] : Check(answer)
    /\ UNCHANGED <<rule, card, power, beam_vars, monitor>>

(* Start finds the old thread still there and leaves it at that: after a   *)
(* stop it is a start that did not happen.                                 *)
MonitorStarts ==
    /\ monitor.thread = "off"
    /\ monitor' = [monitor EXCEPT !.thread = "running", !.enabled = TRUE]
    /\ UNCHANGED <<rule, card, power, beam_vars, memory, told, due>>

MonitorStops ==
    /\ monitor' = [monitor EXCEPT !.enabled = FALSE,
                                  !.thread = IF @ = "off" THEN "off" ELSE "stopping"]
    /\ UNCHANGED <<rule, card, power, beam_vars, memory, told, due>>

ThreadEnds ==
    /\ monitor.thread = "stopping"
    /\ monitor' = [monitor EXCEPT !.thread = "off"]
    /\ UNCHANGED <<rule, card, power, beam_vars, memory, told, due>>

(* Flask restarts: the tracker resumes the state it saved for its target,  *)
(* the monitor starts again if it was on and remembers nothing.            *)
GuiRestarts ==
    /\ tracker' = [tracker EXCEPT
                     !.state = IF persisted.target = tracker.target THEN persisted.state
                               ELSE "UNKNOWN",
                     !.since = IF persisted.target = tracker.target THEN persisted.since ELSE 0,
                     !.last_ok = NoAge, !.pending = <<>>]
    /\ dark' = 0
    /\ monitor' = [monitor EXCEPT !.thread = IF monitor.enabled THEN "running" ELSE "off"]
    /\ memory' = NoMemory /\ due' = FALSE
    /\ power' = [power EXCEPT !.running = "none"]
    /\ UNCHANGED <<rule, card, page, persisted, told>>

AlertsNext ==
    \/ AlertsTick \/ PanePrints
    \/ \E a \in Actions : PowerStarts(a)
    \/ AutoMeasureStarts
    \/ \E a \in Actions \cup {"auto"} : ScriptEnds(a)
    \/ PageChanges \/ Sample \/ SetThreshold
    \/ \E t \in Targets : SetTarget(t)
    \/ Checks \/ MonitorStarts \/ MonitorStops \/ ThreadEnds
    \/ GuiRestarts

AlertsSpec == AlertsInit /\ [][AlertsNext]_alerts_vars

------------------------------------------------------------------------------
(* Properties.                                                             *)

(* A check that finds a condition held for long enough, with a channel     *)
(* that works, leaves the person told of it no longer ago than the resend  *)
(* interval: no message that failed, no stop or restart of the monitor and *)
(* no switching of the rule makes it believe a message was sent that was   *)
(* not.                                                                    *)
Alerted == due => told \in 0 .. resend_interval

(* The tracker says OFF once the last samples it could read, as many as it *)
(* waits for and all under the present target and threshold, were below    *)
(* it: failed polls in between cost only time.                             *)
TrackerTells == dark = DEBOUNCE_N => tracker.state = "OFF"

(* What lasts is told: by the monitor, and before it by the tracker.       *)
NotSilent == Alerted /\ TrackerTells

===============================================================================
