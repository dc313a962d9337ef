------------------------------- MODULE BeamFeed -------------------------------
(***************************************************************************)
(* The beam as NXCALS knows it, on its way to the page of the GUI:         *)
(*                                                                         *)
(*   lxplus   a watcher polls NXCALS, appends each cycle to the CSV of its *)
(*            day and publishes a state file                               *)
(*              (beam_monitor/beam_intensity_controller.py,                *)
(*               sps_monitor/sps_spill_controller.py);                     *)
(*            a backfill rewrites whole days (sps_monitor/backfill_*.py);  *)
(*   banco    beam_bridge.py copies both down from EOS;                    *)
(*   GUI      app.py reads the copy.                                       *)
(*                                                                         *)
(* There are two feeds, "beam" (intensity per cycle) and "sps" (spills and *)
(* the H4 line), with files of their own; a behaviour follows one of them. *)
(* A unit of time is a few polls long: the watcher polls any number of     *)
(* times in it or, dead, hung or without a ticket, not at all.  A cycle    *)
(* carries its number, which is the time it was played, and NXCALS shows   *)
(* it within that unit.                                                    *)
(***************************************************************************)
EXTENDS Integers, FiniteSets

(* "none": the SPS logged nothing; "dump" and "stray": not extracted to us, *)
(* but in a stray one our counters saw something; the others are spills:    *)
(* seen by our counters, not seen by them, not counted at all.              *)

CONSTANTS
    LOOKBACK_S, PROFILE_LOOKBACK_S,   \* what a poll asks NXCALS for
    COUNTS_S,                         \* the part of it the counters are summed over
    BEAM_OFF_GAP_S, STALE_S,
    CATCHUP_PER_POLL,
    CycleKinds,     \* of those below, the ones that may be played
    FileLen,        \* units of time in one log file
    MaxTime,        \* bound: the units of time
    MaxTroubles     \* bound: failures, restarts and backfills together

ASSUME BeamFeedAssumption ==
    /\ {LOOKBACK_S, PROFILE_LOOKBACK_S, COUNTS_S, CATCHUP_PER_POLL, FileLen, MaxTime} \subseteq Nat \ {0}
    /\ {BEAM_OFF_GAP_S, STALE_S, MaxTroubles} \subseteq Nat
    /\ CycleKinds \subseteq {"none", "dump", "stray", "seen", "unseen", "uncounted"}
    /\ PROFILE_LOOKBACK_S <= LOOKBACK_S /\ COUNTS_S <= LOOKBACK_S
    /\ LOOKBACK_S <= FileLen         \* minutes, and a day

VARIABLES
    feed,
    now,
    cycle,      \* NXCALS: what the SPS played at each time
    watcher,    \* session, newest logged, newest archived, newest pulse
    csv,        \* rows of the feed's CSVs on EOS
    archive,    \* spills of its profile archive on EOS
    published,  \* its state file on EOS
    troubles,
    backfill,   \* a file being rewritten: its number and its new rows
    bridge,     \* step, last good state, files to catch up, a copy of one failed
    local,      \* the state file on banco
    mine,       \* rows of the CSVs on banco
    logged_at,  \* history: the last poll whose rows were all written
    owed        \* history: rows on EOS when the bridge started

lxplus == <<watcher, csv, archive, published>>
banco  == <<bridge, local, mine, owed>>
feed_vars == <<feed, now, cycle, troubles, lxplus, banco, backfill, logged_at>>

Never == -1
NoFile == [stamp |-> Never, on |-> "unknown", line |-> "unknown", from |-> "nothing"]
Unknown(t) == [NoFile EXCEPT !.stamp = t]
NoBackfill == [file |-> Never, rows |-> {}]

(* So many of the troubles allowed are used up.                            *)
Trouble(n) == troubles' = troubles + n /\ troubles' <= MaxTroubles
If(failed) == IF failed THEN 1 ELSE 0

Spill == {"seen", "unseen", "uncounted"}

Times == 0 .. now
Points == {c \in Times : cycle[c] # "none"}
Spills == {c \in Times : cycle[c] \in Spill}
Window(len) == {c \in Points : c > now - len}
File(c) == c \div FileLen
Rows(S, f) == {c \in S : File(c) = f}
Latest(S) == CHOOSE t \in S \cup {Never} : \A u \in S : u <= t

FeedInit ==
    /\ feed \in {"beam", "sps"} /\ now = 0
    /\ cycle \in [{0} -> CycleKinds]
    /\ watcher = [connected |-> FALSE, logged |-> Never, archived |-> Never, pulse |-> Never]
    /\ troubles = 0 /\ csv = {} /\ archive = {} /\ published = NoFile /\ backfill = NoBackfill
    /\ bridge = [pc |-> "down", last_ok |-> Never, plan |-> {}, missed |-> FALSE]
    /\ local = NoFile /\ mine = {} /\ logged_at = Never /\ owed = {}

------------------------------------------------------------------------------
(* Time and the accelerator.                                               *)

Ticks ==
    /\ now < MaxTime /\ now' = now + 1
    /\ \E k \in CycleKinds : cycle' = [c \in 0 .. now' |-> IF c = now' THEN k ELSE cycle[c]]
    /\ UNCHANGED <<feed, troubles, lxplus, banco, backfill, logged_at>>

------------------------------------------------------------------------------
(* The watcher.                                                            *)

(* What it remembers is gone; the newest row on disk stands for it.        *)
WatcherStarts ==
    /\ Trouble(1)
    /\ watcher' = [connected |-> FALSE, logged |-> Latest(csv), archived |-> Never,
                   pulse |-> Never]
    /\ UNCHANGED <<feed, now, cycle, csv, archive, published, banco, backfill, logged_at>>

Connects ==
    /\ ~watcher.connected
    /\ \/ watcher' = [watcher EXCEPT !.connected = TRUE] /\ UNCHANGED <<published, troubles>>
       \/ Trouble(1) /\ UNCHANGED watcher /\ published' = Unknown(now)
    /\ UNCHANGED <<feed, now, cycle, csv, archive, banco, backfill, logged_at>>

(* The query or the session dies: ticket gone, network.                    *)
PollFails ==
    /\ watcher.connected /\ Trouble(1)
    /\ watcher' = [watcher EXCEPT !.connected = FALSE]
    /\ published' = Unknown(now)
    /\ UNCHANGED <<feed, now, cycle, csv, archive, banco, backfill, logged_at>>

(* The rows go to the file of their day, file after file until one cannot  *)
(* be written; only when all are is the newest remembered.                 *)
Written(new, bad) == {c \in new : File(c) < bad}
\* Mutant of LastLogged: the newest row counts as logged, written or not.
LastLoggedAnyway(new, bad) == Latest(new \cup {watcher.logged})
LastLogged(new, bad) ==
    IF Written(new, bad) = new THEN Latest(new \cup {watcher.logged}) ELSE watcher.logged
FilesOrNone == 0 .. File(MaxTime) + 1

(* The state file is replaced, or the old one stays: EOS full or away.     *)
Publishes(state, ok) == published' = IF ok THEN state ELSE published

BeamState(pulse) ==
    [stamp |-> now, line |-> "unknown", from |-> "nothing",
     on |-> IF pulse # Never /\ now - pulse <= BEAM_OFF_GAP_S THEN "on" ELSE "off"]

PollBeam ==
    /\ feed = "beam" /\ watcher.connected
    /\ \E bad \in FilesOrNone, ok \in BOOLEAN :
          LET points == Window(LOOKBACK_S)
              pulse == Latest((points \cap Spills) \cup {watcher.pulse})
              new == {c \in points : c > watcher.logged}
          IN  /\ Trouble(If(Written(new, bad) # new) + If(~ok))
              /\ csv' = csv \cup Written(new, bad)
              /\ watcher' = [watcher EXCEPT !.pulse = pulse, !.logged = LastLogged(new, bad)]
              /\ logged_at' = IF Written(new, bad) = new THEN now ELSE logged_at
              /\ Publishes(BeamState(pulse), ok)
    /\ UNCHANGED <<feed, now, cycle, archive, banco, backfill>>

(* The line: open or closed by its magnets, else, if anything was sent, by  *)
(* whether our counters saw anything, in these cycles or in the others.  A  *)
(* counter without an answer adds nothing to the sum, as one that saw       *)
(* nothing.                                                                 *)
Counted == {c \in Times : cycle[c] \in {"seen", "stray"}}
Line(bends) ==
    LET recent == Window(COUNTS_S)
    IN  CASE bends = "off" -> [line |-> "closed", from |-> "bends"]
          [] bends # "off" /\ recent \cap Spills = {} -> [line |-> "unknown", from |-> "nothing"]
          [] OTHER -> [line |-> IF recent \cap Counted # {} THEN "open" ELSE "closed",
                       from |-> "counters"]

SpsState(bends) ==
    LET last == Latest(Window(LOOKBACK_S) \cap Spills)
    IN  [stamp |-> now, line |-> Line(bends).line, from |-> Line(bends).from,
         on |-> IF last # Never /\ now - last <= BEAM_OFF_GAP_S THEN "on" ELSE "off"]

(* Spills newer than the last profile looked at, in hourly files.          *)
ToArchive == {c \in Window(PROFILE_LOOKBACK_S) \cap Spills : c > watcher.archived}
LastArchived(bad) ==
    IF ToArchive # {} /\ Written(ToArchive, bad) = ToArchive
    THEN Latest(Window(PROFILE_LOOKBACK_S)) ELSE watcher.archived

PollSps ==
    /\ feed = "sps" /\ watcher.connected
    /\ \E bad, badArchive \in FilesOrNone, bends \in {"on", "off", "silent"}, ok \in BOOLEAN :
          LET new == {c \in Window(LOOKBACK_S) : c > watcher.logged}
          IN  /\ Trouble(If(Written(new, bad) # new) + If(Written(ToArchive, badArchive) # ToArchive)
                         + If(~ok))
              /\ csv' = csv \cup Written(new, bad)
              /\ archive' = archive \cup Written(ToArchive, badArchive)
              /\ watcher' = [watcher EXCEPT !.logged = LastLogged(new, bad),
                                            !.archived = LastArchived(badArchive)]
              /\ logged_at' = IF /\ Written(new, bad) = new
                                 /\ Written(ToArchive, badArchive) = ToArchive
                              THEN now ELSE logged_at
              /\ Publishes(SpsState(bends), ok)
    /\ UNCHANGED <<feed, now, cycle, banco, backfill>>

(* The rows are written, then the query for the profiles raises.           *)
PollSpsHalf ==
    /\ feed = "sps" /\ watcher.connected
    /\ \E bad \in FilesOrNone :
          LET new == {c \in Window(LOOKBACK_S) : c > watcher.logged}
          IN  /\ Trouble(1 + If(Written(new, bad) # new))
              /\ csv' = csv \cup Written(new, bad)
              /\ watcher' = [watcher EXCEPT !.logged = LastLogged(new, bad)]
    /\ published' = Unknown(now)
    /\ UNCHANGED <<feed, now, cycle, archive, banco, backfill, logged_at>>

------------------------------------------------------------------------------
(* The backfill: a day's file is read, merged with what NXCALS has and     *)
(* replaced, but never the day the watcher is writing.                     *)

\* Mutant of Rewritable: today's file as well.
RewritableToday(f) == f <= File(now)
Rewritable(f) == f < File(now)

BackfillReads(f) ==
    /\ backfill = NoBackfill /\ Rewritable(f) /\ Trouble(1)
    /\ backfill' = [file |-> f, rows |-> Rows(csv, f) \cup Rows(Points, f)]
    /\ UNCHANGED <<feed, now, cycle, lxplus, banco, logged_at>>

BackfillReplaces ==
    /\ backfill # NoBackfill /\ backfill' = NoBackfill
    /\ csv' = (csv \ Rows(csv, backfill.file)) \cup backfill.rows
    /\ UNCHANGED <<feed, now, cycle, troubles, watcher, archive, published, banco, logged_at>>

(* An hour whose archive exists is done.                                   *)
BackfillProfiles(f) ==
    /\ feed = "sps" /\ f < File(now) /\ Rows(archive, f) = {} /\ Trouble(1)
    /\ archive' = archive \cup Rows(Spills, f)
    /\ UNCHANGED <<feed, now, cycle, watcher, csv, published, banco, backfill, logged_at>>

------------------------------------------------------------------------------
(* The bridge.                                                             *)

(* Files EOS has and banco does not, or not as long.                       *)
\* Mutant of Backlog: those banco does not have at all.
BacklogByName == {f \in 0 .. File(now) : Rows(mine, f) = {} /\ Rows(csv, f) # {}}
Backlog == {f \in 0 .. File(now) : Cardinality(Rows(mine, f)) < Cardinality(Rows(csv, f))}

BridgeStarts ==
    /\ \E listed \in BOOLEAN :
          /\ bridge' = [pc |-> "pull", last_ok |-> Never, missed |-> ~listed,
                        plan |-> IF listed THEN Backlog ELSE {}]
          /\ Trouble(If(bridge.pc # "down") + If(~listed))
    /\ owed' = csv
    /\ UNCHANGED <<feed, now, cycle, lxplus, local, mine, backfill, logged_at>>

(* The state, then the CSV of today; each copy may fail and leaves what    *)
(* there was.  A copy of a frozen state is no news: its own stamp says how *)
(* old it is.                                                              *)
Judged(got) ==
    LET fresh == got /\ now - published.stamp <= STALE_S
        late == bridge.last_ok = Never \/ now - bridge.last_ok > STALE_S
    IN  /\ bridge' = [bridge EXCEPT !.pc = "drain", !.last_ok = IF fresh THEN now ELSE @]
        /\ local' = CASE fresh -> published
                      [] ~fresh /\ (got \/ late) -> Unknown(now)
                      [] OTHER -> local

BridgePulls ==
    /\ bridge.pc = "pull"
    /\ \E got, gotCsv \in BOOLEAN :
          /\ got => published # NoFile
          /\ Trouble(If(~got /\ published # NoFile) + If(~gotCsv))
          /\ Judged(got)
          /\ mine' = IF gotCsv THEN (mine \ Rows(mine, File(now))) \cup Rows(csv, File(now))
                     ELSE mine
    /\ UNCHANGED <<feed, now, cycle, lxplus, backfill, logged_at, owed>>

(* The newest few files of the backlog; one that fails is not tried again. *)
BridgeDrains ==
    /\ bridge.pc = "drain"
    /\ LET batch == {f \in bridge.plan :
                        Cardinality({g \in bridge.plan : g > f}) < CATCHUP_PER_POLL}
       IN  \E ok \in SUBSET batch :
              /\ mine' = mine \cup {c \in csv : File(c) \in ok}
              /\ bridge' = [bridge EXCEPT !.pc = "pull", !.plan = @ \ batch,
                                          !.missed = @ \/ ok # batch]
              /\ Trouble(If(ok # batch))
    /\ UNCHANGED <<feed, now, cycle, lxplus, backfill, logged_at, local, owed>>

------------------------------------------------------------------------------
(* What the page shows.                                                    *)

\* Mutant of Fresh: the bridge takes care of old states.
FreshByBridge(s) == s.stamp # Never
Fresh(s) == s.stamp # Never /\ now - s.stamp <= STALE_S
OnPage == IF Fresh(local) THEN local ELSE NoFile

FeedNext ==
    \/ Ticks
    \/ WatcherStarts \/ Connects \/ PollFails \/ PollBeam \/ PollSps \/ PollSpsHalf
    \/ \E f \in 0 .. File(MaxTime) : BackfillReads(f) \/ BackfillProfiles(f)
    \/ BackfillReplaces
    \/ BridgeStarts \/ BridgePulls \/ BridgeDrains

FeedSpec == FeedInit /\ [][FeedNext]_feed_vars

------------------------------------------------------------------------------
(* Properties.                                                             *)

(* The page says "beam on" only when there was a spill no longer ago than  *)
(* the watcher's gap and one staleness, and "line open" only when there was *)
(* a spill and the counters saw something in the window of a poll that old, *)
(* whichever of watcher, EOS and bridge is frozen or dead: the two cut-offs *)
(* of a chain of copies do not add up.                                      *)
NeverOldOn ==
    /\ OnPage.on = "on" => \E c \in Spills : now - c <= BEAM_OFF_GAP_S + STALE_S
    /\ OnPage.line = "open" =>
          /\ \E c \in Spills : now - c < COUNTS_S + STALE_S
          /\ \E c \in Counted : now - c < COUNTS_S + STALE_S

(* Every cycle in the window of a poll that could write is on EOS, once    *)
(* and for all: restarts, polls that failed half way and the backfill's    *)
(* rewriting lose none.                                                    *)
OnEos ==
    \A c \in Points : c <= logged_at =>
       /\ c > logged_at - LOOKBACK_S => c \in csv
       /\ feed = "sps" /\ c \in Spills /\ c > logged_at - PROFILE_LOOKBACK_S => c \in archive

(* A bridge whose backlog is copied has every row EOS had when it started, *)
(* the second half of a day it had half of included.                       *)
CaughtUp ==
    bridge.pc \notin {"down", "drain"} /\ bridge.plan = {} /\ ~bridge.missed => owed \subseteq mine

(* Every cycle is recorded, on EOS and from there on banco.                *)
Recorded == OnEos /\ CaughtUp

===============================================================================
