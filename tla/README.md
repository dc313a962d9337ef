# Formal verification of the VMM beam-test DAQ control

TLA+ models of the programs that run the VMM detectors in the test beam, the
TLC configurations that check them on small instances, and TLAPS proofs of the
main results for every instance. Paths below are relative to the repository.

## 1. The system

| Part | Where | State it keeps | Module |
|---|---|---|---|
| Run orchestrator | `daq_control.py`, `DAQController.py` | position in the sub-run loop, `run_start_time` | `RunControl`, `SlowControl` |
| Capture server | `vmm_daq_control.py` (port 2101) | one session: capture processes, session-lock keeper, acquisition of the front ends | `RunControl` |
| HV and LV server | `hv_control.py` (2100), `lv_control.py` (2102) | set points, a monitor thread and its stop event | `SlowControl` |
| Sockets | `Server.py`, `Client.py` | length-prefixed frames, end of file | in both |
| Operator's scripts | `bash_scripts/stop_*.sh`, pause button | flag files `.stop_run`, `.stop_subrun`, `.pause_run`, `.stop_vmm` | `RunControl` |
| Session lock | `session_lock.py` | keeper thread, owner file of the electronics' lock | `SessionLock` |
| Chip configuration | `flask_app/chip_config.py` | state file, worker threads, two flags | `ChipConfig` |
| Watchers | `vmm_processor_watcher.py`, `qa_watcher.py`, `watcher_common.py` | sizes seen, attempts, state files | `Watchers` |
| Backup, space manager, pruner | `backup_watcher.py`, `flask_app/space_manager.py`, `prune_backed_up.py` | sizes synced, stale runs, a delete or restore under way | `BackupSpace` |
| Capture guard, configuration scan, run numbers | `capture_guard.py`, `config_scan.py`, `iterate_run_num.py` | recoveries spent, place in the scan, high-water mark | `Sequencers` |
| Adaptive threshold scan, rate guard | `quick_scripts/adaptive_thr_scan.py`, `rate_guard.py` | masks found, chips held, strikes | `AdaptiveScan` |
| HV of other machines | `hv_dream_shim.py`, `banco_hv/hv_serial_live.py`, `docs/dream_side/hv_live.py` | gate, last poll, limits, a CAEN session | `RemoteHV` |
| Beam and spill feed | `beam_monitor/`, `sps_monitor/`, `beam_bridge.py` | newest row logged, CSVs, state files | `BeamFeed` |
| Beam state, alerts, power | `flask_app/beam_state.py`, `monitor.py`, `daq_status.py`, `power_control.py` | debounced state, memory of each rule | `Alerts` |
| Settings, campaign, stand | `gui_settings.py`, `mem_guardian.py`, routes of `flask_app/app.py` | settings file, setup file, directories of the services | `Settings` |

How they interact. The orchestrator is the TCP client of the three servers and
speaks a strict request/reply protocol with each; the operator reaches the
orchestrator and the capture server only through flag files. The capture server
writes `.capture_done`, the orchestrator `.subrun_complete`; the watchers, the
backup and the space manager act on those two markers and on the files. Guards
and scans start and stop runs through the routes of the GUI, like the operator,
and meet in the generated `run_config` json and a handful of flag files.

What is hard in it: independent processes with no common clock, each with its
own look at the same files; replies with no sequence number; servers that catch
every exception and start over while their child processes live on; a retry loop
with no bound; state files that are read, changed and written back without a
lock; caches of what was true at the last poll; markers that other programs take
as permission to analyse and delete.

What makes each part correct:

* run control: a marker stands for a finished capture of that sub-run, taken at
  its voltage, protected by the lock, with all front ends on; a stop request
  ends the run; the conversation stays in step;
* HV/LV servers: every channel at its voltage before a capture, a monitor for
  it, all power off at the end;
* session lock: nothing is held after a stop, renewals do not overlap, a
  hand-over reaches the next run;
* chip configuration: what arms a run is what the registers hold, and it arms one;
* watchers: a file is read only when final, none is forgotten, failed ones are
  retried a bounded number of times;
* backup and space: nothing is deleted that is not on the remote in full;
* guards and scans: a dead run is stopped, a scan counts its own runs only, the
  crate is off at the end, a run number comes back only to a run that resumes it;
* threshold scan: a flooded probe is never taken for clean, a held chip sits
  where it was measured;
* remote HV: "HV Set" is true, no electrode goes over its limit;
* beam feed and alerts: an old state is not shown as on, no row is lost, what
  lasts is told;
* settings: what is in force together was fit to be in force together, but for the
  services a campaign passes over.

`PROJECT.json` lists every component with its status, and the hazards with the
properties that look at each.

## 2. Plan

All modules of the plan are written and checked: `SubRunLedger`, `RunControl`,
`SlowControl`, `SessionLock`, `ChipConfig`, `Watchers`, `BackupSpace`,
`Sequencers`, `AdaptiveScan`, `RemoteHV`, `BeamFeed`, `Alerts`, `Settings`.
Every invariant and action property of a run that is expected to pass is also
proved, for all values of the constants (section 14); what is under fairness is
left to TLC.

Worth doing next: abstract specifications for the other protocols, as
`SubRunLedger` is for run control (the lock as seen by its users, the store of
data as seen by a delete), with proofs that the detailed modules implement them.

Conventions. Every module has one action for each step between two points at
which another process can see or disturb the state. History variables are
marked as such where they are declared. A bound is a
constant or is named as a bound. A comment that begins with "Mutant of" marks a
definition that is used nowhere: it is a plausible bug in the definition below
it, and the property named in `PROJECT.json` fails when it takes its place.
`CHECK_DEADLOCK FALSE` stands in every configuration, because all these systems
rest when the bounded number of things that may happen has happened.

## 3. Run control

### 3.1 Modules

* `SubRunLedger`: the abstract account of a run directory. One sub-run at a time is
  being captured; it counts as complete only after a finished capture of it, while
  nothing is being captured, and until it is captured again; a run that resumes
  captures no complete one, and one that does not resume may take all of them again.
* `RunControl`: the orchestrator (`dpc`, `sub`, `started`, `runs`, `resume`), the capture
  server (`vpc`, `vsub`, `procs`, `lock`, `acq`), the connection (`conn`, `c2s`,
  `s2c`), the flag files and markers, the HV set point, the operator.
* `RunControlInv`: its inductive invariant, in named parts.
* `RunControlProofs`: the proofs.

### 3.2 State and actions against the code

`dpc` is a place in `daq_control.main` or in `DAQController.run`; `vpc` a place in
`vmm_daq_control.main`. Each action runs from one operation another process can
observe or disturb to the next: one look at the flag files, one message, one
marker, one change of the lock or of the front ends. So the two processes and
the operator interleave exactly where they can in the code.

| Code | Actions |
|---|---|
| head of the loop, pause, resume skip | `StopCheck`, `PauseCheck`, `PauseEnds`, `SelectSubRun` |
| LV gate, ramp | `LVGate`, `RampHV` |
| `run_daq_controller`, `DAQController.run` | `StartDaq`, `ReceiveStarting`, `ReceiveStopped`, `LostWhileRunning`, `ConnectionLost` |
| after the capture | `ReadStops`, `MarkComplete`, `PostSleep` |
| `finally`, shutdown | `Finally`, `CloseDown` |
| Ctrl-C | `InterruptCapture`, `AfterInterrupt`, `InterruptLoop` |
| server session | `AcceptClient`, `ReceiveStart`, `ClearStale`, `AcquireLock`, `AcqOn`, `Launch`, `TimeUp`, `StopSeen`, `AllDied`, `StopCaptures`, `AcqOff`, `ReleaseLock`, `MarkDone`, `ReportStopped`, `ReceiveFinished` |
| exceptions, end of file | `SetupRaises`, `LaunchRaises`, `SessionRaises`, `ClientVanished`, `Exception` |
| scripts and button | `StopRun`, `StopSubRun`, `StopVmm`, `SafetyNet`, `Pause`, `Resume` |
| crashes | `OrchestratorKilled`, `ServerKilled`, `CaptureDies` |

Abstractions: a command and its JSON are one message, as are the greeting and
the JSON behind it; the HV and LV servers appear by their outcome (a set point
that is the sub-run's or unknown, a gate that passes or not); `ended` and
`asked` are history variables. Whether a process resumes is a choice at its start,
within `Resumes`: only a resume skips what is marked (`daq_control.py:130`), and
nothing removes the `.subrun_complete` of an earlier run. A process that does not
resume comes into an old directory by a json that names one (the finding of section
9) or by `start_run.sh` typed by hand. It captures a marked sub-run again, under the
old marker; `retaken` remembers those, from the removal of `.capture_done` until the
sub-run is marked anew. The session lock is a flag (its keeper thread is
in `SessionLock`). The `.stop_vmm` safety net of `stop_vmm.sh` interrupts
every dumpcap, orphans included.

Timing: two actions, `ClearFlags` and `PostSleep`, stand for the end of a sleep
(2 s and 10 s) and wait for a stop script that is between its two touches, which
are adjacent commands of one script. Nothing else assumes anything on time.

What the server's exception handler sends ("VMM DAQ stopped", line 170) can
never arrive: the `with` block has closed the socket. The model has no such
message.

### 3.3 Runs

| Run | Instance | Shows |
|---|---|---|
| `run_control` | 2 sub-runs, 2 interfaces, 2 orchestrators, each resuming or not, 2 requests | `MarkerMeansCaptured`, `MarkerNotCutShort`, `DataAtOwnVoltage`, `CaptureProtected`, `DoneMeansFinal`, `InStep`, and that `RunControl` implements `SubRunLedger` |
| `run_interrupt` | 2 sub-runs, 1 interface, 1 orchestrator (so `resume` makes no difference), 2 requests, Ctrl-C | `StopEndsRun`: a stop-run request ends the run; `CaptureEnds`: every capture ends |

Bounds: two sub-runs are needed for a request to fall between them and for a
resume to skip one; two interfaces for a partial acq-on or launch; two
orchestrators for a resume after a kill, and for a run that begins again in the
directory of another; two requests for a stop and a pause, or
two stops, to meet. Interfaces are interchangeable, hence the symmetry (only
in the run without liveness).

What the marker is worth: `MarkerMeansCaptured` and `MarkerNotCutShort` are about
`marker \ retaken`, in every run that resumes all of them. Without that exception
they are false of the code: a retake that is stopped leaves a marker over a capture
that was cut short (`MarkerMeansTaken`, section 13), and a later resume skips it. The
other four properties need no exception.

Fairness: weak, of the orchestrator, of the server (its run loop is ended by the
wall clock), and of the second half of a stop script. Nothing is assumed of the
operator, of crashes, or of captures. A server that hangs is not modelled: no
`receive` has a timeout, so the run would hang with it.

## 4. Slow control

`SlowControl` has the two voltage servers, `MCSlowControl` its instance. `step` is
the exchange the orchestrator is at in the sub-run loop of `daq_control.main`;
`spc[k]` the place of server `k` in its session; `live` the monitor threads of any
session, `mthread` and `stopev` what the server knows of them; `power`, `v0`, `vmon`
the crate, channel by channel.

| Code | Actions |
|---|---|
| orchestrator: gate, monitors, ramp, end, power off | `Loop`, `Ask`, `Answered` (with `After`), `Capture`, `Close` |
| server session | `Accept`, `BeginMonitoring`, `EndMonitoring`, `Joined`, `Check`, `Finished`, `LastJoined`, `PowerOff` |
| `set_hvs` | `StartSet`, `SetChannel` one channel at a time, `Ramped` |
| exceptions, end of file | `ServerRaises`, `ClientVanished`, `OrchestratorRaises`, `OrchestratorKilled` |
| monitor threads | `MonitorStops`, `MonitorRaises` |
| crate | `Ramps`, `Trips` |

Abstractions: an exchange is one request and one reply; the capture is one step;
a channel is at its set point or not (the 1.5 V window and the speed of the
ramp are not there); monitoring is always on, the gate and the power off at the
end are constants. Ctrl-C, pause and resume are in `RunControl` only.

Run `slow_control`: two runs of two sub-runs on two channels (one that goes to
0 V, one that is then monitored only), one trip and two faults: two runs for what
a session leaves to the next, two faults for one in each server or a kill after
an exception. Without fairness of faults, trips and requests; the orchestrator,
the servers, a thread that is told to stop and the voltages go on.

* `CaptureAtVoltage`: whatever was left on the crate, a capture begins with every
  channel of its sub-run at its voltage, but for channels that tripped in the ramp;
* `CaptureMonitored`: its monitor is alive, unless a read of it failed;
* `PowerOffComplete`: "HV Powered Off" is true of every channel;
* `RunEnds`, `ServersReturn`: unless a channel trips.

Known and without a property: a failing read ends the monitor thread unnoticed,
and the thread of a session that broke off lives on beside that of the next one.

## 5. Session lock

`SessionLock` has the keepers of `session_lock.py`. A keeper is used once, as in
the code: started, then stopped or detached. `user[k]` is the program that calls
it, `thread[k]` its `_loop`, `proc[k]` its `_proc`, `child` the `p2basket-sc`
processes, `lock` the lock file. `_want` is a function of `user`, `_first` of `state`.
An acquire is three steps (look at `_want`, start the child, take its answer):
this is where `stop()` and `detach()` can fall. Other users take and release the
lock at any time; what `p2basket-sc` does is modelled from the module's header
and is external.

Run `session_lock`: the keeper of a run and that of an apply with two children
each, so that each can be renewed once. `StoppedHoldsNothing`: after `stop()`, once
the thread has ended, no child can hold or take the lock; `OneChild`: renewals do
not overlap; `HandedOver`: the lock left by an apply is ended by its lifetime
alone; `TakesOver` (fair threads, answers and lifetimes): a run that waits for that
lock gets it, unless another user is faster.

## 6. Chip configuration

`ChipConfig` has the requests of the chip panel and of the run start. `at[r]` is
where a request or its worker thread is; `buf[r]` the state file as that writer has
read it, since `_write_state` reads, changes and writes it whole; `chip` what the
registers hold. Operations: `Select` ... `Selected`; `ApplyAsked`, `ApplyStarts`, the
warm reset of an apply (`Locked`, `ChipResets`, `ResetEnds`, `ResetRecorded`),
`Configures`, `ConfigEnds`, `Applied`; the same reset alone (`ResetAsked`,
`ResetStarts`, `ResetRefused`); `StartAsked`, `Started`, `Consumed` of a run start;
and the run of the orchestrator, as far as it captures. A write may raise and may
leave an empty file (`WriteRaises`), the GUI may restart at any point.

Run `chip_config`: one request of each kind in flight, two exception files, three
requests in all, which lets every pair of operations overlap with a third one
after it. No fairness. `ArmedIsConfigured`: a state file that arms a run names
what the registers hold; `OneRunPerReset`: a good reset arms one run. Both are
claimed for operations that do not overlap and for writes that succeed. The four
kinds of request are apart from each other (`ChipConfigAssumption`): a request is
one call of one route.

What lies outside, read off the code and reachable in the model: a GUI that
restarts in the middle of an apply leaves the record of the one before, which
still arms; two overlapping starts use one reset twice; two writers lose each
other's update; `running` stays set when a state write raises, and the panel
refuses everything until a restart; a failed apply is recorded as the last one.
Beside the model: `daq_control.py:240-261` copies the file that is *selected* into
the run directory, which is not the one that was applied once the selection has
been changed.

## 7. Watchers

`Watchers` follows one sub-run of one interface: the capture writes, rotates and
flushes late (`Grows`, `Rotates`, `SubRunEnds`, `Quiet`); the processor scans
(`Scan` with `Eligible` and `Final`: two looks of the same size at a file that is
rotated, ended or overdue), its job makes a store and ends in one of several ways
(`StoreAppears`, `DecodeDone`, `Degrades`, `DecodeFails`); the QA watcher plots
(`QaScan`, `QaEnds`). Either may be restarted, with its job, or told to start over.

Run `watchers`: two files, one attempt, one restart or re-run: a first and a last
file, a failure that is final, a disturbance of either program. Fairness: both
loops go on, jobs end because `run_monitored` kills what stalls, closed files are
flushed, every sub-run ends; nothing of restarts. `WholeStore`: no store of half a
file; `AttemptsBounded`; `PlottedOnce`; `ShownOrSetAside`: every file is shown, or
set aside after its attempts, or its run is stale.

Outside: a file that is overdue while its writer lives is decoded as it is
(`early`); a run that goes on after it was marked stale is skipped until a
restart; under `plot_policy` `subrun` a re-run does not plot again what has plots;
the reset signal is a file that is read and removed in two steps.

## 8. Backup and space

`BackupSpace`: what the disk and EOS hold of each sub-run is nothing, a part or all
of it. The backup polls, copies, sweeps and marks stale (`Poll`, `CopyBegins`,
`CopyEnds`, `NothingToCopy`, `MarkedStale`, `WatcherRestarts`); a delete verifies, looks
at its guards and removes, in three steps (`DeleteVerifies`, `DeleteGuards`,
`Deletes`), asked for by the operator or a sweep of the pruner; a restore fetches
what differs, one after another; the orchestrator starts and resumes runs. The
three programs share the files and nothing else. The completion marker is one of the
files of a sub-run, which a restore fetches with the others if it is on EOS
(`Marker`).

Run `backup_space`: two runs of one sub-run each (`MCBackupSpace` gives the owners), one restore: a run that
is active and one that is not, each of which can be joined, copied, deleted and
fetched while the other is. Fairness: weak for the end of a copy, strong for its
beginning and its success (EOS comes back, the ticket is renewed). `SafeDelete`: a
delete takes nothing that was not taken to its end and that EOS does not hold,
at every interleaving with copies, restores and runs but for the two gaps of
`joined`; `HeldUnlessCrossed`: what was taken is held somewhere in full;
`BackedUp`: what is on the disk gets to EOS, stale runs included.

Outside: a run that begins again, without resuming, in a directory that has markers
(`RunControl` has it: the guards then believe the marker of the earlier run); a run
that is resumed between the guards and the removal loses what it
writes there (`joined`); a restore fetches a part over the only full copy, or a
copy sends a part over it, when one side is broken (`crossed`); a file that is
rewritten with an equal size is not sent again.

## 9. Sequencers

`Sequencers` has all who start runs: the operator, `config_scan.py` and
`capture_guard.py`; with what a run is labelled with, its number
(`iterate_run_num.py`: a name that is free is kept, one that is taken is kept when the
configuration resumes and some sub-run of it has no marker, else the next free one is
taken), the markers of its sub-runs (`marked`), the generated json and the paired Dream run that owns the
crate at the beam. Routes are one step (`Start`, `StopRun`, `Apply`, `WarmReset`); the
run is reduced to coming up, taking data and ending. `guard.at` and `scan.at` are
the places in the two loops, one action per step of the recovery and of a scanned
configuration.

Run `sequencers`: two configurations (a held crate and a last one), the site at
the beam, one recovery, three things the operator does, two troubles, and eight run
numbers: more than one scan, a recovery and a hand start take. Fairness: the guard's loop, the run's coming up
and end, the closing of files, the end of a Dream run. `ScanTakesItsConfig`: a run
that the scan watches has its configuration and plan; `CrateOff` after a scan that
came to its last run, if that run did not begin from a stale json and the guard was
not recovering as the scan began; `FreshNumber`: a number comes back only to a run
that resumes it and has a sub-run left to take there, whatever is pruned and whatever
the repository is reset to, as `docs/ARCHITECTURE.md` (5.1) has it, or by a stale json.
`self.resume` of the source file is a choice at the start, both values are in the
run. This is the `resume` of `RunControl`; there `Resumes` stands for what here is in
the json, and a stale json is one way to its non-resume start in an old directory.
 `DeadRunStopped`: a run whose readout died is
stopped, recoveries spent or not.

Run `stale_config` is the finding: `run_config_py` (`flask_app/app.py:482`) runs the
generator and does not look at its exit status. When it exits without writing,
the json of an earlier request is there, and a run starts from it, against
`app.py:481` ("A run must never start from a json older than this request").

Outside: a config scan or a guard under a configuration that resumes puts several
chip configurations, or plans, into one run directory, because their sub-runs are
missing there; a resume run whose directory was pruned keeps the number of what is
on EOS (`PrunedNumberNotReused`, section 13); that `verify_started_run` of the scan
compares the length of a run as well (`config_scan.py:299-303`), since durations are
left out. Away from the beam nothing keeps two starts apart: with `BeamSite` FALSE TLC
finds two that are typed within one run's coming up, which give one number twice and
a scan the run of somebody else; at the beam the paired Dream run, of which there is
one, keeps them apart. A scan launched between the guard's check and its start means two
sequencers at work (`crossed`); a recovery that fails leaves `continuation.json` for
the next start of anybody; the guard does not act on a run that was restarted
or resumed under the number it stopped; a run started by hand while `hv_hold` is up leaves
the crate biased, and so does an aborted scan; a scan's end takes down the flags
of another; the guard's stop takes whatever runs 30 s after it looked.

## 10. Adaptive threshold scan

`AdaptiveScan`: `st` is the scan's state file (masks found at each threshold, chips
held, points done), `at` its place in a point, `guard` and `trip` the rate guard and
its file. A probe or a long run ends with hot channels and a volume that are any
the run's history allows; the guard writes its file only after the stop and a
decode, with the run over in between (`GuardStops`, `GuardWrites`). A dry run takes
its points without a run and marks them as done in the same file (`Rehearses`).

Run `adaptive_scan`: one chip, two channels, two points, one mask per chip, two
probes, two passes on one state file (a scan that is killed and one that takes it
up), two strikes. No fairness, both properties are safety: `CleanWasNotStopped`: no
long run on the word of a probe the guard stopped; `HeldAtMeasured`: a held chip
is at an offset a long run had it at, with no mask fewer, unless it is held on the
word of a point that a dry run marked (`rehearsed`; `HeldAtClean`, section 13).

Outside: the long run has no look at the volume, so one that was cut can be
marked done when the guard's file comes late, as can one whose decode fails; a
second pass uses the file names of the first; the hot channels of a chip that is
held are not masked.

## 11. Remote HV

`RemoteHV` has the shim at its three sites (`site`): on the bench it sets the channels through banco's
service (`req`, `snapshot`), which the operator's page uses as well and at whose
modules somebody may stand (`Hands`); at the beam it waits for Dream's readback
(`dream`, `combined`); and the live reader of the CAEN crate takes its session
while it is asked and gives it back (`session`). A sub-run is 'Begin Monitoring', then
'Start', as the orchestrator sends them: the log runs before the gate, and that of a
sub-run that was skipped runs into the next one. A request looks at the pause file
before it starts the poller under the lock (`LiveRequest`, `EnsureThread`), so the
file may be dropped in between.

Run `remote_hv`: one channel, a plan that switches it on, off and on again; two levels,
one above the limit; two looks to settle; two requests from the page; two
troubles. One channel is enough for the limit, which is per channel, and for the
race of page and gate on it; the second sub-run has nothing to gate, and the third
the voltages of the first, whose readback it can be mistaken for. Fairness: the poller
thread of `hv_live.py`. `OnWithinLimit`: nothing is on above its limit by what came
through the service; `SetMeansThere`: "HV Set" is true where there is something to
reach; `CrateReleased`: once the pause file is there to stay, the session is closed
and stays closed, also for a request that was under way.

Outside: after a failed poll an ON is allowed on a setpoint nobody read
(`hv_serial_live.py:579-582`, `unseen`); ALL OFF lets the lock go between
channels; a request the gate gave up on is still done; one failed serial poll
skips the sub-run; Dream's readback may be 60 s old; nobody looks at the
voltages after the gate (the log is a record).

## 12. Beam feed, alerts, settings

Three modules with no variable in common, checked in one run: in `MCBeamAndSettings`
a behaviour is one of the three (`part`), so the state spaces add up.

`BeamFeed`: NXCALS, the watcher on lxplus with its CSVs, archive and state file, the
backfill, the bridge, the page. A cycle is its time; a file has two of them;
two units of time give a row at each side of a file's end, one trouble each
kind of failure, restart or backfill. The window of a poll is no longer than a
file: minutes (`LOOKBACK_S`) against a day. A cycle may be one that is not extracted
and has counts all the same (`stray`), or one whose counters see nothing
(`unseen`): the state of the line is of the counters of every cycle in a window of its
own (`COUNTS_S`, 600 s). `NeverOldOn`: the page is never on for longer
than the watcher's gap and one staleness, nor the line open for longer than its window
and one staleness, wherever the chain is frozen. The run takes a staleness of zero; that it
adds up with the gap is what `OldStateIsNotShown` proves for every value;
`Recorded`: each row in the window of a poll that could write is on EOS for good,
and a bridge whose backlog is copied has what EOS had.

`Alerts`: each rule of `monitor.py` over its card, the tracker of the beam state, the
power scripts behind the LV card. The page the tracker polls may be unreadable, or
no image at all (`garbled`): then the poll ends with an exception before it comes to
the question of `UNKNOWN`. A behaviour follows one rule. `NotSilent`: a
condition that was due and could be delivered was told within the resend interval,
whatever failed, stopped or restarted before; the tracker says OFF when its last
samples say so.

`Settings`: `gui_settings.save` from two browsers and the campaign, read key by key
by `mem_guardian.py` and `run_config_beam.py`, the services restarted by a campaign,
the entries of the stand with their commit. A service has the pane it was started
in (`pane`): a campaign passes over pruner, logbook and both guards when python is
the pane's own process (`app.py:1245-1247`, `PassedOver`), as it is with the start command
of `capture_guard.py:36-38`. A behaviour changes one topic;
two saves are needed for one to fall between two reads of another.
`SafeInForce`: the guardian warns before it kills, no plan above the ceilings it was
prepared under, all services in the directory on file but for those passed over,
the stand in force is the
one that was answered.

No fairness: the four are invariants.

Outside, for the feed: the branch "zone counters not reporting" is never
reached, such a line reads closed; rows that come after midnight for the day
before are not copied down until the bridge restarts; a restart archives some
spills twice; `--include-today` of the backfill has no guard; nothing calls
`SpsSpillMonitor.poll` or `write_error`. For the alerts: a first alert that failed is
not tried again before the resend interval if an earlier one was delivered
shortly before; a recovery is tried once; `UNKNOWN` after `OFF` is told as recovered;
a page that answers something that is no image leaves the tracker in its state for as
long as it does (`beam_state.py:304` has it as unknown);
starting the monitor right after stopping it does nothing. For the settings
(a save merges its changes into the file as it read it, `Merged`):
overlapping saves lose updates; `_operating_hvs` asserts no ceiling; a campaign
looks whether a run is on and then acts; a GUI that dies in it leaves the services mixed (`cut`);
crossed entries of the stand lose one, and a restore that fails leaves an entry in
force that was answered as not saved.

## 13. What does not hold

Statements of the repository that the code does not keep. Each is a definition of
its module without a run of its own; added to the component's configuration TLC
refutes it. For `RunControl` an instance with two sub-runs, one interface, one
orchestrator and one request at most is enough (two interfaces for
`ArmedUnderLock`, two orchestrators for `NoOrphanAfterDone` and `MarkerMeansTaken`, `InterruptSpec` for
`BlocksUntilStopped`); for `StopEndsRamp` one run without faults.

| Definition | Module | What is said, and where | What the code does |
|---|---|---|---|
| `StopReachesCapture` | `RunControl` | a stop request stops the capture (`bash_scripts/stop_run.sh:4`) | the server removes a `.stop_vmm` that falls between the orchestrator's look and its own start |
| `StopHitsCurrent` (action) | `RunControl` | `.stop_subrun` is about the current sub-run (`stop_sub_run.sh:2`) | touched late, it leaves the next one unmarked |
| `MarkerMeansTaken` | `RunControl` | the markers stand for a capture that was carried to its end (`docs/ARCHITECTURE.md:169`) | a run that does not resume takes a marked sub-run again, removes `.capture_done` only, and may be stopped |
| `MarkerMeansFull` | `RunControl` | a marked sub-run completed cleanly (`docs/ARCHITECTURE.md:169`) | one whose captures all died is marked too |
| `ArmedUnderLock` | `RunControl` | the lock is held from before acq-on to after acq-off (`vmm_daq_control.py:85-87`) | an exception releases it and leaves front ends armed |
| `NoOrphanAfterDone` | `RunControl` | the last file is final (`vmm_daq_control.py:139`) | a capture that outlived its server writes on |
| `BlocksUntilStopped` | `RunControl` | `DAQController` blocks until the capture stopped (`DAQController.py:4`) | after Ctrl-C every reply is read one exchange late |
| `StopEndsRamp` (temporal) | `SlowControl` | a stop ends the run in mid-ramp (`flask_app/app.py:402-405`) | a channel that trips in the ramp keeps the run there for ever |
| `NobodyElseMidRun` | `SessionLock` | nobody else can touch the electronics mid-run (`vmm_daq_control.py:85-87`) | the lock is free between a chunk's end and the next poll |
| `NotUnderCapture` (action) | `ChipConfig` | never reconfigure mid-acquisition (`flask_app/chip_config.py:25-26`) | a capture may begin while the apply is under way |
| `Preserved` | `BackupSpace` | a restore is non-destructive (`flask_app/app.py:2821`) | a part on EOS is fetched over the full file |
| `OnlyDeadStopped` (action) | `Sequencers` | Dream's count growing means triggers are arriving (`capture_guard.py:261`) | files from before the beam came back are judged by the count of now |
| `PrunedNumberNotReused` (action) | `Sequencers` | a number at or below the mark is never reused (`iterate_run_num.py:19-22`) | a resume run whose directory was pruned keeps it, and it is that of a run on EOS |
| `CampaignRestartsAll` | `Settings` | a campaign restarts every session that runs (`flask_app/app.py:1173-1177`) | one that is its pane's own process is passed over and stays in the old directory; the answer does not name it |
| `HeldAtClean` | `AdaptiveScan` | a chip is held at its last clean K (`adaptive_thr_scan.py:452-453`) | a point that a dry run marked counts as measured |
| `NotTheSameAgain` (action) | `AdaptiveScan` | masks are updated, then the point is resumed (`adaptive_thr_scan.py:16`) | a chip that is held gets no more masks and goes on as it was |

## 14. Proofs

`RunControlProofs` proves, for any number of sub-runs, interfaces, restarts and
requests (`ConstantsAssumption` only):

* `Invariance`: `Spec => []IInv`;
* from it `TypeCorrect`, `MarkedIsCaptured`, `MarkedIsNotCutShort`,
  `VoltageMatches`, `CapturesProtected`, `DoneIsFinal`, `ConversationInStep`;
* `RunImplementsLedger`: `Spec => LedgerSpec`.

The argument. The safety properties are not inductive. `OpenInv` and `GoneInv`
say, for each place of the orchestrator and each state of the connection, which
few pairs of queues and server places are possible: it is what keeps the
conversation in step without sequence numbers. `SessionInv` ties a session to
the sub-run, the lock, the front ends and the voltage, also when its client has
gone (the orchestrator that could change the voltage is then dead, and a new one
has to wait for the server). `MarkerInv` carries `.capture_done` along the reply
to the marker; its third conjunct covers the path on which no capture ran
because a stop flag was up; it is about the markers no run has taken again, and the
ledger's `complete` is those (`marker \ retaken`). `CutShortInv` is the argument for the stop scripts:
`.stop_run` or `.stop_subrun` is touched before `.stop_vmm`, only the
orchestrator removes them and only after it has read them, so a capture ended by
`.stop_vmm` is always read as stopped. Each action that moves a message has a
lemma of its own; the others are cases of `OrchestratorStep`, `ServerStep` and
`OthersStep`.

`SessionLockProofs` proves, for any keepers and any number of chunks
(`SessionLockAssumption` only), `LockInvariance`: `Spec => []IInv`, and from it
`StopLeavesNothing`, `OneChildAtATime` and `HandOverIsKept`. None of the three is
inductive: `ChildInv` says at which places of user and thread a child may be alive,
`ProcInv` that `_proc` is the last child whenever `stop()` may look at it, `LeftInv`
that a lock that was handed over is known to no keeper any more.

The other proof modules follow one plan: the inductive invariant in named parts,
first checked by TLC as an invariant of the component's run; a lemma per action
(or group of actions) with a step per part; the invariance theorem; the
properties from it. Each theorem needs the module's own assumption on its
constants and nothing else, but where it is said below.

| Module | Theorems | What the invariant adds, and why it is needed |
|---|---|---|
| `SlowControlProofs` | `SlowInvariance`, `SlowTypeCorrect`, `CapturedAtVoltage`, `CapturedMonitored`, `PoweredOffCompletely` | `ConnInv`, `RequestInv`, `ReplyInv`, `ServerInv`: a request that is waited for is the one of the orchestrator's step, also when an earlier client left one behind. `SettingInv`: what `set_hvs` has no longer to do is set; `VoltageInv` carries that from the answer to the capture; `MonitorInv`: the shared stop event is down from the answer to Begin Monitoring on |
| `BackupSpaceProofs` | `BackupInvariance`, `HeldSomewhere`, `DeletesWhatIsSafe` | `PartInv`: EOS has nothing of a sub-run under way that the disk lacks; `VerifiedInv`, `GuardedInv`: what a delete found out about a run stays true until the removal, unless a part crosses it or the run is joined |
| `SequencersProofs` (`BeamSite`) | `SequencersInvariance`, `ScanRunIsItsConfig`, `ScanLeavesCrateOff`, `NumbersAreFresh` | `OneRunInv`: the Dream run is on as long as a run is waited for or there, which lets no other start; `FlagInv`: `no_auto_recovery` keeps the guard out of a scan it did not cross; `AppliedInv`, `ScanRunInv` follow the configuration from apply to run, `HoldInv`, `LastInv`, `CompleteInv` the hold of the crate to the end of the last run; `FreshInv`: the json of a start that is typed holds a number that is free, or one with something left to resume |
| `ChipConfigProofs` | `ChipConfigInvariance`, `ArmedTellsTheTruth`, `ResetArmsOneRun` | all of it under `Calm`, the condition of the two properties (no overlap, no failed write, no restart in between): `WriterInv`: the buffer of the one writer is the file; `SinceInv`: a start has still to use the reset up, or has; `OutcomeInv`: what is about to be recorded is later than what is on record, and true |
| `ServicesProofs`, Watchers | `WatchersInvariance`, `StoresAreWhole`, `DecodesAreBounded`, `OneIsPlotted` | `OrderInv`: files are there up to the newest; `WholeInv`: what was taken is closed and was read whole; `LaunchInv`: launches against failures, the memory breaker and restarts |
| `ServicesProofs`, Alerts | `AlertsInvariance`, `WhatLastsIsTold` | `ToldInv`: what is remembered as sent was delivered; `DarkInv`: the samples since the last good one are at the end of the window |
| `ServicesProofs`, Settings | `SettingsInvariance`, `InForceIsSafe` | `DirInv`: only a campaign changes the directory; `RestartInv`: the services before the campaign's place are where the file says; `EntryInv`: the setup file at each step of an entry |
| `ServicesProofs`, BeamFeed | `BeamFeedInvariance`, `OldStateIsNotShown`, `CyclesAreRecorded` | `GapInv`: no cycle in the window is missing before the newest row, which is what a restarted watcher goes by; `BackfillInv`: a file that is rewritten is past; `StatesInv`: a state says no more than was so at its stamp; `BridgeInv`: what is owed is here or planned |
| `RemoteAndScanProofs`, RemoteHV | `RemoteHVInvariance`, `NeverOnAboveLimit`, `SetIsThere` | `LimitInv`: a channel above its limit is off and read as it is; `ReadInv`: a reading that nobody made old is true; `LateInv`, `DreamInv`: what Dream's readback was of |
| `RemoteAndScanProofs`, AdaptiveScan | `ScanInvariance`, `LongRunsOnCleanProbes`, `HeldWhereMeasured` | `MeasuredInv`, `DoneInv`: a point that is done was measured, with no mask it does not have now; `FallbackInv`: the offset a chip is held at is one of those |

What the proofs found. Off the beam `FreshNumber` and `ScanTakesItsConfig` are
false, so `SequencersProofs` assumes `BeamSite`. `SafeDelete` rests on a restore that
brings a `.subrun_complete` only where the sub-run was taken to its end (`Marker`):
the guards believe the marker. A backfilled file that is longer ago than the poll
window, were the window longer than a file, could carry the newest row over cycles
that were never logged: hence `LOOKBACK_S <= FileLen`. None of the assumptions
excludes a value the code or its sites use.

Two facts about numbers are proved by well-founded induction from the library's
`WFMin`: a set of naturals has a least element, one that is bounded a greatest. No
other proof needs induction over data.

Only model-checked: what is under fairness (`StopEndsRun`, `CaptureEnds`, `RunEnds`,
`ServersReturn`, `TakesOver`, `ShownOrSetAside`, `BackedUp`, `DeadRunStopped`,
`CrateReleased`), because liveness and ENABLED are beyond the prover; a run with
Ctrl-C; and the counterexamples of `stale_config` and section 13.

## 15. Not modelled

* Analysis and plotting of finished files: numerical, no protocol.
* Logbooks and read-only pages: pure input and output.
* The static part of the run configuration (detector tables, cable maps), and the
  generator's formatting of it.
* Length-prefixed framing of `Server.py` and `Client.py`, serial framing of the HV
  modules, HTTP: a message arrives whole or its connection ends.
* A server that hangs with its socket open: no `receive` has a timeout, so the run
  hangs with it, and no property claims otherwise.
* CPU placement of the processor's jobs, disk usage, Kerberos tickets (a copy or a
  query that fails stands for them).
