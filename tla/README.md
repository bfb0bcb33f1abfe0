# SpectralSweep: a TLA+ verification of the instrument core

SpectralSweep is a PySide6 application that drives a magneto-optics laboratory: a cryostat magnet
(attoDRY2100, or attoDRY1000 with an APS100 supply), spectrometers (LightField, WinSpec, Andor),
source meters, stages, flip mounts and power meters. Its hard part is not the screens but the code
between them and the hardware: threads that own a vendor SDK, requests with watchdogs, queued Qt
signals, event handlers of a foreign program, retries, and files that survive a crash. This directory
models that part. `PROJECT.json` ties every definition to the lines it models.

## 1. The system's parts

| part | state it keeps | operations | what is hard | what makes it correct |
|---|---|---|---|---|
| attoDRY2100 controller (`controllers/attodry2100_controller.py`) | request registry, mailbox (one Stop slot, one Shutdown slot, a FIFO), cached state, generation, lifecycle flags, three events, display slots and caches; the owner thread's adapter, armed target, `field_may_be_active` | submit, stop, retry, detach, prepare, cancel, shutdown, display reads, watchdog timeouts, `_execute` of every command, queued terminal signals | four kinds of threads (callers, owner, timers, GUI), two locks and a lock per request, timeouts that race a late answer, cached state that lags | an energised field always has an owner; Stop wins over what was queued; detach and Stop are serialized; no request is lost |
| attoDRY2100 adapter (`app/devices/attodry2100_adapter.py`) | the SDK device, its identity | connect, close, read, preflight, setpoint, start, stop, prepare Driven mode, ramp tables, temperature | a call that raises may still have reached the magnet; events read between SDK calls | no mutation after the last look at the stop event; mode request at most once |
| magnet preparation (`app/engine/magnet_preparation.py`) | stop event, `_cancel_lock`, `field_command_issued`, the handle it waits for | preflight, Driven mode, setpoint, start, poll; `request_cancel` from the GUI; clean-up Stop | a cancellation against a submission, waits that run out on a request that goes on | nothing is submitted after a cancellation; a field command is followed by success or by a Stop |
| MCD2100 worker (`app/engine/mcd2100_worker.py`) | legs, `_magnet_command_issued`, `_stop_handle`, outcome, metadata | preparation, a sweep of field legs with spectra, one `finally` clause for every end | acquisition, magnet and cancellation interleave over minutes; two threads ask for one Stop | every run ends stopped, or detached and verified, or says what it leaves |
| LightField capture guard (`app/lightfield_capture_guard.py`) | one operation at a time, phases, deadlines, a quarantine latch | begin, metadata spans, SDK event callback, deadline expiry, retire, dispose | a stalled SDK call that returns late, event handlers after a timeout | no late callback touches a new operation; a quarantined session is not reused |
| LightField controller and adapters (`controllers/lf6_controller.py`, `lf6_automation.py`, `app/devices/lf6_adapter.py`) | automation session, acquisition flags, settings | open, acquire, abort, save, close | COM/.NET events, foreign window | one acquisition at a time |
| process watchdog (`app/process_watchdog.py`) | a JSON status file written by two processes | write running / crash / normal exit, poll, alert with retries | two writers of one file, partial writes, crash between writes | a normal exit is never reported as a crash; a crash is reported |
| metadata (`app/experiment_metadata.py`, `metadata_storage.py`, `experiment_integration.py`) | experiment record, sidecar files | begin, event, finish, atomic save | a crash between two writes | the record on disk is always a complete one |
| attoDRY1000 / APS100 (`controllers/magnet_controller.py`, `app/devices/aps100_attodry1000_adapter.py`, `aps100_field_policy.py`) | heater and persistent switch, field of the coil, current of the leads, sweep; queued slots, stop event, `_persistent_off_since` | move to a field (driven or persistent), enter driven, enter persistent, zero the leads, pause, reconnect | a long sequence that may be interrupted after every exchange, and is taken up again by a program that knows nothing of it | the switch opens and closes only on matched leads; the leads move only past a cold switch |
| ESP32 imaging stage (`controllers/esp32_stage_controller.py`, `firmware/esp32_stage`) | mailbox of one command, generation, stop event, pending command, handshake; the firmware's count, motion and silence | zero, scale, jog, move, stop, connect, poll, timeouts; the firmware's `execute` and `loop` | an open-loop count, a line that loses and delays, a stop against a write | the position is trusted only when it was set after the last stop; no motion goes on unknown |
| Newport and other stages, rotation (`stage_controller.py`, `rotation_controller.py`, `app/devices/motion_verification.py`, `esp300_shared.py`) | position, busy flags, a shared session with reference counts | move, home, stop, verify, release | stale position while moving, two users of one controller | a move is reported done only when verified |
| source meters (`controllers/smu_controller.py`, `app/devices/iv_adapter.py`) | outputs, compliance, ramp | set, ramp, sweep, emergency off | abort during a ramp | outputs end at zero |
| WinSpec / PVCAM camera server (`tools/winspec`, `app/devices/winspec_adapter.py`) | a socket protocol, camera ownership, temperature guard | acquire, abort, lease, shutdown | client lost during exposure | the camera is closed exactly once |
| WinUSB persistence and retention (`app/devices/winusb_*.py`) | journals of driver bindings, retained logs | install, verify, rotate | interrupted installation | retention never removes evidence in use |
| updates (`app/update_download.py`, `update_service.py`, `update_install.py`) | partial download, checksum, state | check, download, verify, install | interruption | only a verified file is installed |
| sequence models (`app/dual_gate_sequence_model.py`, `motion_sequence_model.py`, `utils/`) | pure data | build and number steps | boundaries | covers each point once |
| screens (`ui/`), plots, calibration fits, vendored SDKs (`CRYO2100/`, `TLPMX.py`), firmware, packaging | widgets, files | | | not modelled |

The controller of the attoDRY2100 comes first: it is the part whose errors cost most (a
superconducting magnet left energised) and whose interleavings tests reach least.

## 2. How the controller works, and how it is modelled

```
 client threads --submit--> mailbox --pop--> owner QThread --SDK--> magnet
      |  ^                     ^                 |
      |  '-- futures ---------.|  events         | queued signals
      v                        ||                v
   watchdog timers --cancel / drain / stop   controller object (GUI thread)
```

* `Atto2100Controller` is the protocol. Requests are numbered in creation order; `req[r]` is the
  `_Request` with its state, the answer its caller has got, whether the owner is done with it
  (`drained`), whether it is registered and where its watchdog is. `ordinary`, `stopSlot`, `shutSlot`
  are the mailbox. `cur`/`opc` say what the owner executes and where in `_execute` it is: `popped`,
  `sdk` (inside a vendor call), `verified` (DETACH between its verification and its commit),
  `locked` (PREPARE between taking the recovery lock and calling `setDrivenMode`), `polling` (PREPARE
  after it). `sig` is the queue of Qt signals to the controller's
  thread. `field`, `mode`, `session` are the magnet itself: what really happened, as opposed to what
  the program believes (`mayBeActive`, `recovery`, `cgen`).
  One action is one lock section or one SDK call. `_submit_ordinary` holds the controller's lock from
  its admission test to the mailbox, so a plain submission is one action. A timeout is up to three:
  `_caller_timeout` marks the request, then sets the event, then asks for a Stop, and other threads run
  in between. Calls that check in one lock section and go on in another are split the same way:
  `set_h_setpoint_async`, `configure_sample_temperature_async`, `connect_async` and `disconnect_async`
  (`CheckStop`, `ConnectAsync`, `DisconnectAsync`, then `SubmitPast`), `retry_stop` (`RetryStop`, then
  any caller's `RequestStop`), and `request_shutdown` (`RequestShutdown` checks, `ShutdownRaisesStop`,
  `ShutdownSweeps`, and `ShutdownSubmits`, which does not check again). The callers in between are in
  `past`, a set of the steps they take next: a caller that goes on may leave another at the same place
  (`Leave`), so a set stands for any number of them.
* `FieldCustody` is the abstract specification: who may energise the field, who must switch it off,
  what is forbidden during a mode change. It knows no threads, requests or signals.
* `Atto2100Properties` states the properties and the refinement (`connected <- adapter`,
  `locked <- recovery`).
* `MCAtto2100Controller` instantiates it for TLC. Most runs start connected, so that their few calls
  are spent on what follows; those states are reachable from `Init`.
* `Atto2100ControllerProofs` (types, custody of the field, refinement) and `Atto2100RequestProofs`
  (requests, Stop, display cache) hold the proofs.

Bounds of the controller's runs. `MaxCalls` is the number of requests callers may make; every one of
them may time out, and a timed-out mutation makes a Stop of its own, so `Req` has twice as many
numbers. A caller in `past` has its request set aside (`CallerMayCall`). Two calls of every kind from every connected state (`pairs`) contain every race of two
requests with their watchdogs, the owner and the queued signals; the properties that need a history
(Stop, then a new mutation, then the old one) run with three calls of the commands concerned
(`field`). Starting connected saves the two calls every history begins with.

### The locks: `Atto2100Locks`

`Atto2100Controller` takes it for granted that lock sections are atomic and end. `Atto2100Locks` does
not. A thread is the sequence of steps it still has to do (`todo`). A step says what it does, which lock
it takes for that, what it speaks of, and the locks it is done in (`in`); a thread holds the locks its
next step is done in, so no variable for held locks is needed, and a lock is left when the next step is
outside of it. A step of the program is one definition: `Take` and `SetState` are `get_state` and
`set_state`, `Drained` the callback of `drained_future`, `CancelRequest`, `Forget`, `Scan`,
`CancelQueued`, `Finish` the sections of the same names. Sequences of them are `_caller_timeout`,
`_submit_ordinary`, `request_stop`, `request_shutdown`, `cancel_magnet_preparation`, `has_pending_work`,
`pending_work_snapshot`, `_request_terminal` and `drain`. A step that has to look first (an admission,
the middle of `request_stop`, a discarded request, a timeout) replaces what follows by what it decided;
a loop over requests is one step (`look`, `cancel`) that takes the lock of the first request left and
puts itself back for the others. Each request has a lock and a watchdog thread. Whoever waits for a
result with a timeout of its own runs `_caller_timeout` as well (`OperationHandle.result`), so callers
are in it too. What a section computes is left to the controller model: a scan looks at every registered
request, an admission may go either way, the mailbox has no order. The controller's and the mailbox's
lock are re-entrant as in the code; `_preparation_submit_lock`, which is only ever taken first, is left
out.

Three requests and two calls of one client contain a scan that meets another request's timeout, a Stop
that cancels what a watchdog is timing, and the owner between them; the deadlock needs two requests.
`Atto2100LocksProofs` proves its properties for any number of requests, calls and clients.

### The capture guard: `CaptureGuard`

`cur`, `active`, `recovery` and `op` are `_current`, `_active`, `_recovery_required` and the
`CaptureOperation`. `scopes` are the owner's open `with` blocks: operations (`operation`), the reader
of `managed_capture_dataset`, the `capture` of `capture_with_metadata`, and metadata spans that check
(`strict`) or persist a failure (`lenient`). `raw` says which block owns a dataset of the camera,
`mode` whether an exception unwinds the blocks, `todo` what the owner does after it has released the
guard's lock. Each action is one section of that lock or one SDK call; `watch` is the monitor thread
of each operation, which looks under the lock and sleeps on `_wake`. `op.sdk` and `op.meta` are no
part of the code: they count the instants really spent in each domain, so that the properties compare
the guard's arithmetic with what happened.

`prompt` is chosen once: when it holds, a due monitor runs before the clock moves. Only
`PromptlyNoticed` uses it; every other property holds with monitors that are arbitrarily late.

Budgets of one and two instants around a metadata allowance of two let either domain run out first and
`set_frames` move the deadline both ways; three open scopes hold a capture in a reader with a span in
it, or two nested spans; two operations show what an incident of the first does to the second and to
its old monitor; three instants suffice to exceed each budget.

Left out: calls of threads that do not own the operation, which are refused before they change
anything; the writing of diagnostics; a failure of `Thread.start`; the race of `check_close` with a
new operation, which the LightField controller's own lock excludes.

### The process watchdog: `ProcessWatchdog`

Three actors share one file: the application's main thread (`app`), its writer thread (`writer`, with
the queue of one heartbeat and `_write_lock`) and the child process (`child`, with the state of
`WatchdogMonitor`). A write, a delete, a notification and the child's termination may each fail; the
process may die at every step; its process id may be used again. The child's step is split where the
outside world can move: it reads the file, asks whether the process lives, and reads the file again.
`healthy` is chosen once and restricts the clock only: in a healthy application every period has its
heartbeat, writer and child keep up, and writes succeed. Only `HealthyIsQuiet` uses it. The session may
have its url from the start or get it later (`Enable`): then the queue holds a heartbeat from before
the file existed, the writer writes it over the fresher one of `start()`, and the beat that meets it in
the queue can be lost (`Replace`). A healthy application is therefore up to three periods behind, and
`HealthyIsQuiet` fails for a limit of two; the code's limit is six (30 s against 5 s), the assumption
`StaleIsLong` asks for three and the run takes exactly three. Six instants are enough for a heartbeat
that is fresh, at the limit, and late, after an early and after a late subscription.

### The magnet's clients: `Mcd2100Run`

One use of the attoDRY2100 by a worker thread: `kind` is `MagnetPreparationWorker` ("prepare") or the
continuous `MCD2100Worker` ("sweep"), which prepares the magnet and then ramps it leg by leg. `pc` is
the worker's place in `prepare`, `_set_and_start`, `_wait_gate`, the ramp or the `finally` clause of
`run`; `exc`, `status`, `issued`, `handle`, `stopEvent` are `failure_exception`, `outcome`,
`_magnet_command_issued`, `_stop_handle` and the stop event. `gpc` is the GUI thread in
`request_cancel`, one action for each attribute it reads: `_magnet_preparation` twice,
`_magnet_command_issued` (`LookIssued`), `_stop_handle` (`LookHandle`). `lock` is `_cancel_lock`, held over check, mark and submission
of each mutation. The controller is what the worker sees of it: one ordinary request, Stops, and its
rules on which excludes which (`Submit`, `SubmitSetpoint`, `SubmitDetach`, `RequestStop`,
`Owner...`); `Atto2100Controller` is where these are modelled in full. The end of a run reads one thing
at a time: `Verdict` looks at `stop_event` (:1643), `VerdictHandle` at `_stop_handle` (:1644), and `Report`
writes what follows, with the GUI thread between them. Every call may be refused, fail,
or run out of time while the request goes on; telemetry is what it decides, so every gate, poll and
ramp may pass, wait or raise.

Bounds. Two legs are one whose start is elsewhere and one that begins where the first ended; two
cancellations are a first and one that meets the Stop of the first. Left out: the sample temperature,
electrical gates and optics of a sweep, one step here (`Ready`, `Optical`) that may fail or notice a
cancellation, and the older `DiscreteMCD2100Worker`.

### The imaging stage: `Esp32Stage`

Three threads of control: the GUI (`Post` and `Put` around the unlocked check of `_post`, `Press` for
`request_stop`), the worker (`wpc` in `_tick`, `_handle_state`, `_transmit_stop`, `_service_mailbox`)
and the firmware (`Execute`, `Arrive`, `Quiet`, `ContactLost`, `Reset`). `up` and `down` are the two
directions of the line; each line may be lost, a garbled byte stops the motor. A command carries its
generation and its number; the number stands for the count its motion must end at (`Target`). The one
count that is not a command's own is zero: `home`, `goto 0` and moves back to zero must end there, and it
is also what a board reports that has just started (`main.cpp:141`). All of them are the kind `home`.
`Elsewhere` is the count while a motion is under way and after one was stopped. `homeGen` (the
generation in which the zero was set) and `finished` are no part of the code: they say what is true of
the stage, so that the properties compare it with what the controller trusts. A move or goto
needs a referenced stage (`move`); a scale change is the firmware command that forgets the zero. `state`
keeps what decisions rest on, so neither the message nor the count of the last frame, which are shown.

`request_stop` is one step (`Stop`), although the worker reads some of what it assigns without the mailbox
lock. `stop_event` is set before any of that, so a worker in the middle of a frame finishes the step it is
in and takes the stop branch next. Where the assignments of the two threads mix (`_last_valid`,
`_await_unhomed_handshake`), that branch leaves what one of the two orders would, or less trust. Where the worker
reads and acts in several steps (`Gate`, `Trust`, `Show`; `Recover`, `ClearEvent`, `ClearRest`; `Write`,
`Note`), a stop may come between any two of them.

`Prompt` says that the line is faster than the silences (350 ms at the host, and as long at the board):
what was under way when a stop was pressed has arrived when the silence ends. The run assumes it. TLC
finds `ZeroIsNew` violated without it: a frame sent before the stop that says "not homed" and is still
under way passes the handshake that was made to keep old frames out
(`controllers/esp32_stage_controller.py:428`), and a later old frame that says "homed" is trusted. The
connect path needs the assumption too, since it does not flush after its silence: a frame that has been
read and not yet judged when the silence ends is of before it, and the proof of `NoMotionBehindTrust`
failed until `Prompt` covered that frame as well (`CoolEnds`). At 115200 baud a
status takes some ten milliseconds, so the assumption is the code's.

Bounds. One command, one stop, one connection and one fault of the line or restart of the board, two
lines each way, from two kinds of initial state: not connected, with the firmware in any state an earlier
session left, and in a session whose zero has been set and left (`InSession`), so that the one command may
be a home. Larger instances have been explored without a violation: two commands; two connections; and,
for the safety properties, three commands, and two stops with a fault. Left out: travel limits, settings
(`setmax`, frequency, direction) and the arithmetic of steps.

### The persistent magnet: `Aps100Magnet`

The attoDRY1000's coil is closed by a superconducting switch: with the heater on the coil follows the
leads, with the heater off it keeps its field and the leads are free. `coil`, `out` (the leads), `sw`,
`heater`, `goal`, `sweep` are the device; `sweep` is FAST, SLOW or off, `halt` a pause that has been
ordered and not carried out. `pc` is the worker's place in `safe_move_to_field`,
`_enter_driven_mode`, `enter_persistent_mode`, `_ramp_persistent_leads`, `zero_output`, `wait_for_field`
or `pause`; `seen` is `_persistent_off_since`, which is forgotten by a reconnect. The GUI queues
operations as Qt slots and presses Stop, which sets the event at once and queues a pause
(`MagnetController.pause`). Fields are a few levels, of which only the lower may stay driven.

`Glitch` is any exchange that fails, any reading out of bounds and any timeout, of which there are as many
as `Troubles` allows; a wait for a sweep that takes too long orders a pause (:675, :746, :864), a move that
fails before it has begun does not (`magnet_controller.py:206`), and a pause that fails in `close` is not
told (:1165). `Crash` is the end of the program while the supply goes on. The next operation starts from whatever they left. Waiting is a guard:
`heater_warm_s` and `heater_cool_s` are taken to be as long as the switch needs. The voltage over the
coil and the front panel are left out, but for the checks on them that may fail.

Bounds. Three operations are one that is interrupted, one that takes up what is left, and one that
depends on the result; two levels above zero, the lower of them driven, distinguish a move within the
driven limit from one beyond it; one stop and one trouble meet every step. `Init` is every state of the
supply an earlier session may have left. Left out: single readings and settings, shutdown of the
program, and the older MCD worker's direct use of the adapter.

## 3. What the runs check

| run | instance | what it shows |
|---|---|---|
| `Atto2100_pairs` | any 2 calls, from idle, armed and active | the controller implements `FieldCustody`; Stop, detach, preparation and setpoints exclude each other as the code promises, and only a Shutdown that had passed its checks joins a ramp read; no registered request is pending and forgotten; the recovery lock is taken before the mode change reaches the magnet; the display cache is of this connection once every disconnect, shutdown and detach has been applied |
| `Atto2100_field` | 3 calls of setpoint, start, Stop, temperature | a field always has an owner who knows it; a successful Stop holds for as long as it and its connection stand |
| `Atto2100_live` | 2 calls of start, read, Stop, shutdown, fair | requests drain; a start that timed out drains and is followed by a field that is off, unless its Stop fails; callers are answered |
| `Atto2100_locks` | 3 requests, 2 calls, 1 client | every circular wait has a thread in it that has marked a request as timed out and wants the controller's lock inside that of the request; a request that was cancelled or has ended never changes again |
| `CaptureGuard` | see above | datasets, deadlines, blame, quarantine and the noticing of stalls |
| `ProcessWatchdog` | see above | no false crash, no false unresponsiveness, no resurrected file, every crash settled |
| `Mcd2100Run` | 2 legs, 2 cancellations, fair | failures and cancellations end with the field off or with a report that says otherwise; a field is left on only when no Stop was asked for before the look at the event; a success passes the field on; a cancellation that had the lock excludes submissions and ends the use |
| `Esp32Stage` | 1 command, stop, connection, fault, fair | no motion behind a ready controller, no trusted zero from before a stop, no completion that did not happen but for a motion to zero after a restart; a stop stops, a command is answered |
| `Aps100Magnet` | 3 operations, 1 stop, 1 trouble, fair | the heater is switched on matched leads only, leads move past a cold switch only, moves finish as asked, stops settle |

Type invariants that are proved for every instance (section 5) are not repeated as properties of the
runs, and neither are two properties that are theorems only: `ModeRecovery` of the controller and
`GivesUpAfterThree` of the process watchdog.

Three runs state what the repository says of itself and what the code does not do. Each refutes one
property:

* `Atto2100_slow_stop`: a Stop that succeeds after its watchdog fired keeps the state of a timeout, and
  every later setpoint is refused for a Stop that did not complete.
* `Atto2100_deadlock`: `_caller_timeout` takes the controller's lock inside a request's, scans of the
  registry take them the other way round. `pending_work_snapshot` avoids it, the others do not. Watchdogs
  are not the only way in: a caller of `OperationHandle.result(timeout)` whose wait runs out runs the same
  code in its own thread, which the attempt to prove the first form of `OnlyTimeoutsClose` brought out.
* `Aps100Magnet_warm_up`: the warm-up of the switch belongs to the operation that turned the heater on.
  When that operation ends early, by an error in the warm-up or by the end of the program, the next move
  finds the heater on and sweeps at once (`aps100_attodry1000_adapter.py:1078`), where
  `_enter_driven_mode` promises to wait for the warm-up (`:917`) and even lets a stop wait for it
  (`:959`). A fresh connection does wait for the *cooling* of a switch it finds off.

Observed while modelling, and stated by no run:

* `attodry2100_controller.py:905` says that a disconnected transport must never reuse cached display
  data. The generation is advanced by a queued signal, and a connect from another thread can be admitted
  before it. The same goes for the end of a detach, which waits for its thread. The proof attempt found
  the case, seven calls deep: CONNECT, DISPLAY, SETPOINT, START; a second CONNECT that is refused, whose
  end publishes DISCONNECTED while the magnet is connected; DETACH; a CONNECT that is admitted while the
  detach waits for its thread, and the next display is served the answer of the old connection. A
  shutdown does it too: a CONNECT that is admitted between its sweep and its submission can reconnect
  before its end is applied. What holds is `DisplayFreshOnceApplied`: once the ends of disconnects,
  shutdowns and detaches have been applied.
* `request_shutdown` checks under the lock (`:1637`), sets the event and empties the mailbox without it,
  and submits under it again without checking (`:1669`). A ramp read that is admitted in between is
  pending together with the SHUTDOWN, which waits behind it for the minutes the read takes; the checks
  were meant to refuse exactly that. What holds is `RampExclusive`: nothing else can.
* `set_h_setpoint_async` and `configure_sample_temperature_async` let go of the lock between their look at
  the Stop and their submission (`:1426`, `:1406`). A caller in between is not stopped by a Stop that is
  asked for and succeeds there if a disconnect and a connect follow, because connecting clears the stop
  event the preflights look at; a START then energises the field while the old Stop is still on record,
  and the next `request_stop` returns that finished handle and stops nothing (`:1479`). The same with a
  Stop asked for while connecting. Within one connection nothing gets past a Stop (`StopHolds`).
* `mcd2100_worker.py` looks at `stop_event` at `:1643` and writes its report from `:1654` on. A cancellation
  in between asks for a Stop, and the report says "field control left active" of a field that is being
  stopped. What holds is `LeftUnstopped`: no Stop was asked for before the look.
* `esp32_stage_controller.py:438` compares the count of a frame with the target of an acknowledged motion
  that has come to rest, and not its reference. A board that restarts under a home or another motion to
  zero reports zero, and the motion is taken for complete where the stage happened to stand. The same
  frame says that the stage is not homed, and that is shown (`CompletionReal`).
* `attodry2100_controller.py:1039` says that the stop event is published so that a stale start after the
  caller's timeout is prevented. The caller is answered first and the event is set later, outside the
  lock (`:1046`). What holds is `TimedOutStartStops`: such a start drains, and then the field is off unless its Stop fails.
* The watchdog of an old preparation checks that it is still the current one and cancels after it has let
  go of the lock (`:1055`); the next preparation can be in between and is cancelled.
* `mcd2100_worker.py:611` reads `_magnet_preparation` twice; when the worker sets it to None in between,
  `request_cancel` raises in the GUI thread. The worker stops the field nonetheless (`EndsStopped`).
* `magnet_controller.py:192` clears the stop event when a queued move begins, and with it a stop that was
  pressed while the move was waiting. The move runs to its end; the pause behind it acts when it is over
  (`PauseSettles`, which allows that), not at the next checkpoint as `ui/mcd_panel.py:2817` tells the user.
* The stage's status frames: see `Prompt` above.

A run of the process that may stop is no deadlock: callers use up their calls, an owner ends, a process
dies. So deadlock checking is off in every run but `Mcd2100Run`, where a use that has ended stutters
(`Ended`) and every other state without a successor would be an error. Circular waiting, which is what a
deadlock means in the controller, is stated as a property of its own in `Atto2100Locks`.

Mutants. `PROJECT.json` names for every property a definition and a slip in it that breaks the
property. Operators marked `mutant` in the modules are these slips; no specification uses them.

## 4. Fairness

* Controller: weak fairness of the owner thread (SDK calls end, their sockets have timeouts), of the
  Qt event loop, of the end of the thread, and of each watchdog timer. Callers are never obliged to
  call anything.
* Capture guard: weak fairness of the monitors only. They are daemon threads that wait for nothing but
  the guard's lock, which is held for bookkeeping. The owner may hang in the SDK for ever; that is
  what `StallNoticed` is about.
* Process watchdog: weak fairness of the child, which sleeps between steps and whose sender has a
  time-out. Application and writer may stop at any point.
* `Mcd2100Run`: weak fairness of the worker, of the controller's owner and of the GUI thread within a
  `request_cancel`; nobody must cancel. Polls, gates and ramps may go on for ever in a use that is not
  cancelled, so `CancelEnds` rests on their looking at the stop event.
* `Esp32Stage`: weak fairness of the worker (its timer ticks every 50 ms), of the board's reading of its
  input, of the end of a silence, and of the board's two-second watchdog while no host is connected.
  Strong fairness of taking a frame that is under way: it comes in before the worker has looked for it
  without end. Strong fairness of two timers of the worker, the missing acknowledgement and the connection on which
  no frame is accepted: each time the worker passes them they may not have run out yet, but a condition
  that stays is met in the end. A motion need not end.
* `Aps100Magnet`: weak fairness of the worker, whose loops poll and whose exchanges have timeouts, and of
  the supply: an ordered sweep moves, a pause is carried out, a switch warms and cools. Users are obliged
  to nothing.

## 5. What is proved

TLC shows a property for a small instance, the theorems below for all values of the constants. The only
assumptions are the named ones of the modules (bounds are natural numbers, budgets are positive, a
heartbeat is late after three periods at the earliest, and the callers' commands are commands).

* `Atto2100ControllerProofs!TypeCorrect`: the type invariant, one lemma per action.
* `Atto2100ControllerProofs!FieldAlwaysOwned`, `RecoveryCoversModeChange` and
  `ControllerImplementsCustody`. Neither safety property is inductive: that a Stop found the field its
  own depends on what the owner checked before it entered the SDK. `Custodial` adds to them the types,
  `Known` (what waits or executes has been created: a new request cannot change the command that is
  executed) and `Executing` (for each command inside the SDK, what was checked before it went in). The
  argument is a case split: steps of callers, watchdogs and the GUI thread are `Quiet`, they leave alone
  what `Custodial` speaks of; the owner's steps are taken one by one, each also mapped to an action of
  `FieldCustody` or to a stutter.
* `Atto2100RequestProofs`: `NoneForgotten`, `PreparationAlwaysExclusive`, `RampAlwaysExclusive`,
  `StopAlwaysHolds`, `HandOverNeverUndoesStop` and `DisplayAlwaysFreshOnceApplied`, for any number of
  calls. `Housed` says where every request is: waiting, with the owner, set aside by a detach, or
  announced. The actions fall into few kinds, each an abstraction of what many handlers do to the
  requests: `Mail` (something may leave the FIFO and at most one request comes in), `Pop`, `Labours` and
  `Finishes` (the owner), `Commits` (a detach) and `Settles` (the GUI thread). Each action is shown to be
  of its kind (`Kinds`), each kind to keep `Housed`. The exclusions follow because `Admissible` is what
  a request was admitted on and nothing but an admission makes a request pending; a SHUTDOWN is the
  exception, as it is submitted unchecked. `Stopping` adds to
  `StopHolds` what a Stop leaves behind: its event stays raised for as long as its handle and its
  connection stand (`StopStands`), and for as long as a detach reserved before it waits or is verified
  (`StopNotUndone`). `Serves` says of the cache, and of an answer not yet fetched,
  that it is of this connection or that what will clear it is still to come: the end of a disconnect
  or of the shutdown in the queue, or a detach set aside. It needs `EndsOnce`, that an owner thread ends once.
* `Atto2100LocksProofs`: `OneDecides`, `OnlyTimeoutsAlwaysClose` and
  `FinalAlwaysFinal`, from the invariant `Locked`. What must hold of a thread must hold of everything it
  still has to do, so the invariant is a statement about programs, in two parts. `Leads(K, p, L)` is a
  Hoare triple: called with the locks `K`, `p` may go on with `L`; each of its steps is `Proper`, that is,
  takes and is done in the locks its kind allows. `Duty(p, R)` says that `p` decides on requests of `R`
  only, and on each once (running it comes before ending it). Both compose along `\o` (`SafeThen`,
  `SafeRun`), hold of every program of the module, and of what every action makes of one (`Goes`). The
  locks are in the order controller, mailbox, diagnostics, request, with one exception: a thread that is
  in a request's lock has marked it as timed out and wants the controller's (`Marked`). Without such a
  thread the last lock anybody in a circle holds is wanted by nobody who holds a later one (`Upward`), and
  there is no circle. `OneDecides`, that a request is in the mailbox or in the hands of one thread, is why `set_state`
  need not look at the state it replaces.
* `CaptureGuardProofs`: `TypeCorrect`, `DataAlwaysOwned`, `DeadlinesWatched`, `EndsWithinBudget`,
  `BlameAlwaysRight` and `QuarantineAlwaysLatched`. The invariant `Guarded` has a part per idea: `Stack` (metadata spans lie inside captures, the operation
  counts both), `Data` (where a dataset can be), `Pending` (a late departure follows an incident),
  `Clock` (the deadlines agree with the time really spent in each domain), `Vigil` (the monitor of an
  operation in good standing is about to look or wakes in time) and `PromptlyNoticed`. `Clock` is what
  the arithmetic of `_end_metadata` is for, `Vigil` what every `_wake.set()` is for. The two action
  properties follow from `Guarded`: `Blame` shows of every place that notices a deadline which domain it
  names, and every later step keeps a latched incident.
* `ProcessWatchdogProofs`: `TypeCorrect`, `CrashesAreReal`, `HealthyNeverBlamed`, `NeverRevived` and
  `NeverGivesUpEarly`, for every limit of three periods or more. The invariant `Watching` says in which
  order main thread and writer hold the lock (`Threads`), what the child may conclude from its two
  readings (`Crash`), that every attempt but the one under way has failed (`Tally`), and, for a healthy
  application, how old the file can be by where the heartbeats after it are: in the queue, with the
  writer, dropped by a closed session (`Unwatched`, `Fresh`, `Age`).
* `Mcd2100RunProofs`: `TypeCorrect`, `CancellationExcludesSubmission`, `SilentEndsAreStopped`,
  `CompletedPassesFieldOn`, `StartsBeforeStops` and `LeftFieldsAreUnstopped`, for any number of legs and
  cancellations. The invariant `IInv` says where each kind of worker can be (`Whereabouts`), who holds the
  preparation's lock (`LockInv`), how the controller orders Stops and field commands (`OrderInv`,
  `ServiceInv`: a Stop that has succeeded left the field off, and a START behind a Stop is not allowed),
  that a detach is the last command (`DetachInv`), that every field command is noted before it is
  submitted and the note outlives the hand-over from preparation to sweep (`NoteInv`), and what the three
  kinds of end know (`StoppedInv`, `SuccessInv`, `EndpointInv`). `NoteInv` is why the `finally` clause
  cannot miss a command, `OrderInv` why the Stop it waits for is enough. `LeftFieldsAreUnstopped` is about the moment of decision,
  the look at `stop_event`: a Stop of the run has raised it before, or came with a failure of its own.
* `Aps100MagnetProofs`: `HeaterAlwaysMatched`, `LeadsIsolated`, `MovesFinishAsAsked`, `AtMostOneLateSweep`
  and `TypeCorrect`, for any number of levels, operations, stops and failures. The invariant `IInv` has
  to hold in the middle of every sequence and after every interruption of it: `PlacesOK` and
  `OperationInv` say which operation can be where, `NotesInv` what the program knows of the cooling
  (`seen` is "fresh" only when the switch has not been heated since, so that waiting for it is enough),
  `HeaterInv` what holds between the pause before the heater is switched and the switching (leads at
  rest, no sweep left to carry on), `RestInv` and `ZeroInv` that the supply is at rest where a move is
  compared with what was asked for, `LateInv` who may still order a sweep. `LeadsMoveIsolated` is a part
  of it: a sweep that was safe when it was ordered must stay safe while heater and switch change.
* `Esp32StageProofs`: `TypeCorrect` on any line, `CompletionAlwaysReal`, `NoMotionEverBehindTrust` and
  `ZeroAlwaysNew` under `Prompt`, for any number of commands, stops, connections, faults and lines under
  way. `Sound` holds without `Prompt`: types, generations, and `Counted`, that a count other than zero that
  some motion must end at is shown only when one ended there. That is all `CompletionReal` needs of motions
  that do not lead to zero. `Trusted` follows a stop. `Control` says what the worker's place tells about
  the stop, `Owned` of which generation the command in each of its hands is. While it waits for the
  firmware to be seen at rest (`Blinded`), only status requests are on the line and a frame that shows the
  stage at rest is true, so that the first one that is accepted may be trusted. While it trusts,
  references are of this generation (`Zeroed`) and the one current command waits in the line before any
  answer to it (`Waiting`), moves the stage (`Moving`) or is over (`Over`); a final answer is then never
  followed by one that the worker could take for the next command's. For a motion to zero that has not
  ended, `Homing` says of every frame after the acknowledgement that it shows the stage moving or without
  its reference, and `Overtaken` that a command noted behind a stop never passes for acknowledged.

Only model-checked: liveness and everything that rests on ENABLED (`RequestsDrain`,
`TimedOutStartStops`, `CallersAnswered`, `StallNoticed`, `CrashSettled`, `CancelEnds`, `StopStops`,
`Answered`, `PauseSettles`). Every other property of the passing runs is the subject of a theorem. Out of
the prover's reach altogether are liveness, ENABLED, induction over data and recursive operators; the
modules declare none of the last. The sequences of `Atto2100Locks` need no induction: what is said of
them is said of each of their positions.

## 6. Plan

Done, in this order: the controller with its abstract specification and proofs; the capture guard with
its proofs; the controller's locks; the process watchdog with its proofs; the magnet's clients with
their proofs; the imaging stage; the persistent magnet with its proofs; the controller's exclusions, its
Stop and its display cache, the guard's blame and quarantine, the imaging stage and the locks, proved.

Every safety and action property of the passing runs is now a theorem, the refinement of `FieldCustody`
included.

Modules worth writing next: `WinSpecExchange` (a frame, its receipt, the clean-up of the document, Stop
from another connection), `WinUsbRetention` (nothing is deleted that is not saved; a crash leaves what
can be finished), `MotionVerification`, `UpdateDownload` with the installer's hand-over, `CsvWriter`
(today a row after `close` would empty the file, `csv_writer.py:106`; no caller does it), and the encoding
of `metadata_storage.py` against its decoder. Of the controller, a step to make finer: the
display polling cycle.

## 7. What is not modelled

Screens, plots, calibration fits and vendored drivers: presentation, floating-point data and third-party
code. Device adapters that only translate calls (Andor, power meters, flip mounts): they have no
ordering of their own. Of the controller, the display polling cycle and the telemetry of the owner; of
the attoDRY2100 adapter, the preflight checks and the temperature configuration step by step. A caller
whose own wait for a result runs out is, in `Atto2100Controller`, the watchdog firing early; that both
run for one request is in `Atto2100Locks` only. Formats, log texts and diagnostics throughout.

By lines most of the repository is of this kind: exported notebooks in `docs/reference`, Qt panels of
thousands of lines each, the vendored `TLPMX.py`. The modules cover the controllers, engines and
adapters in which threads, devices and files meet; their share of all lines stays small for that reason.
