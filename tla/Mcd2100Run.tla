---------------------------- MODULE Mcd2100Run ----------------------------
(***************************************************************************)
(* One use of the attoDRY2100 magnet by a worker thread of the program:    *)
(* "prepare" is the standalone magnet preparation                          *)
(* (app/engine/magnet_preparation.py), "sweep" the continuous measurement  *)
(* (app/engine/mcd2100_worker.py), which prepares the magnet and then      *)
(* ramps it leg by leg.  The GUI thread may cancel it, more than once, at  *)
(* any moment; the controller's owner serves one request at a time and a   *)
(* Stop before anything else.  Telemetry is what it decides: good, bad,    *)
(* or raising.  The controller itself is modelled in Atto2100Controller;   *)
(* here it is the service the worker calls.                                *)
(***************************************************************************)
EXTENDS Integers, Sequences

CONSTANTS
  Legs,     \* field legs of a sweep; every second one starts where the first ended
  Cancels   \* bound on request_cancel calls

ASSUME LegsAssumption == Legs \in Nat \ {0}
ASSUME CancelsAssumption == Cancels \in Nat

VARIABLES
  kind,      \* which worker this is: "prepare", "sweep"
  pc,        \* the worker's next step
  exc,       \* failure_exception: "none", "cancelled", "failed", "endpoint"
  status,    \* outcome
  leg,       \* number of the present leg
  toStart,   \* _set_and_start moves to the start of the leg, not along it
  needsSet, needsStart,  \* what preparation found missing
  prep,      \* _magnet_preparation is not None
  prepIssued, issued,    \* field_command_issued, _magnet_command_issued
  optics,    \* _optics_entered
  cleanup,   \* cleanup_error is set
  report,    \* what the metadata says of the magnet: "unsaid", "none", "left", "stopped"
  handle,    \* the worker's _stop_handle: 0 none, Refused, or a Stop
  stopEvent, \* the worker's stop_event
  lock,      \* _cancel_lock of the preparation
  gpc, got, cancels,     \* request_cancel in the GUI thread
  ord,       \* the worker's last ordinary request
  stops,     \* states of the Stops of the controller
  cstop,     \* the controller's _stop_handle
  cEvent,    \* the controller's stop_event
  armed,     \* a verified target waits for START
  field,     \* "off", "on", "left" (handed over)
  reached,   \* some field command of this use reached the owner
  returned   \* a request_cancel of the preparation has had the lock

workVars == <<kind, exc, status, leg, toStart, needsSet, needsStart, prep,
              prepIssued, issued, optics, cleanup, report>>
guiVars  == <<gpc, got, cancels, returned>>
ctlVars  == <<ord, stops, cstop, cEvent, armed, field, reached>>
vars     == <<pc, workVars, handle, stopEvent, lock, guiVars, ctlVars>>

Refused == -1
Idle    == [cmd |-> "NONE", st |-> "done"]
Flying  == {"queued", "running"}

Init ==
  /\ kind \in {"prepare", "sweep"}
  /\ pc = "check" /\ exc = "none" /\ status = "running" /\ leg = 1
  /\ toStart = FALSE /\ needsSet = FALSE /\ needsStart = FALSE
  /\ prep = TRUE /\ prepIssued = FALSE /\ issued = FALSE /\ optics = FALSE
  /\ cleanup = FALSE /\ report = "unsaid" /\ handle = 0 /\ stopEvent = FALSE
  /\ lock = "free" /\ gpc = "idle" /\ got = 0 /\ cancels = 0 /\ returned = FALSE
  /\ ord = Idle /\ stops = <<>> /\ cstop = 0 /\ cEvent = FALSE /\ armed = FALSE
  /\ field \in {"off", "on"} /\ reached = FALSE

-----------------------------------------------------------------------------
(* The controller's side of a call. *)

(* An ordinary request is queued, or refused while other owner work drains.  *)
Submit(cmd) ==
  /\ \E st \in {"queued", "error"} : ord' = [cmd |-> cmd, st |-> st]
  /\ UNCHANGED <<stops, armed, field, reached>>

(* A new setpoint ends a Stop that has succeeded and is refused by any other. *)
SubmitSetpoint ==
  IF cstop # 0 /\ stops[cstop] # "ok"
  THEN ord' = [cmd |-> "SETPOINT", st |-> "error"]
       /\ UNCHANGED <<stops, cstop, cEvent, armed, field, reached>>
  ELSE Submit("SETPOINT") /\ cstop' = 0 /\ cEvent' = FALSE

SubmitOther(cmd) == Submit(cmd) /\ UNCHANGED <<cstop, cEvent>>

(* Completed detach is refused once a Stop has been asked for. *)
SubmitDetach ==
  IF cEvent \/ cstop # 0 \/ field # "on"
  THEN ord' = [cmd |-> "DETACH", st |-> "error"]
       /\ UNCHANGED <<stops, cstop, cEvent, armed, field, reached>>
  ELSE SubmitOther("DETACH")

(* request_stop: refused after a hand-over; queued field commands are        *)
(* cancelled; a Stop that already exists is returned, whatever became of it. *)
StopHandle == IF field = "left" THEN Refused
              ELSE IF cstop # 0 THEN cstop ELSE Len(stops) + 1
RequestStop ==
  /\ IF field = "left" THEN UNCHANGED ctlVars
     ELSE /\ cEvent' = TRUE /\ cstop' = StopHandle
          /\ stops' = IF cstop = 0 THEN Append(stops, "queued") ELSE stops
          /\ ord' = IF ord.st = "queued" /\ ord.cmd \in {"SETPOINT", "START"}
                    THEN [ord EXCEPT !.st = "error"] ELSE ord
          /\ UNCHANGED <<armed, field, reached>>

-----------------------------------------------------------------------------
(* The owner thread. *)

Busy == ord.st = "running" \/ \E s \in DOMAIN stops : stops[s] = "running"
StopWaits == \E s \in DOMAIN stops : stops[s] = "queued"

(* The owner's checks before it touches the magnet. *)
Allowed ==
  /\ ord.cmd \in {"SETPOINT", "START", "DETACH"} => ~cEvent
  /\ ord.cmd = "START" => armed
  /\ ord.cmd = "DETACH" => field = "on"

OwnerTakes ==
  /\ ~Busy /\ ~StopWaits /\ ord.st = "queued"
  /\ ord' = [ord EXCEPT !.st = IF Allowed THEN "running" ELSE "error"]
  /\ reached' = (reached \/ (Allowed /\ ord.cmd \in {"SETPOINT", "START"}))
  /\ UNCHANGED <<pc, workVars, handle, stopEvent, lock, guiVars, stops, cstop,
                 cEvent, armed, field>>

(* A command succeeds, or fails: START may fail with the field already on.   *)
(* Detach commits under the lock request_stop takes, so a Stop before it wins.*)
OwnerFinishes ==
  /\ ord.st = "running"
  /\ \/ /\ ord.cmd # "DETACH" \/ ~cEvent
        /\ ord' = [ord EXCEPT !.st = "ok"]
        /\ armed' = (ord.cmd = "SETPOINT" \/ (armed /\ ord.cmd # "START"))
        /\ field' = CASE ord.cmd = "START" -> "on" [] ord.cmd = "DETACH" -> "left"
                      [] OTHER -> field
     \/ /\ ord' = [ord EXCEPT !.st = "error"]
        /\ field' \in (IF ord.cmd = "START" THEN {field, "on"} ELSE {field})
        /\ UNCHANGED armed
  /\ UNCHANGED <<pc, workVars, handle, stopEvent, lock, guiVars, stops, cstop,
                 cEvent, reached>>

OwnerTakesStop ==
  /\ ~Busy
  /\ \E s \in DOMAIN stops : /\ stops[s] = "queued"
                             /\ stops' = [stops EXCEPT ![s] = "running"]
  /\ UNCHANGED <<pc, workVars, handle, stopEvent, lock, guiVars, ord, cstop,
                 cEvent, armed, field, reached>>

OwnerFinishesStop ==
  /\ \E s \in DOMAIN stops, ok \in BOOLEAN :
       /\ stops[s] = "running"
       /\ stops' = [stops EXCEPT ![s] = IF ok THEN "ok" ELSE "failed"]
       /\ field' = IF ok THEN "off" ELSE field
       /\ armed' = (armed /\ ~ok)
  /\ UNCHANGED <<pc, workVars, handle, stopEvent, lock, guiVars, ord, cstop,
                 cEvent, reached>>

Owner == OwnerTakes \/ OwnerFinishes \/ OwnerTakesStop \/ OwnerFinishesStop

-----------------------------------------------------------------------------
(* The worker. *)

Goto(p) == pc' = p

(* The except clauses of run(): what was raised decides the outcome. *)
Raise(e) ==
  /\ exc' = e /\ status' = IF e = "cancelled" THEN "CANCELLED" ELSE "FAILED"
  /\ Goto(IF kind = "sweep" THEN "merge" ELSE "settle")
Fails ==
  /\ Raise("failed")
  /\ UNCHANGED <<kind, leg, toStart, needsSet, needsStart, prep, prepIssued,
                 issued, optics, cleanup, report>>
Cancelled ==
  /\ stopEvent /\ Raise("cancelled")
  /\ UNCHANGED <<kind, leg, toStart, needsSet, needsStart, prep, prepIssued,
                 issued, optics, cleanup, report>>
(* Mutant of Passes. *)
PassesAnyway(p) == Goto(p) /\ UNCHANGED workVars
Passes(p) == ~stopEvent /\ Goto(p) /\ UNCHANGED workVars

Quiet == UNCHANGED <<handle, stopEvent, lock, guiVars, ctlVars>>

(* _execute: the result, or the exception of a failure or of a wait that ran *)
(* out on a request that goes on.  Preparation reports it as a cancellation  *)
(* when one was asked for.  The controller's own watchdog asks for a Stop    *)
(* when a setpoint or a start runs out.                                      *)
Await(p, next) ==
  /\ pc = p
  /\ \/ ord.st = "ok" /\ Goto(next) /\ UNCHANGED <<workVars, ctlVars>>
     \/ /\ \/ ord.st = "error" /\ UNCHANGED ctlVars
           \/ ord.st \in Flying /\ UNCHANGED ctlVars
           \/ ord.st \in Flying /\ ord.cmd \in {"SETPOINT", "START"} /\ RequestStop
        /\ IF stopEvent /\ prep THEN Cancelled ELSE Fails
  /\ UNCHANGED <<handle, stopEvent, lock, guiVars>>

(* Mutant of Check. *)
CheckNothing(p, next) == pc = p /\ Goto(next) /\ UNCHANGED workVars /\ Quiet
(* _check_cancelled, alone and with the reads around it. *)
Check(p, next) == pc = p /\ (Passes(next) \/ Cancelled) /\ Quiet
Look(p, next)  == Check(p, next) \/ (pc = p /\ Fails /\ Quiet)

(* _mutation: the check, the mark and the submission under _cancel_lock.     *)
Enter(p, next) ==
  /\ pc = p /\ lock = "free"
  /\ \/ Passes(next) /\ lock' = "worker"
     \/ Cancelled /\ UNCHANGED lock
  /\ UNCHANGED <<handle, stopEvent, guiVars, ctlVars>>

Mutate(p, submit, isField, next) ==
  /\ pc = p /\ submit /\ lock' = "free" /\ Goto(next)
  /\ prepIssued' = (prepIssued \/ isField)
  /\ UNCHANGED <<kind, exc, status, leg, toStart, needsSet, needsStart, prep,
                 issued, optics, cleanup, report, handle, stopEvent, guiVars>>

(* prepare(): what a preflight after the mode change finds missing. *)
Decide ==
  /\ pc = "decide"
  /\ \/ /\ ~stopEvent
        /\ \E set \in BOOLEAN :
             /\ needsStart' = (field # "on") /\ needsSet' = (field # "on" \/ set)
             /\ Goto(IF needsSet' THEN "lockSet" ELSE "poll")
        /\ UNCHANGED <<kind, exc, status, leg, toStart, prep, prepIssued, issued,
                       optics, cleanup, report>>
     \/ Cancelled \/ Fails
  /\ Quiet

AfterSet ==
  Look("afterSet", IF needsStart THEN "lockStart" ELSE "poll")

(* Five reads in the gate: the preparation is over. *)
Poll ==
  /\ pc = "poll"
  /\ \/ Passes("pollSleep") \/ Cancelled \/ Fails
     \/ /\ Goto(IF kind = "sweep" THEN "adopt" ELSE "settle")
        /\ status' = IF kind = "sweep" THEN status ELSE "COMPLETED"
        /\ UNCHANGED <<kind, exc, leg, toStart, needsSet, needsStart, prep,
                       prepIssued, issued, optics, cleanup, report>>
  /\ Quiet

Sleep(p, next) == pc = p /\ Goto(next) /\ UNCHANGED workVars /\ Quiet

Prepare ==
  \/ Look("check", "lockMode")
  \/ Enter("lockMode", "mode") \/ Mutate("mode", SubmitOther("PREPARE"), FALSE, "modeWait")
  \/ Await("modeWait", "decide") \/ Decide
  \/ Enter("lockSet", "set") \/ Mutate("set", SubmitSetpoint, TRUE, "setWait")
  \/ Await("setWait", "afterSet") \/ AfterSet
  \/ Enter("lockStart", "start") \/ Mutate("start", SubmitOther("START"), TRUE, "startWait")
  \/ Await("startWait", "afterStart") \/ Look("afterStart", "poll")
  \/ Poll \/ Sleep("pollSleep", "poll")

(* MagnetPreparationWorker.run: a field command that was issued is stopped,  *)
(* by a Stop asked for now.                                                  *)
Settle ==
  /\ pc = "settle"
  /\ IF status # "COMPLETED" /\ prepIssued
     THEN RequestStop /\ handle' = StopHandle /\ Goto("drain")
     ELSE UNCHANGED <<ctlVars, handle>> /\ Goto("ended")
  /\ UNCHANGED <<workVars, stopEvent, lock, guiVars>>

-----------------------------------------------------------------------------
(* The sweep. *)

Adopt ==
  /\ pc = "adopt" /\ issued' = prepIssued /\ Goto("forget")
  /\ UNCHANGED <<kind, exc, status, leg, toStart, needsSet, needsStart, prep,
                 prepIssued, optics, cleanup, report>> /\ Quiet
Forget ==
  /\ pc = "forget" /\ prep' = FALSE /\ Goto("ready")
  /\ UNCHANGED <<kind, exc, status, leg, toStart, needsSet, needsStart, issued,
                 prepIssued, optics, cleanup, report>> /\ Quiet

(* Sample temperature, readiness, LightField and gates: no magnet command;   *)
(* a cancellation is noticed by some of it, and by none if it is switched off.*)
Ready ==
  /\ pc = "ready"
  /\ \/ /\ Goto("leg") /\ optics' = TRUE
        /\ UNCHANGED <<kind, exc, status, leg, toStart, needsSet, needsStart, prep,
                       issued, prepIssued, cleanup, report>>
     \/ /\ \/ stopEvent /\ Raise("cancelled")
           \/ Raise("failed")
        /\ optics' \in BOOLEAN
        /\ UNCHANGED <<kind, leg, toStart, needsSet, needsStart, prep, issued,
                       prepIssued, cleanup, report>>
  /\ Quiet

(* _leg: already at its start, still to be confirmed there, or elsewhere. *)
Leg ==
  /\ pc = "leg"
  /\ \/ /\ \/ leg % 2 = 0 /\ Goto("markCheck") /\ toStart' = FALSE
           \/ Goto("gate") /\ toStart' = FALSE
           \/ Goto("markCheck") /\ toStart' = TRUE
        /\ UNCHANGED <<kind, exc, status, leg, needsSet, needsStart, prep, issued,
                       prepIssued, optics, cleanup, report>>
     \/ Cancelled \/ Fails
  /\ Quiet

(* _set_and_start: check, mark, setpoint, check, start. *)
Mark ==
  /\ pc = "mark" /\ issued' = TRUE /\ Goto("sweepSet")
  /\ UNCHANGED <<kind, exc, status, leg, toStart, needsSet, needsStart, prep,
                 prepIssued, optics, cleanup, report>> /\ Quiet
Order(p, submit, next) ==
  /\ pc = p /\ submit /\ Goto(next)
  /\ UNCHANGED <<workVars, handle, stopEvent, lock, guiVars>>
SetAndStart ==
  \/ Look("markCheck", "mark") \/ Mark
  \/ Order("sweepSet", SubmitSetpoint, "sweepSetWait")
  \/ Await("sweepSetWait", "sweepCheck") \/ Check("sweepCheck", "sweepStart")
  \/ Order("sweepStart", SubmitOther("START"), "sweepStartWait")
  \/ Await("sweepStartWait", IF toStart THEN "gate" ELSE "ramp")

(* _wait_gate: only here does running out of time not stop the magnet. *)
Gate ==
  /\ pc = "gate"
  /\ \/ /\ ~stopEvent /\ Goto("markCheck") /\ toStart' = FALSE
        /\ UNCHANGED <<kind, exc, status, leg, needsSet, needsStart, prep, issued,
                       prepIssued, optics, cleanup, report>>
     \/ Passes("gateSleep") \/ Cancelled \/ Fails
     \/ /\ Raise("endpoint")
        /\ UNCHANGED <<kind, leg, toStart, needsSet, needsStart, prep, prepIssued,
                       issued, optics, cleanup, report>>
  /\ Quiet

(* A leg ends by a full snapshot at its end, after the last one with the     *)
(* outcome COMPLETED, also when a cancellation arrives during these reads;   *)
(* until then spectra are taken.                                             *)
LegDone ==
  /\ IF leg < Legs THEN leg' = leg + 1 /\ Goto("leg") /\ UNCHANGED status
     ELSE status' = "COMPLETED" /\ Goto("merge") /\ UNCHANGED leg
  /\ UNCHANGED <<kind, exc, toStart, needsSet, needsStart, prep, issued,
                 prepIssued, optics, cleanup, report>>
Ramp(p, next) ==
  pc = p /\ (Passes(next) \/ Cancelled \/ Fails \/ LegDone) /\ Quiet

-----------------------------------------------------------------------------
(* run()'s finally clause. *)

(* Mutant of Merge. *)
MergeNothing ==
  pc = "merge" /\ Goto("optical") /\ UNCHANGED workVars /\ Quiet
Merge ==
  /\ pc = "merge" /\ issued' = (issued \/ (prep /\ prepIssued)) /\ Goto("optical")
  /\ UNCHANGED <<kind, exc, status, leg, toStart, needsSet, needsStart, prep,
                 prepIssued, optics, cleanup, report>> /\ Quiet

Optical ==
  /\ pc = "optical"
  /\ \E bad \in BOOLEAN :
       /\ bad => optics
       /\ cleanup' = bad
       /\ status' = IF bad THEN "FAILED" ELSE status
       /\ Goto(IF status' = "COMPLETED" THEN "detach" ELSE "verdict")
  /\ UNCHANGED <<kind, exc, leg, toStart, needsSet, needsStart, prep, prepIssued,
                 issued, optics, report>> /\ Quiet

(* Mutant of DetachEnds. *)
DetachEndsUnlessError ==
  /\ pc = "detachWait" /\ Goto("verdict")
  /\ IF ord.st = "error" THEN cleanup' = TRUE /\ status' = "FAILED"
     ELSE UNCHANGED <<cleanup, status>>
  /\ UNCHANGED <<kind, exc, leg, toStart, needsSet, needsStart, prep, prepIssued,
                 issued, optics, report>> /\ Quiet
DetachEnds ==
  /\ pc = "detachWait"
  /\ \/ /\ ord.st = "ok" /\ UNCHANGED <<cleanup, status>>
     \/ /\ ord.st # "ok" /\ cleanup' = TRUE /\ status' = "FAILED"
  /\ Goto("verdict")
  /\ UNCHANGED <<kind, exc, leg, toStart, needsSet, needsStart, prep, prepIssued,
                 issued, optics, report>> /\ Quiet

(* Mutant of EndpointOnly. *)
EndpointOnlyByHandle == exc = "endpoint" /\ ~cleanup
(* A run that merely did not reach its start in time leaves the field on;    *)
(* every other end but a detached one stops it, if a command was issued.  The *)
(* two looks, at stop_event and then at _stop_handle, and the report are      *)
(* steps of their own: a cancellation may come between them.                 *)
EndpointOnly == exc = "endpoint" /\ ~cleanup /\ ~stopEvent
Verdict ==
  /\ pc = "verdict" /\ Goto(IF EndpointOnly THEN "verdictHandle" ELSE "report")
  /\ UNCHANGED workVars /\ Quiet
VerdictHandle ==
  /\ pc = "verdictHandle" /\ Goto(IF handle = 0 THEN "reportLeft" ELSE "report")
  /\ UNCHANGED workVars /\ Quiet
StopRequired == pc = "report" /\ status # "COMPLETED" /\ issued
Report ==
  /\ pc \in {"report", "reportLeft"}
  /\ report' = CASE ~issued -> "none" [] StopRequired -> "stopped"
                 [] pc = "reportLeft" -> "left" [] OTHER -> "unsaid"
  /\ Goto(IF StopRequired THEN "drainLook" ELSE "ended")
  /\ UNCHANGED <<kind, exc, status, leg, toStart, needsSet, needsStart, prep,
                 prepIssued, issued, optics, cleanup>> /\ Quiet

(* _submit_stop tests _stop_handle and assigns it later, in both threads.    *)
DrainLook ==
  /\ pc = "drainLook" /\ Goto(IF handle = 0 THEN "drainAsk" ELSE "drain")
  /\ UNCHANGED workVars /\ Quiet
DrainAsk ==
  /\ pc = "drainAsk" /\ RequestStop /\ handle' = StopHandle /\ Goto("drain")
  /\ UNCHANGED <<workVars, stopEvent, lock, guiVars>>

(* The Stop that is waited for may be one that ended long ago. *)
Drain ==
  /\ pc = "drain"
  /\ \/ /\ handle > 0 /\ stops[handle] = "ok" /\ UNCHANGED <<cleanup, status>>
     \/ /\ handle > 0 => stops[handle] # "ok"
        /\ cleanup' = TRUE /\ status' = "FAILED"
  /\ handle' = 0 /\ Goto("ended")
  /\ UNCHANGED <<kind, exc, leg, toStart, needsSet, needsStart, prep, prepIssued,
                 issued, optics, report, stopEvent, lock, guiVars, ctlVars>>

Sweep ==
  \/ Adopt \/ Forget \/ Ready \/ Leg \/ SetAndStart \/ Gate
  \/ Check("gateSleep", "gate") \/ Ramp("ramp", "spectrum") \/ Ramp("spectrum", "ramp")
  \/ Merge \/ Optical \/ Order("detach", SubmitDetach, "detachWait") \/ DetachEnds
  \/ Verdict \/ VerdictHandle \/ Report \/ DrainLook \/ DrainAsk

Worker == Prepare \/ Settle \/ Sweep \/ Drain

-----------------------------------------------------------------------------
(* request_cancel in the GUI thread. *)

Ask ==
  /\ gpc = "idle" /\ cancels < Cancels
  /\ cancels' = cancels + 1
  /\ IF kind = "sweep" THEN stopEvent' = TRUE /\ gpc' = "look"
     ELSE UNCHANGED stopEvent /\ gpc' = "call"
  /\ UNCHANGED <<pc, workVars, handle, lock, got, returned, ctlVars>>

(* "if self._magnet_preparation is not None" ... *)
LookPrep ==
  /\ gpc = "look" /\ gpc' = IF prep THEN "call" ELSE "issued"
  /\ UNCHANGED <<pc, workVars, handle, stopEvent, lock, got, cancels, returned, ctlVars>>

(* Mutant of CallPrep. *)
CallPrepUnlocked ==
  /\ gpc = "call"
  /\ IF prep THEN stopEvent' = TRUE /\ returned' = TRUE /\ gpc' = "cancelMode"
     ELSE gpc' = "idle" /\ UNCHANGED <<stopEvent, returned>>
  /\ UNCHANGED <<pc, workVars, handle, lock, got, cancels, ctlVars>>
(* ... is read again for the call: None by then raises in the GUI thread.    *)
CallPrep ==
  /\ gpc = "call"
  /\ IF prep THEN /\ lock = "free" /\ stopEvent' = TRUE /\ returned' = TRUE
                  /\ gpc' = "cancelMode"
     ELSE gpc' = "idle" /\ UNCHANGED <<stopEvent, returned>>
  /\ UNCHANGED <<pc, workVars, handle, lock, got, cancels, ctlVars>>

(* cancel_magnet_preparation: a queued mode request ends at once. *)
CancelMode ==
  /\ gpc = "cancelMode"
  /\ ord' = IF ord.cmd = "PREPARE" /\ ord.st = "queued"
            THEN [ord EXCEPT !.st = "error"] ELSE ord
  /\ gpc' = IF kind = "sweep" THEN "issued" ELSE "idle"
  /\ UNCHANGED <<pc, workVars, handle, stopEvent, lock, got, cancels, returned,
                 stops, cstop, cEvent, armed, field, reached>>

LookIssued ==
  /\ gpc = "issued" /\ gpc' = IF issued THEN "handle" ELSE "idle"
  /\ UNCHANGED <<pc, workVars, handle, stopEvent, lock, got, cancels, returned, ctlVars>>
LookHandle ==
  /\ gpc = "handle" /\ gpc' = IF handle = 0 THEN "stop" ELSE "idle"
  /\ UNCHANGED <<pc, workVars, handle, stopEvent, lock, got, cancels, returned, ctlVars>>
GuiStop ==
  /\ gpc = "stop" /\ RequestStop /\ got' = StopHandle /\ gpc' = "put"
  /\ UNCHANGED <<pc, workVars, handle, stopEvent, lock, cancels, returned>>
GuiPut ==
  /\ gpc = "put" /\ handle' = got /\ got' = 0 /\ gpc' = "idle"
  /\ UNCHANGED <<pc, workVars, stopEvent, lock, cancels, returned, ctlVars>>

Gui == Ask \/ LookPrep \/ CallPrep \/ CancelMode \/ LookIssued \/ LookHandle \/ GuiStop \/ GuiPut

(* The worker's thread ends; the owner and the GUI finish what they are at.  *)
Ended == pc = "ended" /\ gpc = "idle" /\ ord.st \notin Flying
         /\ ~Busy /\ ~StopWaits /\ UNCHANGED vars

Next == Worker \/ Owner \/ Gui \/ Ended

(* Both threads go on when they can, and the polls and ramps of a run that   *)
(* is not cancelled need not end.                                            *)
Fairness == WF_vars(Worker) /\ WF_vars(Owner) /\ WF_vars(Gui /\ ~Ask)

Spec == Init /\ [][Next]_vars /\ Fairness

-----------------------------------------------------------------------------

(* Every variable has its type; the handles are those of Stops.              *)
WorkFlagsOK ==
  /\ toStart \in BOOLEAN /\ needsSet \in BOOLEAN /\ needsStart \in BOOLEAN
  /\ prep \in BOOLEAN /\ prepIssued \in BOOLEAN /\ issued \in BOOLEAN
  /\ optics \in BOOLEAN /\ cleanup \in BOOLEAN
OtherFlagsOK ==
  /\ stopEvent \in BOOLEAN /\ returned \in BOOLEAN /\ cEvent \in BOOLEAN
  /\ armed \in BOOLEAN /\ reached \in BOOLEAN
FlagsOK == WorkFlagsOK /\ OtherFlagsOK
WorkerOK ==
  /\ kind \in {"prepare", "sweep"} /\ leg \in 1..Legs
  /\ exc \in {"none", "cancelled", "failed", "endpoint"}
  /\ status \in {"running", "COMPLETED", "CANCELLED", "FAILED"}
  /\ report \in {"unsaid", "none", "left", "stopped"}
  /\ lock \in {"free", "worker"} /\ cancels \in 0..Cancels
  /\ gpc \in {"idle", "look", "call", "cancelMode", "issued", "handle", "stop", "put"}
ServiceOK ==
  /\ ord \in [cmd : {"NONE", "PREPARE", "SETPOINT", "START", "DETACH"},
             st : Flying \cup {"ok", "error", "done"}]
  /\ stops \in Seq(Flying \cup {"ok", "failed"}) /\ cstop \in {0} \cup DOMAIN stops
  /\ field \in {"off", "on", "left"}
HandlesOK == {handle, got} \subseteq {Refused, 0} \cup DOMAIN stops
TypeOK == FlagsOK /\ WorkerOK /\ ServiceOK /\ HandlesOK

(* A use of the magnet that ends without success, without reporting a        *)
(* clean-up error and without declaring that it leaves the field on, leaves  *)
(* it off if any of its field commands got through, with no START to come:   *)
(* run()'s finally clause (mcd2100_worker.py:1585-1676) and                  *)
(* MagnetPreparationWorker.run, whatever the GUI did in the meantime.        *)
EndsStopped ==
  pc = "ended" /\ reached /\ status # "COMPLETED" /\ ~cleanup /\ report # "left"
    => /\ field = "off"
       /\ ord.cmd = "START" => /\ ord.st # "running"
                               /\ ord.st = "queued" => ~Allowed

(* COMPLETED means that the field was really passed on: to nobody after a    *)
(* sweep, with the transport closed and no Stop accepted before (the detach  *)
(* at mcd2100_worker.py:1624), to the operator after a preparation.          *)
CompletedKeepsField ==
  pc = "ended" /\ status = "COMPLETED" =>
    cstop = 0 /\ field = IF kind = "sweep" THEN "left" ELSE "on"

(* No START of this use takes effect after a Stop of this use has succeeded, *)
(* although a later setpoint clears that Stop: _set_and_start looks at       *)
(* stop_event once more between its setpoint and its start.                  *)
NoStartAfterStop ==
  [][field' = "on" /\ field = "off" => \A s \in DOMAIN stops : stops[s] # "ok"]_vars

(* A run decides to leave its field on only if it is on and no Stop of this   *)
(* use has been asked for until its look at stop_event (mcd2100_worker.py:1643): *)
(* request_cancel raises the event before it asks, and the Stop of a watchdog *)
(* comes with a failure.  (A cancellation after that look is not in the report.) *)
LeftUnstopped ==
  [][pc = "verdict" /\ pc' = "verdictHandle" => stops = <<>> /\ field = "on"]_vars

(* Once request_cancel has had the preparation's lock, the preparation is    *)
(* not about to submit anything (magnet_preparation.py:121 and 207).         *)
CancelExcludesSubmission == returned => pc \notin {"mode", "set", "start"}

(* A cancelled use ends, and no caller of request_cancel is kept waiting.    *)
CancelEnds == stopEvent ~> pc = "ended" /\ gpc = "idle"
=============================================================================
