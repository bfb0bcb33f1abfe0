-------------------------- MODULE Mcd2100RunProofs --------------------------
(***************************************************************************)
(* The safety properties of Mcd2100Run, for every number of legs and of    *)
(* cancellations.  The inductive invariant IInv has a part per idea.       *)
(***************************************************************************)
EXTENDS Mcd2100Run, TLAPS

(* Where the worker is: preparing the magnet, sweeping it, or on its way out.*)
Preparing == {"check", "lockMode", "mode", "modeWait", "decide", "lockSet", "set",
              "setWait", "afterSet", "lockStart", "start", "startWait", "afterStart",
              "poll", "pollSleep"}
Sweeping  == {"adopt", "forget", "ready", "leg", "markCheck", "mark", "sweepSet",
              "sweepSetWait", "sweepCheck", "sweepStart", "sweepStartWait", "gate",
              "gateSleep", "ramp", "spectrum"}
Reporting == {"verdict", "verdictHandle", "report", "reportLeft"}
Closing   == {"merge", "optical", "detach", "detachWait", "drainLook", "drainAsk"}
             \cup Reporting
Leaving   == Closing \cup {"settle", "drain", "ended"}
Locked    == {"mode", "set", "start"}

FieldCommands == {"SETPOINT", "START"}

(* Which worker can be where, and what it still has of the preparation. *)
Whereabouts ==
  /\ kind = "prepare" => pc \in Preparing \cup {"settle", "drain", "ended"}
  /\ kind = "sweep" => pc \in Preparing \cup Sweeping \cup Closing \cup {"drain", "ended"}
  /\ pc \in Preparing \cup {"adopt", "forget"} \/ kind = "prepare" => prep
  /\ pc \in Preparing \cup {"adopt"} \/ kind = "prepare" => ~issued
  /\ kind = "sweep" /\ status = "COMPLETED" => pc \notin Preparing \cup Sweeping
  /\ gpc \in {"look", "issued", "handle", "stop", "put"} => kind = "sweep" /\ stopEvent
  /\ gpc \in {"handle", "stop", "put"} => issued
  /\ gpc = "cancelMode" => stopEvent

(* The lock of the preparation, and what a cancellation that had it knows. *)
LockInv ==
  /\ lock = "worker" <=> pc \in Locked
  /\ returned => stopEvent /\ pc \notin Locked

(* The controller: of its Stops only the last can be unfinished, a Stop that *)
(* has succeeded has left the field off, and no start comes behind it.       *)
OrderInv ==
  /\ cstop # 0 => cEvent
  /\ \A s \in DOMAIN stops : s # cstop => stops[s] = "ok"
  /\ \A s \in DOMAIN stops : stops[s] = "ok" => field = "off"
  /\ ord.st = "running" => \A s \in DOMAIN stops : stops[s] # "running"
  /\ ord.st = "running" /\ ord.cmd = "START" => \A s \in DOMAIN stops : stops[s] = "queued"
  /\ ord.st = "queued" /\ ord.cmd = "START" /\ stops # <<>> => cEvent
ServiceInv ==
  /\ OrderInv
  /\ pc \in {"start", "sweepStart"} /\ stops # <<>> => cEvent
  /\ stops # <<>> => stopEvent \/ pc \in Leaving

(* A detach is the last command of a use, and nothing is stopped behind it. *)
DetachInv ==
  /\ ord.st = "running" /\ ord.cmd = "DETACH" => field = "on"
  /\ field = "left" <=> ord.cmd = "DETACH" /\ ord.st = "ok"
  /\ field = "left" => cstop = 0
  /\ ord.cmd = "DETACH" =>
       /\ kind = "sweep"
       /\ pc \in Reporting \cup {"detachWait", "drainLook", "drainAsk", "drain", "ended"}
  /\ pc = "detachWait" => ord.cmd = "DETACH"

(* Whatever may have reached the magnet has been noted before. *)
Outstanding == reached \/ (ord.cmd \in FieldCommands /\ ord.st \in Flying)
NoteInv ==
  /\ Outstanding => issued \/ (prep /\ prepIssued)
  /\ pc \in {"sweepSet", "sweepSetWait", "sweepCheck", "sweepStart", "sweepStartWait"} => issued
  /\ pc = "forget" => issued = prepIssued
  /\ pc \in Closing \ {"merge"} /\ prep /\ prepIssued => issued

(* A use that has ended badly, and says nothing of it, has had its Stop. *)
StoppedInv ==
  /\ pc = "ended" /\ Outstanding /\ status # "COMPLETED" /\ ~cleanup /\ report # "left"
       => \E s \in DOMAIN stops : stops[s] = "ok"

(* The field of a preparation that succeeds is on when it says so, and stays *)
(* on until somebody asks for a Stop.                                        *)
SuccessInv ==
  /\ pc \in {"drainLook", "drainAsk", "drain"} => status # "COMPLETED"
  /\ kind = "sweep" /\ status = "COMPLETED" /\ pc \in Reporting \cup {"ended"} => field = "left"
  /\ pc \in Preparing => stops = <<>>
  /\ pc \in {"lockSet", "set", "setWait", "afterSet"} /\ ~needsStart => field = "on"
  /\ pc = "startWait" => ord.cmd = "START"
  /\ pc = "startWait" /\ ord.st = "ok" => field = "on"
  /\ pc \in {"afterStart", "poll", "pollSleep"} => field = "on"
  /\ pc \in Sweeping /\ stops = <<>> => field = "on"
  /\ kind = "prepare" /\ status = "COMPLETED" =>
       pc \in {"settle", "ended"} /\ stops = <<>> /\ field = "on"

(* A sweep that merely came too late to its start has not been stopped, and  *)
(* does not detach.                                                          *)
EndpointInv ==
  /\ exc = "endpoint" /\ ~stopEvent /\ pc \in Closing \ {"drainLook", "drainAsk"} =>
       stops = <<>> /\ field = "on"
  /\ exc # "none" => /\ pc \in Leaving \ {"detach", "detachWait"} /\ ord.cmd # "DETACH"
                     /\ kind = "sweep" => status # "COMPLETED"

IInv == /\ TypeOK /\ Whereabouts /\ LockInv /\ ServiceInv /\ DetachInv
        /\ NoteInv /\ StoppedInv /\ SuccessInv /\ EndpointInv

(* What request_stop changes. *)
LEMMA StopAsked ==
  ASSUME FlagsOK, ServiceOK, OrderInv, RequestStop
  PROVE  /\ OrderInv'
         /\ stops' \in Seq(Flying \cup {"ok", "failed"})
         /\ cstop' \in {0} \cup DOMAIN stops' /\ DOMAIN stops \subseteq DOMAIN stops'
         /\ StopHandle \in {Refused} \cup DOMAIN stops'
         /\ stops' = stops \/ cEvent'
         /\ stops = <<>> \/ stops' # <<>>
         /\ cEvent \in BOOLEAN /\ cEvent' \in BOOLEAN /\ cEvent => cEvent'
         /\ ord' = ord \/ (ord.st = "queued" /\ ord.cmd \in FieldCommands
                            /\ ord' = [ord EXCEPT !.st = "error"])
         /\ armed' = armed /\ field' = field /\ reached' = reached
         /\ field = "left" => cstop' = cstop
         /\ \A s \in DOMAIN stops : stops'[s] = stops[s]
<1> USE DEF Flying, Refused, FieldCommands
<1>1. CASE field = "left"
  BY <1>1 DEF FlagsOK, OtherFlagsOK, ServiceOK, OrderInv, RequestStop, ctlVars, StopHandle
<1>2. CASE field # "left" /\ cstop # 0
  BY <1>2 DEF FlagsOK, OtherFlagsOK, ServiceOK, OrderInv, RequestStop, StopHandle
<1>3. CASE field # "left" /\ cstop = 0
  <2>1. /\ stops' = Append(stops, "queued") /\ cstop' = Len(stops) + 1 /\ cEvent'
        /\ UNCHANGED <<armed, field, reached>>
        /\ ord' = IF ord.st = "queued" /\ ord.cmd \in FieldCommands
                  THEN [ord EXCEPT !.st = "error"] ELSE ord
    BY <1>3 DEF RequestStop, StopHandle
  <2>2. /\ stops' \in Seq(Flying \cup {"ok", "failed"})
        /\ DOMAIN stops' = DOMAIN stops \cup {cstop'} /\ cstop' \in DOMAIN stops'
        /\ stops'[cstop'] = "queued"
        /\ \A s \in DOMAIN stops : stops'[s] = stops[s] /\ s # cstop'
        /\ stops' # <<>>
    BY <2>1 DEF FlagsOK, OtherFlagsOK, ServiceOK
  <2>3. OrderInv'
    BY <1>3, <2>1, <2>2 DEF FlagsOK, OtherFlagsOK, ServiceOK, OrderInv
  <2> QED BY <1>3, <2>1, <2>2, <2>3 DEF FlagsOK, OtherFlagsOK, ServiceOK, StopHandle
<1> QED BY <1>1, <1>2, <1>3

(* The worker's flags stay BOOLEAN.                                         *)
LEMMA WorkFlagsOKStep ==
  ASSUME WorkFlagsOK, Next
  PROVE  WorkFlagsOK'
<1> USE DEF WorkFlagsOK, Goto, Quiet, workVars, guiVars, ctlVars, vars, Raise,
   Fails, Cancelled, Passes
<1>1. CASE Prepare
  <2>1. CASE Look("check", "lockMode")
    BY <2>1 DEF Look, Check
  <2>2. CASE Enter("lockMode", "mode")
    BY <2>2 DEF Enter
  <2>3. CASE Mutate("mode", SubmitOther("PREPARE"), FALSE, "modeWait")
    BY <2>3 DEF Mutate, SubmitOther, Submit
  <2>4. CASE Await("modeWait", "decide")
    BY <2>4 DEF Await, RequestStop, StopHandle
  <2>5. CASE Decide
    BY <2>5 DEF Decide
  <2>6. CASE Enter("lockSet", "set")
    BY <2>6 DEF Enter
  <2>7. CASE Mutate("set", SubmitSetpoint, TRUE, "setWait")
    BY <2>7 DEF Mutate, SubmitSetpoint, Submit
  <2>8. CASE Await("setWait", "afterSet")
    BY <2>8 DEF Await, RequestStop, StopHandle
  <2>9. CASE AfterSet
    BY <2>9 DEF AfterSet, Look, Check
  <2>10. CASE Enter("lockStart", "start")
    BY <2>10 DEF Enter
  <2>11. CASE Mutate("start", SubmitOther("START"), TRUE, "startWait")
    BY <2>11 DEF Mutate, SubmitOther, Submit
  <2>12. CASE Await("startWait", "afterStart")
    BY <2>12 DEF Await, RequestStop, StopHandle
  <2>13. CASE Look("afterStart", "poll")
    BY <2>13 DEF Look, Check
  <2>14. CASE Poll
    BY <2>14 DEF Poll
  <2>15. CASE Sleep("pollSleep", "poll")
    BY <2>15 DEF Sleep
  <2> QED BY <1>1, <2>1, <2>2, <2>3, <2>4, <2>5, <2>6, <2>7, <2>8, <2>9, <2>10, <2>11,
     <2>12, <2>13, <2>14, <2>15 DEF Prepare
<1>2. CASE Settle
  BY <1>2 DEF Settle, RequestStop, StopHandle
<1>3. CASE Sweep /\ ~SetAndStart
  BY <1>3 DEF Sweep, Adopt, Forget, Ready, Leg, Gate, Check, Ramp, LegDone,
     Merge, Optical, Order, SubmitDetach, SubmitOther, Submit, DetachEnds,
     Verdict, VerdictHandle, Report, StopRequired, EndpointOnly, DrainLook, DrainAsk, RequestStop,
     StopHandle
<1>4. CASE SetAndStart
  <2>1. CASE Look("markCheck", "mark")
    BY <2>1 DEF Look, Check
  <2>2. CASE Mark
    BY <2>2 DEF Mark
  <2>3. CASE Order("sweepSet", SubmitSetpoint, "sweepSetWait")
    BY <2>3 DEF Order, SubmitSetpoint, Submit
  <2>4. CASE Await("sweepSetWait", "sweepCheck")
    BY <2>4 DEF Await, RequestStop, StopHandle
  <2>5. CASE Check("sweepCheck", "sweepStart")
    BY <2>5 DEF Check
  <2>6. CASE Order("sweepStart", SubmitOther("START"), "sweepStartWait")
    BY <2>6 DEF Order, SubmitOther, Submit
  <2>7. CASE Await("sweepStartWait", IF toStart THEN "gate" ELSE "ramp")
    BY <2>7 DEF Await, RequestStop, StopHandle
  <2> QED BY <1>4, <2>1, <2>2, <2>3, <2>4, <2>5, <2>6, <2>7 DEF SetAndStart
<1>5. CASE Drain
  BY <1>5 DEF Drain
<1>6. CASE Owner
  BY <1>6 DEF Owner, OwnerTakes, Busy, StopWaits, Allowed, OwnerFinishes,
     OwnerTakesStop, OwnerFinishesStop
<1>7. CASE Gui
  BY <1>7 DEF Gui, Ask, LookPrep, CallPrep, CancelMode, LookIssued, LookHandle, GuiStop,
     RequestStop, StopHandle, GuiPut
<1>8. CASE Ended
  BY <1>8 DEF Ended
<1> QED
  BY <1>1, <1>2, <1>3, <1>4, <1>5, <1>6, <1>7, <1>8 DEF Next, Worker

(* So do the events and the controller's flags.                             *)
LEMMA OtherFlagsOKStep ==
  ASSUME OtherFlagsOK, Next
  PROVE  OtherFlagsOK'
<1> USE DEF OtherFlagsOK, Goto, Quiet, workVars, guiVars, ctlVars, vars, Raise,
   Fails, Cancelled, Passes
<1>1. CASE Prepare
  <2>1. CASE Look("check", "lockMode")
    BY <2>1 DEF Look, Check
  <2>2. CASE Enter("lockMode", "mode")
    BY <2>2 DEF Enter
  <2>3. CASE Mutate("mode", SubmitOther("PREPARE"), FALSE, "modeWait")
    BY <2>3 DEF Mutate, SubmitOther, Submit
  <2>4. CASE Await("modeWait", "decide")
    BY <2>4 DEF Await, RequestStop, StopHandle
  <2>5. CASE Decide
    BY <2>5 DEF Decide
  <2>6. CASE Enter("lockSet", "set")
    BY <2>6 DEF Enter
  <2>7. CASE Mutate("set", SubmitSetpoint, TRUE, "setWait")
    BY <2>7 DEF Mutate, SubmitSetpoint, Submit
  <2>8. CASE Await("setWait", "afterSet")
    BY <2>8 DEF Await, RequestStop, StopHandle
  <2>9. CASE AfterSet
    BY <2>9 DEF AfterSet, Look, Check
  <2>10. CASE Enter("lockStart", "start")
    BY <2>10 DEF Enter
  <2>11. CASE Mutate("start", SubmitOther("START"), TRUE, "startWait")
    BY <2>11 DEF Mutate, SubmitOther, Submit
  <2>12. CASE Await("startWait", "afterStart")
    BY <2>12 DEF Await, RequestStop, StopHandle
  <2>13. CASE Look("afterStart", "poll")
    BY <2>13 DEF Look, Check
  <2>14. CASE Poll
    BY <2>14 DEF Poll
  <2>15. CASE Sleep("pollSleep", "poll")
    BY <2>15 DEF Sleep
  <2> QED BY <1>1, <2>1, <2>2, <2>3, <2>4, <2>5, <2>6, <2>7, <2>8, <2>9, <2>10, <2>11,
     <2>12, <2>13, <2>14, <2>15 DEF Prepare
<1>2. CASE Settle
  BY <1>2 DEF Settle, RequestStop, StopHandle
<1>3. CASE Sweep /\ ~SetAndStart
  BY <1>3 DEF Sweep, Adopt, Forget, Ready, Leg, Gate, Check, Ramp, LegDone,
     Merge, Optical, Order, SubmitDetach, SubmitOther, Submit, DetachEnds,
     Verdict, VerdictHandle, Report, StopRequired, EndpointOnly, DrainLook, DrainAsk, RequestStop,
     StopHandle
<1>4. CASE SetAndStart
  BY <1>4 DEF SetAndStart, Look, Check, Mark, Order, SubmitSetpoint, Submit,
     Await, RequestStop, StopHandle, SubmitOther
<1>5. CASE Drain
  BY <1>5 DEF Drain
<1>6. CASE Owner
  BY <1>6 DEF Owner, OwnerTakes, Busy, StopWaits, Allowed, OwnerFinishes,
     OwnerTakesStop, OwnerFinishesStop
<1>7. CASE Gui
  BY <1>7 DEF Gui, Ask, LookPrep, CallPrep, CancelMode, LookIssued, LookHandle, GuiStop,
     RequestStop, StopHandle, GuiPut
<1>8. CASE Ended
  BY <1>8 DEF Ended
<1> QED
  BY <1>1, <1>2, <1>3, <1>4, <1>5, <1>6, <1>7, <1>8 DEF Next, Worker

(* The worker's other variables keep their types.                           *)
LEMMA WorkerOKStep ==
  ASSUME WorkerOK, Next
  PROVE  WorkerOK'
<1> USE DEF WorkerOK, Goto, Quiet, workVars, guiVars, ctlVars, vars, Raise, Fails,
   Cancelled, Passes
<1>1. CASE Prepare
  BY <1>1 DEF Prepare, Look, Check, Enter, Mutate, SubmitOther, Submit, Await,
     RequestStop, StopHandle, Decide, SubmitSetpoint, AfterSet, Poll, Sleep
<1>2. CASE Settle
  BY <1>2 DEF Settle, RequestStop, StopHandle
<1>3. CASE Sweep /\ ~SetAndStart
  <2>1. CASE Adopt
    BY <2>1 DEF Adopt
  <2>2. CASE Forget
    BY <2>2 DEF Forget
  <2>3. CASE Ready
    BY <2>3 DEF Ready
  <2>4. CASE Leg
    BY <2>4 DEF Leg
  <2>5. CASE Gate
    BY <2>5 DEF Gate
  <2>6. CASE Check("gateSleep", "gate")
    BY <2>6 DEF Check
  <2>7. CASE Ramp("ramp", "spectrum")
    BY <2>7, LegsAssumption DEF Ramp, LegDone
  <2>8. CASE Ramp("spectrum", "ramp")
    BY <2>8, LegsAssumption DEF Ramp, LegDone
  <2>9. CASE Merge
    BY <2>9 DEF Merge
  <2>10. CASE Optical
    BY <2>10 DEF Optical
  <2>11. CASE Order("detach", SubmitDetach, "detachWait")
    BY <2>11 DEF Order, SubmitDetach, SubmitOther, Submit
  <2>12. CASE DetachEnds
    BY <2>12 DEF DetachEnds
  <2>13. CASE Verdict \/ VerdictHandle \/ Report
    BY <2>13 DEF Verdict, VerdictHandle, Report, StopRequired, EndpointOnly
  <2>14. CASE DrainLook
    BY <2>14 DEF DrainLook
  <2>15. CASE DrainAsk
    BY <2>15 DEF DrainAsk, RequestStop, StopHandle
  <2> QED BY <1>3, <2>1, <2>2, <2>3, <2>4, <2>5, <2>6, <2>7, <2>8, <2>9, <2>10, <2>11,
     <2>12, <2>13, <2>14, <2>15 DEF Sweep
<1>4. CASE SetAndStart
  BY <1>4 DEF SetAndStart, Look, Check, Mark, Order, SubmitSetpoint, Submit,
     Await, RequestStop, StopHandle, SubmitOther
<1>5. CASE Drain
  BY <1>5 DEF Drain
<1>6. CASE Owner
  BY <1>6 DEF Owner, OwnerTakes, Busy, StopWaits, Allowed, OwnerFinishes,
     OwnerTakesStop, OwnerFinishesStop
<1>7. CASE Gui
  <2>1. CASE Ask
    BY <2>1, CancelsAssumption DEF Ask
  <2>2. CASE LookPrep
    BY <2>2 DEF LookPrep
  <2>3. CASE CallPrep
    BY <2>3 DEF CallPrep
  <2>4. CASE CancelMode
    BY <2>4 DEF CancelMode
  <2>5. CASE LookIssued \/ LookHandle
    BY <2>5 DEF LookIssued, LookHandle
  <2>6. CASE GuiStop
    BY <2>6 DEF GuiStop, RequestStop, StopHandle
  <2>7. CASE GuiPut
    BY <2>7 DEF GuiPut
  <2> QED BY <1>7, <2>1, <2>2, <2>3, <2>4, <2>5, <2>6, <2>7 DEF Gui
<1>8. CASE Ended
  BY <1>8 DEF Ended
<1> QED
  BY <1>1, <1>2, <1>3, <1>4, <1>5, <1>6, <1>7, <1>8 DEF Next, Worker

(* So do the controller's requests and Stops.                               *)
LEMMA ServiceOKStep ==
  ASSUME FlagsOK, ServiceOK, OrderInv, Next
  PROVE  ServiceOK'
<1> USE DEF ServiceOK, Flying, Goto, Quiet, workVars, guiVars, ctlVars, vars,
   Raise, Fails, Cancelled, Passes
<1>1. CASE Prepare
  BY <1>1, StopAsked DEF Prepare, Look, Check, Enter, Mutate, SubmitOther,
     Submit, Await, Decide, SubmitSetpoint, AfterSet, Poll, Sleep
<1>2. CASE Settle
  BY <1>2, StopAsked DEF Settle
<1>3. CASE Sweep /\ ~SetAndStart
  BY <1>3, StopAsked DEF Sweep, Adopt, Forget, Ready, Leg, Gate, Check, Ramp,
     LegDone, Merge, Optical, Order, SubmitDetach, SubmitOther, Submit,
     DetachEnds, Verdict, VerdictHandle, Report, StopRequired, EndpointOnly, DrainLook, DrainAsk
<1>4. CASE SetAndStart
  BY <1>4, StopAsked DEF SetAndStart, Look, Check, Mark, Order, SubmitSetpoint,
     Submit, Await, SubmitOther
<1>5. CASE Drain
  BY <1>5 DEF Drain
<1>6. CASE Owner
  BY <1>6 DEF Owner, OwnerTakes, Busy, StopWaits, Allowed, OwnerFinishes,
     OwnerTakesStop, OwnerFinishesStop
<1>7. CASE Gui
  BY <1>7, StopAsked DEF Gui, Ask, LookPrep, CallPrep, CancelMode, LookIssued, LookHandle,
     GuiStop, GuiPut
<1>8. CASE Ended
  BY <1>8 DEF Ended
<1> QED
  BY <1>1, <1>2, <1>3, <1>4, <1>5, <1>6, <1>7, <1>8 DEF Next, Worker

(* A handle stays that of a Stop: no Stop is ever taken away.               *)
LEMMA HandlesOKStep ==
  ASSUME FlagsOK, ServiceOK, OrderInv, HandlesOK, Next
  PROVE  HandlesOK'
<1> USE DEF HandlesOK, ServiceOK, Refused, Flying, Goto, Quiet, workVars, guiVars,
   ctlVars, vars, Raise, Fails, Cancelled, Passes
<1>1. CASE Prepare
  BY <1>1, StopAsked DEF Prepare, Look, Check, Enter, Mutate, SubmitOther,
     Submit, Await, Decide, SubmitSetpoint, AfterSet, Poll, Sleep
<1>2. CASE Settle
  BY <1>2, StopAsked DEF Settle
<1>3. CASE Sweep /\ ~SetAndStart
  BY <1>3, StopAsked DEF Sweep, Adopt, Forget, Ready, Leg, Gate, Check, Ramp,
     LegDone, Merge, Optical, Order, SubmitDetach, SubmitOther, Submit,
     DetachEnds, Verdict, VerdictHandle, Report, StopRequired, EndpointOnly, DrainLook, DrainAsk
<1>4. CASE SetAndStart
  BY <1>4, StopAsked DEF SetAndStart, Look, Check, Mark, Order, SubmitSetpoint,
     Submit, Await, SubmitOther
<1>5. CASE Drain
  BY <1>5 DEF Drain
<1>6. CASE Owner
  BY <1>6 DEF Owner, OwnerTakes, Busy, StopWaits, Allowed, OwnerFinishes,
     OwnerTakesStop, OwnerFinishesStop
<1>7. CASE Gui
  BY <1>7, StopAsked DEF Gui, Ask, LookPrep, CallPrep, CancelMode, LookIssued, LookHandle,
     GuiStop, GuiPut
<1>8. CASE Ended
  BY <1>8 DEF Ended
<1> QED
  BY <1>1, <1>2, <1>3, <1>4, <1>5, <1>6, <1>7, <1>8 DEF Next, Worker

(* The worker stays in the part of its run that its kind allows.            *)
LEMMA WhereaboutsStep ==
  ASSUME WorkerOK, Whereabouts, Next
  PROVE  Whereabouts'
<1> USE DEF WorkerOK, Whereabouts, Preparing, Sweeping, Closing, Reporting, Goto, Quiet,
   workVars, guiVars, ctlVars, vars, Raise, Fails, Cancelled, Passes
<1>1. CASE Prepare
  BY <1>1 DEF Prepare, Look, Check, Enter, Mutate, SubmitOther, Submit, Await,
     RequestStop, StopHandle, Decide, SubmitSetpoint, AfterSet, Poll, Sleep
<1>2. CASE Settle
  BY <1>2 DEF Settle, RequestStop, StopHandle
<1>3. CASE Sweep /\ ~SetAndStart
  <2>1. CASE Adopt
    BY <2>1 DEF Adopt
  <2>2. CASE Forget
    BY <2>2 DEF Forget
  <2>3. CASE Ready
    BY <2>3 DEF Ready
  <2>4. CASE Leg
    BY <2>4 DEF Leg
  <2>5. CASE Gate
    BY <2>5 DEF Gate
  <2>6. CASE Check("gateSleep", "gate")
    BY <2>6 DEF Check
  <2>7. CASE Ramp("ramp", "spectrum")
    BY <2>7 DEF Ramp, LegDone
  <2>8. CASE Ramp("spectrum", "ramp")
    BY <2>8 DEF Ramp, LegDone
  <2>9. CASE Merge
    BY <2>9 DEF Merge
  <2>10. CASE Optical
    BY <2>10 DEF Optical
  <2>11. CASE Order("detach", SubmitDetach, "detachWait")
    BY <2>11 DEF Order, SubmitDetach, SubmitOther, Submit
  <2>12. CASE DetachEnds
    BY <2>12 DEF DetachEnds
  <2>13. CASE Verdict \/ VerdictHandle \/ Report
    BY <2>13 DEF Verdict, VerdictHandle, Report, StopRequired, EndpointOnly
  <2>14. CASE DrainLook
    BY <2>14 DEF DrainLook
  <2>15. CASE DrainAsk
    BY <2>15 DEF DrainAsk, RequestStop, StopHandle
  <2> QED BY <1>3, <2>1, <2>2, <2>3, <2>4, <2>5, <2>6, <2>7, <2>8, <2>9, <2>10, <2>11,
     <2>12, <2>13, <2>14, <2>15 DEF Sweep
<1>4. CASE SetAndStart
  BY <1>4 DEF SetAndStart, Look, Check, Mark, Order, SubmitSetpoint, Submit,
     Await, RequestStop, StopHandle, SubmitOther
<1>5. CASE Drain
  BY <1>5 DEF Drain
<1>6. CASE Owner
  BY <1>6 DEF Owner, OwnerTakes, Busy, StopWaits, Allowed, OwnerFinishes,
     OwnerTakesStop, OwnerFinishesStop
<1>7. CASE Gui
  <2>1. CASE Ask
    BY <2>1 DEF Ask
  <2>2. CASE LookPrep
    BY <2>2 DEF LookPrep
  <2>3. CASE CallPrep
    BY <2>3 DEF CallPrep
  <2>4. CASE CancelMode
    BY <2>4 DEF CancelMode
  <2>5. CASE LookIssued \/ LookHandle
    BY <2>5 DEF LookIssued, LookHandle
  <2>6. CASE GuiStop
    BY <2>6 DEF GuiStop, RequestStop, StopHandle
  <2>7. CASE GuiPut
    BY <2>7 DEF GuiPut
  <2> QED BY <1>7, <2>1, <2>2, <2>3, <2>4, <2>5, <2>6, <2>7 DEF Gui
<1>8. CASE Ended
  BY <1>8 DEF Ended
<1> QED
  BY <1>1, <1>2, <1>3, <1>4, <1>5, <1>6, <1>7, <1>8 DEF Next, Worker

(* The lock is held from the check to the submission, and by the worker only.*)
LEMMA LockInvStep ==
  ASSUME WorkerOK, Whereabouts, LockInv, Next
  PROVE  LockInv'
<1> USE DEF WorkerOK, Whereabouts, LockInv, Preparing, Sweeping, Closing, Reporting, Locked,
   Goto, Quiet, workVars, guiVars, ctlVars, vars, Raise, Fails, Cancelled,
   Passes
<1>1. CASE Prepare
  BY <1>1 DEF Prepare, Look, Check, Enter, Mutate, SubmitOther, Submit, Await,
     RequestStop, StopHandle, Decide, SubmitSetpoint, AfterSet, Poll, Sleep
<1>2. CASE Settle
  BY <1>2 DEF Settle, RequestStop, StopHandle
<1>3. CASE Sweep /\ ~SetAndStart
  BY <1>3 DEF Sweep, Adopt, Forget, Ready, Leg, Gate, Check, Ramp, LegDone,
     Merge, Optical, Order, SubmitDetach, SubmitOther, Submit, DetachEnds,
     Verdict, VerdictHandle, Report, StopRequired, EndpointOnly, DrainLook, DrainAsk, RequestStop,
     StopHandle
<1>4. CASE SetAndStart
  BY <1>4 DEF SetAndStart, Look, Check, Mark, Order, SubmitSetpoint, Submit,
     Await, RequestStop, StopHandle, SubmitOther
<1>5. CASE Drain
  BY <1>5 DEF Drain
<1>6. CASE Owner
  BY <1>6 DEF Owner, OwnerTakes, Busy, StopWaits, Allowed, OwnerFinishes,
     OwnerTakesStop, OwnerFinishesStop
<1>7. CASE Gui
  BY <1>7 DEF Gui, Ask, LookPrep, CallPrep, CancelMode, LookIssued, LookHandle, GuiStop,
     RequestStop, StopHandle, GuiPut
<1>8. CASE Ended
  BY <1>8 DEF Ended
<1> QED
  BY <1>1, <1>2, <1>3, <1>4, <1>5, <1>6, <1>7, <1>8 DEF Next, Worker

(* A Stop goes before every field command that is asked for with it.        *)
LEMMA ServiceInvStep ==
  ASSUME FlagsOK, ServiceOK, OrderInv, WorkerOK, Whereabouts, ServiceInv, DetachInv, Next
  PROVE  ServiceInv'
<1> USE DEF ServiceOK, OrderInv, WorkerOK, Whereabouts, ServiceInv, DetachInv,
   Preparing, Sweeping, Closing, Reporting, Flying, Leaving, FieldCommands, Goto, Quiet,
   workVars, guiVars, ctlVars, vars, Raise, Fails, Cancelled, Passes
<1>1. CASE Prepare
  BY <1>1, StopAsked DEF Prepare, Look, Check, Enter, Mutate, SubmitOther,
     Submit, Await, Decide, SubmitSetpoint, AfterSet, Poll, Sleep
<1>2. CASE Settle
  BY <1>2, StopAsked DEF Settle
<1>3. CASE Sweep /\ ~SetAndStart
  BY <1>3, StopAsked DEF Sweep, Adopt, Forget, Ready, Leg, Gate, Check, Ramp,
     LegDone, Merge, Optical, Order, SubmitDetach, SubmitOther, Submit,
     DetachEnds, Verdict, VerdictHandle, Report, StopRequired, EndpointOnly, DrainLook, DrainAsk
<1>4. CASE SetAndStart
  BY <1>4, StopAsked DEF SetAndStart, Look, Check, Mark, Order, SubmitSetpoint,
     Submit, Await, SubmitOther
<1>5. CASE Drain
  BY <1>5 DEF Drain
<1>6. CASE Owner
  BY <1>6 DEF Owner, OwnerTakes, Busy, StopWaits, Allowed, OwnerFinishes,
     OwnerTakesStop, OwnerFinishesStop
<1>7. CASE Gui
  <2>1. CASE Ask
    BY <2>1 DEF Ask
  <2>2. CASE LookPrep
    BY <2>2 DEF LookPrep
  <2>3. CASE CallPrep
    BY <2>3 DEF CallPrep
  <2>4. CASE CancelMode
    BY <2>4 DEF CancelMode
  <2>5. CASE LookIssued \/ LookHandle
    BY <2>5 DEF LookIssued, LookHandle
  <2>6. CASE GuiStop
    <3>1. pc' = pc /\ stopEvent' = stopEvent /\ UNCHANGED workVars
      BY <2>6 DEF GuiStop
    <3>2. OrderInv' /\ RequestStop
      BY <2>6, StopAsked DEF GuiStop
    <3>3. (pc \in {"start", "sweepStart"} /\ stops # <<>> => cEvent)'
      <4>1. CASE field = "left"
        BY <3>1, <3>2, <4>1 DEF RequestStop
      <4>2. CASE field # "left"
        BY <3>2, <4>2 DEF RequestStop
      <4> QED BY <4>1, <4>2
    <3>4. stopEvent
      BY <2>6 DEF GuiStop
    <3> QED BY <3>1, <3>2, <3>3, <3>4
  <2>7. CASE GuiPut
    BY <2>7 DEF GuiPut
  <2> QED BY <1>7, <2>1, <2>2, <2>3, <2>4, <2>5, <2>6, <2>7 DEF Gui
<1>8. CASE Ended
  BY <1>8 DEF Ended
<1> QED
  BY <1>1, <1>2, <1>3, <1>4, <1>5, <1>6, <1>7, <1>8 DEF Next, Worker

(* A detach is submitted only at the end of a sweep.                        *)
LEMMA DetachInvStep ==
  ASSUME FlagsOK, ServiceOK, OrderInv, WorkerOK, Whereabouts, DetachInv, Next
  PROVE  DetachInv'
<1> USE DEF ServiceOK, OrderInv, WorkerOK, Whereabouts, DetachInv, Preparing,
   Sweeping, Closing, Reporting, Flying, FieldCommands, Goto, Quiet, workVars, guiVars,
   ctlVars, vars, Raise, Fails, Cancelled, Passes
<1>1. CASE Prepare
  BY <1>1, StopAsked DEF Prepare, Look, Check, Enter, Mutate, SubmitOther,
     Submit, Await, Decide, SubmitSetpoint, AfterSet, Poll, Sleep
<1>2. CASE Settle
  BY <1>2, StopAsked DEF Settle
<1>3. CASE Sweep /\ ~SetAndStart
  BY <1>3, StopAsked DEF Sweep, Adopt, Forget, Ready, Leg, Gate, Check, Ramp,
     LegDone, Merge, Optical, Order, SubmitDetach, SubmitOther, Submit,
     DetachEnds, Verdict, VerdictHandle, Report, StopRequired, EndpointOnly, DrainLook, DrainAsk
<1>4. CASE SetAndStart
  BY <1>4, StopAsked DEF SetAndStart, Look, Check, Mark, Order, SubmitSetpoint,
     Submit, Await, SubmitOther
<1>5. CASE Drain
  BY <1>5 DEF Drain
<1>6. CASE Owner
  BY <1>6 DEF Owner, OwnerTakes, Busy, StopWaits, Allowed, OwnerFinishes,
     OwnerTakesStop, OwnerFinishesStop
<1>7. CASE Gui
  BY <1>7, StopAsked DEF Gui, Ask, LookPrep, CallPrep, CancelMode, LookIssued, LookHandle,
     GuiStop, GuiPut
<1>8. CASE Ended
  BY <1>8 DEF Ended
<1> QED
  BY <1>1, <1>2, <1>3, <1>4, <1>5, <1>6, <1>7, <1>8 DEF Next, Worker

(* A field command is noted before it is submitted, and the note is kept.   *)
LEMMA NoteInvStep ==
  ASSUME FlagsOK, ServiceOK, OrderInv, WorkerOK, Whereabouts, NoteInv, Next
  PROVE  NoteInv'
<1> USE DEF ServiceOK, WorkerOK, Whereabouts, NoteInv, Preparing, Sweeping,
   Closing, Reporting, Outstanding, Flying, FieldCommands, Goto, Quiet, workVars, guiVars,
   ctlVars, vars, Raise, Fails, Cancelled, Passes
<1>1. CASE Prepare
  <2>1. CASE Look("check", "lockMode")
    BY <2>1 DEF Look, Check
  <2>2. CASE Enter("lockMode", "mode")
    BY <2>2 DEF Enter
  <2>3. CASE Mutate("mode", SubmitOther("PREPARE"), FALSE, "modeWait")
    <3>1. prepIssued' = (prepIssued \/ FALSE)
      BY <2>3 DEF Mutate
    <3>2. UNCHANGED <<reached, prep, issued>> /\ pc' = "modeWait"
      BY <2>3 DEF Mutate, SubmitOther, Submit
    <3>3. ord'.cmd = "PREPARE"
      BY <2>3 DEF Mutate, SubmitOther, Submit
    <3>4. Outstanding' => reached
      BY <3>2, <3>3
    <3> QED BY <3>1, <3>2, <3>4
  <2>4. CASE Await("modeWait", "decide")
    <3>1. (Outstanding => issued \/ (prep /\ prepIssued))'
      BY <2>4, StopAsked DEF Await
    <3>2. pc' \in {"merge", "settle", "decide", "afterSet", "afterStart"}
      BY <2>4 DEF Await
    <3> QED BY <2>4, <3>1, <3>2 DEF Await
  <2>5. CASE Decide
    BY <2>5 DEF Decide
  <2>6. CASE Enter("lockSet", "set")
    BY <2>6 DEF Enter
  <2>7. CASE Mutate("set", SubmitSetpoint, TRUE, "setWait")
    BY <2>7 DEF Mutate, SubmitSetpoint, Submit
  <2>8. CASE Await("setWait", "afterSet")
    <3>1. (Outstanding => issued \/ (prep /\ prepIssued))'
      BY <2>8, StopAsked DEF Await
    <3>2. pc' \in {"merge", "settle", "decide", "afterSet", "afterStart"}
      BY <2>8 DEF Await
    <3> QED BY <2>8, <3>1, <3>2 DEF Await
  <2>9. CASE AfterSet
    BY <2>9 DEF AfterSet, Look, Check
  <2>10. CASE Enter("lockStart", "start")
    BY <2>10 DEF Enter
  <2>11. CASE Mutate("start", SubmitOther("START"), TRUE, "startWait")
    BY <2>11 DEF Mutate, SubmitOther, Submit
  <2>12. CASE Await("startWait", "afterStart")
    <3>1. (Outstanding => issued \/ (prep /\ prepIssued))'
      BY <2>12, StopAsked DEF Await
    <3>2. pc' \in {"merge", "settle", "decide", "afterSet", "afterStart"}
      BY <2>12 DEF Await
    <3> QED BY <2>12, <3>1, <3>2 DEF Await
  <2>13. CASE Look("afterStart", "poll")
    BY <2>13 DEF Look, Check
  <2>14. CASE Poll
    BY <2>14 DEF Poll
  <2>15. CASE Sleep("pollSleep", "poll")
    BY <2>15 DEF Sleep
  <2> QED BY <1>1, <2>1, <2>2, <2>3, <2>4, <2>5, <2>6, <2>7, <2>8, <2>9, <2>10, <2>11,
     <2>12, <2>13, <2>14, <2>15 DEF Prepare
<1>2. CASE Settle
  BY <1>2, StopAsked DEF Settle
<1>3. CASE Sweep /\ ~SetAndStart
  <2>1. CASE Adopt
    BY <2>1 DEF Adopt
  <2>2. CASE Forget
    BY <2>2 DEF Forget
  <2>3. CASE Ready
    BY <2>3 DEF Ready
  <2>4. CASE Leg
    BY <2>4 DEF Leg
  <2>5. CASE Gate
    BY <2>5 DEF Gate
  <2>6. CASE Check("gateSleep", "gate")
    BY <2>6 DEF Check
  <2>7. CASE Ramp("ramp", "spectrum")
    BY <2>7 DEF Ramp, LegDone
  <2>8. CASE Ramp("spectrum", "ramp")
    BY <2>8 DEF Ramp, LegDone
  <2>9. CASE Merge
    BY <2>9 DEF Merge
  <2>10. CASE Optical
    BY <2>10 DEF Optical
  <2>11. CASE Order("detach", SubmitDetach, "detachWait")
    BY <2>11 DEF Order, SubmitDetach, SubmitOther, Submit
  <2>12. CASE DetachEnds
    BY <2>12 DEF DetachEnds
  <2>13. CASE Verdict \/ VerdictHandle \/ Report
    BY <2>13 DEF Verdict, VerdictHandle, Report, StopRequired, EndpointOnly
  <2>14. CASE DrainLook
    BY <2>14 DEF DrainLook
  <2>15. CASE DrainAsk
    BY <2>15, StopAsked DEF DrainAsk
  <2> QED BY <1>3, <2>1, <2>2, <2>3, <2>4, <2>5, <2>6, <2>7, <2>8, <2>9, <2>10, <2>11,
     <2>12, <2>13, <2>14, <2>15 DEF Sweep
<1>4. CASE SetAndStart
  BY <1>4, StopAsked DEF SetAndStart, Look, Check, Mark, Order, SubmitSetpoint,
     Submit, Await, SubmitOther
<1>5. CASE Drain
  BY <1>5 DEF Drain
<1>6. CASE Owner
  <2>1. CASE OwnerTakes
    BY <2>1 DEF OwnerTakes, Busy, StopWaits, Allowed
  <2>2. CASE OwnerFinishes
    BY <2>2 DEF OwnerFinishes, Busy, StopWaits
  <2>3. CASE OwnerTakesStop
    BY <2>3 DEF OwnerTakesStop, Busy, StopWaits
  <2>4. CASE OwnerFinishesStop
    BY <2>4 DEF OwnerFinishesStop, Busy, StopWaits
  <2> QED BY <1>6, <2>1, <2>2, <2>3, <2>4 DEF Owner
<1>7. CASE Gui
  BY <1>7, StopAsked DEF Gui, Ask, LookPrep, CallPrep, CancelMode, LookIssued, LookHandle,
     GuiStop, GuiPut
<1>8. CASE Ended
  BY <1>8 DEF Ended
<1> QED
  BY <1>1, <1>2, <1>3, <1>4, <1>5, <1>6, <1>7, <1>8 DEF Next, Worker

(* A worker ends silently only after a Stop it has seen succeed.            *)
LEMMA StoppedInvStep ==
  ASSUME FlagsOK, ServiceOK, OrderInv, HandlesOK, WorkerOK, Whereabouts, NoteInv, StoppedInv, Next
  PROVE  StoppedInv'
<1> USE DEF HandlesOK, ServiceOK, OrderInv, WorkerOK, Whereabouts, NoteInv,
   StoppedInv, Preparing, Sweeping, Closing, Reporting, Outstanding, Flying, Refused,
   FieldCommands, Goto, Quiet, workVars, guiVars, ctlVars, vars, Raise, Fails,
   Cancelled, Passes
<1>1. CASE Prepare
  BY <1>1, StopAsked DEF Prepare, Look, Check, Enter, Mutate, SubmitOther,
     Submit, Await, Decide, SubmitSetpoint, AfterSet, Poll, Sleep
<1>2. CASE Settle
  BY <1>2, StopAsked DEF Settle
<1>3. CASE Sweep /\ ~SetAndStart
  BY <1>3, StopAsked DEF Sweep, Adopt, Forget, Ready, Leg, Gate, Check, Ramp,
     LegDone, Merge, Optical, Order, SubmitDetach, SubmitOther, Submit,
     DetachEnds, Verdict, VerdictHandle, Report, StopRequired, EndpointOnly, DrainLook, DrainAsk
<1>4. CASE SetAndStart
  BY <1>4, StopAsked DEF SetAndStart, Look, Check, Mark, Order, SubmitSetpoint,
     Submit, Await, SubmitOther
<1>5. CASE Drain
  BY <1>5 DEF Drain
<1>6. CASE Owner
  <2>1. CASE OwnerTakes
    BY <2>1 DEF OwnerTakes, Busy, StopWaits, Allowed
  <2>2. CASE OwnerFinishes
    BY <2>2 DEF OwnerFinishes, Busy, StopWaits
  <2>3. CASE OwnerTakesStop
    BY <2>3 DEF OwnerTakesStop, Busy, StopWaits
  <2>4. CASE OwnerFinishesStop
    BY <2>4 DEF OwnerFinishesStop, Busy, StopWaits
  <2> QED BY <1>6, <2>1, <2>2, <2>3, <2>4 DEF Owner
<1>7. CASE Gui
  BY <1>7, StopAsked DEF Gui, Ask, LookPrep, CallPrep, CancelMode, LookIssued, LookHandle,
     GuiStop, GuiPut
<1>8. CASE Ended
  BY <1>8 DEF Ended
<1> QED
  BY <1>1, <1>2, <1>3, <1>4, <1>5, <1>6, <1>7, <1>8 DEF Next, Worker

(* A use that has succeeded has its field on, or handed over.               *)
LEMMA SuccessInvStep ==
  ASSUME FlagsOK, ServiceOK, OrderInv, WorkerOK, Whereabouts, ServiceInv, DetachInv, SuccessInv, Next
  PROVE  SuccessInv'
<1> USE DEF ServiceOK, OrderInv, WorkerOK, Whereabouts, ServiceInv, DetachInv,
   SuccessInv, Preparing, Sweeping, Closing, Reporting, Leaving, Flying, FieldCommands,
   Goto, Quiet, workVars, guiVars, ctlVars, vars, Raise, Fails, Cancelled,
   Passes
<1>1. CASE Prepare
  <2>1. CASE Look("check", "lockMode")
    BY <2>1 DEF Look, Check
  <2>2. CASE Enter("lockMode", "mode")
    BY <2>2 DEF Enter
  <2>3. CASE Mutate("mode", SubmitOther("PREPARE"), FALSE, "modeWait")
    BY <2>3 DEF Mutate, SubmitOther, Submit
  <2>4. CASE Await("modeWait", "decide")
    BY <2>4, StopAsked DEF Await
  <2>5. CASE Decide
    BY <2>5 DEF Decide
  <2>6. CASE Enter("lockSet", "set")
    BY <2>6 DEF Enter
  <2>7. CASE Mutate("set", SubmitSetpoint, TRUE, "setWait")
    BY <2>7 DEF Mutate, SubmitSetpoint, Submit
  <2>8. CASE Await("setWait", "afterSet")
    BY <2>8, StopAsked DEF Await
  <2>9. CASE AfterSet
    BY <2>9 DEF AfterSet, Look, Check
  <2>10. CASE Enter("lockStart", "start")
    BY <2>10 DEF Enter
  <2>11. CASE Mutate("start", SubmitOther("START"), TRUE, "startWait")
    BY <2>11 DEF Mutate, SubmitOther, Submit
  <2>12. CASE Await("startWait", "afterStart")
    BY <2>12, StopAsked DEF Await
  <2>13. CASE Look("afterStart", "poll")
    BY <2>13 DEF Look, Check
  <2>14. CASE Poll
    BY <2>14 DEF Poll
  <2>15. CASE Sleep("pollSleep", "poll")
    BY <2>15 DEF Sleep
  <2> QED BY <1>1, <2>1, <2>2, <2>3, <2>4, <2>5, <2>6, <2>7, <2>8, <2>9, <2>10, <2>11,
     <2>12, <2>13, <2>14, <2>15 DEF Prepare
<1>2. CASE Settle
  BY <1>2, StopAsked DEF Settle
<1>3. CASE Sweep /\ ~SetAndStart
  BY <1>3, StopAsked DEF Sweep, Adopt, Forget, Ready, Leg, Gate, Check, Ramp,
     LegDone, Merge, Optical, Order, SubmitDetach, SubmitOther, Submit,
     DetachEnds, Verdict, VerdictHandle, Report, StopRequired, EndpointOnly, DrainLook, DrainAsk
<1>4. CASE SetAndStart
  BY <1>4, StopAsked DEF SetAndStart, Look, Check, Mark, Order, SubmitSetpoint,
     Submit, Await, SubmitOther
<1>5. CASE Drain
  BY <1>5 DEF Drain
<1>6. CASE Owner
  <2>1. CASE OwnerTakes
    BY <2>1 DEF OwnerTakes, Busy, StopWaits, Allowed
  <2>2. CASE OwnerFinishes
    <3>1. UNCHANGED <<pc, kind, status, needsStart, stops>> /\ ord'.cmd = ord.cmd
      BY <2>2 DEF OwnerFinishes
    <3>2. CASE ord.cmd # "DETACH"
      <4>1. /\ field = "on" => field' = "on"
            /\ field = "left" => field' = "left"
            /\ ord.cmd = "START" /\ ord'.st = "ok" => field' = "on"
        BY <2>2, <3>2 DEF OwnerFinishes
      <4> QED BY <3>1, <3>2, <4>1
    <3>3. CASE ord.cmd = "DETACH"
      <4>1. kind = "sweep" /\ pc \notin Preparing \cup Sweeping
        BY <3>3
      <4>2. field = "left" => field' = "left"
        BY <2>2 DEF OwnerFinishes
      <4> QED BY <3>1, <3>3, <4>1, <4>2
    <3> QED BY <3>2, <3>3
  <2>3. CASE OwnerTakesStop
    BY <2>3 DEF OwnerTakesStop, Busy, StopWaits
  <2>4. CASE OwnerFinishesStop
    BY <2>4 DEF OwnerFinishesStop, Busy, StopWaits
  <2> QED BY <1>6, <2>1, <2>2, <2>3, <2>4 DEF Owner
<1>7. CASE Gui
  BY <1>7, StopAsked DEF Gui, Ask, LookPrep, CallPrep, CancelMode, LookIssued, LookHandle,
     GuiStop, GuiPut
<1>8. CASE Ended
  BY <1>8 DEF Ended
<1> QED
  BY <1>1, <1>2, <1>3, <1>4, <1>5, <1>6, <1>7, <1>8 DEF Next, Worker

(* An uncancelled sweep that missed its start asks for no Stop.             *)
LEMMA EndpointInvStep ==
  ASSUME FlagsOK, ServiceOK, OrderInv, WorkerOK, Whereabouts, ServiceInv, DetachInv,
         SuccessInv, EndpointInv, Next
  PROVE  EndpointInv'
<1> USE DEF ServiceOK, WorkerOK, Whereabouts, ServiceInv, DetachInv, SuccessInv,
   EndpointInv, Flying, FieldCommands, Preparing, Sweeping, Closing, Reporting, Leaving, Goto, Quiet, workVars, guiVars, ctlVars, vars,
   Raise, Fails, Cancelled, Passes
<1>1. CASE Prepare
  <2>1. CASE Look("check", "lockMode")
    BY <2>1 DEF Look, Check
  <2>2. CASE Enter("lockMode", "mode")
    BY <2>2 DEF Enter
  <2>3. CASE Mutate("mode", SubmitOther("PREPARE"), FALSE, "modeWait")
    BY <2>3 DEF Mutate, SubmitOther, Submit
  <2>4. CASE Await("modeWait", "decide")
    BY <2>4, StopAsked DEF Await
  <2>5. CASE Decide
    BY <2>5 DEF Decide
  <2>6. CASE Enter("lockSet", "set")
    BY <2>6 DEF Enter
  <2>7. CASE Mutate("set", SubmitSetpoint, TRUE, "setWait")
    BY <2>7 DEF Mutate, SubmitSetpoint, Submit
  <2>8. CASE Await("setWait", "afterSet")
    BY <2>8, StopAsked DEF Await
  <2>9. CASE AfterSet
    BY <2>9 DEF AfterSet, Look, Check
  <2>10. CASE Enter("lockStart", "start")
    BY <2>10 DEF Enter
  <2>11. CASE Mutate("start", SubmitOther("START"), TRUE, "startWait")
    BY <2>11 DEF Mutate, SubmitOther, Submit
  <2>12. CASE Await("startWait", "afterStart")
    BY <2>12, StopAsked DEF Await
  <2>13. CASE Look("afterStart", "poll")
    BY <2>13 DEF Look, Check
  <2>14. CASE Poll
    BY <2>14 DEF Poll
  <2>15. CASE Sleep("pollSleep", "poll")
    BY <2>15 DEF Sleep
  <2> QED BY <1>1, <2>1, <2>2, <2>3, <2>4, <2>5, <2>6, <2>7, <2>8, <2>9, <2>10, <2>11,
     <2>12, <2>13, <2>14, <2>15 DEF Prepare
<1>2. CASE Settle
  BY <1>2, StopAsked DEF Settle
<1>3. CASE Sweep /\ ~SetAndStart
  <2>1. CASE Adopt
    BY <2>1 DEF Adopt
  <2>2. CASE Forget
    BY <2>2 DEF Forget
  <2>3. CASE Ready
    BY <2>3 DEF Ready
  <2>4. CASE Leg
    BY <2>4 DEF Leg
  <2>5. CASE Gate
    BY <2>5 DEF Gate
  <2>6. CASE Check("gateSleep", "gate")
    BY <2>6 DEF Check
  <2>7. CASE Ramp("ramp", "spectrum")
    BY <2>7 DEF Ramp, LegDone
  <2>8. CASE Ramp("spectrum", "ramp")
    BY <2>8 DEF Ramp, LegDone
  <2>9. CASE Merge
    BY <2>9 DEF Merge
  <2>10. CASE Optical
    BY <2>10 DEF Optical
  <2>11. CASE Order("detach", SubmitDetach, "detachWait")
    BY <2>11 DEF Order, SubmitDetach, SubmitOther, Submit
  <2>12. CASE DetachEnds
    BY <2>12 DEF DetachEnds
  <2>13. CASE Verdict \/ VerdictHandle \/ Report
    BY <2>13 DEF Verdict, VerdictHandle, Report, StopRequired, EndpointOnly
  <2>14. CASE DrainLook
    BY <2>14 DEF DrainLook
  <2>15. CASE DrainAsk
    BY <2>15, StopAsked DEF DrainAsk
  <2> QED BY <1>3, <2>1, <2>2, <2>3, <2>4, <2>5, <2>6, <2>7, <2>8, <2>9, <2>10, <2>11,
     <2>12, <2>13, <2>14, <2>15 DEF Sweep
<1>4. CASE SetAndStart
  <2>1. CASE Look("markCheck", "mark")
    BY <2>1 DEF Look, Check
  <2>2. CASE Mark
    BY <2>2 DEF Mark
  <2>3. CASE Order("sweepSet", SubmitSetpoint, "sweepSetWait")
    BY <2>3 DEF Order, SubmitSetpoint, Submit
  <2>4. CASE Await("sweepSetWait", "sweepCheck")
    BY <2>4, StopAsked DEF Await
  <2>5. CASE Check("sweepCheck", "sweepStart")
    BY <2>5 DEF Check
  <2>6. CASE Order("sweepStart", SubmitOther("START"), "sweepStartWait")
    BY <2>6 DEF Order, SubmitOther, Submit
  <2>7. CASE Await("sweepStartWait", IF toStart THEN "gate" ELSE "ramp")
    BY <2>7, StopAsked DEF Await
  <2> QED BY <1>4, <2>1, <2>2, <2>3, <2>4, <2>5, <2>6, <2>7 DEF SetAndStart
<1>5. CASE Drain
  BY <1>5 DEF Drain
<1>6. CASE Owner
  BY <1>6 DEF Owner, OwnerTakes, Busy, StopWaits, Allowed, OwnerFinishes,
     OwnerTakesStop, OwnerFinishesStop
<1>7. CASE Gui
  BY <1>7, StopAsked DEF Gui, Ask, LookPrep, CallPrep, CancelMode, LookIssued, LookHandle,
     GuiStop, GuiPut
<1>8. CASE Ended
  BY <1>8 DEF Ended
<1> QED
  BY <1>1, <1>2, <1>3, <1>4, <1>5, <1>6, <1>7, <1>8 DEF Next, Worker

-----------------------------------------------------------------------------
(* The invariant is inductive. *)

LEMMA Initially == Init => IInv
<1> SUFFICES ASSUME Init PROVE IInv
  OBVIOUS
<1> USE DEF Init, Preparing, Sweeping, Closing, Reporting, Leaving, Locked, FieldCommands,
   Flying, Idle
<1>1. stops \in Seq(Flying \cup {"ok", "failed"}) /\ DOMAIN stops = {}
  OBVIOUS
<1>2. FlagsOK
  BY DEF FlagsOK, WorkFlagsOK, OtherFlagsOK
<1>3. WorkerOK
  BY LegsAssumption, CancelsAssumption DEF WorkerOK
<1>4. ServiceOK /\ HandlesOK
  BY <1>1 DEF ServiceOK, HandlesOK
<1>5. Whereabouts /\ LockInv
  BY DEF Whereabouts, LockInv
<1>6. ServiceInv /\ DetachInv
  BY <1>1 DEF ServiceInv, OrderInv, DetachInv
<1>7. NoteInv /\ StoppedInv
  BY DEF NoteInv, StoppedInv, Outstanding
<1>8. SuccessInv /\ EndpointInv
  BY DEF SuccessInv, EndpointInv
<1> QED
  BY <1>2, <1>3, <1>4, <1>5, <1>6, <1>7, <1>8 DEF IInv, TypeOK

LEMMA Inductive == IInv /\ [Next]_vars => IInv'
<1> SUFFICES ASSUME IInv, [Next]_vars PROVE IInv'
  OBVIOUS
<1>1. CASE Next
  <2>1. FlagsOK'
    BY <1>1, WorkFlagsOKStep, OtherFlagsOKStep DEF IInv, TypeOK, FlagsOK
  <2>2. WorkerOK' /\ ServiceOK' /\ HandlesOK'
    BY <1>1, WorkerOKStep, ServiceOKStep, HandlesOKStep DEF IInv, TypeOK, ServiceInv
  <2>3. Whereabouts' /\ LockInv' /\ ServiceInv' /\ DetachInv'
    BY <1>1, WhereaboutsStep, LockInvStep, ServiceInvStep, DetachInvStep
       DEF IInv, TypeOK, ServiceInv
  <2>4. NoteInv' /\ StoppedInv'
    BY <1>1, NoteInvStep, StoppedInvStep DEF IInv, TypeOK, ServiceInv
  <2>5. SuccessInv' /\ EndpointInv'
    BY <1>1, SuccessInvStep, EndpointInvStep DEF IInv, TypeOK, ServiceInv
  <2> QED BY <2>1, <2>2, <2>3, <2>4, <2>5 DEF IInv, TypeOK
<1>2. CASE UNCHANGED vars
  BY <1>2 DEF vars, workVars, guiVars, ctlVars, IInv, TypeOK, FlagsOK, WorkFlagsOK,
     OtherFlagsOK, WorkerOK, ServiceOK, HandlesOK, Whereabouts, LockInv,
     ServiceInv, OrderInv, DetachInv, NoteInv, Outstanding, StoppedInv,
     SuccessInv, EndpointInv
<1> QED BY <1>1, <1>2

LEMMA Always == Spec => []IInv
  BY Initially, Inductive, PTL DEF Spec

-----------------------------------------------------------------------------
(* What follows from it. *)

(* Every variable keeps its type, whatever the worker, the owner and the GUI *)
(* do; in particular every handle is that of a Stop that was asked for.      *)
THEOREM TypeCorrect == Spec => []TypeOK
<1>1. IInv => TypeOK
  BY DEF IInv
<1> QED BY <1>1, Always, PTL

(* Once request_cancel has had the preparation's lock, no field command of   *)
(* the preparation is about to be submitted.                                 *)
THEOREM CancellationExcludesSubmission == Spec => []CancelExcludesSubmission
<1>1. IInv => CancelExcludesSubmission
  BY DEF IInv, LockInv, Locked, CancelExcludesSubmission
<1> QED BY <1>1, Always, PTL

(* A use of the magnet that ends silently without success leaves the field   *)
(* off, with no START to come: it has had a Stop that succeeded, and behind  *)
(* a Stop no START is allowed.                                               *)
THEOREM SilentEndsAreStopped == Spec => []EndsStopped
<1>1. IInv => EndsStopped
  <2> SUFFICES ASSUME IInv, pc = "ended", reached, status # "COMPLETED", ~cleanup,
                      report # "left"
               PROVE  /\ field = "off"
                      /\ ord.cmd = "START" => /\ ord.st # "running"
                                              /\ ord.st = "queued" => ~Allowed
    BY DEF EndsStopped
  <2>1. PICK s \in DOMAIN stops : stops[s] = "ok"
    BY DEF IInv, StoppedInv, Outstanding
  <2>2. field = "off" /\ (ord.cmd = "START" => ord.st # "running")
    BY <2>1 DEF IInv, ServiceInv, OrderInv
  <2>3. ord.cmd = "START" /\ ord.st = "queued" => cEvent
    BY <2>1 DEF IInv, ServiceInv, OrderInv
  <2> QED BY <2>2, <2>3 DEF Allowed
<1> QED BY <1>1, Always, PTL

(* A use that reports COMPLETED passes its field on, unstopped.              *)
THEOREM CompletedPassesFieldOn == Spec => []CompletedKeepsField
<1>1. IInv => CompletedKeepsField
  <2> SUFFICES ASSUME IInv, pc = "ended", status = "COMPLETED"
               PROVE  cstop = 0 /\ field = IF kind = "sweep" THEN "left" ELSE "on"
    BY DEF CompletedKeepsField
  <2>1. CASE kind = "sweep"
    BY <2>1 DEF IInv, SuccessInv, DetachInv
  <2>2. CASE kind = "prepare"
    <3>1. stops = <<>> /\ field = "on"
      BY <2>2 DEF IInv, SuccessInv
    <3>2. cstop \in {0} \cup DOMAIN stops
      BY DEF IInv, TypeOK, ServiceOK
    <3> QED BY <2>2, <3>1, <3>2
  <2> QED BY <2>1, <2>2 DEF IInv, TypeOK, WorkerOK
<1> QED BY <1>1, Always, PTL

(* Only the owner changes the field.                                         *)
LEMMA FieldMoves ==
  Next => field' = field \/ OwnerFinishes \/ OwnerFinishesStop
  BY DEF Next, Worker, Prepare, Settle, Sweep, SetAndStart, Drain, Owner, Gui, Ended,
     Look, Check, Enter, Mutate, SubmitOther, SubmitSetpoint, SubmitDetach, Submit,
     Await, RequestStop, Decide, AfterSet, Poll, Sleep, Adopt, Forget, Ready, Leg, Mark,
     Order, Gate, Ramp, Merge, Optical, DetachEnds, Verdict, VerdictHandle, Report, DrainLook, DrainAsk,
     OwnerTakes, OwnerTakesStop, Ask, LookPrep, CallPrep, CancelMode, LookIssued, LookHandle,
     GuiStop, GuiPut, Quiet, vars, ctlVars

(* No START takes effect after a Stop of this use that succeeded.            *)
THEOREM StartsBeforeStops == Spec => NoStartAfterStop
<1>1. IInv /\ [Next]_vars =>
        [field' = "on" /\ field = "off" => \A s \in DOMAIN stops : stops[s] # "ok"]_vars
  <2> SUFFICES ASSUME IInv, Next, field' = "on", field = "off"
               PROVE  \A s \in DOMAIN stops : stops[s] # "ok"
    OBVIOUS
  <2>1. OwnerFinishes
    BY FieldMoves DEF OwnerFinishesStop
  <2>2. ord.st = "running" /\ ord.cmd = "START"
    BY <2>1 DEF OwnerFinishes
  <2> QED BY <2>2 DEF IInv, ServiceInv, OrderInv
<1> QED BY <1>1, Always, PTL DEF Spec, NoStartAfterStop

(* Only its look at stop_event lets a run leave its field.                   *)
LEMMA Leaves ==
  Next /\ pc = "verdict" /\ pc' = "verdictHandle" => exc = "endpoint" /\ ~stopEvent
<1> SUFFICES ASSUME Next, pc = "verdict", pc' = "verdictHandle" PROVE EndpointOnly
  BY DEF EndpointOnly
<1>1. CASE Worker
  BY <1>1 DEF Worker, Prepare, Settle, Sweep, SetAndStart, Drain, Look, Check, Enter, Mutate,
     Await, Decide, AfterSet, Poll, Sleep, Adopt, Forget, Ready, Leg, Mark, Order, Gate, Ramp,
     Merge, Optical, DetachEnds, Verdict, VerdictHandle, Report, DrainLook, DrainAsk, Goto
<1>2. pc' = pc => FALSE
  OBVIOUS
<1>3. CASE Owner \/ Gui \/ Ended
  BY <1>2, <1>3 DEF Owner, Gui, Ended, OwnerTakes, OwnerFinishes, OwnerTakesStop,
     OwnerFinishesStop, Ask, LookPrep, CallPrep, CancelMode, LookIssued, LookHandle, GuiStop,
     GuiPut, vars
<1> QED BY <1>1, <1>3 DEF Next

(* A run that decides to leave its field on has it on, and had no Stop.      *)
THEOREM LeftFieldsAreUnstopped == Spec => LeftUnstopped
<1>1. IInv /\ [Next]_vars =>
        [pc = "verdict" /\ pc' = "verdictHandle" => stops = <<>> /\ field = "on"]_vars
  BY Leaves DEF IInv, EndpointInv, Closing, Reporting
<1> QED BY <1>1, Always, PTL DEF Spec, LeftUnstopped
=============================================================================
