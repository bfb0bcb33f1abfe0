------------------------ MODULE Atto2100Controller ------------------------
(***************************************************************************)
(* The request protocol of controllers/attodry2100_controller.py: client   *)
(* threads submit requests through a mailbox to the one thread that owns   *)
(* the vendor SDK, watchdog timers give up on slow requests, and the       *)
(* thread of the controller object (the GUI thread) applies the owner's    *)
(* queued signals to what it caches.                                       *)
(*                                                                         *)
(* Requests are numbered in the order they are created.  Creation and      *)
(* enqueueing share one lock section, so the ordinary mailbox is a set and *)
(* its FIFO order is the order of the numbers.  A call the controller      *)
(* refuses (_immediate_failure) creates no number; only the side effects   *)
(* it has before refusing are modelled.  A call that lets go of the lock   *)
(* between a check and what it does with it is in `past' in between, with  *)
(* the step it takes next.                                                 *)
(*                                                                         *)
(* The two display groups are independent copies of one slot and one       *)
(* cache; one group is modelled.  Clock ages, telemetry values and         *)
(* diagnostics records are abstracted.                                     *)
(***************************************************************************)
EXTENDS Naturals, Sequences, FiniteSets

CONSTANTS
  MaxCalls,   \* bound: requests the callers create (watchdogs may add Stops)
  Ops         \* the ordinary commands callers use in this instance

Plain == {"READ", "PREFLIGHT", "VERIFY", "STOP_T"}
Commands == Plain \cup {"CONNECT", "DISCONNECT", "DISPLAY", "RAMP", "SETPOINT",
              "START", "CONFIG_T", "PREPARE", "DETACH", "STOP", "SHUTDOWN"}

ASSUME BoundAssumption == MaxCalls \in Nat \ {0}
ASSUME OpsAssumption == Ops \subseteq Commands

NoReq == 0
Req == 1..(2 * MaxCalls)

OwnerStates == {"DISCONNECTED", "CONNECTING", "IDLE", "ARMED", "ACTIVE", "DETACHED",
                "STOPPING", "FAULTED", "SHUTTING_DOWN", "TERMINATED", "PREPARING",
                "RECOVERY_REQUIRED"}
CachedStates == OwnerStates \cup {"DETACHING", "TIMED_OUT_DRAINING"}
NoState == "none"

FieldMutations == {"SETPOINT", "START"}
Mutations == FieldMutations \cup {"CONFIG_T", "STOP_T"}
QueuedMutations == Mutations \cup {"PREPARE"}      \* what cancel_queued takes out
LifecycleWithoutDetach == {"CONNECT", "DISCONNECT", "SHUTDOWN"}         \* mutant
LifecycleOps == {"CONNECT", "DISCONNECT", "SHUTDOWN", "DETACH"}
ConnectedStates == {"IDLE", "ARMED", "ACTIVE"}
Working == {"QUEUED", "RUNNING", "DRAINING"}

(* What a caller past its check does next: submit, or a step of Shutdown.    *)
Submissions == {"SETPOINT", "CONFIG_T", "CONNECT", "DISCONNECT"}
Gaps == Submissions \cup {"RAISE", "SWEEP", "CREATE"}

VARIABLES
  req,        \* Req -> record of the request
  count,      \* how many requests exist
  ordinary, stopSlot, shutSlot,              \* _CommandMailbox
  cur, opc,   \* the owner thread: the request it executes, and where it is
  ostate, ogen, adapter, armed, mayBeActive, prevState, deferred,   \* owner
  cstate, cgen, stopH, shutH, prepH,         \* controller: caches and handles
  reserved, committed, recovery,             \* _lifecycle
  stopEvt, tempEvt, prepEvt,                 \* the threading.Events
  slot, cache,                               \* display broker, one group
  past,       \* callers between two lock sections of their call
  sig, thread,                               \* queued Qt signals, owner QThread
  field, mode, session                       \* the magnet, and connects so far

mailVars  == <<ordinary, stopSlot, shutSlot>>
ownVars   == <<ostate, ogen, adapter, armed, mayBeActive, prevState, deferred>>
ctlVars   == <<cstate, cgen, stopH, shutH, prepH>>
lifeVars  == <<reserved, committed, recovery>>
evtVars   == <<stopEvt, tempEvt, prepEvt>>
dispVars  == <<slot, cache>>
hwVars    == <<field, mode, session>>
vars == <<req, count, mailVars, cur, opc, ownVars, ctlVars, lifeVars, evtVars,
          dispVars, past, sig, thread, hwVars>>

StateSig(s)    == [kind |-> "state", state |-> s, req |-> NoReq]
TerminalSig(r) == [kind |-> "terminal", state |-> NoState, req |-> r]
QuitSig        == [kind |-> "quit", state |-> NoState, req |-> NoReq]
FinishedSig    == [kind |-> "finished", state |-> NoState, req |-> NoReq]

Unused == [cmd |-> "READ", state |-> "UNUSED", gen |-> 0, client |-> "none",
           drained |-> FALSE, reg |-> FALSE, timer |-> "off", val |-> 0]
NoCache == [gen |-> 0, val |-> 0]

Init ==
  /\ req = [r \in Req |-> Unused] /\ count = 0
  /\ ordinary = {} /\ stopSlot = NoReq /\ shutSlot = NoReq
  /\ cur = NoReq /\ opc = "idle"
  /\ ostate = "DISCONNECTED" /\ ogen = 0 /\ adapter = FALSE /\ armed = FALSE
  /\ mayBeActive = FALSE /\ prevState = "DISCONNECTED" /\ deferred = NoReq
  /\ cstate = "DISCONNECTED" /\ cgen = 1
  /\ stopH = NoReq /\ shutH = NoReq /\ prepH = NoReq
  /\ reserved = FALSE /\ committed = FALSE /\ recovery = FALSE
  /\ stopEvt = FALSE /\ tempEvt = FALSE /\ prepEvt = FALSE
  /\ slot = NoReq /\ cache = NoCache /\ past = {}
  /\ sig = <<>> /\ thread = "running"
  /\ field = "off" /\ mode \in {"persistent", "driven"} /\ session = 0

-----------------------------------------------------------------------------
(* The request registry and the mailbox.                                     *)

Active(r) == req[r].reg /\ req[r].state \in Working
Pending(C) == \E r \in Req : req[r].cmd \in C /\ Active(r)
HasPendingWork == Pending(Commands)

(* val: the connection a call was made on; of a reading, where it was made.   *)
Fresh(c) == [cmd |-> c, state |-> "QUEUED", gen |-> cgen, client |-> "none",
             drained |-> FALSE, reg |-> TRUE, timer |-> "armed", val |-> session]
CancelledStillQueued(q) == [req[q] EXCEPT !.client = "err", !.drained = TRUE,
                                          !.timer = "spent"]                \* mutant
CancelledUnanswered(q) == [req[q] EXCEPT !.state = "CANCELLED", !.drained = TRUE,
                                         !.timer = "spent"]                 \* mutant
CancelledReq(q) == [req[q] EXCEPT !.state = "CANCELLED", !.client = "err",
                                  !.drained = TRUE, !.timer = "spent"]
Dropped(q) == [CancelledReq(q) EXCEPT !.reg = FALSE]

(* _new_request and enqueue. *)
Create(c) ==
  /\ count' = count + 1
  /\ req' = [req EXCEPT ![count + 1] = Fresh(c)]

Enqueue(c) == Create(c) /\ ordinary' = ordinary \cup {count + 1}

(* Callers pass a check independently: one that goes on may leave another at  *)
(* the same place.  Bound: every caller in `past' has its request set aside.  *)
CallerMayCreate == count < MaxCalls
CallerMayCall == CallerMayCreate /\ count + Cardinality(past) < MaxCalls
Enter(g) == past' = past \cup {g}
Leave(g, then) ==
  /\ past' \in {past \cup then, (past \ {g}) \cup then}
  /\ g \in past' => count' + Cardinality(past') <= MaxCalls

(* _ordinary_allowed, and the admission test of _submit_ordinary.            *)
OrdinaryAllowed ==
  /\ \A r \in Req : ~(req[r].reg /\ req[r].state = "DRAINING")
  /\ shutH = NoReq
  /\ cstate \notin {"DETACHING", "DETACHED"}

AdmittedByCachedState(c) ==                                             \* mutant
  /\ OrdinaryAllowed /\ cstate # "PREPARING" /\ ~Pending({"RAMP"})
  /\ c \in Mutations \cup {"RAMP"} => ~recovery
  /\ c = "RAMP" => adapter /\ ostate \in ConnectedStates /\ ~HasPendingWork
Admitted(c) ==
  /\ OrdinaryAllowed
  /\ ~Pending({"PREPARE", "RAMP"})
  /\ c \in Mutations \cup {"RAMP"} => ~recovery
  /\ c = "RAMP" => adapter /\ ostate \in ConnectedStates /\ ~HasPendingWork

-----------------------------------------------------------------------------
(* Calls by client threads.                                                  *)

SubmitPlain(c) ==
  /\ c \in Plain \cup {"RAMP", "START"}
  /\ CallerMayCall /\ Admitted(c) /\ Enqueue(c)
  /\ UNCHANGED <<stopSlot, shutSlot, cur, opc, ownVars, ctlVars, lifeVars,
                 evtVars, dispVars, past, sig, thread, hwVars>>

ConnectAsync ==
  /\ cstate = "DISCONNECTED" /\ ~HasPendingWork
  /\ CallerMayCall /\ Enter("CONNECT")
  /\ thread' = IF thread = "stopped" THEN "running" ELSE thread
  /\ UNCHANGED <<req, count, mailVars, cur, opc, ownVars, ctlVars, lifeVars,
                 evtVars, dispVars, sig, hwVars>>

DisconnectAsync ==
  /\ ~HasPendingWork
  /\ CallerMayCall /\ Enter("DISCONNECT")
  /\ UNCHANGED <<req, count, mailVars, cur, opc, ownVars, ctlVars, lifeVars,
                 evtVars, dispVars, sig, thread, hwVars>>

ForgetEventOnly == stopH' = stopH /\ stopEvt' = (stopEvt /\ stopH = NoReq) \* mutant
ForgetStop == stopH' = NoReq /\ stopEvt' = (stopEvt /\ stopH = NoReq)

(* set_h_setpoint_async and configure_sample_temperature_async: a Stop that   *)
(* has not succeeded refuses the call, one that has is forgotten.            *)
CheckStop(c) ==
  /\ c \in {"SETPOINT", "CONFIG_T"} /\ CallerMayCall
  /\ tempEvt' = (tempEvt /\ c # "CONFIG_T")
  /\ IF stopH # NoReq /\ req[stopH].state # "SUCCEEDED"
       THEN UNCHANGED <<stopH, stopEvt, past>>
       ELSE ForgetStop /\ Enter(c)
  /\ UNCHANGED <<req, count, mailVars, cur, opc, ownVars, cstate, cgen, shutH, prepH,
                 lifeVars, prepEvt, dispVars, sig, thread, hwVars>>

(* The submission of a call that checked before, in a lock section of its own. *)
SubmitPast(c) ==
  /\ c \in Submissions \cap past /\ CallerMayCreate
  /\ IF Admitted(c) THEN Enqueue(c) ELSE UNCHANGED <<req, count, ordinary>>
  /\ Leave(c, {})
  /\ UNCHANGED <<stopSlot, shutSlot, cur, opc, ownVars, ctlVars, lifeVars,
                 evtVars, dispVars, sig, thread, hwVars>>

PrepareAsync ==
  /\ prepH # NoReq => req[prepH].state \notin Working
  /\ shutH = NoReq
  /\ ~Pending(FieldMutations \cup {"RAMP"})
  /\ CallerMayCall /\ Enqueue("PREPARE")
  /\ prepEvt' = FALSE /\ prepH' = count + 1
  /\ UNCHANGED <<stopSlot, shutSlot, cur, opc, ownVars, cstate, cgen, stopH,
                 shutH, lifeVars, stopEvt, tempEvt, dispVars, past, sig, thread,
                 hwVars>>

(* A queued preparation leaves the mailbox; a running one only sees the event. *)
WithdrawPreparation ==
  IF prepH \in ordinary
    THEN /\ req' = [req EXCEPT ![prepH] = Dropped(prepH)]
         /\ ordinary' = ordinary \ {prepH}
         /\ prepH' = NoReq /\ prepEvt' = FALSE
    ELSE /\ prepEvt' = TRUE
         /\ UNCHANGED <<req, ordinary, prepH>>

CancelMagnetPreparation ==
  /\ WithdrawPreparation
  /\ UNCHANGED <<count, stopSlot, shutSlot, cur, opc, ownVars, cstate, cgen,
                 stopH, shutH, lifeVars, stopEvt, tempEvt, dispVars, past, sig,
                 thread, hwVars>>

(* _display_async: join the slot's request, answer from the cache, or create *)
(* the slot's next request.  Joining and cache hits change nothing.          *)
SlotDrained == slot # NoReq /\ req[slot].drained
CacheAfterSlot ==
  IF SlotDrained /\ req[slot].state = "SUCCEEDED" /\ req[slot].gen = cgen
    THEN [gen |-> req[slot].gen, val |-> req[slot].val] ELSE cache
SlotJoinable == slot # NoReq /\ ~SlotDrained /\ req[slot].reg
                /\ req[slot].state # "CANCELLED"

DisplayAsync ==
  /\ adapter /\ ostate \in ConnectedStates
  /\ shutH = NoReq /\ ~recovery
  /\ CallerMayCall
  /\ ~SlotJoinable
  /\ cache' = CacheAfterSlot
  /\ IF Pending(Mutations \cup LifecycleOps \cup {"PREPARE", "RAMP", "STOP"})
       THEN slot' = NoReq /\ UNCHANGED <<req, count, ordinary>>
       ELSE slot' = count + 1 /\ Enqueue("DISPLAY")
  /\ UNCHANGED <<stopSlot, shutSlot, cur, opc, ownVars, ctlVars, lifeVars,
                 evtVars, past, sig, thread, hwVars>>

(* request_stop.  The first disjunct is a Stop that only cancels a           *)
(* preparation; the second is the Stop of the field.                         *)
StopCancelsPreparation ==
  /\ ~Pending({"RAMP"})
  /\ prepH # NoReq /\ req[prepH].state \in Working
  /\ ~Pending(FieldMutations)

StopAcceptedDuringRamp ==                                               \* mutant
  /\ ~StopCancelsPreparation /\ ~recovery /\ ~committed
  /\ cstate \in {"DISCONNECTED", "DETACHED"} => thread # "stopped"
StopAccepted ==
  /\ ~Pending({"RAMP"}) /\ ~StopCancelsPreparation
  /\ ~recovery /\ ~committed
  /\ cstate \in {"DISCONNECTED", "DETACHED"} => thread # "stopped"

Swept(r) == r \in ordinary /\ req[r].cmd \in QueuedMutations

(* What an accepted Stop does; a Stop still held is answered with its handle. *)
IssueStop ==
  /\ ordinary' = {r \in ordinary : ~Swept(r)}
  /\ IF stopH = NoReq
       THEN /\ count' = count + 1
            /\ req' = [r \in Req |-> IF r = count + 1 THEN Fresh("STOP")
                                     ELSE IF Swept(r) THEN CancelledReq(r) ELSE req[r]]
            /\ stopSlot' = count + 1 /\ stopH' = count + 1
       ELSE /\ req' = [r \in Req |-> IF Swept(r) THEN CancelledReq(r) ELSE req[r]]
            /\ UNCHANGED <<count, stopSlot, stopH>>

RequestStop ==
  /\ CallerMayCall
  /\ \/ /\ StopCancelsPreparation /\ WithdrawPreparation
        /\ UNCHANGED <<stopEvt, stopSlot, stopH, count>>
     \/ /\ StopAccepted /\ stopEvt' = TRUE /\ IssueStop
        /\ UNCHANGED <<prepEvt, prepH>>
  /\ UNCHANGED <<shutSlot, cur, opc, ownVars, cstate, cgen, shutH, lifeVars, tempEvt,
                 dispVars, past, sig, thread, hwVars>>

(* retry_stop gives up the handle of a failed Stop; the request_stop it then  *)
(* makes is a lock section of its own, as it is for every caller.            *)
RetryStop ==
  /\ stopH # NoReq /\ req[stopH].state \in {"FAILED", "CANCELLED"}
  /\ stopH' = NoReq
  /\ UNCHANGED <<req, count, mailVars, cur, opc, ownVars, cstate, cgen, shutH, prepH,
                 lifeVars, evtVars, dispVars, past, sig, thread, hwVars>>

DetachAsync ==
  /\ ~stopEvt /\ stopH = NoReq /\ shutH = NoReq
  /\ cstate = "ACTIVE" /\ ~reserved /\ ~HasPendingWork
  /\ CallerMayCall /\ Enqueue("DETACH")
  /\ reserved' = TRUE /\ committed' = FALSE /\ cstate' = "DETACHING"
  /\ UNCHANGED <<stopSlot, shutSlot, cur, opc, ownVars, cgen, stopH, shutH,
                 prepH, recovery, evtVars, dispVars, past, sig, thread, hwVars>>

(* request_shutdown checks under the lock, raises the stop and empties the    *)
(* mailbox without it, and creates its request under it, unchecked.          *)
RequestShutdown ==
  /\ CallerMayCall /\ ~Pending({"RAMP"})
  /\ IF prepH # NoReq /\ req[prepH].state \in Working
       THEN prepEvt' = TRUE /\ UNCHANGED past
       ELSE ~recovery /\ Enter("RAISE") /\ UNCHANGED prepEvt
  /\ UNCHANGED <<req, count, mailVars, cur, opc, ownVars, ctlVars, lifeVars, stopEvt,
                 tempEvt, dispVars, sig, thread, hwVars>>

ShutdownRaisesStop ==
  /\ "RAISE" \in past /\ stopEvt' = TRUE
  /\ UNCHANGED <<req, count, mailVars, cur, opc, ownVars, ctlVars, lifeVars, tempEvt,
                 prepEvt, dispVars, sig, thread, hwVars>>
  /\ Leave("RAISE", {"SWEEP"})

ShutdownSweeps ==
  /\ "SWEEP" \in past /\ ordinary' = {}
  /\ req' = [r \in Req |-> IF r \in ordinary THEN CancelledReq(r) ELSE req[r]]
  /\ UNCHANGED <<count, stopSlot, shutSlot, cur, opc, ownVars, ctlVars, lifeVars,
                 evtVars, dispVars, sig, thread, hwVars>>
  /\ Leave("SWEEP", {"CREATE"})

ShutdownSubmits ==
  /\ "CREATE" \in past /\ CallerMayCreate
  /\ IF shutH # NoReq /\ req[shutH].state \notin {"FAILED", "CANCELLED"}
       THEN UNCHANGED <<req, count, shutSlot, shutH>>
       ELSE Create("SHUTDOWN") /\ shutSlot' = count + 1 /\ shutH' = count + 1
  /\ UNCHANGED <<ordinary, stopSlot, cur, opc, ownVars, cstate, cgen, stopH, prepH,
                 lifeVars, evtVars, dispVars, sig, thread, hwVars>>
  /\ Leave("CREATE", {})

InvalidateDisplayCache ==
  /\ cache # NoCache /\ cache' = NoCache
  /\ UNCHANGED <<req, count, mailVars, cur, opc, ownVars, ctlVars, lifeVars,
                 evtVars, slot, past, sig, thread, hwVars>>

-----------------------------------------------------------------------------
(* The watchdog timer of a request (_caller_timeout).  The callback runs in  *)
(* a thread of its own: it takes the request out of the mailbox, or marks    *)
(* the running request, and only later, without the locks, raises the event  *)
(* that asks the owner to stop.  A request that is in neither place (popped  *)
(* and not yet RUNNING, or in the Stop or Shutdown slot) loses its timeout.  *)

Due(r) == r <= count /\ req[r].timer = "armed"

TimeoutQueued(r) ==
  /\ Due(r) /\ r \in ordinary
  /\ req' = [req EXCEPT ![r] = Dropped(r)]
  /\ ordinary' = ordinary \ {r}
  /\ prepH' = (IF prepH = r THEN NoReq ELSE prepH)
  /\ prepEvt' = (prepEvt /\ prepH # r)
  /\ UNCHANGED <<count, stopSlot, shutSlot, cur, opc, ownVars, cstate, cgen,
                 stopH, shutH, lifeVars, stopEvt, tempEvt, dispVars, past, sig,
                 thread, hwVars>>

(* What the callback still has to do once it has let go of request.lock.     *)
AfterTimeout(r) ==
  IF req[r].cmd \in FieldMutations /\ req[r].state = "RUNNING" THEN "stop"
  ELSE IF req[r].cmd = "PREPARE" THEN "check"
  ELSE IF req[r].cmd = "CONFIG_T" THEN "raise"
  ELSE "spent"

TimeoutRunning(r) ==
  /\ Due(r) /\ r \notin ordinary
  /\ LET running == req[r].state = "RUNNING" IN
       /\ req' = [req EXCEPT
            ![r].timer  = AfterTimeout(r),
            ![r].state  = IF running THEN "DRAINING" ELSE @,
            ![r].client = IF running THEN "err" ELSE @]
       /\ cstate' = IF running /\ req[r].cmd # "RAMP"
                      THEN "TIMED_OUT_DRAINING" ELSE cstate
  /\ UNCHANGED <<count, mailVars, cur, opc, ownVars, cgen, stopH, shutH, prepH,
                 lifeVars, evtVars, dispVars, past, sig, thread, hwVars>>

(* A timed-out SETPOINT or START raises stop_event and then asks for a Stop: *)
(* in between the event is set whether or not the Stop is then accepted.     *)
TimeoutOnlyRaisesStop(r) ==                                             \* mutant
  /\ req[r].timer = "stop"
  /\ stopEvt' = TRUE
  /\ req' = [req EXCEPT ![r].timer = "spent"]
  /\ UNCHANGED <<count, mailVars, cur, opc, ownVars, ctlVars, lifeVars, tempEvt,
                 prepEvt, dispVars, past, sig, thread, hwVars>>
TimeoutRaisesStop(r) ==
  /\ req[r].timer = "stop"
  /\ stopEvt' = TRUE
  /\ req' = [req EXCEPT ![r].timer = "request"]
  /\ UNCHANGED <<count, mailVars, cur, opc, ownVars, ctlVars, lifeVars, tempEvt,
                 prepEvt, dispVars, past, sig, thread, hwVars>>

TimeoutRequestsStop(r) ==
  /\ req[r].timer = "request"
  /\ LET spent == [req EXCEPT ![r].timer = "spent"] IN
       \/ /\ StopCancelsPreparation
          /\ IF prepH \in ordinary
               THEN /\ req' = [spent EXCEPT ![prepH] = Dropped(prepH)]
                    /\ ordinary' = ordinary \ {prepH}
                    /\ prepH' = NoReq /\ prepEvt' = FALSE
               ELSE prepEvt' = TRUE /\ req' = spent /\ UNCHANGED <<ordinary, prepH>>
          /\ UNCHANGED <<count, stopSlot, stopH>>
       \/ /\ ~StopCancelsPreparation /\ StopAccepted
          /\ ordinary' = {q \in ordinary : ~Swept(q)}
          /\ IF stopH = NoReq
               THEN /\ count < 2 * MaxCalls
                    /\ count' = count + 1
                    /\ req' = [q \in Req |-> IF q = count + 1 THEN Fresh("STOP")
                                 ELSE IF Swept(q) THEN CancelledReq(q) ELSE spent[q]]
                    /\ stopSlot' = count + 1 /\ stopH' = count + 1
               ELSE /\ req' = [q \in Req |-> IF Swept(q) THEN CancelledReq(q) ELSE spent[q]]
                    /\ UNCHANGED <<count, stopSlot, stopH>>
          /\ UNCHANGED <<prepH, prepEvt>>
       \/ /\ ~StopCancelsPreparation /\ ~StopAccepted
          /\ req' = spent
          /\ UNCHANGED <<count, ordinary, stopSlot, stopH, prepH, prepEvt>>
  /\ stopEvt' = TRUE
  /\ UNCHANGED <<shutSlot, cur, opc, ownVars, cstate, cgen, shutH, lifeVars,
                 tempEvt, dispVars, past, sig, thread, hwVars>>

(* PREPARE: the ownership test holds the lock, the event is set after it.    *)
TimeoutChecksPreparation(r) ==
  /\ req[r].timer = "check"
  /\ req' = [req EXCEPT ![r].timer = IF prepH = r THEN "raise" ELSE "spent"]
  /\ UNCHANGED <<count, mailVars, cur, opc, ownVars, ctlVars, lifeVars, evtVars,
                 dispVars, past, sig, thread, hwVars>>

TimeoutRaisesEvent(r) ==
  /\ req[r].timer = "raise"
  /\ req' = [req EXCEPT ![r].timer = "spent"]
  /\ prepEvt' = (prepEvt \/ req[r].cmd = "PREPARE")
  /\ tempEvt' = (tempEvt \/ req[r].cmd = "CONFIG_T")
  /\ UNCHANGED <<count, mailVars, cur, opc, ownVars, ctlVars, lifeVars, stopEvt,
                 dispVars, past, sig, thread, hwVars>>

Timer(r) == \/ TimeoutQueued(r) \/ TimeoutRunning(r) \/ TimeoutRaisesStop(r)
            \/ TimeoutRequestsStop(r) \/ TimeoutChecksPreparation(r)
            \/ TimeoutRaisesEvent(r)

-----------------------------------------------------------------------------
(* The owner thread: _CommandMailbox.pop, _execute, _finish.                 *)

Pop ==
  /\ thread # "stopped" /\ opc = "idle"
  /\ \/ stopSlot # NoReq /\ cur' = stopSlot /\ stopSlot' = NoReq
        /\ UNCHANGED <<shutSlot, ordinary>>
     \/ stopSlot = NoReq /\ shutSlot # NoReq /\ cur' = shutSlot /\ shutSlot' = NoReq
        /\ UNCHANGED <<stopSlot, ordinary>>
     \/ \E r \in ordinary :
          /\ stopSlot = NoReq /\ shutSlot = NoReq /\ \A q \in ordinary : r <= q
          /\ cur' = r /\ ordinary' = ordinary \ {r}
          /\ UNCHANGED <<stopSlot, shutSlot>>
  /\ opc' = "popped"
  /\ UNCHANGED <<req, count, ownVars, ctlVars, lifeVars, evtVars, dispVars, past,
                 sig, thread, hwVars>>

Cmd == req[cur].cmd
Announce(s) == IF s = NoState THEN <<>> ELSE <<StateSig(s)>>
NextState(s) == IF s = NoState THEN ostate ELSE s

(* _finish with a result: a request whose client gave up stays DRAINING.     *)
Done(r, v) == [req[r] EXCEPT
  !.state  = IF @ = "DRAINING" THEN @ ELSE "SUCCEEDED",
  !.client = IF @ = "none" THEN "ok" ELSE @,
  !.drained = TRUE, !.val = v,
  !.timer = IF @ = "armed" THEN "spent" ELSE @]
(* _finish with an exception. *)
Errored(r) == [req[r] EXCEPT
  !.state = "FAILED", !.client = IF @ = "none" THEN "err" ELSE @,
  !.drained = TRUE, !.timer = IF @ = "armed" THEN "spent" ELSE @]

Release == cur' = NoReq /\ opc' = "idle"

SucceedSilently(s, v, after) ==                                         \* mutant
  /\ req' = [req EXCEPT ![cur] = Done(cur, v)]
  /\ ostate' = NextState(s)
  /\ sig' = sig \o Announce(s) \o after
  /\ Release
Succeed(s, v, after) ==
  /\ req' = [req EXCEPT ![cur] = Done(cur, v)]
  /\ ostate' = NextState(s)
  /\ sig' = sig \o Announce(s) \o <<TerminalSig(cur)>> \o after
  /\ Release

(* The except clause of _execute: the state it publishes for a command.      *)
ErrorState(c) ==
  CASE c = "DETACH" /\ ~committed -> IF adapter THEN "ACTIVE" ELSE "FAULTED"
    [] c = "STOP"                 -> "STOPPING"
    [] c = "SHUTDOWN"             -> "FAULTED"
    [] c = "START" /\ mayBeActive -> "FAULTED"
    [] c = "CONNECT"              -> "DISCONNECTED"
    [] OTHER                      -> NoState

FailWith(s) ==
  /\ req' = [req EXCEPT ![cur] = Errored(cur)]
  /\ ostate' = NextState(s)
  /\ sig' = sig \o Announce(s) \o <<TerminalSig(cur)>>
  /\ Release

Fail == /\ FailWith(ErrorState(Cmd))
        /\ reserved' = (reserved /\ ~(Cmd = "DETACH" /\ ~committed))

AnyGeneration == {"CONNECT", "DISCONNECT", "SHUTDOWN"}
Stale == Cmd \notin AnyGeneration /\ req[cur].gen # ogen

RejectStale ==
  /\ opc = "popped" /\ Stale
  /\ FailWith(NoState)
  /\ UNCHANGED <<count, mailVars, ogen, adapter, armed, mayBeActive, prevState,
                 deferred, ctlVars, lifeVars, evtVars, dispVars, past, thread,
                 hwVars>>

NoAdapterNeeded == {"CONNECT", "DISCONNECT", "SHUTDOWN"}
BlockedByRecovery == Mutations \cup {"STOP", "DISCONNECT", "SHUTDOWN"}

(* The guards at the head of each command's branch. *)
Refused(c) ==
  \/ c = "CONNECT" /\ adapter
  \/ c \notin NoAdapterNeeded /\ ~adapter
  \/ c \in BlockedByRecovery /\ adapter /\ recovery
  \/ c \in FieldMutations /\ stopEvt
  \/ c = "CONFIG_T" /\ tempEvt
  \/ c = "SETPOINT" /\ ostate \notin ConnectedStates
  \/ c = "START" /\ ~(ostate = "ARMED" /\ armed)
  \/ c = "DISCONNECT" /\ adapter /\ mayBeActive
  \/ c = "DETACH" /\ (stopEvt \/ ~mayBeActive \/ ~reserved)

CommandRefused ==
  /\ opc = "popped" /\ ~Stale /\ Refused(Cmd)
  /\ Fail
  /\ UNCHANGED <<count, mailVars, ogen, adapter, armed, mayBeActive, prevState,
                 deferred, ctlVars, committed, recovery, evtVars, dispVars, past,
                 thread, hwVars>>

(* DISCONNECT and SHUTDOWN with no adapter succeed at once. *)
ClosedAlready ==
  /\ opc = "popped" /\ ~adapter /\ Cmd \in {"DISCONNECT", "SHUTDOWN"}
  /\ ogen' = ogen + 1
  /\ IF Cmd = "SHUTDOWN" THEN Succeed("TERMINATED", 0, <<QuitSig>>)
                         ELSE Succeed("DISCONNECTED", 0, <<>>)
  /\ UNCHANGED <<count, mailVars, adapter, armed, mayBeActive, prevState,
                 deferred, ctlVars, lifeVars, evtVars, dispVars, past, thread,
                 hwVars>>

(* The state a command publishes before it calls the SDK. *)
EntryState(c) ==
  CASE c = "CONNECT"  -> "CONNECTING"
    [] c = "PREPARE"  -> "PREPARING"
    [] c = "STOP"     -> "STOPPING"
    [] c = "SHUTDOWN" -> "SHUTTING_DOWN"
    [] OTHER          -> NoState

ClaimNothing == mayBeActive' = mayBeActive                              \* mutant
ClaimField == mayBeActive' = (mayBeActive \/ Cmd = "START")   \* before the SDK call

Begin ==
  /\ opc = "popped" /\ ~Stale /\ ~Refused(Cmd)
  /\ adapter \/ Cmd = "CONNECT"
  /\ opc' = "sdk"
  /\ req' = [req EXCEPT ![cur].state = "RUNNING"]
  /\ prevState' = IF Cmd = "PREPARE" THEN ostate ELSE prevState
  /\ ClaimField
  /\ ostate' = NextState(EntryState(Cmd))
  /\ sig' = sig \o Announce(EntryState(Cmd))
  /\ UNCHANGED <<count, mailVars, cur, ogen, adapter, armed, deferred, ctlVars,
                 lifeVars, evtVars, dispVars, past, thread, hwVars>>

InSdk(c) == opc = "sdk" /\ Cmd = c

ConnectDone ==
  /\ InSdk("CONNECT")
  /\ adapter' = TRUE /\ ogen' = req[cur].gen
  /\ armed' = FALSE /\ mayBeActive' = FALSE
  /\ stopEvt' = FALSE /\ tempEvt' = FALSE
  /\ session' = session + 1
  /\ Succeed("IDLE", 0, <<>>)
  /\ UNCHANGED <<count, mailVars, prevState, deferred, ctlVars, lifeVars,
                 prepEvt, dispVars, past, thread, field, mode>>

Reads == {"READ", "PREFLIGHT", "VERIFY", "DISPLAY", "RAMP", "CONFIG_T", "STOP_T"}

ReadDone ==
  /\ opc = "sdk" /\ Cmd \in Reads
  /\ Cmd = "PREFLIGHT" => ~prepEvt
  /\ Succeed(NoState, session, <<>>)
  /\ UNCHANGED <<count, mailVars, ogen, adapter, armed, mayBeActive, prevState,
                 deferred, ctlVars, lifeVars, evtVars, dispVars, past, thread,
                 hwVars>>

(* setHSetPoint and startFieldControl follow the last look at stop_event.    *)
SetpointDone ==
  /\ InSdk("SETPOINT") /\ ~stopEvt /\ mode = "driven"
  /\ armed' = TRUE
  /\ Succeed("ARMED", 0, <<>>)
  /\ UNCHANGED <<count, mailVars, ogen, adapter, mayBeActive, prevState,
                 deferred, ctlVars, lifeVars, evtVars, dispVars, past, thread,
                 hwVars>>

StartDone ==
  /\ InSdk("START") /\ ~stopEvt /\ mode = "driven"
  /\ field' = "ours"
  /\ \/ /\ Succeed("ACTIVE", 0, <<>>) /\ UNCHANGED reserved
     \/ Fail                     \* started, but the readback failed
  /\ UNCHANGED <<count, mailVars, ogen, adapter, armed, mayBeActive, prevState,
                 deferred, ctlVars, committed, recovery, evtVars, dispVars, past,
                 thread, mode, session>>

StopDone ==
  /\ InSdk("STOP")
  /\ field' = "off" /\ mayBeActive' = FALSE /\ armed' = FALSE
  /\ Succeed("IDLE", req[cur].val, <<>>)
  /\ UNCHANGED <<count, mailVars, ogen, adapter, prevState, deferred, ctlVars,
                 lifeVars, evtVars, dispVars, past, thread, mode, session>>

DisconnectDone ==
  /\ InSdk("DISCONNECT")
  /\ adapter' = FALSE /\ armed' = FALSE /\ ogen' = ogen + 1
  /\ Succeed("DISCONNECTED", 0, <<>>)
  /\ UNCHANGED <<count, mailVars, mayBeActive, prevState, deferred, ctlVars,
                 lifeVars, evtVars, dispVars, past, thread, hwVars>>

(* An SDK call fails, in every command but PREPARE (below).                  *)
SdkFails ==
  /\ opc = "sdk" /\ Cmd # "PREPARE"
  /\ Fail
  /\ UNCHANGED <<count, mailVars, ogen, adapter, armed, mayBeActive, prevState,
                 deferred, ctlVars, committed, recovery, evtVars, dispVars, past,
                 thread, hwVars>>

ShutdownStops ==
  /\ InSdk("SHUTDOWN") /\ mayBeActive
  /\ field' = "off" /\ mayBeActive' = FALSE /\ armed' = FALSE
  /\ UNCHANGED <<req, count, mailVars, cur, opc, ostate, ogen, adapter,
                 prevState, deferred, ctlVars, lifeVars, evtVars, dispVars, past,
                 sig, thread, mode, session>>

ShutdownDone ==
  /\ InSdk("SHUTDOWN") /\ ~mayBeActive
  /\ adapter' = FALSE /\ ogen' = ogen + 1
  /\ Succeed("TERMINATED", 0, <<QuitSig>>)
  /\ UNCHANGED <<count, mailVars, armed, mayBeActive, prevState, deferred,
                 ctlVars, lifeVars, evtVars, dispVars, past, thread, hwVars>>

(* DETACH: verify, then commit and close under the lifecycle lock.           *)
DetachVerified ==
  /\ InSdk("DETACH") /\ opc' = "verified"
  /\ UNCHANGED <<req, count, mailVars, cur, ownVars, ctlVars, lifeVars, evtVars,
                 dispVars, past, sig, thread, hwVars>>

MayCommitAnyway == reserved                                             \* mutant
MayCommit == ~stopEvt /\ reserved

(* The finished request drains only when the owner thread has ended.         *)
DetachCommits ==
  /\ opc = "verified" /\ MayCommit
  /\ committed' = TRUE
  /\ adapter' = FALSE /\ armed' = FALSE /\ mayBeActive' = FALSE /\ ogen' = ogen + 1
  /\ field' = IF field = "ours" THEN "left" ELSE field
  /\ ostate' = "DETACHED" /\ deferred' = cur
  /\ req' = [req EXCEPT ![cur] = [Done(cur, 0) EXCEPT !.drained = FALSE]]
  /\ sig' = sig \o <<StateSig("DETACHED"), QuitSig>>
  /\ Release
  /\ UNCHANGED <<count, mailVars, prevState, ctlVars, reserved, recovery,
                 evtVars, dispVars, past, thread, mode, session>>

DetachAborts ==                       \* a Stop came first, or close failed
  /\ opc = "verified"
  /\ FailWith("ACTIVE") /\ reserved' = FALSE /\ committed' = FALSE
  /\ UNCHANGED <<count, mailVars, ogen, adapter, armed, mayBeActive, prevState,
                 deferred, ctlVars, recovery, evtVars, dispVars, past, thread,
                 hwVars>>

-----------------------------------------------------------------------------
(* PREPARE: AttoDRY2100Adapter.prepare_driven_mode inside the owner.         *)

Resume(s) == IF s \in ConnectedStates THEN s ELSE "IDLE"

(* Preflight, setDrivenMode or a poll fails; a setDrivenMode that raises may  *)
(* still have reached the magnet.                                            *)
PrepareFails ==
  /\ opc \in {"sdk", "locked", "polling"} /\ Cmd = "PREPARE"
  /\ FailWith(IF recovery THEN "RECOVERY_REQUIRED" ELSE Resume(prevState))
  /\ \/ UNCHANGED mode
     \/ opc = "locked" /\ mode' = "changing"
  /\ UNCHANGED <<count, mailVars, ogen, adapter, armed, mayBeActive, prevState,
                 deferred, ctlVars, lifeVars, evtVars, dispVars, past, thread,
                 field, session>>

MayRequestMode == ~(mayBeActive \/ prevState = "ACTIVE")       \* allow_mode_request
LockNothing == recovery' = recovery                                     \* mutant
LockMode == recovery' = TRUE                                   \* mode_requested

(* mode_requested() takes the recovery lock, then setDrivenMode(True) acts.   *)
RequestDrivenMode ==
  /\ InSdk("PREPARE") /\ ~prepEvt
  /\ ~recovery /\ mode # "driven"
  /\ MayRequestMode
  /\ LockMode /\ ostate' = "RECOVERY_REQUIRED" /\ opc' = "locked"
  /\ sig' = sig \o <<StateSig("RECOVERY_REQUIRED")>>
  /\ UNCHANGED <<req, count, mailVars, cur, ogen, adapter, armed, mayBeActive,
                 prevState, deferred, ctlVars, reserved, committed, evtVars,
                 dispVars, past, thread, hwVars>>

SetDrivenMode ==
  /\ opc = "locked" /\ opc' = "polling" /\ mode' = "changing"
  /\ UNCHANGED <<req, count, mailVars, cur, ownVars, ctlVars, lifeVars, evtVars,
                 dispVars, past, sig, thread, field, session>>

ObserveMode ==                         \* no request is allowed, or needed
  /\ InSdk("PREPARE") /\ ~prepEvt
  /\ recovery \/ mayBeActive \/ prevState = "ACTIVE" \/ mode = "driven"
  /\ opc' = "polling"
  /\ UNCHANGED <<req, count, mailVars, cur, ownVars, ctlVars, lifeVars, evtVars,
                 dispVars, past, sig, thread, hwVars>>

(* Three stable Driven readings.  The readings precede the last look at the  *)
(* cancellation, so a cancelled preparation may still return a result.       *)
PrepareDone ==
  /\ opc = "polling" /\ mode = "driven"
  /\ LET interrupted == req[cur].state = "DRAINING" \/ prepEvt IN
       /\ recovery' = (recovery /\ interrupted)
       /\ Succeed(IF interrupted THEN "RECOVERY_REQUIRED" ELSE Resume(prevState),
                  0, <<>>)
  /\ UNCHANGED <<count, mailVars, ogen, adapter, armed, mayBeActive, prevState,
                 deferred, ctlVars, reserved, committed, evtVars, dispVars, past,
                 thread, hwVars>>

MagnetSettles ==                       \* the magnet finishes the mode change
  /\ mode = "changing" /\ mode' = "driven"
  /\ UNCHANGED <<req, count, mailVars, cur, opc, ownVars, ctlVars, lifeVars,
                 evtVars, dispVars, past, sig, thread, field, session>>

(* The cryostat's own panel can take the magnet out of the Driven mode, which *)
(* is why every setpoint and start checks the mode again.                    *)
MagnetReverts ==
  /\ mode = "driven" /\ mode' = "persistent"
  /\ UNCHANGED <<req, count, mailVars, cur, opc, ownVars, ctlVars, lifeVars,
                 evtVars, dispVars, past, sig, thread, field, session>>

Owner == \/ Pop \/ RejectStale \/ CommandRefused \/ ClosedAlready \/ Begin
         \/ ConnectDone \/ ReadDone \/ SetpointDone \/ StartDone \/ StopDone
         \/ DisconnectDone \/ SdkFails \/ ShutdownStops \/ ShutdownDone
         \/ DetachVerified \/ DetachCommits \/ DetachAborts
         \/ PrepareFails \/ RequestDrivenMode \/ SetDrivenMode \/ ObserveMode \/ PrepareDone

-----------------------------------------------------------------------------
(* The thread of the controller object applies the queued signals.           *)

NextSig(k) == sig # <<>> /\ Head(sig).kind = k /\ sig' = Tail(sig)

CacheState ==
  /\ NextSig("state") /\ cstate' = Head(sig).state
  /\ UNCHANGED <<req, count, mailVars, cur, opc, ownVars, cgen, stopH, shutH,
                 prepH, lifeVars, evtVars, dispVars, past, thread, hwVars>>

(* _request_terminal for r, whose record is then q. *)
Terminal(r, q) ==
  /\ req' = [req EXCEPT ![r] = [q EXCEPT !.reg = FALSE]]
  /\ LET mine == q.cmd = "PREPARE" /\ prepH = r IN
       /\ prepH' = IF mine THEN NoReq ELSE prepH
       /\ prepEvt' = (prepEvt /\ ~mine
                        /\ ~(q.cmd = "PREFLIGHT" /\ prepH = NoReq))
  /\ slot' = IF slot = r THEN NoReq ELSE slot
  /\ cgen' = IF q.cmd = "DISCONNECT" /\ q.state = "SUCCEEDED" THEN cgen + 1 ELSE cgen
  /\ cache' = IF q.cmd \in LifecycleOps THEN NoCache
              ELSE IF slot = r /\ q.state = "SUCCEEDED" /\ q.gen = cgen
                     THEN [gen |-> q.gen, val |-> q.val] ELSE cache

RequestTerminal ==
  /\ NextSig("terminal") /\ Terminal(Head(sig).req, req[Head(sig).req])
  /\ UNCHANGED <<count, mailVars, cur, opc, ownVars, cstate, stopH, shutH,
                 lifeVars, stopEvt, tempEvt, past, thread, hwVars>>

ThreadQuit ==
  /\ NextSig("quit") /\ thread' = IF thread = "running" THEN "quitting" ELSE thread
  /\ UNCHANGED <<req, count, mailVars, cur, opc, ownVars, ctlVars, lifeVars,
                 evtVars, dispVars, past, hwVars>>

ThreadFinish ==
  /\ thread = "quitting" /\ opc = "idle" /\ thread' = "stopped"
  /\ sig' = Append(sig, FinishedSig)
  /\ UNCHANGED <<req, count, mailVars, cur, opc, ownVars, ctlVars, lifeVars,
                 evtVars, dispVars, past, hwVars>>

(* _owner_thread_finished *)
ThreadFinished ==
  /\ NextSig("finished")
  /\ IF deferred = NoReq
       THEN UNCHANGED <<req, cstate, cgen, prepH, prepEvt, dispVars, reserved, committed>>
       ELSE /\ Terminal(deferred, [req[deferred] EXCEPT !.drained = TRUE])
            /\ reserved' = FALSE /\ committed' = FALSE /\ cstate' = "DISCONNECTED"
  /\ deferred' = NoReq
  /\ UNCHANGED <<count, mailVars, cur, opc, ostate, ogen, adapter, armed,
                 mayBeActive, prevState, stopH, shutH, recovery, stopEvt,
                 tempEvt, past, thread, hwVars>>

Main == CacheState \/ RequestTerminal \/ ThreadQuit \/ ThreadFinished

-----------------------------------------------------------------------------
Client ==
  \/ \E c \in Ops : SubmitPlain(c) \/ CheckStop(c) \/ SubmitPast(c)
  \/ ("CONNECT" \in Ops /\ ConnectAsync) \/ ("DISCONNECT" \in Ops /\ DisconnectAsync)
  \/ ("PREPARE" \in Ops /\ (PrepareAsync \/ CancelMagnetPreparation))
  \/ ("DISPLAY" \in Ops /\ (DisplayAsync \/ InvalidateDisplayCache))
  \/ ("STOP" \in Ops /\ (RequestStop \/ RetryStop))
  \/ ("DETACH" \in Ops /\ DetachAsync)
  \/ ("SHUTDOWN" \in Ops /\ RequestShutdown)
  \/ ShutdownRaisesStop \/ ShutdownSweeps \/ ShutdownSubmits

Next == Client \/ Owner \/ Main \/ ThreadFinish \/ MagnetSettles \/ MagnetReverts
        \/ \E r \in Req : Timer(r)

Spec == Init /\ [][Next]_vars

(* The SDK calls end (their sockets have timeouts), Qt delivers queued       *)
(* signals, a timer callback that has started runs on, and every timer fires *)
(* or is cancelled.                                                          *)
Fairness == /\ WF_vars(Owner) /\ WF_vars(Main) /\ WF_vars(ThreadFinish)
            /\ \A r \in Req : WF_vars(Timer(r))
FairSpec == Spec /\ Fairness
=============================================================================
