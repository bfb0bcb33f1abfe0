--------------------- MODULE Atto2100ControllerProofs ---------------------
(***************************************************************************)
(* Proofs about Atto2100Controller: its type invariant, the custody of the *)
(* field, and that it implements FieldCustody.                             *)
(***************************************************************************)
EXTENDS Atto2100Properties, SequenceTheorems, TLAPS

-----------------------------------------------------------------------------
(* Signals.                                                                  *)

(* Each constructor makes a signal. *)
LEMMA SignalTypes ==
  /\ \A s \in OwnerStates : StateSig(s) \in Signal
  /\ \A r \in Req : TerminalSig(r) \in Signal
  /\ QuitSig \in Signal /\ FinishedSig \in Signal
BY DEF Signal, StateSig, TerminalSig, QuitSig, FinishedSig, NoReq, NoState, Req

(* What a finished command appends to the queue keeps the queue well typed.  *)
LEMMA AnnounceTypes ==
  ASSUME NEW s \in OwnerStates \cup {NoState}
  PROVE  Announce(s) \in Seq(Signal)
<1>1. CASE s = NoState
  BY <1>1 DEF Announce
<1>2. CASE s # NoState
  <2>1. StateSig(s) \in Signal
    BY <1>2, SignalTypes
  <2>2. QED BY <1>2, <2>1 DEF Announce
<1>3. QED BY <1>1, <1>2

LEMMA FinishTypes ==
  ASSUME sig \in Seq(Signal), NEW s \in OwnerStates \cup {NoState},
         NEW r \in Req, NEW after \in Seq(Signal)
  PROVE  /\ sig \o Announce(s) \in Seq(Signal)
         /\ sig \o Announce(s) \o <<TerminalSig(r)>> \in Seq(Signal)
         /\ sig \o Announce(s) \o <<TerminalSig(r)>> \o after \in Seq(Signal)
<1>1. Announce(s) \in Seq(Signal)
  BY AnnounceTypes
<1>2. <<TerminalSig(r)>> \in Seq(Signal)
  BY SignalTypes
<1>3. sig \o Announce(s) \in Seq(Signal)
  BY <1>1, ConcatProperties
<1>4. sig \o Announce(s) \o <<TerminalSig(r)>> \in Seq(Signal)
  BY <1>2, <1>3, ConcatProperties
<1>5. QED BY <1>3, <1>4, ConcatProperties

-----------------------------------------------------------------------------
(* Records of requests.                                                      *)

(* Whatever finishes, cancels or creates a request leaves a request.         *)
LEMMA RequestTypes ==
  ASSUME TypeOK
  PROVE  /\ \A c \in Commands : Fresh(c) \in Request
         /\ \A r \in Req : CancelledReq(r) \in Request /\ Dropped(r) \in Request
         /\ \A r \in Req : Errored(r) \in Request
         /\ \A r \in Req, v \in Nat : Done(r, v) \in Request
<1>1. \A c \in Commands : Fresh(c) \in Request
  BY DEF TypeOK, ControllerOK, MagnetOK, Fresh, Request, Working
<1> SUFFICES ASSUME NEW r \in Req, NEW v \in Nat
             PROVE  /\ CancelledReq(r) \in Request /\ Dropped(r) \in Request
                    /\ Errored(r) \in Request /\ Done(r, v) \in Request
  BY <1>1
<1>2. req[r] \in Request
  BY DEF TypeOK, RequestsOK
<1>3. CancelledReq(r) \in Request
  BY <1>2 DEF CancelledReq, Request
<1>4. Dropped(r) \in Request
  BY <1>3 DEF Dropped, Request
<1>5. Errored(r) \in Request
  <2> DEFINE q == req[r]
             cl == IF q.client = "none" THEN "err" ELSE q.client
             ti == IF q.timer = "armed" THEN "spent" ELSE q.timer
  <2>1. cl \in {"none", "ok", "err"} /\ ti \in {"off", "armed", "stop", "request", "check", "raise", "spent"}
    BY <1>2 DEF Request
  <2>2. Errored(r) = [q EXCEPT !.state = "FAILED", !.client = cl, !.drained = TRUE, !.timer = ti]
    BY DEF Errored
  <2> HIDE DEF cl, ti
  <2>3. QED BY <1>2, <2>1, <2>2 DEF Request
<1>6. Done(r, v) \in Request
  <2> DEFINE q == req[r]
             st == IF q.state = "DRAINING" THEN q.state ELSE "SUCCEEDED"
             cl == IF q.client = "none" THEN "ok" ELSE q.client
             ti == IF q.timer = "armed" THEN "spent" ELSE q.timer
  <2>1. /\ st \in Working \cup {"UNUSED", "SUCCEEDED", "FAILED", "CANCELLED"}
        /\ cl \in {"none", "ok", "err"}
        /\ ti \in {"off", "armed", "stop", "request", "check", "raise", "spent"}
    BY <1>2 DEF Request
  <2>2. Done(r, v) = [q EXCEPT !.state = st, !.client = cl, !.drained = TRUE,
                               !.val = v, !.timer = ti]
    BY DEF Done
  <2> HIDE DEF st, cl, ti
  <2>3. QED BY <1>2, <2>1, <2>2 DEF Request
<1>7. QED BY <1>3, <1>4, <1>5, <1>6

(* Creating a request fills the next record. *)
LEMMA CreateTypes ==
  ASSUME TypeOK, NEW c \in Commands, CallerMayCreate, Create(c)
  PROVE  count + 1 \in Req /\ RequestsOK'
<1>1. count + 1 \in Req /\ count' \in 0..(2 * MaxCalls)
  BY BoundAssumption DEF TypeOK, RequestsOK, CallerMayCreate, Create, Req
<1>2. Fresh(c) \in Request
  BY RequestTypes
<1>3. QED BY <1>1, <1>2 DEF TypeOK, RequestsOK, Create

(* A group of variables that does not change keeps its types.                *)
LEMMA UnchangedTypes ==
  ASSUME TypeOK
  PROVE  /\ UNCHANGED <<req, count>> => RequestsOK'
         /\ UNCHANGED mailVars => MailOK'
         /\ UNCHANGED <<cur, opc>> => BusyOK'
         /\ UNCHANGED ownVars => OwnerOK'
         /\ UNCHANGED ctlVars => ControllerOK'
         /\ UNCHANGED lifeVars => LifecycleOK'
         /\ UNCHANGED evtVars => EventsOK'
         /\ UNCHANGED dispVars => DisplayOK'
         /\ UNCHANGED past => GapsOK'
         /\ UNCHANGED <<sig, thread>> => SignalsOK'
         /\ UNCHANGED hwVars => MagnetOK'
BY DEF TypeOK, RequestsOK, MailOK, BusyOK, OwnerOK, ControllerOK, LifecycleOK, EventsOK,
       DisplayOK, GapsOK, SignalsOK, MagnetOK, mailVars, ownVars, ctlVars, lifeVars, evtVars,
       dispVars, hwVars

-----------------------------------------------------------------------------
(* The calls of the clients preserve TypeOK.                                 *)

LEMMA SubmitPlainTypes ==
  ASSUME TypeOK, NEW c \in Ops, SubmitPlain(c) PROVE TypeOK'
<1>1. count + 1 \in Req /\ RequestsOK'
  BY OpsAssumption, CreateTypes DEF SubmitPlain, CallerMayCall, Enqueue
<1>2. MailOK'
  BY <1>1 DEF SubmitPlain, Enqueue, TypeOK, MailOK
<1>3. QED BY <1>1, <1>2, UnchangedTypes DEF SubmitPlain, TypeOK

(* A caller that passes a check, or acts on one, stays among the gaps.        *)
LEMMA GapTypes ==
  ASSUME TypeOK, NEW g \in Gaps, NEW then \in SUBSET Gaps
  PROVE  /\ Enter(g) => GapsOK'
         /\ Leave(g, then) => GapsOK'
BY DEF TypeOK, GapsOK, Enter, Leave

LEMMA ConnectTypes ==
  ASSUME TypeOK, ConnectAsync PROVE TypeOK'
<1>1. GapsOK'
  BY GapTypes DEF ConnectAsync, Gaps, Submissions
<1>2. SignalsOK'
  BY DEF ConnectAsync, TypeOK, SignalsOK
<1>3. QED BY <1>1, <1>2, UnchangedTypes DEF ConnectAsync, TypeOK

LEMMA DisconnectTypes ==
  ASSUME TypeOK, DisconnectAsync PROVE TypeOK'
<1>1. GapsOK'
  BY GapTypes DEF DisconnectAsync, Gaps, Submissions
<1>2. QED BY <1>1, UnchangedTypes DEF DisconnectAsync, TypeOK

LEMMA CheckStopTypes ==
  ASSUME TypeOK, NEW c \in Ops, CheckStop(c) PROVE TypeOK'
<1>1. GapsOK'
  BY GapTypes, UnchangedTypes DEF CheckStop, Gaps, Submissions
<1>2. ControllerOK' /\ EventsOK'
  BY DEF CheckStop, ForgetStop, TypeOK, ControllerOK, EventsOK, ReqOrNone
<1>3. QED BY <1>1, <1>2, UnchangedTypes DEF CheckStop, TypeOK

LEMMA SubmitPastTypes ==
  ASSUME TypeOK, NEW c \in Ops, SubmitPast(c) PROVE TypeOK'
<1>1. RequestsOK' /\ MailOK'
  <2>1. CASE Admitted(c)
    <3>1. count + 1 \in Req /\ RequestsOK'
      BY <2>1, OpsAssumption, CreateTypes DEF SubmitPast, Enqueue
    <3>2. QED BY <2>1, <3>1 DEF SubmitPast, Enqueue, TypeOK, MailOK
  <2>2. CASE ~Admitted(c)
    BY <2>2, UnchangedTypes DEF SubmitPast, mailVars
  <2>3. QED BY <2>1, <2>2
<1>2. GapsOK'
  BY GapTypes DEF SubmitPast, Gaps
<1>3. QED BY <1>1, <1>2, UnchangedTypes DEF SubmitPast, TypeOK

LEMMA PrepareTypes ==
  ASSUME TypeOK, PrepareAsync PROVE TypeOK'
<1>1. count + 1 \in Req /\ RequestsOK'
  BY CreateTypes DEF PrepareAsync, CallerMayCall, Enqueue, Commands
<1>2. MailOK' /\ ControllerOK' /\ EventsOK'
  BY <1>1 DEF PrepareAsync, Enqueue, TypeOK, MailOK, ControllerOK, EventsOK, ReqOrNone
<1>3. QED BY <1>1, <1>2, UnchangedTypes DEF PrepareAsync, TypeOK

(* Withdrawing a preparation touches its record, the mailbox and its event.  *)
LEMMA WithdrawTypes ==
  ASSUME TypeOK, WithdrawPreparation
  PROVE  /\ req' \in [Req -> Request] /\ ordinary' \subseteq Req
         /\ prepH' \in ReqOrNone /\ prepEvt' \in BOOLEAN
<1>1. CASE prepH \in ordinary
  <2>1. prepH \in Req /\ Dropped(prepH) \in Request
    BY <1>1, RequestTypes DEF TypeOK, MailOK
  <2>2. QED BY <1>1, <2>1 DEF WithdrawPreparation, TypeOK, RequestsOK, MailOK, ReqOrNone
<1>2. CASE prepH \notin ordinary
  BY <1>2 DEF WithdrawPreparation, TypeOK, RequestsOK, MailOK, ControllerOK, EventsOK
<1>3. QED BY <1>1, <1>2

LEMMA CancelTypes ==
  ASSUME TypeOK, CancelMagnetPreparation PROVE TypeOK'
<1>1. RequestsOK' /\ MailOK' /\ ControllerOK' /\ EventsOK'
  BY WithdrawTypes DEF CancelMagnetPreparation, TypeOK, RequestsOK, MailOK,
     ControllerOK, EventsOK
<1>2. QED BY <1>1, UnchangedTypes DEF CancelMagnetPreparation, TypeOK

LEMMA DisplayTypes ==
  ASSUME TypeOK, DisplayAsync PROVE TypeOK'
<1> DEFINE busy == Pending(Mutations \cup LifecycleOps \cup {"PREPARE", "RAMP", "STOP"})
<1>1. CacheAfterSlot \in [gen : Nat, val : Nat]
  BY DEF CacheAfterSlot, SlotDrained, TypeOK, DisplayOK, RequestsOK, Request, ReqOrNone
<1>2. CASE busy
  <2>1. RequestsOK' /\ MailOK' /\ DisplayOK'
    BY <1>1, <1>2, UnchangedTypes DEF DisplayAsync, DisplayOK, ReqOrNone, mailVars
  <2>2. QED BY <2>1, UnchangedTypes DEF DisplayAsync, TypeOK
<1>3. CASE ~busy
  <2>1. count + 1 \in Req /\ RequestsOK'
    BY <1>3, CreateTypes DEF DisplayAsync, CallerMayCall, Enqueue, Commands
  <2>2. MailOK' /\ DisplayOK'
    BY <1>1, <1>3, <2>1 DEF DisplayAsync, Enqueue, TypeOK, MailOK, DisplayOK, ReqOrNone
  <2>3. QED BY <2>1, <2>2, UnchangedTypes DEF DisplayAsync, TypeOK
<1>4. QED BY <1>2, <1>3

LEMMA InvalidateTypes ==
  ASSUME TypeOK, InvalidateDisplayCache PROVE TypeOK'
<1>1. DisplayOK'
  BY DEF InvalidateDisplayCache, NoCache, TypeOK, DisplayOK
<1>2. QED BY <1>1, UnchangedTypes DEF InvalidateDisplayCache, TypeOK

(* An accepted Stop sweeps the mailbox and fills, or reuses, the Stop slot.  *)
LEMMA IssueTypes ==
  ASSUME TypeOK, CallerMayCreate, IssueStop
  PROVE  /\ RequestsOK' /\ ordinary' \subseteq Req
         /\ stopSlot' \in ReqOrNone /\ stopH' \in ReqOrNone
<1>1. count + 1 \in Req /\ count + 1 \in 0..(2 * MaxCalls)
  BY BoundAssumption DEF TypeOK, RequestsOK, CallerMayCreate, Req
<1>2. Fresh("STOP") \in Request
  BY RequestTypes DEF Commands
<1>3. \A r \in Req : CancelledReq(r) \in Request
  BY RequestTypes
<1>4. CASE stopH = NoReq
  BY <1>1, <1>2, <1>3, <1>4 DEF IssueStop, TypeOK, RequestsOK, MailOK, ReqOrNone
<1>5. CASE stopH # NoReq
  BY <1>3, <1>5 DEF IssueStop, TypeOK, RequestsOK, MailOK, ControllerOK, ReqOrNone
<1>6. QED BY <1>4, <1>5

LEMMA RequestStopTypes ==
  ASSUME TypeOK, RequestStop PROVE TypeOK'
<1>1. CASE StopCancelsPreparation /\ WithdrawPreparation
           /\ UNCHANGED <<stopEvt, stopSlot, stopH, count>>
  <2>1. RequestsOK' /\ MailOK' /\ ControllerOK' /\ EventsOK'
    BY <1>1, WithdrawTypes DEF RequestStop, TypeOK, RequestsOK, MailOK, ControllerOK, EventsOK
  <2>2. QED BY <2>1, UnchangedTypes DEF RequestStop, TypeOK
<1>2. CASE stopEvt' = TRUE /\ IssueStop /\ UNCHANGED <<prepEvt, prepH>>
  <2>1. RequestsOK' /\ MailOK' /\ ControllerOK' /\ EventsOK'
    BY <1>2, IssueTypes
    DEF RequestStop, CallerMayCall, TypeOK, MailOK, ControllerOK, EventsOK
  <2>2. QED BY <2>1, UnchangedTypes DEF RequestStop, TypeOK
<1>3. QED BY <1>1, <1>2 DEF RequestStop

LEMMA RetryStopTypes ==
  ASSUME TypeOK, RetryStop PROVE TypeOK'
<1>1. ControllerOK'
  BY DEF RetryStop, TypeOK, ControllerOK, ReqOrNone
<1>2. QED BY <1>1, UnchangedTypes DEF RetryStop, TypeOK, evtVars

LEMMA DetachTypes ==
  ASSUME TypeOK, DetachAsync PROVE TypeOK'
<1>1. count + 1 \in Req /\ RequestsOK'
  BY CreateTypes DEF DetachAsync, CallerMayCall, Enqueue, Commands
<1>2. MailOK' /\ ControllerOK' /\ LifecycleOK'
  BY <1>1 DEF DetachAsync, Enqueue, TypeOK, MailOK, ControllerOK, LifecycleOK, CachedStates
<1>3. QED BY <1>1, <1>2, UnchangedTypes DEF DetachAsync, TypeOK

(* The steps of request_shutdown. *)
LEMMA ShutdownCheckTypes ==
  ASSUME TypeOK, RequestShutdown PROVE TypeOK'
<1>1. GapsOK'
  BY GapTypes, UnchangedTypes DEF RequestShutdown, Gaps
<1>2. EventsOK'
  BY DEF RequestShutdown, TypeOK, EventsOK
<1>3. QED BY <1>1, <1>2, UnchangedTypes DEF RequestShutdown, TypeOK

LEMMA ShutdownRaiseTypes ==
  ASSUME TypeOK, ShutdownRaisesStop PROVE TypeOK'
<1>1. GapsOK' /\ EventsOK'
  BY GapTypes DEF ShutdownRaisesStop, Gaps, TypeOK, EventsOK
<1>2. QED BY <1>1, UnchangedTypes DEF ShutdownRaisesStop, TypeOK

LEMMA ShutdownSweepTypes ==
  ASSUME TypeOK, ShutdownSweeps PROVE TypeOK'
<1>1. \A r \in Req : CancelledReq(r) \in Request
  BY RequestTypes
<1>2. RequestsOK' /\ MailOK'
  BY <1>1 DEF ShutdownSweeps, TypeOK, RequestsOK, MailOK
<1>3. GapsOK'
  BY GapTypes DEF ShutdownSweeps, Gaps
<1>4. QED BY <1>2, <1>3, UnchangedTypes DEF ShutdownSweeps, TypeOK

LEMMA ShutdownSubmitTypes ==
  ASSUME TypeOK, ShutdownSubmits PROVE TypeOK'
<1> DEFINE standing == shutH # NoReq /\ req[shutH].state \notin {"FAILED", "CANCELLED"}
<1>1. GapsOK'
  BY GapTypes DEF ShutdownSubmits, Gaps
<1>2. RequestsOK' /\ MailOK' /\ ControllerOK'
  <2>1. CASE standing
    BY <2>1 DEF ShutdownSubmits, TypeOK, RequestsOK, MailOK, ControllerOK
  <2>2. CASE ~standing
    <3>1. count + 1 \in Req /\ RequestsOK'
      BY <2>2, CreateTypes DEF ShutdownSubmits, Commands
    <3>2. QED BY <2>2, <3>1 DEF ShutdownSubmits, TypeOK, MailOK, ControllerOK, ReqOrNone
  <2>3. QED BY <2>1, <2>2
<1>3. QED BY <1>1, <1>2, UnchangedTypes DEF ShutdownSubmits, TypeOK

(* Every call of a client. *)
LEMMA ClientTypes ==
  ASSUME TypeOK, Client PROVE TypeOK'
BY SubmitPlainTypes, CheckStopTypes, SubmitPastTypes, ConnectTypes, DisconnectTypes,
   PrepareTypes, CancelTypes, DisplayTypes, InvalidateTypes, RequestStopTypes,
   RetryStopTypes, DetachTypes, ShutdownCheckTypes, ShutdownRaiseTypes,
   ShutdownSweepTypes, ShutdownSubmitTypes DEF Client

-----------------------------------------------------------------------------
(* The watchdog timers preserve TypeOK.                                      *)

LEMMA TimeoutQueuedTypes ==
  ASSUME TypeOK, NEW r \in Req, TimeoutQueued(r) PROVE TypeOK'
<1>1. Dropped(r) \in Request
  BY RequestTypes
<1>2. RequestsOK' /\ MailOK' /\ ControllerOK' /\ EventsOK'
  BY <1>1 DEF TimeoutQueued, TypeOK, RequestsOK, MailOK, ControllerOK, EventsOK, ReqOrNone
<1>3. QED BY <1>2, UnchangedTypes DEF TimeoutQueued, TypeOK

(* Changing only a request's timer, state and client answer.                 *)
LEMMA TimerTypes ==
  ASSUME TypeOK, NEW r \in Req,
         NEW t \in {"off", "armed", "stop", "request", "check", "raise", "spent"}
  PROVE  [req EXCEPT ![r].timer = t] \in [Req -> Request]
<1>1. req[r] \in Request
  BY DEF TypeOK, RequestsOK
<1>2. [req[r] EXCEPT !.timer = t] \in Request
  BY <1>1 DEF Request
<1>3. QED BY <1>2 DEF TypeOK, RequestsOK

LEMMA TimeoutRunningTypes ==
  ASSUME TypeOK, NEW r \in Req, TimeoutRunning(r) PROVE TypeOK'
<1> DEFINE running == req[r].state = "RUNNING"
           st == IF running THEN "DRAINING" ELSE req[r].state
           cl == IF running THEN "err" ELSE req[r].client
           ti == AfterTimeout(r)
           q  == [req[r] EXCEPT !.timer = ti, !.state = st, !.client = cl]
<1>1. req[r] \in Request
  BY DEF TypeOK, RequestsOK
<1>2. ti \in {"off", "armed", "stop", "request", "check", "raise", "spent"}
  BY DEF AfterTimeout
<1>3. /\ st \in Working \cup {"UNUSED", "SUCCEEDED", "FAILED", "CANCELLED"}
      /\ cl \in {"none", "ok", "err"}
  BY <1>1 DEF Request, Working
<1>4. req' = [req EXCEPT ![r] = q] /\ count' = count
  BY <1>1 DEF TimeoutRunning, TypeOK, RequestsOK
<1>5. q \in Request
  <2> HIDE DEF st, cl, ti
  <2>1. QED BY <1>1, <1>2, <1>3 DEF Request
<1>6. RequestsOK'
  <2> HIDE DEF q
  <2>1. QED BY <1>4, <1>5 DEF TypeOK, RequestsOK
<1>7. ControllerOK'
  BY DEF TimeoutRunning, TypeOK, ControllerOK, CachedStates
<1>8. QED BY <1>6, <1>7, UnchangedTypes DEF TimeoutRunning, TypeOK

LEMMA TimeoutRaisesStopTypes ==
  ASSUME TypeOK, NEW r \in Req, TimeoutRaisesStop(r) PROVE TypeOK'
<1>1. RequestsOK' /\ EventsOK'
  BY TimerTypes DEF TimeoutRaisesStop, TypeOK, RequestsOK, EventsOK
<1>2. QED BY <1>1, UnchangedTypes DEF TimeoutRaisesStop, TypeOK

LEMMA TimeoutRequestsStopTypes ==
  ASSUME TypeOK, NEW r \in Req, TimeoutRequestsStop(r) PROVE TypeOK'
<1> DEFINE spent == [req EXCEPT ![r].timer = "spent"]
<1>1. spent \in [Req -> Request]
  BY TimerTypes
<1>2. \A q \in Req : CancelledReq(q) \in Request /\ Dropped(q) \in Request
  BY RequestTypes
<1>3. Fresh("STOP") \in Request
  BY RequestTypes DEF Commands
<1>4. EventsOK'
  BY DEF TimeoutRequestsStop, TypeOK, EventsOK
<1>5. CASE StopCancelsPreparation
  <2>1. CASE prepH \in ordinary
    <3>1. prepH \in Req
      BY <2>1 DEF TypeOK, MailOK
    <3>2. /\ req' = [spent EXCEPT ![prepH] = Dropped(prepH)]
          /\ ordinary' = ordinary \ {prepH} /\ prepH' = NoReq
          /\ UNCHANGED <<count, stopSlot, shutSlot, stopH>>
      BY <1>5, <2>1 DEF TimeoutRequestsStop
    <3> HIDE DEF spent
    <3>3. RequestsOK' /\ MailOK'
      BY <1>1, <1>2, <3>1, <3>2 DEF TypeOK, RequestsOK, MailOK
    <3>4. ControllerOK'
      BY <3>2 DEF TimeoutRequestsStop, TypeOK, ControllerOK, ReqOrNone
    <3>5. QED BY <1>4, <3>3, <3>4, UnchangedTypes DEF TimeoutRequestsStop, TypeOK
  <2>2. CASE prepH \notin ordinary
    <3>1. /\ req' = spent
          /\ UNCHANGED <<count, ordinary, stopSlot, shutSlot, stopH, prepH>>
      BY <1>5, <2>2 DEF TimeoutRequestsStop
    <3> HIDE DEF spent
    <3>2. RequestsOK' /\ MailOK'
      BY <1>1, <3>1 DEF TypeOK, RequestsOK, MailOK
    <3>3. ControllerOK'
      BY <3>1 DEF TimeoutRequestsStop, TypeOK, ControllerOK
    <3>4. QED BY <1>4, <3>2, <3>3, UnchangedTypes DEF TimeoutRequestsStop, TypeOK
  <2>3. QED BY <2>1, <2>2
<1>6. CASE ~StopCancelsPreparation /\ StopAccepted /\ stopH = NoReq
  <2>1. /\ count < 2 * MaxCalls /\ count' = count + 1
        /\ req' = [q \in Req |-> IF q = count + 1 THEN Fresh("STOP")
                     ELSE IF Swept(q) THEN CancelledReq(q) ELSE spent[q]]
        /\ stopSlot' = count + 1 /\ stopH' = count + 1
        /\ ordinary' = {q \in ordinary : ~Swept(q)} /\ UNCHANGED <<shutSlot, prepH>>
    BY <1>6 DEF TimeoutRequestsStop
  <2>2. count + 1 \in Req /\ count + 1 \in 0..(2 * MaxCalls)
    BY <2>1, BoundAssumption DEF TypeOK, RequestsOK, Req
  <2> HIDE DEF spent
  <2>3. RequestsOK' /\ MailOK'
    BY <1>1, <1>2, <1>3, <2>1, <2>2 DEF TypeOK, RequestsOK, MailOK, ReqOrNone
  <2>4. ControllerOK'
    BY <2>1, <2>2 DEF TimeoutRequestsStop, TypeOK, ControllerOK, ReqOrNone
  <2>5. QED BY <1>4, <2>3, <2>4, UnchangedTypes DEF TimeoutRequestsStop, TypeOK
<1>7. CASE ~StopCancelsPreparation /\ StopAccepted /\ stopH # NoReq
  <2>1. /\ req' = [q \in Req |-> IF Swept(q) THEN CancelledReq(q) ELSE spent[q]]
        /\ ordinary' = {q \in ordinary : ~Swept(q)}
        /\ UNCHANGED <<count, stopSlot, shutSlot, stopH, prepH>>
    BY <1>7 DEF TimeoutRequestsStop
  <2> HIDE DEF spent
  <2>2. RequestsOK' /\ MailOK'
    BY <1>1, <1>2, <2>1 DEF TypeOK, RequestsOK, MailOK
  <2>3. ControllerOK'
    BY <2>1 DEF TimeoutRequestsStop, TypeOK, ControllerOK
  <2>4. QED BY <1>4, <2>2, <2>3, UnchangedTypes DEF TimeoutRequestsStop, TypeOK
<1>8. CASE ~StopCancelsPreparation /\ ~StopAccepted
  <2>1. req' = spent /\ UNCHANGED <<count, ordinary, stopSlot, shutSlot, stopH, prepH>>
    BY <1>8 DEF TimeoutRequestsStop
  <2> HIDE DEF spent
  <2>2. RequestsOK' /\ MailOK'
    BY <1>1, <2>1 DEF TypeOK, RequestsOK, MailOK
  <2>3. ControllerOK'
    BY <2>1 DEF TimeoutRequestsStop, TypeOK, ControllerOK
  <2>4. QED BY <1>4, <2>2, <2>3, UnchangedTypes DEF TimeoutRequestsStop, TypeOK
<1>9. QED BY <1>5, <1>6, <1>7, <1>8

LEMMA TimeoutEventTypes ==
  ASSUME TypeOK, NEW r \in Req, TimeoutChecksPreparation(r) \/ TimeoutRaisesEvent(r)
  PROVE  TypeOK'
<1>1. CASE TimeoutChecksPreparation(r)
  <2>1. req' \in [Req -> Request]
    BY <1>1, TimerTypes DEF TimeoutChecksPreparation
  <2>2. RequestsOK'
    BY <1>1, <2>1 DEF TimeoutChecksPreparation, TypeOK, RequestsOK
  <2>3. QED BY <1>1, <2>2, UnchangedTypes DEF TimeoutChecksPreparation, TypeOK
<1>2. CASE TimeoutRaisesEvent(r)
  <2>1. RequestsOK' /\ EventsOK'
    BY <1>2, TimerTypes DEF TimeoutRaisesEvent, TypeOK, RequestsOK, EventsOK
  <2>2. QED BY <1>2, <2>1, UnchangedTypes DEF TimeoutRaisesEvent, TypeOK
<1>3. QED BY <1>1, <1>2

(* Every step of a watchdog. *)
LEMMA WatchdogTypes ==
  ASSUME TypeOK, NEW r \in Req, Timer(r) PROVE TypeOK'
BY TimeoutQueuedTypes, TimeoutRunningTypes, TimeoutRaisesStopTypes,
   TimeoutRequestsStopTypes, TimeoutEventTypes DEF Timer

-----------------------------------------------------------------------------
(* The owner thread preserves TypeOK.                                        *)

LEMMA PopTypes ==
  ASSUME TypeOK, Pop PROVE TypeOK'
<1>1. MailOK' /\ BusyOK'
  <2>1. CASE stopSlot # NoReq /\ cur' = stopSlot /\ stopSlot' = NoReq
             /\ UNCHANGED <<shutSlot, ordinary>>
    BY <2>1 DEF Pop, TypeOK, MailOK, BusyOK, ReqOrNone
  <2>2. CASE stopSlot = NoReq /\ shutSlot # NoReq /\ cur' = shutSlot /\ shutSlot' = NoReq
             /\ UNCHANGED <<stopSlot, ordinary>>
    BY <2>2 DEF Pop, TypeOK, MailOK, BusyOK, ReqOrNone
  <2>3. ASSUME NEW r \in ordinary, cur' = r, ordinary' = ordinary \ {r},
               UNCHANGED <<stopSlot, shutSlot>>
        PROVE  MailOK' /\ BusyOK'
    BY <2>3 DEF Pop, TypeOK, MailOK, BusyOK, ReqOrNone
  <2>4. QED BY <2>1, <2>2, <2>3 DEF Pop
<1>2. QED BY <1>1, UnchangedTypes DEF Pop, TypeOK

(* _finish, with a result and with an exception.                             *)
LEMMA SucceedTypes ==
  ASSUME TypeOK, cur \in Req, NEW s \in OwnerStates \cup {NoState}, NEW v \in Nat,
         NEW after \in Seq(Signal), Succeed(s, v, after), UNCHANGED <<count, thread>>
  PROVE  RequestsOK' /\ BusyOK' /\ SignalsOK' /\ ostate' \in OwnerStates
<1>1. Done(cur, v) \in Request
  BY RequestTypes
<1>2. RequestsOK'
  BY <1>1 DEF Succeed, TypeOK, RequestsOK
<1>3. BusyOK'
  BY DEF Succeed, Release, BusyOK, ReqOrNone
<1>4. sig \o Announce(s) \o <<TerminalSig(cur)>> \o after \in Seq(Signal)
  BY FinishTypes DEF TypeOK, SignalsOK
<1>5. SignalsOK'
  BY <1>4 DEF Succeed, TypeOK, SignalsOK
<1>6. ostate' \in OwnerStates
  BY DEF Succeed, NextState, TypeOK, OwnerOK
<1>7. QED BY <1>2, <1>3, <1>5, <1>6

LEMMA FailWithTypes ==
  ASSUME TypeOK, cur \in Req, NEW s \in OwnerStates \cup {NoState}, FailWith(s),
         UNCHANGED <<count, thread>>
  PROVE  RequestsOK' /\ BusyOK' /\ SignalsOK' /\ ostate' \in OwnerStates
<1>1. Errored(cur) \in Request
  BY RequestTypes
<1>2. RequestsOK'
  BY <1>1 DEF FailWith, TypeOK, RequestsOK
<1>3. BusyOK'
  BY DEF FailWith, Release, BusyOK, ReqOrNone
<1>4. <<>> \in Seq(Signal)
  OBVIOUS
<1>5. sig \o Announce(s) \o <<TerminalSig(cur)>> \in Seq(Signal)
  BY <1>4, FinishTypes DEF TypeOK, SignalsOK
<1>6. SignalsOK'
  BY <1>5 DEF FailWith, TypeOK, SignalsOK
<1>7. ostate' \in OwnerStates
  BY DEF FailWith, NextState, TypeOK, OwnerOK
<1>8. QED BY <1>2, <1>3, <1>6, <1>7

LEMMA FailTypes ==
  ASSUME TypeOK, cur \in Req, Fail, UNCHANGED <<count, thread>>
  PROVE  /\ RequestsOK' /\ BusyOK' /\ SignalsOK' /\ ostate' \in OwnerStates
         /\ reserved' \in BOOLEAN
<1>1. ErrorState(Cmd) \in OwnerStates \cup {NoState}
  BY DEF ErrorState, OwnerStates
<1>2. reserved' \in BOOLEAN
  BY DEF Fail
<1>3. QED BY <1>1, <1>2, FailWithTypes DEF Fail

(* States and signals named by the owner's branches. *)
LEMMA OwnerNames ==
  /\ {"TERMINATED", "DISCONNECTED", "IDLE", "ARMED", "ACTIVE", "DETACHED",
      "RECOVERY_REQUIRED"} \subseteq OwnerStates
  /\ NoState \in OwnerStates \cup {NoState}
  /\ <<>> \in Seq(Signal) /\ <<QuitSig>> \in Seq(Signal)
  /\ \A c : EntryState(c) \in OwnerStates \cup {NoState}
  /\ \A s : Resume(s) \in OwnerStates
<1>1. \A c : EntryState(c) \in OwnerStates \cup {NoState}
  BY DEF EntryState, OwnerStates
<1>2. \A s : Resume(s) \in OwnerStates
  BY DEF Resume, ConnectedStates, OwnerStates
<1>3. <<QuitSig>> \in Seq(Signal)
  BY SignalTypes
<1>4. QED BY <1>1, <1>2, <1>3 DEF OwnerStates

LEMMA BusyHasRequest ==
  ASSUME TypeOK, opc # "idle" PROVE cur \in Req
BY DEF TypeOK, BusyOK

LEMMA RejectStaleTypes ==
  ASSUME TypeOK, RejectStale PROVE TypeOK'
<1>1. cur \in Req
  BY BusyHasRequest DEF RejectStale
<1>2. RequestsOK' /\ BusyOK' /\ SignalsOK' /\ ostate' \in OwnerStates
  BY <1>1, OwnerNames, FailWithTypes DEF RejectStale
<1>3. OwnerOK'
  BY <1>2 DEF RejectStale, TypeOK, OwnerOK
<1>4. QED BY <1>2, <1>3, UnchangedTypes DEF RejectStale, TypeOK

LEMMA CommandRefusedTypes ==
  ASSUME TypeOK, CommandRefused PROVE TypeOK'
<1>1. cur \in Req
  BY BusyHasRequest DEF CommandRefused
<1>2. /\ RequestsOK' /\ BusyOK' /\ SignalsOK' /\ ostate' \in OwnerStates
      /\ reserved' \in BOOLEAN
  BY <1>1, FailTypes DEF CommandRefused
<1>3. OwnerOK' /\ LifecycleOK'
  BY <1>2 DEF CommandRefused, TypeOK, OwnerOK, LifecycleOK
<1>4. QED BY <1>2, <1>3, UnchangedTypes DEF CommandRefused, TypeOK

LEMMA ClosedAlreadyTypes ==
  ASSUME TypeOK, ClosedAlready PROVE TypeOK'
<1>1. cur \in Req
  BY BusyHasRequest DEF ClosedAlready
<1>2. RequestsOK' /\ BusyOK' /\ SignalsOK' /\ ostate' \in OwnerStates
  <2>1. CASE Cmd = "SHUTDOWN"
    BY <1>1, <2>1, OwnerNames, SucceedTypes DEF ClosedAlready
  <2>2. CASE Cmd # "SHUTDOWN"
    BY <1>1, <2>2, OwnerNames, SucceedTypes DEF ClosedAlready
  <2>3. QED BY <2>1, <2>2
<1>3. OwnerOK'
  BY <1>2 DEF ClosedAlready, TypeOK, OwnerOK
<1>4. QED BY <1>2, <1>3, UnchangedTypes DEF ClosedAlready, TypeOK

LEMMA BeginTypes ==
  ASSUME TypeOK, Begin PROVE TypeOK'
<1>1. cur \in Req
  BY BusyHasRequest DEF Begin
<1>2. RequestsOK'
  <2>1. req[cur] \in Request
    BY <1>1 DEF TypeOK, RequestsOK
  <2>2. [req[cur] EXCEPT !.state = "RUNNING"] \in Request
    BY <2>1 DEF Request, Working
  <2>3. QED BY <1>1, <2>2 DEF Begin, TypeOK, RequestsOK
<1>3. sig \o Announce(EntryState(Cmd)) \in Seq(Signal)
  BY <1>1, OwnerNames, FinishTypes DEF TypeOK, SignalsOK
<1>4. EntryState(Cmd) \in OwnerStates \cup {NoState}
  BY OwnerNames
<1>5. SignalsOK' /\ BusyOK'
  BY <1>1, <1>3 DEF Begin, TypeOK, SignalsOK, BusyOK
<1>6. OwnerOK'
  BY <1>4 DEF Begin, ClaimField, NextState, TypeOK, OwnerOK
<1>7. QED BY <1>2, <1>5, <1>6, UnchangedTypes DEF Begin, TypeOK

LEMMA ConnectDoneTypes ==
  ASSUME TypeOK, ConnectDone PROVE TypeOK'
<1>1. cur \in Req
  BY BusyHasRequest DEF ConnectDone, InSdk
<1>2. RequestsOK' /\ BusyOK' /\ SignalsOK' /\ ostate' \in OwnerStates
  BY <1>1, OwnerNames, SucceedTypes DEF ConnectDone
<1>3. req[cur].gen \in Nat
  BY <1>1 DEF TypeOK, RequestsOK, Request
<1>4. ogen' \in Nat /\ session' \in Nat
  BY <1>3 DEF ConnectDone, TypeOK, MagnetOK
<1>5. /\ adapter' \in BOOLEAN /\ armed' \in BOOLEAN /\ mayBeActive' \in BOOLEAN
      /\ stopEvt' \in BOOLEAN /\ tempEvt' \in BOOLEAN
      /\ UNCHANGED <<prevState, deferred, prepEvt, field, mode>>
  BY DEF ConnectDone
<1>6. OwnerOK' /\ EventsOK' /\ MagnetOK'
  BY <1>2, <1>4, <1>5 DEF TypeOK, OwnerOK, EventsOK, MagnetOK
<1>7. QED BY <1>2, <1>6, UnchangedTypes DEF ConnectDone, TypeOK

LEMMA ReadDoneTypes ==
  ASSUME TypeOK, ReadDone PROVE TypeOK'
<1>1. cur \in Req /\ session \in Nat
  BY BusyHasRequest DEF ReadDone, TypeOK, MagnetOK
<1>2. RequestsOK' /\ BusyOK' /\ SignalsOK' /\ ostate' \in OwnerStates
  BY <1>1, OwnerNames, SucceedTypes DEF ReadDone
<1>3. OwnerOK'
  BY <1>2 DEF ReadDone, TypeOK, OwnerOK
<1>4. QED BY <1>2, <1>3, UnchangedTypes DEF ReadDone, TypeOK

LEMMA SetpointDoneTypes ==
  ASSUME TypeOK, SetpointDone PROVE TypeOK'
<1>1. cur \in Req
  BY BusyHasRequest DEF SetpointDone, InSdk
<1>2. RequestsOK' /\ BusyOK' /\ SignalsOK' /\ ostate' \in OwnerStates
  BY <1>1, OwnerNames, SucceedTypes DEF SetpointDone
<1>3. OwnerOK'
  BY <1>2 DEF SetpointDone, TypeOK, OwnerOK
<1>4. QED BY <1>2, <1>3, UnchangedTypes DEF SetpointDone, TypeOK

LEMMA StartDoneTypes ==
  ASSUME TypeOK, StartDone PROVE TypeOK'
<1>1. cur \in Req
  BY BusyHasRequest DEF StartDone, InSdk
<1>2. /\ RequestsOK' /\ BusyOK' /\ SignalsOK' /\ ostate' \in OwnerStates
      /\ reserved' \in BOOLEAN
  <2>1. CASE Succeed("ACTIVE", 0, <<>>) /\ UNCHANGED reserved
    <3>1. RequestsOK' /\ BusyOK' /\ SignalsOK' /\ ostate' \in OwnerStates
      BY <1>1, <2>1, OwnerNames, SucceedTypes DEF StartDone
    <3>2. QED BY <2>1, <3>1 DEF TypeOK, LifecycleOK
  <2>2. CASE Fail
    BY <1>1, <2>2, FailTypes DEF StartDone
  <2>3. QED BY <2>1, <2>2 DEF StartDone
<1>3. OwnerOK' /\ LifecycleOK' /\ MagnetOK'
  BY <1>2 DEF StartDone, TypeOK, OwnerOK, LifecycleOK, MagnetOK
<1>4. QED BY <1>2, <1>3, UnchangedTypes DEF StartDone, TypeOK

LEMMA StopDoneTypes ==
  ASSUME TypeOK, StopDone PROVE TypeOK'
<1>1. cur \in Req /\ req[cur].val \in Nat
  BY BusyHasRequest DEF StopDone, InSdk, TypeOK, RequestsOK, Request
<1>2. RequestsOK' /\ BusyOK' /\ SignalsOK' /\ ostate' \in OwnerStates
  BY <1>1, OwnerNames, SucceedTypes DEF StopDone
<1>3. OwnerOK' /\ MagnetOK'
  BY <1>2 DEF StopDone, TypeOK, OwnerOK, MagnetOK
<1>4. QED BY <1>2, <1>3, UnchangedTypes DEF StopDone, TypeOK

LEMMA DisconnectDoneTypes ==
  ASSUME TypeOK, DisconnectDone PROVE TypeOK'
<1>1. cur \in Req
  BY BusyHasRequest DEF DisconnectDone, InSdk
<1>2. RequestsOK' /\ BusyOK' /\ SignalsOK' /\ ostate' \in OwnerStates
  BY <1>1, OwnerNames, SucceedTypes DEF DisconnectDone
<1>3. ogen' \in Nat
  BY DEF DisconnectDone, TypeOK, OwnerOK
<1>4. adapter' \in BOOLEAN /\ armed' \in BOOLEAN /\ UNCHANGED <<mayBeActive, prevState, deferred>>
  BY DEF DisconnectDone
<1>5. OwnerOK'
  BY <1>2, <1>3, <1>4 DEF TypeOK, OwnerOK
<1>6. QED BY <1>2, <1>5, UnchangedTypes DEF DisconnectDone, TypeOK

LEMMA SdkFailsTypes ==
  ASSUME TypeOK, SdkFails PROVE TypeOK'
<1>1. cur \in Req
  BY BusyHasRequest DEF SdkFails
<1>2. /\ RequestsOK' /\ BusyOK' /\ SignalsOK' /\ ostate' \in OwnerStates
      /\ reserved' \in BOOLEAN
  BY <1>1, FailTypes DEF SdkFails
<1>3. OwnerOK' /\ LifecycleOK'
  BY <1>2 DEF SdkFails, TypeOK, OwnerOK, LifecycleOK
<1>4. QED BY <1>2, <1>3, UnchangedTypes DEF SdkFails, TypeOK

LEMMA ShutdownStopsTypes ==
  ASSUME TypeOK, ShutdownStops PROVE TypeOK'
<1>1. OwnerOK' /\ MagnetOK'
  BY DEF ShutdownStops, TypeOK, OwnerOK, MagnetOK
<1>2. QED BY <1>1, UnchangedTypes DEF ShutdownStops, TypeOK

LEMMA ShutdownDoneTypes ==
  ASSUME TypeOK, ShutdownDone PROVE TypeOK'
<1>1. cur \in Req
  BY BusyHasRequest DEF ShutdownDone, InSdk
<1>2. RequestsOK' /\ BusyOK' /\ SignalsOK' /\ ostate' \in OwnerStates
  BY <1>1, OwnerNames, SucceedTypes DEF ShutdownDone
<1>3. ogen' \in Nat
  BY DEF ShutdownDone, TypeOK, OwnerOK
<1>4. adapter' \in BOOLEAN /\ UNCHANGED <<armed, mayBeActive, prevState, deferred>>
  BY DEF ShutdownDone
<1>5. OwnerOK'
  BY <1>2, <1>3, <1>4 DEF TypeOK, OwnerOK
<1>6. QED BY <1>2, <1>5, UnchangedTypes DEF ShutdownDone, TypeOK

LEMMA DetachVerifiedTypes ==
  ASSUME TypeOK, DetachVerified PROVE TypeOK'
<1>1. BusyOK'
  BY BusyHasRequest DEF DetachVerified, InSdk, TypeOK, BusyOK
<1>2. QED BY <1>1, UnchangedTypes DEF DetachVerified, TypeOK

LEMMA DetachCommitsTypes ==
  ASSUME TypeOK, DetachCommits PROVE TypeOK'
<1>1. cur \in Req
  BY BusyHasRequest DEF DetachCommits
<1>2. RequestsOK'
  <2>1. Done(cur, 0) \in Request
    BY <1>1, RequestTypes
  <2>2. [Done(cur, 0) EXCEPT !.drained = FALSE] \in Request
    BY <2>1 DEF Request
  <2>3. QED BY <1>1, <2>2 DEF DetachCommits, TypeOK, RequestsOK
<1>3. SignalsOK'
  <2>1. <<StateSig("DETACHED"), QuitSig>> \in Seq(Signal)
    BY SignalTypes, OwnerNames
  <2>2. sig \o <<StateSig("DETACHED"), QuitSig>> \in Seq(Signal)
    BY <2>1, ConcatProperties DEF TypeOK, SignalsOK
  <2>3. QED BY <2>2 DEF DetachCommits, TypeOK, SignalsOK
<1>4. BusyOK'
  BY DEF DetachCommits, Release, BusyOK, ReqOrNone
<1>5. OwnerOK'
  <2>1. ogen' \in Nat
    BY DEF DetachCommits, TypeOK, OwnerOK
  <2>2. /\ adapter' \in BOOLEAN /\ armed' \in BOOLEAN /\ mayBeActive' \in BOOLEAN
        /\ deferred' = cur /\ ostate' = "DETACHED" /\ UNCHANGED prevState
    BY DEF DetachCommits
  <2>3. QED BY <1>1, <2>1, <2>2, OwnerNames DEF TypeOK, OwnerOK, ReqOrNone
<1>6. LifecycleOK' /\ MagnetOK'
  BY DEF DetachCommits, TypeOK, LifecycleOK, MagnetOK
<1>7. QED BY <1>2, <1>3, <1>4, <1>5, <1>6, UnchangedTypes DEF DetachCommits, TypeOK

LEMMA DetachAbortsTypes ==
  ASSUME TypeOK, DetachAborts PROVE TypeOK'
<1>1. cur \in Req
  BY BusyHasRequest DEF DetachAborts
<1>2. RequestsOK' /\ BusyOK' /\ SignalsOK' /\ ostate' \in OwnerStates
  BY <1>1, OwnerNames, FailWithTypes DEF DetachAborts
<1>3. OwnerOK' /\ LifecycleOK'
  BY <1>2 DEF DetachAborts, TypeOK, OwnerOK, LifecycleOK
<1>4. QED BY <1>2, <1>3, UnchangedTypes DEF DetachAborts, TypeOK

LEMMA PrepareFailsTypes ==
  ASSUME TypeOK, PrepareFails PROVE TypeOK'
<1> DEFINE s == IF recovery THEN "RECOVERY_REQUIRED" ELSE Resume(prevState)
<1>1. cur \in Req /\ s \in OwnerStates
  BY BusyHasRequest, OwnerNames DEF PrepareFails
<1>2. FailWith(s) /\ UNCHANGED <<count, thread>>
  BY DEF PrepareFails
<1> HIDE DEF s
<1>3. RequestsOK' /\ BusyOK' /\ SignalsOK' /\ ostate' \in OwnerStates
  BY <1>1, <1>2, FailWithTypes
<1>4. OwnerOK' /\ MagnetOK'
  BY <1>3 DEF PrepareFails, TypeOK, OwnerOK, MagnetOK, hwVars
<1>5. QED BY <1>3, <1>4, UnchangedTypes DEF PrepareFails, TypeOK

LEMMA RequestDrivenModeTypes ==
  ASSUME TypeOK, RequestDrivenMode PROVE TypeOK'
<1>1. cur \in Req
  BY BusyHasRequest DEF RequestDrivenMode, InSdk
<1>2. SignalsOK'
  <2>1. <<StateSig("RECOVERY_REQUIRED")>> \in Seq(Signal)
    BY SignalTypes, OwnerNames
  <2>2. sig \o <<StateSig("RECOVERY_REQUIRED")>> \in Seq(Signal)
    BY <2>1, ConcatProperties DEF TypeOK, SignalsOK
  <2>3. QED BY <2>2 DEF RequestDrivenMode, TypeOK, SignalsOK
<1>3. BusyOK' /\ OwnerOK' /\ LifecycleOK'
  BY <1>1, OwnerNames
  DEF RequestDrivenMode, LockMode, TypeOK, BusyOK, OwnerOK, LifecycleOK
<1>4. QED BY <1>2, <1>3, UnchangedTypes DEF RequestDrivenMode, TypeOK

LEMMA SetDrivenModeTypes ==
  ASSUME TypeOK, SetDrivenMode PROVE TypeOK'
<1>1. BusyOK' /\ MagnetOK'
  BY BusyHasRequest DEF SetDrivenMode, TypeOK, BusyOK, MagnetOK
<1>2. QED BY <1>1, UnchangedTypes DEF SetDrivenMode, TypeOK

LEMMA ObserveModeTypes ==
  ASSUME TypeOK, ObserveMode PROVE TypeOK'
<1>1. BusyOK'
  BY BusyHasRequest DEF ObserveMode, InSdk, TypeOK, BusyOK
<1>2. QED BY <1>1, UnchangedTypes DEF ObserveMode, TypeOK

LEMMA PrepareDoneTypes ==
  ASSUME TypeOK, PrepareDone PROVE TypeOK'
<1> DEFINE interrupted == req[cur].state = "DRAINING" \/ prepEvt
           s == IF interrupted THEN "RECOVERY_REQUIRED" ELSE Resume(prevState)
<1>1. cur \in Req /\ s \in OwnerStates
  BY BusyHasRequest, OwnerNames DEF PrepareDone
<1>2. Succeed(s, 0, <<>>) /\ recovery' = (recovery /\ interrupted)
      /\ UNCHANGED <<count, thread>>
  BY DEF PrepareDone
<1> HIDE DEF s, interrupted
<1>3. RequestsOK' /\ BusyOK' /\ SignalsOK' /\ ostate' \in OwnerStates
  BY <1>1, <1>2, OwnerNames, SucceedTypes
<1>4. recovery' \in BOOLEAN
  BY <1>2
<1>5. OwnerOK' /\ LifecycleOK'
  BY <1>3, <1>4 DEF PrepareDone, TypeOK, OwnerOK, LifecycleOK
<1>6. QED BY <1>3, <1>5, UnchangedTypes DEF PrepareDone, TypeOK

(* Every step of the owner. *)
LEMMA OwnerTypes ==
  ASSUME TypeOK, Owner PROVE TypeOK'
BY PopTypes, RejectStaleTypes, CommandRefusedTypes, ClosedAlreadyTypes, BeginTypes,
   ConnectDoneTypes, ReadDoneTypes, SetpointDoneTypes, StartDoneTypes, StopDoneTypes,
   DisconnectDoneTypes, SdkFailsTypes, ShutdownStopsTypes, ShutdownDoneTypes,
   DetachVerifiedTypes, DetachCommitsTypes, DetachAbortsTypes, PrepareFailsTypes,
   RequestDrivenModeTypes, SetDrivenModeTypes, ObserveModeTypes, PrepareDoneTypes DEF Owner

-----------------------------------------------------------------------------
(* The thread of the controller object preserves TypeOK.                     *)

(* The signal at the head of the queue, and what remains of the queue.       *)
LEMMA HeadTypes ==
  ASSUME TypeOK, sig # <<>>
  PROVE  /\ Head(sig) \in Signal /\ Tail(sig) \in Seq(Signal)
         /\ Head(sig).kind = "state" => Head(sig).state \in OwnerStates
         /\ Head(sig).kind = "terminal" => Head(sig).req \in Req
<1>1. Head(sig) \in Signal /\ Tail(sig) \in Seq(Signal)
  BY HeadTailProperties DEF TypeOK, SignalsOK
<1>2. QED BY <1>1 DEF Signal

LEMMA TerminalTypes ==
  ASSUME TypeOK, NEW r \in Req, NEW q \in Request, Terminal(r, q)
  PROVE  /\ req' \in [Req -> Request] /\ prepH' \in ReqOrNone /\ prepEvt' \in BOOLEAN
         /\ DisplayOK' /\ cgen' \in Nat
<1>1. [q EXCEPT !.reg = FALSE] \in Request
  BY DEF Request
<1>2. req' \in [Req -> Request]
  BY <1>1 DEF Terminal, TypeOK, RequestsOK
<1>3. prepH' \in ReqOrNone /\ prepEvt' \in BOOLEAN
  BY DEF Terminal, TypeOK, ControllerOK, ReqOrNone
<1>4. slot' \in ReqOrNone
  BY DEF Terminal, TypeOK, DisplayOK, ReqOrNone
<1>5. NoCache \in [gen : Nat, val : Nat] /\ [gen |-> q.gen, val |-> q.val] \in [gen : Nat, val : Nat]
  BY DEF NoCache, Request
<1>6. DisplayOK'
  BY <1>4, <1>5 DEF Terminal, TypeOK, DisplayOK
<1>7. cgen' \in Nat
  BY DEF Terminal, TypeOK, ControllerOK
<1>8. QED BY <1>2, <1>3, <1>6, <1>7

LEMMA CacheStateTypes ==
  ASSUME TypeOK, CacheState PROVE TypeOK'
<1>1. ControllerOK' /\ SignalsOK'
  BY HeadTypes DEF CacheState, NextSig, TypeOK, ControllerOK, SignalsOK, CachedStates
<1>2. QED BY <1>1, UnchangedTypes DEF CacheState, TypeOK

LEMMA RequestTerminalTypes ==
  ASSUME TypeOK, RequestTerminal PROVE TypeOK'
<1> DEFINE r == Head(sig).req
<1>1. r \in Req /\ Tail(sig) \in Seq(Signal)
  BY HeadTypes DEF RequestTerminal, NextSig
<1>2. req[r] \in Request /\ Terminal(r, req[r])
  BY <1>1 DEF RequestTerminal, TypeOK, RequestsOK
<1> HIDE DEF r
<1>3. /\ req' \in [Req -> Request] /\ prepH' \in ReqOrNone /\ prepEvt' \in BOOLEAN
      /\ DisplayOK' /\ cgen' \in Nat
  BY <1>1, <1>2, TerminalTypes
<1>4. RequestsOK' /\ ControllerOK' /\ EventsOK' /\ SignalsOK'
  BY <1>1, <1>3 DEF RequestTerminal, NextSig, TypeOK, RequestsOK, ControllerOK, EventsOK,
     SignalsOK
<1>5. QED BY <1>3, <1>4, UnchangedTypes DEF RequestTerminal, TypeOK

LEMMA ThreadTypes ==
  ASSUME TypeOK, ThreadQuit \/ ThreadFinish PROVE TypeOK'
<1>1. CASE ThreadQuit
  <2>1. SignalsOK'
    BY <1>1, HeadTypes DEF ThreadQuit, NextSig, TypeOK, SignalsOK
  <2>2. QED BY <1>1, <2>1, UnchangedTypes DEF ThreadQuit, TypeOK
<1>2. CASE ThreadFinish
  <2>1. SignalsOK'
    BY <1>2, SignalTypes, AppendProperties DEF ThreadFinish, TypeOK, SignalsOK
  <2>2. QED BY <1>2, <2>1, UnchangedTypes DEF ThreadFinish, TypeOK
<1>3. QED BY <1>1, <1>2

LEMMA ThreadFinishedTypes ==
  ASSUME TypeOK, ThreadFinished PROVE TypeOK'
<1>1. SignalsOK'
  BY HeadTypes DEF ThreadFinished, NextSig, TypeOK, SignalsOK
<1>2. OwnerOK'
  BY DEF ThreadFinished, TypeOK, OwnerOK, ReqOrNone
<1>3. CASE deferred = NoReq
  <2>1. RequestsOK' /\ ControllerOK' /\ LifecycleOK' /\ EventsOK' /\ DisplayOK'
    BY <1>3 DEF ThreadFinished, TypeOK, RequestsOK, ControllerOK, LifecycleOK, EventsOK,
       DisplayOK, dispVars
  <2>2. QED BY <1>1, <1>2, <2>1, UnchangedTypes DEF ThreadFinished, TypeOK
<1>4. CASE deferred # NoReq
  <2> DEFINE q == [req[deferred] EXCEPT !.drained = TRUE]
  <2>1. deferred \in Req
    BY <1>4 DEF TypeOK, OwnerOK, ReqOrNone
  <2>2. req[deferred] \in Request
    BY <2>1 DEF TypeOK, RequestsOK
  <2>3. q \in Request
    BY <2>2 DEF Request
  <2>4. Terminal(deferred, q)
    BY <1>4 DEF ThreadFinished
  <2> HIDE DEF q
  <2>5. /\ req' \in [Req -> Request] /\ prepH' \in ReqOrNone /\ prepEvt' \in BOOLEAN
        /\ DisplayOK' /\ cgen' \in Nat
    BY <2>1, <2>3, <2>4, TerminalTypes
  <2>6. RequestsOK' /\ ControllerOK' /\ LifecycleOK' /\ EventsOK'
    BY <1>4, <2>5 DEF ThreadFinished, TypeOK, RequestsOK, ControllerOK, LifecycleOK,
       EventsOK, CachedStates, OwnerStates
  <2>7. QED BY <1>1, <1>2, <2>5, <2>6, UnchangedTypes DEF ThreadFinished, TypeOK
<1>5. QED BY <1>3, <1>4

LEMMA MagnetTypes ==
  ASSUME TypeOK, MagnetSettles \/ MagnetReverts PROVE TypeOK'
<1>1. MagnetOK'
  BY DEF MagnetSettles, MagnetReverts, TypeOK, MagnetOK
<1>2. QED BY <1>1, UnchangedTypes DEF MagnetSettles, MagnetReverts, TypeOK

(* The initial state has its types. *)
LEMMA InitTypes == Init => TypeOK
<1> SUFFICES ASSUME Init PROVE TypeOK
  OBVIOUS
<1>1. Unused \in Request
  BY DEF Unused, Request, Commands, Plain
<1>2. RequestsOK
  BY <1>1, BoundAssumption DEF Init, RequestsOK
<1>3. MailOK /\ BusyOK /\ OwnerOK /\ ControllerOK
  BY DEF Init, MailOK, BusyOK, OwnerOK, ControllerOK, ReqOrNone, CachedStates, OwnerStates
<1>4. LifecycleOK /\ EventsOK /\ DisplayOK /\ MagnetOK
  BY DEF Init, LifecycleOK, EventsOK, DisplayOK, MagnetOK, NoCache, ReqOrNone
<1>5. SignalsOK
  <2>1. << >> \in Seq(Signal)
    BY EmptySeq
  <2>2. QED BY <2>1 DEF Init, SignalsOK
<1>6. GapsOK
  BY DEF Init, GapsOK
<1>7. QED BY <1>2, <1>3, <1>4, <1>5, <1>6 DEF TypeOK

LEMMA NextTypes == TypeOK /\ [Next]_vars => TypeOK'
<1> SUFFICES ASSUME TypeOK, [Next]_vars PROVE TypeOK'
  OBVIOUS
<1>1. CASE Client
  BY <1>1, ClientTypes
<1>2. CASE Owner
  BY <1>2, OwnerTypes
<1>3. CASE Main
  BY <1>3, CacheStateTypes, RequestTerminalTypes, ThreadTypes, ThreadFinishedTypes DEF Main
<1>4. CASE ThreadFinish \/ MagnetSettles \/ MagnetReverts
  BY <1>4, ThreadTypes, MagnetTypes
<1>5. CASE \E r \in Req : Timer(r)
  BY <1>5, WatchdogTypes
<1>6. CASE UNCHANGED vars
  BY <1>6, UnchangedTypes DEF vars, TypeOK
<1>7. QED BY <1>1, <1>2, <1>3, <1>4, <1>5, <1>6 DEF Next

(* Every variable of the controller keeps its type, for every bound on the   *)
(* calls and every choice of commands: in particular a busy owner always has *)
(* a request, and every terminal signal names one.                           *)
THEOREM TypeCorrect == Spec => []TypeOK
BY InitTypes, NextTypes, PTL DEF Spec

-----------------------------------------------------------------------------
(* Custody of the field.                                                     *)
(* The field is never energised without an owner who will stop it, the       *)
(* recovery lock covers every mode change, and the controller implements     *)
(* FieldCustody.  Custodial is the inductive invariant.  Clients, watchdogs  *)
(* and the GUI thread are quiet: they touch neither what the owner knows nor *)
(* the command it executes.  The cases that matter are the owner's.          *)

(* What a step of any other thread leaves alone. *)
Quiet ==
  /\ UNCHANGED <<cur, opc, adapter, mayBeActive, recovery, field>>
  /\ count' \in Nat /\ count <= count'
  /\ \A r \in Req : r <= count => req'[r].cmd = req[r].cmd
  /\ \A r \in ordinary' : r <= count'
  /\ stopSlot' <= count' /\ shutSlot' <= count'

(* A record keeps its command through everything but Fresh. *)
LEMMA SameCommand ==
  ASSUME NEW r \in Req, req[r] \in Request
  PROVE  CancelledReq(r).cmd = req[r].cmd /\ Dropped(r).cmd = req[r].cmd
BY DEF CancelledReq, Dropped, Request

LEMMA QuietEnough ==
  ASSUME Custodial, Quiet, TypeOK', UNCHANGED mode
  PROVE  Known' /\ Executing' /\ FieldOwned' /\ ModeRecovery'
<1>1. cur \in Nat /\ count \in Nat /\ cur <= count
  BY BoundAssumption DEF Custodial, Known, TypeOK, BusyOK, RequestsOK, ReqOrNone, Req, NoReq
<1>2. Known'
  BY <1>1 DEF Quiet, Known
<1>3. opc # "idle" => cur \in Req /\ Cmd' = Cmd
  BY <1>1 DEF Quiet, Cmd, Custodial, TypeOK, BusyOK
<1>4. Executing'
  BY <1>3 DEF Quiet, Custodial, Executing
<1>5. FieldOwned' /\ ModeRecovery'
  BY DEF Quiet, Custodial, FieldOwned, ModeRecovery
<1>6. QED BY <1>2, <1>4, <1>5

-----------------------------------------------------------------------------
(* Every other thread is quiet.                                              *)

Numbers == /\ count \in Nat /\ stopSlot \in Nat /\ shutSlot \in Nat
           /\ ordinary \subseteq Req /\ (\A r \in Req : r \in Nat)

LEMMA NumbersTyped == ASSUME TypeOK PROVE Numbers
BY BoundAssumption DEF TypeOK, RequestsOK, MailOK, ReqOrNone, NoReq, Req, Numbers

(* The commands of existing requests survive a new one and a cancellation.   *)
CommandsKept == \A r \in Req : r <= count => req'[r].cmd = req[r].cmd

LEMMA EnqueueQuiet ==
  ASSUME TypeOK, Known, NEW c \in Commands, Enqueue(c)
  PROVE  /\ CommandsKept /\ count' \in Nat /\ count <= count'
         /\ \A r \in ordinary' : r <= count'
<1>1. Numbers
  BY NumbersTyped
<1>2. CommandsKept
  BY <1>1 DEF Enqueue, Create, CommandsKept, TypeOK, RequestsOK, Numbers
<1>3. QED BY <1>1, <1>2 DEF Enqueue, Create, Known, Numbers

LEMMA WithdrawQuiet ==
  ASSUME TypeOK, WithdrawPreparation
  PROVE  CommandsKept /\ ordinary' \subseteq ordinary
<1>1. ASSUME NEW r \in Req PROVE req[r] \in Request
  BY DEF TypeOK, RequestsOK
<1>2. CASE prepH \in ordinary
  <2>1. prepH \in Req
    BY <1>2 DEF TypeOK, MailOK
  <2>2. Dropped(prepH).cmd = req[prepH].cmd
    BY <1>1, <2>1, SameCommand
  <2>3. CommandsKept
    BY <1>2, <2>2 DEF WithdrawPreparation, CommandsKept, TypeOK, RequestsOK
  <2>4. QED BY <1>2, <2>3 DEF WithdrawPreparation
<1>3. CASE prepH \notin ordinary
  BY <1>3 DEF WithdrawPreparation, CommandsKept
<1>4. QED BY <1>2, <1>3

LEMMA IssueQuiet ==
  ASSUME TypeOK, Known, IssueStop
  PROVE  /\ CommandsKept /\ count' \in Nat /\ count <= count'
         /\ ordinary' \subseteq ordinary /\ stopSlot' <= count'
<1>1. Numbers
  BY NumbersTyped
<1>2. ASSUME NEW r \in Req PROVE CancelledReq(r).cmd = req[r].cmd
  BY SameCommand DEF TypeOK, RequestsOK
<1>3. CASE stopH = NoReq
  BY <1>1, <1>2, <1>3 DEF IssueStop, CommandsKept, Numbers
<1>4. CASE stopH # NoReq
  BY <1>1, <1>2, <1>4 DEF IssueStop, CommandsKept, Numbers, Known
<1>5. QED BY <1>3, <1>4

(* What is left to show of a step that keeps the owner's own state. *)
LEMMA QuietStep ==
  ASSUME CommandsKept, count' \in Nat, count <= count',
         \A r \in ordinary' : r <= count', stopSlot' <= count', shutSlot' <= count',
         UNCHANGED <<cur, opc, ownVars, recovery, field>>
  PROVE  Quiet
BY DEF Quiet, CommandsKept, ownVars

LEMMA SubmissionsQuiet ==
  ASSUME TypeOK, Known,
         \/ \E c \in Ops : SubmitPlain(c) \/ CheckStop(c) \/ SubmitPast(c)
         \/ ConnectAsync \/ DisconnectAsync \/ PrepareAsync \/ DetachAsync
         \/ DisplayAsync \/ InvalidateDisplayCache
  PROVE  Quiet
<1>1. Numbers
  BY NumbersTyped
<1>2. UNCHANGED <<stopSlot, shutSlot, cur, opc, ownVars, recovery, field>>
  BY DEF SubmitPlain, CheckStop, SubmitPast, ConnectAsync, DisconnectAsync, PrepareAsync,
     DetachAsync, DisplayAsync, InvalidateDisplayCache, lifeVars, hwVars, mailVars
<1>3. (\E c \in Commands : Enqueue(c)) \/ UNCHANGED <<req, count, ordinary>>
  BY OpsAssumption DEF SubmitPlain, CheckStop, SubmitPast, ConnectAsync, DisconnectAsync,
     PrepareAsync, DetachAsync, DisplayAsync, InvalidateDisplayCache, Commands, Plain, mailVars
<1>4. /\ CommandsKept /\ count' \in Nat /\ count <= count'
      /\ \A r \in ordinary' : r <= count'
  BY <1>1, <1>3, EnqueueQuiet DEF CommandsKept, Known, Numbers
<1>5. stopSlot' <= count' /\ shutSlot' <= count'
  BY <1>1, <1>2, <1>4 DEF Known, Numbers
<1>6. QED BY <1>2, <1>4, <1>5, QuietStep

LEMMA StopsQuiet ==
  ASSUME TypeOK, Known, RequestStop \/ RetryStop \/ CancelMagnetPreparation
  PROVE  Quiet
<1>1. Numbers
  BY NumbersTyped
<1>2. UNCHANGED <<shutSlot, cur, opc, ownVars, recovery, field>>
  BY DEF RequestStop, RetryStop, CancelMagnetPreparation, mailVars, lifeVars, hwVars
<1>4. \/ WithdrawPreparation /\ UNCHANGED <<count, stopSlot>>
      \/ IssueStop
      \/ UNCHANGED <<req, count, ordinary, stopSlot>>
  BY DEF RequestStop, RetryStop, CancelMagnetPreparation, mailVars
<1>5. /\ CommandsKept /\ count' \in Nat /\ count <= count'
      /\ ordinary' \subseteq ordinary /\ stopSlot' <= count'
  BY <1>1, <1>4, WithdrawQuiet, IssueQuiet DEF CommandsKept, Known, Numbers
<1>6. (\A r \in ordinary' : r <= count') /\ shutSlot' <= count'
  BY <1>1, <1>2, <1>5 DEF Known, Numbers
<1>7. QED BY <1>2, <1>5, <1>6, QuietStep

LEMMA ShutdownQuiet ==
  ASSUME TypeOK, Known,
         RequestShutdown \/ ShutdownRaisesStop \/ ShutdownSweeps \/ ShutdownSubmits
  PROVE  Quiet
<1>1. Numbers
  BY NumbersTyped
<1>2. ASSUME NEW r \in Req PROVE CancelledReq(r).cmd = req[r].cmd
  BY SameCommand DEF TypeOK, RequestsOK
<1>3. UNCHANGED <<stopSlot, cur, opc, ownVars, recovery, field>>
  BY DEF RequestShutdown, ShutdownRaisesStop, ShutdownSweeps, ShutdownSubmits, mailVars,
     lifeVars, hwVars
<1>4. /\ CommandsKept /\ count' \in Nat /\ count <= count'
      /\ ordinary' \subseteq ordinary /\ shutSlot' <= count'
  <2>1. CASE RequestShutdown \/ ShutdownRaisesStop
    BY <1>1, <2>1 DEF RequestShutdown, ShutdownRaisesStop, CommandsKept, Known, Numbers,
       mailVars
  <2>2. CASE ShutdownSweeps
    BY <1>1, <1>2, <2>2 DEF ShutdownSweeps, CommandsKept, Known, Numbers
  <2>3. CASE ShutdownSubmits
    BY <1>1, <2>3 DEF ShutdownSubmits, Create, CommandsKept, Known, Numbers, TypeOK,
       RequestsOK
  <2>4. QED BY <2>1, <2>2, <2>3
<1>5. (\A r \in ordinary' : r <= count') /\ stopSlot' <= count'
  BY <1>1, <1>3, <1>4 DEF Known, Numbers
<1>6. QED BY <1>3, <1>4, <1>5, QuietStep

LEMMA TimersQuiet ==
  ASSUME TypeOK, Known, NEW t \in Req, Timer(t) PROVE Quiet
<1>1. Numbers
  BY NumbersTyped
<1>2. ASSUME NEW r \in Req
      PROVE  /\ CancelledReq(r).cmd = req[r].cmd /\ Dropped(r).cmd = req[r].cmd
             /\ req[r] \in Request
  BY SameCommand DEF TypeOK, RequestsOK
<1>3. UNCHANGED <<shutSlot, cur, opc, ownVars, recovery, field>>
  BY DEF Timer, TimeoutQueued, TimeoutRunning, TimeoutRaisesStop, TimeoutRequestsStop,
     TimeoutChecksPreparation, TimeoutRaisesEvent, mailVars, lifeVars, hwVars
<1>4. CASE TimeoutQueued(t)
  <2>1. CommandsKept
    BY <1>2, <1>4 DEF TimeoutQueued, CommandsKept, TypeOK, RequestsOK
  <2>2. QED BY <1>1, <1>3, <1>4, <2>1, QuietStep DEF TimeoutQueued, Known, Numbers
<1>5. CASE TimeoutRequestsStop(t)
  <2> DEFINE spent == [req EXCEPT ![t].timer = "spent"]
  <2>1. ASSUME NEW r \in Req PROVE spent[r].cmd = req[r].cmd
    BY <1>2, <2>1 DEF TypeOK, RequestsOK, Request
  <2>2. prepH \in ordinary => prepH \in Req
    BY DEF TypeOK, MailOK
  <2>3. spent \in [Req -> Request]
    BY DEF TypeOK, RequestsOK, Request
  <2>4. CommandsKept
    <3>1. CASE prepH \in ordinary /\ req' = [spent EXCEPT ![prepH] = Dropped(prepH)]
      <4> HIDE DEF spent
      <4>1. QED BY <1>2, <2>1, <2>2, <2>3, <3>1 DEF CommandsKept
    <3>2. CASE req' = spent
      <4> HIDE DEF spent
      <4>1. QED BY <2>1, <3>2 DEF CommandsKept
    <3>3. CASE req' = [q \in Req |-> IF q = count + 1 THEN Fresh("STOP")
                                 ELSE IF Swept(q) THEN CancelledReq(q) ELSE spent[q]]
      <4> HIDE DEF spent
      <4>1. QED BY <1>1, <1>2, <2>1, <3>3 DEF CommandsKept, Numbers
    <3>4. CASE req' = [q \in Req |-> IF Swept(q) THEN CancelledReq(q) ELSE spent[q]]
      <4> HIDE DEF spent
      <4>1. QED BY <1>2, <2>1, <3>4 DEF CommandsKept
    <3>5. QED BY <1>5, <3>1, <3>2, <3>3, <3>4 DEF TimeoutRequestsStop
  <2>5. /\ count' \in Nat /\ count <= count' /\ ordinary' \subseteq ordinary
        /\ stopSlot' <= count'
    BY <1>1, <1>5 DEF TimeoutRequestsStop, Numbers, Known
  <2>6. QED BY <1>1, <1>3, <2>4, <2>5, QuietStep DEF Known, Numbers
<1>6. CASE \/ TimeoutRunning(t) \/ TimeoutRaisesStop(t)
           \/ TimeoutChecksPreparation(t) \/ TimeoutRaisesEvent(t)
  <2>1. UNCHANGED <<count, ordinary, stopSlot>>
    BY <1>6 DEF TimeoutRunning, TimeoutRaisesStop, TimeoutChecksPreparation,
       TimeoutRaisesEvent, mailVars
  <2>2. CommandsKept
    BY <1>2, <1>6 DEF TimeoutRunning, TimeoutRaisesStop, TimeoutChecksPreparation,
       TimeoutRaisesEvent, CommandsKept, TypeOK, RequestsOK, Request
  <2>3. QED BY <1>1, <1>3, <2>1, <2>2, QuietStep DEF Known, Numbers
<1>7. QED BY <1>4, <1>5, <1>6 DEF Timer

LEMMA TerminalKeeps ==
  ASSUME TypeOK, NEW r \in Req, NEW q \in Request, q.cmd = req[r].cmd, Terminal(r, q)
  PROVE  CommandsKept
BY DEF Terminal, CommandsKept, TypeOK, RequestsOK, Request

LEMMA MainQuiet ==
  ASSUME TypeOK, Known, Main \/ ThreadFinish
  PROVE  CommandsKept /\ UNCHANGED <<count, mailVars, cur, opc, adapter, mayBeActive, recovery, hwVars>>
<1>1. /\ sig # <<>> => Head(sig) \in Signal
      /\ sig # <<>> /\ Head(sig).kind = "terminal" => Head(sig).req \in Req
  <2>1. sig # <<>> => Head(sig) \in Signal
    BY HeadTailProperties DEF TypeOK, SignalsOK
  <2>2. QED BY <2>1 DEF Signal
<1>2. ASSUME NEW r \in Req PROVE req[r] \in Request
  BY DEF TypeOK, RequestsOK
<1>3. CommandsKept
  <2>1. CASE RequestTerminal
    BY <1>1, <1>2, <2>1, TerminalKeeps DEF RequestTerminal, NextSig
  <2>2. CASE ThreadFinished
    <3>1. CASE deferred = NoReq
      BY <2>2, <3>1 DEF ThreadFinished, CommandsKept
    <3>2. CASE deferred # NoReq
      <4> DEFINE q == [req[deferred] EXCEPT !.drained = TRUE]
      <4>1. deferred \in Req
        BY <3>2 DEF TypeOK, OwnerOK, ReqOrNone
      <4>2. q \in Request /\ q.cmd = req[deferred].cmd
        BY <1>2, <4>1 DEF Request
      <4>3. Terminal(deferred, q)
        BY <2>2, <3>2 DEF ThreadFinished
      <4> HIDE DEF q
      <4>4. QED BY <4>1, <4>2, <4>3, TerminalKeeps
    <3>3. QED BY <3>1, <3>2
  <2>3. CASE CacheState \/ ThreadQuit \/ ThreadFinish
    BY <2>3 DEF CacheState, ThreadQuit, ThreadFinish, CommandsKept
  <2>4. QED BY <2>1, <2>2, <2>3 DEF Main
<1>4. QED BY <1>3 DEF Main, CacheState, RequestTerminal, ThreadQuit, ThreadFinished,
   ThreadFinish, mailVars, ownVars, lifeVars, hwVars

-----------------------------------------------------------------------------
(* The steps of the owner.                                                   *)

Finishing == \/ RejectStale \/ CommandRefused \/ ClosedAlready \/ ConnectDone
             \/ ReadDone \/ SetpointDone \/ StartDone \/ StopDone \/ DisconnectDone
             \/ SdkFails \/ ShutdownDone \/ DetachCommits \/ DetachAborts
             \/ PrepareFails \/ PrepareDone

(* A command that ends leaves the owner with nothing in its hands. *)
LEMMA FinishingReleases ==
  ASSUME Custodial, Finishing
  PROVE  Known' /\ Executing' /\ opc # "idle" /\ cur \in Req
<1>1. UNCHANGED <<count, mailVars>> /\ cur' = NoReq /\ opc' = "idle" /\ opc # "idle"
  BY DEF Finishing, RejectStale, CommandRefused, ClosedAlready, ConnectDone, ReadDone,
     SetpointDone, StartDone, StopDone, DisconnectDone, SdkFails, ShutdownDone,
     DetachCommits, DetachAborts, PrepareFails, PrepareDone, Fail, FailWith, Succeed,
     Release, InSdk
<1>2. Executing'
  BY <1>1 DEF Executing
<1>3. Numbers
  BY NumbersTyped DEF Custodial
<1>4. Known'
  BY <1>1, <1>3 DEF Custodial, Known, mailVars, Numbers, NoReq
<1>5. cur \in Req
  BY <1>1 DEF Custodial, TypeOK, BusyOK
<1>6. QED BY <1>1, <1>2, <1>4, <1>5

(* The field and the mode, and what the abstract specification makes of them:*)
(* the commands that change neither the transport nor the magnet.            *)
LEMMA CustodyUntouched ==
  ASSUME Custodial, \/ RejectStale \/ CommandRefused \/ ClosedAlready \/ ReadDone
                    \/ SetpointDone \/ SdkFails \/ DetachAborts
  PROVE  FieldOwned' /\ ModeRecovery' /\ UNCHANGED <<adapter, recovery, field, mode>>
<1>1. UNCHANGED <<adapter, mayBeActive, recovery, field, mode>>
  BY DEF RejectStale, CommandRefused, ClosedAlready, ReadDone, SetpointDone, SdkFails,
     DetachAborts, lifeVars, hwVars
<1>2. QED BY <1>1 DEF Custodial, FieldOwned, ModeRecovery

LEMMA Connects ==
  ASSUME Custodial, ConnectDone
  PROVE  FieldOwned' /\ ModeRecovery' /\ Custody!Connect
<1>1. ~adapter /\ adapter' /\ UNCHANGED <<recovery, field, mode>> /\ ~mayBeActive'
  BY DEF Custodial, Executing, ConnectDone, InSdk, lifeVars
<1>2. field # "ours" /\ ~recovery
  BY <1>1 DEF Custodial, FieldOwned, ModeRecovery
<1>3. adapter' = TRUE
  BY DEF ConnectDone
<1>4. QED BY <1>1, <1>2, <1>3 DEF FieldOwned, ModeRecovery, Custodial, Custody!Connect

(* START is admitted only with a transport, a claim and no recovery lock.    *)
LEMMA Starts ==
  ASSUME Custodial, StartDone
  PROVE  FieldOwned' /\ ModeRecovery' /\ Custody!Start
<1>1. opc = "sdk" /\ Cmd = "START" /\ mode = "driven" /\ field' = "ours"
      /\ UNCHANGED <<adapter, mayBeActive, recovery, mode>>
  BY DEF StartDone, InSdk
<1>2. adapter /\ mayBeActive /\ ~recovery
  BY <1>1 DEF Custodial, Executing, BlockedByRecovery, Mutations, FieldMutations
<1>3. QED BY <1>1, <1>2 DEF FieldOwned, ModeRecovery, Custody!Start

LEMMA Stops ==
  ASSUME Custodial, StopDone \/ ShutdownStops
  PROVE  FieldOwned' /\ ModeRecovery' /\ Custody!Stop
<1>1. opc = "sdk" /\ Cmd \in {"STOP", "SHUTDOWN"} /\ field' = "off"
      /\ mayBeActive' = FALSE /\ UNCHANGED <<adapter, recovery, mode>>
  BY DEF StopDone, ShutdownStops, InSdk, lifeVars
<1>2. adapter /\ ~recovery
  BY <1>1 DEF Custodial, Executing, BlockedByRecovery
<1>3. QED BY <1>1, <1>2 DEF Custodial, FieldOwned, ModeRecovery, Custody!Stop

LEMMA Disconnects ==
  ASSUME Custodial, DisconnectDone \/ ShutdownDone
  PROVE  FieldOwned' /\ ModeRecovery' /\ Custody!Disconnect
<1>1. opc = "sdk" /\ Cmd \in {"DISCONNECT", "SHUTDOWN"} /\ adapter' = FALSE
      /\ (Cmd = "SHUTDOWN" => ~mayBeActive)
      /\ UNCHANGED <<mayBeActive, recovery, field, mode>>
  <2>1. CASE DisconnectDone
    BY <2>1 DEF DisconnectDone, InSdk, lifeVars, hwVars
  <2>2. CASE ShutdownDone
    BY <2>2 DEF ShutdownDone, InSdk, lifeVars, hwVars
  <2>3. QED BY <2>1, <2>2
<1>2. adapter /\ ~recovery /\ ~mayBeActive
  BY <1>1 DEF Custodial, Executing, BlockedByRecovery
<1>3. field # "ours"
  BY <1>2 DEF Custodial, FieldOwned
<1>4. QED BY <1>1, <1>2, <1>3 DEF Custodial, FieldOwned, ModeRecovery, Custody!Disconnect

(* The commit of a detach hands the field over and closes in one step.       *)
LEMMA HandsOver ==
  ASSUME Custodial, DetachCommits
  PROVE  FieldOwned' /\ ModeRecovery' /\ (Custody!HandOver \/ Custody!Disconnect)
<1>1. opc = "verified" /\ adapter' = FALSE /\ UNCHANGED <<recovery, mode>>
      /\ field' = (IF field = "ours" THEN "left" ELSE field)
  BY DEF DetachCommits
<1>2. Cmd = "DETACH" /\ mayBeActive
  BY <1>1 DEF Custodial, Executing
<1>3. adapter /\ ~recovery
  BY <1>1, <1>2 DEF Custodial, Executing, ModeRecovery
<1>4. QED BY <1>1, <1>3 DEF Custodial, FieldOwned, ModeRecovery, Custody!HandOver,
   Custody!Disconnect

LEMMA Recovers ==
  ASSUME Custodial, PrepareDone
  PROVE  /\ FieldOwned' /\ ModeRecovery'
         /\ Custody!Recover \/ UNCHANGED <<field, adapter, recovery, mode>>
<1>1. mode = "driven" /\ UNCHANGED <<adapter, mayBeActive, field, mode>>
      /\ (recovery' = TRUE <=> (recovery /\ (req[cur].state = "DRAINING" \/ prepEvt)))
      /\ recovery' \in BOOLEAN
  BY DEF PrepareDone, hwVars, Custodial, TypeOK, LifecycleOK
<1>2. recovery \in BOOLEAN
  BY DEF Custodial, TypeOK, LifecycleOK
<1>3. QED BY <1>1, <1>2 DEF Custodial, FieldOwned, ModeRecovery, Custody!Recover

(* The recovery lock is taken only when no field of ours can be on, and       *)
(* setDrivenMode is called under it.                                         *)
LEMMA LocksMode ==
  ASSUME Custodial, RequestDrivenMode
  PROVE  Executing' /\ FieldOwned' /\ ModeRecovery' /\ Custody!Lock
<1>1. /\ opc = "sdk" /\ Cmd = "PREPARE" /\ ~recovery /\ ~mayBeActive
      /\ opc' = "locked" /\ recovery' = TRUE
      /\ UNCHANGED <<req, cur, adapter, mayBeActive, field, mode>>
  BY DEF RequestDrivenMode, InSdk, MayRequestMode, LockMode, hwVars
<1>2. adapter /\ field # "ours"
  BY <1>1 DEF Custodial, Executing, FieldOwned
<1>3. Cmd' = Cmd
  BY <1>1 DEF Cmd
<1>4. Executing'
  BY <1>1, <1>2, <1>3 DEF Executing
<1>5. QED BY <1>1, <1>2, <1>4 DEF Custodial, FieldOwned, ModeRecovery, Custody!Lock

LEMMA ChangesMode ==
  ASSUME Custodial, SetDrivenMode
  PROVE  Executing' /\ FieldOwned' /\ ModeRecovery' /\ Custody!ChangeMode
<1>1. /\ opc = "locked" /\ opc' = "polling" /\ mode' = "changing"
      /\ UNCHANGED <<req, cur, adapter, mayBeActive, recovery, field>>
  BY DEF SetDrivenMode, ownVars, lifeVars
<1>2. Cmd = "PREPARE" /\ recovery /\ adapter
  BY <1>1 DEF Custodial, Executing
<1>3. Cmd' = Cmd
  BY <1>1 DEF Cmd
<1>4. Executing'
  BY <1>1, <1>2, <1>3 DEF Executing
<1>5. QED BY <1>1, <1>2, <1>4 DEF Custodial, FieldOwned, ModeRecovery, Custody!ChangeMode

(* A preparation that fails may have changed the mode, under the lock.       *)
LEMMA FailsToPrepare ==
  ASSUME Custodial, PrepareFails
  PROVE  /\ FieldOwned' /\ ModeRecovery'
         /\ Custody!ChangeMode \/ UNCHANGED <<field, adapter, recovery, mode>>
<1>1. /\ UNCHANGED <<adapter, mayBeActive, recovery, field>>
      /\ UNCHANGED mode \/ (opc = "locked" /\ mode' = "changing")
  BY DEF PrepareFails, lifeVars
<1>2. opc = "locked" => recovery /\ adapter
  BY DEF Custodial, Executing, ModeRecovery
<1>3. QED BY <1>1, <1>2 DEF Custodial, FieldOwned, ModeRecovery, Custody!ChangeMode

(* Begin is where the guards of _execute become what the owner knows.        *)
LEMMA Begins ==
  ASSUME Custodial, TypeOK', Begin
  PROVE  /\ Executing' /\ FieldOwned' /\ ModeRecovery'
         /\ UNCHANGED <<adapter, recovery, field, mode>>
<1>1. /\ ~Refused(Cmd) /\ (adapter \/ Cmd = "CONNECT") /\ opc' = "sdk"
      /\ UNCHANGED <<cur, adapter, recovery, field, mode>>
      /\ mayBeActive' = (mayBeActive \/ Cmd = "START")
  BY DEF Begin, ClaimField, lifeVars, hwVars
<1>2. Cmd' = Cmd
  <2>1. cur \in Req /\ req[cur] \in Request
    BY DEF Begin, Custodial, TypeOK, BusyOK, RequestsOK
  <2>2. QED BY <2>1 DEF Begin, Cmd, Request, Custodial, TypeOK, RequestsOK
<1>3. Cmd = "CONNECT" <=> ~adapter
  BY <1>1 DEF Refused
<1>4. Cmd \in BlockedByRecovery => ~recovery
  BY <1>1, <1>3 DEF Refused, BlockedByRecovery, Mutations, FieldMutations
<1>5. Cmd = "DISCONNECT" => ~mayBeActive
  BY <1>1, <1>3 DEF Refused
<1>6. Cmd = "DETACH" => mayBeActive
  BY <1>1 DEF Refused
<1>7. Executing'
  BY <1>1, <1>2, <1>3, <1>4, <1>5, <1>6 DEF Executing
<1>8. FieldOwned'
  BY <1>1 DEF Custodial, FieldOwned
<1>9. ModeRecovery'
  BY <1>1, <1>4 DEF Custodial, ModeRecovery, BlockedByRecovery, Mutations, FieldMutations
<1>10. QED BY <1>1, <1>7, <1>8, <1>9

LEMMA Moves ==
  ASSUME Custodial, Pop \/ DetachVerified \/ ObserveMode
  PROVE  /\ Executing' /\ FieldOwned' /\ ModeRecovery'
         /\ UNCHANGED <<adapter, recovery, field, mode>>
<1>1. UNCHANGED <<req, adapter, mayBeActive, recovery, field, mode>>
  BY DEF Pop, DetachVerified, ObserveMode, ownVars, lifeVars, hwVars
<1>2. FieldOwned' /\ ModeRecovery'
  BY <1>1 DEF Custodial, FieldOwned, ModeRecovery
<1>3. Executing'
  <2>1. CASE Pop
    BY <2>1 DEF Pop, Executing
  <2>2. CASE DetachVerified \/ ObserveMode
    <3>1. Cmd' = Cmd /\ opc = "sdk"
          /\ ((opc' = "verified" /\ Cmd = "DETACH")
              \/ (opc' = "polling" /\ Cmd = "PREPARE"))
      <4>1. Cmd' = Cmd
        BY <1>1, <2>2 DEF DetachVerified, ObserveMode, Cmd
      <4>2. QED BY <2>2, <4>1 DEF DetachVerified, ObserveMode, InSdk
    <3>2. QED BY <1>1, <3>1 DEF Custodial, Executing
  <2>3. QED BY <2>1, <2>2
<1>4. QED BY <1>1, <1>2, <1>3

LEMMA OwnerKnown ==
  ASSUME Custodial, Owner PROVE Known'
<1>1. Numbers
  BY NumbersTyped DEF Custodial
<1>2. CASE Finishing
  BY <1>2, FinishingReleases
<1>3. CASE \/ Begin \/ ShutdownStops \/ DetachVerified \/ RequestDrivenMode
           \/ SetDrivenMode \/ ObserveMode
  <2>1. UNCHANGED <<count, mailVars, cur>>
    BY <1>3 DEF Begin, ShutdownStops, DetachVerified, RequestDrivenMode, SetDrivenMode,
       ObserveMode
  <2>2. QED BY <2>1 DEF Custodial, Known, mailVars
<1>4. CASE Pop
  BY <1>1, <1>4 DEF Pop, Custodial, Known, Numbers, NoReq
<1>5. QED BY <1>2, <1>3, <1>4 DEF Owner, Finishing

(* One step: the invariant is kept, and the abstract specification moves or  *)
(* stutters.                                                                 *)
Held == Known /\ Executing /\ FieldOwned /\ ModeRecovery
CustodyStep == Custody!Next \/ UNCHANGED <<field, adapter, recovery, mode>>

LEMMA OwnerHolds ==
  ASSUME Custodial, TypeOK', Owner PROVE Held' /\ CustodyStep
<1>1. Known'
  BY OwnerKnown
<1>2. Finishing => Executing'
  BY FinishingReleases
<1>3. CASE \/ RejectStale \/ CommandRefused \/ ClosedAlready \/ ReadDone
           \/ SetpointDone \/ SdkFails \/ DetachAborts
  BY <1>1, <1>2, <1>3, CustodyUntouched DEF Finishing, Held, CustodyStep
<1>4. CASE ConnectDone
  BY <1>1, <1>2, <1>4, Connects DEF Finishing, Held, CustodyStep, Custody!Next
<1>5. CASE StartDone
  BY <1>1, <1>2, <1>5, Starts DEF Finishing, Held, CustodyStep, Custody!Next
<1>6. CASE StopDone
  BY <1>1, <1>2, <1>6, Stops DEF Finishing, Held, CustodyStep, Custody!Next
<1>7. CASE ShutdownStops
  <2>1. Executing'
    BY <1>7 DEF ShutdownStops, InSdk, Cmd, Custodial, Executing, lifeVars
  <2>2. QED BY <1>1, <1>7, <2>1, Stops DEF Held, CustodyStep, Custody!Next
<1>8. CASE DisconnectDone \/ ShutdownDone
  BY <1>1, <1>2, <1>8, Disconnects DEF Finishing, Held, CustodyStep, Custody!Next
<1>9. CASE DetachCommits
  BY <1>1, <1>2, <1>9, HandsOver DEF Finishing, Held, CustodyStep, Custody!Next
<1>10. CASE PrepareDone
  BY <1>1, <1>2, <1>10, Recovers DEF Finishing, Held, CustodyStep, Custody!Next
<1>11. CASE RequestDrivenMode \/ SetDrivenMode
  BY <1>1, <1>11, LocksMode, ChangesMode DEF Held, CustodyStep, Custody!Next
<1>12. CASE Begin
  BY <1>1, <1>12, Begins DEF Held, CustodyStep
<1>13. CASE Pop \/ DetachVerified \/ ObserveMode
  BY <1>1, <1>13, Moves DEF Held, CustodyStep
<1>14. CASE PrepareFails
  BY <1>1, <1>2, <1>14, FailsToPrepare DEF Finishing, Held, CustodyStep, Custody!Next
<1>15. QED BY <1>3, <1>4, <1>5, <1>6, <1>7, <1>8, <1>9, <1>10, <1>11, <1>12, <1>13,
       <1>14 DEF Owner

LEMMA QuietHolds ==
  ASSUME Custodial, TypeOK', Quiet, UNCHANGED mode PROVE Held' /\ CustodyStep
BY QuietEnough DEF Held, CustodyStep, Quiet

LEMMA MagnetHolds ==
  ASSUME Custodial, MagnetSettles \/ MagnetReverts PROVE Held' /\ CustodyStep
<1>1. UNCHANGED <<req, count, mailVars, cur, opc, adapter, mayBeActive, recovery, field>>
  BY DEF MagnetSettles, MagnetReverts, ownVars, lifeVars
<1>2. Held'
  <2>1. Known'
    BY <1>1 DEF Custodial, Known, mailVars
  <2>2. Executing'
    BY <1>1 DEF Custodial, Executing, Cmd
  <2>3. FieldOwned' /\ ModeRecovery'
    BY <1>1 DEF Custodial, FieldOwned, ModeRecovery, MagnetSettles, MagnetReverts
  <2>4. QED BY <2>1, <2>2, <2>3 DEF Held
<1>3. Custody!Settle \/ Custody!Revert
  BY <1>1 DEF MagnetSettles, MagnetReverts, Custody!Settle, Custody!Revert
<1>4. QED BY <1>2, <1>3 DEF CustodyStep, Custody!Next

LEMMA NextHolds == Custodial /\ [Next]_vars => Custodial' /\ CustodyStep
<1> SUFFICES ASSUME Custodial, [Next]_vars PROVE Custodial' /\ CustodyStep
  OBVIOUS
<1>1. TypeOK'
  BY NextTypes DEF Custodial
<1>2. Numbers /\ TypeOK /\ Known
  BY NumbersTyped DEF Custodial
<1>3. CASE Owner
  BY <1>3, <1>1, OwnerHolds DEF Held, Custodial
<1>4. CASE Client
  <2>1. Quiet
    BY <1>2, <1>4, SubmissionsQuiet, StopsQuiet, ShutdownQuiet DEF Client
  <2>2. UNCHANGED mode
    BY <1>4 DEF Client, SubmitPlain, CheckStop, SubmitPast, ConnectAsync,
       DisconnectAsync, PrepareAsync, CancelMagnetPreparation, DisplayAsync,
       InvalidateDisplayCache, RequestStop, RetryStop, DetachAsync, RequestShutdown,
       ShutdownRaisesStop, ShutdownSweeps, ShutdownSubmits, hwVars
  <2>3. QED BY <1>1, <2>1, <2>2, QuietHolds DEF Held, Custodial
<1>5. CASE \E r \in Req : Timer(r)
  <2>1. Quiet
    BY <1>2, <1>5, TimersQuiet
  <2>2. UNCHANGED mode
    BY <1>5 DEF Timer, TimeoutQueued, TimeoutRunning, TimeoutRaisesStop,
       TimeoutRequestsStop, TimeoutChecksPreparation, TimeoutRaisesEvent, hwVars
  <2>3. QED BY <1>1, <2>1, <2>2, QuietHolds DEF Held, Custodial
<1>6. CASE Main \/ ThreadFinish
  <2>1. /\ CommandsKept
        /\ UNCHANGED <<count, mailVars, cur, opc, adapter, mayBeActive, recovery, hwVars>>
    BY <1>2, <1>6, MainQuiet
  <2>2. Quiet /\ UNCHANGED mode
    BY <1>2, <2>1 DEF Quiet, CommandsKept, Known, Numbers, mailVars, hwVars
  <2>3. QED BY <1>1, <2>2, QuietHolds DEF Held, Custodial
<1>7. CASE MagnetSettles \/ MagnetReverts
  BY <1>1, <1>7, MagnetHolds DEF Held, Custodial
<1>8. CASE UNCHANGED vars
  <2>1. UNCHANGED <<req, count, mailVars, cur, opc, adapter, mayBeActive, recovery, field, mode>>
    BY <1>8 DEF vars, ownVars, lifeVars, hwVars
  <2>2. Known'
    BY <1>2, <2>1 DEF Known, mailVars
  <2>3. Executing' /\ FieldOwned' /\ ModeRecovery'
    BY <2>1 DEF Custodial, Executing, Cmd, FieldOwned, ModeRecovery
  <2>4. QED BY <1>1, <2>1, <2>2, <2>3 DEF Custodial, CustodyStep
<1>9. QED BY <1>3, <1>4, <1>5, <1>6, <1>7, <1>8 DEF Next

LEMMA InitHolds == Init => Custodial
<1> SUFFICES ASSUME Init PROVE Custodial
  OBVIOUS
<1>1. TypeOK
  BY InitTypes
<1>2. Known /\ Executing
  BY DEF Init, Known, Executing, NoReq
<1>3. FieldOwned /\ ModeRecovery
  BY DEF Init, FieldOwned, ModeRecovery
<1>4. QED BY <1>1, <1>2, <1>3 DEF Custodial

LEMMA CustodialAlways == Spec => []Custodial
BY InitHolds, NextHolds, PTL DEF Spec

(* A field this program energised always has an open transport and an owner  *)
(* that knows it must stop it (START, STOP, DETACH and SHUTDOWN of _execute). *)
THEOREM FieldAlwaysOwned == Spec => []FieldOwned
<1>1. Custodial => FieldOwned
  BY DEF Custodial
<1>2. QED BY <1>1, CustodialAlways, PTL

(* A mode change is always covered by the recovery lock, and the lock never  *)
(* holds over a field this program may have to stop (PREPARE of _execute).   *)
THEOREM RecoveryCoversModeChange == Spec => []ModeRecovery
<1>1. Custodial => ModeRecovery
  BY DEF Custodial
<1>2. QED BY <1>1, CustodialAlways, PTL

(* The threads, requests, watchdogs and signals of the controller implement  *)
(* FieldCustody: energising, stopping, handing over and changing the mode    *)
(* happen only where the abstract specification allows them.                 *)
THEOREM ControllerImplementsCustody == Spec => ImplementsCustody
<1>1. Init => Custody!Init
  BY DEF Init, Custody!Init
<1>2. Custodial /\ [Next]_vars => [Custody!Next]_(Custody!vars)
  BY NextHolds DEF CustodyStep, Custody!vars
<1>3. QED BY <1>1, <1>2, CustodialAlways, PTL DEF Spec, ImplementsCustody, Custody!Spec
=============================================================================
