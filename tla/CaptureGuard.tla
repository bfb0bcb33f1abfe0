--------------------------- MODULE CaptureGuard ---------------------------
(***************************************************************************)
(* The guard of a LightField connection, app/lightfield_capture_guard.py,  *)
(* with the two scopes of app/lightfield_metadata.py that move a dataset   *)
(* of the camera through it.                                               *)
(*                                                                         *)
(* One thread owns an operation: it opens scopes on it, makes SDK calls,   *)
(* writes local metadata, and unwinds.  One monitor thread per operation   *)
(* sleeps until the deadline of the domain (SDK or metadata) that is being *)
(* timed.  Whoever first sees the deadline passed, monitor or owner, puts  *)
(* the connection in quarantine.  Every action is one critical section of  *)
(* the guard's lock or one SDK call; threads that do not own the operation *)
(* are refused before they change anything and are left out.               *)
(***************************************************************************)
EXTENDS Integers, Sequences

CONSTANTS
    Budgets,      \* the SDK wait budgets that _budget may return
    MetaBudget,   \* METADATA_WAIT_TIMEOUT_S
    MaxOps,       \* bound: operations started
    MaxScopes,    \* bound: scopes open at once
    Horizon       \* bound: the latest instant of the clock

ASSUME BudgetsPositive == Budgets \subseteq Nat \ {0} /\ Budgets # {}
ASSUME MetaBudgetPositive == MetaBudget \in Nat \ {0}
ASSUME BoundsNatural == MaxOps \in Nat /\ MaxScopes \in Nat /\ Horizon \in Nat

VARIABLES
    now,       \* time.monotonic()
    prompt,    \* whether a due monitor runs before the clock advances
    cur,       \* number of the operation in _current, 0 before the first
    active,    \* _active
    recovery,  \* _recovery_required
    op,        \* the CaptureOperation in _current
    scopes,    \* the owner's open with-blocks, innermost last
    mode,      \* "raise" while an exception unwinds the scopes
    todo,      \* what the owner still does after a lock section
    raw,       \* position in scopes of the block that owns a dataset, or 0
    watch      \* the monitor thread of each operation

guard == <<cur, active, recovery, op>>
owner == <<scopes, mode, todo, raw>>
vars == <<now, prompt, guard, owner, watch>>

Ops == 1 .. MaxOps
OpScopes == {"operation", "reader", "capture"}
MetaScopes == {"strict", "lenient"}
Causes == {"none", "sdk", "metadata", "dispose"}

\* sdk and meta count, beside the guard's own arithmetic, the instants spent
\* in SDK time and in the present metadata span.
Operation == [started : Nat, budget : Nat, deadline : Nat, metaElapsed : Nat,
              metaStarted : Nat, metaDepth : Nat, depth : Nat,
              stalled : BOOLEAN, cause : Causes, sdk : Nat, meta : Nat]
Resting(at) == [at |-> at, alarm |-> 0, wake |-> FALSE]
Monitor == [at : {"none", "look", "wait", "gone"}, alarm : Nat, wake : BOOLEAN]

NewOperation(b) ==
    [started |-> now, budget |-> b, deadline |-> now + b, metaElapsed |-> 0,
     metaStarted |-> 0, metaDepth |-> 0, depth |-> 1,
     stalled |-> FALSE, cause |-> "none", sdk |-> 0, meta |-> 0]

Init ==
    /\ now = 0
    /\ prompt \in BOOLEAN
    /\ cur = 0 /\ active = FALSE /\ recovery = FALSE
    /\ op = [NewOperation(0) EXCEPT !.depth = 0]
    /\ scopes = <<>> /\ mode = "run" /\ todo = "none" /\ raw = 0
    /\ watch = [o \in Ops |-> Resting("none")]

---------------------------------------------------------------------------
(* The guard's own helpers, called with its lock held on the active        *)
(* operation.                                                              *)

DeadlineOf(o) ==
    IF o.metaDepth > 0 THEN o.metaStarted + MetaBudget ELSE o.deadline

\* mutant: a second incident replaces the first
QuarantinedAgain(o, cause) == [o EXCEPT !.stalled = TRUE, !.cause = cause]

Quarantined(o, cause) ==
    IF o.stalled THEN o ELSE [o EXCEPT !.stalled = TRUE, !.cause = cause]

Expired(o) ==
    IF now >= DeadlineOf(o)
    THEN Quarantined(o, IF o.metaDepth > 0 THEN "metadata" ELSE "sdk")
    ELSE o

Keep(o) == op' = o /\ recovery' = (recovery \/ o.stalled)

\* mutant: the monitor is not told that the deadline moved
Unwoken == watch

\* _wake.set(): the event is cleared at every look, so only a sleeping monitor
\* can find it set.
Woken == [watch EXCEPT ![cur].wake = (watch[cur].at = "wait")]

---------------------------------------------------------------------------
(* The owner.                                                              *)

Top == scopes[Len(scopes)]
Running == mode = "run" /\ todo = "none"
Outer == SubSeq(scopes, 1, Len(scopes) - 1)
SdkScope == Len(scopes) > 0 /\ Top \in OpScopes

\* The datasets' only way in is managed_capture_dataset, which opens a reader
\* and calls capture_with_metadata once inside it.
\* A metadata span only writes records: no caller opens an operation inside one,
\* although _enter itself would let it (local_metadata in lightfield_metadata.py
\* and dual_gate_metadata.py).
Nests(k) == (k = "capture") <=> (SdkScope /\ Top = "reader")

\* mutant: a quarantined connection starts another operation
EnterAnyway(k, b) ==
    /\ Running /\ scopes = <<>> /\ cur < MaxOps /\ k # "capture"
    /\ ~active
    /\ cur' = cur + 1 /\ active' = TRUE /\ op' = NewOperation(b)
    /\ scopes' = <<k>> /\ todo' = "confirm"
    /\ watch' = [watch EXCEPT ![cur + 1] = Resting("look")]
    /\ UNCHANGED <<now, prompt, recovery, mode, raw>>

EnterFirst(k, b) ==
    /\ Running /\ scopes = <<>> /\ cur < MaxOps /\ k # "capture"
    /\ ~recovery /\ ~active
    /\ cur' = cur + 1 /\ active' = TRUE /\ op' = NewOperation(b)
    /\ scopes' = <<k>> /\ todo' = "confirm"
    /\ watch' = [watch EXCEPT ![cur + 1] = Resting("look")]
    /\ UNCHANGED <<now, prompt, recovery, mode, raw>>

EnterNested(k) ==
    /\ Running /\ active /\ SdkScope /\ Len(scopes) < MaxScopes
    /\ Nests(k) /\ (k = "capture" => raw = 0)
    /\ LET o == Expired(op) IN
       IF recovery \/ o.stalled
       THEN Keep(o) /\ mode' = "raise" /\ UNCHANGED <<scopes, todo>>
       ELSE /\ Keep([o EXCEPT !.depth = @ + 1])
            /\ scopes' = Append(scopes, k) /\ todo' = "confirm"
            /\ UNCHANGED mode
    /\ UNCHANGED <<now, prompt, cur, active, raw, watch>>

SetFrames(b) ==
    /\ Running /\ active /\ SdkScope
    /\ LET o == Expired(op) IN
       Keep(IF o.stalled THEN o
            ELSE Expired([o EXCEPT !.budget = b,
                            !.deadline = o.started + b + o.metaElapsed]))
    /\ todo' = "confirm" /\ watch' = Woken
    /\ UNCHANGED <<now, prompt, cur, active, scopes, mode, raw>>

\* _enter and set_frames read stalled once more, without the lock.
Confirm ==
    /\ todo = "confirm"
    /\ todo' = "none" /\ mode' = IF op.stalled THEN "raise" ELSE mode
    /\ UNCHANGED <<now, prompt, guard, scopes, raw, watch>>

Check ==
    /\ Running /\ active /\ scopes # <<>>
    /\ Keep(Expired(op))
    /\ mode' = IF op'.stalled THEN "raise" ELSE mode
    /\ UNCHANGED <<now, prompt, cur, active, scopes, todo, raw, watch>>

\* mutant: the domain changes before the late SDK call is noticed
BeginMetadataUnchecked(k) ==
    /\ active /\ todo = "none" /\ scopes # <<>> /\ Len(scopes) < MaxScopes
    /\ k = "strict" => mode = "run"
    /\ ~(op.stalled /\ k = "strict")
    /\ Keep(IF op.metaDepth > 0 THEN [op EXCEPT !.metaDepth = @ + 1]
            ELSE [op EXCEPT !.metaDepth = 1, !.metaStarted = now, !.meta = 0])
    /\ scopes' = Append(scopes, k) /\ watch' = Woken
    /\ UNCHANGED <<now, prompt, cur, active, mode, todo, raw>>

\* Persisting a failure (lenient) also runs while an exception unwinds.
BeginMetadata(k) ==
    /\ active /\ todo = "none" /\ scopes # <<>> /\ Len(scopes) < MaxScopes
    /\ k = "strict" => mode = "run"
    /\ LET o == Expired(op) IN
       IF o.stalled /\ k = "strict"
       THEN Keep(o) /\ mode' = "raise" /\ UNCHANGED <<scopes, watch>>
       ELSE /\ Keep(IF o.metaDepth > 0 THEN [o EXCEPT !.metaDepth = @ + 1]
                    ELSE [o EXCEPT !.metaDepth = 1, !.metaStarted = now,
                                   !.meta = 0])
            /\ scopes' = Append(scopes, k) /\ watch' = Woken
            /\ UNCHANGED mode
    /\ UNCHANGED <<now, prompt, cur, active, todo, raw>>

Elapsed(o) == now - o.metaStarted

EndMetadata ==
    /\ active /\ todo = "none" /\ scopes # <<>> /\ Top \in MetaScopes
    /\ LET o == Expired(op)
           elapsed == Elapsed(o) IN
       Keep(IF o.metaDepth > 1 THEN [o EXCEPT !.metaDepth = @ - 1]
            ELSE [o EXCEPT !.metaDepth = 0, !.deadline = @ + elapsed,
                           !.metaElapsed = @ + elapsed])
    /\ mode' = IF op'.stalled /\ Top = "strict" THEN "raise" ELSE mode
    /\ scopes' = Outer /\ watch' = Woken
    /\ UNCHANGED <<now, prompt, cur, active, todo, raw>>

\* An SDK call or the code around it fails; so does a stage or a device
\* access requested inside a metadata span.
Raise ==
    /\ Running /\ scopes # <<>>
    /\ mode' = "raise"
    /\ UNCHANGED <<now, prompt, guard, scopes, todo, raw, watch>>

\* experiment.Capture returns, in time or not.
Capture ==
    /\ Running /\ SdkScope /\ Top = "capture" /\ raw = 0
    /\ raw' = Len(scopes)
    /\ UNCHANGED <<now, prompt, guard, scopes, mode, todo, watch>>

\* release_capture_dataset: on the reader's way out, on a failure inside the
\* capture, or when the capture's last check refuses the hand-over.
Dispose(succeeds) ==
    /\ active /\ SdkScope /\ raw = Len(scopes)
    /\ \/ todo = "leave"
       \/ todo = "none" /\ (mode = "raise" \/ Top = "reader")
    /\ LET o == Expired(op) IN
       Keep(IF succeeds THEN o ELSE Quarantined(o, "dispose"))
    /\ raw' = 0
    /\ mode' = IF Top = "reader" /\ op'.stalled THEN "raise" ELSE mode
    /\ watch' = IF succeeds THEN watch ELSE Woken
    /\ UNCHANGED <<now, prompt, cur, active, scopes, todo>>

Release(o) ==
    /\ Keep([o EXCEPT !.depth = @ - 1])
    /\ active' = (o.depth > 1)
    /\ scopes' = Outer /\ todo' = "none"
    /\ watch' = IF o.depth > 1 THEN watch ELSE Woken

\* The scope may be left once it owns no dataset it must dispose of.
Leaving ==
    /\ active /\ SdkScope /\ todo = "none"
    /\ raw = Len(scopes) => Top = "capture" /\ mode = "run"

\* mutant: the last check of the deadline is left to the monitor
LeaveUnchecked ==
    /\ Leaving /\ ~op.stalled
    /\ Release(op)
    /\ mode' = IF Outer = <<>> THEN "run" ELSE mode
    /\ raw' = IF raw = Len(scopes) THEN raw - 1 ELSE raw
    /\ UNCHANGED <<now, prompt, cur>>

\* _leave in time: the deadline check and the release are one section, and a
\* capture's dataset passes to the reader around it.
Leave ==
    /\ Leaving
    /\ LET o == Expired(op) IN
       /\ ~o.stalled
       /\ Release(o)
    /\ mode' = IF Outer = <<>> THEN "run" ELSE mode
    /\ raw' = IF raw = Len(scopes) THEN raw - 1 ELSE raw
    /\ UNCHANGED <<now, prompt, cur>>

\* _leave too late: the lock is let go to dispose of the dataset first.
LeaveStalled ==
    /\ Leaving
    /\ Keep(Expired(op)) /\ op'.stalled
    /\ todo' = "leave"
    /\ UNCHANGED <<now, prompt, cur, active, scopes, mode, raw, watch>>

\* mutant: ownership is given up before the dataset is disposed of
FinishLeaveFirst ==
    /\ active /\ todo = "leave"
    /\ Release(op)
    /\ mode' = IF Outer = <<>> THEN "run" ELSE "raise"
    /\ UNCHANGED <<now, prompt, cur, raw>>

FinishLeave ==
    /\ active /\ todo = "leave" /\ raw # Len(scopes)
    /\ Release(op)
    /\ mode' = IF Outer = <<>> THEN "run" ELSE "raise"
    /\ UNCHANGED <<now, prompt, cur, raw>>

\* Closing is refused while an operation is active; connecting again makes
\* a new setup and with it a new guard.
Reconnect ==
    /\ ~active /\ scopes = <<>> /\ recovery
    /\ recovery' = FALSE
    /\ UNCHANGED <<now, prompt, cur, active, op, owner, watch>>

---------------------------------------------------------------------------
(* The monitors and the clock.                                             *)

WatchLook(o) ==
    /\ watch[o].at = "look"
    /\ IF o # cur \/ ~active
       THEN /\ watch' = [watch EXCEPT ![o] = Resting("gone")]
            /\ UNCHANGED guard
       ELSE /\ Keep(Expired(op))
            /\ watch' = [watch EXCEPT ![o] =
                 IF op'.stalled THEN Resting("gone")
                 ELSE [at |-> "wait", alarm |-> DeadlineOf(op), wake |-> FALSE]]
            /\ UNCHANGED <<cur, active>>
    /\ UNCHANGED <<now, prompt, owner>>

\* mutant: any wake-up is taken for the end of the operation
WatchWakeIsDone(o) ==
    /\ watch[o].at = "wait"
    /\ watch[o].wake \/ now >= watch[o].alarm
    /\ watch' = [watch EXCEPT
                   ![o] = Resting(IF watch[o].wake THEN "gone" ELSE "look")]
    /\ UNCHANGED <<now, prompt, guard, owner>>

WatchWake(o) ==
    /\ watch[o].at = "wait"
    /\ watch[o].wake \/ now >= watch[o].alarm
    /\ watch' = [watch EXCEPT
                   ![o] = Resting(IF o = cur /\ active THEN "look" ELSE "gone")]
    /\ UNCHANGED <<now, prompt, guard, owner>>

Due(o) ==
    \/ watch[o].at = "look"
    \/ watch[o].at = "wait" /\ (watch[o].wake \/ now >= watch[o].alarm)

Tick ==
    /\ now < Horizon
    /\ prompt => \A o \in Ops : ~Due(o)
    /\ now' = now + 1
    /\ op' = IF ~active THEN op
             ELSE IF op.metaDepth > 0 THEN [op EXCEPT !.meta = @ + 1]
             ELSE [op EXCEPT !.sdk = @ + 1]
    /\ UNCHANGED <<prompt, cur, active, recovery, owner, watch>>

---------------------------------------------------------------------------
Owner ==
    \/ \E k \in OpScopes, b \in Budgets : EnterFirst(k, b)
    \/ \E k \in OpScopes : EnterNested(k)
    \/ \E b \in Budgets : SetFrames(b)
    \/ Confirm \/ Check \/ Raise \/ Capture
    \/ \E k \in MetaScopes : BeginMetadata(k)
    \/ EndMetadata
    \/ \E succeeds \in BOOLEAN : Dispose(succeeds)
    \/ Leave \/ LeaveStalled \/ FinishLeave \/ Reconnect

Watch(o) == WatchLook(o) \/ WatchWake(o)

Next == Owner \/ (\E o \in Ops : Watch(o)) \/ Tick

Spec == Init /\ [][Next]_vars

\* The monitors are daemon threads that nothing ever blocks: the guard's
\* lock is held for bookkeeping only, never across an SDK or a disk call.
FairSpec == Spec /\ \A o \in Ops : WF_vars(Watch(o))

---------------------------------------------------------------------------
(* What the guard promises.                                                *)

TypeOK ==
    /\ now \in Nat /\ prompt \in BOOLEAN
    /\ cur \in 0 .. MaxOps /\ active \in BOOLEAN /\ recovery \in BOOLEAN
    /\ op \in Operation
    /\ scopes \in Seq(OpScopes \cup MetaScopes)
    /\ mode \in {"run", "raise"} /\ todo \in {"none", "confirm", "leave"}
    /\ raw \in Nat
    /\ watch \in [Ops -> Monitor]

\* A dataset of the camera is never left behind: while a scope owns one, the
\* operation that acquired it is still active, so close() stays refused.
NoOrphanData == raw # 0 => active /\ raw <= Len(scopes)

\* An operation that ends without an incident spent less SDK time than its
\* budget, however often local persistence interrupted it.
HandedInTime ==
    [][active /\ ~active' /\ ~op'.stalled => op.sdk < op.budget]_vars

\* The incident names the domain that really ran out: persistence does not
\* use up the SDK's time, and cannot excuse an SDK call that was late.
BlameIsRight ==
    [][active /\ ~op.stalled /\ op'.stalled =>
         \/ op'.cause = "sdk" /\ op.sdk >= op'.budget
         \/ op'.cause = "metadata" /\ op.meta >= MetaBudget
            /\ op.sdk < op.budget
         \/ op'.cause = "dispose"]_vars

\* Quarantine is latched: no operation starts on the connection, the first
\* incident stays on record, and only a closed connection is taken up again.
QuarantineLatched ==
    [][/\ recovery => cur' = cur
       /\ recovery /\ active => recovery'
       /\ active /\ op.stalled => op'.stalled /\ op'.cause = op.cause]_vars

\* When monitors run as soon as they are due, no wait outlives its deadline
\* unnoticed: every change of the deadline reaches the sleeping monitor.
PromptlyNoticed ==
    prompt /\ active /\ ~op.stalled => now <= DeadlineOf(op)

\* An SDK call that never returns is quarantined all the same.
StallNoticed ==
    (active /\ now >= DeadlineOf(op)) ~> (op.stalled \/ ~active)

=============================================================================
