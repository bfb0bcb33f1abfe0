--------------------------- MODULE Atto2100Locks ---------------------------
(***************************************************************************)
(* The locks of controllers/attodry2100_controller.py, which               *)
(* Atto2100Controller takes for granted: the controller's _lock, the       *)
(* mailbox's lock, the diagnostics lock and one lock per request, and who  *)
(* takes which while holding which.                                        *)
(*                                                                         *)
(* A thread is the sequence of steps it still has to do.  A step says what *)
(* it does, which lock it takes for that, what it speaks of, and in which  *)
(* locks it is done: a thread holds the locks its next step is done in, so *)
(* that it keeps a lock exactly as long as its next step is inside.  A     *)
(* request is numbered; its number also names its lock and the thread of   *)
(* its watchdog.  What the lock sections compute is left to                *)
(* Atto2100Controller; here a scan of the registry looks at every request  *)
(* in it, the order of the mailbox is left open, and an admission may go   *)
(* either way.  _preparation_submit_lock, which is only ever taken first,  *)
(* is left out, and so are sections of the controller's lock without a     *)
(* lock inside them that the owner enters with none held.                  *)
(***************************************************************************)
EXTENDS Integers, Sequences

CONSTANTS
    Controller, Mailbox, Diagnostics,   \* the shared locks
    Gui, Owner, Clients,                \* the threads beside the watchdogs
    MaxRequests,                        \* bound: requests ever made
    MaxCalls                            \* bound: calls ever made

ASSUME BoundsNatural == MaxRequests \in Nat /\ MaxCalls \in Nat

VARIABLES
    state,       \* _Request.state, "unused" before the request is made
    kind,        \* what the request asks for
    registered,  \* _requests
    mailbox,     \* the requests in the mailbox
    ended,       \* terminal signals on their way to the Gui
    armed,       \* requests whose timer has not fired or been cancelled
    calls,       \* calls made so far
    todo         \* per thread: its next steps

vars == <<state, kind, registered, mailbox, ended, armed, calls, todo>>

Requests == 1 .. MaxRequests
Threads == {Gui, Owner} \cup Clients \cup Requests
Locks == {Controller, Mailbox, Diagnostics} \cup Requests
Reentrant == {Controller, Mailbox}
Kinds == {"read", "mutation", "prepare", "stop"}
Mutations == {"mutation", "prepare"}

ASSUME LocksDistinct ==
    /\ Controller # Mailbox /\ Controller # Diagnostics /\ Mailbox # Diagnostics
    /\ {Controller, Mailbox, Diagnostics} \cap Requests = {}

Init ==
    /\ state = [r \in Requests |-> "unused"]
    /\ kind = [r \in Requests |-> "read"]
    /\ registered = {} /\ mailbox = {} /\ ended = {} /\ armed = {}
    /\ calls = 0
    /\ todo = [t \in Threads |-> <<>>]

---------------------------------------------------------------------------
(* Programs.  L is the set of locks the program is called in.              *)

One(do, takes, of, L) == <<[do |-> do, takes |-> takes, of |-> of, in |-> L]>>

\* Taking a lock.  What follows is in it or is not.
Take(l, L) == One("take", {l}, l, L)
SetState(r, s, L) == One(s, {r}, r, L)
Finals == {"cancelled", "done"}

\* mutant: the drained callback does the controller's bookkeeping as well
DrainedUnderController(r, L) ==
    Take(Controller, L) \o Take(Diagnostics, L \cup {Controller})
      \o Take(r, L \cup {Controller, Diagnostics})

\* drained_future.set_result runs _record_drained_callback at once.
Drained(r, L) == Take(Diagnostics, L) \o Take(r, L \cup {Diagnostics})

CancelRequest(r, L) ==
    Take(Mailbox, L) \o One("discard", {r}, r, L \cup {Mailbox})
Forget(r, L) == One("forget", {Controller}, r, L)
Scan(L) == One("scan", {Controller}, Controller, L)
HasPendingWork == Scan({})
Submit(k) == Scan({}) \o One("admit", {}, k, {Controller})
PendingWorkSnapshot == Take(Controller, {})
CancelQueued(K, L) == One("sweep", {Mailbox}, K, L)
RequestStop == Scan({}) \o One("stop", {}, Controller, {Controller})
ShutdownRefused == Scan({}) \o Take(Diagnostics, {Controller})
\* The second look is at an earlier Shutdown.
RequestShutdown ==
    Scan({}) \o CancelQueued(Kinds \ {"stop"}, {}) \o Scan({})
      \o One("admit", {}, "stop", {Controller})
CancelPreparation == One("find", {Controller}, Controller, {})
CallerTimeout(r) == CancelRequest(r, {}) \o One("expire", {r}, r, {})
RequestTerminal(r) ==
    Forget(r, {}) \o Take(r, {Controller}) \o Drained(r, {Controller})
Drain == One("pop", {Mailbox}, Mailbox, {})
Finish(r) == One("judge", {r}, r, {})

\* The loops over requests, one step for the first of those that are left.
First(R) == {r \in R : \A q \in R : r <= q}
Loop(do, R, L) == IF R = {} THEN <<>> ELSE One(do, {}, R, L)

---------------------------------------------------------------------------
(* One step of a thread.                                                   *)

Now(t) == Head(todo[t])
Rest(t) == Tail(todo[t])
Wanted(step) ==
    IF step.do \in {"look", "cancel"} THEN First(step.of) ELSE step.takes
Held(t) == IF todo[t] = <<>> THEN {} ELSE Now(t).in
Free(t, l) == \A u \in Threads : l \in Held(u) => u = t /\ l \in Reentrant

Does(t, what) ==
    /\ todo[t] # <<>> /\ Now(t).do = what
    /\ \A l \in Wanted(Now(t)) : Free(t, l)
GoOn(t, steps) == todo' = [todo EXCEPT ![t] = steps]
Inside(t) == Now(t).in \cup Now(t).takes

PassThrough(t) ==
    /\ Does(t, "take") /\ GoOn(t, Rest(t))
    /\ UNCHANGED <<state, kind, registered, mailbox, ended, armed, calls>>

Set(t) ==
    /\ \E s \in Finals \cup {"running"} :
         Does(t, s) /\ state' = [state EXCEPT ![Now(t).of] = s]
    /\ GoOn(t, Rest(t))
    /\ UNCHANGED <<kind, registered, mailbox, ended, armed, calls>>

\* any(request.get_state() ... for request in self._requests.values())
ScanAll(t) ==
    /\ Does(t, "scan")
    /\ GoOn(t, Loop("look", registered, Inside(t)) \o Rest(t))
    /\ UNCHANGED <<state, kind, registered, mailbox, ended, armed, calls>>

Look(t) ==
    /\ Does(t, "look")
    /\ GoOn(t, Loop("look", Now(t).of \ First(Now(t).of), Now(t).in) \o Rest(t))
    /\ UNCHANGED <<state, kind, registered, mailbox, ended, armed, calls>>

Admit(t) ==
    /\ Does(t, "admit")
    /\ \E r \in Requests :
         /\ state[r] = "unused" /\ \A q \in 1 .. r - 1 : state[q] # "unused"
         /\ state' = [state EXCEPT ![r] = "queued"]
         /\ kind' = [kind EXCEPT ![r] = Now(t).of]
         /\ registered' = registered \cup {r}
         /\ armed' = armed \cup {r}
         /\ GoOn(t, One("put", {Mailbox}, r, Now(t).in) \o Rest(t))
    /\ UNCHANGED <<mailbox, ended, calls>>

\* _immediate_failure records its diagnostic; no other thread ever sees its
\* request.  A Stop or a Shutdown that is under way is not made again.
Refuse(t) ==
    /\ Does(t, "admit")
    /\ GoOn(t, IF Now(t).of = "stop" THEN Rest(t)
               ELSE Take(Diagnostics, Now(t).in) \o Rest(t))
    /\ UNCHANGED <<state, kind, registered, mailbox, ended, armed, calls>>

Put(t) ==
    /\ Does(t, "put") /\ mailbox' = mailbox \cup {Now(t).of}
    /\ GoOn(t, Rest(t))
    /\ UNCHANGED <<state, kind, registered, ended, armed, calls>>

Preparing(r) == r \in registered /\ kind[r] = "prepare"

\* request_stop, when it has looked at everything: it is refused, cancels a
\* preparation, or cancels what would change the field and asks for a Stop.
Stop(t) ==
    /\ Does(t, "stop")
    /\ LET L == Now(t).in IN
       \/ GoOn(t, Take(Diagnostics, L))
       \/ \E r \in Requests :
            Preparing(r) /\ GoOn(t, Take(r, L) \o CancelRequest(r, L))
       \/ GoOn(t, CancelQueued(Mutations, L) \o One("admit", {}, "stop", L))
    /\ UNCHANGED <<state, kind, registered, mailbox, ended, armed, calls>>

\* cancel_magnet_preparation takes the mailbox's lock once out of its own.
Find(t) ==
    /\ Does(t, "find")
    /\ \/ GoOn(t, <<>>)
       \/ \E r \in Requests : Preparing(r) /\ GoOn(t, CancelRequest(r, {}))
    /\ UNCHANGED <<state, kind, registered, mailbox, ended, armed, calls>>

Sweep(t) ==
    /\ Does(t, "sweep")
    /\ LET out == {r \in mailbox : kind[r] \in Now(t).of} IN
       /\ mailbox' = mailbox \ out
       /\ armed' = armed \ out
       /\ GoOn(t, Loop("cancel", out, Inside(t)) \o Rest(t))
    /\ UNCHANGED <<state, kind, registered, ended, calls>>

Cancel(t) ==
    /\ Does(t, "cancel")
    /\ \E r \in First(Now(t).of) :
         GoOn(t, SetState(r, "cancelled", Now(t).in) \o Drained(r, Now(t).in)
                   \o Loop("cancel", Now(t).of \ {r}, Now(t).in) \o Rest(t))
    /\ UNCHANGED <<state, kind, registered, mailbox, ended, armed, calls>>

\* mutant: the queued state is taken as proof that the mailbox holds it
InFifoByState(r) == state[r] = "queued"

InFifo(r) == state[r] = "queued" /\ r \in mailbox /\ kind[r] # "stop"

\* cancel_request: a request that is still in the FIFO is cancelled, and the
\* caller, once out of the mailbox, only forgets it.
Discard(t) ==
    /\ Does(t, "discard")
    /\ LET r == Now(t).of
           L == Now(t).in IN
       IF InFifo(r)
       THEN /\ mailbox' = mailbox \ {r} /\ armed' = armed \ {r}
            /\ GoOn(t, SetState(r, "cancelled", L) \o Drained(r, L)
                         \o Forget(r, L \ {Mailbox}))
       ELSE GoOn(t, Rest(t)) /\ UNCHANGED <<mailbox, armed>>
    /\ UNCHANGED <<state, kind, registered, ended, calls>>

Unregister(t) ==
    /\ Does(t, "forget") /\ registered' = registered \ {Now(t).of}
    /\ GoOn(t, Rest(t))
    /\ UNCHANGED <<state, kind, mailbox, ended, armed, calls>>

\* _caller_timeout: the request is marked, and the new controller state is
\* written under the controller's lock, inside the request's; what is asked
\* of the owner follows outside.
Expire(t) ==
    /\ Does(t, "expire")
    /\ LET r == Now(t).of
           prepare == IF kind[r] = "prepare" THEN Take(Controller, {}) ELSE <<>> IN
       IF state[r] = "running"
       THEN /\ state' = [state EXCEPT ![r] = "timedout"]
            /\ GoOn(t, Take(Controller, {r}) \o
                         (IF kind[r] = "mutation" THEN RequestStop ELSE prepare))
       ELSE GoOn(t, prepare) /\ UNCHANGED state
    /\ UNCHANGED <<kind, registered, mailbox, ended, armed, calls>>

Pop(t) ==
    /\ Does(t, "pop")
    /\ \E r \in mailbox :
         /\ mailbox' = mailbox \ {r}
         /\ GoOn(t, (IF kind[r] = "stop" THEN <<>> ELSE Take(r, {Mailbox}))
                      \o One("begin", {r}, r, {}))
    /\ UNCHANGED <<state, kind, registered, ended, armed, calls>>

\* A request of an older connection fails at once.  The preparation touches
\* the lifecycle flags under the controller's lock, the second time to see
\* whether it has been timed out.
Begin(t) ==
    /\ Does(t, "begin")
    /\ LET r == Now(t).of IN
       \E valid \in BOOLEAN :
         GoOn(t, (IF state[r] = "cancelled" \/ ~valid THEN <<>>
                  ELSE SetState(r, "running", {}) \o
                       (IF kind[r] = "prepare"
                        THEN Take(Controller, {}) \o Take(Controller, {})
                               \o Take(r, {Controller})
                        ELSE <<>>))
                 \o (IF state[r] = "cancelled" THEN <<>> ELSE Finish(r)))
    /\ UNCHANGED <<state, kind, registered, mailbox, ended, armed, calls>>

\* _finish cancels the timer and looks at the state: a result leaves a
\* timed-out request as it is, an exception does not.
Judge(t) ==
    /\ Does(t, "judge")
    /\ armed' = armed \ {Now(t).of}
    /\ LET r == Now(t).of IN
       \E raised \in BOOLEAN :
         GoOn(t, (IF state[r] = "timedout" /\ ~raised THEN <<>>
                  ELSE SetState(r, "done", {}))
                 \o Drained(r, {}) \o One("emit", {}, r, {}))
    /\ UNCHANGED <<state, kind, registered, mailbox, ended, calls>>

Emit(t) ==
    /\ Does(t, "emit") /\ ended' = ended \cup {Now(t).of}
    /\ GoOn(t, Rest(t))
    /\ UNCHANGED <<state, kind, registered, mailbox, armed, calls>>

---------------------------------------------------------------------------
(* What an idle thread takes up.                                           *)

Start(t, program) ==
    /\ todo[t] = <<>> /\ GoOn(t, program)
    /\ UNCHANGED <<state, kind, registered, mailbox>>

\* A caller that waits for a result with a time-out of its own does what the
\* watchdog does (OperationHandle.result).
Call(t) ==
    /\ \/ \E k \in Kinds \ {"stop"} : Start(t, Submit(k))
       \/ Start(t, HasPendingWork)
       \/ Start(t, PendingWorkSnapshot)
       \/ Start(t, RequestStop)
       \/ Start(t, ShutdownRefused)
       \/ Start(t, RequestShutdown)
       \/ Start(t, CancelPreparation)
       \/ \E r \in Requests : state[r] # "unused" /\ Start(t, CallerTimeout(r))
    /\ calls < MaxCalls /\ calls' = calls + 1
    /\ UNCHANGED <<ended, armed>>

Terminal ==
    \E r \in ended : /\ Start(Gui, RequestTerminal(r))
                     /\ ended' = ended \ {r} /\ UNCHANGED <<armed, calls>>

Wake == mailbox # {} /\ Start(Owner, Drain)
        /\ UNCHANGED <<ended, armed, calls>>

Fire(r) == r \in armed /\ Start(r, CallerTimeout(r))
           /\ armed' = armed \ {r} /\ UNCHANGED <<ended, calls>>

Step(t) ==
    \/ PassThrough(t) \/ Set(t) \/ ScanAll(t) \/ Look(t) \/ Admit(t)
    \/ Refuse(t) \/ Put(t) \/ Stop(t) \/ Find(t) \/ Sweep(t) \/ Cancel(t)
    \/ Discard(t) \/ Unregister(t) \/ Expire(t) \/ Pop(t) \/ Begin(t)
    \/ Judge(t) \/ Emit(t)

Next ==
    \/ \E t \in Threads : Step(t)
    \/ \E t \in {Gui} \cup Clients : Call(t)
    \/ Terminal \/ Wake
    \/ \E r \in Requests : Fire(r)

Spec == Init /\ [][Next]_vars

---------------------------------------------------------------------------

Wants(t, l) == todo[t] # <<>> /\ l \in Wanted(Now(t))

WaitsFor(t, u) ==
    \E l \in Locks :
      /\ Wants(t, l) /\ l \in Held(u)
      /\ u = t => l \notin Reentrant

Blocked == {t \in Threads : \E u \in Threads : WaitsFor(t, u)}
CircularWait(S) == S # {} /\ \A t \in S : \E u \in S : WaitsFor(t, u)

\* No thread waits, through whatever others, for itself (the rule of
\* _record_drained_callback and of pending_work_snapshot, for all callers).
NoCircularWait == \A S \in SUBSET Blocked : ~CircularWait(S)

\* What does hold: the callbacks that run inside the mailbox's lock keep to
\* its order, so every circular wait includes a watchdog or a caller that has
\* marked a request as timed out and wants the controller's lock inside that
\* of the request (_caller_timeout, 1030-1037).
OnlyTimeoutsClose ==
    \A S \in SUBSET Blocked :
      CircularWait(S) =>
        \E t \in S, r \in Requests :
          r \in Held(t) /\ state[r] = "timedout" /\ Wants(t, Controller)

\* A request that was cancelled or has ended never changes again: the mailbox
\* and not the state decides between a cancellation and the owner.
FinalIsFinal ==
    [][\A r \in Requests : state[r] \in Finals => state'[r] = state[r]]_vars

=============================================================================
