------------------------ MODULE Atto2100Properties ------------------------
(***************************************************************************)
(* What must hold of Atto2100Controller.                                   *)
(***************************************************************************)
EXTENDS Atto2100Controller

Signal == [kind : {"state"}, state : OwnerStates, req : {NoReq}]
            \cup [kind : {"terminal"}, state : {NoState}, req : Req]
            \cup [kind : {"quit", "finished"}, state : {NoState}, req : {NoReq}]
Request == [cmd : Commands,
            state : Working \cup {"UNUSED", "SUCCEEDED", "FAILED", "CANCELLED"},
            gen : Nat, client : {"none", "ok", "err"}, drained : BOOLEAN, reg : BOOLEAN,
            timer : {"off", "armed", "stop", "request", "check", "raise", "spent"},
            val : Nat]
ReqOrNone == Req \cup {NoReq}

(* Every variable has its type; a busy owner has a request.                  *)
RequestsOK == req \in [Req -> Request] /\ count \in 0..(2 * MaxCalls)
MailOK == ordinary \subseteq Req /\ stopSlot \in ReqOrNone /\ shutSlot \in ReqOrNone
BusyOK == /\ cur \in ReqOrNone /\ opc \in {"idle", "popped", "sdk", "verified", "locked",
                                         "polling"}
          /\ opc # "idle" => cur \in Req
OwnerOK == /\ ostate \in OwnerStates /\ ogen \in Nat /\ adapter \in BOOLEAN
           /\ armed \in BOOLEAN /\ mayBeActive \in BOOLEAN
           /\ prevState \in OwnerStates /\ deferred \in ReqOrNone
ControllerOK == /\ cstate \in CachedStates /\ cgen \in Nat
                /\ stopH \in ReqOrNone /\ shutH \in ReqOrNone /\ prepH \in ReqOrNone
LifecycleOK == reserved \in BOOLEAN /\ committed \in BOOLEAN /\ recovery \in BOOLEAN
EventsOK == stopEvt \in BOOLEAN /\ tempEvt \in BOOLEAN /\ prepEvt \in BOOLEAN
DisplayOK == slot \in ReqOrNone /\ cache \in [gen : Nat, val : Nat]
SignalsOK == sig \in Seq(Signal) /\ thread \in {"running", "quitting", "stopped"}
GapsOK == past \subseteq Gaps
MagnetOK == /\ field \in {"off", "ours", "left"} /\ session \in Nat
            /\ mode \in {"persistent", "changing", "driven"}

TypeOK == /\ RequestsOK /\ MailOK /\ BusyOK /\ OwnerOK /\ ControllerOK
          /\ LifecycleOK /\ EventsOK /\ DisplayOK /\ SignalsOK /\ GapsOK /\ MagnetOK

(* A field this program energised always has an open transport, and the owner  *)
(* knows it: otherwise disconnect and shutdown would skip the Stop.          *)
FieldOwned == field = "ours" => adapter /\ mayBeActive

(* While the mode is in doubt the lifecycle carries the recovery lock, and the *)
(* owner holds no field it would have to stop.                               *)
ModeRecovery ==
  /\ mode = "changing" => recovery
  /\ recovery => adapter /\ ~mayBeActive

(* The inductive invariant behind both: what waits or executes exists, and   *)
(* the owner keeps knowing what it checked before it called the SDK.         *)
Known == /\ \A r \in ordinary : r <= count
         /\ stopSlot <= count /\ shutSlot <= count /\ cur <= count
Executing ==
  /\ opc \in {"sdk", "verified", "locked", "polling"} => (Cmd = "CONNECT" <=> ~adapter)
  /\ opc = "sdk" /\ Cmd \in {"START", "DETACH"} => mayBeActive
  /\ opc = "sdk" /\ Cmd = "DISCONNECT" => ~mayBeActive
  /\ opc = "sdk" /\ Cmd \in BlockedByRecovery => ~recovery
  /\ opc = "verified" => Cmd = "DETACH" /\ mayBeActive
  /\ opc \in {"locked", "polling"} => Cmd = "PREPARE"
  /\ opc = "locked" => recovery
Custodial == TypeOK /\ Known /\ Executing /\ FieldOwned /\ ModeRecovery

(* Once a Stop asked for on a connection has succeeded, the field stays off    *)
(* for as long as its handle is held and the connection lasts: nothing that  *)
(* was queued, popped, checked or timed out before the Stop energises it     *)
(* again.  (After a reconnection a caller past its check may, with the old   *)
(* handle still held: connecting clears the event the Stop relies on.)       *)
StopHolds ==
  stopH # NoReq /\ req[stopH].state = "SUCCEEDED" /\ req[stopH].val = session
    => field # "ours"

(* A pending preparation excludes pending field mutations, however their     *)
(* submissions, timeouts and cancellations interleave.                       *)
PreparationExclusive == ~(Pending({"PREPARE"}) /\ Pending(FieldMutations))

(* While a ramp-table read is pending nothing else is, and only a Shutdown    *)
(* that passed its checks before can be requested: it waits behind the read. *)
RampExclusive ==
  \A r \in Req : Active(r) /\ req[r].cmd = "RAMP"
     => \A q \in Req \ {r} : Active(q) => req[q].cmd = "SHUTDOWN" /\ r < q

(* has_pending_work can end: a registered request that counts as pending is  *)
(* in one place of the mailbox, or in the owner's hands, or deferred to the  *)
(* end of its thread, or its terminal signal is on its way; it is never      *)
(* pending and forgotten.                                                    *)
Places(r) ==
  (IF r \in ordinary THEN 1 ELSE 0) + (IF r = stopSlot THEN 1 ELSE 0)
  + (IF r = shutSlot THEN 1 ELSE 0) + (IF r = cur THEN 1 ELSE 0)
  + (IF r = deferred THEN 1 ELSE 0)
Announced(r) == \E i \in 1..Len(sig) : sig[i] = TerminalSig(r)
NothingForgotten ==
  \A r \in Req :
    /\ Places(r) <= 1
    /\ Active(r) /\ ~req[r].drained => Places(r) = 1
    /\ Active(r) /\ req[r].drained => Announced(r)

(* An answer from the display cache was measured on the present connection.  *)
DisplayFresh ==
  adapter /\ ostate \in ConnectedStates /\ cache.gen = cgen /\ cache # NoCache
    => cache.val = session

(* The same once the controller has applied the end of every disconnect,      *)
(* shutdown and detach (_request_terminal, _owner_thread_finished): a connect *)
(* that slips past a Shutdown's sweep may reconnect before they are applied. *)
EndsApplied ==
  /\ deferred = NoReq
  /\ \A i \in 1..Len(sig) :
       sig[i].kind = "terminal" => req[sig[i].req].cmd \notin {"DISCONNECT", "SHUTDOWN"}
DisplayFreshOnceApplied == EndsApplied => DisplayFresh

(* The controller implements what FieldCustody promises. *)
Custody == INSTANCE FieldCustody WITH connected <- adapter, locked <- recovery
ImplementsCustody == Custody!Spec

(* A detach never undoes a Stop: the field is handed over only in a step in   *)
(* which no Stop has been requested since the run was reserved.              *)
HandedOverUncancelled ==
  [][field = "ours" /\ field' = "left" => reserved /\ stopSlot = NoReq /\ stopH = NoReq]_vars

(* A Stop that ended well is SUCCEEDED, so that the next setpoint is not     *)
(* refused for a Stop that did not complete.                                 *)
CompletedStopSucceeds ==
  stopH # NoReq /\ req[stopH].drained
    => req[stopH].state \in {"SUCCEEDED", "FAILED", "CANCELLED"}

(* While the owner thread runs, whatever callers submitted is drained.       *)
RequestsDrain == \A r \in Req : Active(r) ~> (~Active(r) \/ thread = "stopped")

(* A START that timed out drains, and then the field it may have energised is *)
(* off, unless the Stop it asked for failed.                                 *)
TimedOutStartStops ==
  \A r \in Req :
    (req[r].cmd = "START" /\ req[r].timer = "stop")
      ~> (req[r].drained
            /\ (field # "ours" \/ (stopH # NoReq /\ req[stopH].state = "FAILED")))

(* Every caller of an ordinary command gets an answer, even when the owner   *)
(* thread has ended: the watchdog takes the request out of the mailbox.      *)
CallersAnswered == \A r \in Req : (r \in ordinary) ~> (req[r].client # "none")
=============================================================================
