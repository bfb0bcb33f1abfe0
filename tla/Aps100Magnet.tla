--------------------------- MODULE Aps100Magnet ---------------------------
(***************************************************************************)
(* The persistent magnet of the attoDRY1000 and its APS100 supply: the     *)
(* worker thread of controllers/magnet_controller.py carries out one       *)
(* operation of app/devices/aps100_attodry1000_adapter.py after the other, *)
(* the GUI thread queues operations and asks for a stop, the supply moves  *)
(* the current of its leads, and a switch in the coil is a superconductor  *)
(* ("cold") until a heater makes it resistive ("hot").  With the switch    *)
(* hot the coil follows the leads, with the switch cold it keeps its field.*)
(*                                                                         *)
(* Fields are a few levels.  A period of waiting is a guard: the intervals *)
(* for warming and cooling are taken to be as long as the switch needs.    *)
(***************************************************************************)
EXTENDS Integers, Sequences

CONSTANTS
  Top,         \* highest field, in levels
  DrivenMax,   \* highest field that may stay driven
  Calls,       \* bound on the operations
  Presses,     \* bound on stops
  Troubles     \* bound on failed exchanges and crashes

ASSUME LevelsAssumption == Top \in Nat /\ DrivenMax \in 0..Top
ASSUME BoundsAssumption == {Calls, Presses, Troubles} \subseteq Nat

VARIABLES
  (* the supply and the magnet *)
  heater, sw, coil, out,
  goal, auto,      \* where the sweep leads to; ZERO ends by itself in Standby
  sweep, halt,     \* "off", "slow", "fast"; a pause has been ordered
  (* the worker *)
  pc, op, after,   \* after: where a confirmed pause goes on
  ret, lead,       \* a movement of the leads: what follows, and where they go
  seen,            \* _persistent_off_since: "none", or taken in this ("fresh") or
                   \* in an earlier ("stale") period without heating
  (* shared *)
  queue, stopE,
  lost,            \* a stop has failed with an error, or the program has died
  late,            \* sweeps ordered since a stop that still waits was pressed
  calls, presses, troubles

device == <<heater, sw, coil, out, goal, auto, sweep, halt>>
worker == <<pc, op, after, ret, lead, seen>>
shared == <<queue, stopE, lost, late>>
bounds == <<calls, presses, troubles>>
vars   == <<device, worker, shared, bounds>>

Fields == 0..Top
Op(k, t, md, z) == [kind |-> k, target |-> t, mode |-> md, zl |-> z]
Ops == {Op("move", t, "driven", FALSE) : t \in 0..DrivenMax}
       \cup {Op("move", t, "persistent", z) : t \in Fields, z \in BOOLEAN}
       \cup {Op("persist", 0, "persistent", z) : z \in BOOLEAN}
       \cup {Op("enter", 0, "driven", FALSE), Op("reconnect", 0, "driven", FALSE)}
Pause == Op("pause", 0, "driven", FALSE)
NoOp  == Op("none", 0, "driven", FALSE)

(* The magnet as an earlier session left it: driven, persistent, or with the *)
(* heater just switched off.                                                 *)
Init ==
  /\ heater \in BOOLEAN /\ coil \in Fields /\ out \in {0, coil}
  /\ IF heater THEN sw = "hot" ELSE sw \in {"cold", "cooling"}
  /\ sw # "cold" => out = coil
  /\ goal = out /\ auto = FALSE /\ sweep = "off" /\ halt = FALSE
  /\ pc = "idle" /\ op = NoOp /\ after = "idle" /\ ret = "done" /\ lead = 0
  /\ seen = "none" /\ queue = <<>> /\ stopE = FALSE /\ lost = FALSE /\ late = 0
  /\ calls = 0 /\ presses = 0 /\ troubles = 0

-----------------------------------------------------------------------------
(* The GUI thread. *)

PauseWaits == \E i \in DOMAIN queue : queue[i].kind = "pause"

(* The panel offers one operation at a time. *)
Request ==
  /\ calls < Calls /\ calls' = calls + 1
  /\ pc = "idle" \/ op.kind = "pause"
  /\ \A i \in DOMAIN queue : queue[i].kind = "pause"
  /\ \E x \in Ops : queue' = Append(queue, x)
  /\ UNCHANGED <<device, worker, stopE, lost, late, presses, troubles>>

(* MagnetController.pause: the event at once, the pause behind what is queued.*)
Press ==
  /\ presses < Presses /\ presses' = presses + 1
  /\ stopE' = TRUE /\ queue' = Append(queue, Pause) /\ late' = 0
  /\ UNCHANGED <<device, worker, lost, calls, troubles>>

-----------------------------------------------------------------------------
(* What the worker does to the supply. *)

Goto(p) == pc' = p
Quiet   == UNCHANGED <<device, op, after, ret, lead, shared, bounds>>
Still   == Quiet /\ UNCHANGED seen
Raises  == Goto("failed")

(* Mutant of Observe. *)
ObserveOnce ==
  seen' = IF ~heater /\ seen = "none" THEN "fresh" ELSE seen
(* get_heater_status also notes since when the heater has been seen off. *)
Observe ==
  seen' = CASE heater -> "none"
            [] ~heater /\ seen = "none" -> "fresh"
            [] OTHER -> seen

Order(target, isZero, speed) ==
  /\ goal' = target /\ auto' = isZero /\ sweep' = speed /\ halt' = FALSE
  /\ late' = IF PauseWaits THEN late + 1 ELSE late
  /\ UNCHANGED <<heater, sw, coil, out, op, after, ret, lead, seen, queue, stopE,
                 lost, bounds>>

Halt == halt' = (sweep # "off") /\ UNCHANGED <<heater, sw, coil, out, goal, auto, sweep>>
(* pause() waits for the confirmation, pause(confirm=False) does not. *)
PauseThen(next) ==
  /\ Halt /\ Goto("confirm") /\ after' = next
  /\ UNCHANGED <<op, ret, lead, seen, shared, bounds>>
PauseAndRaise ==
  Halt /\ Raises /\ UNCHANGED <<op, after, ret, lead, seen, shared, bounds>>
Confirm == pc = "confirm" /\ sweep = "off" /\ Goto(after) /\ Still

(* _ramp_persistent_leads, and what follows it. *)
MoveLeads(target, next) ==
  /\ Goto("leads") /\ lead' = target /\ ret' = next
  /\ UNCHANGED <<device, op, after, shared, bounds>>

-----------------------------------------------------------------------------
(* The worker takes the next slot of its queue.  pause() raises the event    *)
(* once more, every other operation clears it.                               *)
Begin ==
  /\ pc = "idle" /\ queue # <<>>
  /\ op' = Head(queue) /\ queue' = Tail(queue)
  /\ stopE' = CASE op'.kind = "pause" -> TRUE [] op'.kind = "reconnect" -> stopE
                [] OTHER -> FALSE
  /\ Goto(IF op'.kind = "enter" /\ coil > DrivenMax THEN "failed" ELSE op'.kind)
  /\ IF op'.kind = "move" THEN Observe ELSE UNCHANGED seen
  /\ late' = IF op'.kind = "pause" THEN 0 ELSE late
  /\ UNCHANGED <<device, after, ret, lead, lost, bounds>>
Refresh ==
  /\ pc = "idle" /\ Observe /\ Goto("idle") /\ Quiet

PauseSlot == pc = "pause" /\ PauseThen("done")
(* close() pauses a sweep before the port is opened again, which is tried    *)
(* until it succeeds.                                                        *)
ReconnectSlot == pc = "reconnect" /\ PauseThen("opened")
Opened == pc = "opened" /\ seen' = "none" /\ Goto("done") /\ Quiet

(* safe_move_to_field; the panel has the stored field confirmed before. *)
Start ==
  /\ pc = "move"
  /\ IF sweep # "off" THEN PauseThen("decide") ELSE Goto("decide") /\ Still
AtTarget == coil = op.target
Decide ==
  /\ pc = "decide"
  /\ \/ stopE /\ Raises /\ Still
     \/ ~stopE /\ heater /\ Goto("sweep") /\ Observe /\ Quiet
     \/ /\ ~stopE /\ ~heater /\ op.mode = "persistent" /\ AtTarget /\ Observe
        /\ IF op.zl /\ out # 0 THEN MoveLeads(0, "done") ELSE Goto("done") /\ Quiet
     \/ /\ ~stopE /\ ~heater /\ ~(op.mode = "persistent" /\ AtTarget) /\ Observe
        /\ Goto("enter") /\ Quiet

(* _enter_driven_mode *)
Driven == IF op.kind = "move" THEN "sweep" ELSE "done"
Enter ==
  /\ pc = "enter" /\ Observe
  /\ CASE heater -> Goto(Driven) /\ Quiet
       [] ~heater /\ out # coil -> MoveLeads(coil, "slowPause")
       [] ~heater /\ out = coil -> Goto("slowPause") /\ Quiet
(* Mutant of SlowPause. *)
SlowPauseUnconfirmed ==
  /\ pc = "slowPause" /\ Halt /\ Goto("heat")
  /\ UNCHANGED <<op, after, ret, lead, seen, shared, bounds>>
SlowPause == pc = "slowPause" /\ PauseThen("heat")
Heat ==
  /\ pc = "heat"
  /\ IF coil # out \/ stopE THEN Raises /\ Still
     ELSE /\ heater' = TRUE /\ sw' = "warming" /\ Goto("heated")
          /\ seen' = IF seen = "fresh" THEN "stale" ELSE seen
          /\ UNCHANGED <<coil, out, goal, auto, sweep, halt, op, after, ret, lead, shared,
                         bounds>>
Heated == pc = "heated" /\ Observe /\ Goto("warm") /\ Quiet
Warmed ==
  pc = "warm" /\ sw = "hot" /\ Goto(IF stopE THEN "failed" ELSE Driven) /\ Still

(* The field itself: zero_output, move_to_field and wait_for_field. *)
SweepField ==
  /\ pc = "sweep"
  /\ CASE stopE -> Raises /\ Still
       [] ~stopE /\ AtTarget -> PauseThen("settle")
       [] ~stopE /\ ~AtTarget ->
            /\ Goto(CASE op.target = 0 /\ out = 0 -> "settle"
                      [] op.target # 0 /\ ~heater -> "failed"
                      [] OTHER -> "order")
            /\ Observe /\ Quiet
OrderField ==
  /\ pc = "order" /\ Order(op.target, op.target = 0, "slow")
  /\ Goto(IF op.target = 0 THEN "zeroWait" ELSE "fieldWait")
FieldWait ==
  /\ pc = "fieldWait"
  /\ \/ stopE /\ PauseAndRaise
     \/ ~stopE /\ AtTarget /\ PauseThen("settle")
     \/ ~stopE /\ ~AtTarget /\ sweep = "off" /\ Raises /\ Still
(* Mutant of ZeroWait. *)
ZeroWaitNoStandby ==
  /\ pc = "zeroWait"
  /\ \/ stopE /\ PauseAndRaise
     \/ ~stopE /\ out = 0 /\ Goto("settle") /\ Still
     \/ ~stopE /\ sweep = "off" /\ Raises /\ Still
(* The output is read before the status: a sweep that ends between the two   *)
(* readings seems to have ended elsewhere.                                   *)
ZeroWait ==
  /\ pc = "zeroWait"
  /\ \/ stopE /\ PauseAndRaise
     \/ ~stopE /\ out = 0 /\ sweep = "off" /\ Goto("settle") /\ Still
     \/ ~stopE /\ sweep = "off" /\ Raises /\ Still
(* settle_s may be zero, and then nothing is looked at. *)
Settle ==
  /\ pc = "settle"
  /\ \/ (stopE \/ ~AtTarget) /\ Raises /\ Still
     \/ Goto(IF op.mode = "persistent" THEN "persist" ELSE "verify") /\ Still

(* enter_persistent_mode *)
Persist ==
  /\ pc = "persist"
  /\ IF sweep # "off" THEN PauseThen("cut") ELSE Goto("cut") /\ Still
Persistent == IF op.kind = "move" THEN "verify" ELSE "done"
ZeroLeads ==
  IF op.zl /\ out # 0 THEN MoveLeads(0, Persistent) ELSE Goto(Persistent) /\ Quiet
Cut ==
  /\ pc = "cut"
  /\ CASE ~heater -> Observe /\ ZeroLeads
       [] heater /\ coil # out -> Raises /\ Observe /\ Quiet
       [] heater /\ coil = out ->
            /\ heater' = FALSE /\ sw' = "cooling" /\ Goto("wasCut") /\ Observe
            /\ UNCHANGED <<coil, out, goal, auto, sweep, halt, op, after, ret, lead, shared,
                           bounds>>
WasCut == pc = "wasCut" /\ Observe /\ Goto("cool") /\ Quiet
Cooled ==
  /\ pc = "cool" /\ sw = "cold" /\ UNCHANGED seen
  /\ IF stopE THEN Raises /\ Quiet ELSE ZeroLeads

(* _ramp_persistent_leads: off, cooled, SLOW first, FAST once the coil shows *)
(* no voltage; ret tells matching from zeroing.                              *)
Zeroing == ret # "slowPause"
Leads ==
  /\ pc = "leads" /\ Observe
  /\ Goto(IF stopE \/ heater THEN "failed" ELSE "leadsCool") /\ Quiet
LeadsCool ==
  /\ pc = "leadsCool" /\ (seen = "fresh" => sw = "cold")
  /\ Observe /\ Goto(IF stopE \/ heater THEN "failed" ELSE "leadsGo") /\ Quiet
(* Mutant of LeadsGo. *)
LeadsGoPlain == pc = "leadsGo" /\ Order(lead, FALSE, "slow") /\ Goto("leadsWait")
LeadsGo == pc = "leadsGo" /\ Order(lead, Zeroing, "slow") /\ Goto("leadsWait")
(* Mutant of LeadsWait. *)
LeadsWaitOn ==
  /\ pc = "leadsWait"
  /\ \/ heater /\ PauseAndRaise
     \/ /\ ~heater
        /\ \/ out = lead /\ ~Zeroing /\ PauseThen(ret)
           \/ out = lead /\ Zeroing /\ sweep = "off" /\ Goto(ret) /\ Still
           \/ (out # lead \/ Zeroing) /\ sweep = "off" /\ PauseAndRaise
           \/ out # lead /\ sweep = "slow" /\ Goto("leadsFast") /\ Still
LeadsWait ==
  /\ pc = "leadsWait"
  /\ \/ (stopE \/ heater) /\ PauseAndRaise
     \/ /\ ~stopE /\ ~heater
        /\ \/ out = lead /\ ~Zeroing /\ PauseThen(ret)
           \/ out = lead /\ Zeroing /\ sweep = "off" /\ Goto(ret) /\ Still
           \/ (out # lead \/ Zeroing) /\ sweep = "off" /\ PauseAndRaise
           \/ out # lead /\ sweep = "slow" /\ Goto("leadsFast") /\ Still
LeadsFast == pc = "leadsFast" /\ Order(lead, Zeroing, "fast") /\ Goto("leadsWait")

(* The last snapshot is compared with what was asked for. *)
Verify ==
  /\ pc = "verify" /\ Observe /\ Quiet
  /\ Goto(IF /\ AtTarget /\ heater = (op.mode = "driven")
             /\ heater => coil <= DrivenMax
             /\ op.zl => out = 0
          THEN "done" ELSE "failed")
Done == pc = "done" /\ Observe /\ Goto("idle") /\ Quiet

(* A failed move is paused; every failure is told, and ends the operation.   *)
Failed ==
  /\ pc = "failed"
  /\ IF op.kind = "move" THEN PauseThen("idle") ELSE Goto("idle") /\ Still

Worker ==
  \/ Begin \/ PauseSlot \/ ReconnectSlot \/ Opened \/ Confirm
  \/ Start \/ Decide \/ Enter \/ SlowPause \/ Heat \/ Heated \/ Warmed
  \/ SweepField \/ OrderField \/ FieldWait \/ ZeroWait \/ Settle
  \/ Persist \/ Cut \/ WasCut \/ Cooled
  \/ Leads \/ LeadsCool \/ LeadsGo \/ LeadsWait \/ LeadsFast
  \/ Verify \/ Done \/ Failed

-----------------------------------------------------------------------------
(* An exchange with the supply fails, a reading is out of bounds or a wait   *)
(* takes too long, which for a sweep orders a pause; whether the last write  *)
(* took effect is whether its step was taken.  A move that fails before it   *)
(* has begun is not paused, and close() keeps a pause that failed to itself. *)
Handling == pc = "failed" \/ (pc = "confirm" /\ after = "idle")
Waiting  == {"leadsGo", "leadsWait", "leadsFast", "fieldWait", "zeroWait"}
Glitch ==
  /\ pc \notin {"idle", "done"} /\ troubles < Troubles /\ troubles' = troubles + 1
  /\ IF op.kind \in {"pause", "reconnect"} \/ Handling
     THEN /\ Goto(IF op.kind = "reconnect" THEN "opened" ELSE "idle")
          /\ lost' = (lost \/ op.kind # "reconnect") /\ UNCHANGED halt
     ELSE /\ \/ Raises
             \/ pc = "move" /\ Goto("idle")
          /\ halt' \in {halt} \cup (IF pc \in Waiting THEN {sweep # "off"} ELSE {})
          /\ UNCHANGED lost
  /\ seen' \in {seen, "none"}
  /\ UNCHANGED <<heater, sw, coil, out, goal, auto, sweep, op, after, ret, lead, queue,
                 stopE, late, calls, presses>>
(* The program dies and is started again; the supply goes on. *)
Crash ==
  /\ troubles < Troubles /\ troubles' = troubles + 1
  /\ Goto("idle") /\ op' = NoOp /\ after' = "idle" /\ ret' = "done" /\ lead' = 0
  /\ seen' = "none" /\ queue' = <<>> /\ stopE' = FALSE /\ lost' = TRUE /\ late' = 0
  /\ UNCHANGED <<device, calls, presses>>

-----------------------------------------------------------------------------
(* The supply and the magnet. *)
Others == UNCHANGED <<worker, shared, bounds>>
Moves ==
  /\ sweep # "off" /\ out # goal
  /\ out' = IF out < goal THEN out + 1 ELSE out - 1
  /\ coil' \in CASE sw = "hot" -> {out'} [] sw = "cold" -> {coil} [] OTHER -> {coil, out'}
  /\ UNCHANGED <<heater, sw, goal, auto, sweep, halt>> /\ Others
Halts ==
  /\ halt /\ sweep' = "off" /\ halt' = FALSE
  /\ UNCHANGED <<heater, sw, coil, out, goal, auto>> /\ Others
Stands ==
  /\ auto /\ out = 0 /\ sweep # "off" /\ sweep' = "off" /\ halt' = FALSE
  /\ UNCHANGED <<heater, sw, coil, out, goal, auto>> /\ Others
Switches ==
  /\ \/ sw = "warming" /\ sw' = "hot" /\ coil' = out
     \/ sw = "cooling" /\ sw' = "cold" /\ UNCHANGED coil
  /\ UNCHANGED <<heater, out, goal, auto, sweep, halt>> /\ Others

Next == Request \/ Press \/ Worker \/ Refresh \/ Glitch \/ Crash
        \/ Moves \/ Halts \/ Stands \/ Switches

(* The worker's loops poll, a sweep moves and ends, a switch warms and cools.*)
Fairness ==
  /\ WF_vars(Worker) /\ WF_vars(Moves) /\ WF_vars(Halts) /\ WF_vars(Stands)
  /\ WF_vars(Switches)
Spec == Init /\ [][Next]_vars /\ Fairness

-----------------------------------------------------------------------------

TypeOK ==
  /\ {heater, auto, halt, stopE, lost} \subseteq BOOLEAN
  /\ sw \in {"cold", "warming", "hot", "cooling"} /\ sweep \in {"off", "slow", "fast"}
  /\ {coil, out, goal, lead} \subseteq Fields
  /\ op \in Ops \cup {Pause, NoOp} /\ queue \in Seq(Ops \cup {Pause})
  /\ seen \in {"none", "fresh", "stale"} /\ late \in Nat
  /\ calls \in 0..Calls /\ presses \in 0..Presses /\ troubles \in 0..Troubles
  /\ heater <=> sw \in {"warming", "hot"}
  /\ pc = "leadsCool" => seen # "none"
  /\ pc \in {"sweep", "order", "fieldWait", "zeroWait", "settle", "verify"}
       => op.kind = "move"

(* The heater is switched only while the leads stand still and carry the     *)
(* current of the coil, whatever was interrupted before: otherwise the       *)
(* switch opens or closes on a current and the magnet quenches               *)
(* (_enter_driven_mode :938-949, enter_persistent_mode :993-999).            *)
HeaterMatched == [][heater' # heater => coil = out /\ sweep = "off"]_vars

(* With the heater off the leads move only past a switch that is cold, and   *)
(* FAST only then: also after an interrupted cooling, a reconnect or a       *)
(* restart of the program (:777-788).                                        *)
LeadsMoveIsolated ==
  sweep # "off" => /\ ~heater => sw = "cold"
                   /\ sweep = "fast" => ~heater

(* When a move is reported as finished the supply is at rest, with the field *)
(* and in the mode that were asked for, by each of the ways through          *)
(* safe_move_to_field (:1055-1157).                                          *)
FinishedAsAsked ==
  [][op.kind = "move" /\ pc # "done" /\ pc' = "done" =>
       /\ AtTarget /\ heater = (op.mode = "driven") /\ sweep = "off"
       /\ op.zl => out = 0]_vars

(* While a stop stands at most one more sweep is ordered, by an operation    *)
(* that had already looked.                                                  *)
OneLateSweep == stopE => late <= 1

(* A pressed stop brings the worker and the supply to rest, unless it fails  *)
(* and says so.                                                              *)
PauseSettles == PauseWaits ~> (pc = "idle" /\ sweep = "off") \/ lost

(* The field is swept only with the switch fully warmed (:917, :960).        *)
SweepsWarm == sweep # "off" /\ heater => sw = "hot"
=============================================================================
