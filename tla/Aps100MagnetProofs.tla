------------------------ MODULE Aps100MagnetProofs ------------------------
(***************************************************************************)
(* Theorems about Aps100Magnet, for every number of levels, operations,    *)
(* stops and troubles: the heater is switched only over matched, resting   *)
(* leads; the leads move only past a cold switch; a move that is reported  *)
(* as finished left what was asked for.  They follow from one inductive    *)
(* invariant, which ties each place of the worker to what is known there   *)
(* of the switch, of the sweep and of the operation.                       *)
(***************************************************************************)
EXTENDS Aps100Magnet, TLAPS

LeadPlaces == {"leads", "leadsCool", "leadsGo", "leadsWait", "leadsFast"}
Places == {"idle", "confirm", "pause", "reconnect", "opened", "move", "decide", "enter",
           "slowPause", "heat", "heated", "warm", "sweep", "order", "fieldWait",
           "zeroWait", "settle", "persist", "cut", "wasCut", "cool", "verify", "done",
           "failed"} \cup LeadPlaces
Afters == {"done", "opened", "decide", "heat", "settle", "cut", "idle", "slowPause"}
Rets   == {"done", "slowPause", "verify"}

PlacesOK == pc \in Places /\ after \in Afters /\ ret \in Rets

(* What the notes of the heater mean. *)
NotesInv ==
  /\ seen = "stale" => heater
  /\ seen = "fresh" => ~heater

(* Where the worker is, the heater is as it must be there. *)
HeaterInv ==
  /\ pc \in LeadPlaces => ~heater
  /\ pc \in {"leadsGo", "leadsWait", "leadsFast"} => sw = "cold"
  /\ pc \in {"heated", "warm", "sweep", "order"} => heater

(* Which operation the worker carries out. *)
OperationInv ==
  /\ pc \in {"move", "decide"} => op.kind = "move"
  /\ pc = "opened" => op.kind # "move"
  /\ pc = "confirm" /\ after \in {"decide", "settle"} => op.kind = "move"
  /\ pc = "confirm" /\ after \in {"done", "opened"} => op.kind # "move"
  /\ pc \in {"pause", "reconnect"} => op.kind = pc
  /\ pc \in LeadPlaces /\ ret = "verify" => op.kind = "move"

(* Where the supply rests. *)
RestInv ==
  /\ pc \in {"heat", "cut"} => sweep = "off"
  /\ op.kind = "move" /\ pc \in {"decide", "enter", "leads", "leadsCool", "slowPause",
                                "heated", "warm", "sweep", "order", "settle",
                                "persist", "wasCut", "cool", "verify"}
       => sweep = "off"

(* A move that only zeroes the leads has its field already. *)
ZeroInv ==
  pc \in LeadPlaces /\ ret = "done" /\ op.kind = "move"
    => coil = op.target /\ op.mode = "persistent" /\ lead = 0

(* After a late sweep the worker looks before it can order another one. *)
LateInv ==
  stopE /\ late # 0 =>
    /\ late = 1
    /\ \/ pc \in {"fieldWait", "zeroWait", "leadsWait", "failed", "idle", "pause",
                  "reconnect", "opened", "done"}
       \/ pc = "confirm" /\ after \in {"idle", "opened", "done"}

IInv == /\ TypeOK /\ PlacesOK /\ NotesInv /\ HeaterInv /\ OperationInv /\ RestInv
        /\ ZeroInv /\ LateInv /\ LeadsMoveIsolated

(* The kinds of an operation that is queued. *)
Kinds == {"move", "persist", "enter", "reconnect", "pause"}

(* A queued operation has one of these kinds, a field as its target and a mode. *)
LEMMA QueuedTypes ==
  ASSUME NEW o \in Ops \cup {Pause}
  PROVE  /\ o.kind \in Kinds /\ o.target \in Fields /\ o.mode \in {"driven", "persistent"}
         /\ o.zl \in BOOLEAN
<1> DEFINE Driving == {Op("move", t, "driven", FALSE) : t \in 0..DrivenMax}
<1> DEFINE Persisting == {Op("move", t, "persistent", z) : t \in Fields, z \in BOOLEAN}
<1> DEFINE Parking == {Op("persist", 0, "persistent", z) : z \in BOOLEAN}
<1>1. 0..DrivenMax \subseteq Fields /\ 0 \in Fields
  BY LevelsAssumption DEF Fields
<1>2. CASE o = Pause
  BY <1>1, <1>2 DEF Pause, Op, Kinds
<1>3. CASE o \in Driving
  <2>1. PICK t \in 0..DrivenMax : o = Op("move", t, "driven", FALSE)
    BY <1>3
  <2> QED BY <2>1, <1>1 DEF Op, Kinds
<1>4. CASE o \in Persisting
  <2>1. PICK t \in Fields, z \in BOOLEAN : o = Op("move", t, "persistent", z)
    BY <1>4
  <2> QED BY <2>1, <1>1 DEF Op, Kinds
<1>5. CASE o \in Parking
  <2>1. PICK z \in BOOLEAN : o = Op("persist", 0, "persistent", z)
    BY <1>5
  <2> QED BY <2>1, <1>1 DEF Op, Kinds
<1>6. CASE o = Op("enter", 0, "driven", FALSE)
  BY <1>1, <1>6 DEF Op, Kinds
<1>7. CASE o = Op("reconnect", 0, "driven", FALSE)
  BY <1>1, <1>7 DEF Op, Kinds
<1>8. Ops = Driving \cup Persisting \cup Parking
            \cup {Op("enter", 0, "driven", FALSE), Op("reconnect", 0, "driven", FALSE)}
  BY DEF Ops
<1> HIDE DEF Driving, Persisting, Parking
<1> QED BY <1>2, <1>3, <1>4, <1>5, <1>6, <1>7, <1>8

(* So has the operation at hand, which may also be none. *)
LEMMA OpTypes ==
  ASSUME NEW o \in Ops \cup {Pause, NoOp}
  PROVE  /\ o.kind \in Kinds \cup {"none"} /\ o.target \in Fields
         /\ o.mode \in {"driven", "persistent"} /\ o.zl \in BOOLEAN
<1>1. 0 \in Fields
  BY LevelsAssumption DEF Fields
<1>2. CASE o = NoOp
  BY <1>1, <1>2 DEF NoOp, Op
<1> QED BY <1>2, QueuedTypes

(* The magnet as an earlier session left it has the types. *)
LEMMA InitHoldsT == Init => TypeOK
<1> SUFFICES ASSUME Init PROVE TypeOK
  OBVIOUS
<1>1. coil \in Fields /\ 0 \in Fields
  BY LevelsAssumption DEF Init, Fields
<1>2. queue = <<>> /\ queue \in Seq(Ops \cup {Pause})
  BY DEF Init
<1>3. heater <=> sw \in {"warming", "hot"}
  BY DEF Init
<1>4. calls \in 0..Calls /\ presses \in 0..Presses /\ troubles \in 0..Troubles
  BY BoundsAssumption DEF Init
<1>5. sw \in {"cold", "warming", "hot", "cooling"}
  BY DEF Init
<1> QED BY <1>1, <1>2, <1>3, <1>4, <1>5 DEF Init, TypeOK

(* The first state is one of the invariant. *)
LEMMA InitHolds == Init => IInv
BY InitHoldsT
   DEF Init, IInv, PlacesOK, NotesInv, HeaterInv, OperationInv, RestInv, ZeroInv,
       LateInv, LeadsMoveIsolated, NoOp, Op, Places, LeadPlaces, Afters, Rets

(* An ordered sweep changes the goal, the sweep and the count of late sweeps. *)
LEMMA OrderTypes ==
  ASSUME TypeOK, NEW t \in Fields, NEW z \in BOOLEAN, NEW s \in {"slow", "fast"},
         Order(t, z, s)
  PROVE  /\ {heater, auto, halt, stopE, lost}' \subseteq BOOLEAN
         /\ sw' = sw /\ sweep' = s /\ heater' = heater
         /\ {coil, out, goal, lead}' \subseteq Fields
         /\ UNCHANGED <<op, queue, seen, calls, presses, troubles>> /\ late' \in Nat
<1>1. late' \in Nat
  <2>1. CASE PauseWaits
    BY <2>1 DEF TypeOK, Order
  <2>2. CASE ~PauseWaits
    BY <2>2 DEF TypeOK, Order
  <2> QED BY <2>1, <2>2
<1>2. heater' = heater /\ auto' = z /\ halt' = FALSE /\ stopE' = stopE /\ lost' = lost
  BY DEF Order
<1>3. {heater', auto', halt', stopE', lost'} \subseteq BOOLEAN
  <2>1. {heater, stopE, lost} \subseteq BOOLEAN
    BY DEF TypeOK
  <2> QED BY <1>2, <2>1
<1>4. {coil', out', goal', lead'} \subseteq Fields
  BY DEF TypeOK, Order
<1>5. sw' = sw /\ sweep' = s
  BY DEF Order
<1>6. UNCHANGED <<op, queue, seen, calls, presses, troubles>>
  BY DEF Order, bounds
<1> QED BY <1>1, <1>2, <1>3, <1>4, <1>5, <1>6

(* The steps whose types need an argument of their own. *)
LEMMA TypeOrderField ==
  ASSUME TypeOK, PlacesOK, OperationInv, OrderField
  PROVE  TypeOK'
<1> USE OrderField DEF OrderField
<1>1. op.target \in Fields
  BY OpTypes DEF TypeOK
<1>2. CASE op.target = 0
  BY <1>1, <1>2, OrderTypes DEF TypeOK, Goto
<1>3. CASE op.target # 0
  BY <1>1, <1>3, OrderTypes DEF TypeOK, Goto
<1> QED BY <1>2, <1>3

(* A zeroing sweep is a ZERO command, a matching one is not; both keep the types. *)
LEMMA TypeLeadsGo ==
  ASSUME TypeOK, PlacesOK, OperationInv, LeadsGo
  PROVE  TypeOK'
<1>1. PICK z \in BOOLEAN : Order(lead, z, "slow")
  <2>1. Zeroing \in BOOLEAN
    BY DEF Zeroing
  <2> QED BY <2>1 DEF LeadsGo
<1> QED BY <1>1, OrderTypes DEF LeadsGo, TypeOK, Goto

(* The same sweep, faster. *)
LEMMA TypeLeadsFast ==
  ASSUME TypeOK, PlacesOK, OperationInv, LeadsFast
  PROVE  TypeOK'
<1>1. PICK z \in BOOLEAN : Order(lead, z, "fast")
  <2>1. Zeroing \in BOOLEAN
    BY DEF Zeroing
  <2> QED BY <2>1 DEF LeadsFast
<1> QED BY <1>1, OrderTypes DEF LeadsFast, TypeOK, Goto

(* Waiting for the field: a stop, the field, or a sweep that ended elsewhere. *)
LEMMA TypeFieldWait ==
  ASSUME TypeOK, PlacesOK, OperationInv, FieldWait
  PROVE  TypeOK'
<1>1. CASE PauseAndRaise
  BY <1>1 DEF TypeOK, PauseAndRaise, Halt, Raises, Goto, shared, bounds
<1>2. CASE ~stopE /\ AtTarget /\ PauseThen("settle")
  BY <1>2 DEF FieldWait, PauseThen, Halt, shared, bounds, TypeOK, Goto
<1>3. CASE ~stopE /\ Raises /\ Still
  BY <1>3 DEF FieldWait, Raises, Still, Quiet, device, shared, bounds, TypeOK,
     Goto
<1> QED BY <1>1, <1>2, <1>3 DEF FieldWait

(* Waiting for zero output. *)
LEMMA TypeZeroWait ==
  ASSUME TypeOK, PlacesOK, OperationInv, ZeroWait
  PROVE  TypeOK'
<1>1. CASE PauseAndRaise
  BY <1>1 DEF TypeOK, PauseAndRaise, Halt, Raises, Goto, shared, bounds
<1>2. CASE ~PauseAndRaise
  BY <1>2 DEF ZeroWait, PlacesOK, Rets, OperationInv, LeadPlaces, TypeOK, device,
     worker, shared, bounds, Fields, Goto, Quiet, Still, Raises, Observe, Order,
     Halt, PauseThen, PauseAndRaise, MoveLeads, AtTarget, Driven, Persistent,
     ZeroLeads, Zeroing, Handling, Others, PauseWaits
<1> QED BY <1>1, <1>2

(* Waiting for the leads. *)
LEMMA TypeLeadsWait ==
  ASSUME TypeOK, PlacesOK, OperationInv, LeadsWait
  PROVE  TypeOK'
<1>1. CASE PauseAndRaise
  BY <1>1 DEF TypeOK, PauseAndRaise, Halt, Raises, Goto, shared, bounds
<1>2. CASE PauseThen(ret) /\ ~Zeroing
  BY <1>2 DEF LeadsWait, Zeroing, PauseThen, Halt, shared, bounds, TypeOK, Goto
<1>3. CASE Goto(ret) /\ Still
  BY <1>3 DEF LeadsWait, Still, Quiet, device, shared, bounds, PlacesOK,
     OperationInv, LeadPlaces, Rets, TypeOK, Goto
<1>4. CASE Goto("leadsFast") /\ Still
  BY <1>4 DEF LeadsWait, Still, Quiet, device, shared, bounds, TypeOK, Goto
<1> QED BY <1>1, <1>2, <1>3, <1>4 DEF LeadsWait

(* A new start of the program. *)
LEMMA TypeCrash ==
  ASSUME TypeOK, PlacesOK, OperationInv, Crash
  PROVE  TypeOK'
<1>1. op' \in Ops \cup {Pause, NoOp} /\ queue' = <<>> /\ queue' \in Seq(Ops \cup {Pause})
  BY DEF Crash
<1>2. troubles' \in 0..Troubles
  BY BoundsAssumption DEF Crash, TypeOK
<1>3. 0 \in Fields
  BY LevelsAssumption DEF Fields
<1> QED BY <1>1, <1>2, <1>3 DEF Crash, Goto, TypeOK, device

(* An exchange that fails. *)
LEMMA TypeGlitch ==
  ASSUME TypeOK, PlacesOK, OperationInv, Glitch
  PROVE  TypeOK'
<1>1. troubles' \in 0..Troubles
  BY BoundsAssumption DEF Glitch, TypeOK
<1>2. halt' \in BOOLEAN /\ lost' \in BOOLEAN
  BY DEF Glitch, TypeOK
<1>3. pc' \in {"failed", "opened", "idle"} /\ seen' \in {seen, "none"}
  BY DEF Glitch, Goto, Raises
<1> QED BY <1>1, <1>2, <1>3 DEF Glitch, TypeOK

(* Switching the heater off, or finding it off. *)
LEMMA TypeCut ==
  ASSUME TypeOK, PlacesOK, OperationInv, Cut
  PROVE  TypeOK'
<1>1. seen' \in {"none", "fresh", "stale"}
  BY DEF Cut, Observe, TypeOK
<1>2. CASE ~heater /\ MoveLeads(0, Persistent)
  BY <1>1, <1>2, LevelsAssumption DEF Cut, MoveLeads, Goto, TypeOK, device,
     shared, bounds, Fields
<1>3. CASE ~heater /\ ~MoveLeads(0, Persistent)
  BY <1>1, <1>3 DEF Cut, ZeroLeads, Persistent, Goto, Quiet, TypeOK, device,
     shared, bounds
<1>4. CASE heater /\ coil # out
  BY <1>1, <1>4 DEF Cut, Raises, Goto, Quiet, TypeOK, device, shared, bounds
<1>5. CASE heater /\ coil = out
  BY <1>1, <1>5 DEF Cut, Goto, TypeOK, shared, bounds
<1> QED BY <1>2, <1>3, <1>4, <1>5

(* The next operation of the queue. *)
LEMMA TypeBegin ==
  ASSUME TypeOK, PlacesOK, OperationInv, Begin
  PROVE  TypeOK'
<1>1. op' \in Ops \cup {Pause} /\ queue' \in Seq(Ops \cup {Pause})
  BY DEF Begin, TypeOK
<1>2. op'.kind \in Kinds
  BY <1>1, QueuedTypes
<1>3. pc' \in Kinds \cup {"failed"}
  BY <1>2 DEF Begin, Goto
<1>4. seen' \in {"none", "fresh", "stale"} /\ late' \in Nat /\ stopE' \in BOOLEAN
  BY DEF Begin, Observe, TypeOK
<1> QED BY <1>1, <1>3, <1>4 DEF Begin, TypeOK, Kinds, device, bounds

(* Every step keeps the types. *)
LEMMA TypeStep ==
  ASSUME TypeOK, PlacesOK, OperationInv, [Next]_vars
  PROVE  TypeOK'
<1> USE LevelsAssumption, BoundsAssumption
<1>1. CASE Request
  BY <1>1 DEF TypeOK, Request, device, worker
<1>2. CASE Press
  BY <1>2 DEF TypeOK, Press, device, worker
<1>3. CASE Begin
  BY <1>3, TypeBegin
<1>4. CASE PauseSlot
  BY <1>4 DEF TypeOK, PauseSlot, PauseThen, Goto, Halt, shared, bounds
<1>5. CASE ReconnectSlot
  BY <1>5 DEF TypeOK, ReconnectSlot, PauseThen, Goto, Halt, shared, bounds
<1>6. CASE Opened
  BY <1>6 DEF TypeOK, Opened, Goto, Quiet, device, shared, bounds
<1>7. CASE Confirm
  BY <1>7 DEF PlacesOK, OperationInv, TypeOK, Confirm, Goto, Still, Quiet,
     device, shared, bounds, Afters
<1>8. CASE Start
  BY <1>8 DEF TypeOK, Start, Goto, Still, Quiet, device, shared, bounds,
     PauseThen, Halt
<1>9. CASE Decide
  BY <1>9 DEF Fields, OperationInv, TypeOK, Decide, Goto, Quiet, device, shared,
     bounds, Still, Raises, Observe, MoveLeads, AtTarget
<1>10. CASE Enter
  BY <1>10 DEF TypeOK, Enter, Goto, Quiet, device, shared, bounds, Observe,
     MoveLeads, Driven
<1>11. CASE SlowPause
  BY <1>11 DEF TypeOK, SlowPause, PauseThen, Goto, Halt, shared, bounds
<1>12. CASE Heat
  BY <1>12 DEF TypeOK, Heat, Goto, Still, Quiet, device, shared, bounds, Raises
<1>13. CASE Heated
  BY <1>13 DEF TypeOK, Heated, Goto, Quiet, device, shared, bounds, Observe
<1>14. CASE Warmed
  BY <1>14 DEF TypeOK, Warmed, Goto, Still, Quiet, device, shared, bounds, Driven
<1>15. CASE SweepField
  BY <1>15 DEF TypeOK, SweepField, Goto, Quiet, device, shared, bounds, Still,
     Raises, Observe, PauseThen, Halt, AtTarget
<1>16. CASE OrderField
  BY <1>16, TypeOrderField
<1>17. CASE FieldWait
  BY <1>17, TypeFieldWait
<1>18. CASE ZeroWait
  BY <1>18, TypeZeroWait
<1>19. CASE Settle
  BY <1>19 DEF TypeOK, Settle, Goto, Still, Quiet, device, shared, bounds,
     Raises, AtTarget
<1>20. CASE Persist
  BY <1>20 DEF TypeOK, Persist, Goto, Still, Quiet, device, shared, bounds,
     PauseThen, Halt
<1>21. CASE Cut
  BY <1>21, TypeCut
<1>22. CASE WasCut
  BY <1>22 DEF TypeOK, WasCut, Goto, Quiet, device, shared, bounds, Observe
<1>23. CASE Cooled
  BY <1>23 DEF Fields, TypeOK, Cooled, Quiet, device, shared, bounds, Raises,
     Goto, ZeroLeads, MoveLeads, Persistent
<1>24. CASE Leads
  BY <1>24 DEF TypeOK, Leads, Goto, Quiet, device, shared, bounds, Observe
<1>25. CASE LeadsCool
  BY <1>25 DEF TypeOK, LeadsCool, Goto, Quiet, device, shared, bounds, Observe
<1>26. CASE LeadsGo
  BY <1>26, TypeLeadsGo
<1>27. CASE LeadsWait
  BY <1>27, TypeLeadsWait
<1>28. CASE LeadsFast
  BY <1>28, TypeLeadsFast
<1>29. CASE Verify
  BY <1>29 DEF TypeOK, Verify, Goto, Quiet, device, shared, bounds, Observe,
     AtTarget
<1>30. CASE Done
  BY <1>30 DEF TypeOK, Done, Goto, Quiet, device, shared, bounds, Observe
<1>31. CASE Failed
  BY <1>31 DEF TypeOK, Failed, Goto, Still, Quiet, device, shared, bounds,
     PauseThen, Halt
<1>32. CASE Refresh
  BY <1>32 DEF TypeOK, Refresh, Goto, Quiet, device, shared, bounds, Observe
<1>33. CASE Glitch
  BY <1>33, TypeGlitch
<1>34. CASE Crash
  BY <1>34, TypeCrash
<1>35. CASE Moves
  <2>1. coil \in Fields /\ out \in Fields /\ goal \in Fields
    BY DEF TypeOK
  <2>2. out' \in Fields /\ coil' \in Fields
    BY <1>35, <2>1 DEF Moves, Fields
  <2> QED BY <1>35, <2>2 DEF TypeOK, Moves, Others, worker, shared, bounds
<1>36. CASE Halts
  BY <1>36 DEF TypeOK, Halts, Others, worker, shared, bounds
<1>37. CASE Stands
  BY <1>37 DEF TypeOK, Stands, Others, worker, shared, bounds
<1>38. CASE Switches
  BY <1>38 DEF TypeOK, Switches, Others, worker, shared, bounds
<1>39. CASE UNCHANGED vars
  BY <1>39 DEF TypeOK, vars, device, worker, shared, bounds
<1> QED
  BY <1>1, <1>2, <1>3, <1>4, <1>5, <1>6, <1>7, <1>8, <1>9, <1>10, <1>11, <1>12,
     <1>13, <1>14, <1>15, <1>16, <1>17, <1>18, <1>19, <1>20, <1>21, <1>22, <1>23,
     <1>24, <1>25, <1>26, <1>27, <1>28, <1>29, <1>30, <1>31, <1>32, <1>33, <1>34,
     <1>35, <1>36, <1>37, <1>38, <1>39 DEF Next, Worker

(* Every step keeps what is known at each place of the worker. *)
LEMMA ControlStep ==
  ASSUME IInv, [Next]_vars
  PROVE  (PlacesOK /\ NotesInv /\ HeaterInv /\ OperationInv /\ RestInv /\ ZeroInv
            /\ LateInv /\ LeadsMoveIsolated)'
<1> USE DEF IInv, PlacesOK, NotesInv, HeaterInv, OperationInv, RestInv, ZeroInv,
            LateInv, LeadsMoveIsolated, Places, LeadPlaces, Afters, Rets
<1>1. CASE Request
  BY <1>1 DEF TypeOK, Request, device, worker
<1>2. CASE Press
  BY <1>2 DEF TypeOK, Press, device, worker
<1>3. CASE Begin
  <2>1. op'.kind \in Kinds
    BY <1>3, QueuedTypes DEF Begin, TypeOK
  <2>2. pc' \in Kinds \cup {"failed"} /\ (pc' # "failed" => pc' = op'.kind)
    BY <1>3, <2>1 DEF Begin, Goto
  <2>3. NotesInv'
    BY <1>3 DEF Begin, Observe, device
  <2>4. LeadsMoveIsolated' /\ after' = after /\ ret' = ret
    BY <1>3 DEF Begin, device
  <2>5. LateInv'
    BY <1>3, <2>2 DEF Begin, TypeOK
  <2> QED BY <2>1, <2>2, <2>3, <2>4, <2>5 DEF Kinds
<1>4. CASE PauseSlot
  BY <1>4 DEF TypeOK, PauseSlot, PauseThen, Goto, Halt, shared, bounds
<1>5. CASE ReconnectSlot
  BY <1>5 DEF TypeOK, ReconnectSlot, PauseThen, Goto, Halt, shared, bounds
<1>6. CASE Opened
  BY <1>6 DEF TypeOK, Opened, Goto, Quiet, device, shared, bounds
<1>7. CASE Confirm
  BY <1>7 DEF TypeOK, Confirm, Goto, Still, Quiet, device, shared, bounds
<1>8. CASE Start
  BY <1>8 DEF TypeOK, Start, Goto, Still, Quiet, device, shared, bounds,
     PauseThen, Halt
<1>9. CASE Decide
  BY <1>9 DEF TypeOK, Decide, Goto, Quiet, device, shared, bounds, Still, Raises,
     Observe, MoveLeads, AtTarget
<1>10. CASE Enter
  <2>1. (PlacesOK /\ NotesInv /\ HeaterInv /\ OperationInv)'
    BY ZenonT(60), <1>10 DEF TypeOK, Enter, Goto, Quiet, device, shared, bounds, Observe,
       MoveLeads, Driven
  <2>2. (RestInv /\ ZeroInv /\ LeadsMoveIsolated)'
    BY <1>10 DEF TypeOK, Enter, Goto, Quiet, device, shared, bounds, Observe,
       MoveLeads, Driven
  <2>3. LateInv'
    BY <1>10 DEF TypeOK, Enter, Goto, Quiet, device, shared, bounds, Observe,
       MoveLeads, Driven
  <2> QED BY <2>1, <2>2, <2>3
<1>11. CASE SlowPause
  BY <1>11 DEF TypeOK, SlowPause, PauseThen, Goto, Halt, shared, bounds
<1>12. CASE Heat
  BY <1>12 DEF TypeOK, Heat, Goto, Still, Quiet, device, shared, bounds, Raises
<1>13. CASE Heated
  BY <1>13 DEF TypeOK, Heated, Goto, Quiet, device, shared, bounds, Observe
<1>14. CASE Warmed
  BY <1>14 DEF TypeOK, Warmed, Goto, Still, Quiet, device, shared, bounds, Driven
<1>15. CASE SweepField
  BY ZenonT(60), <1>15 DEF TypeOK, SweepField, Goto, Quiet, device, shared, bounds, Still,
     Raises, Observe, PauseThen, Halt, AtTarget
<1>16. CASE OrderField
  BY <1>16 DEF TypeOK, OrderField, Goto, Order, PauseWaits, bounds
<1>17. CASE FieldWait
  BY <1>17 DEF TypeOK, FieldWait, Still, Quiet, device, shared, bounds, Raises,
     Goto, PauseThen, Halt, PauseAndRaise, AtTarget
<1>18. CASE ZeroWait
  BY <1>18 DEF TypeOK, ZeroWait, Goto, Still, Quiet, device, shared, bounds,
     Raises, PauseAndRaise, Halt
<1>19. CASE Settle
  BY <1>19 DEF TypeOK, Settle, Goto, Still, Quiet, device, shared, bounds,
     Raises, AtTarget
<1>20. CASE Persist
  BY <1>20 DEF TypeOK, Persist, Goto, Still, Quiet, device, shared, bounds,
     PauseThen, Halt
<1>21. CASE Cut
  <2>1. (PlacesOK /\ NotesInv)'
    BY ZenonT(60), <1>21 DEF TypeOK, Cut, Goto, Quiet, device, shared, bounds, Raises,
       Observe, ZeroLeads, MoveLeads, Persistent
  <2>2. (HeaterInv /\ OperationInv)'
    BY <1>21 DEF TypeOK, Cut, Goto, Quiet, device, shared, bounds, Raises,
       Observe, ZeroLeads, MoveLeads, Persistent
  <2>3. (RestInv /\ ZeroInv /\ LeadsMoveIsolated)'
    BY <1>21 DEF TypeOK, Cut, Goto, Quiet, device, shared, bounds, Raises,
       Observe, ZeroLeads, MoveLeads, Persistent
  <2>4. LateInv'
    BY <1>21 DEF TypeOK, Cut, Goto, Quiet, device, shared, bounds, Raises,
       Observe, ZeroLeads, MoveLeads, Persistent
  <2> QED BY <2>1, <2>2, <2>3, <2>4
<1>22. CASE WasCut
  BY <1>22 DEF TypeOK, WasCut, Goto, Quiet, device, shared, bounds, Observe
<1>23. CASE Cooled
  BY <1>23 DEF TypeOK, Cooled, Quiet, device, shared, bounds, Raises, Goto,
     ZeroLeads, MoveLeads, Persistent
<1>24. CASE Leads
  BY <1>24 DEF TypeOK, Leads, Goto, Quiet, device, shared, bounds, Observe
<1>25. CASE LeadsCool
  BY <1>25 DEF TypeOK, LeadsCool, Goto, Quiet, device, shared, bounds, Observe
<1>26. CASE LeadsGo
  BY <1>26 DEF TypeOK, LeadsGo, Goto, Order, PauseWaits, bounds, Zeroing
<1>27. CASE LeadsWait
  BY <1>27 DEF TypeOK, LeadsWait, Goto, Still, Quiet, device, shared, bounds,
     PauseThen, Halt, PauseAndRaise, Raises, Zeroing
<1>28. CASE LeadsFast
  BY <1>28 DEF TypeOK, LeadsFast, Goto, Order, PauseWaits, bounds, Zeroing
<1>29. CASE Verify
  BY <1>29 DEF TypeOK, Verify, Goto, Quiet, device, shared, bounds, Observe,
     AtTarget
<1>30. CASE Done
  BY <1>30 DEF TypeOK, Done, Goto, Quiet, device, shared, bounds, Observe
<1>31. CASE Failed
  BY <1>31 DEF TypeOK, Failed, Goto, Still, Quiet, device, shared, bounds,
     PauseThen, Halt
<1>32. CASE Refresh
  BY <1>32 DEF TypeOK, Refresh, Goto, Quiet, device, shared, bounds, Observe
<1>33. CASE Glitch
  BY <1>33 DEF TypeOK, Glitch, Goto, Raises, Handling
<1>34. CASE Crash
  BY <1>34 DEF TypeOK, Crash, Goto, device
<1>35. CASE Moves
  BY <1>35 DEF TypeOK, Moves, Others, worker, shared, bounds
<1>36. CASE Halts
  BY <1>36 DEF TypeOK, Halts, Others, worker, shared, bounds
<1>37. CASE Stands
  BY <1>37 DEF TypeOK, Stands, Others, worker, shared, bounds
<1>38. CASE Switches
  BY <1>38 DEF TypeOK, Switches, Others, worker, shared, bounds
<1>39. CASE UNCHANGED vars
  BY <1>39 DEF TypeOK, vars, device, worker, shared, bounds
<1> QED
  BY <1>1, <1>2, <1>3, <1>4, <1>5, <1>6, <1>7, <1>8, <1>9, <1>10, <1>11, <1>12,
     <1>13, <1>14, <1>15, <1>16, <1>17, <1>18, <1>19, <1>20, <1>21, <1>22, <1>23,
     <1>24, <1>25, <1>26, <1>27, <1>28, <1>29, <1>30, <1>31, <1>32, <1>33, <1>34,
     <1>35, <1>36, <1>37, <1>38, <1>39 DEF Next, Worker

(* The invariant is inductive. *)
LEMMA IInvStep ==
  ASSUME IInv, [Next]_vars
  PROVE  IInv'
<1>1. TypeOK'
  BY TypeStep DEF IInv
<1> QED BY <1>1, ControlStep DEF IInv

(* It holds in every reachable state. *)
THEOREM Invariance == Spec => []IInv
BY InitHolds, IInvStep, PTL DEF Spec

-----------------------------------------------------------------------------

(* Every variable keeps its type, and the worker its places. *)
THEOREM TypeCorrect == Spec => []TypeOK
<1>1. IInv => TypeOK
  BY DEF IInv
<1> QED BY <1>1, Invariance, PTL

(* With the heater off the leads move only past a cold switch, and FAST only *)
(* then.                                                                     *)
THEOREM LeadsIsolated == Spec => []LeadsMoveIsolated
<1>1. IInv => LeadsMoveIsolated
  BY DEF IInv
<1> QED BY <1>1, Invariance, PTL

(* While a stop stands at most one more sweep is ordered. *)
THEOREM AtMostOneLateSweep == Spec => []OneLateSweep
<1>1. IInv => OneLateSweep
  BY DEF IInv, TypeOK, LateInv, OneLateSweep
<1> QED BY <1>1, Invariance, PTL

(* Only the steps before the two switchings of the heater matter: there the  *)
(* sweep is off, and the step itself compares the leads with the coil.       *)
LEMMA HeaterStep ==
  ASSUME IInv, [Next]_vars
  PROVE  heater' # heater => coil = out /\ sweep = "off"
<1>1. CASE Heat
  BY <1>1 DEF IInv, RestInv, Heat, Raises, Goto, Still, Quiet, device
<1>2. CASE Cut
  BY <1>2 DEF IInv, RestInv, Cut, Raises, Goto, Quiet, device, ZeroLeads,
     MoveLeads
<1>3. CASE ~Heat /\ ~Cut
  <2>1. heater' = heater
    BY <1>3 DEF Next, Worker, Request, Press, Begin, PauseSlot, ReconnectSlot,
       Opened, Confirm, Start, Decide, Enter, SlowPause, Heated, Warmed,
       SweepField, OrderField, FieldWait, ZeroWait, Settle, Persist, WasCut,
       Cooled, Leads, LeadsCool, LeadsGo, LeadsWait, LeadsFast, Verify, Done,
       Failed, Refresh, Glitch, Crash, Moves, Halts, Stands, Switches, Goto,
       Quiet, Still, Raises, Order, Halt, PauseThen, PauseAndRaise, MoveLeads,
       ZeroLeads, Others, vars, device, worker, shared, bounds
  <2> QED BY <2>1
<1> QED BY <1>1, <1>2, <1>3

(* The heater is switched only while the leads stand still and carry the     *)
(* current of the coil.                                                      *)
THEOREM HeaterAlwaysMatched == Spec => HeaterMatched
<1>1. IInv /\ [Next]_vars => [heater' # heater => coil = out /\ sweep = "off"]_vars
  BY HeaterStep
<1> QED BY <1>1, Invariance, PTL DEF Spec, HeaterMatched

(* A move ends by the comparison of Verify, or by one of the two short cuts  *)
(* of a field that is persistent already.                                    *)
Finished ==
  op.kind = "move" /\ pc # "done" /\ pc' = "done" =>
    /\ AtTarget /\ heater = (op.mode = "driven") /\ sweep = "off"
    /\ op.zl => out = 0

(* Every step that ends a move. *)
LEMMA FinishStep ==
  ASSUME IInv, [Next]_vars
  PROVE  Finished
<1> USE DEF IInv, Finished, LeadPlaces
<1>1. CASE Request
  BY <1>1 DEF Request, device, worker, TypeOK, PlacesOK, NotesInv, HeaterInv,
     OperationInv, RestInv, ZeroInv
<1>2. CASE Press
  BY <1>2 DEF Press, device, worker, TypeOK, PlacesOK, NotesInv, HeaterInv,
     OperationInv, RestInv, ZeroInv
<1>3. CASE Begin
  <2>1. op'.kind \in Kinds
    BY <1>3, QueuedTypes DEF Begin, TypeOK
  <2> QED BY <1>3, <2>1 DEF Begin, Goto, Kinds
<1>4. CASE PauseSlot
  BY <1>4 DEF PauseSlot, PauseThen, Goto, Halt, shared, bounds, TypeOK, PlacesOK,
     NotesInv, HeaterInv, OperationInv, RestInv, ZeroInv
<1>5. CASE ReconnectSlot
  BY <1>5 DEF ReconnectSlot, PauseThen, Goto, Halt, shared, bounds, TypeOK,
     PlacesOK, NotesInv, HeaterInv, OperationInv, RestInv, ZeroInv
<1>6. CASE Opened
  BY <1>6 DEF Opened, Goto, Quiet, device, shared, bounds, TypeOK, PlacesOK,
     NotesInv, HeaterInv, OperationInv, RestInv, ZeroInv
<1>7. CASE Confirm
  BY <1>7 DEF Confirm, Goto, Still, Quiet, device, shared, bounds, TypeOK,
     PlacesOK, NotesInv, HeaterInv, OperationInv, RestInv, ZeroInv
<1>8. CASE Start
  BY <1>8 DEF Start, Goto, Still, Quiet, device, shared, bounds, PauseThen, Halt,
     TypeOK, PlacesOK, NotesInv, HeaterInv, OperationInv, RestInv, ZeroInv
<1>9. CASE Decide
  BY <1>9 DEF Decide, Goto, Quiet, device, shared, bounds, Still, Raises,
     Observe, MoveLeads, AtTarget, TypeOK, PlacesOK, NotesInv, HeaterInv,
     OperationInv, RestInv, ZeroInv
<1>10. CASE Enter
  BY <1>10 DEF Enter, Goto, Quiet, device, shared, bounds, Observe, MoveLeads,
     Driven, TypeOK, PlacesOK, NotesInv, HeaterInv, OperationInv, RestInv, ZeroInv
<1>11. CASE SlowPause
  BY <1>11 DEF SlowPause, PauseThen, Goto, Halt, shared, bounds, TypeOK,
     PlacesOK, NotesInv, HeaterInv, OperationInv, RestInv, ZeroInv
<1>12. CASE Heat
  BY <1>12 DEF Heat, Goto, Still, Quiet, device, shared, bounds, Raises, TypeOK,
     PlacesOK, NotesInv, HeaterInv, OperationInv, RestInv, ZeroInv
<1>13. CASE Heated
  BY <1>13 DEF Heated, Goto, Quiet, device, shared, bounds, Observe, TypeOK,
     PlacesOK, NotesInv, HeaterInv, OperationInv, RestInv, ZeroInv
<1>14. CASE Warmed
  BY <1>14 DEF Warmed, Goto, Still, Quiet, device, shared, bounds, Driven,
     TypeOK, PlacesOK, NotesInv, HeaterInv, OperationInv, RestInv, ZeroInv
<1>15. CASE SweepField
  BY <1>15 DEF SweepField, Goto, Quiet, device, shared, bounds, Still, Raises,
     Observe, PauseThen, Halt, AtTarget, TypeOK, PlacesOK, NotesInv, HeaterInv,
     OperationInv, RestInv, ZeroInv
<1>16. CASE OrderField
  BY <1>16 DEF OrderField, Goto, Order, PauseWaits, bounds, TypeOK, PlacesOK,
     NotesInv, HeaterInv, OperationInv, RestInv, ZeroInv
<1>17. CASE FieldWait
  BY <1>17 DEF FieldWait, Still, Quiet, device, shared, bounds, Raises, Goto,
     PauseThen, Halt, PauseAndRaise, AtTarget, TypeOK, PlacesOK, NotesInv,
     HeaterInv, OperationInv, RestInv, ZeroInv
<1>18. CASE ZeroWait
  BY <1>18 DEF ZeroWait, Goto, Still, Quiet, device, shared, bounds, Raises,
     PauseAndRaise, Halt, TypeOK, PlacesOK, NotesInv, HeaterInv, OperationInv,
     RestInv, ZeroInv
<1>19. CASE Settle
  BY <1>19 DEF Settle, Goto, Still, Quiet, device, shared, bounds, Raises,
     AtTarget, TypeOK, PlacesOK, NotesInv, HeaterInv, OperationInv, RestInv,
     ZeroInv
<1>20. CASE Persist
  BY <1>20 DEF Persist, Goto, Still, Quiet, device, shared, bounds, PauseThen,
     Halt, TypeOK, PlacesOK, NotesInv, HeaterInv, OperationInv, RestInv, ZeroInv
<1>21. CASE Cut
  BY <1>21 DEF Cut, Goto, Quiet, device, shared, bounds, Raises, Observe,
     ZeroLeads, MoveLeads, Persistent, TypeOK, PlacesOK, NotesInv, HeaterInv,
     OperationInv, RestInv, ZeroInv
<1>22. CASE WasCut
  BY <1>22 DEF WasCut, Goto, Quiet, device, shared, bounds, Observe, TypeOK,
     PlacesOK, NotesInv, HeaterInv, OperationInv, RestInv, ZeroInv
<1>23. CASE Cooled
  BY <1>23 DEF Cooled, Quiet, device, shared, bounds, Raises, Goto, ZeroLeads,
     MoveLeads, Persistent, TypeOK, PlacesOK, NotesInv, HeaterInv, OperationInv,
     RestInv, ZeroInv
<1>24. CASE Leads
  BY <1>24 DEF Leads, Goto, Quiet, device, shared, bounds, Observe, TypeOK,
     PlacesOK, NotesInv, HeaterInv, OperationInv, RestInv, ZeroInv
<1>25. CASE LeadsCool
  BY <1>25 DEF LeadsCool, Goto, Quiet, device, shared, bounds, Observe, TypeOK,
     PlacesOK, NotesInv, HeaterInv, OperationInv, RestInv, ZeroInv
<1>26. CASE LeadsGo
  BY <1>26 DEF LeadsGo, Goto, Order, PauseWaits, bounds, Zeroing, TypeOK,
     PlacesOK, NotesInv, HeaterInv, OperationInv, RestInv, ZeroInv
<1>27. CASE LeadsWait
  <2>1. CASE op.kind = "move" /\ pc' = "done"
    <3>1. ~heater /\ out = lead /\ sweep = "off" /\ ret = "done"
      BY <1>27, <2>1 DEF LeadsWait, Goto, PauseThen, PauseAndRaise, Raises,
         Zeroing
    <3>2. coil = op.target /\ op.mode = "persistent" /\ lead = 0
      BY <1>27, <2>1, <3>1 DEF LeadsWait, ZeroInv
    <3>3. heater = FALSE /\ op.mode # "driven"
      BY <3>1, <3>2 DEF TypeOK
    <3>4. heater = (op.mode = "driven")
      BY <3>3
    <3> QED BY <3>1, <3>2, <3>4 DEF AtTarget
  <2> QED BY <2>1
<1>28. CASE LeadsFast
  BY <1>28 DEF LeadsFast, Goto, Order, PauseWaits, bounds, Zeroing, TypeOK,
     PlacesOK, NotesInv, HeaterInv, OperationInv, RestInv, ZeroInv
<1>29. CASE Verify
  BY <1>29 DEF Verify, Goto, Quiet, device, shared, bounds, Observe, AtTarget,
     TypeOK, PlacesOK, NotesInv, HeaterInv, OperationInv, RestInv, ZeroInv
<1>30. CASE Done
  BY <1>30 DEF Done, Goto, Quiet, device, shared, bounds, Observe, TypeOK,
     PlacesOK, NotesInv, HeaterInv, OperationInv, RestInv, ZeroInv
<1>31. CASE Failed
  BY <1>31 DEF Failed, Goto, Still, Quiet, device, shared, bounds, PauseThen,
     Halt, TypeOK, PlacesOK, NotesInv, HeaterInv, OperationInv, RestInv, ZeroInv
<1>32. CASE Refresh
  BY <1>32 DEF Refresh, Goto, Quiet, device, shared, bounds, Observe, TypeOK,
     PlacesOK, NotesInv, HeaterInv, OperationInv, RestInv, ZeroInv
<1>33. CASE Glitch
  BY <1>33 DEF Glitch, Goto, Raises, Handling, TypeOK, PlacesOK, NotesInv,
     HeaterInv, OperationInv, RestInv, ZeroInv
<1>34. CASE Crash
  BY <1>34 DEF Crash, Goto, device, TypeOK, PlacesOK, NotesInv, HeaterInv,
     OperationInv, RestInv, ZeroInv
<1>35. CASE Moves
  BY <1>35 DEF Moves, Others, worker, shared, bounds, TypeOK, PlacesOK, NotesInv,
     HeaterInv, OperationInv, RestInv, ZeroInv
<1>36. CASE Halts
  BY <1>36 DEF Halts, Others, worker, shared, bounds, TypeOK, PlacesOK, NotesInv,
     HeaterInv, OperationInv, RestInv, ZeroInv
<1>37. CASE Stands
  BY <1>37 DEF Stands, Others, worker, shared, bounds, TypeOK, PlacesOK,
     NotesInv, HeaterInv, OperationInv, RestInv, ZeroInv
<1>38. CASE Switches
  BY <1>38 DEF Switches, Others, worker, shared, bounds, TypeOK, PlacesOK,
     NotesInv, HeaterInv, OperationInv, RestInv, ZeroInv
<1>39. CASE UNCHANGED vars
  BY <1>39 DEF vars, device, worker
<1> QED
  BY <1>1, <1>2, <1>3, <1>4, <1>5, <1>6, <1>7, <1>8, <1>9, <1>10, <1>11, <1>12,
     <1>13, <1>14, <1>15, <1>16, <1>17, <1>18, <1>19, <1>20, <1>21, <1>22, <1>23,
     <1>24, <1>25, <1>26, <1>27, <1>28, <1>29, <1>30, <1>31, <1>32, <1>33, <1>34,
     <1>35, <1>36, <1>37, <1>38, <1>39 DEF Next, Worker

(* A move that is reported as finished left the field, the mode and the      *)
(* leads that were asked for, and the supply at rest.                        *)
THEOREM MovesFinishAsAsked == Spec => FinishedAsAsked
<1>1. IInv /\ [Next]_vars => [Finished]_vars
  BY FinishStep
<1> QED BY <1>1, Invariance, PTL DEF Spec, FinishedAsAsked, Finished
=============================================================================
