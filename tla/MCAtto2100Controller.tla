----------------------- MODULE MCAtto2100Controller -----------------------
(***************************************************************************)
(* Instances of Atto2100Controller for TLC.  Most runs start where a       *)
(* connect (IDLE), a setpoint (ARMED) or a start (ACTIVE) has been applied,*)
(* so that their calls are spent on what follows; these states are         *)
(* reachable from Init, but for the numbers already used.                  *)
(***************************************************************************)
EXTENDS Atto2100Properties

InitConnected(s) ==
  /\ req = [r \in Req |-> Unused] /\ count = 0
  /\ ordinary = {} /\ stopSlot = NoReq /\ shutSlot = NoReq
  /\ cur = NoReq /\ opc = "idle"
  /\ ostate = s /\ ogen = 1 /\ adapter = TRUE /\ armed = (s # "IDLE")
  /\ mayBeActive = (s = "ACTIVE") /\ prevState = "DISCONNECTED" /\ deferred = NoReq
  /\ cstate = s /\ cgen = 1
  /\ stopH = NoReq /\ shutH = NoReq /\ prepH = NoReq
  /\ reserved = FALSE /\ committed = FALSE /\ recovery = FALSE
  /\ stopEvt = FALSE /\ tempEvt = FALSE /\ prepEvt = FALSE
  /\ slot = NoReq /\ past = {} /\ sig = <<>> /\ thread = "running"
  /\ field = (IF s = "ACTIVE" THEN "ours" ELSE "off")
  /\ mode \in {"persistent", "driven"} /\ session = 1

Connected == {"IDLE", "ARMED", "ACTIVE"}
Displayed == cache = [gen |-> 1, val |-> 1]
PairsSpec == /\ \E s \in Connected : InitConnected(s)
             /\ IF ostate = "ACTIVE" THEN Displayed ELSE cache = NoCache
             /\ [][Next]_vars
ArmedSpec == InitConnected("ARMED") /\ cache = NoCache /\ [][Next]_vars
ArmedFairSpec == ArmedSpec /\ Fairness

AllOps     == Commands
FieldOps   == {"SETPOINT", "START", "STOP", "CONFIG_T"}
LiveOps    == {"START", "READ", "STOP", "SHUTDOWN"}
=============================================================================
