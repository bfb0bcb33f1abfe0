--------------------------- MODULE FieldCustody ---------------------------
(***************************************************************************)
(* What the attoDRY2100 controller promises about the magnet, without its  *)
(* threads, requests and signals: who may energise the field, who must     *)
(* switch it off, and what is forbidden while the magnet changes mode.     *)
(* Atto2100Controller implements this specification (Atto2100Properties).  *)
(***************************************************************************)

VARIABLES
  field,      \* "off", "ours" (energised from here), "left" (handed over)
  connected,  \* an SDK transport is open
  locked,     \* mode recovery is required
  mode        \* of the magnet: "persistent", "changing", "driven"

vars == <<field, connected, locked, mode>>

Init ==
  /\ connected \in BOOLEAN /\ locked = FALSE
  /\ field \in {"off", "ours"} /\ (field = "ours" => connected)
  /\ mode \in {"persistent", "driven"}

Connect ==
  ~connected /\ connected' = TRUE /\ UNCHANGED <<field, locked, mode>>

(* Field control starts only in a known mode. *)
Start ==
  /\ connected /\ ~locked /\ mode = "driven"
  /\ field' = "ours" /\ UNCHANGED <<connected, locked, mode>>

Stop ==
  connected /\ ~locked /\ field' = "off" /\ UNCHANGED <<connected, locked, mode>>

(* The transport closes on a field that is not ours, never mid-recovery.     *)
Disconnect ==
  /\ connected /\ ~locked /\ field # "ours"
  /\ connected' = FALSE /\ UNCHANGED <<field, locked, mode>>

(* A completed run leaves its field on, in the same step as it disconnects.  *)
HandOver ==
  /\ connected /\ ~locked /\ field = "ours"
  /\ field' = "left" /\ connected' = FALSE /\ UNCHANGED <<locked, mode>>

(* The mode is changed under the recovery lock, taken before with no field on. *)
Lock ==
  /\ connected /\ ~locked /\ field # "ours"
  /\ locked' = TRUE /\ UNCHANGED <<field, connected, mode>>

ChangeMode ==
  /\ connected /\ locked
  /\ mode' = "changing" /\ UNCHANGED <<field, connected, locked>>

(* The magnet leaves the Driven mode by itself, or at its own panel. *)
Revert == mode = "driven" /\ mode' = "persistent" /\ UNCHANGED <<field, connected, locked>>

Settle == mode = "changing" /\ mode' = "driven" /\ UNCHANGED <<field, connected, locked>>

(* Only evidence of the Driven mode ends the recovery. *)
Recover ==
  /\ connected /\ locked /\ mode = "driven"
  /\ locked' = FALSE /\ UNCHANGED <<field, connected, mode>>

Next == Connect \/ Start \/ Stop \/ Disconnect \/ HandOver \/ Lock \/ ChangeMode
        \/ Settle \/ Revert \/ Recover

Spec == Init /\ [][Next]_vars
=============================================================================
