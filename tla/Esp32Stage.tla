---------------------------- MODULE Esp32Stage ----------------------------
(***************************************************************************)
(* The ESP32 imaging stage: an open-loop motor whose position is only a    *)
(* count.  The GUI thread posts commands and stops, the worker thread owns *)
(* the serial line (controllers/esp32_stage_controller.py), the firmware   *)
(* runs the motor (firmware/esp32_stage/src/main.cpp).  The line keeps the *)
(* order of what it carries and may lose or garble it.  Time is abstract:  *)
(* a period that has ended is an action that may happen.                   *)
(*                                                                         *)
(* A command carries the generation it was posted in and its number.  The  *)
(* number also stands for the step count a motion must end at; "home" is   *)
(* every motion back to zero (home, goto 0, a jog or a move of as much     *)
(* as the stage stands away), and zero is the count of a board that has    *)
(* just started.                                                           *)
(***************************************************************************)
EXTENDS Integers, Sequences

CONSTANTS
  Posts, Stops, Connects,  \* bounds on what the operator does
  Faults,    \* bound on lines lost in either direction and restarts of the board
  Cap,       \* lines under way in one direction
  Prompt     \* the periods of silence outlast the line's delay, and after
             \* connecting the worker deals with what came in the meantime

ASSUME BoundsAssumption ==
  {Posts, Stops, Connects, Faults} \subseteq Nat /\ Cap \in Nat \ {0}
ASSUME PromptAssumption == Prompt \in BOOLEAN

VARIABLES
  (* shared by the GUI and the worker *)
  on, box, gen, stopE, sent, awaiting, cool, fresh, polled, pend, state,
  (* GUI *)
  gpc, posts, calls,
  (* worker *)
  wpc, back, cmd, frame, connects,
  (* the line, to and from the firmware *)
  up, down, faults,
  (* firmware *)
  homed, moving, cooling, cur, homeGen, pos,
  finished   \* numbers of the motions that reached their end

shared == <<on, box, gen, stopE, sent, awaiting, cool, fresh, polled, pend, state>>
gui    == <<gpc, posts, calls>>
worker == <<wpc, back, cmd, frame, connects>>
line   == <<up, down, faults>>
fw     == <<homed, moving, cooling, cur, homeGen, pos, finished>>
vars   == <<shared, gui, worker, line, fw>>

Kinds    == {"zero", "jog", "move", "home", "scale"}
Motions  == {"jog", "move", "home"}
Nothing  == [kind |-> "none", gen |-> 0, n |-> 0, ack |-> FALSE]
Unknown  == [homed |-> FALSE, moving |-> FALSE, msg |-> "none", pos |-> 0, homeGen |-> 0]
StopByte == [Nothing EXCEPT !.kind = "!"]
Status   == [Nothing EXCEPT !.kind = "status"]

(* The count a motion must end at, and a count at which none ends.           *)
Target(c) == IF c.kind = "home" THEN 0 ELSE c.n
Elsewhere == Posts + 1

(* The stage is not connected, and the firmware in any state an earlier      *)
(* session left it in; or a session has set the zero and moved away from it. *)
Disconnected ==
  /\ on = FALSE /\ sent = FALSE /\ fresh = FALSE /\ polled = FALSE /\ state = Unknown
  /\ homed \in BOOLEAN /\ moving \in BOOLEAN /\ homeGen = -1 /\ pos = 0
  /\ connects = 0
InSession ==
  /\ on = TRUE /\ sent = TRUE /\ fresh = TRUE /\ polled = TRUE
  /\ homed = TRUE /\ moving = FALSE /\ homeGen = 0 /\ pos = Elsewhere
  /\ state = [homed |-> TRUE, moving |-> FALSE, msg |-> "ok", pos |-> 0, homeGen |-> 0]
  /\ Connects > 0 /\ connects = 1
Init ==
  /\ Disconnected \/ InSession
  /\ box = Nothing /\ gen = 0 /\ stopE = FALSE /\ awaiting = FALSE /\ cool = FALSE
  /\ pend = Nothing /\ gpc = "idle" /\ posts = 0 /\ calls = 0
  /\ wpc = "idle" /\ back = "idle" /\ cmd = Nothing /\ frame = Unknown
  /\ up = <<>> /\ down = <<>> /\ faults = 0
  /\ cooling = FALSE /\ cur = Nothing /\ finished = {}

-----------------------------------------------------------------------------
(* request_stop, in either thread: one step under the mailbox lock. *)
Stop ==
  /\ box' = Nothing /\ gen' = gen + 1 /\ stopE' = TRUE /\ sent' = FALSE
  /\ pend' = Nothing /\ state' = Unknown /\ fresh' = FALSE /\ cool' = TRUE
  /\ awaiting' = TRUE
  /\ UNCHANGED <<on, polled>>

(* _disconnect_internal; a "!" that cannot be written is given up, and what  *)
(* came is flushed when the port is opened again.                            *)
Close(sendStop) ==
  /\ on' = FALSE /\ pend' = Nothing /\ state' = Unknown /\ fresh' = FALSE
  /\ polled' = FALSE /\ box' = Nothing /\ gen' = gen + 1 /\ stopE' = FALSE
  /\ sent' = FALSE /\ down' = <<>>
  /\ \/ up' = up
     \/ sendStop /\ on /\ Len(up) < Cap /\ up' = Append(up, StopByte)
  /\ UNCHANGED <<awaiting, cool, faults>>

-----------------------------------------------------------------------------
(* The GUI thread. *)

(* _post looks at the worker's state without a lock, then fills the mailbox. *)
Post ==
  /\ gpc = "idle" /\ posts < Posts
  /\ ~stopE /\ on /\ pend = Nothing /\ ~state.moving /\ ~cool /\ fresh
  /\ gpc' = "put" /\ UNCHANGED <<shared, posts, calls, worker, line, fw>>
Put ==
  /\ gpc = "put" /\ gpc' = "idle"
  /\ IF box = Nothing
     THEN \E k \in Kinds : /\ box' = [kind |-> k, gen |-> gen, n |-> posts + 1, ack |-> FALSE]
                           /\ posts' = posts + 1
     ELSE UNCHANGED <<box, posts>>
  /\ UNCHANGED <<on, gen, stopE, sent, awaiting, cool, fresh, polled, pend,
                 state, calls, worker, line, fw>>
Press ==
  /\ gpc = "idle" /\ calls < Stops /\ Stop /\ calls' = calls + 1
  /\ UNCHANGED <<gpc, posts, worker, line, fw>>

-----------------------------------------------------------------------------
(* The worker thread. *)

(* What the worker holds while it is at a place is dropped when it goes on. *)
Goto(p) ==
  /\ wpc' = p /\ UNCHANGED connects
  /\ back' = IF p \in {"stop", "written"} THEN back ELSE "idle"
  /\ cmd' = IF p \in {"accept", "write", "note"} THEN cmd ELSE Nothing
  /\ frame' = IF p \in {"gate", "trust", "show"} THEN frame ELSE Unknown

(* connect_port: close what was open, then "!" before anything else. *)
Connect ==
  /\ wpc = "idle" /\ connects < Connects /\ connects' = connects + 1
  /\ Close(FALSE) /\ wpc' = "connect"
  /\ UNCHANGED <<gui, back, cmd, frame, fw>>
Connected ==
  /\ wpc = "connect" /\ Goto("idle")
  /\ IF Len(up) < Cap
     THEN /\ up' = Append(up, StopByte) /\ on' = TRUE /\ state' = Unknown /\ pend' = Nothing
          /\ fresh' = FALSE /\ polled' = FALSE /\ cool' = TRUE /\ sent' = TRUE
          /\ awaiting' = TRUE
          /\ UNCHANGED <<box, gen, stopE, down, faults>>
     ELSE Close(FALSE)
  /\ UNCHANGED <<gui, fw>>
Disconnect ==
  /\ wpc = "idle" /\ on /\ Close(TRUE) /\ Goto("idle") /\ UNCHANGED <<gui, fw>>

(* _tick begins every 50 ms; a wake-up that finds nothing to do is left out. *)
Tick ==
  /\ wpc = "idle" /\ on
  /\ IF stopE THEN wpc' = "stop" /\ back' = "recover" /\ UNCHANGED <<cmd, frame, connects>>
              ELSE Goto("read")
  /\ UNCHANGED <<shared, gui, line, fw>>
Wake ==
  /\ wpc = "idle" /\ on /\ (box # Nothing \/ (stopE /\ ~sent)) /\ Goto("service")
  /\ UNCHANGED <<shared, gui, line, fw>>

(* _transmit_stop: the byte is written under the lock, the rest is not. *)
WriteStop ==
  /\ wpc = "stop"
  /\ \/ sent /\ Goto(back) /\ UNCHANGED <<shared, line>>
     \/ /\ ~sent /\ Len(up) < Cap /\ up' = Append(up, StopByte) /\ Goto("written")
        /\ UNCHANGED <<shared, down, faults>>
     \/ ~sent /\ Close(FALSE) /\ Goto("idle")
  /\ UNCHANGED <<gui, fw>>
StopWritten ==
  /\ wpc = "written" /\ sent' = TRUE /\ cool' = TRUE /\ awaiting' = TRUE
  /\ Goto(back)
  /\ UNCHANGED <<on, box, gen, stopE, fresh, polled, pend, state, gui, line, fw>>

(* Mutant of Recover. *)
RecoverUnflushed ==
  /\ wpc = "recover" /\ Goto(IF cool THEN "idle" ELSE "clear")
  /\ UNCHANGED <<shared, gui, line, fw>>
(* The stop branch of _tick: after the silence flush, then forget the stop,  *)
(* in two steps and without the lock: a second stop may be forgotten.  The   *)
(* note that the flush is done (:480, :489) is only read before it is made.  *)
Recover ==
  /\ wpc = "recover"
  /\ IF cool THEN Goto("idle") /\ UNCHANGED down
     ELSE /\ Goto("clear")
          /\ \E k \in (IF Prompt THEN {Len(down)} ELSE 0..Len(down)) :
               down' = SubSeq(down, k + 1, Len(down))
  /\ UNCHANGED <<shared, gui, up, faults, fw>>
ClearEvent ==
  /\ wpc = "clear" /\ stopE' = FALSE /\ Goto("cleared")
  /\ UNCHANGED <<on, box, gen, sent, awaiting, cool, fresh, polled, pend, state,
                 gui, line, fw>>
ClearRest ==
  /\ wpc = "cleared" /\ fresh' = FALSE /\ polled' = FALSE /\ sent' = FALSE /\ Goto("idle")
  /\ UNCHANGED <<on, box, gen, stopE, awaiting, cool, pend, state, gui, line, fw>>

(* At most two frames are taken in a tick, and none that has not come yet. *)
Take ==
  /\ wpc = "read" /\ ~stopE /\ down # <<>>
  /\ down' = Tail(down) /\ frame' = Head(down) /\ wpc' = "gate"
  /\ UNCHANGED <<shared, gui, back, cmd, connects, up, faults, fw>>
NoFrame ==
  /\ wpc = "read" /\ Goto(IF stopE THEN "idle" ELSE "timers")
  /\ UNCHANGED <<shared, gui, line, fw>>
ReadFails ==
  /\ wpc = "read" /\ ~stopE /\ Close(TRUE) /\ Goto("idle") /\ UNCHANGED <<gui, fw>>

(* Mutant of Gate. *)
GateNoHandshake ==
  /\ wpc = "gate" /\ Goto(IF stopE \/ cool THEN "read" ELSE "trust")
  /\ UNCHANGED <<shared, gui, line, fw>>
(* _handle_state looks at the stop, the silence and the handshake first ... *)
Gate ==
  /\ wpc = "gate"
  /\ Goto(IF stopE \/ cool \/ (awaiting /\ (frame.homed \/ frame.moving))
          THEN "read" ELSE "trust")
  /\ UNCHANGED <<shared, gui, line, fw>>

(* ... then trusts the frame and ends the pending command, or fences a       *)
(* motion that ended at a count it should not have ended at ...              *)
IsMotion == pend.kind \in Motions
Ends     == IsMotion /\ (frame.msg = "done" \/ (pend.ack /\ ~frame.moving))
Settles  == \/ Ends
            \/ pend.kind \in {"zero", "scale"} /\ frame.msg = pend.kind
            \/ pend # Nothing /\ frame.msg \in {"busy", "rejected", "stopped"}
(* Mutant of Trust. *)
TrustAnyCount ==
  /\ wpc = "trust"
  /\ awaiting' = FALSE /\ fresh' = TRUE /\ Goto("show")
  /\ pend' = IF Settles THEN Nothing
             ELSE [pend EXCEPT !.ack = @ \/ (IsMotion /\ frame.moving)]
  /\ cool' = (cool \/ Ends)
  /\ UNCHANGED <<on, box, gen, stopE, sent, polled, state>>
  /\ UNCHANGED <<gui, line, fw>>
Trust ==
  /\ wpc = "trust"
  /\ IF Ends /\ frame.pos # Target(pend)
     THEN Stop /\ Goto("read")
     ELSE /\ awaiting' = FALSE /\ fresh' = TRUE /\ Goto("show")
          /\ pend' = IF Settles THEN Nothing
                     ELSE [pend EXCEPT !.ack = @ \/ (IsMotion /\ frame.moving)]
          /\ cool' = (cool \/ Ends)
          /\ UNCHANGED <<on, box, gen, stopE, sent, polled, state>>
  /\ UNCHANGED <<gui, line, fw>>
(* ... and keeps it; its message and its count are only shown. *)
Show ==
  /\ wpc = "show" /\ state' = [frame EXCEPT !.msg = "ok", !.pos = 0] /\ Goto("read")
  /\ UNCHANGED <<on, box, gen, stopE, sent, awaiting, cool, fresh, polled, pend,
                 gui, line, fw>>

(* Mutant of NoAck. *)
NoAckStale ==
  /\ wpc = "timers" /\ pend # Nothing /\ ~pend.ack /\ ~fresh /\ Stop /\ Goto("idle")
  /\ UNCHANGED <<gui, line, fw>>
(* The timers of _tick: 3 s without an acknowledgement, 1.5 s without a      *)
(* frame that counts, and the poll every 0.5 s; two polls are never under    *)
(* way at once.                                                              *)
NoAck ==
  /\ wpc = "timers" /\ pend # Nothing /\ ~pend.ack /\ Stop /\ Goto("idle")
  /\ UNCHANGED <<gui, line, fw>>
Stale ==
  /\ wpc = "timers" /\ (fresh \/ polled) /\ Close(TRUE) /\ Goto("idle")
  /\ UNCHANGED <<gui, fw>>
Poll ==
  /\ wpc = "timers"
  /\ \/ (up # <<>> \/ stopE \/ cool) /\ Goto("service") /\ UNCHANGED <<shared, line>>
     \/ /\ up = <<>> /\ ~stopE /\ ~cool /\ up' = <<Status>> /\ polled' = TRUE /\ Goto("service")
        /\ UNCHANGED <<on, box, gen, stopE, sent, awaiting, cool, fresh, pend,
                       state, down, faults>>
     \/ ~stopE /\ ~cool /\ Close(TRUE) /\ Goto("idle")
  /\ UNCHANGED <<gui, fw>>

(* _service_mailbox: take, check, write under the lock, and only then note   *)
(* what is pending.                                                          *)
Service ==
  /\ wpc = "service"
  /\ IF stopE THEN /\ wpc' = "stop" /\ back' = "idle" /\ UNCHANGED <<box, cmd>>
     ELSE /\ cmd' = box /\ box' = Nothing /\ UNCHANGED back
          /\ wpc' = IF box = Nothing THEN "idle" ELSE "accept"
  /\ UNCHANGED <<on, gen, stopE, sent, awaiting, cool, fresh, polled, pend, state,
                 gui, frame, connects, line, fw>>
CanAccept ==
  /\ fresh /\ pend = Nothing /\ ~cool /\ state # Unknown /\ ~state.moving
  /\ cmd.kind \in {"move", "home"} => state.homed
Accept ==
  /\ wpc = "accept"
  /\ Goto(IF cmd.gen = gen /\ ~stopE /\ CanAccept THEN "write" ELSE "idle")
  /\ UNCHANGED <<shared, gui, line, fw>>
(* Mutant of Write. *)
WriteUnfenced ==
  /\ wpc = "write"
  /\ \/ stopE /\ Goto("idle") /\ UNCHANGED <<shared, line>>
     \/ /\ ~stopE /\ Len(up) < Cap /\ up' = Append(up, cmd) /\ UNCHANGED <<down, faults>>
        /\ \/ Goto("note") /\ UNCHANGED shared
           \/ Goto("idle") /\ UNCHANGED shared
     \/ ~stopE /\ Goto("idle") /\ UNCHANGED <<shared, line>>
  /\ UNCHANGED <<gui, fw>>
(* A write may raise before or after the bytes are gone. *)
Write ==
  /\ wpc = "write"
  /\ \/ stopE /\ Goto("idle") /\ UNCHANGED <<shared, line>>
     \/ /\ ~stopE /\ Len(up) < Cap /\ up' = Append(up, cmd) /\ UNCHANGED <<down, faults>>
        /\ \/ Goto("note") /\ UNCHANGED shared
           \/ Goto("idle") /\ Stop
     \/ ~stopE /\ Stop /\ Goto("idle") /\ UNCHANGED line
  /\ UNCHANGED <<gui, fw>>
Note ==
  /\ wpc = "note" /\ pend' = cmd /\ Goto("idle")
  /\ UNCHANGED <<on, box, gen, stopE, sent, awaiting, cool, fresh, polled, state,
                 gui, line, fw>>

Worker ==
  \/ Connected \/ Tick \/ Wake \/ WriteStop \/ StopWritten \/ Recover \/ ClearEvent
  \/ ClearRest \/ Take \/ NoFrame \/ ReadFails \/ Gate \/ Trust \/ Show \/ NoAck \/ Stale \/ Poll
  \/ Service \/ Accept \/ Write \/ Note

(* A period of silence ends; Prompt says what it is long enough for. *)
CoolEnds ==
  /\ cool /\ cool' = FALSE
  /\ Prompt => up = <<>> /\ (stopE \/ (down = <<>> /\ wpc # "gate"))
  /\ UNCHANGED <<on, box, gen, stopE, sent, awaiting, fresh, polled, pend, state,
                 gui, worker, line, fw>>

-----------------------------------------------------------------------------
(* The firmware. *)

(* Every answer is a full status; one that finds no room is lost. *)
Say(msg) ==
  /\ down' = IF Len(down) < Cap
             THEN Append(down, [homed |-> homed', moving |-> moving', msg |-> msg,
                                pos |-> pos', homeGen |-> homeGen'])
             ELSE down

(* stopMotion: the count is no longer trusted, that of a motion is Elsewhere.*)
StopMotion(msg) ==
  /\ moving' = FALSE /\ homed' = FALSE /\ cooling' = TRUE /\ homeGen' = -1 /\ cur' = Nothing
  /\ UNCHANGED <<pos, finished>> /\ Say(msg)

Answer(msg) == UNCHANGED fw /\ Say(msg)
SetZero(c) ==
  /\ homed' = TRUE /\ homeGen' = c.gen /\ pos' = 0
  /\ UNCHANGED <<moving, cooling, cur, finished>> /\ Say("zero")
SetScale ==
  /\ homed' = FALSE /\ pos' = 0 /\ homeGen' = -1
  /\ UNCHANGED <<moving, cooling, cur, finished>> /\ Say("scale")
(* startMove: a jog without a reference counts from zero, which no jog ends  *)
(* at.                                                                       *)
StartMove(c) ==
  /\ UNCHANGED <<homed, cooling, homeGen>>
  /\ IF homed /\ pos = Target(c)
     THEN finished' = finished \cup {c.n} /\ UNCHANGED <<moving, cur, pos>> /\ Say("done")
     ELSE moving' = TRUE /\ cur' = c /\ pos' = Elsewhere /\ UNCHANGED finished /\ Say("moving")

(* execute(), for the line at the head of the input; travel limits and       *)
(* settings are left out.                                                    *)
Execute ==
  /\ up # <<>> /\ up' = Tail(up) /\ UNCHANGED faults
  /\ LET c == Head(up) IN
       CASE c.kind = "!" -> StopMotion("stopped")
         [] c.kind = "status" -> Answer("ok")
         [] c.kind \in Kinds /\ (moving \/ cooling) -> Answer("busy")
         [] c.kind = "zero" /\ ~moving /\ ~cooling -> SetZero(c)
         [] c.kind = "scale" /\ ~moving /\ ~cooling -> SetScale
         [] c.kind = "jog" /\ ~moving /\ ~cooling -> StartMove(c)
         [] c.kind \in {"move", "home"} /\ ~moving /\ ~cooling ->
              IF homed THEN StartMove(c) ELSE Answer("rejected")
  /\ UNCHANGED <<shared, gui, worker>>

Arrive ==
  /\ moving /\ moving' = FALSE /\ cooling' = TRUE /\ pos' = Target(cur)
  /\ finished' = finished \cup {cur.n} /\ cur' = Nothing
  /\ UNCHANGED <<homed, homeGen, shared, gui, worker, up, faults>> /\ Say("done")
Quiet ==
  /\ cooling /\ (Prompt => up = <<>>) /\ cooling' = FALSE
  /\ UNCHANGED <<homed, moving, cur, homeGen, pos, finished, shared, gui, worker, line>>
(* Two seconds without a line from the host: none is under way. *)
ContactLost ==
  /\ moving /\ up = <<>> /\ StopMotion("stopped")
  /\ UNCHANGED <<shared, gui, worker, up, faults>>

(* The board restarts: setup(). *)
Reset ==
  /\ faults < Faults /\ faults' = faults + 1
  /\ moving' = FALSE /\ homed' = FALSE /\ cooling' = FALSE /\ pos' = 0 /\ up' = <<>>
  /\ homeGen' = -1 /\ cur' = Nothing
  /\ UNCHANGED <<finished, shared, gui, worker>> /\ Say("ok")

-----------------------------------------------------------------------------
(* The line loses a line; a byte that is no text stops the motor, and what   *)
(* has come behind it is dropped.                                            *)
LoseUp ==
  /\ up # <<>> /\ faults < Faults /\ faults' = faults + 1
  /\ \/ up' = Tail(up) /\ UNCHANGED <<down, fw>>
     \/ /\ \E k \in 2..Len(up) + 1 : up' = SubSeq(up, k, Len(up))
        /\ StopMotion("malformed")
  /\ UNCHANGED <<shared, gui, worker>>
LoseDown ==
  /\ down # <<>> /\ faults < Faults /\ down' = Tail(down) /\ faults' = faults + 1
  /\ UNCHANGED <<shared, gui, worker, up, fw>>

Firmware == Execute \/ Arrive \/ Quiet \/ ContactLost \/ Reset
Next == Post \/ Put \/ Press \/ Connect \/ Disconnect \/ Worker \/ CoolEnds
        \/ Firmware \/ LoseUp \/ LoseDown

(* The worker's timer keeps ticking, the firmware reads its input, a frame   *)
(* under way comes in, and time passes: silences end, the watchdog of a motor *)
(* without a host runs out, and so do a command without an acknowledgement   *)
(* and a connection on which no frame is accepted.  A motion need not end.   *)
Fairness ==
  /\ WF_vars(Worker) /\ WF_vars(CoolEnds) /\ WF_vars(Execute) /\ WF_vars(ContactLost /\ ~on)
  /\ SF_vars(Take) /\ SF_vars(NoAck) /\ SF_vars(Stale /\ ~fresh)

Spec == Init /\ [][Next]_vars /\ Fairness
-----------------------------------------------------------------------------

TypeOK ==
  /\ {on, stopE, sent, awaiting, cool, fresh, polled, homed, moving, cooling}
       \subseteq BOOLEAN
  /\ {box.kind, pend.kind, cmd.kind, cur.kind} \subseteq Kinds \cup {"none"}
  /\ gpc \in {"idle", "put"} /\ back \in {"idle", "recover"}
  /\ Len(up) <= Cap /\ Len(down) <= Cap
  /\ posts <= Posts /\ calls <= Stops /\ connects <= Connects /\ faults <= Faults
  /\ finished \subseteq 0..Posts /\ homeGen \in -1..gen

(* The controller would take a command. *)
Ready == on /\ ~stopE /\ fresh /\ ~awaiting /\ ~cool /\ wpc \notin {"clear", "cleared", "show"}

(* A status that says the position is referenced is trusted only if the zero *)
(* it speaks of was set after the last stop (:428-433).                      *)
ZeroIsNew == Ready /\ state.homed => state.homeGen = gen

(* While the controller is ready, no command of before the last stop moves   *)
(* the stage or is under way to it, and while it knows of no pending command *)
(* no motion is: a write that failed, an acknowledgement that was lost or a  *)
(* stop byte that was lost never leave a motion behind its back (:264-269,   *)
(* :510-516).                                                                *)
NoMotionBehindTrust ==
  LET underWay == {up[i] : i \in DOMAIN up} \cup (IF moving THEN {cur} ELSE {}) IN
  Ready => /\ \A c \in underWay : c.kind \in Kinds => c.gen = gen
           /\ pend = Nothing /\ wpc # "note" => \A c \in underWay : c.kind \notin Motions
           /\ pend = Nothing /\ wpc # "note" => ~moving

(* A motion that the controller reports as complete was completed, and a     *)
(* motion to zero also if the status it goes by is shown as referenced: the  *)
(* count of a board that has restarted is zero too, and unreferenced         *)
(* (:438-444, main.cpp:141).                                                 *)
CompletionReal ==
  [][IsMotion /\ wpc = "trust" /\ wpc' = "show" /\ Ends =>
       \/ pend.n \in finished
       \/ pend.kind = "home" /\ ~frame.homed]_vars

(* After a stop the motor comes to rest, also when the stop byte, or the     *)
(* whole line, is lost.                                                      *)
StopStops == stopE ~> ~moving

(* A command that was written is acknowledged, settled or fenced. *)
Answered == pend # Nothing /\ ~pend.ack ~> pend = Nothing \/ pend.ack
=============================================================================
