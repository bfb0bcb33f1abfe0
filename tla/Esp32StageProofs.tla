-------------------------- MODULE Esp32StageProofs --------------------------
(***************************************************************************)
(* Proofs about the ESP32 imaging stage, for all bounds.                   *)
(***************************************************************************)
EXTENDS Esp32Stage, SequenceTheorems, TLAPS

Final  == {"stopped", "busy", "zero", "scale", "rejected", "done"}
Msgs   == Final \cup {"none", "ok", "moving", "malformed"}
WorkerAt == {"idle", "connect", "stop", "written", "recover", "clear", "cleared",
           "read", "gate", "trust", "show", "timers", "service", "accept",
           "write", "note"}

Command == [kind : Kinds \cup {"none", "!", "status"}, gen : Nat, n : 0..Posts,
            ack : BOOLEAN]
Frame   == [homed : BOOLEAN, moving : BOOLEAN, msg : Msgs, pos : Nat,
            homeGen : Int]

Held == wpc \in {"gate", "trust"}

(* Every variable has its type, and no command is younger than the present   *)
(* generation.                                                               *)
Flags ==
  {on, stopE, sent, awaiting, cool, fresh, polled, homed, moving, cooling}
    \subseteq BOOLEAN
Counters ==
  /\ gpc \in {"idle", "put"} /\ back \in {"idle", "recover"} /\ wpc \in WorkerAt
  /\ {posts, calls, connects, faults} \subseteq Nat
  /\ posts <= Posts /\ calls <= Stops /\ connects <= Connects /\ faults <= Faults
  /\ gpc = "put" => posts < Posts
  /\ gen \in Nat /\ homeGen \in Int /\ pos \in Nat /\ finished \subseteq 0..Posts
Stored ==
  {box, pend, cmd, cur} \subseteq Command /\ {frame, state} \subseteq Frame
Carried ==
  up \in Seq(Command) /\ down \in Seq(Frame) /\ Len(up) <= Cap /\ Len(down) <= Cap
Young ==
  /\ box.gen <= gen /\ cmd.gen <= gen /\ pend.gen <= gen /\ homeGen \in -1..gen
Sent ==
  \A i \in 1..Len(up) : up[i].gen <= gen /\ up[i].kind # "none"
Kinded ==
  /\ {box.kind, pend.kind, cmd.kind, cur.kind} \subseteq Kinds \cup {"none"}
  /\ box = Nothing \/ box.kind \in Kinds
  /\ wpc \in {"accept", "write", "note"} => cmd.kind \in Kinds

(* A count a motion must end at, other than zero, is shown only when one has *)
(* ended there.                                                              *)
Counts == finished \cup {0, Elsewhere}
Counted ==
  /\ pos \in Counts /\ frame.pos \in Counts
  /\ \A i \in 1..Len(down) : down[i].pos \in Counts
  /\ box.kind \in Kinds => box.n # 0
  /\ cmd.kind \in Kinds => cmd.n # 0
  /\ pend.kind \in Kinds => pend.n # 0

(* Where the worker is says what it has seen of a stop; once a silence after *)
(* a stop has ended nothing of before is on its way to the firmware.         *)
Control ==
  /\ wpc \notin {"idle", "connect"} => on
  /\ wpc \in {"stop", "written", "recover", "clear"} => stopE
  /\ wpc \in {"recover", "clear", "cleared"} => awaiting
  /\ stopE /\ sent => awaiting
  /\ wpc = "trust" /\ stopE => ~sent
  /\ wpc = "trust" /\ ~stopE => ~cool /\ (awaiting => ~frame.homed /\ ~frame.moving)
  /\ stopE /\ ~cool => up = <<>> \/ wpc = "written"
  /\ wpc = "clear" => up = <<>>
  /\ on /\ ~stopE /\ ~awaiting => fresh
  /\ fresh /\ ~stopE /\ wpc # "cleared" => ~awaiting

(* What is written under a generation is of that generation, and is noted    *)
(* when nothing else is.                                                     *)
Owned ==
  /\ box = Nothing \/ box.gen = gen
  /\ ~box.ack /\ ~cmd.ack /\ (pend.kind = "none" => pend = Nothing)
  /\ wpc \in {"write", "note"} /\ ~stopE =>
       ~awaiting /\ ~cool /\ pend = Nothing /\ cmd.gen = gen
  /\ wpc = "note" /\ stopE => cmd.gen < gen
  /\ stopE \/ awaiting => pend = Nothing \/ pend.gen < gen

Settled(f) == ~f.homed /\ ~f.moving
Calm(f)    == ~f.moving /\ f.msg \notin Final

(* While the worker waits for the firmware to be seen at rest, nothing is on *)
(* its way that could move it, and a frame that shows it at rest is true.    *)
Blind == awaiting /\ (wpc = "clear" \/ (on /\ ~stopE /\ ~cool))
TruthfulLine ==
  \A i \in 1..Len(down) :
    Settled(down[i]) =>
      /\ ~homed /\ ~moving
      /\ \A j \in i+1..Len(down) : Settled(down[j]) /\ Calm(down[j])
TruthfulFrame ==
  Held /\ Settled(frame) =>
    /\ ~homed /\ ~moving
    /\ \A j \in 1..Len(down) : Settled(down[j]) /\ Calm(down[j])
Blinded ==
  Blind => /\ \A i \in 1..Len(up) : up[i] = Status
           /\ TruthfulLine /\ TruthfulFrame

(* While the worker trusts the firmware, every reference to a zero is to one *)
(* of the present generation.                                                *)
Trusting == on /\ ~stopE /\ ~awaiting
Zeroed ==
  Trusting =>
    /\ homed => homeGen = gen
    /\ \A i \in 1..Len(down) : down[i].homed => down[i].homeGen = gen
    /\ Held \/ wpc = "show" => (frame.homed => frame.homeGen = gen)
    /\ wpc # "show" => (state.homed => state.homeGen = gen)

(* And it follows the one command that may be under way: the command waits   *)
(* in the line, before any answer to it, or moves the stage, or is over.     *)
Task    == IF wpc = "note" THEN cmd ELSE pend
Current == Task.kind \in Kinds /\ Task.gen = gen

Waiting ==
  Trusting =>
    \A i \in 1..Len(up) :
       \/ up[i] = Status
       \/ /\ Current /\ up[i] = Task /\ ~Task.ack /\ ~moving
          /\ \A j \in 1..Len(up) : j # i => up[j] = Status
          /\ \A j \in 1..Len(down) : Calm(down[j])
          /\ Held => Calm(frame)
Moving ==
  Trusting /\ moving =>
    /\ Current /\ cur.gen = gen
    /\ \A i \in 1..Len(up) : up[i] = Status
    /\ \A i \in 1..Len(down) :
         /\ down[i].msg \notin Final
         /\ down[i].moving => \A j \in i+1..Len(down) : down[j].moving
         /\ Task.ack => down[i].moving
    /\ Held => /\ frame.msg \notin Final
               /\ Task.ack => frame.moving
               /\ frame.moving => \A j \in 1..Len(down) : down[j].moving
Over ==
  Trusting =>
    /\ ~moving =>
          /\ \A i \in 1..Len(down) :
                down[i].msg \in Final => \A j \in i+1..Len(down) : Calm(down[j])
          /\ Held /\ frame.msg \in Final => \A j \in 1..Len(down) : Calm(down[j])
    /\ ~Current /\ ~cool => /\ \A i \in 1..Len(down) : Calm(down[i])
                            /\ Held => Calm(frame)

(* A motion to zero that has not ended: the stage moves for it or not at all,*)
(* and once the board was seen to move, nothing shows it referenced and at   *)
(* rest.                                                                     *)
Returning == Current /\ Task.kind = "home" /\ Task.n \notin finished
Bare(f)   == f.homed /\ ~f.moving
AtRest   == homed /\ ~moving
Away(last, seen) ==
  /\ last.msg # "done"
  /\ seen => ~Bare(last)
Homing ==
  Trusting /\ Returning =>
    /\ moving => cur.n = Task.n
    /\ Task.ack => ~AtRest
    /\ \A i \in 1..Len(down) :
         /\ Away(down[i], Task.ack)
         /\ down[i].moving => ~AtRest /\ \A j \in i+1..Len(down) : ~Bare(down[j])
    /\ Held => /\ Away(frame, Task.ack)
               /\ frame.moving => ~AtRest /\ \A j \in 1..Len(down) : ~Bare(down[j])

(* A command that was overtaken by a stop is on record only if it was noted  *)
(* behind it, and has not been seen to move anything.                        *)
Overtaken ==
  /\ pend.gen < gen => ~pend.ack
  /\ wpc \in {"read", "gate", "trust", "show"} /\ stopE => pend = Nothing

Sound   == Flags /\ Counters /\ Stored /\ Carried /\ Young /\ Sent
           /\ Kinded /\ Counted
Trusted == Control /\ Owned /\ Blinded /\ Zeroed /\ Waiting /\ Moving /\ Over
           /\ Homing /\ Overtaken

-----------------------------------------------------------------------------
(* What the steps do to the line.                                          *)

LEMMA Tails ==
  ASSUME NEW S, NEW s \in Seq(S), s # <<>>
  PROVE  /\ Tail(s) \in Seq(S) /\ Len(s) \in Nat \ {0} /\ Len(Tail(s)) = Len(s) - 1
         /\ Head(s) = s[1] /\ Head(s) \in S
         /\ \A i \in 1..Len(s) - 1 : Tail(s)[i] = s[i + 1]
OBVIOUS

LEMMA Gens == \A c \in Command : c.gen \in Nat
BY DEF Command

LEMMA Unacked == \A c \in Command : ~c.ack => [c EXCEPT !.ack = FALSE] = c
BY DEF Command

LEMMA Longer ==
  ASSUME NEW S, NEW s \in Seq(S), NEW e \in S
  PROVE  /\ Append(s, e) \in Seq(S) /\ Len(Append(s, e)) = Len(s) + 1
         /\ Append(s, e)[Len(s) + 1] = e
         /\ \A i \in 1..Len(s) : Append(s, e)[i] = s[i]
OBVIOUS

(* The answer is the last frame of the line, or there was no room for it.    *)
Grown(msg) ==
  /\ Len(down') \in {Len(down), Len(down) + 1}
  /\ Len(down) <= Cap => Len(down') <= Cap
  /\ \A i \in 1..Len(down) : down'[i] = down[i]
  /\ \A i \in Len(down)+1..Len(down') :
       down'[i] = [homed |-> homed', moving |-> moving', msg |-> msg,
                   pos |-> pos', homeGen |-> homeGen']

LEMMA GrownBy ==
  ASSUME Carried, NEW msg, Grown(msg)
  PROVE  /\ Len(down) \in Nat /\ Len(down') \in {Len(down), Len(down) + 1}
         /\ \A i \in 1..Len(down) : down'[i] = down[i]
         /\ \A i \in Len(down)+1..Len(down') :
              down'[i] = [homed |-> homed', moving |-> moving', msg |-> msg,
                          pos |-> pos', homeGen |-> homeGen']
BY DEF Grown, Carried

LEMMA Saying ==
  ASSUME NEW msg \in Msgs, down \in Seq(Frame), Say(msg),
         homed' \in BOOLEAN, moving' \in BOOLEAN, pos' \in Nat, homeGen' \in Int
  PROVE  Grown(msg) /\ down' \in Seq(Frame)
<1> DEFINE f == [homed |-> homed', moving |-> moving', msg |-> msg,
                 pos |-> pos', homeGen |-> homeGen']
<1>1. f \in Frame
   BY DEF Frame
<1>2. CASE Len(down) < Cap
  <2>1. down' = Append(down, f)
     BY <1>2 DEF Say
  <2> HIDE DEF f
  <2>2. /\ down' \in Seq(Frame) /\ Len(down') = Len(down) + 1
        /\ \A i \in 1..Len(down) : down'[i] = down[i]
        /\ down'[Len(down) + 1] = f
     BY <1>1, <2>1
  <2> QED BY <1>2, <2>2, BoundsAssumption DEF Grown, f
<1>3. CASE ~(Len(down) < Cap)
  <2>1. down' = down
     BY <1>3 DEF Say
  <2> QED BY <2>1 DEF Grown
<1> QED BY <1>2, <1>3

LEMMA Lines ==
  /\ {Nothing, StopByte, Status} \subseteq Command /\ Unknown \in Frame
  /\ Nothing.kind = "none" /\ StopByte.kind = "!" /\ Status.kind = "status"
  /\ Nothing.gen = 0 /\ StopByte.gen = 0 /\ Status.gen = 0
  /\ ~Nothing.ack /\ Unknown.pos = 0
<1>1. Nothing \in Command
   BY BoundsAssumption DEF Nothing, Command
<1>2. /\ Nothing.kind = "none" /\ Nothing.gen = 0 /\ ~Nothing.ack
   BY DEF Nothing
<1>3. /\ StopByte \in Command /\ StopByte.kind = "!" /\ StopByte.gen = 0
      /\ Status \in Command /\ Status.kind = "status" /\ Status.gen = 0
   BY <1>1, <1>2 DEF Command, StopByte, Status
<1>4. Unknown \in Frame /\ Unknown.pos = 0
   BY DEF Unknown, Frame, Msgs
<1> QED BY <1>1, <1>2, <1>3, <1>4

(* One line more is under way to the firmware.                               *)
Sending(c) ==
  /\ Len(up) < Cap /\ Len(up') = Len(up) + 1 /\ up'[Len(up) + 1] = c
  /\ \A i \in 1..Len(up) : up'[i] = up[i]

LEMMA Writing ==
  ASSUME Flags, Stored, Carried
  PROVE  /\ Connect => up' = up /\ down' = <<>>
         /\ Connected \/ Disconnect \/ ReadFails \/ Stale \/ WriteStop =>
              up' = up \/ Sending(StopByte)
         /\ Poll => up' = up \/ Sending(StopByte) \/ (up = <<>> /\ Sending(Status))
         /\ Write => up' = up \/ Sending(cmd)
         /\ Connected \/ Disconnect \/ ReadFails \/ Stale \/ WriteStop \/ Poll \/ Write
              => /\ up' \in Seq(Command) /\ Len(up') <= Cap
                 /\ down' \in Seq(Frame) /\ Len(down') <= Cap
<1>1. up \in Seq(Command) /\ cmd \in Command /\ StopByte \in Command /\ Status \in Command
   BY Lines DEF Stored, Carried
<1>2. ASSUME NEW c \in Command, Len(up) < Cap, up' = Append(up, c)
      PROVE  Sending(c) /\ up' \in Seq(Command) /\ Len(up') <= Cap
   BY <1>1, <1>2, Longer, BoundsAssumption DEF Sending
<1>3. ASSUME up' = up PROVE up' \in Seq(Command) /\ Len(up') <= Cap
   BY <1>3 DEF Carried
<1>4. Connect => up' = up /\ down' = <<>>
   BY DEF Connect, Close
<1>5. ASSUME Connected \/ Disconnect \/ ReadFails \/ Stale \/ WriteStop
      PROVE  /\ up' = up \/ (Len(up) < Cap /\ up' = Append(up, StopByte))
             /\ down' = down \/ down' = <<>>
   BY <1>5 DEF Connected, Disconnect, ReadFails, Stale, WriteStop, Close, line, Flags
<1>6. ASSUME Poll
      PROVE  /\ \/ up' = up \/ (Len(up) < Cap /\ up' = Append(up, StopByte))
                \/ up = <<>> /\ up' = <<Status>>
             /\ down' = down \/ down' = <<>>
   BY <1>6 DEF Poll, Close, line, shared, Flags
<1>7. ASSUME up = <<>>, up' = <<Status>>
      PROVE  Sending(Status) /\ up' \in Seq(Command) /\ Len(up') <= Cap
  <2>1. up' \in Seq(Command) /\ Len(up') = 1 /\ Len(up) = 0 /\ up'[1] = Status
     BY <1>1, <1>7
  <2> QED BY <1>7, <2>1, BoundsAssumption DEF Sending
<1>8. ASSUME Write
      PROVE  /\ up' = up \/ (Len(up) < Cap /\ up' = Append(up, cmd))
             /\ down' = down
   BY <1>8 DEF Write, line, Flags
<1>9. ASSUME down' = down \/ down' = <<>> PROVE down' \in Seq(Frame) /\ Len(down') <= Cap
  <2>1. CASE down' = down
     BY <2>1 DEF Carried
  <2>2. CASE down' = <<>>
     BY <2>2, BoundsAssumption
  <2> QED BY <1>9, <2>1, <2>2
<1> QED BY <1>1, <1>2, <1>3, <1>4, <1>5, <1>6, <1>7, <1>8, <1>9

(* What is under way stays what it was, or is one more of its kind.          *)
LEMMA Added ==
  ASSUME Carried, Sent, gen \in Nat, gen' \in Nat, gen' >= gen
  PROVE  /\ up' = up => Sent'
         /\ \A c \in Command : c.gen <= gen /\ c.kind # "none" /\ Sending(c) => Sent'
<1>1. \A i \in 1..Len(up) : up[i] \in Command
   BY DEF Carried
<1>2. up' = up => Sent'
   BY <1>1, Gens DEF Sent
<1>3. ASSUME NEW c \in Command, c.gen <= gen, c.kind # "none", Sending(c)
      PROVE  Sent'
  <2> SUFFICES ASSUME NEW i \in 1..Len(up')
               PROVE  up'[i].gen <= gen' /\ up'[i].kind # "none"
     BY DEF Sent
  <2>1. CASE i \in 1..Len(up)
     BY <1>1, <1>3, <2>1, Gens DEF Sent, Sending
  <2>2. CASE i = Len(up) + 1
     BY <1>1, <1>3, <2>2, Gens DEF Sent, Sending
  <2> QED BY <1>3, <2>1, <2>2 DEF Sending, Carried
<1> QED BY <1>2, <1>3

(* The flush drops what came, all of it when it came in time.                *)
LEMMA Flushing ==
  ASSUME Carried, Recover
  PROVE  /\ up' = up /\ down' \in Seq(Frame) /\ Len(down') <= Len(down)
         /\ ~cool /\ Prompt => down' = <<>>
         /\ wpc' = "clear" => ~cool
         /\ wpc' \in {"idle", "clear"} /\ \A i \in 1..Len(down') : \E j \in 1..Len(down) : down'[i] = down[j]
<1>1. CASE cool
   BY <1>1 DEF Recover, Goto, Carried, line
<1>2. CASE ~cool
  <2> PICK k \in 0..Len(down) :
         /\ down' = SubSeq(down, k + 1, Len(down)) /\ (Prompt => k = Len(down))
     BY <1>2, SMTT(30) DEF Recover, Carried
  <2>1. /\ down' \in Seq(Frame) /\ Len(down') = Len(down) - k
        /\ \A i \in 1..Len(down') : down'[i] = down[i + k]
     BY DEF Carried
  <2>2. Prompt => down' = <<>>
     BY <2>1
  <2>3. up' = up /\ wpc' = "clear"
     BY <1>2 DEF Recover, Goto
  <2>4. \A i \in 1..Len(down') : i + k \in 1..Len(down)
     BY <2>1 DEF Carried
  <2> QED BY <1>2, <2>1, <2>2, <2>3, <2>4 DEF Carried
<1> QED BY <1>1, <1>2

(* What the firmware does with the line at the head of its input.            *)
Obeyed ==
  LET c == up[1] IN
  \/ /\ c.kind = "!" /\ Grown("stopped") /\ ~moving' /\ ~homed' /\ homeGen' = -1
     /\ cur' = Nothing /\ UNCHANGED <<pos, finished>>
  \/ c.kind = "status" /\ Grown("ok") /\ UNCHANGED fw
  \/ c.kind \in Kinds /\ (moving \/ cooling) /\ Grown("busy") /\ UNCHANGED fw
  \/ /\ c.kind = "zero" /\ ~moving /\ Grown("zero") /\ homed' /\ homeGen' = c.gen
     /\ pos' = 0 /\ UNCHANGED <<moving, cooling, cur, finished>>
  \/ /\ c.kind = "scale" /\ ~moving /\ Grown("scale") /\ ~homed' /\ homeGen' = -1
     /\ pos' = 0 /\ UNCHANGED <<moving, cooling, cur, finished>>
  \/ /\ c.kind \in Motions /\ ~moving /\ Grown("moving") /\ moving' /\ cur' = c
     /\ pos' = Elsewhere /\ UNCHANGED <<homed, cooling, homeGen, finished>>
  \/ /\ c.kind \in Motions /\ ~moving /\ homed /\ Grown("done")
     /\ finished' = finished \cup {c.n}
     /\ UNCHANGED <<homed, moving, cooling, cur, homeGen, pos>>
  \/ /\ c.kind \in {"move", "home"} /\ ~moving /\ ~homed /\ Grown("rejected") /\ UNCHANGED fw

LEMMA Executing ==
  ASSUME Flags, Counters, Stored, Carried, Sent, Execute
  PROVE  /\ Obeyed /\ up # <<>> /\ up' = Tail(up)
         /\ Len(up) \in Nat \ {0} /\ Len(up') = Len(up) - 1
         /\ up' \in Seq(Command) /\ down' \in Seq(Frame)
         /\ \A i \in 1..Len(up) - 1 : up'[i] = up[i + 1]
         /\ UNCHANGED <<faults, shared, gui, worker>>
         /\ homed' \in BOOLEAN /\ moving' \in BOOLEAN /\ cooling' \in BOOLEAN
<1> DEFINE c == Head(up)
<1>1. /\ up # <<>> /\ up' = Tail(up) /\ up \in Seq(Command) /\ down \in Seq(Frame)
      /\ UNCHANGED <<faults, shared, gui, worker>>
   BY DEF Execute, Carried
<1>2. /\ Len(up) \in Nat \ {0} /\ Len(up') = Len(up) - 1 /\ up' \in Seq(Command)
      /\ c = up[1] /\ c \in Command
      /\ \A i \in 1..Len(up) - 1 : up'[i] = up[i + 1]
   BY <1>1, Tails
<1>3. c.kind \in Kinds \cup {"!", "status"} /\ c.gen \in Nat
  <2>1. 1 \in 1..Len(up) /\ up[1] \in Command /\ up[1] = c
     BY <1>2
  <2>2. up[1].kind # "none"
     BY <2>1 DEF Sent
  <2> HIDE DEF c
  <2> QED BY <2>1, <2>2 DEF Command
<1>4. /\ {homed, moving, cooling} \subseteq BOOLEAN /\ pos \in Nat /\ homeGen \in Int
   BY DEF Flags, Counters, Stored, Carried
<1> USE DEF Execute, Obeyed, fw, Kinds, Motions, Msgs, Final
<1>5. CASE c.kind = "!"
  <2>1. StopMotion("stopped")
     BY <1>5
  <2>2. Say("stopped") /\ moving' = FALSE /\ homed' = FALSE /\ cooling' = TRUE
        /\ homeGen' = -1 /\ cur' = Nothing /\ UNCHANGED <<pos, finished>>
     BY <2>1 DEF StopMotion
  <2>3. homed' \in BOOLEAN /\ moving' \in BOOLEAN
     BY <2>2
  <2>4. pos' \in Nat /\ homeGen' \in Int
     BY <1>4, <2>2
  <2>5. Grown("stopped") /\ down' \in Seq(Frame)
     BY <1>1, <2>2, <2>3, <2>4, Saying
  <2> QED BY <1>1, <1>2, <1>5, <2>2, <2>5
<1>6. CASE c.kind = "status"
  <2>1. Answer("ok")
     BY <1>6
  <2>2. Say("ok") /\ UNCHANGED fw
     BY <2>1 DEF Answer
  <2>3. Grown("ok") /\ down' \in Seq(Frame)
     BY <1>1, <1>4, <2>2, Saying
  <2> QED BY <1>1, <1>2, <1>4, <1>6, <2>2, <2>3
<1>7. CASE c.kind \in Kinds /\ (moving \/ cooling)
  <2>1. Answer("busy")
     BY <1>7
  <2>2. Say("busy") /\ UNCHANGED fw
     BY <2>1 DEF Answer
  <2>3. Grown("busy") /\ down' \in Seq(Frame)
     BY <1>1, <1>4, <2>2, Saying
  <2> QED BY <1>1, <1>2, <1>4, <1>7, <2>2, <2>3
<1>8. CASE c.kind = "zero" /\ ~moving /\ ~cooling
  <2>1. SetZero(c)
     BY <1>8
  <2>2. /\ Say("zero") /\ homed' /\ homeGen' = c.gen /\ pos' = 0
        /\ UNCHANGED <<moving, cooling, cur, finished>>
     BY <2>1 DEF SetZero
  <2>3. homed' = TRUE
     BY <2>1 DEF SetZero
  <2>4. Grown("zero") /\ down' \in Seq(Frame)
     BY <1>1, <1>3, <1>4, <2>2, <2>3, Saying
  <2> QED BY <1>1, <1>2, <1>4, <1>8, <2>2, <2>3, <2>4
<1>9. CASE c.kind = "scale" /\ ~moving /\ ~cooling
  <2>1. SetScale
     BY <1>9
  <2>2. /\ Say("scale") /\ homed' = FALSE /\ homeGen' = -1 /\ pos' = 0
        /\ UNCHANGED <<moving, cooling, cur, finished>>
     BY <2>1 DEF SetScale
  <2>3. homed' \in BOOLEAN /\ moving' \in BOOLEAN
     BY <1>4, <2>2
  <2>4. pos' \in Nat /\ homeGen' \in Int
     BY <2>2
  <2>5. Grown("scale") /\ down' \in Seq(Frame)
     BY <1>1, <2>2, <2>3, <2>4, Saying
  <2> QED BY <1>1, <1>2, <1>4, <1>9, <2>2, <2>5
<1>10. CASE c.kind \in Motions /\ ~moving /\ ~cooling /\ (c.kind \in {"move", "home"} => homed)
  <2>1. StartMove(c)
     BY <1>10
  <2>2. CASE homed /\ pos = Target(c)
    <3>1. /\ Say("done") /\ finished' = finished \cup {c.n}
          /\ UNCHANGED <<homed, moving, cooling, cur, homeGen, pos>>
       BY <2>1, <2>2 DEF StartMove
    <3>2. Grown("done") /\ down' \in Seq(Frame)
       BY <1>1, <1>4, <3>1, Saying
    <3> QED BY <1>1, <1>2, <1>4, <1>10, <2>2, <3>1, <3>2
  <2>3. CASE ~(homed /\ pos = Target(c))
    <3>1. /\ Say("moving") /\ moving' = TRUE /\ cur' = c /\ pos' = Elsewhere
          /\ UNCHANGED <<homed, cooling, homeGen, finished>>
       BY <2>1, <2>3 DEF StartMove
    <3>2. pos' \in Nat
       BY <3>1, BoundsAssumption DEF Elsewhere
    <3>3. Grown("moving") /\ down' \in Seq(Frame)
       BY <1>1, <1>4, <3>1, <3>2, Saying
    <3> QED BY <1>1, <1>2, <1>4, <1>10, <3>1, <3>3
  <2> QED BY <2>2, <2>3
<1>11. CASE c.kind \in {"move", "home"} /\ ~moving /\ ~cooling /\ ~homed
  <2>1. Answer("rejected")
     BY <1>11
  <2>2. Say("rejected") /\ UNCHANGED fw
     BY <2>1 DEF Answer
  <2>3. Grown("rejected") /\ down' \in Seq(Frame)
     BY <1>1, <1>4, <2>2, Saying
  <2> QED BY <1>1, <1>2, <1>4, <1>11, <2>2, <2>3
<1> QED BY <1>3, <1>4, <1>5, <1>6, <1>7, <1>8, <1>9, <1>10, <1>11

LEMMA Executed ==
  ASSUME Flags, Counters, Stored, Carried, Sent, Execute
  PROVE  /\ up[1] \in Command /\ up[1].gen \in Nat /\ up[1].gen <= gen
         /\ homeGen' = homeGen \/ homeGen' = -1 \/ homeGen' = up[1].gen
         /\ pos' = pos \/ pos' \in {0, Elsewhere}
         /\ finished' = finished \/ finished' = finished \cup {up[1].n}
         /\ up[1].n \in 0..Posts
         /\ cur' = cur \/ cur' = Nothing \/ cur' = up[1]
<1>1. 1 \in 1..Len(up)
   BY Executing DEF Carried
<1>2. up[1] \in Command /\ up[1].gen \in Nat /\ up[1].gen <= gen
   BY <1>1, Gens DEF Carried, Sent
<1>4. up[1].n \in 0..Posts
   BY <1>2 DEF Command
<1>3. /\ homeGen' = homeGen \/ homeGen' = -1 \/ homeGen' = up[1].gen
      /\ pos' = pos \/ pos' \in {0, Elsewhere}
      /\ finished' = finished \/ finished' = finished \cup {up[1].n}
      /\ cur' = cur \/ cur' = Nothing \/ cur' = up[1]
   BY Executing DEF Obeyed, fw
<1> QED BY <1>2, <1>3, <1>4

LEMMA StatusAnswered ==
  ASSUME Flags, Counters, Stored, Carried, Sent, Execute, up[1] = Status
  PROVE  Grown("ok") /\ UNCHANGED fw
<1>1. up[1].kind = "status"
   BY Lines
<1> QED BY <1>1, Executing DEF Obeyed, Kinds, Motions

(* The firmware's own steps, and what the line may lose.                     *)
LEMMA Acting ==
  ASSUME Flags, Counters, Stored, Carried
  PROVE  /\ Arrive => Grown("done") /\ down' \in Seq(Frame)
         /\ ContactLost => Grown("stopped") /\ down' \in Seq(Frame)
         /\ Reset => Grown("ok") /\ down' \in Seq(Frame)
<1>1. /\ down \in Seq(Frame) /\ homed \in BOOLEAN /\ pos \in Nat /\ homeGen \in Int
      /\ cur.n \in Nat
   BY BoundsAssumption DEF Flags, Counters, Stored, Carried, Command
<1>2. ASSUME Arrive PROVE Grown("done") /\ down' \in Seq(Frame)
  <2>1. Say("done") /\ moving' \in BOOLEAN /\ homed' \in BOOLEAN
     BY <1>1, <1>2 DEF Arrive
  <2>2. pos' \in Nat /\ homeGen' \in Int
     BY <1>1, <1>2 DEF Arrive, Target
  <2> QED BY <1>1, <2>1, <2>2, Saying DEF Msgs, Final
<1>3. ASSUME ContactLost PROVE Grown("stopped") /\ down' \in Seq(Frame)
  <2>1. Say("stopped") /\ moving' \in BOOLEAN /\ homed' \in BOOLEAN
     BY <1>1, <1>3 DEF ContactLost, StopMotion
  <2>2. pos' \in Nat /\ homeGen' \in Int
     BY <1>1, <1>3 DEF ContactLost, StopMotion
  <2> QED BY <1>1, <2>1, <2>2, Saying DEF Msgs, Final
<1>4. ASSUME Reset PROVE Grown("ok") /\ down' \in Seq(Frame)
  <2>1. Say("ok") /\ moving' \in BOOLEAN /\ homed' \in BOOLEAN
     BY <1>1, <1>4 DEF Reset
  <2>2. pos' \in Nat /\ homeGen' \in Int
     BY <1>1, <1>4 DEF Reset
  <2> QED BY <1>1, <2>1, <2>2, Saying DEF Msgs, Final
<1> QED BY <1>2, <1>3, <1>4

(* A loss towards the firmware leaves a part of what was under way.          *)
LEMMA Losing ==
  ASSUME Flags, Counters, Stored, Carried, LoseUp
  PROVE  /\ up' \in Seq(Command) /\ Len(up') < Len(up) /\ down' \in Seq(Frame)
         /\ \E k \in 1..Len(up) : /\ Len(up') = Len(up) - k
                                  /\ \A i \in 1..Len(up) - k : up'[i] = up[i + k]
         /\ \/ UNCHANGED <<down, fw>>
            \/ /\ Grown("malformed") /\ ~moving' /\ ~homed' /\ homeGen' = -1
               /\ cooling' /\ cur' = Nothing /\ UNCHANGED <<pos, finished>>
         /\ homed' \in BOOLEAN /\ moving' \in BOOLEAN /\ cooling' \in BOOLEAN
<1>1. /\ up \in Seq(Command) /\ up # <<>> /\ down \in Seq(Frame) /\ pos \in Nat
      /\ homed \in BOOLEAN /\ moving \in BOOLEAN /\ cooling \in BOOLEAN
   BY DEF Flags, Counters, Stored, Carried, LoseUp
<1>2. CASE up' = Tail(up) /\ UNCHANGED <<down, fw>>
  <2>1. /\ up' \in Seq(Command) /\ Len(up) \in Nat \ {0} /\ Len(up') = Len(up) - 1
        /\ \A i \in 1..Len(up) - 1 : up'[i] = up[i + 1]
     BY <1>1, <1>2, Tails
  <2> QED BY <1>1, <1>2, <2>1 DEF fw
<1>3. CASE /\ \E k \in 2..Len(up) + 1 : up' = SubSeq(up, k, Len(up))
           /\ StopMotion("malformed")
  <2> PICK k \in 2..Len(up) + 1 : up' = SubSeq(up, k, Len(up))
     BY <1>3
  <2>1. /\ Say("malformed") /\ moving' = FALSE /\ homed' = FALSE /\ cooling' = TRUE
        /\ homeGen' = -1 /\ cur' = Nothing /\ UNCHANGED <<pos, finished>>
     BY <1>3 DEF StopMotion
  <2>2. homed' \in BOOLEAN /\ moving' \in BOOLEAN /\ cooling' \in BOOLEAN
     BY <2>1
  <2>3. pos' \in Nat /\ homeGen' \in Int
     BY <1>1, <2>1
  <2>4. Grown("malformed") /\ down' \in Seq(Frame)
     BY <1>1, <2>1, <2>2, <2>3, Saying DEF Msgs
  <2>5. /\ Len(up) \in Nat \ {0} /\ up' \in Seq(Command) /\ Len(up') = Len(up) + 1 - k
        /\ \A i \in 1..Len(up) + 1 - k : up'[i] = up[k + i - 1]
     BY <1>1
  <2>6. /\ k - 1 \in 1..Len(up) /\ Len(up') = Len(up) - (k - 1)
        /\ \A i \in 1..Len(up) - (k - 1) : up'[i] = up[i + (k - 1)]
     BY <2>5
  <2>7. Len(up') < Len(up)
     BY <2>5
  <2>8. \E j \in 1..Len(up) : /\ Len(up') = Len(up) - j
                              /\ \A i \in 1..Len(up) - j : up'[i] = up[i + j]
     BY <2>6
  <2> QED BY <2>1, <2>2, <2>4, <2>5, <2>7, <2>8
<1> QED BY <1>2, <1>3 DEF LoseUp

-----------------------------------------------------------------------------
(* Every part of the invariant is kept by every step.                        *)

(* The flags stay flags.                                                    *)
LEMMA FlagsStep ==
  ASSUME Flags, Counters, Stored, Carried, Young, Sent, Kinded, Next
  PROVE  Flags'
<1> USE DEF Flags, shared, gui, worker, line, fw
<1>1. CASE Post \/ Put \/ Press
    BY <1>1 DEF Post, Put, Press, Stop
<1>2. CASE Connect \/ Connected \/ Disconnect
    BY <1>2 DEF Connect, Close, Connected, Goto, Disconnect
<1>3. CASE Tick \/ Wake \/ NoFrame \/ Show \/ Accept
    BY <1>3 DEF Tick, Goto, Wake, NoFrame, Show, Accept, CanAccept
<1>4. CASE WriteStop \/ StopWritten
    BY <1>4 DEF WriteStop, Goto, Close, StopWritten
<1>5. CASE Recover \/ ClearEvent \/ ClearRest
    BY <1>5 DEF Recover, Goto, ClearEvent, ClearRest
<1>6. CASE Take \/ Gate
    BY <1>6, Tails DEF Take, Gate, Goto
<1>7. CASE Trust
    BY <1>7 DEF Trust, Stop, Goto, Settles, Ends, IsMotion
<1>8. CASE ReadFails \/ Stale \/ NoAck
    BY <1>8 DEF ReadFails, Close, Goto, Stale, NoAck, Stop
<1>9. CASE Poll \/ Service
    BY <1>9 DEF Poll, Close, Goto, Service
<1>10. CASE Write \/ Note
    BY <1>10 DEF Write, Goto, Stop, Note
<1>11. CASE CoolEnds
    BY <1>11 DEF CoolEnds
<1>12. CASE Execute
    BY <1>12, Executing DEF StopMotion, Answer, SetZero, SetScale, StartMove
<1>13. CASE Arrive \/ Quiet \/ ContactLost \/ Reset
    BY <1>13, Acting DEF Arrive, Quiet, ContactLost, StopMotion, Reset
<1>14. CASE LoseUp \/ LoseDown
    BY <1>14, Losing, Tails DEF LoseUp, StopMotion, LoseDown
<1> QED BY <1>1, <1>2, <1>3, <1>4, <1>5, <1>6, <1>7, <1>8, <1>9, <1>10,
      <1>11, <1>12, <1>13, <1>14 DEF Next, Worker, Firmware

(* The counters stay within their bounds.                                   *)
LEMMA CountersStep ==
  ASSUME Flags, Counters, Stored, Carried, Young, Sent, Kinded, Next
  PROVE  Counters'
<1> USE DEF Counters, WorkerAt, shared, gui, worker, line, fw
<1>1. CASE Post \/ Put \/ Press
  <2>1. CASE Post
    BY <2>1, BoundsAssumption DEF Post
  <2>2. CASE Put
    BY <2>2, BoundsAssumption DEF Put
  <2>3. CASE Press
    BY <2>3, BoundsAssumption DEF Press, Stop
  <2> QED BY <1>1, <2>1, <2>2, <2>3
<1>2. CASE Connect \/ Connected \/ Disconnect
  <2>1. CASE Connect
    BY <2>1, BoundsAssumption DEF Connect, Close
  <2>2. CASE Connected
    BY <2>2, BoundsAssumption, SMTT(30) DEF Connected, Close, Goto
  <2>3. CASE Disconnect
    BY <2>3, BoundsAssumption DEF Disconnect, Close, Goto
  <2> QED BY <1>2, <2>1, <2>2, <2>3
<1>3. CASE Tick \/ Wake \/ NoFrame \/ Show \/ Accept
    BY <1>3, BoundsAssumption DEF Tick, Goto, Wake, NoFrame, Show, Accept,
       CanAccept
<1>4. CASE WriteStop \/ StopWritten
  <2>1. CASE WriteStop
    BY <2>1, BoundsAssumption DEF WriteStop, Goto, Close
  <2>2. CASE StopWritten
    BY <2>2, BoundsAssumption DEF StopWritten, Goto
  <2> QED BY <1>4, <2>1, <2>2
<1>5. CASE Recover \/ ClearEvent \/ ClearRest
    BY <1>5, BoundsAssumption DEF Recover, Goto, ClearEvent, ClearRest
<1>6. CASE Take \/ Gate
    BY <1>6, Tails, BoundsAssumption DEF Take, Gate, Goto
<1>7. CASE Trust
    BY <1>7, BoundsAssumption DEF Trust, Stop, Goto, Settles, Ends, IsMotion
<1>8. CASE ReadFails \/ Stale \/ NoAck
  <2>1. CASE ReadFails
    BY <2>1, BoundsAssumption DEF ReadFails, Close, Goto
  <2>2. CASE Stale
    BY <2>2, BoundsAssumption DEF Stale, Close, Goto
  <2>3. CASE NoAck
    BY <2>3, BoundsAssumption DEF NoAck, Stop, Goto
  <2> QED BY <1>8, <2>1, <2>2, <2>3
<1>9. CASE Poll \/ Service
  <2>1. CASE Poll
    BY <2>1, BoundsAssumption DEF Poll, Close, Goto
  <2>2. CASE Service
    BY <2>2, BoundsAssumption DEF Service
  <2> QED BY <1>9, <2>1, <2>2
<1>10. CASE Write \/ Note
  <2>1. CASE Write
    BY <2>1, BoundsAssumption, SMTT(30) DEF Write, Goto, Stop
  <2>2. CASE Note
    BY <2>2, BoundsAssumption DEF Note, Goto
  <2> QED BY <1>10, <2>1, <2>2
<1>11. CASE CoolEnds
    BY <1>11, BoundsAssumption DEF CoolEnds
<1>12. CASE Execute
    <2>1. homeGen' \in Int
       BY <1>12, Executed
    <2>3. finished' \subseteq 0..Posts
      <3>1. /\ up[1].n \in 0..Posts
            /\ finished' = finished \/ finished' = finished \cup {up[1].n}
         BY <1>12, Executed
      <3> QED BY <3>1
    <2>2. pos' \in Nat
       BY <1>12, Executed, BoundsAssumption DEF Elsewhere
    <2> QED BY <1>12, <2>1, <2>2, <2>3, Executing
<1>13. CASE Arrive \/ Quiet \/ ContactLost \/ Reset
  <2>1. CASE Arrive
      <3>1. cur.n \in 0..Posts
         BY DEF Stored, Command
      <3>2. finished' \subseteq 0..Posts
         BY <2>1, <3>1 DEF Arrive
      <3>3. pos' \in Nat
         BY <2>1, <3>1, BoundsAssumption DEF Arrive, Target
      <3> QED BY <2>1, <3>2, <3>3 DEF Arrive
  <2>2. CASE Quiet
    BY <2>2, BoundsAssumption DEF Quiet
  <2>3. CASE ContactLost
    BY <2>3, Acting, BoundsAssumption DEF ContactLost, StopMotion
  <2>4. CASE Reset
    BY <2>4, Acting, BoundsAssumption DEF Reset
  <2> QED BY <1>13, <2>1, <2>2, <2>3, <2>4
<1>14. CASE LoseUp \/ LoseDown
  <2>1. CASE LoseUp
      <3>1. /\ homeGen' \in Int /\ pos' = pos /\ finished' = finished
         BY <2>1, Losing
      <3>2. faults' \in Nat /\ faults' <= Faults
         BY <2>1, BoundsAssumption DEF LoseUp
      <3> QED BY <2>1, <3>1, <3>2 DEF LoseUp
  <2>2. CASE LoseDown
    BY <2>2, Tails, BoundsAssumption DEF LoseDown
  <2> QED BY <1>14, <2>1, <2>2
<1> QED BY <1>1, <1>2, <1>3, <1>4, <1>5, <1>6, <1>7, <1>8, <1>9, <1>10,
      <1>11, <1>12, <1>13, <1>14 DEF Next, Worker, Firmware

(* So do the types of what is stored ...                                    *)
LEMMA StoredStep ==
  ASSUME Flags, Counters, Stored, Carried, Young, Sent, Kinded, Next
  PROVE  Stored'
<1> USE DEF Stored, Flags, shared, gui, worker, line, fw
<1>1. CASE Post \/ Put \/ Press
  <2>1. CASE Post
    BY <2>1 DEF Post
  <2>2. CASE Put
      <3>1. CASE box = Nothing
        <4> PICK k \in Kinds :
               box' = [kind |-> k, gen |-> gen, n |-> posts + 1, ack |-> FALSE]
           BY <2>2, <3>1 DEF Put
        <4>1. box' \in Command
           BY <2>2, BoundsAssumption DEF Put, Command, Counters
        <4> QED BY <2>2, <4>1 DEF Put
      <3>2. CASE box # Nothing
         BY <2>2, <3>2 DEF Put
      <3> QED BY <3>1, <3>2
  <2>3. CASE Press
    BY <2>3, Lines DEF Press, Stop
  <2> QED BY <1>1, <2>1, <2>2, <2>3
<1>2. CASE Connect \/ Connected \/ Disconnect
    BY <1>2, Lines DEF Connect, Close, Connected, Goto, Disconnect
<1>3. CASE Tick \/ Wake \/ NoFrame \/ Show \/ Accept
  <2>1. CASE Tick \/ Wake \/ NoFrame \/ Accept
    BY <2>1, Lines DEF Tick, Goto, Wake, NoFrame, Accept, CanAccept
  <2>2. CASE Show
      <3>1. state' = [frame EXCEPT !.msg = "ok", !.pos = 0] /\ frame \in Frame
         BY <2>2 DEF Show, Stored
      <3>2. /\ state' \in Frame /\ state'.homed = frame.homed
            /\ state'.homeGen = frame.homeGen
         BY <3>1 DEF Frame, Msgs
      <3> QED BY <2>2, <3>2, Lines DEF Show, Goto
  <2> QED BY <1>3, <2>1, <2>2
<1>4. CASE WriteStop \/ StopWritten
    BY <1>4, Lines DEF WriteStop, Goto, Close, StopWritten
<1>5. CASE Recover \/ ClearEvent \/ ClearRest
    BY <1>5, Lines DEF Recover, Goto, ClearEvent, ClearRest
<1>6. CASE Take \/ Gate
  <2>1. CASE Take
      <3>1. frame' \in Frame
         BY <2>1, Tails DEF Take, Carried
      <3> QED BY <2>1, <3>1 DEF Take
  <2>2. CASE Gate
    BY <2>2, Lines DEF Gate, Goto
  <2> QED BY <1>6, <2>1, <2>2
<1>7. CASE Trust
    <2>1. \A x \in BOOLEAN : [pend EXCEPT !.ack = x] \in Command
       BY DEF Command
    <2>2. pend' \in {pend, Nothing} \/ \E x \in BOOLEAN : pend' = [pend EXCEPT !.ack = x]
      <3>1. (pend.ack \/ (IsMotion /\ frame.moving)) \in BOOLEAN
         BY DEF Command, Frame
      <3>2. \/ pend' \in {pend, Nothing}
            \/ pend' = [pend EXCEPT !.ack = @ \/ (IsMotion /\ frame.moving)]
         BY <1>7 DEF Trust, Stop
      <3> QED BY <3>1, <3>2
    <2>3. pend' \in Command
       BY <2>1, <2>2, Lines
    <2>4. box' \in Command /\ state' \in Frame
       BY <1>7, Lines DEF Trust, Stop
    <2>5. cmd' \in Command /\ frame' \in Frame /\ cur' = cur
       BY <1>7, Lines DEF Trust, Goto
    <2> QED BY <2>3, <2>4, <2>5
<1>8. CASE ReadFails \/ Stale \/ NoAck
    BY <1>8, Lines DEF ReadFails, Close, Goto, Stale, NoAck, Stop
<1>9. CASE Poll \/ Service
    BY <1>9, Lines DEF Poll, Close, Goto, Service
<1>10. CASE Write \/ Note
    BY <1>10, Lines DEF Write, Goto, Stop, Note
<1>11. CASE CoolEnds
    BY <1>11 DEF CoolEnds
<1>12. CASE Execute
    <2> QED BY <1>12, Executed, Executing, Lines
<1>13. CASE Arrive \/ Quiet \/ ContactLost \/ Reset
    BY <1>13, Acting, Lines DEF Arrive, Quiet, ContactLost, StopMotion, Reset
<1>14. CASE LoseUp \/ LoseDown
    BY <1>14, Losing, Lines, Tails DEF LoseUp, StopMotion, LoseDown
<1> QED BY <1>1, <1>2, <1>3, <1>4, <1>5, <1>6, <1>7, <1>8, <1>9, <1>10,
      <1>11, <1>12, <1>13, <1>14 DEF Next, Worker, Firmware

(* ... and of what is under way.                                            *)
LEMMA CarriedStep ==
  ASSUME Flags, Counters, Stored, Carried, Young, Sent, Kinded, Next
  PROVE  Carried'
<1> USE DEF Carried, Flags, shared, gui, worker, line, fw
<1>1. CASE Post \/ Put \/ Press
    BY <1>1, BoundsAssumption DEF Post, Put, Press, Stop
<1>2. CASE Connect \/ Connected \/ Disconnect
  <2>1. CASE Connect
    BY <2>1, BoundsAssumption DEF Connect, Close
  <2>2. CASE Connected
    BY <2>2, Writing
  <2>3. CASE Disconnect
    BY <2>3, Writing
  <2> QED BY <1>2, <2>1, <2>2, <2>3
<1>3. CASE Tick \/ Wake \/ NoFrame \/ Show \/ Accept
    BY <1>3, BoundsAssumption DEF Tick, Goto, Wake, NoFrame, Show, Accept,
       CanAccept
<1>4. CASE WriteStop \/ StopWritten
  <2>1. CASE WriteStop
    BY <2>1, Writing
  <2>2. CASE StopWritten
    BY <2>2, BoundsAssumption DEF StopWritten, Goto
  <2> QED BY <1>4, <2>1, <2>2
<1>5. CASE Recover \/ ClearEvent \/ ClearRest
  <2>1. CASE Recover
      <3>1. up' = up /\ down' \in Seq(Frame) /\ Len(down') <= Len(down)
         BY <2>1, Flushing
      <3> QED BY <3>1, BoundsAssumption
  <2>2. CASE ClearEvent
    BY <2>2, BoundsAssumption DEF ClearEvent, Goto
  <2>3. CASE ClearRest
    BY <2>3, BoundsAssumption DEF ClearRest, Goto
  <2> QED BY <1>5, <2>1, <2>2, <2>3
<1>6. CASE Take \/ Gate
  <2>1. CASE Take
      <3>1. down # <<>> /\ down' = Tail(down) /\ up' = up
         BY <2>1 DEF Take
      <3>2. down' \in Seq(Frame) /\ Len(down') = Len(down) - 1
         BY <3>1, Tails
      <3> QED BY <3>1, <3>2, BoundsAssumption
  <2>2. CASE Gate
    BY <2>2, BoundsAssumption DEF Gate, Goto
  <2> QED BY <1>6, <2>1, <2>2
<1>7. CASE Trust
    BY <1>7, BoundsAssumption DEF Trust, Stop, Goto, Settles, Ends, IsMotion
<1>8. CASE ReadFails \/ Stale \/ NoAck
  <2>1. CASE ReadFails
    BY <2>1, Writing
  <2>2. CASE Stale
    BY <2>2, Writing
  <2>3. CASE NoAck
    BY <2>3, BoundsAssumption DEF NoAck, Stop, Goto
  <2> QED BY <1>8, <2>1, <2>2, <2>3
<1>9. CASE Poll \/ Service
  <2>1. CASE Poll
    BY <2>1, Writing
  <2>2. CASE Service
    BY <2>2, BoundsAssumption DEF Service
  <2> QED BY <1>9, <2>1, <2>2
<1>10. CASE Write \/ Note
  <2>1. CASE Write
    BY <2>1, Writing
  <2>2. CASE Note
    BY <2>2, BoundsAssumption DEF Note, Goto
  <2> QED BY <1>10, <2>1, <2>2
<1>11. CASE CoolEnds
    BY <1>11, BoundsAssumption DEF CoolEnds
<1>12. CASE Execute
    <2>1. /\ up' \in Seq(Command) /\ down' \in Seq(Frame)
          /\ Len(up) \in Nat \ {0} /\ Len(up') = Len(up) - 1
       BY <1>12, Executing
    <2>2. Len(down') <= Cap
       BY <1>12, Executing DEF Obeyed, Grown
    <2> QED BY <2>1, <2>2, BoundsAssumption
<1>13. CASE Arrive \/ Quiet \/ ContactLost \/ Reset
  <2>1. CASE Arrive
    BY <2>1, Acting DEF Arrive, Grown
  <2>2. CASE Quiet
    BY <2>2, BoundsAssumption DEF Quiet
  <2>3. CASE ContactLost
    BY <2>3, Acting DEF ContactLost, Grown
  <2>4. CASE Reset
      <3>1. Len(down') <= Cap /\ down' \in Seq(Frame)
         BY <2>4, Acting DEF Grown
      <3>2. up' = <<>>
         BY <2>4 DEF Reset
      <3> QED BY <3>1, <3>2, BoundsAssumption
  <2> QED BY <1>13, <2>1, <2>2, <2>3, <2>4
<1>14. CASE LoseUp \/ LoseDown
  <2>1. CASE LoseUp
      <3>1. up' \in Seq(Command) /\ down' \in Seq(Frame) /\ Len(up') < Len(up)
         BY <2>1, Losing
      <3>2. Len(down') <= Cap
         BY <2>1, Losing DEF Grown
      <3> QED BY <3>1, <3>2, BoundsAssumption
  <2>2. CASE LoseDown
      <3>1. down # <<>> /\ down' = Tail(down) /\ up' = up
         BY <2>2 DEF LoseDown
      <3>2. down' \in Seq(Frame) /\ Len(down') = Len(down) - 1
         BY <3>1, Tails
      <3> QED BY <3>1, <3>2, BoundsAssumption
  <2> QED BY <1>14, <2>1, <2>2
<1> QED BY <1>1, <1>2, <1>3, <1>4, <1>5, <1>6, <1>7, <1>8, <1>9, <1>10,
      <1>11, <1>12, <1>13, <1>14 DEF Next, Worker, Firmware

(* Nothing is younger than the present generation, nor than its zero.       *)
LEMMA YoungStep ==
  ASSUME Flags, Counters, Stored, Carried, Young, Sent, Kinded, Next
  PROVE  Young'
<1> USE DEF Young, Stored, Command, Counters, Flags, shared, gui, worker, line,
   fw
<1>1. CASE Post \/ Put \/ Press
    BY <1>1, Lines DEF Post, Put, Press, Stop
<1>2. CASE Connect \/ Connected \/ Disconnect
  <2>1. CASE Connect
      <3>1. gen' = gen + 1
         BY <2>1 DEF Connect, Close
      <3>2. /\ box' = Nothing /\ pend' = Nothing /\ UNCHANGED <<cmd, homeGen>>
         BY <2>1 DEF Connect, Close
      <3> QED BY <3>1, <3>2, Lines
  <2>2. CASE Connected
      <3>1. gen' = gen \/ gen' = gen + 1
         BY <2>2 DEF Connected, Goto, Close
      <3>2. /\ box' = box \/ box' = Nothing
            /\ cmd' = cmd \/ cmd' = Nothing
            /\ pend' = pend \/ pend' = Nothing
            /\ homeGen' = homeGen
         BY <2>2 DEF Connected, Goto, Close
      <3> QED BY <3>1, <3>2, Lines
  <2>3. CASE Disconnect
    BY <2>3, Lines DEF Disconnect, Close, Goto
  <2> QED BY <1>2, <2>1, <2>2, <2>3
<1>3. CASE Tick \/ Wake \/ NoFrame \/ Show \/ Accept
    BY <1>3, Lines DEF Tick, Goto, Wake, NoFrame, Show, Accept, CanAccept
<1>4. CASE WriteStop \/ StopWritten
  <2>1. CASE WriteStop
      <3>1. gen' = gen \/ gen' = gen + 1
         BY <2>1 DEF WriteStop, Goto, Close
      <3>2. /\ box' = box \/ box' = Nothing
            /\ cmd' = cmd \/ cmd' = Nothing
            /\ pend' = pend \/ pend' = Nothing
            /\ homeGen' = homeGen
         BY <2>1 DEF WriteStop, Goto, Close
      <3> QED BY <3>1, <3>2, Lines
  <2>2. CASE StopWritten
    BY <2>2, Lines DEF StopWritten, Goto
  <2> QED BY <1>4, <2>1, <2>2
<1>5. CASE Recover \/ ClearEvent \/ ClearRest
  <2>1. CASE Recover
    BY <2>1, Lines, SMTT(30) DEF Recover, Goto
  <2>2. CASE ClearEvent
    BY <2>2, Lines DEF ClearEvent, Goto
  <2>3. CASE ClearRest
    BY <2>3, Lines DEF ClearRest, Goto
  <2> QED BY <1>5, <2>1, <2>2, <2>3
<1>6. CASE Take \/ Gate
  <2>1. CASE Take
    BY <2>1, Tails DEF Take
  <2>2. CASE Gate
    BY <2>2, Lines DEF Gate, Goto
  <2> QED BY <1>6, <2>1, <2>2
<1>7. CASE Trust
    BY <1>7, Lines DEF Trust, Stop, Goto, Settles, Ends, IsMotion
<1>8. CASE ReadFails \/ Stale \/ NoAck
  <2>1. CASE ReadFails
    BY <2>1, Lines DEF ReadFails, Close, Goto
  <2>2. CASE Stale
    BY <2>2, Lines DEF Stale, Close, Goto
  <2>3. CASE NoAck
    BY <2>3, Lines DEF NoAck, Stop, Goto
  <2> QED BY <1>8, <2>1, <2>2, <2>3
<1>9. CASE Poll \/ Service
  <2>1. CASE Poll
      <3>1. gen' = gen \/ gen' = gen + 1
         BY <2>1 DEF Poll, Goto, Close
      <3>2. /\ box' = box \/ box' = Nothing
            /\ cmd' = cmd \/ cmd' = Nothing
            /\ pend' = pend \/ pend' = Nothing
            /\ homeGen' = homeGen
         BY <2>1 DEF Poll, Goto, Close
      <3> QED BY <3>1, <3>2, Lines
  <2>2. CASE Service
    BY <2>2, Lines DEF Service
  <2> QED BY <1>9, <2>1, <2>2
<1>10. CASE Write \/ Note
  <2>1. CASE Write
      <3>1. gen' = gen \/ gen' = gen + 1
         BY <2>1 DEF Write, Goto, Stop
      <3>2. /\ box' = box \/ box' = Nothing
            /\ cmd' = cmd \/ cmd' = Nothing
            /\ pend' = pend \/ pend' = Nothing
            /\ homeGen' = homeGen
         BY <2>1 DEF Write, Goto, Stop
      <3> QED BY <3>1, <3>2, Lines
  <2>2. CASE Note
    BY <2>2, Lines DEF Note, Goto
  <2> QED BY <1>10, <2>1, <2>2
<1>11. CASE CoolEnds
    BY <1>11 DEF CoolEnds
<1>12. CASE Execute
    <2>1. homeGen' \in -1..gen
       BY <1>12, Executed
    <2> QED BY <1>12, <2>1, Executing
<1>13. CASE Arrive \/ Quiet \/ ContactLost \/ Reset
  <2>1. CASE Arrive
    BY <2>1, Acting, Lines DEF Arrive
  <2>2. CASE Quiet
    BY <2>2 DEF Quiet
  <2>3. CASE ContactLost
    BY <2>3, Acting, Lines DEF ContactLost, StopMotion
  <2>4. CASE Reset
    BY <2>4, Acting, Lines DEF Reset
  <2> QED BY <1>13, <2>1, <2>2, <2>3, <2>4
<1>14. CASE LoseUp \/ LoseDown
  <2>1. CASE LoseUp
      <3>1. /\ UNCHANGED <<box, cmd, pend, gen>>
            /\ homeGen' = homeGen \/ homeGen' = -1
         BY <2>1, Losing DEF LoseUp
      <3> QED BY <3>1
  <2>2. CASE LoseDown
    BY <2>2, Tails DEF LoseDown
  <2> QED BY <1>14, <2>1, <2>2
<1> QED BY <1>1, <1>2, <1>3, <1>4, <1>5, <1>6, <1>7, <1>8, <1>9, <1>10,
      <1>11, <1>12, <1>13, <1>14 DEF Next, Worker, Firmware

(* And nothing under way is.                                                *)
LEMMA SentStep ==
  ASSUME Flags, Counters, Stored, Carried, Young, Sent, Kinded, Next
  PROVE  Sent'
<1> USE DEF shared, gui, worker, line, fw
<1>1. CASE Post \/ Put \/ Press
  <2>1. CASE Post
      <3>1. gen \in Nat /\ gen' \in Nat /\ gen' >= gen /\ up' = up
         BY <2>1 DEF Post, Counters
      <3> QED BY <3>1, Added
  <2>2. CASE Put
      <3>1. gen \in Nat /\ gen' \in Nat /\ gen' >= gen /\ up' = up
         BY <2>2 DEF Put, Counters
      <3> QED BY <3>1, Added
  <2>3. CASE Press
      <3>1. gen \in Nat /\ gen' \in Nat /\ gen' >= gen /\ up' = up
         BY <2>3 DEF Press, Stop, Counters
      <3> QED BY <3>1, Added
  <2> QED BY <1>1, <2>1, <2>2, <2>3
<1>2. CASE Connect \/ Connected \/ Disconnect
  <2>1. CASE Connect
      <3>1. gen' = gen \/ gen' = gen + 1
         BY <2>1 DEF Connect, Close
      <3>2. up' = up \/ Sending(StopByte)
         BY <2>1, Writing
      <3>3. gen \in Nat /\ gen' \in Nat /\ gen' >= gen
         BY <3>1 DEF Counters
      <3> QED BY <3>2, <3>3, Added, Lines
  <2>2. CASE Connected
      <3>1. gen' = gen \/ gen' = gen + 1
         BY <2>2 DEF Connected, Close
      <3>2. up' = up \/ Sending(StopByte)
         BY <2>2, Writing
      <3>3. gen \in Nat /\ gen' \in Nat /\ gen' >= gen
         BY <3>1 DEF Counters
      <3> QED BY <3>2, <3>3, Added, Lines
  <2>3. CASE Disconnect
      <3>1. gen' = gen \/ gen' = gen + 1
         BY <2>3 DEF Disconnect, Close
      <3>2. up' = up \/ Sending(StopByte)
         BY <2>3, Writing
      <3>3. gen \in Nat /\ gen' \in Nat /\ gen' >= gen
         BY <3>1 DEF Counters
      <3> QED BY <3>2, <3>3, Added, Lines
  <2> QED BY <1>2, <2>1, <2>2, <2>3
<1>3. CASE Tick \/ Wake \/ NoFrame \/ Show \/ Accept
  <2>1. CASE Tick
      <3>1. gen \in Nat /\ gen' \in Nat /\ gen' >= gen /\ up' = up
         BY <2>1 DEF Tick, Goto, Counters
      <3> QED BY <3>1, Added
  <2>2. CASE Wake
      <3>1. gen \in Nat /\ gen' \in Nat /\ gen' >= gen /\ up' = up
         BY <2>2 DEF Wake, Goto, Counters
      <3> QED BY <3>1, Added
  <2>3. CASE NoFrame
      <3>1. gen \in Nat /\ gen' \in Nat /\ gen' >= gen /\ up' = up
         BY <2>3 DEF NoFrame, Goto, Counters
      <3> QED BY <3>1, Added
  <2>4. CASE Show
      <3>1. gen \in Nat /\ gen' \in Nat /\ gen' >= gen /\ up' = up
         BY <2>4 DEF Show, Goto, Counters
      <3> QED BY <3>1, Added
  <2>5. CASE Accept
      <3>1. gen \in Nat /\ gen' \in Nat /\ gen' >= gen /\ up' = up
         BY <2>5 DEF Accept, Goto, CanAccept, Counters
      <3> QED BY <3>1, Added
  <2> QED BY <1>3, <2>1, <2>2, <2>3, <2>4, <2>5
<1>4. CASE WriteStop \/ StopWritten
  <2>1. CASE WriteStop
      <3>1. gen' = gen \/ gen' = gen + 1
         BY <2>1 DEF WriteStop, Close
      <3>2. up' = up \/ Sending(StopByte)
         BY <2>1, Writing
      <3>3. gen \in Nat /\ gen' \in Nat /\ gen' >= gen
         BY <3>1 DEF Counters
      <3> QED BY <3>2, <3>3, Added, Lines
  <2>2. CASE StopWritten
      <3>1. gen \in Nat /\ gen' \in Nat /\ gen' >= gen /\ up' = up
         BY <2>2 DEF StopWritten, Goto, Counters
      <3> QED BY <3>1, Added
  <2> QED BY <1>4, <2>1, <2>2
<1>5. CASE Recover \/ ClearEvent \/ ClearRest
  <2>1. CASE Recover
      <3>1. gen \in Nat /\ gen' \in Nat /\ gen' >= gen /\ up' = up
         BY <2>1 DEF Recover, Goto, Counters
      <3> QED BY <3>1, Added
  <2>2. CASE ClearEvent
      <3>1. gen \in Nat /\ gen' \in Nat /\ gen' >= gen /\ up' = up
         BY <2>2 DEF ClearEvent, Goto, Counters
      <3> QED BY <3>1, Added
  <2>3. CASE ClearRest
      <3>1. gen \in Nat /\ gen' \in Nat /\ gen' >= gen /\ up' = up
         BY <2>3 DEF ClearRest, Goto, Counters
      <3> QED BY <3>1, Added
  <2> QED BY <1>5, <2>1, <2>2, <2>3
<1>6. CASE Take \/ Gate
  <2>1. CASE Take
      <3>1. gen \in Nat /\ gen' \in Nat /\ gen' >= gen /\ up' = up
         BY <2>1 DEF Take, Counters
      <3> QED BY <3>1, Added
  <2>2. CASE Gate
      <3>1. gen \in Nat /\ gen' \in Nat /\ gen' >= gen /\ up' = up
         BY <2>2 DEF Gate, Goto, Counters
      <3> QED BY <3>1, Added
  <2> QED BY <1>6, <2>1, <2>2
<1>7. CASE Trust
    <2>1. gen \in Nat /\ gen' \in Nat /\ gen' >= gen /\ up' = up
       BY <1>7 DEF Trust, Stop, Goto, Settles, Ends, IsMotion, Counters
    <2> QED BY <2>1, Added
<1>8. CASE ReadFails \/ Stale \/ NoAck
  <2>1. CASE ReadFails
      <3>1. gen' = gen \/ gen' = gen + 1
         BY <2>1 DEF ReadFails, Close
      <3>2. up' = up \/ Sending(StopByte)
         BY <2>1, Writing
      <3>3. gen \in Nat /\ gen' \in Nat /\ gen' >= gen
         BY <3>1 DEF Counters
      <3> QED BY <3>2, <3>3, Added, Lines
  <2>2. CASE Stale
      <3>1. gen' = gen \/ gen' = gen + 1
         BY <2>2 DEF Stale, Close
      <3>2. up' = up \/ Sending(StopByte)
         BY <2>2, Writing
      <3>3. gen \in Nat /\ gen' \in Nat /\ gen' >= gen
         BY <3>1 DEF Counters
      <3> QED BY <3>2, <3>3, Added, Lines
  <2>3. CASE NoAck
      <3>1. gen \in Nat /\ gen' \in Nat /\ gen' >= gen /\ up' = up
         BY <2>3 DEF NoAck, Stop, Goto, Counters
      <3> QED BY <3>1, Added
  <2> QED BY <1>8, <2>1, <2>2, <2>3
<1>9. CASE Poll \/ Service
  <2>1. CASE Poll
      <3>1. gen' = gen \/ gen' = gen + 1
         BY <2>1 DEF Poll, Close
      <3>2. up' = up \/ Sending(StopByte) \/ Sending(Status)
         BY <2>1, Writing
      <3>3. gen \in Nat /\ gen' \in Nat /\ gen' >= gen
         BY <3>1 DEF Counters
      <3> QED BY <3>2, <3>3, Added, Lines
  <2>2. CASE Service
      <3>1. gen \in Nat /\ gen' \in Nat /\ gen' >= gen /\ up' = up
         BY <2>2 DEF Service, Counters
      <3> QED BY <3>1, Added
  <2> QED BY <1>9, <2>1, <2>2
<1>10. CASE Write \/ Note
  <2>1. CASE Write
      <3>1. gen' = gen \/ gen' = gen + 1
         BY <2>1 DEF Write, Stop
      <3>2. up' = up \/ Sending(cmd)
         BY <2>1, Writing
      <3>3. gen \in Nat /\ gen' \in Nat /\ gen' >= gen
         BY <3>1 DEF Counters
      <3>4. cmd \in Command /\ cmd.gen <= gen /\ cmd.kind \in Kinds
         BY <2>1 DEF Stored, Young, Kinded, Write
      <3>5. cmd.kind # "none"
         BY <3>4 DEF Kinds
      <3> QED BY <3>2, <3>3, <3>4, <3>5, Added
  <2>2. CASE Note
      <3>1. gen \in Nat /\ gen' \in Nat /\ gen' >= gen /\ up' = up
         BY <2>2 DEF Note, Goto, Counters
      <3> QED BY <3>1, Added
  <2> QED BY <1>10, <2>1, <2>2
<1>11. CASE CoolEnds
    <2>1. gen \in Nat /\ gen' \in Nat /\ gen' >= gen /\ up' = up
       BY <1>11 DEF CoolEnds, Counters
    <2> QED BY <2>1, Added
<1>12. CASE Execute
    <2>1. /\ gen' = gen /\ Len(up') = Len(up) - 1 /\ Len(up) \in Nat \ {0}
          /\ \A i \in 1..Len(up) - 1 : up'[i] = up[i + 1]
       BY <1>12, Executing DEF shared
    <2> QED BY <2>1 DEF Sent
<1>13. CASE Arrive \/ Quiet \/ ContactLost \/ Reset
  <2>1. CASE Arrive
      <3>1. gen \in Nat /\ gen' \in Nat /\ gen' >= gen /\ up' = up
         BY <2>1 DEF Arrive, Counters
      <3> QED BY <3>1, Added
  <2>2. CASE Quiet
      <3>1. gen \in Nat /\ gen' \in Nat /\ gen' >= gen /\ up' = up
         BY <2>2 DEF Quiet, Counters
      <3> QED BY <3>1, Added
  <2>3. CASE ContactLost
      <3>1. gen \in Nat /\ gen' \in Nat /\ gen' >= gen /\ up' = up
         BY <2>3 DEF ContactLost, StopMotion, Counters
      <3> QED BY <3>1, Added
  <2>4. CASE Reset
      <3>1. up' = <<>> /\ gen' = gen
         BY <2>4 DEF Reset
      <3> QED BY <3>1 DEF Sent
  <2> QED BY <1>13, <2>1, <2>2, <2>3, <2>4
<1>14. CASE LoseUp \/ LoseDown
  <2>1. CASE LoseUp
      <3>1. gen' = gen /\ Len(up) \in Nat
         BY <2>1 DEF LoseUp, Carried
      <3>2. PICK k \in 1..Len(up) : /\ Len(up') = Len(up) - k
                                   /\ \A i \in 1..Len(up) - k : up'[i] = up[i + k]
         BY <2>1, Losing
      <3> QED BY <3>1, <3>2 DEF Sent
  <2>2. CASE LoseDown
      <3>1. gen \in Nat /\ gen' \in Nat /\ gen' >= gen /\ up' = up
         BY <2>2 DEF LoseDown, Counters
      <3> QED BY <3>1, Added
  <2> QED BY <1>14, <2>1, <2>2
<1> QED BY <1>1, <1>2, <1>3, <1>4, <1>5, <1>6, <1>7, <1>8, <1>9, <1>10,
      <1>11, <1>12, <1>13, <1>14 DEF Next, Worker, Firmware

(* What is stored is of the kind its place is for.                          *)
LEMMA KindedStep ==
  ASSUME Flags, Counters, Stored, Carried, Young, Sent, Kinded, Next
  PROVE  Kinded'
<1> USE DEF Kinded, Kinds, Flags, shared, gui, worker, line, fw
<1>1. CASE Post \/ Put \/ Press
    BY <1>1, Lines DEF Post, Put, Press, Stop
<1>2. CASE Connect \/ Connected \/ Disconnect
    BY <1>2, Lines DEF Connect, Close, Connected, Goto, Disconnect
<1>3. CASE Tick \/ Wake \/ NoFrame \/ Show \/ Accept
    BY <1>3, Lines DEF Tick, Goto, Wake, NoFrame, Show, Accept, CanAccept
<1>4. CASE WriteStop \/ StopWritten
    BY <1>4, Lines DEF WriteStop, Goto, Close, Counters, StopWritten
<1>5. CASE Recover \/ ClearEvent \/ ClearRest
    BY <1>5, Lines DEF Recover, Goto, ClearEvent, ClearRest
<1>6. CASE Take \/ Gate
    BY <1>6, Tails, Lines DEF Take, Gate, Goto
<1>7. CASE Trust
    BY <1>7, Lines DEF Trust, Stop, Goto, Settles, Ends, IsMotion, Stored,
       Command
<1>8. CASE ReadFails \/ Stale \/ NoAck
    BY <1>8, Lines DEF ReadFails, Close, Goto, Stale, NoAck, Stop
<1>9. CASE Poll \/ Service
    BY <1>9, Lines DEF Poll, Close, Goto, Service
<1>10. CASE Write \/ Note
    BY <1>10, Lines DEF Write, Goto, Stop, Note
<1>11. CASE CoolEnds
    BY <1>11 DEF CoolEnds
<1>12. CASE Execute
    BY <1>12, Executing, Lines DEF StopMotion, Answer, SetZero, SetScale,
       StartMove, Obeyed, Motions
<1>13. CASE Arrive \/ Quiet \/ ContactLost \/ Reset
    BY <1>13, Acting, Lines DEF Arrive, Quiet, ContactLost, StopMotion, Reset
<1>14. CASE LoseUp \/ LoseDown
    BY <1>14, Losing, Lines, Tails DEF LoseUp, StopMotion, LoseDown
<1> QED BY <1>1, <1>2, <1>3, <1>4, <1>5, <1>6, <1>7, <1>8, <1>9, <1>10,
      <1>11, <1>12, <1>13, <1>14 DEF Next, Worker, Firmware

LEMMA CountedLine ==
  ASSUME Carried, Counted, NEW msg, Grown(msg), finished \subseteq finished',
         pos' \in Counts'
  PROVE  \A i \in 1..Len(down') : down'[i].pos \in Counts'
<1> SUFFICES ASSUME NEW i \in 1..Len(down')
             PROVE  down'[i].pos \in Counts'
   OBVIOUS
<1>1. Len(down) \in Nat
   BY DEF Carried
<1>2. CASE i \in 1..Len(down)
   BY <1>2 DEF Grown, Counted, Counts
<1>3. CASE i \in Len(down)+1..Len(down')
   BY <1>3 DEF Grown
<1> QED BY <1>1, <1>2, <1>3 DEF Grown

(* A count other than zero is one a motion has ended at.                    *)
LEMMA CountedStep ==
  ASSUME Flags, Counters, Stored, Carried, Young, Sent, Kinded, Counted, Next
  PROVE  Counted'
<1> USE DEF Counted, Counts, Flags, Kinds, shared, gui, worker, line, fw
<1>1. CASE Post \/ Put \/ Press
  <2>1. CASE Post
    BY <2>1 DEF Post
  <2>2. CASE Put
      <3>1. box' = box \/ box'.n = posts + 1
         BY <2>2 DEF Put
      <3>2. posts + 1 # 0
         BY DEF Counters
      <3> QED BY <2>2, <3>1, <3>2 DEF Put
  <2>3. CASE Press
    BY <2>3, Lines DEF Press, Stop
  <2> QED BY <1>1, <2>1, <2>2, <2>3
<1>2. CASE Connect \/ Connected \/ Disconnect
    BY <1>2, Lines DEF Connect, Close, Connected, Goto, Disconnect
<1>3. CASE Tick \/ Wake \/ NoFrame \/ Show \/ Accept
    BY <1>3, Lines DEF Tick, Goto, Wake, NoFrame, Show, Accept, CanAccept
<1>4. CASE WriteStop \/ StopWritten
    BY <1>4, Lines DEF WriteStop, Goto, Close, StopWritten
<1>5. CASE Recover \/ ClearEvent \/ ClearRest
  <2>1. CASE Recover
      <3>1. UNCHANGED <<pos, finished, box, pend>>
         BY <2>1 DEF Recover
      <3>2. \A i \in 1..Len(down') : down'[i].pos \in Counts'
         BY <2>1, <3>1, Flushing
      <3>3. (cmd' = cmd \/ cmd' = Nothing) /\ (frame' = frame \/ frame' = Unknown)
         BY <2>1 DEF Recover, Goto
      <3> QED BY <3>1, <3>2, <3>3, Lines
  <2>2. CASE ClearEvent
    BY <2>2, Lines DEF ClearEvent, Goto
  <2>3. CASE ClearRest
    BY <2>3, Lines DEF ClearRest, Goto
  <2> QED BY <1>5, <2>1, <2>2, <2>3
<1>6. CASE Take \/ Gate
    BY <1>6, Tails, Lines DEF Take, Gate, Goto
<1>7. CASE Trust
    <2>1. pend' = Nothing \/ (pend'.kind = pend.kind /\ pend'.n = pend.n)
       BY <1>7 DEF Trust, Stop, Stored, Command
    <2>2. UNCHANGED <<down, pos, finished>>
       BY <1>7 DEF Trust
    <2>3. box' = box \/ box' = Nothing
       BY <1>7 DEF Trust, Stop
    <2>4. (cmd' = cmd \/ cmd' = Nothing) /\ (frame' = frame \/ frame' = Unknown)
       BY <1>7 DEF Trust, Goto
    <2> QED BY <2>1, <2>2, <2>3, <2>4, Lines
<1>8. CASE ReadFails \/ Stale \/ NoAck
    BY <1>8, Lines DEF ReadFails, Close, Goto, Stale, NoAck, Stop
<1>9. CASE Poll \/ Service
    BY <1>9, Lines DEF Poll, Close, Goto, Service
<1>10. CASE Write \/ Note
    BY <1>10, Lines DEF Write, Goto, Stop, Note
<1>11. CASE CoolEnds
    BY <1>11 DEF CoolEnds
<1>12. CASE Execute
    <2>1. pos' \in Counts' /\ finished \subseteq finished'
       BY <1>12, Executed
    <2>2. \E msg \in Msgs : Grown(msg)
       BY <1>12, Executing DEF Obeyed, Msgs, Final
    <2>3. \A i \in 1..Len(down') : down'[i].pos \in Counts'
       BY <2>1, <2>2, CountedLine
    <2> QED BY <1>12, <2>1, <2>3, Executing
<1>13. CASE Arrive \/ Quiet \/ ContactLost \/ Reset
  <2>1. CASE Arrive
      <3>1. pos' \in Counts' /\ finished \subseteq finished'
         BY <2>1 DEF Arrive, Target
      <3>2. \A i \in 1..Len(down') : down'[i].pos \in Counts'
         BY <2>1, <3>1, Acting, CountedLine
      <3> QED BY <2>1, <3>1, <3>2 DEF Arrive
  <2>2. CASE Quiet
    BY <2>2 DEF Quiet
  <2>3. CASE ContactLost
      <3>1. pos' \in Counts' /\ finished' = finished
         BY <2>3 DEF ContactLost, StopMotion
      <3>2. \A i \in 1..Len(down') : down'[i].pos \in Counts'
         BY <2>3, <3>1, Acting, CountedLine
      <3> QED BY <2>3, <3>1, <3>2 DEF ContactLost
  <2>4. CASE Reset
      <3>1. pos' \in Counts' /\ finished' = finished
         BY <2>4 DEF Reset
      <3>2. \A i \in 1..Len(down') : down'[i].pos \in Counts'
         BY <2>4, <3>1, Acting, CountedLine
      <3> QED BY <2>4, <3>1, <3>2 DEF Reset
  <2> QED BY <1>13, <2>1, <2>2, <2>3, <2>4
<1>14. CASE LoseUp \/ LoseDown
  <2>1. CASE LoseUp
      <3>1. pos' = pos /\ finished' = finished
         BY <2>1, Losing
      <3>2. \A i \in 1..Len(down') : down'[i].pos \in Counts'
         BY <2>1, <3>1, Losing, CountedLine
      <3> QED BY <2>1, <3>1, <3>2 DEF LoseUp
  <2>2. CASE LoseDown
    BY <2>2, Tails DEF LoseDown
  <2> QED BY <1>14, <2>1, <2>2
<1> QED BY <1>1, <1>2, <1>3, <1>4, <1>5, <1>6, <1>7, <1>8, <1>9, <1>10,
      <1>11, <1>12, <1>13, <1>14 DEF Next, Worker, Firmware

(* Where the worker is says what it has seen of a stop.                     *)
LEMMA ControlStep ==
  ASSUME Flags, Counters, Stored, Carried, Young, Sent, Kinded, Prompt, Control, Next
  PROVE  Control'
<1> USE DEF Control, Flags, Counters, shared, gui, worker, line, fw
<1>1. CASE Post \/ Put \/ Press
    BY <1>1 DEF Post, Put, Press, Stop
<1>2. CASE Connect \/ Connected \/ Disconnect
    BY <1>2 DEF Connect, Close, Connected, Goto, Disconnect
<1>3. CASE Tick \/ Wake \/ NoFrame \/ Show \/ Accept
    BY <1>3 DEF Tick, Goto, Wake, NoFrame, Show, Accept, CanAccept
<1>4. CASE WriteStop \/ StopWritten
    BY <1>4 DEF WriteStop, Goto, Close, StopWritten
<1>5. CASE Recover \/ ClearEvent \/ ClearRest
    BY <1>5 DEF Recover, Goto, ClearEvent, ClearRest
<1>6. CASE Take \/ Gate
    BY <1>6, Tails DEF Take, Gate, Goto
<1>7. CASE Trust
    BY <1>7 DEF Trust, Stop, Goto, Settles, Ends, IsMotion
<1>8. CASE ReadFails \/ Stale \/ NoAck
    BY <1>8 DEF ReadFails, Close, Goto, Stale, NoAck, Stop
<1>9. CASE Poll \/ Service
    BY <1>9 DEF Poll, Close, Goto, Service
<1>10. CASE Write \/ Note
    BY <1>10 DEF Write, Goto, Stop, Note
<1>11. CASE CoolEnds
    BY <1>11 DEF CoolEnds
<1>12. CASE Execute
    BY <1>12, Executing DEF StopMotion, Answer, SetZero, SetScale, StartMove
<1>13. CASE Arrive \/ Quiet \/ ContactLost \/ Reset
    BY <1>13, Acting DEF Arrive, Quiet, ContactLost, StopMotion, Reset
<1>14. CASE LoseUp \/ LoseDown
    BY <1>14, Losing, Tails DEF LoseUp, StopMotion, LoseDown
<1> QED BY <1>1, <1>2, <1>3, <1>4, <1>5, <1>6, <1>7, <1>8, <1>9, <1>10,
      <1>11, <1>12, <1>13, <1>14 DEF Next, Worker, Firmware

(* What is written under a generation is of that generation.                *)
LEMMA OwnedStep ==
  ASSUME Flags, Counters, Stored, Carried, Young, Sent, Kinded, Prompt, Control, Owned, Next
  PROVE  Owned'
<1> USE DEF Owned, Flags, Counters, Control, Young, Stored, shared, gui,
   worker, line, fw
<1>1. CASE Post \/ Put \/ Press
  <2>1. CASE Post
    BY <2>1, Gens DEF Post
  <2>2. CASE Put
    BY <2>2, Lines, Gens DEF Put
  <2>3. CASE Press
    BY <2>3, Lines, Gens DEF Press, Stop
  <2> QED BY <1>1, <2>1, <2>2, <2>3
<1>2. CASE Connect \/ Connected \/ Disconnect
    BY <1>2, Lines, Gens DEF Connect, Close, Connected, Goto, Disconnect
<1>3. CASE Tick \/ Wake \/ NoFrame \/ Show \/ Accept
  <2>1. CASE Tick
    BY <2>1, Lines, Gens DEF Tick, Goto
  <2>2. CASE Wake
    BY <2>2, Lines, Gens DEF Wake, Goto
  <2>3. CASE NoFrame
    BY <2>3, Lines, Gens DEF NoFrame, Goto
  <2>4. CASE Show
    BY <2>4, Lines, Gens DEF Show, Goto
  <2>5. CASE Accept
    BY <2>5, Lines, Gens DEF Accept, Goto, CanAccept
  <2> QED BY <1>3, <2>1, <2>2, <2>3, <2>4, <2>5
<1>4. CASE WriteStop \/ StopWritten
  <2>1. CASE WriteStop
    BY <2>1, Lines, Gens DEF WriteStop, Goto, Close
  <2>2. CASE StopWritten
    BY <2>2, Lines, Gens DEF StopWritten, Goto
  <2> QED BY <1>4, <2>1, <2>2
<1>5. CASE Recover \/ ClearEvent \/ ClearRest
    BY <1>5, Lines, Gens DEF Recover, Goto, ClearEvent, ClearRest
<1>6. CASE Take \/ Gate
    BY <1>6, Tails, Gens, Lines DEF Take, Gate, Goto
<1>7. CASE Trust
    <2>1. /\ \/ pend' = Nothing
             \/ pend' = [pend EXCEPT !.ack = @ \/ (IsMotion /\ frame.moving)]
          /\ box' = box \/ (box' = Nothing /\ gen' = gen + 1)
          /\ stopE' \/ awaiting' => pend' = Nothing \/ (stopE /\ stopE' /\ gen' = gen)
          /\ gen' = gen \/ gen' = gen + 1
          /\ gen' # gen => box' = Nothing
       BY <1>7 DEF Trust, Stop
    <2>2. /\ cmd' = Nothing /\ wpc' \in {"read", "show"}
       BY <1>7 DEF Trust, Goto
    <2>3. ASSUME pend # Nothing, pend' # Nothing
          PROVE  pend'.kind = pend.kind /\ pend'.gen = pend.gen
       BY <2>1, <2>3 DEF Command
    <2>4. ASSUME pend = Nothing PROVE pend' = Nothing
      <3>1. ~IsMotion
         BY <2>4, Lines DEF IsMotion, Motions
      <3>2. (Nothing.ack \/ (IsMotion /\ frame.moving)) = FALSE
         BY <3>1, Lines
      <3>3. pend' = Nothing \/ pend' = [Nothing EXCEPT !.ack = FALSE]
         BY <2>1, <2>4, <3>2
      <3>4. [Nothing EXCEPT !.ack = FALSE] = Nothing
         BY Lines, Unacked
      <3> QED BY <3>3, <3>4
    <2>5. pend'.kind = "none" => pend' = Nothing
       BY <2>3, <2>4
    <2>6. stopE' \/ awaiting' => pend' = Nothing \/ pend'.gen < gen'
       BY <2>1, <2>3, <2>4
    <2>7. (box' = Nothing \/ box'.gen = gen') /\ ~box'.ack
       BY <2>1, Lines
    <2> QED BY <2>2, <2>5, <2>6, <2>7, Lines
<1>8. CASE ReadFails \/ Stale \/ NoAck
    BY <1>8, Lines, Gens DEF ReadFails, Close, Goto, Stale, NoAck, Stop
<1>9. CASE Poll \/ Service
    BY <1>9, Lines, Gens DEF Poll, Close, Goto, Service
<1>10. CASE Write \/ Note
  <2>1. CASE Write
      <3>1. CASE UNCHANGED shared
        <4>1. /\ wpc' = "idle" \/ (wpc' = "note" /\ wpc = "write" /\ ~stopE)
              /\ cmd' = cmd \/ cmd' = Nothing
              /\ wpc' = "note" => cmd' = cmd
           BY <2>1 DEF Write, Goto
        <4> QED BY <3>1, <4>1, Lines
      <3>2. CASE Stop
        <4>1. wpc' = "idle" /\ cmd' = Nothing
           BY <2>1, <3>2 DEF Write, Goto, Stop
        <4> QED BY <3>2, <4>1, Lines DEF Stop
      <3> QED BY <2>1, <3>1, <3>2 DEF Write
  <2>2. CASE Note
      <3>1. cmd.kind # "none" /\ ~cmd.ack
         BY <2>2 DEF Kinded, Note, Kinds
      <3> QED BY <2>2, <3>1, Lines, Gens DEF Note, Goto
  <2> QED BY <1>10, <2>1, <2>2
<1>11. CASE CoolEnds
    BY <1>11, Gens DEF CoolEnds
<1>12. CASE Execute
    BY <1>12, Executing, Lines, Gens DEF StopMotion, Answer, SetZero, SetScale,
       StartMove
<1>13. CASE Arrive \/ Quiet \/ ContactLost \/ Reset
    BY <1>13, Acting, Lines, Gens DEF Arrive, Quiet, ContactLost, StopMotion,
       Reset
<1>14. CASE LoseUp \/ LoseDown
    BY <1>14, Losing, Lines, Gens, Tails DEF LoseUp, StopMotion, LoseDown
<1> QED BY <1>1, <1>2, <1>3, <1>4, <1>5, <1>6, <1>7, <1>8, <1>9, <1>10,
      <1>11, <1>12, <1>13, <1>14 DEF Next, Worker, Firmware

(* What the firmware says next does not make what was said untrue.           *)
LEMMA RestLine ==
  ASSUME Flags, Carried, TruthfulLine, TruthfulFrame, NEW msg, Grown(msg),
         UNCHANGED <<wpc, frame>>,
         moving \/ (msg \notin Final /\ (UNCHANGED <<homed, moving>> \/ (~homed' /\ ~moving')))
  PROVE  TruthfulLine' /\ TruthfulFrame'
<1> DEFINE new == [homed |-> homed', moving |-> moving', msg |-> msg,
                   pos |-> pos', homeGen |-> homeGen']
<1>1. /\ Len(down) \in Nat /\ Len(down') \in {Len(down), Len(down) + 1}
      /\ \A i \in 1..Len(down) : down'[i] = down[i]
      /\ \A i \in Len(down)+1..Len(down') : down'[i] = new
   BY GrownBy
<1>2. /\ new.homed = homed' /\ new.moving = moving' /\ new.msg = msg
   OBVIOUS
<1> HIDE DEF new
<1>3. ASSUME ~moving, ~homed PROVE Settled(new) /\ Calm(new) /\ ~homed' /\ ~moving'
   BY <1>2, <1>3 DEF Settled, Calm
<1>4. Settled(new) => ~homed' /\ ~moving'
   BY <1>2 DEF Settled
<1>5. TruthfulLine'
  <2> SUFFICES ASSUME NEW i \in 1..Len(down'), Settled(down'[i])
               PROVE  /\ ~homed' /\ ~moving'
                      /\ \A j \in i+1..Len(down') : Settled(down'[j]) /\ Calm(down'[j])
     BY DEF TruthfulLine, Settled, Calm
  <2>1. CASE i \in 1..Len(down)
     BY <1>1, <1>3, <2>1 DEF TruthfulLine
  <2>2. CASE i = Len(down) + 1
     BY <1>1, <1>4, <2>2
  <2> QED BY <1>1, <2>1, <2>2
<1>6. TruthfulFrame'
  <2> SUFFICES ASSUME Held, Settled(frame)
               PROVE  /\ ~homed' /\ ~moving'
                      /\ \A j \in 1..Len(down') : Settled(down'[j]) /\ Calm(down'[j])
     BY DEF TruthfulFrame, Settled, Calm, Held
  <2> QED BY <1>1, <1>3 DEF TruthfulFrame
<1> QED BY <1>5, <1>6

(* The worker is not misled while it waits for the firmware at rest.        *)
LEMMA BlindedStep ==
  ASSUME Flags, Counters, Stored, Carried, Young, Sent, Kinded, Prompt, Control, Owned, Blinded, Next
  PROVE  Blinded'
<1> USE DEF Blinded, Blind, Flags, Control, Counters, shared, gui, worker,
   line, fw
<1>1. CASE Post \/ Put \/ Press
    BY <1>1 DEF Post, Held, TruthfulLine, TruthfulFrame, Put, Press, Stop
<1>2. CASE Connect \/ Connected \/ Disconnect
  <2>1. CASE Connect
      <3>1. ~Blind'
         BY <2>1 DEF Connect, Goto, Close, Stop, Owned
      <3> QED BY <3>1
  <2>2. CASE Connected
      <3>1. ~Blind'
         BY <2>2 DEF Connected, Goto, Close, Stop, Owned
      <3> QED BY <3>1
  <2>3. CASE Disconnect
      <3>1. ~Blind'
         BY <2>3 DEF Disconnect, Goto, Close, Stop, Owned
      <3> QED BY <3>1
  <2> QED BY <1>2, <2>1, <2>2, <2>3
<1>3. CASE Tick \/ Wake \/ NoFrame \/ Show \/ Accept
    BY <1>3 DEF Tick, Goto, Held, TruthfulLine, TruthfulFrame, Wake, NoFrame,
       Show, Accept, CanAccept
<1>4. CASE WriteStop \/ StopWritten
  <2>1. CASE WriteStop
      <3>1. ~Blind'
         BY <2>1 DEF WriteStop, Goto, Close, Stop, Owned
      <3> QED BY <3>1
  <2>2. CASE StopWritten
      <3>1. ~Blind'
         BY <2>2 DEF StopWritten, Goto, Close, Stop, Owned
      <3> QED BY <3>1
  <2> QED BY <1>4, <2>1, <2>2
<1>5. CASE Recover \/ ClearEvent \/ ClearRest
  <2>1. CASE Recover
    BY <2>1 DEF Recover, Goto, Held, TruthfulLine, TruthfulFrame
  <2>2. CASE ClearEvent
    BY <2>2 DEF ClearEvent, Goto, Held, TruthfulLine, TruthfulFrame
  <2>3. CASE ClearRest
    BY <2>3 DEF ClearRest, Goto, Held, TruthfulLine, TruthfulFrame
  <2> QED BY <1>5, <2>1, <2>2, <2>3
<1>6. CASE Take \/ Gate
  <2>1. CASE Take
    BY <2>1 DEF Take, Held, TruthfulLine, TruthfulFrame
  <2>2. CASE Gate
    BY <2>2 DEF Gate, Goto, Held, TruthfulLine, TruthfulFrame
  <2> QED BY <1>6, <2>1, <2>2
<1>7. CASE Trust
    <2>1. ~Blind'
       BY <1>7 DEF Trust, Goto, Close, Stop, Owned
    <2> QED BY <2>1
<1>8. CASE ReadFails \/ Stale \/ NoAck
  <2>1. CASE ReadFails
      <3>1. ~Blind'
         BY <2>1 DEF ReadFails, Goto, Close, Stop, Owned
      <3> QED BY <3>1
  <2>2. CASE Stale
      <3>1. ~Blind'
         BY <2>2 DEF Stale, Goto, Close, Stop, Owned
      <3> QED BY <3>1
  <2>3. CASE NoAck
      <3>1. ~Blind'
         BY <2>3 DEF NoAck, Goto, Close, Stop, Owned
      <3> QED BY <3>1
  <2> QED BY <1>8, <2>1, <2>2, <2>3
<1>9. CASE Poll \/ Service
  <2>1. CASE Poll
      <3>1. Blind' => Blind /\ up' \in {up, <<Status>>} /\ down' = down
         BY <2>1 DEF Poll, Goto, Close
      <3>2. UNCHANGED <<homed, moving>> /\ wpc' \in {"service", "idle"}
         BY <2>1 DEF Poll, Goto
      <3>3. Blind' => TruthfulLine' /\ TruthfulFrame'
         BY <2>1, <3>1, <3>2 DEF Poll, TruthfulLine, TruthfulFrame, Held
      <3>4. ASSUME Blind' PROVE \A i \in 1..Len(up') : up'[i] = Status
        <4>1. CASE up' = up
           BY <3>1, <3>4, <4>1
        <4>2. CASE up' = <<Status>>
           BY <4>2
        <4> QED BY <3>1, <3>4, <4>1, <4>2
      <3> QED BY <3>3, <3>4
  <2>2. CASE Service
    BY <2>2 DEF Service, Held, TruthfulLine, TruthfulFrame
  <2> QED BY <1>9, <2>1, <2>2
<1>10. CASE Write \/ Note
  <2>1. CASE Write
      <3>1. ~Blind'
         BY <2>1 DEF Write, Goto, Close, Stop, Owned
      <3> QED BY <3>1
  <2>2. CASE Note
    BY <2>2 DEF Note, Goto, Held, TruthfulLine, TruthfulFrame
  <2> QED BY <1>10, <2>1, <2>2
<1>11. CASE CoolEnds
    BY <1>11 DEF CoolEnds, Held, TruthfulLine, TruthfulFrame
<1>12. CASE Execute
    <2>1. /\ Blind' = Blind /\ UNCHANGED <<wpc, frame>>
       BY <1>12, Executing
    <2>2. ASSUME Blind
          PROVE  /\ Grown("ok") /\ UNCHANGED <<homed, moving>>
                 /\ \A i \in 1..Len(up') : up'[i] = Status
      <3>1. /\ Len(up) \in Nat \ {0} /\ Len(up') = Len(up) - 1
            /\ \A i \in 1..Len(up) - 1 : up'[i] = up[i + 1]
         BY <1>12, Executing
      <3>4. \A i \in 1..Len(up) : up[i] = Status
         BY <2>2
      <3>5. up[1] = Status
         BY <3>1, <3>4
      <3>2. up[1].kind = "status"
         BY <3>5, Lines
      <3>3. Grown("ok") /\ UNCHANGED <<homed, moving>>
         BY <1>12, <3>2, Executing DEF Obeyed, Kinds, Motions
      <3> QED BY <3>1, <3>3, <3>4
    <2>3. Blind => TruthfulLine' /\ TruthfulFrame'
       BY <2>1, <2>2, RestLine DEF Final
    <2> QED BY <2>1, <2>2, <2>3
<1>13. CASE Arrive \/ Quiet \/ ContactLost \/ Reset
  <2>1. CASE Arrive
      <3>1. Blind' = Blind /\ UNCHANGED <<wpc, frame, up>> /\ moving /\ Grown("done")
         BY <2>1, Acting DEF Arrive
      <3>2. Blind => TruthfulLine' /\ TruthfulFrame'
         BY <3>1, RestLine
      <3> QED BY <3>1, <3>2
  <2>2. CASE Quiet
    BY <2>2 DEF Quiet, Held, TruthfulLine, TruthfulFrame
  <2>3. CASE ContactLost
      <3>1. Blind' = Blind /\ UNCHANGED <<wpc, frame, up>> /\ moving /\ Grown("stopped")
         BY <2>3, Acting DEF ContactLost
      <3>2. Blind => TruthfulLine' /\ TruthfulFrame'
         BY <3>1, RestLine
      <3> QED BY <3>1, <3>2
  <2>4. CASE Reset
      <3>1. /\ Blind' = Blind /\ UNCHANGED <<wpc, frame>> /\ up' = <<>> /\ Grown("ok")
            /\ ~homed' /\ ~moving'
         BY <2>4, Acting DEF Reset
      <3>2. Blind => TruthfulLine' /\ TruthfulFrame'
         BY <3>1, RestLine DEF Final
      <3> QED BY <3>1, <3>2
  <2> QED BY <1>13, <2>1, <2>2, <2>3, <2>4
<1>14. CASE LoseUp \/ LoseDown
  <2>1. CASE LoseUp
      <3>1. Blind' = Blind /\ UNCHANGED <<wpc, frame>>
         BY <2>1 DEF LoseUp
      <3>2. Blind => TruthfulLine' /\ TruthfulFrame'
        <4>1. CASE UNCHANGED <<down, fw>>
           BY <3>1, <4>1 DEF TruthfulLine, TruthfulFrame, Held
        <4>2. CASE Grown("malformed") /\ ~moving' /\ ~homed'
           BY <3>1, <4>2, RestLine DEF Final
        <4> QED BY <2>1, <4>1, <4>2, Losing
      <3>3. PICK k \in 1..Len(up) : /\ Len(up') = Len(up) - k
                                   /\ \A i \in 1..Len(up) - k : up'[i] = up[i + k]
         BY <2>1, Losing
      <3>4. Blind => \A i \in 1..Len(up') : up'[i] = Status
        <4> SUFFICES ASSUME Blind, NEW i \in 1..Len(up') PROVE up'[i] = Status
           OBVIOUS
        <4>1. i \in 1..Len(up) - k /\ i + k \in 1..Len(up)
           BY <3>3 DEF Carried
        <4> QED BY <3>3, <4>1
      <3> QED BY <3>1, <3>2, <3>4
  <2>2. CASE LoseDown
    BY <2>2 DEF LoseDown, Held, TruthfulLine, TruthfulFrame
  <2> QED BY <1>14, <2>1, <2>2
<1> QED BY <1>1, <1>2, <1>3, <1>4, <1>5, <1>6, <1>7, <1>8, <1>9, <1>10,
      <1>11, <1>12, <1>13, <1>14 DEF Next, Worker, Firmware

LEMMA ZeroLine ==
  ASSUME Carried, NEW msg, Grown(msg), homed' => homeGen' = gen,
         \A i \in 1..Len(down) : down[i].homed => down[i].homeGen = gen
  PROVE  \A i \in 1..Len(down') : down'[i].homed => down'[i].homeGen = gen
<1>1. Len(down) \in Nat
   BY DEF Carried
<1> QED BY <1>1 DEF Grown

(* While the worker trusts the firmware it knows whose zero it is.          *)
LEMMA ZeroedStep ==
  ASSUME Flags, Counters, Stored, Carried, Young, Sent, Kinded, Prompt, Control, Owned, Blinded, Waiting, Zeroed, Next
  PROVE  Zeroed'
<1> USE DEF Zeroed, Trusting, Flags, Control, Counters, shared, gui, worker,
   line, fw
<1>1. CASE Post \/ Put \/ Press
  <2>1. CASE Post
    BY <2>1 DEF Post, Held
  <2>2. CASE Put
    BY <2>2 DEF Put, Held
  <2>3. CASE Press
      <3>1. ~Trusting'
         BY <2>3 DEF Press, Goto, Close, Stop
      <3> QED BY <3>1
  <2> QED BY <1>1, <2>1, <2>2, <2>3
<1>2. CASE Connect \/ Connected \/ Disconnect
  <2>1. CASE Connect
      <3>1. ~Trusting'
         BY <2>1 DEF Connect, Goto, Close, Stop
      <3> QED BY <3>1
  <2>2. CASE Connected
      <3>1. ~Trusting'
         BY <2>2 DEF Connected, Goto, Close, Stop
      <3> QED BY <3>1
  <2>3. CASE Disconnect
      <3>1. ~Trusting'
         BY <2>3 DEF Disconnect, Goto, Close, Stop
      <3> QED BY <3>1
  <2> QED BY <1>2, <2>1, <2>2, <2>3
<1>3. CASE Tick \/ Wake \/ NoFrame \/ Show \/ Accept
  <2>1. CASE Tick \/ Wake \/ NoFrame \/ Accept
    BY <2>1 DEF Tick, Goto, Held, Wake, NoFrame, Accept, CanAccept
  <2>2. CASE Show
      <3>1. state' = [frame EXCEPT !.msg = "ok", !.pos = 0] /\ frame \in Frame
         BY <2>2 DEF Show, Stored
      <3>2. /\ state' \in Frame /\ state'.homed = frame.homed
            /\ state'.homeGen = frame.homeGen
         BY <3>1 DEF Frame, Msgs
      <3> QED BY <2>2, <3>2 DEF Show, Goto, Held
  <2> QED BY <1>3, <2>1, <2>2
<1>4. CASE WriteStop \/ StopWritten
  <2>1. CASE WriteStop
      <3>1. ~Trusting'
         BY <2>1 DEF WriteStop, Goto, Close, Stop
      <3> QED BY <3>1
  <2>2. CASE StopWritten
      <3>1. ~Trusting'
         BY <2>2 DEF StopWritten, Goto, Close, Stop
      <3> QED BY <3>1
  <2> QED BY <1>4, <2>1, <2>2
<1>5. CASE Recover \/ ClearEvent \/ ClearRest
  <2>1. CASE Recover
      <3>1. ~Trusting'
         BY <2>1 DEF Recover, Goto, Close, Stop
      <3> QED BY <3>1
  <2>2. CASE ClearEvent
      <3>1. ~Trusting'
         BY <2>2 DEF ClearEvent, Goto, Close, Stop
      <3> QED BY <3>1
  <2>3. CASE ClearRest
    BY <2>3 DEF ClearRest, Goto, Held
  <2> QED BY <1>5, <2>1, <2>2, <2>3
<1>6. CASE Take \/ Gate
  <2>1. CASE Take
    BY <2>1 DEF Take, Held
  <2>2. CASE Gate
    BY <2>2 DEF Gate, Goto, Held
  <2> QED BY <1>6, <2>1, <2>2
<1>7. CASE Trust
    <2> SUFFICES ASSUME Trusting' PROVE Zeroed'
       BY DEF Zeroed
    <2>1. /\ on /\ ~stopE /\ ~stopE' /\ wpc' = "show" /\ frame' = frame /\ gen' = gen
          /\ UNCHANGED <<state, down, homed, homeGen>>
       BY <1>7 DEF Trust, Goto, Stop
    <2>2. CASE ~awaiting
       BY <1>7, <2>1, <2>2 DEF Trust, Held
    <2>3. CASE awaiting
      <3>1. Blind /\ Settled(frame) /\ Held
         BY <1>7, <2>1, <2>3 DEF Trust, Blind, Settled, Held
      <3>2. /\ ~homed /\ ~frame.homed
            /\ \A j \in 1..Len(down) : ~down[j].homed
         BY <3>1 DEF Blinded, TruthfulFrame, Settled
      <3> QED BY <2>1, <3>2 DEF Held
    <2> QED BY <2>2, <2>3
<1>8. CASE ReadFails \/ Stale \/ NoAck
  <2>1. CASE ReadFails
      <3>1. ~Trusting'
         BY <2>1 DEF ReadFails, Goto, Close, Stop
      <3> QED BY <3>1
  <2>2. CASE Stale
      <3>1. ~Trusting'
         BY <2>2 DEF Stale, Goto, Close, Stop
      <3> QED BY <3>1
  <2>3. CASE NoAck
      <3>1. ~Trusting'
         BY <2>3 DEF NoAck, Goto, Close, Stop
      <3> QED BY <3>1
  <2> QED BY <1>8, <2>1, <2>2, <2>3
<1>9. CASE Poll \/ Service
    BY <1>9 DEF Poll, Close, Goto, Held, Service
<1>10. CASE Write \/ Note
    BY <1>10 DEF Write, Goto, Stop, Held, Note
<1>11. CASE CoolEnds
    BY <1>11 DEF CoolEnds, Held
<1>12. CASE Execute
    <2>1. Trusting' = Trusting /\ UNCHANGED <<wpc, frame, state, gen, pend, cmd>>
       BY <1>12, Executing
    <2>2. ASSUME Trusting PROVE homed' => homeGen' = gen
      <3>1. Len(up) \in Nat \ {0}
         BY <1>12, Executing
      <3>2. up[1] = Status \/ (up[1].kind \in Kinds /\ up[1].gen = gen)
         BY <2>2, <3>1 DEF Waiting, Current
      <3>3. up[1].kind \in Kinds \cup {"status"} /\ (up[1].kind \in Kinds => up[1].gen = gen)
         BY <3>2, Lines DEF Kinds
      <3> QED BY <1>12, <2>2, <3>3, Executing DEF Obeyed, Kinds, Motions
    <2>3. ASSUME Trusting PROVE \A i \in 1..Len(down') : down'[i].homed => down'[i].homeGen = gen
      <3>1. \E msg \in Msgs : Grown(msg)
         BY <1>12, Executing DEF Obeyed, Msgs, Final
      <3> QED BY <2>2, <2>3, <3>1, ZeroLine
    <2> QED BY <2>1, <2>2, <2>3 DEF Held
<1>13. CASE Arrive \/ Quiet \/ ContactLost \/ Reset
  <2>1. CASE Arrive
      <3>1. /\ Grown("done")
            /\ UNCHANGED <<wpc, frame, state, gen, homed, homeGen, on, stopE, awaiting>>
         BY <2>1, Acting DEF Arrive
      <3>2. Trusting => \A i \in 1..Len(down') : down'[i].homed => down'[i].homeGen = gen
         BY <3>1, ZeroLine
      <3> QED BY <3>1, <3>2 DEF Held
  <2>2. CASE Quiet
    BY <2>2 DEF Quiet, Held
  <2>3. CASE ContactLost
      <3>1. \E msg \in Msgs : Grown(msg)
         BY <2>3, Acting DEF Msgs, Final
      <3>2. ~homed' /\ UNCHANGED <<wpc, frame, state, gen, on, stopE, awaiting>>
         BY <2>3 DEF ContactLost, StopMotion
      <3>3. Trusting => \A i \in 1..Len(down') : down'[i].homed => down'[i].homeGen = gen
         BY <3>1, <3>2, ZeroLine
      <3> QED BY <3>2, <3>3 DEF Held
  <2>4. CASE Reset
      <3>1. \E msg \in Msgs : Grown(msg)
         BY <2>4, Acting DEF Msgs, Final
      <3>2. ~homed' /\ UNCHANGED <<wpc, frame, state, gen, on, stopE, awaiting>>
         BY <2>4 DEF Reset, StopMotion
      <3>3. Trusting => \A i \in 1..Len(down') : down'[i].homed => down'[i].homeGen = gen
         BY <3>1, <3>2, ZeroLine
      <3> QED BY <3>2, <3>3 DEF Held
  <2> QED BY <1>13, <2>1, <2>2, <2>3, <2>4
<1>14. CASE LoseUp \/ LoseDown
  <2>1. CASE LoseUp
      <3>1. UNCHANGED <<wpc, frame, state, gen, on, stopE, awaiting>>
         BY <2>1 DEF LoseUp
      <3>2. Trusting => /\ homed' => homeGen' = gen
                        /\ \A i \in 1..Len(down') : down'[i].homed => down'[i].homeGen = gen
        <4>1. CASE UNCHANGED <<down, fw>>
           BY <4>1
        <4>2. CASE Grown("malformed") /\ ~homed'
           BY <4>2, ZeroLine
        <4> QED BY <2>1, <4>1, <4>2, Losing
      <3> QED BY <3>1, <3>2 DEF Held
  <2>2. CASE LoseDown
    BY <2>2 DEF LoseDown, Held
  <2> QED BY <1>14, <2>1, <2>2
<1> QED BY <1>1, <1>2, <1>3, <1>4, <1>5, <1>6, <1>7, <1>8, <1>9, <1>10,
      <1>11, <1>12, <1>13, <1>14 DEF Next, Worker, Firmware

LEMMA CalmLine ==
  ASSUME Carried, NEW msg, Grown(msg), msg \notin Final, ~moving',
         \A i \in 1..Len(down) : Calm(down[i])
  PROVE  \A i \in 1..Len(down') : Calm(down'[i])
<1>1. Len(down) \in Nat
   BY DEF Carried
<1> QED BY <1>1 DEF Grown, Calm

(* A command the worker has written is the only one under way.              *)
LEMMA WaitingStep ==
  ASSUME Flags, Counters, Stored, Carried, Young, Sent, Kinded, Prompt, Control, Owned, Blinded, Waiting, Moving, Over, Next
  PROVE  Waiting'
<1> USE DEF Waiting, Trusting, Current, Task, Flags, Control, Counters, shared,
   gui, worker, line, fw
<1>1. CASE Post \/ Put \/ Press
  <2>1. CASE Post
    BY <2>1 DEF Post, Held
  <2>2. CASE Put
    BY <2>2 DEF Put, Held
  <2>3. CASE Press
      <3>1. ~Trusting'
         BY <2>3 DEF Press, Goto, Close, Stop
      <3> QED BY <3>1
  <2> QED BY <1>1, <2>1, <2>2, <2>3
<1>2. CASE Connect \/ Connected \/ Disconnect
  <2>1. CASE Connect
      <3>1. ~Trusting'
         BY <2>1 DEF Connect, Goto, Close, Stop
      <3> QED BY <3>1
  <2>2. CASE Connected
      <3>1. ~Trusting'
         BY <2>2 DEF Connected, Goto, Close, Stop
      <3> QED BY <3>1
  <2>3. CASE Disconnect
      <3>1. ~Trusting'
         BY <2>3 DEF Disconnect, Goto, Close, Stop
      <3> QED BY <3>1
  <2> QED BY <1>2, <2>1, <2>2, <2>3
<1>3. CASE Tick \/ Wake \/ NoFrame \/ Show \/ Accept
  <2>1. CASE Tick
    BY <2>1 DEF Tick, Goto, Held
  <2>2. CASE Wake
    BY <2>2 DEF Wake, Goto, Held
  <2>3. CASE NoFrame
    BY <2>3 DEF NoFrame, Goto, Held
  <2>4. CASE Show
    BY <2>4 DEF Show, Goto, Held
  <2>5. CASE Accept
    BY <2>5 DEF Accept, Goto, CanAccept, Held
  <2> QED BY <1>3, <2>1, <2>2, <2>3, <2>4, <2>5
<1>4. CASE WriteStop \/ StopWritten
  <2>1. CASE WriteStop
      <3>1. ~Trusting'
         BY <2>1 DEF WriteStop, Goto, Close, Stop
      <3> QED BY <3>1
  <2>2. CASE StopWritten
      <3>1. ~Trusting'
         BY <2>2 DEF StopWritten, Goto, Close, Stop
      <3> QED BY <3>1
  <2> QED BY <1>4, <2>1, <2>2
<1>5. CASE Recover \/ ClearEvent \/ ClearRest
  <2>1. CASE Recover
      <3>1. ~Trusting'
         BY <2>1 DEF Recover, Goto, Close, Stop
      <3> QED BY <3>1
  <2>2. CASE ClearEvent
      <3>1. ~Trusting'
         BY <2>2 DEF ClearEvent, Goto, Close, Stop
      <3> QED BY <3>1
  <2>3. CASE ClearRest
    BY <2>3 DEF ClearRest, Goto, Held
  <2> QED BY <1>5, <2>1, <2>2, <2>3
<1>6. CASE Take \/ Gate
  <2>1. CASE Take
    BY <2>1 DEF Take, Held
  <2>2. CASE Gate
    BY <2>2 DEF Gate, Goto, Held
  <2> QED BY <1>6, <2>1, <2>2
<1>7. CASE Trust
    <2> SUFFICES ASSUME Trusting' PROVE Waiting'
       OBVIOUS
    <2>1. /\ on /\ ~stopE /\ ~stopE' /\ wpc = "trust" /\ wpc' = "show" /\ gen' = gen
          /\ pend' = IF Settles THEN Nothing
                     ELSE [pend EXCEPT !.ack = @ \/ (IsMotion /\ frame.moving)]
          /\ UNCHANGED <<up, down, moving>>
       BY <1>7 DEF Trust, Goto, Stop
    <2>2. CASE awaiting
      <3>1. Blind
         BY <1>7, <2>1, <2>2 DEF Trust, Blind
      <3> QED BY <2>1, <3>1 DEF Blinded
    <2>3. CASE ~awaiting
      <3> SUFFICES ASSUME NEW i \in 1..Len(up), up[i] # Status, Current, ~pend.ack, Calm(frame)
                   PROVE  pend' = pend
         BY <2>1, <2>3 DEF Held
      <3>1. ~Settles /\ ~frame.moving
         BY DEF Settles, Ends, Calm, Final, Kinds
      <3>2. (pend.ack \/ (IsMotion /\ frame.moving)) = FALSE
         BY <3>1
      <3>3. pend' = [pend EXCEPT !.ack = FALSE]
         BY <2>1, <3>1, <3>2
      <3> QED BY <3>3, Unacked DEF Stored
    <2> QED BY <2>2, <2>3
<1>8. CASE ReadFails \/ Stale \/ NoAck
  <2>1. CASE ReadFails
      <3>1. ~Trusting'
         BY <2>1 DEF ReadFails, Goto, Close, Stop
      <3> QED BY <3>1
  <2>2. CASE Stale
      <3>1. ~Trusting'
         BY <2>2 DEF Stale, Goto, Close, Stop
      <3> QED BY <3>1
  <2>3. CASE NoAck
      <3>1. ~Trusting'
         BY <2>3 DEF NoAck, Goto, Close, Stop
      <3> QED BY <3>1
  <2> QED BY <1>8, <2>1, <2>2, <2>3
<1>9. CASE Poll \/ Service
  <2>1. CASE Poll
      <3>1. Trusting' => /\ Trusting /\ up' \in {up, <<Status>>}
                         /\ UNCHANGED <<pend, gen, down, moving>>
                         /\ wpc' = "service" /\ wpc = "timers"
         BY <2>1 DEF Poll, Goto, Close
      <3>2. CASE up' = up
         BY <3>1, <3>2 DEF Held
      <3>3. CASE up' = <<Status>>
         BY <3>3
      <3>4. ~Trusting' => Waiting'
         OBVIOUS
      <3> QED BY <3>1, <3>2, <3>3, <3>4
  <2>2. CASE Service
    BY <2>2 DEF Service, Held
  <2> QED BY <1>9, <2>1, <2>2
<1>10. CASE Write \/ Note
  <2>1. CASE Write
      <3> SUFFICES ASSUME Trusting' PROVE Waiting'
         OBVIOUS
      <3>1. /\ ~stopE /\ on /\ wpc = "write" /\ wpc' = "note" /\ cmd' = cmd
            /\ UNCHANGED <<pend, gen, down, moving>>
         BY <2>1 DEF Write, Goto, Stop
      <3>2. ~awaiting /\ ~cool /\ pend = Nothing /\ cmd.gen = gen /\ ~cmd.ack /\ cmd.kind \in Kinds
         BY <3>1 DEF Owned, Kinded
      <3>3. Trusting /\ ~Current
         BY <3>1, <3>2, Lines DEF Kinds
      <3>4. /\ \A i \in 1..Len(up) : up[i] = Status
            /\ ~moving /\ \A i \in 1..Len(down) : Calm(down[i])
         BY <3>2, <3>3 DEF Moving, Over
      <3>5. Task' = cmd /\ Current' /\ ~Held'
         BY <3>1, <3>2 DEF Held
      <3>6. CASE up' = up
         BY <3>4, <3>6
      <3>7. CASE Sending(cmd)
        <4> SUFFICES ASSUME NEW i \in 1..Len(up'), up'[i] # Status
                     PROVE  /\ up'[i] = cmd
                            /\ \A j \in 1..Len(up') : j # i => up'[j] = Status
           BY <3>1, <3>2, <3>4, <3>5
        <4>1. i = Len(up) + 1
           BY <3>4, <3>7 DEF Sending, Carried
        <4> QED BY <3>4, <3>7, <4>1 DEF Sending, Carried
      <3> QED BY <2>1, <3>6, <3>7, Writing
  <2>2. CASE Note
    BY <2>2 DEF Note, Goto, Held
  <2> QED BY <1>10, <2>1, <2>2
<1>11. CASE CoolEnds
    BY <1>11 DEF CoolEnds, Held
<1>12. CASE Execute
    <2> SUFFICES ASSUME Trusting', NEW i \in 1..Len(up'), up'[i] # Status
                 PROVE  /\ Current' /\ up'[i] = Task' /\ ~Task'.ack /\ ~moving'
                        /\ \A j \in 1..Len(up') : j # i => up'[j] = Status
                        /\ \A j \in 1..Len(down') : Calm(down'[j])
                        /\ Held' => Calm(frame')
       BY DEF Waiting, Calm
    <2>1. /\ Trusting /\ UNCHANGED <<wpc, frame, pend, cmd, gen>>
       BY <1>12, Executing
    <2>2. /\ Len(up) \in Nat \ {0} /\ Len(up') = Len(up) - 1
          /\ \A j \in 1..Len(up) - 1 : up'[j] = up[j + 1]
       BY <1>12, Executing
    <2>3. i + 1 \in 1..Len(up) /\ up[i + 1] # Status /\ up'[i] = up[i + 1] /\ 1 # i + 1
       BY <2>2
    <2>4. /\ Current /\ up[i + 1] = Task /\ ~Task.ack /\ ~moving
          /\ \A j \in 1..Len(up) : j # i + 1 => up[j] = Status
          /\ \A j \in 1..Len(down) : Calm(down[j])
          /\ Held => Calm(frame)
       BY <2>1, <2>3
    <2>5. up[1] = Status
       BY <2>2, <2>3, <2>4
    <2>6. Grown("ok") /\ moving' = moving
       BY <1>12, <2>5, StatusAnswered DEF fw
    <2>7. \A j \in 1..Len(down') : Calm(down'[j])
       BY <2>4, <2>6, CalmLine DEF Final
    <2>8. \A j \in 1..Len(up') : j # i => up'[j] = Status
       BY <2>2, <2>4
    <2> QED BY <2>1, <2>3, <2>4, <2>6, <2>7, <2>8 DEF Held
<1>13. CASE Arrive \/ Quiet \/ ContactLost \/ Reset
  <2>1. CASE Arrive
      <3>1. moving /\ UNCHANGED <<wpc, frame, pend, cmd, gen, on, stopE, awaiting, up>>
         BY <2>1 DEF Arrive, StopMotion
      <3> QED BY <3>1 DEF Moving
  <2>2. CASE Quiet
    BY <2>2 DEF Quiet, Held
  <2>3. CASE ContactLost
      <3>1. moving /\ UNCHANGED <<wpc, frame, pend, cmd, gen, on, stopE, awaiting, up>>
         BY <2>3 DEF ContactLost, StopMotion
      <3> QED BY <3>1 DEF Moving
  <2>4. CASE Reset
      <3>1. up' = <<>>
         BY <2>4 DEF Reset
      <3> QED BY <3>1
  <2> QED BY <1>13, <2>1, <2>2, <2>3, <2>4
<1>14. CASE LoseUp \/ LoseDown
  <2>1. CASE LoseUp
      <3> SUFFICES ASSUME Trusting', NEW i \in 1..Len(up'), up'[i] # Status
                   PROVE  /\ Current' /\ up'[i] = Task' /\ ~Task'.ack /\ ~moving'
                          /\ \A j \in 1..Len(up') : j # i => up'[j] = Status
                          /\ \A j \in 1..Len(down') : Calm(down'[j])
                          /\ Held' => Calm(frame')
         BY DEF Waiting, Calm
      <3>1. /\ Trusting /\ UNCHANGED <<wpc, frame, pend, cmd, gen>>
         BY <2>1 DEF LoseUp
      <3>2. PICK k \in 1..Len(up) : /\ Len(up') = Len(up) - k
                                   /\ \A j \in 1..Len(up) - k : up'[j] = up[j + k]
         BY <2>1, Losing
      <3>3. i + k \in 1..Len(up) /\ up[i + k] # Status /\ up'[i] = up[i + k]
         BY <3>2, SMTT(30) DEF Carried
      <3>4. /\ Current /\ up[i + k] = Task /\ ~Task.ack /\ ~moving
            /\ \A j \in 1..Len(up) : j # i + k => up[j] = Status
            /\ \A j \in 1..Len(down) : Calm(down[j])
            /\ Held => Calm(frame)
         BY <3>1, <3>3
      <3>5. ~moving' /\ \A j \in 1..Len(down') : Calm(down'[j])
        <4>1. CASE UNCHANGED <<down, fw>>
           BY <3>4, <4>1
        <4>2. CASE Grown("malformed") /\ ~moving'
           BY <3>4, <4>2, CalmLine DEF Final
        <4> QED BY <2>1, <4>1, <4>2, Losing
      <3>6. ASSUME NEW j \in 1..Len(up'), j # i PROVE up'[j] = Status
        <4>1. j \in 1..Len(up) - k /\ j + k \in 1..Len(up) /\ j + k # i + k
           BY <3>2, <3>6 DEF Carried
        <4> QED BY <3>2, <3>4, <4>1
      <3> QED BY <3>1, <3>3, <3>4, <3>5, <3>6 DEF Held
  <2>2. CASE LoseDown
    BY <2>2 DEF LoseDown, Held
  <2> QED BY <1>14, <2>1, <2>2
<1> QED BY <1>1, <1>2, <1>3, <1>4, <1>5, <1>6, <1>7, <1>8, <1>9, <1>10,
      <1>11, <1>12, <1>13, <1>14 DEF Next, Worker, Firmware

LEMMA MovingLine ==
  ASSUME Carried, NEW msg, Grown(msg), msg \notin Final, moving' = TRUE, NEW A,
         \A i \in 1..Len(down) :
           /\ down[i].msg \notin Final
           /\ down[i].moving => \A j \in i+1..Len(down) : down[j].moving
           /\ A => down[i].moving
  PROVE  \A i \in 1..Len(down') :
           /\ down'[i].msg \notin Final
           /\ down'[i].moving => \A j \in i+1..Len(down') : down'[j].moving
           /\ A => down'[i].moving
<1> DEFINE new == [homed |-> homed', moving |-> moving', msg |-> msg,
                   pos |-> pos', homeGen |-> homeGen']
<1>1. /\ Len(down) \in Nat /\ Len(down') \in {Len(down), Len(down) + 1}
      /\ \A i \in 1..Len(down) : down'[i] = down[i]
      /\ \A i \in Len(down)+1..Len(down') : down'[i] = new
   BY GrownBy
<1>2. new.moving /\ new.msg \notin Final
   OBVIOUS
<1> HIDE DEF new
<1> QED BY <1>1, <1>2, SMTT(30)

(* While it moves the stage it does so for the command on record.           *)
LEMMA MovingStep ==
  ASSUME Flags, Counters, Stored, Carried, Young, Sent, Kinded, Prompt, Control, Owned, Blinded, Waiting, Moving, Over, Next
  PROVE  Moving'
<1> USE DEF Moving, Trusting, Current, Task, Flags, Control, Counters, shared,
   gui, worker, line, fw
<1>1. CASE Post \/ Put \/ Press
  <2>1. CASE Post
    BY <2>1 DEF Post, Held
  <2>2. CASE Put
    BY <2>2 DEF Put, Held
  <2>3. CASE Press
      <3>1. ~Trusting'
         BY <2>3 DEF Press, Goto, Close, Stop
      <3> QED BY <3>1
  <2> QED BY <1>1, <2>1, <2>2, <2>3
<1>2. CASE Connect \/ Connected \/ Disconnect
  <2>1. CASE Connect
      <3>1. ~Trusting'
         BY <2>1 DEF Connect, Goto, Close, Stop
      <3> QED BY <3>1
  <2>2. CASE Connected
      <3>1. ~Trusting'
         BY <2>2 DEF Connected, Goto, Close, Stop
      <3> QED BY <3>1
  <2>3. CASE Disconnect
      <3>1. ~Trusting'
         BY <2>3 DEF Disconnect, Goto, Close, Stop
      <3> QED BY <3>1
  <2> QED BY <1>2, <2>1, <2>2, <2>3
<1>3. CASE Tick \/ Wake \/ NoFrame \/ Show \/ Accept
    BY <1>3 DEF Tick, Goto, Held, Wake, NoFrame, Show, Accept, CanAccept
<1>4. CASE WriteStop \/ StopWritten
  <2>1. CASE WriteStop
      <3>1. ~Trusting'
         BY <2>1 DEF WriteStop, Goto, Close, Stop
      <3> QED BY <3>1
  <2>2. CASE StopWritten
      <3>1. ~Trusting'
         BY <2>2 DEF StopWritten, Goto, Close, Stop
      <3> QED BY <3>1
  <2> QED BY <1>4, <2>1, <2>2
<1>5. CASE Recover \/ ClearEvent \/ ClearRest
  <2>1. CASE Recover
      <3>1. ~Trusting'
         BY <2>1 DEF Recover, Goto, Close, Stop
      <3> QED BY <3>1
  <2>2. CASE ClearEvent
      <3>1. ~Trusting'
         BY <2>2 DEF ClearEvent, Goto, Close, Stop
      <3> QED BY <3>1
  <2>3. CASE ClearRest
    BY <2>3 DEF ClearRest, Goto, Held
  <2> QED BY <1>5, <2>1, <2>2, <2>3
<1>6. CASE Take \/ Gate
  <2>1. CASE Take
    BY <2>1 DEF Take, Held
  <2>2. CASE Gate
    BY <2>2 DEF Gate, Goto, Held
  <2> QED BY <1>6, <2>1, <2>2
<1>7. CASE Trust
    <2> SUFFICES ASSUME Trusting', moving' PROVE Moving'
       OBVIOUS
    <2>1. /\ on /\ ~stopE /\ ~stopE' /\ wpc = "trust" /\ wpc' = "show" /\ gen' = gen
          /\ pend' = IF Settles THEN Nothing
                     ELSE [pend EXCEPT !.ack = @ \/ (IsMotion /\ frame.moving)]
          /\ UNCHANGED <<up, down, moving, cur>>
       BY <1>7 DEF Trust, Goto, Stop
    <2>2. ~awaiting
      <3>1. SUFFICES ASSUME awaiting PROVE FALSE
         OBVIOUS
      <3>2. Blind /\ Settled(frame) /\ Held
         BY <2>1, <3>1 DEF Blind, Settled, Held
      <3> QED BY <2>1, <3>2 DEF Blinded, TruthfulFrame
    <2>3. /\ Trusting /\ Current /\ Task = pend /\ frame.msg \notin Final
          /\ pend.ack => frame.moving
          /\ frame.moving => \A j \in 1..Len(down) : down[j].moving
       BY <2>1, <2>2 DEF Held
    <2>4. ~Settles
       BY <2>3 DEF Settles, Ends, Final, Kinds
    <2>5. /\ pend'.kind = pend.kind /\ pend'.gen = pend.gen
          /\ pend'.ack => pend.ack \/ frame.moving
       BY <2>1, <2>4 DEF Stored, Command
    <2> QED BY <2>1, <2>2, <2>3, <2>5 DEF Held
<1>8. CASE ReadFails \/ Stale \/ NoAck
  <2>1. CASE ReadFails
      <3>1. ~Trusting'
         BY <2>1 DEF ReadFails, Goto, Close, Stop
      <3> QED BY <3>1
  <2>2. CASE Stale
      <3>1. ~Trusting'
         BY <2>2 DEF Stale, Goto, Close, Stop
      <3> QED BY <3>1
  <2>3. CASE NoAck
      <3>1. ~Trusting'
         BY <2>3 DEF NoAck, Goto, Close, Stop
      <3> QED BY <3>1
  <2> QED BY <1>8, <2>1, <2>2, <2>3
<1>9. CASE Poll \/ Service
  <2>1. CASE Poll
      <3>1. Trusting' => /\ Trusting /\ up' \in {up, <<Status>>}
                         /\ UNCHANGED <<pend, gen, down, moving, cur>>
                         /\ wpc' = "service" /\ wpc = "timers"
         BY <2>1 DEF Poll, Goto, Close
      <3>2. CASE up' = up
         BY <3>1, <3>2 DEF Held
      <3>3. CASE up' = <<Status>>
        <4>1. \A i \in 1..Len(up') : up'[i] = Status
           BY <3>3
        <4> QED BY <3>1, <4>1 DEF Held
      <3>4. ~Trusting' => Moving'
         OBVIOUS
      <3> QED BY <3>1, <3>2, <3>3, <3>4
  <2>2. CASE Service
    BY <2>2 DEF Service, Held
  <2> QED BY <1>9, <2>1, <2>2
<1>10. CASE Write \/ Note
  <2>1. CASE Write
      <3>1. ASSUME Trusting' PROVE ~moving'
        <4>1. ~stopE /\ on /\ wpc = "write" /\ UNCHANGED <<pend, moving>>
           BY <2>1, <3>1 DEF Write, Goto, Stop
        <4>2. ~awaiting /\ pend = Nothing
           BY <4>1 DEF Owned
        <4>3. Trusting /\ ~Current
           BY <4>1, <4>2, Lines DEF Kinds
        <4> QED BY <4>1, <4>3
      <3> QED BY <3>1
  <2>2. CASE Note
    BY <2>2 DEF Note, Goto, Held
  <2> QED BY <1>10, <2>1, <2>2
<1>11. CASE CoolEnds
    BY <1>11 DEF CoolEnds, Held
<1>12. CASE Execute
    <2> SUFFICES ASSUME Trusting', moving' PROVE Moving'
       OBVIOUS
    <2>1. /\ Trusting /\ UNCHANGED <<wpc, frame, pend, cmd, gen>> /\ moving' = TRUE
       BY <1>12, Executing
    <2>2. /\ Len(up) \in Nat \ {0} /\ Len(up') = Len(up) - 1
          /\ \A j \in 1..Len(up) - 1 : up'[j] = up[j + 1]
       BY <1>12, Executing
    <2>3. Current' = Current /\ Task' = Task /\ Held' = Held
       BY <2>1 DEF Held
    <2>4. CASE up[1] = Status
      <3>1. Grown("ok") /\ UNCHANGED fw
         BY <1>12, <2>4, StatusAnswered
      <3>2. moving /\ cur' = cur
         BY <2>1, <3>1 DEF fw
      <3>3. /\ Current /\ cur.gen = gen /\ \A i \in 1..Len(up) : up[i] = Status
            /\ \A i \in 1..Len(down) :
                 /\ down[i].msg \notin Final
                 /\ down[i].moving => \A j \in i+1..Len(down) : down[j].moving
                 /\ Task.ack => down[i].moving
            /\ Held => /\ frame.msg \notin Final
                       /\ Task.ack => frame.moving
                       /\ frame.moving => \A j \in 1..Len(down) : down[j].moving
         BY <2>1, <3>2
      <3>4. \A i \in 1..Len(down') :
                 /\ down'[i].msg \notin Final
                 /\ down'[i].moving => \A j \in i+1..Len(down') : down'[j].moving
                 /\ Task.ack => down'[i].moving
         BY <2>1, <3>1, <3>3, MovingLine DEF Final
      <3>5. Held /\ frame.moving => \A j \in 1..Len(down') : down'[j].moving
         BY <2>1, <3>1, <3>3 DEF Grown, Carried
      <3>6. \A i \in 1..Len(up') : up'[i] = Status
         BY <2>2, <3>3
      <3> QED BY <2>1, <2>3, <3>2, <3>3, <3>4, <3>5, <3>6 DEF Moving
    <2>5. CASE up[1] # Status
      <3>1. /\ Current /\ up[1] = Task /\ ~Task.ack /\ ~moving
            /\ \A j \in 1..Len(up) : j # 1 => up[j] = Status
            /\ \A j \in 1..Len(down) : Calm(down[j])
            /\ Held => Calm(frame)
        <4>1. 1 \in 1..Len(up)
           BY <2>2
        <4> QED BY <2>1, <2>5, <4>1 DEF Waiting
      <3>2. Grown("moving") /\ cur' = up[1]
         BY <1>12, <2>1, <3>1, Executing DEF Obeyed, fw
      <3>3. \A i \in 1..Len(down) :
                 /\ down[i].msg \notin Final
                 /\ down[i].moving => \A j \in i+1..Len(down) : down[j].moving
                 /\ Task.ack => down[i].moving
         BY <3>1 DEF Calm
      <3>4. \A i \in 1..Len(down') :
                 /\ down'[i].msg \notin Final
                 /\ down'[i].moving => \A j \in i+1..Len(down') : down'[j].moving
                 /\ Task.ack => down'[i].moving
         BY <2>1, <3>2, <3>3, MovingLine DEF Final
      <3>5. \A i \in 1..Len(up') : up'[i] = Status
         BY <2>2, <3>1
      <3>6. Held => frame.msg \notin Final /\ ~frame.moving
         BY <3>1 DEF Calm
      <3> QED BY <2>1, <2>3, <3>1, <3>2, <3>4, <3>5, <3>6 DEF Moving
    <2> QED BY <2>4, <2>5
<1>13. CASE Arrive \/ Quiet \/ ContactLost \/ Reset
  <2>1. CASE Arrive
      <3>1. ~moving'
         BY <2>1 DEF Arrive, StopMotion
      <3> QED BY <3>1
  <2>2. CASE Quiet
    BY <2>2 DEF Quiet, Held
  <2>3. CASE ContactLost
      <3>1. ~moving'
         BY <2>3 DEF ContactLost, StopMotion
      <3> QED BY <3>1
  <2>4. CASE Reset
      <3>1. ~moving'
         BY <2>4 DEF Reset, StopMotion
      <3> QED BY <3>1
  <2> QED BY <1>13, <2>1, <2>2, <2>3, <2>4
<1>14. CASE LoseUp \/ LoseDown
  <2>1. CASE LoseUp
      <3> SUFFICES ASSUME Trusting', moving' PROVE Moving'
         OBVIOUS
      <3>1. UNCHANGED <<on, stopE, awaiting, wpc, frame, pend, cmd, gen>>
         BY <2>1 DEF LoseUp
      <3>2. UNCHANGED <<down, moving, cur>>
         BY <2>1, Losing DEF fw
      <3>3. PICK k \in 1..Len(up) : /\ Len(up') = Len(up) - k
                                   /\ \A j \in 1..Len(up) - k : up'[j] = up[j + k]
         BY <2>1, Losing
      <3>4. \A i \in 1..Len(up) : up[i] = Status
         BY <3>1, <3>2
      <3>5. ASSUME NEW j \in 1..Len(up') PROVE up'[j] = Status
        <4>1. j \in 1..Len(up) - k /\ j + k \in 1..Len(up)
           BY <3>3 DEF Carried
        <4> QED BY <3>3, <3>4, <4>1
      <3> QED BY <3>1, <3>2, <3>5 DEF Held
  <2>2. CASE LoseDown
    BY <2>2 DEF LoseDown, Held
  <2> QED BY <1>14, <2>1, <2>2
<1> QED BY <1>1, <1>2, <1>3, <1>4, <1>5, <1>6, <1>7, <1>8, <1>9, <1>10,
      <1>11, <1>12, <1>13, <1>14 DEF Next, Worker, Firmware

LEMMA HomingLine ==
  ASSUME Carried, NEW msg, Grown(msg), msg # "done", AtRest' => AtRest, NEW A,
         A => ~AtRest,
         \A i \in 1..Len(down) :
           /\ Away(down[i], A)
           /\ down[i].moving => ~AtRest /\ \A j \in i+1..Len(down) : ~Bare(down[j])
  PROVE  \A i \in 1..Len(down') :
           /\ Away(down'[i], A)
           /\ down'[i].moving => ~AtRest' /\ \A j \in i+1..Len(down') : ~Bare(down'[j])
<1> DEFINE new == [homed |-> homed', moving |-> moving', msg |-> msg,
                   pos |-> pos', homeGen |-> homeGen']
<1>1. /\ Len(down) \in Nat /\ Len(down') \in {Len(down), Len(down) + 1}
      /\ \A i \in 1..Len(down) : down'[i] = down[i]
      /\ \A i \in Len(down)+1..Len(down') : down'[i] = new
   BY GrownBy
<1>2. new.msg # "done" /\ (Bare(new) => AtRest') /\ (new.moving => ~AtRest')
   BY DEF Bare, AtRest
<1> HIDE DEF new
<1> SUFFICES ASSUME NEW i \in 1..Len(down')
             PROVE  /\ Away(down'[i], A)
                    /\ down'[i].moving =>
                         ~AtRest' /\ \A j \in i+1..Len(down') : ~Bare(down'[j])
   OBVIOUS
<1>3. CASE i \in 1..Len(down)
  <2>1. down'[i] = down[i]
     BY <1>1, <1>3
  <2>2. ASSUME down[i].moving, NEW j \in i+1..Len(down') PROVE ~Bare(down'[j])
    <3>1. CASE j \in i+1..Len(down)
      <4>1. j \in 1..Len(down)
         BY <1>1, <1>3, <3>1
      <4> QED BY <1>1, <1>3, <2>2, <3>1, <4>1
    <3>2. CASE j \notin i+1..Len(down)
      <4>1. j \in Len(down)+1..Len(down')
         BY <1>1, <1>3, <3>2
      <4> QED BY <1>1, <1>2, <1>3, <2>2, <4>1
    <3> QED BY <3>1, <3>2
  <2> QED BY <1>3, <2>1, <2>2
<1>4. CASE i \notin 1..Len(down)
  <2>1. /\ i \in Len(down)+1..Len(down') /\ down'[i] = new
        /\ i+1..Len(down') = {}
     BY <1>1, <1>4
  <2>2. Away(new, A)
     BY <1>2 DEF Away
  <2> QED BY <1>2, <2>1, <2>2
<1> QED BY <1>3, <1>4

(* An answer that does not show the stage at rest where it was not.          *)
LEMMA HomingOn ==
  ASSUME Carried, NEW msg, Grown(msg), msg # "done", AtRest' => AtRest,
         UNCHANGED <<wpc, frame, pend, cmd, gen>>, finished \subseteq finished',
         Trusting' => Trusting, Homing, moving' => (Returning' => cur'.n = Task.n)
  PROVE  Homing'
<1> SUFFICES ASSUME Trusting', Returning' PROVE Homing'
   BY DEF Homing
<1>1. Task' = Task /\ Current' = Current /\ Held' = Held
   BY DEF Task, Current, Held
<1>2. Trusting /\ Returning
   BY <1>1 DEF Returning
<1>3. /\ Task.ack => ~AtRest
      /\ \A i \in 1..Len(down) :
           /\ Away(down[i], Task.ack)
           /\ down[i].moving => ~AtRest /\ \A j \in i+1..Len(down) : ~Bare(down[j])
   BY <1>2 DEF Homing
<1>4. \A i \in 1..Len(down') :
           /\ Away(down'[i], Task.ack)
           /\ down'[i].moving => ~AtRest' /\ \A j \in i+1..Len(down') : ~Bare(down'[j])
   BY <1>3, HomingLine
<1>5. ASSUME Held, frame.moving PROVE ~AtRest' /\ \A j \in 1..Len(down') : ~Bare(down'[j])
  <2>1. ~AtRest /\ \A j \in 1..Len(down) : ~Bare(down[j])
     BY <1>2, <1>5 DEF Homing
  <2>2. ASSUME NEW j \in 1..Len(down') PROVE ~Bare(down'[j])
    <3>1. CASE j \in 1..Len(down)
       BY <2>1, <3>1, GrownBy
    <3>2. CASE j \notin 1..Len(down)
      <4>1. down'[j] = [homed |-> homed', moving |-> moving', msg |-> msg,
                        pos |-> pos', homeGen |-> homeGen']
         BY <3>2, GrownBy
      <4> QED BY <2>1, <4>1 DEF Bare, AtRest
    <3> QED BY <3>1, <3>2
  <2> QED BY <2>1, <2>2
<1>6. Held => Away(frame, Task.ack)
   BY <1>2 DEF Homing
<1> QED BY <1>1, <1>2, <1>3, <1>4, <1>5, <1>6 DEF Homing, Returning

(* A motion to zero that was seen to begin is not shown as ended before it   *)
(* has, unless the board has lost its reference.                             *)
LEMMA HomingStep ==
  ASSUME Flags, Counters, Stored, Carried, Young, Sent, Kinded, Prompt, Control, Owned,
         Blinded, Waiting, Moving, Over, Homing, Next
  PROVE  Homing'
<1> USE DEF Homing, Returning, Away, AtRest, Trusting, Current, Task, Flags,
   Control, Counters, shared, gui, worker, line, fw
<1>1. CASE Post \/ Put \/ Press
  <2>1. CASE Post
    BY <2>1 DEF Post, Held
  <2>2. CASE Put
    BY <2>2 DEF Put, Held
  <2>3. CASE Press
      <3>1. ~Trusting'
         BY <2>3 DEF Press, Goto, Close, Stop
      <3> QED BY <3>1
  <2> QED BY <1>1, <2>1, <2>2, <2>3
<1>2. CASE Connect \/ Connected \/ Disconnect
  <2>1. CASE Connect
      <3>1. ~Trusting'
         BY <2>1 DEF Connect, Goto, Close, Stop
      <3> QED BY <3>1
  <2>2. CASE Connected
      <3>1. ~Trusting'
         BY <2>2 DEF Connected, Goto, Close, Stop
      <3> QED BY <3>1
  <2>3. CASE Disconnect
      <3>1. ~Trusting'
         BY <2>3 DEF Disconnect, Goto, Close, Stop
      <3> QED BY <3>1
  <2> QED BY <1>2, <2>1, <2>2, <2>3
<1>3. CASE Tick \/ Wake \/ NoFrame \/ Show \/ Accept
    BY <1>3 DEF Tick, Goto, Held, Wake, NoFrame, Show, Accept, CanAccept
<1>4. CASE WriteStop \/ StopWritten
  <2>1. CASE WriteStop
      <3>1. ~Trusting'
         BY <2>1 DEF WriteStop, Goto, Close, Stop
      <3> QED BY <3>1
  <2>2. CASE StopWritten
      <3>1. ~Trusting'
         BY <2>2 DEF StopWritten, Goto, Close, Stop
      <3> QED BY <3>1
  <2> QED BY <1>4, <2>1, <2>2
<1>5. CASE Recover \/ ClearEvent \/ ClearRest
  <2>1. CASE Recover
      <3>1. ~Trusting'
         BY <2>1 DEF Recover, Goto, Close, Stop
      <3> QED BY <3>1
  <2>2. CASE ClearEvent
      <3>1. ~Trusting'
         BY <2>2 DEF ClearEvent, Goto, Close, Stop
      <3> QED BY <3>1
  <2>3. CASE ClearRest
    BY <2>3 DEF ClearRest, Goto, Held
  <2> QED BY <1>5, <2>1, <2>2, <2>3
<1>6. CASE Take \/ Gate
  <2>1. CASE Take
    BY <2>1 DEF Take, Held
  <2>2. CASE Gate
    BY <2>2 DEF Gate, Goto, Held
  <2> QED BY <1>6, <2>1, <2>2
<1>7. CASE Trust
    <2> SUFFICES ASSUME Trusting', Returning' PROVE Homing'
       OBVIOUS
    <2>1. /\ on /\ ~stopE /\ ~stopE' /\ wpc = "trust" /\ wpc' = "show" /\ gen' = gen
          /\ pend' = IF Settles THEN Nothing
                     ELSE [pend EXCEPT !.ack = @ \/ (IsMotion /\ frame.moving)]
          /\ UNCHANGED <<up, down, moving, homed, cur, finished>>
       BY <1>7 DEF Trust, Goto, Stop
    <2>2. ~Settles
       BY <2>1, Lines DEF Kinds
    <2>3. /\ pend'.kind = pend.kind /\ pend'.gen = pend.gen /\ pend'.n = pend.n
          /\ pend'.ack => pend.ack \/ frame.moving
       BY <2>1, <2>2 DEF Stored, Command
    <2>4. ~awaiting
       BY <2>1, <2>3, Lines DEF Owned, Kinds, Young
    <2>5. Trusting /\ Returning /\ Held
       BY <2>1, <2>3, <2>4 DEF Held
    <2>6. pend'.ack => ~AtRest /\ \A j \in 1..Len(down) : ~Bare(down[j])
       BY <2>1, <2>3, <2>5
    <2> QED BY <2>1, <2>3, <2>5, <2>6 DEF Held
<1>8. CASE ReadFails \/ Stale \/ NoAck
  <2>1. CASE ReadFails
      <3>1. ~Trusting'
         BY <2>1 DEF ReadFails, Goto, Close, Stop
      <3> QED BY <3>1
  <2>2. CASE Stale
      <3>1. ~Trusting'
         BY <2>2 DEF Stale, Goto, Close, Stop
      <3> QED BY <3>1
  <2>3. CASE NoAck
      <3>1. ~Trusting'
         BY <2>3 DEF NoAck, Goto, Close, Stop
      <3> QED BY <3>1
  <2> QED BY <1>8, <2>1, <2>2, <2>3
<1>9. CASE Poll \/ Service
  <2>1. CASE Poll
      <3>1. Trusting' => /\ Trusting
                         /\ UNCHANGED <<pend, gen, down, moving, homed, cur, finished>>
                         /\ wpc' = "service" /\ wpc = "timers"
         BY <2>1 DEF Poll, Goto, Close
      <3> QED BY <3>1 DEF Held
  <2>2. CASE Service
    BY <2>2 DEF Service, Held
  <2> QED BY <1>9, <2>1, <2>2
<1>10. CASE Write \/ Note
  <2>1. CASE Write
      <3> SUFFICES ASSUME Trusting', Returning' PROVE Homing'
         OBVIOUS
      <3>1. ~stopE /\ on /\ wpc = "write" /\ UNCHANGED <<pend, cmd, moving, homed, down, gen>>
         BY <2>1 DEF Write, Goto, Stop
      <3>2. ~awaiting /\ ~cool /\ pend = Nothing /\ ~cmd.ack
         BY <3>1 DEF Owned
      <3>3. Trusting /\ ~Current
         BY <3>1, <3>2, Lines DEF Kinds
      <3>4. ~moving /\ \A i \in 1..Len(down) : Calm(down[i])
         BY <3>2, <3>3 DEF Moving, Over
      <3>5. wpc' # "trust" /\ wpc' # "gate"
         BY <2>1, <3>1 DEF Write, Goto, Stop
      <3>6. ~Task'.ack
         BY <3>1, <3>2, Lines
      <3> QED BY <3>1, <3>4, <3>5, <3>6 DEF Held, Calm, Final
  <2>2. CASE Note
    BY <2>2 DEF Note, Goto, Held
  <2> QED BY <1>10, <2>1, <2>2
<1>11. CASE CoolEnds
    BY <1>11 DEF CoolEnds, Held
<1>12. CASE Execute
  <2>1. UNCHANGED <<wpc, frame, pend, cmd, gen, on, stopE, awaiting>>
     BY <1>12, Executing
  <2>2. finished \subseteq finished'
     BY <1>12, Executed
  <2>3. CASE up[1] = Status
    <3> SUFFICES ASSUME Trusting', Returning' PROVE Homing'
       OBVIOUS
    <3>1. Grown("ok") /\ UNCHANGED fw
       BY <1>12, <2>3, StatusAnswered
    <3>2. moving' => cur'.n = Task.n
       BY <2>1, <3>1
    <3> QED BY <2>1, <3>1, <3>2, HomingOn
  <2>4. CASE up[1] # Status
    <3> SUFFICES ASSUME Trusting', Returning' PROVE Homing'
       OBVIOUS
    <3>1. Trusting /\ Returning /\ Task' = Task
       BY <2>1, <2>2
    <3>2. Len(up) \in Nat \ {0}
       BY <1>12, Executing
    <3>3. up[1] = Task /\ ~moving
      <4>1. 1 \in 1..Len(up)
         BY <3>2
      <4> QED BY <2>4, <3>1, <4>1 DEF Waiting
    <3>4. up[1].kind = "home" /\ up[1].n \notin finished'
       BY <3>1, <3>3
    <3>5. CASE (Grown("busy") \/ Grown("rejected")) /\ UNCHANGED fw
       BY <2>1, <2>2, <3>3, <3>5, HomingOn
    <3>6. CASE Grown("moving") /\ moving' /\ cur' = up[1]
       BY <2>1, <2>2, <3>3, <3>6, HomingOn
    <3> QED BY <1>12, <3>4, <3>5, <3>6, Executing DEF Obeyed, Motions
  <2> QED BY <2>3, <2>4
<1>13. CASE Arrive \/ Quiet \/ ContactLost \/ Reset
  <2>1. CASE Arrive
    <3> SUFFICES ASSUME Trusting', Returning' PROVE FALSE
       OBVIOUS
    <3>1. /\ moving /\ finished' = finished \cup {cur.n}
          /\ UNCHANGED <<on, stopE, awaiting, wpc, pend, cmd, gen>>
       BY <2>1 DEF Arrive
    <3> QED BY <3>1
  <2>2. CASE Quiet
    BY <2>2 DEF Quiet, Held
  <2>3. CASE ContactLost
    BY <2>3, Acting, HomingOn DEF ContactLost, StopMotion
  <2>4. CASE Reset
    BY <2>4, Acting, HomingOn DEF Reset
  <2> QED BY <1>13, <2>1, <2>2, <2>3, <2>4
<1>14. CASE LoseUp \/ LoseDown
  <2>1. CASE LoseUp
    <3>1. UNCHANGED <<on, stopE, awaiting, wpc, frame, pend, cmd, gen>>
       BY <2>1 DEF LoseUp
    <3>2. CASE UNCHANGED <<down, fw>>
       BY <3>1, <3>2 DEF Held
    <3>3. CASE Grown("malformed") /\ ~moving' /\ ~homed' /\ finished' = finished
       BY <3>1, <3>3, HomingOn
    <3> QED BY <2>1, <3>2, <3>3, Losing
  <2>2. CASE LoseDown
    BY <2>2, Tails DEF LoseDown, Held, Carried
  <2> QED BY <1>14, <2>1, <2>2
<1> QED BY <1>1, <1>2, <1>3, <1>4, <1>5, <1>6, <1>7, <1>8, <1>9, <1>10,
      <1>11, <1>12, <1>13, <1>14 DEF Next, Worker, Firmware

LEMMA OverLine ==
  ASSUME Carried, NEW msg, Grown(msg),
         \/ \A i \in 1..Len(down) : down[i].msg \notin Final
         \/ /\ msg \notin Final /\ ~moving'
            /\ \A i \in 1..Len(down) :
                 down[i].msg \in Final => \A j \in i+1..Len(down) : Calm(down[j])
  PROVE  \A i \in 1..Len(down') :
           down'[i].msg \in Final => \A j \in i+1..Len(down') : Calm(down'[j])
<1> DEFINE new == [homed |-> homed', moving |-> moving', msg |-> msg,
                   pos |-> pos', homeGen |-> homeGen']
<1>1. /\ Len(down) \in Nat /\ Len(down') \in {Len(down), Len(down) + 1}
      /\ \A i \in 1..Len(down) : down'[i] = down[i]
      /\ \A i \in Len(down)+1..Len(down') : down'[i] = new
   BY GrownBy
<1>2. new.msg = msg /\ (msg \notin Final /\ ~moving' => Calm(new))
   BY DEF Calm
<1> HIDE DEF new
<1>3. CASE \A i \in 1..Len(down) : down[i].msg \notin Final
   BY <1>1, <1>3
<1>4. CASE /\ msg \notin Final /\ ~moving'
           /\ \A i \in 1..Len(down) :
                down[i].msg \in Final => \A j \in i+1..Len(down) : Calm(down[j])
   BY <1>1, <1>2, <1>4, SMTT(30)
<1> QED BY <1>3, <1>4

(* An answer that ends the command on record ...                             *)
LEMMA Ending ==
  ASSUME Carried, Current, NEW msg, Grown(msg),
         UNCHANGED <<wpc, frame, pend, cmd, gen>>,
         \A i \in 1..Len(down) : down[i].msg \notin Final,
         Held => frame.msg \notin Final
  PROVE  Over'
<1>1. Current' /\ (Held' => frame'.msg \notin Final)
   BY DEF Current, Task, Held
<1>2. \A i \in 1..Len(down') :
        down'[i].msg \in Final => \A j \in i+1..Len(down') : Calm(down'[j])
   BY OverLine
<1> QED BY <1>1, <1>2 DEF Over, Calm

(* ... and one that is not about it.                                         *)
LEMMA Resting ==
  ASSUME Carried, Trusting, Moving, Over, NEW msg, Grown(msg), msg \notin Final, ~moving',
         UNCHANGED <<wpc, frame, pend, cmd, gen, cool>>
  PROVE  Over'
<1>1. CASE moving
  <2>1. /\ Current /\ (Held => frame.msg \notin Final)
        /\ \A i \in 1..Len(down) : down[i].msg \notin Final
     BY <1>1 DEF Moving
  <2> QED BY <2>1, Ending
<1>2. CASE ~moving
  <2>1. \A i \in 1..Len(down') :
          down'[i].msg \in Final => \A j \in i+1..Len(down') : Calm(down'[j])
     BY <1>2, OverLine DEF Over
  <2>2. ASSUME \A i \in 1..Len(down) : Calm(down[i])
        PROVE  \A i \in 1..Len(down') : Calm(down'[i])
     BY <2>2, CalmLine
  <2>3. Held /\ frame.msg \in Final => \A j \in 1..Len(down') : Calm(down'[j])
     BY <1>2, <2>2 DEF Over
  <2>4. ~Current /\ ~cool => /\ \A i \in 1..Len(down') : Calm(down'[i])
                             /\ Held => Calm(frame)
     BY <2>2 DEF Over
  <2>5. Held' = Held /\ Current' = Current
     BY DEF Held, Current, Task
  <2> QED BY <2>1, <2>3, <2>4, <2>5 DEF Over, Calm
<1> QED BY <1>1, <1>2

(* What is over stays over, and is answered once.                           *)
LEMMA OverStep ==
  ASSUME Flags, Counters, Stored, Carried, Young, Sent, Kinded, Prompt, Control, Owned, Blinded, Waiting, Moving, Over, Next
  PROVE  Over'
<1> USE DEF Over, Trusting, Current, Task, Flags, Control, Counters, shared,
   gui, worker, line, fw
<1>1. CASE Post \/ Put \/ Press
  <2>1. CASE Post
    BY <2>1 DEF Post, Held
  <2>2. CASE Put
    BY <2>2 DEF Put, Held
  <2>3. CASE Press
      <3>1. ~Trusting'
         BY <2>3 DEF Press, Goto, Close, Stop
      <3> QED BY <3>1
  <2> QED BY <1>1, <2>1, <2>2, <2>3
<1>2. CASE Connect \/ Connected \/ Disconnect
  <2>1. CASE Connect
      <3>1. ~Trusting'
         BY <2>1 DEF Connect, Goto, Close, Stop
      <3> QED BY <3>1
  <2>2. CASE Connected
      <3>1. ~Trusting'
         BY <2>2 DEF Connected, Goto, Close, Stop
      <3> QED BY <3>1
  <2>3. CASE Disconnect
      <3>1. ~Trusting'
         BY <2>3 DEF Disconnect, Goto, Close, Stop
      <3> QED BY <3>1
  <2> QED BY <1>2, <2>1, <2>2, <2>3
<1>3. CASE Tick \/ Wake \/ NoFrame \/ Show \/ Accept
    BY <1>3 DEF Tick, Goto, Held, Wake, NoFrame, Show, Accept, CanAccept
<1>4. CASE WriteStop \/ StopWritten
  <2>1. CASE WriteStop
      <3>1. ~Trusting'
         BY <2>1 DEF WriteStop, Goto, Close, Stop
      <3> QED BY <3>1
  <2>2. CASE StopWritten
      <3>1. ~Trusting'
         BY <2>2 DEF StopWritten, Goto, Close, Stop
      <3> QED BY <3>1
  <2> QED BY <1>4, <2>1, <2>2
<1>5. CASE Recover \/ ClearEvent \/ ClearRest
  <2>1. CASE Recover
      <3>1. ~Trusting'
         BY <2>1 DEF Recover, Goto, Close, Stop
      <3> QED BY <3>1
  <2>2. CASE ClearEvent
      <3>1. ~Trusting'
         BY <2>2 DEF ClearEvent, Goto, Close, Stop
      <3> QED BY <3>1
  <2>3. CASE ClearRest
    BY <2>3 DEF ClearRest, Goto, Held
  <2> QED BY <1>5, <2>1, <2>2, <2>3
<1>6. CASE Take \/ Gate
  <2>1. CASE Take
    BY <2>1 DEF Take, Held
  <2>2. CASE Gate
    BY <2>2 DEF Gate, Goto, Held
  <2> QED BY <1>6, <2>1, <2>2
<1>7. CASE Trust
    <2> SUFFICES ASSUME Trusting' PROVE Over'
       OBVIOUS
    <2>1. /\ on /\ ~stopE /\ ~stopE' /\ wpc = "trust" /\ wpc' = "show" /\ gen' = gen
          /\ cool' = (cool \/ Ends)
          /\ pend' = IF Settles THEN Nothing
                     ELSE [pend EXCEPT !.ack = @ \/ (IsMotion /\ frame.moving)]
          /\ UNCHANGED <<down, moving>>
       BY <1>7 DEF Trust, Goto, Stop
    <2>2. CASE awaiting
      <3>1. Blind /\ Settled(frame) /\ Held
         BY <2>1, <2>2 DEF Blind, Settled, Held
      <3>2. \A j \in 1..Len(down) : Calm(down[j])
         BY <3>1 DEF Blinded, TruthfulFrame
      <3> QED BY <2>1, <3>2 DEF Held
    <2>3. CASE ~awaiting
      <3>1. /\ Trusting /\ Held /\ Task = pend
         BY <2>1, <2>3 DEF Held
      <3>2. ~moving' => \A i \in 1..Len(down) :
                          down[i].msg \in Final => \A j \in i+1..Len(down) : Calm(down[j])
         BY <2>1, <3>1
      <3>3. ASSUME ~Current', ~cool' PROVE \A i \in 1..Len(down) : Calm(down[i])
        <4>1. ~cool /\ ~Ends
           BY <2>1, <3>3
        <4>2. CASE ~Current
           BY <3>1, <4>1, <4>2
        <4>3. CASE Current /\ Settles
          <5>1. frame.msg \in Final
             BY <4>1, <4>3 DEF Settles, Final, Kinds
          <5>2. ~moving
             BY <3>1, <5>1 DEF Moving
          <5> QED BY <3>1, <5>1, <5>2
        <4>4. CASE Current /\ ~Settles
          <5>1. pend'.kind = pend.kind /\ pend'.gen = pend.gen
             BY <2>1, <4>4 DEF Stored, Command
          <5> QED BY <2>1, <3>1, <3>3, <4>4, <5>1
        <4> QED BY <4>2, <4>3, <4>4
      <3> QED BY <2>1, <3>2, <3>3 DEF Held
    <2> QED BY <2>2, <2>3
<1>8. CASE ReadFails \/ Stale \/ NoAck
  <2>1. CASE ReadFails
      <3>1. ~Trusting'
         BY <2>1 DEF ReadFails, Goto, Close, Stop
      <3> QED BY <3>1
  <2>2. CASE Stale
      <3>1. ~Trusting'
         BY <2>2 DEF Stale, Goto, Close, Stop
      <3> QED BY <3>1
  <2>3. CASE NoAck
      <3>1. ~Trusting'
         BY <2>3 DEF NoAck, Goto, Close, Stop
      <3> QED BY <3>1
  <2> QED BY <1>8, <2>1, <2>2, <2>3
<1>9. CASE Poll \/ Service
    BY <1>9 DEF Poll, Close, Goto, Held, Service
<1>10. CASE Write \/ Note
  <2>1. CASE Write
      <3>1. Trusting' => /\ wpc = "write" /\ wpc' = "note" /\ cmd' = cmd /\ ~stopE /\ on
                         /\ UNCHANGED <<gen, down, moving, awaiting>>
         BY <2>1 DEF Write, Goto, Stop
      <3>2. Trusting' => cmd.gen = gen /\ cmd.kind \in Kinds
         BY <3>1 DEF Owned, Kinded
      <3> QED BY <3>1, <3>2 DEF Held
  <2>2. CASE Note
    BY <2>2 DEF Note, Goto, Held
  <2> QED BY <1>10, <2>1, <2>2
<1>11. CASE CoolEnds
    BY <1>11 DEF CoolEnds, Held
<1>12. CASE Execute
    <2> SUFFICES ASSUME Trusting' PROVE Over'
       OBVIOUS
    <2>1. /\ Trusting /\ UNCHANGED <<wpc, frame, pend, cmd, gen, cool>>
          /\ Len(up) \in Nat \ {0}
       BY <1>12, Executing
    <2>2. CASE up[1] = Status
      <3>1. Grown("ok") /\ moving' = moving
         BY <1>12, <2>2, StatusAnswered DEF fw
      <3>2. CASE moving
        <4>1. /\ Current /\ (Held => frame.msg \notin Final)
              /\ \A i \in 1..Len(down) : down[i].msg \notin Final
           BY <2>1, <3>2 DEF Moving
        <4> QED BY <2>1, <3>1, <4>1, Ending
      <3>3. CASE ~moving
         BY <2>1, <3>1, <3>3, Resting DEF Final
      <3> QED BY <3>2, <3>3
    <2>3. CASE up[1] # Status
      <3>1. /\ Current /\ \A j \in 1..Len(down) : Calm(down[j])
            /\ Held => Calm(frame)
        <4>1. 1 \in 1..Len(up)
           BY <2>1
        <4> QED BY <2>1, <2>3, <4>1 DEF Waiting
      <3>2. \E msg \in Msgs : Grown(msg)
         BY <1>12, Executing DEF Obeyed, Msgs, Final
      <3>3. /\ \A j \in 1..Len(down) : down[j].msg \notin Final
            /\ Held => frame.msg \notin Final
         BY <3>1 DEF Calm
      <3> QED BY <2>1, <3>1, <3>2, <3>3, Ending
    <2> QED BY <2>2, <2>3
<1>13. CASE Arrive \/ Quiet \/ ContactLost \/ Reset
  <2>1. CASE Arrive
      <3> SUFFICES ASSUME Trusting' PROVE Over'
         OBVIOUS
      <3>1. /\ Trusting /\ moving /\ UNCHANGED <<wpc, frame, pend, cmd, gen>> /\ Grown("done")
         BY <2>1, Acting DEF Arrive
      <3>2. /\ Current /\ (Held => frame.msg \notin Final)
            /\ \A i \in 1..Len(down) : down[i].msg \notin Final
         BY <3>1 DEF Moving
      <3> QED BY <3>1, <3>2, Ending
  <2>2. CASE Quiet
    BY <2>2 DEF Quiet, Held
  <2>3. CASE ContactLost
      <3> SUFFICES ASSUME Trusting' PROVE Over'
         OBVIOUS
      <3>1. /\ Trusting /\ moving /\ UNCHANGED <<wpc, frame, pend, cmd, gen>> /\ Grown("stopped")
         BY <2>3, Acting DEF ContactLost
      <3>2. /\ Current /\ (Held => frame.msg \notin Final)
            /\ \A i \in 1..Len(down) : down[i].msg \notin Final
         BY <3>1 DEF Moving
      <3> QED BY <3>1, <3>2, Ending
  <2>4. CASE Reset
      <3> SUFFICES ASSUME Trusting' PROVE Over'
         OBVIOUS
      <3>1. /\ Trusting /\ UNCHANGED <<wpc, frame, pend, cmd, gen, cool>> /\ Grown("ok") /\ ~moving'
         BY <2>4, Acting DEF Reset
      <3> QED BY <3>1, Resting DEF Final
  <2> QED BY <1>13, <2>1, <2>2, <2>3, <2>4
<1>14. CASE LoseUp \/ LoseDown
  <2>1. CASE LoseUp
      <3> SUFFICES ASSUME Trusting' PROVE Over'
         OBVIOUS
      <3>1. Trusting /\ UNCHANGED <<wpc, frame, pend, cmd, gen, cool>>
         BY <2>1 DEF LoseUp
      <3>2. CASE UNCHANGED <<down, fw>>
         BY <3>1, <3>2 DEF fw, Held
      <3>3. CASE Grown("malformed") /\ ~moving'
         BY <3>1, <3>3, Resting DEF Final
      <3> QED BY <2>1, <3>2, <3>3, Losing
  <2>2. CASE LoseDown
      <3>1. /\ Len(down) \in Nat \ {0} /\ Len(down') = Len(down) - 1
            /\ \A i \in 1..Len(down) - 1 : down'[i] = down[i + 1]
         BY <2>2, Tails DEF LoseDown, Carried
      <3>2. UNCHANGED <<on, stopE, awaiting, cool, wpc, frame, pend, cmd, gen, moving>>
         BY <2>2 DEF LoseDown
      <3>3. Trusting' = Trusting /\ Current' = Current /\ Held' = Held
         BY <3>2 DEF Held
      <3>4. ASSUME \A i \in 1..Len(down) : Calm(down[i])
            PROVE  \A i \in 1..Len(down') : Calm(down'[i])
         BY <3>1, <3>4
      <3>5. ASSUME \A i \in 1..Len(down) :
                     down[i].msg \in Final => \A j \in i+1..Len(down) : Calm(down[j])
            PROVE  \A i \in 1..Len(down') :
                     down'[i].msg \in Final => \A j \in i+1..Len(down') : Calm(down'[j])
        <4> SUFFICES ASSUME NEW i \in 1..Len(down'), down'[i].msg \in Final,
                            NEW j \in i+1..Len(down')
                     PROVE  Calm(down'[j])
           OBVIOUS
        <4>1. /\ i + 1 \in 1..Len(down) /\ down'[i] = down[i + 1]
              /\ j + 1 \in (i + 1) + 1..Len(down) /\ down'[j] = down[j + 1]
           BY <3>1
        <4> QED BY <3>5, <4>1
      <3> QED BY <3>2, <3>3, <3>4, <3>5 DEF Calm
  <2> QED BY <1>14, <2>1, <2>2
<1> QED BY <1>1, <1>2, <1>3, <1>4, <1>5, <1>6, <1>7, <1>8, <1>9, <1>10,
      <1>11, <1>12, <1>13, <1>14 DEF Next, Worker, Firmware

(* A command that was overtaken by a stop is not seen to move anything.      *)
LEMMA OvertakenStep ==
  ASSUME Flags, Counters, Stored, Carried, Young, Kinded, Sent, Prompt, Control, Owned,
         Over, Overtaken, Next
  PROVE  Overtaken'
<1> USE Lines DEF Overtaken, Flags, Counters, shared, gui, worker, line, fw
<1>1. CASE Post \/ Put \/ Press
  BY <1>1 DEF Post, Put, Press, Stop
<1>2. CASE Connect \/ Connected \/ Disconnect
  BY <1>2 DEF Connect, Connected, Disconnect, Close, Goto
<1>3. CASE Tick \/ Wake \/ NoFrame \/ Show \/ Accept
  <2>1. CASE Tick
    BY <2>1 DEF Tick, Goto
  <2>2. CASE Wake
    BY <2>2 DEF Wake, Goto
  <2>3. CASE NoFrame
    BY <2>3 DEF NoFrame, Goto
  <2>4. CASE Show
    BY <2>4 DEF Show, Goto
  <2>5. CASE Accept
    BY <2>5 DEF Accept, Goto
  <2> QED BY <1>3, <2>1, <2>2, <2>3, <2>4, <2>5
<1>4. CASE WriteStop \/ StopWritten
  BY <1>4 DEF WriteStop, StopWritten, Close, Goto
<1>5. CASE Recover \/ ClearEvent \/ ClearRest
  BY <1>5 DEF Recover, ClearEvent, ClearRest, Goto
<1>6. CASE Take \/ Gate
  BY <1>6 DEF Take, Gate, Goto
<1>7. CASE Trust
  <2>1. CASE stopE
    <3>1. pend = Nothing /\ ~Settles
       BY <1>7, <2>1 DEF Trust, Settles, Ends, IsMotion, Motions
    <3>2. pend' = Nothing
       BY <1>7, <3>1 DEF Trust, Goto, Stop, IsMotion, Motions, Nothing
    <3> QED BY <1>7, <3>2 DEF Trust, Goto, Stop
  <2>2. CASE ~stopE
    <3>1. CASE pend' = Nothing
       BY <3>1
    <3>2. CASE pend' # Nothing
      <4>1. /\ wpc = "trust" /\ wpc' = "show" /\ gen' = gen /\ stopE' = stopE
            /\ pend' = [pend EXCEPT !.ack = @ \/ (IsMotion /\ frame.moving)]
         BY <1>7, <3>2 DEF Trust, Goto, Stop
      <4>2. /\ pend'.gen = pend.gen
            /\ pend'.ack => pend.ack \/ frame.moving
         BY <4>1 DEF Stored, Command
      <4>3. ASSUME pend.gen < gen PROVE ~frame.moving
        <5>1. CASE awaiting
           BY <2>2, <4>1, <5>1 DEF Control
        <5>2. CASE ~awaiting
          <6>1. Trusting /\ ~Current /\ ~cool /\ Held
             BY <2>2, <4>1, <4>3, <5>2 DEF Trusting, Current, Task, Control, Held, Young
          <6> QED BY <6>1 DEF Over, Calm
        <5> QED BY <5>1, <5>2
      <4>4. ASSUME pend.gen < gen PROVE ~pend'.ack
         BY <4>2, <4>3, <4>4
      <4> QED BY <2>2, <4>1, <4>2, <4>4
    <3> QED BY <3>1, <3>2
  <2> QED BY <2>1, <2>2
<1>8. CASE ReadFails \/ Stale \/ NoAck
  BY <1>8 DEF ReadFails, Stale, NoAck, Stop, Close, Goto
<1>9. CASE Poll \/ Service
  BY <1>9 DEF Poll, Service, Close, Goto
<1>10. CASE Write \/ Note
  BY <1>10 DEF Write, Note, Stop, Goto, Owned
<1>11. CASE CoolEnds
  BY <1>11 DEF CoolEnds
<1>12. CASE Execute
  BY <1>12, Executing
<1>13. CASE Arrive \/ Quiet \/ ContactLost \/ Reset
  BY <1>13 DEF Arrive, Quiet, ContactLost, Reset
<1>14. CASE LoseUp \/ LoseDown
  BY <1>14 DEF LoseUp, LoseDown
<1> QED BY <1>1, <1>2, <1>3, <1>4, <1>5, <1>6, <1>7, <1>8, <1>9, <1>10,
      <1>11, <1>12, <1>13, <1>14 DEF Next, Worker, Firmware

-----------------------------------------------------------------------------
(* The invariant holds at first and in every step, the parts about trust     *)
(* when the periods of silence outlast the line's delay.                     *)

LEMMA InitHolds == Init => Sound /\ Trusted
<1> SUFFICES ASSUME Init PROVE Sound /\ Trusted
   OBVIOUS
<1> USE DEF Init, Disconnected, InSession
<1>1. Flags
   BY DEF Flags
<1>2. Counters
   BY BoundsAssumption DEF Counters, WorkerAt, Elsewhere
<1>3. Stored
  <2>1. CASE Disconnected
     BY <2>1, Lines DEF Stored
  <2>2. CASE InSession
    <3>1. state \in Frame
       BY <2>2 DEF Frame, Msgs
    <3> QED BY <3>1, Lines DEF Stored
  <2> QED BY <2>1, <2>2
<1>4. Carried
   BY BoundsAssumption DEF Carried
<1>5. Young /\ Sent
   BY Lines DEF Young, Sent
<1>6. Kinded
   BY Lines DEF Kinded, Kinds
<1>7. Counted
   BY Lines DEF Counted, Counts, Kinds
<1>8. Control
   BY DEF Control
<1>9. Owned
   BY Lines DEF Owned
<1>10. Blinded /\ Zeroed
   BY DEF Blinded, Blind, Zeroed, Trusting, Held
<1>11. Waiting /\ Moving /\ Over
   BY DEF Waiting, Moving, Over, Trusting, Held
<1>12. Homing /\ Overtaken
   BY Lines DEF Homing, Returning, Current, Task, Kinds, Overtaken
<1> QED BY <1>1, <1>2, <1>3, <1>4, <1>5, <1>6, <1>7, <1>8, <1>9, <1>10, <1>11,
        <1>12 DEF Sound, Trusted

LEMMA SoundHolds == Sound /\ [Next]_vars => Sound'
<1>1. ASSUME Sound, Next PROVE Sound'
   BY <1>1, FlagsStep, CountersStep, StoredStep, CarriedStep, YoungStep, SentStep,
      KindedStep, CountedStep DEF Sound
<1>2. ASSUME Sound, UNCHANGED vars PROVE Sound'
  <2> USE <1>2 DEF Sound, vars, shared, gui, worker, line, fw
  <2>1. Flags' /\ Counters' /\ Stored'
     BY DEF Flags, Counters, Stored
  <2>2. Carried' /\ Young' /\ Sent'
     BY DEF Carried, Young, Sent
  <2>3. Kinded' /\ Counted'
     BY DEF Kinded, Counted, Counts
  <2> QED BY <2>1, <2>2, <2>3
<1> QED BY <1>1, <1>2

LEMMA TrustedHolds == Prompt /\ Sound /\ Trusted /\ [Next]_vars => Trusted'
<1>1. ASSUME Prompt, Sound, Trusted, Next PROVE Trusted'
   BY <1>1, ControlStep, OwnedStep, BlindedStep, ZeroedStep, WaitingStep, MovingStep,
      OverStep, HomingStep, OvertakenStep DEF Sound, Trusted
<1>2. ASSUME Trusted, UNCHANGED vars PROVE Trusted'
  <2> USE <1>2 DEF Trusted, vars, shared, gui, worker, line, fw, Held
  <2>1. Control' /\ Owned'
     BY DEF Control, Owned
  <2>2. Blinded'
     BY DEF Blinded, Blind, TruthfulLine, TruthfulFrame, Settled, Calm
  <2>3. Zeroed'
     BY DEF Zeroed, Trusting
  <2>4. Waiting'
     BY DEF Waiting, Trusting, Current, Task, Calm
  <2>5. Moving'
     BY DEF Moving, Trusting, Current, Task
  <2>6. Over'
     BY DEF Over, Trusting, Current, Task, Calm
  <2>7. Homing'
     BY DEF Homing, Returning, Trusting, Current, Task, AtRest, Away, Bare
  <2>8. Overtaken'
     BY DEF Overtaken
  <2> QED BY <2>1, <2>2, <2>3, <2>4, <2>5, <2>6, <2>7, <2>8
<1> QED BY <1>1, <1>2

LEMMA SoundAlways == Spec => []Sound
<1>1. Init => Sound
   BY InitHolds
<1> QED BY <1>1, SoundHolds, PTL DEF Spec

LEMMA TrustedAlways == Prompt => (Spec => [](Sound /\ Trusted))
<1> SUFFICES ASSUME Prompt PROVE Spec => [](Sound /\ Trusted)
   OBVIOUS
<1>1. Init => Sound /\ Trusted
   BY InitHolds
<1>2. Sound /\ Trusted /\ [Next]_vars => (Sound /\ Trusted)'
   BY SoundHolds, TrustedHolds
<1> QED BY <1>1, <1>2, PTL DEF Spec

(* Every variable keeps its type and every bound is kept; no zero is of a    *)
(* generation that has not begun.                                            *)
THEOREM TypeCorrect == Spec => []TypeOK
<1>1. Sound => TypeOK
  <2> SUFFICES ASSUME Sound PROVE TypeOK
     OBVIOUS
  <2>1. {on, stopE, sent, awaiting, cool, fresh, polled, homed, moving, cooling}
          \subseteq BOOLEAN
     BY DEF Sound, Flags
  <2>2. {box.kind, pend.kind, cmd.kind, cur.kind} \subseteq Kinds \cup {"none"}
     BY DEF Sound, Kinded
  <2>3. homeGen \in -1..gen
     BY DEF Sound, Young
  <2> QED BY <2>1, <2>2, <2>3 DEF Sound, Counters, Carried, TypeOK
<1> QED BY <1>1, SoundAlways, PTL

(* A motion that the controller reports as complete was completed: the count *)
(* it ended at is one no other end of a motion leaves behind.  A restarted   *)
(* board leaves zero behind: a motion to zero was completed if the status it *)
(* went by says that the position is referenced (:438-444, :520-538).        *)
THEOREM CompletionAlwaysReal == Prompt => (Spec => CompletionReal)
<1> SUFFICES ASSUME Prompt PROVE Spec => CompletionReal
   OBVIOUS
<1>1. ASSUME Sound, Trusted, [Next]_vars
      PROVE  [IsMotion /\ wpc = "trust" /\ wpc' = "show" /\ Ends =>
                \/ pend.n \in finished
                \/ pend.kind = "home" /\ ~frame.homed]_vars
  <2> SUFFICES ASSUME Next, IsMotion, wpc = "trust", wpc' = "show", Ends,
                      pend.kind = "home" => frame.homed
               PROVE  pend.n \in finished
     BY <1>1
  <2>1. Trust
     BY DEF Next, Worker, Firmware, Post, Put, Press, Connect, Disconnect, Connected,
        Tick, Wake, WriteStop, StopWritten, Recover, ClearEvent, ClearRest, Take,
        NoFrame, ReadFails, Gate, Show, NoAck, Stale, Poll, Service, Accept, Write,
        Note, CoolEnds, Execute, Arrive, Quiet, ContactLost, Reset, LoseUp, LoseDown,
        gui, worker
  <2>2. frame.pos = Target(pend)
     BY <2>1 DEF Trust, Goto
  <2>3. CASE pend.kind # "home"
    <3>1. pend.n \in 0..Posts /\ pend.n # 0 /\ frame.pos \in Counts
       BY <1>1 DEF Sound, Counted, Stored, Command, IsMotion, Motions, Kinds
    <3>2. pend.n \notin {0, Elsewhere}
       BY <3>1, BoundsAssumption DEF Elsewhere
    <3> QED BY <2>2, <2>3, <3>1, <3>2 DEF Target, Counts
  <2>4. CASE pend.kind = "home"
    <3>1. on /\ Task = pend /\ Held /\ pend # Nothing /\ pend.gen <= gen
       BY <1>1, <2>4, Lines DEF Sound, Young, Trusted, Control, Task, Held
    <3>2. ~stopE /\ ~awaiting /\ ~cool
       BY <1>1, <2>4, <3>1 DEF Trusted, Overtaken, Control, Sound, Flags
    <3>3. Trusting
       BY <3>1, <3>2 DEF Trusting
    <3>4. Current
      <4>1. SUFFICES ASSUME ~Current PROVE FALSE
         OBVIOUS
      <4>2. frame.msg \notin Final
         BY <1>1, <3>1, <3>2, <3>3, <4>1 DEF Trusted, Over, Calm
      <4>3. pend.gen # gen
         BY <2>4, <3>1, <4>1 DEF Current, Kinds
      <4>4. ~pend.ack
         BY <1>1, <3>1, <4>3 DEF Trusted, Overtaken, Sound, Young, Counters, Stored, Command
      <4> QED BY <4>2, <4>4 DEF Ends, Final
    <3>5. SUFFICES ASSUME pend.n \notin finished PROVE FALSE
       OBVIOUS
    <3>6. Away(frame, pend.ack)
       BY <1>1, <2>4, <3>1, <3>3, <3>4, <3>5 DEF Trusted, Homing, Returning
    <3> QED BY <2>4, <3>6 DEF Ends, Away, Bare
  <2> QED BY <2>3, <2>4
<1> QED BY <1>1, TrustedAlways, PTL DEF Spec, CompletionReal

(* While the controller is ready no command of before the last stop moves    *)
(* the stage or is under way, and without a pending command nothing is, for  *)
(* any number of losses, restarts and reconnections (:264-269, :510-516).    *)
THEOREM NoMotionEverBehindTrust == Prompt => (Spec => []NoMotionBehindTrust)
<1>1. ASSUME Sound, Trusted PROVE NoMotionBehindTrust
  <2> DEFINE underWay == {up[i] : i \in DOMAIN up} \cup (IF moving THEN {cur} ELSE {})
  <2> SUFFICES ASSUME Ready
               PROVE  /\ \A c \in underWay : c.kind \in Kinds => c.gen = gen
                      /\ pend = Nothing /\ wpc # "note" =>
                           /\ \A c \in underWay : c.kind \notin Motions
                           /\ ~moving
     BY DEF NoMotionBehindTrust
  <2>1. Trusting
     BY DEF Ready, Trusting
  <2>2. DOMAIN up = 1..Len(up)
     BY <1>1 DEF Sound, Carried
  <2>3. \A i \in 1..Len(up) : up[i] = Status \/ (Current /\ up[i] = Task)
     BY <1>1, <2>1 DEF Trusted, Waiting
  <2>4. moving => Current /\ cur.gen = gen
     BY <1>1, <2>1 DEF Trusted, Moving
  <2>5. Status.kind \notin Kinds
     BY Lines DEF Kinds
  <2>6. Current => Task.gen = gen
     BY DEF Current
  <2>7. \A c \in underWay : c.kind \in Kinds => c.gen = gen
     BY <2>2, <2>3, <2>4, <2>5, <2>6
  <2>8. ASSUME pend = Nothing, wpc # "note" PROVE ~Current
     BY <2>8, Lines DEF Current, Task, Kinds
  <2>9. Motions \subseteq Kinds
     BY DEF Motions, Kinds
  <2> QED BY <2>2, <2>3, <2>4, <2>5, <2>7, <2>8, <2>9
<1> QED BY <1>1, TrustedAlways, PTL

(* A reference the controller shows is to a zero that was set after the last *)
(* stop (:428-433).                                                          *)
THEOREM ZeroAlwaysNew == Prompt => (Spec => []ZeroIsNew)
<1>1. ASSUME Trusted PROVE ZeroIsNew
   BY <1>1 DEF Trusted, Zeroed, Trusting, ZeroIsNew, Ready
<1> QED BY <1>1, TrustedAlways, PTL
=============================================================================
