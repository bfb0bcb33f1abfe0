---------------------- MODULE Atto2100RequestProofs ----------------------
(***************************************************************************)
(* No request is lost, commands exclude each other, a Stop holds, and the  *)
(* display answers for the present connection.                             *)
(*                                                                         *)
(* Housed says where every request is: waiting in the mailbox, in the      *)
(* owner's hands, set aside by a detach, or announced to the controller.   *)
(* Steps fall into few kinds: Mail (callers and watchdogs: something may   *)
(* be taken out of the FIFO, at most one request comes in), Pop, Labours   *)
(* and Finishes (the owner), Commits (a detach), and Settles (the GUI      *)
(* thread).  Each kind preserves Housed; each action is of one kind.       *)
(* Stopping and Serves, the invariants behind the last two, rest on it.    *)
(***************************************************************************)
EXTENDS Atto2100ControllerProofs

Waits(r) == r \in ordinary \/ r = stopSlot \/ r = shutSlot
Located(r) == Waits(r) \/ r = cur \/ r = deferred

(* Numbers not given out yet are nobody's.                                   *)
Numbered == \A r \in Req :
              r > count => ~req[r].reg /\ ~req[r].drained /\ req[r].timer = "off"
(* What waits has not been begun.                                            *)
Queued == \A r \in Req :
            Waits(r) => req[r].state = "QUEUED" /\ req[r].reg /\ ~req[r].drained
InHand == /\ opc = "idle" <=> cur = NoReq
          /\ cur # NoReq => /\ req[cur].state \in Working
                            /\ req[cur].reg /\ ~req[cur].drained
SetAside == deferred # NoReq => /\ deferred <= count /\ req[deferred].cmd = "DETACH"
                                /\ req[deferred].reg /\ ~req[deferred].drained
(* A Stop waits in its slot only, and only the Stop whose handle is kept.    *)
Lanes == /\ \A r \in ordinary : req[r].cmd \notin {"STOP", "SHUTDOWN"}
         /\ stopSlot # NoReq => req[stopSlot].cmd = "STOP" /\ stopH = stopSlot
         /\ shutSlot # NoReq => req[shutSlot].cmd = "SHUTDOWN" /\ shutH = shutSlot
Apart == /\ cur # NoReq => ~Waits(cur) /\ cur # deferred
         /\ deferred # NoReq => ~Waits(deferred)
(* The reservation admits one detach at a time, so none is set aside over    *)
(* another.                                                                  *)
Detaching(r) == Located(r) /\ req[r].cmd = "DETACH"
OneDetach == \A r \in Req : Detaching(r) =>
               reserved /\ \A q \in Req : Detaching(q) => q = r
Announcing == \A r \in Req : Announced(r) => req[r].drained
Accounted == \A r \in Req : Active(r) => Located(r) \/ Announced(r)

Housed == /\ Numbered /\ Queued /\ InHand /\ SetAside /\ Lanes /\ Apart
          /\ OneDetach /\ Announcing /\ Accounted

-----------------------------------------------------------------------------
(* The queue of signals.                                                     *)

In(s, x) == \E i \in 1..Len(s) : s[i] = x

LEMMA InConcat ==
  ASSUME NEW s \in Seq(Signal), NEW t \in Seq(Signal), NEW x
  PROVE  In(s \o t, x) <=> In(s, x) \/ In(t, x)
<1>1. /\ Len(s) \in Nat /\ Len(t) \in Nat /\ Len(s \o t) = Len(s) + Len(t)
      /\ \A i \in 1..(Len(s) + Len(t)) :
           (s \o t)[i] = IF i <= Len(s) THEN s[i] ELSE t[i - Len(s)]
  BY ConcatProperties, LenProperties
<1>2. ASSUME In(s, x) PROVE In(s \o t, x)
  BY <1>1, <1>2 DEF In
<1>3. ASSUME In(t, x) PROVE In(s \o t, x)
  <2>1. PICK i \in 1..Len(t) : t[i] = x
    BY <1>3 DEF In
  <2>2. /\ Len(s) + i \in 1..(Len(s) + Len(t)) /\ ~(Len(s) + i <= Len(s))
        /\ Len(s) + i - Len(s) = i
    BY <1>1
  <2>3. QED BY <1>1, <2>1, <2>2 DEF In
<1>4. ASSUME In(s \o t, x) PROVE In(s, x) \/ In(t, x)
  <2>1. PICK i \in 1..(Len(s) + Len(t)) : (s \o t)[i] = x
    BY <1>1, <1>4 DEF In
  <2>2. CASE i <= Len(s)
    BY <1>1, <2>1, <2>2 DEF In
  <2>3. CASE ~(i <= Len(s))
    <3>1. i - Len(s) \in 1..Len(t)
      BY <1>1, <2>1, <2>3
    <3>2. t[i - Len(s)] = x
      BY <1>1, <2>1, <2>3
    <3>3. QED BY <3>1, <3>2 DEF In
  <2>4. QED BY <2>2, <2>3
<1>5. QED BY <1>2, <1>3, <1>4

LEMMA InOne == \A a, x : In(<<a>>, x) <=> a = x
BY DEF In

LEMMA InNone == \A x : ~In(<<>>, x)
BY DEF In

LEMMA InTail ==
  ASSUME NEW s \in Seq(Signal), s # <<>>, NEW x
  PROVE  In(s, x) <=> Head(s) = x \/ In(Tail(s), x)
<1>1. Head(s) \in Signal /\ Tail(s) \in Seq(Signal) /\ s = <<Head(s)>> \o Tail(s)
  <2>1. /\ Head(s) \in Signal /\ Tail(s) \in Seq(Signal) /\ Len(Tail(s)) = Len(s) - 1
        /\ \A i \in 1..Len(Tail(s)) : Tail(s)[i] = s[i + 1]
    BY HeadTailProperties
  <2>2. QED BY <2>1
<1>2. <<Head(s)>> \in Seq(Signal)
  BY <1>1
<1>3. In(<<Head(s)>> \o Tail(s), x) <=> In(<<Head(s)>>, x) \/ In(Tail(s), x)
  BY <1>1, <1>2, InConcat
<1>4. QED BY <1>1, <1>3, InOne

(* What the owner appends announces the request it names and no other.       *)
LEMMA NoTerminal ==
  ASSUME NEW s, NEW r
  PROVE  ~In(Announce(s), TerminalSig(r)) /\ StateSig(s) # TerminalSig(r)
         /\ QuitSig # TerminalSig(r) /\ FinishedSig # TerminalSig(r)
<1>1. StateSig(s) # TerminalSig(r) /\ QuitSig # TerminalSig(r) /\ FinishedSig # TerminalSig(r)
  BY DEF StateSig, TerminalSig, QuitSig, FinishedSig
<1>2. QED BY <1>1, InOne, InNone DEF Announce

LEMMA TerminalsDiffer == \A r, q : TerminalSig(r) = TerminalSig(q) <=> r = q
BY DEF TerminalSig

LEMMA AnnouncedAfter ==
  ASSUME sig \in Seq(Signal), NEW s \in OwnerStates \cup {NoState}, NEW c \in Req,
         NEW after \in {<<>>, <<QuitSig>>},
         sig' = sig \o Announce(s) \o <<TerminalSig(c)>> \o after
  PROVE  \A r \in Req : Announced(r)' <=> Announced(r) \/ r = c
<1> TAKE r \in Req
<1> DEFINE x == TerminalSig(r)
<1>1. /\ Announce(s) \in Seq(Signal) /\ <<TerminalSig(c)>> \in Seq(Signal)
      /\ after \in Seq(Signal)
  <2>1. <<QuitSig>> \in Seq(Signal) /\ <<TerminalSig(c)>> \in Seq(Signal)
    BY SignalTypes
  <2>2. <<>> \in Seq(Signal)
    BY EmptySeq
  <2>3. after \in Seq(Signal)
    BY <2>1, <2>2
  <2>4. QED BY <2>1, <2>3, AnnounceTypes
<1>2. /\ sig \o Announce(s) \in Seq(Signal)
      /\ sig \o Announce(s) \o <<TerminalSig(c)>> \in Seq(Signal)
  BY <1>1, FinishTypes
<1>3. In(sig \o Announce(s), x) <=> In(sig, x) \/ In(Announce(s), x)
  BY <1>1, InConcat
<1>4. In(sig \o Announce(s) \o <<TerminalSig(c)>>, x)
        <=> In(sig \o Announce(s), x) \/ In(<<TerminalSig(c)>>, x)
  BY <1>1, <1>2, InConcat
<1>5. In(sig \o Announce(s) \o <<TerminalSig(c)>> \o after, x)
        <=> In(sig \o Announce(s) \o <<TerminalSig(c)>>, x) \/ In(after, x)
  BY <1>1, <1>2, InConcat
<1>6. ~In(after, x) /\ ~In(Announce(s), x)
  BY NoTerminal, InOne, InNone
<1>7. In(<<TerminalSig(c)>>, x) <=> r = c
  BY InOne, TerminalsDiffer
<1>8. Announced(r) <=> In(sig, x)
  BY DEF Announced, In
<1>9. Announced(r)' <=> In(sig', x)
  BY DEF Announced, In
<1> HIDE DEF x
<1>10. QED BY <1>3, <1>4, <1>5, <1>6, <1>7, <1>8, <1>9

-----------------------------------------------------------------------------
(* The kinds of steps.                                                       *)

(* A record after and before: the owner or a watchdog went on with it; it    *)
(* was cancelled in the mailbox.                                             *)
Continues(p, q) == /\ p.cmd = q.cmd /\ p.reg = q.reg /\ p.drained = q.drained /\ p.val = q.val
                   /\ p.state = q.state \/ (q.state = "RUNNING" /\ p.state = "DRAINING")
Cancelled(p, q) == p.cmd = q.cmd /\ p.state = "CANCELLED" /\ p.drained

Registry ==
  \A r \in Req : r <= count =>
    \/ Continues(req'[r], req[r]) /\ (r \in ordinary => r \in ordinary')
    \/ Cancelled(req'[r], req[r]) /\ r \in ordinary /\ r \notin ordinary'

(* What a submission has checked, whatever it submits: a Shutdown has not     *)
(* checked in the lock section that submits it.                              *)
Admissible(c) ==
  /\ c # "SHUTDOWN" => ~Pending({"RAMP"})
  /\ c \in {"RAMP", "DETACH"} => ~HasPendingWork
  /\ c \in FieldMutations => ~Pending({"PREPARE"})
  /\ c = "PREPARE" => ~Pending(FieldMutations)

NothingNew == /\ UNCHANGED <<count, stopSlot, shutSlot, shutH>>
              /\ ordinary' \subseteq ordinary
              /\ \A r \in Req : r > count => req'[r] = req[r]
              /\ stopSlot # NoReq => stopH' = stopH
New(c) == /\ count + 1 \in Req /\ count' = count + 1 /\ req'[count + 1] = Fresh(c)
          /\ \A r \in Req : r > count + 1 => req'[r] = req[r]
Queues(c) == /\ New(c) /\ c \in Commands \ {"STOP", "SHUTDOWN"} /\ Admissible(c)
             /\ ordinary' = ordinary \cup {count + 1}
             /\ UNCHANGED <<stopSlot, shutSlot, shutH>>
             /\ stopSlot # NoReq => stopH' = stopH
             /\ c = "DETACH" => ~reserved /\ reserved'
AsksStop == /\ New("STOP") /\ Admissible("STOP") /\ ordinary' \subseteq ordinary
            /\ stopSlot = NoReq /\ stopSlot' = count + 1 /\ stopH' = count + 1
            /\ UNCHANGED <<shutSlot, shutH>>
AsksShutdown == /\ New("SHUTDOWN") /\ Admissible("SHUTDOWN") /\ ordinary' \subseteq ordinary
                /\ shutSlot = NoReq /\ shutSlot' = count + 1 /\ shutH' = count + 1
                /\ UNCHANGED stopSlot /\ (stopSlot # NoReq => stopH' = stopH)

(* Callers and watchdogs. *)
Mail == /\ UNCHANGED <<cur, opc, deferred, sig>> /\ (reserved => reserved')
        /\ Registry
        /\ NothingNew \/ (\E c \in Commands : Queues(c)) \/ AsksStop \/ AsksShutdown

(* The owner, and the GUI thread. *)
Labours == /\ UNCHANGED <<count, mailVars, cur, deferred, stopH, shutH, reserved>>
           /\ opc # "idle" /\ opc' # "idle"
           /\ \A r \in Req : r # cur => req'[r] = req[r]
           /\ req'[cur].cmd = req[cur].cmd /\ req'[cur].reg = req[cur].reg
           /\ req'[cur].drained = req[cur].drained /\ req'[cur].state \in Working
           /\ \A r \in Req : Announced(r)' <=> Announced(r)
Finishes == /\ UNCHANGED <<count, mailVars, deferred, stopH, shutH>>
            /\ opc # "idle" /\ opc' = "idle" /\ cur' = NoReq
            /\ reserved' = reserved \/ Cmd = "DETACH"
            /\ \A r \in Req : r # cur => req'[r] = req[r]
            /\ req'[cur].cmd = req[cur].cmd /\ req'[cur].drained
            /\ \A r \in Req : Announced(r)' <=> Announced(r) \/ r = cur
Commits == /\ UNCHANGED <<count, mailVars, stopH, shutH, reserved>>
           /\ opc # "idle" /\ opc' = "idle" /\ cur' = NoReq
           /\ Cmd = "DETACH" /\ deferred' = cur
           /\ \A r \in Req : r # cur => req'[r] = req[r]
           /\ req'[cur].cmd = req[cur].cmd /\ req'[cur].reg = req[cur].reg
           /\ ~req'[cur].drained
           /\ \A r \in Req : Announced(r)' <=> Announced(r)
(* The request that is finished leaves the registry. *)
Settles(d) ==
  /\ UNCHANGED <<count, mailVars, cur, opc, stopH, shutH>>
  /\ \A r \in Req : r # d => req'[r] = req[r]
  /\ \A r \in Req : r # d => (Announced(r)' <=> Announced(r))
  /\ d \in Req => /\ ~req'[d].reg /\ req'[d].drained /\ req'[d].cmd = req[d].cmd
                  /\ req'[d].state = req[d].state /\ req'[d].val = req[d].val
  /\ \/ deferred' = deferred /\ reserved' = reserved /\ (d \in Req => req[d].drained)
     \/ deferred' = NoReq /\ deferred = d /\ d \in Req

-----------------------------------------------------------------------------
(* Each kind keeps every request where it can be found.                      *)

LEMMA LocatedKnown ==
  ASSUME TypeOK, Known, Housed
  PROVE  /\ Numbers /\ cur \in ReqOrNone /\ deferred \in ReqOrNone /\ NoReq = 0
         /\ stopSlot \in ReqOrNone /\ shutSlot \in ReqOrNone
         /\ \A r \in Req : Located(r) => r <= count
         /\ \A r \in Req : Announced(r) => r <= count
         /\ \A r \in Req : r > 0
         /\ \A r \in Req : req[r] \in Request
<1>1. Numbers
  BY NumbersTyped
<1>2. /\ cur \in ReqOrNone /\ deferred \in ReqOrNone
      /\ stopSlot \in ReqOrNone /\ shutSlot \in ReqOrNone
      /\ \A r \in Req : req[r] \in Request
  BY DEF TypeOK, BusyOK, OwnerOK, MailOK, RequestsOK
<1>3. ASSUME NEW r \in Req, Located(r) PROVE r <= count
  <2>1. r # NoReq
    BY DEF Req, NoReq
  <2>2. QED BY <1>3, <2>1 DEF Located, Waits, Known, Housed, SetAside
<1>4. ASSUME NEW r \in Req, Announced(r) PROVE r <= count
  <2>1. ~(r > count)
    BY <1>4 DEF Housed, Announcing, Numbered
  <2>2. QED BY <1>1, <2>1 DEF Numbers
<1>5. \A r \in Req : r > 0
  BY BoundAssumption DEF Req
<1>6. QED BY <1>1, <1>2, <1>3, <1>4, <1>5 DEF NoReq

LEMMA MailHouses ==
  ASSUME TypeOK, TypeOK', Known, Housed, Mail PROVE Housed'
<1>0. /\ Numbers /\ cur \in ReqOrNone /\ deferred \in ReqOrNone /\ NoReq = 0
      /\ stopSlot \in ReqOrNone /\ shutSlot \in ReqOrNone
      /\ \A r \in Req : Located(r) => r <= count
      /\ \A r \in Req : Announced(r) => r <= count
      /\ \A r \in Req : r > 0
      /\ \A r \in Req : req[r] \in Request
  BY LocatedKnown
<1>1. /\ UNCHANGED <<cur, opc, deferred, sig>> /\ (reserved => reserved') /\ Registry
      /\ \A r \in Req : Announced(r)' <=> Announced(r)
  BY DEF Mail, Announced
(* What waits afterwards waited before and was not touched, or is new. *)
<1>2. \/ count' = count /\ UNCHANGED <<stopSlot, shutSlot>>
         /\ ordinary' \subseteq ordinary /\ \A r \in Req : r > count => req'[r] = req[r]
      \/ /\ count' = count + 1 /\ count + 1 \in Req
         /\ \A r \in Req : r > count + 1 => req'[r] = req[r]
         /\ ordinary' \subseteq ordinary \cup {count + 1}
         /\ stopSlot' \in {stopSlot, count + 1} /\ shutSlot' \in {shutSlot, count + 1}
         /\ req'[count + 1].state = "QUEUED" /\ req'[count + 1].reg
         /\ ~req'[count + 1].drained
         /\ count + 1 \in ordinary' \/ count + 1 = stopSlot' \/ count + 1 = shutSlot'
         /\ stopSlot' # stopSlot => stopSlot = NoReq
         /\ shutSlot' # shutSlot => shutSlot = NoReq
  <2>1. ASSUME NEW c, New(c)
        PROVE  /\ count' = count + 1 /\ count + 1 \in Req
               /\ \A r \in Req : r > count + 1 => req'[r] = req[r]
               /\ req'[count + 1].state = "QUEUED" /\ req'[count + 1].reg
               /\ ~req'[count + 1].drained
    BY <2>1 DEF New, Fresh
  <2>2. CASE NothingNew
    BY <2>2 DEF NothingNew
  <2>3. CASE \E c \in Commands : Queues(c)
    BY <2>1, <2>3 DEF Queues
  <2>4. CASE AsksStop
    BY <2>1, <2>4 DEF AsksStop
  <2>5. CASE AsksShutdown
    BY <2>1, <2>5 DEF AsksShutdown
  <2>6. QED BY <2>2, <2>3, <2>4, <2>5 DEF Mail
<1>3. ASSUME NEW r \in Req, r <= count
      PROVE  /\ Waits(r)' => Waits(r) /\ Continues(req'[r], req[r])
             /\ Waits(r) => Waits(r)' \/ (req'[r].state = "CANCELLED" /\ req'[r].drained)
             /\ ~Waits(r) => Continues(req'[r], req[r])
             /\ req'[r].cmd = req[r].cmd
  <2>1. r # count + 1
    BY <1>0, <1>3 DEF Numbers
  <2>2. r \in ordinary' => r \in ordinary
    BY <1>2, <2>1
  <2>3. r = stopSlot' <=> r = stopSlot
    BY <1>0, <1>2, <2>1
  <2>4. r = shutSlot' <=> r = shutSlot
    BY <1>0, <1>2, <2>1
  <2>5. \/ Continues(req'[r], req[r]) /\ (r \in ordinary => r \in ordinary')
        \/ Cancelled(req'[r], req[r]) /\ r \in ordinary /\ r \notin ordinary'
    BY <1>1, <1>3 DEF Registry
  <2>6. r \in ordinary => r # stopSlot /\ r # shutSlot
    BY <1>0 DEF Housed, Lanes
  <2>7. Waits(r)' <=> r \in ordinary' \/ r = stopSlot' \/ r = shutSlot'
    BY DEF Waits
  <2>8. QED BY <2>2, <2>3, <2>4, <2>5, <2>6, <2>7 DEF Waits, Continues, Cancelled
<1>4. ASSUME NEW r \in Req, r > count
      PROVE  /\ Waits(r)' => r = count' /\ r = count + 1
             /\ r = count' => Waits(r)' /\ req'[r].state = "QUEUED" /\ req'[r].reg
                               /\ ~req'[r].drained
             /\ r # count' => req'[r] = req[r] /\ ~Waits(r)'
             /\ r # cur /\ r # deferred /\ ~Announced(r) /\ ~Waits(r)
  <2>1. r # cur /\ r # deferred /\ ~Announced(r) /\ ~Waits(r)
    BY <1>0, <1>4 DEF Located, Numbers
  <2>2. CASE count' = count
    <3>1. ~Waits(r)' /\ req'[r] = req[r]
      BY <1>0, <1>2, <1>4, <2>1, <2>2 DEF Waits, Numbers
    <3>2. r # count'
      BY <1>0, <1>4, <2>2 DEF Numbers
    <3>3. QED BY <2>1, <3>1, <3>2
  <2>3. CASE count' # count
    <3>1. /\ count' = count + 1
          /\ \A q \in Req : q > count + 1 => req'[q] = req[q]
          /\ ordinary' \subseteq ordinary \cup {count + 1}
          /\ stopSlot' \in {stopSlot, count + 1} /\ shutSlot' \in {shutSlot, count + 1}
          /\ req'[count + 1].state = "QUEUED" /\ req'[count + 1].reg
          /\ ~req'[count + 1].drained
          /\ count + 1 \in ordinary' \/ count + 1 = stopSlot' \/ count + 1 = shutSlot'
      BY <1>2, <2>3
    <3>2. r = count + 1 \/ r > count + 1
      BY <1>0, <1>4 DEF Numbers
    <3>3. Waits(r)' <=> r \in ordinary' \/ r = stopSlot' \/ r = shutSlot'
      BY DEF Waits
    <3>4. Waits(r)' => r = count + 1
      BY <2>1, <3>1, <3>3 DEF Waits
    <3>5. r > count + 1 => r # count + 1
      BY <1>0 DEF Numbers
    <3>6. QED BY <2>1, <3>1, <3>2, <3>3, <3>4, <3>5
  <2>4. QED BY <2>2, <2>3
<1>5. \A r \in Req : r <= count \/ r > count
  BY <1>0 DEF Numbers
<1>6. Numbered'
  <2> SUFFICES ASSUME NEW r \in Req, r > count' 
               PROVE  ~req'[r].reg /\ ~req'[r].drained /\ req'[r].timer = "off"
    BY DEF Numbered
  <2>1. r > count /\ r # count'
    BY <1>0, <1>2 DEF Numbers
  <2>2. QED BY <1>4, <2>1 DEF Housed, Numbered
<1>7. Queued'
  <2> SUFFICES ASSUME NEW r \in Req, Waits(r)'
               PROVE  req'[r].state = "QUEUED" /\ req'[r].reg /\ ~req'[r].drained
    BY DEF Queued
  <2>1. CASE r <= count
    BY <1>3, <2>1 DEF Housed, Queued, Continues
  <2>2. CASE r > count
    BY <1>4, <2>2
  <2>3. QED BY <1>5, <2>1, <2>2
<1>6a. \A r \in Req : r <= count /\ ~Waits(r) =>
         r \notin ordinary' /\ r # stopSlot' /\ r # shutSlot'
  BY <1>3 DEF Waits
<1>8. cur # NoReq => cur \in Req /\ cur <= count /\ ~Waits(cur)
                     /\ cur \notin ordinary' /\ cur # stopSlot' /\ cur # shutSlot'
                     /\ Continues(req'[cur], req[cur])
  <2> SUFFICES ASSUME cur # NoReq
               PROVE  /\ cur \in Req /\ cur <= count /\ ~Waits(cur)
                     /\ cur \notin ordinary' /\ cur # stopSlot' /\ cur # shutSlot'
                      /\ Continues(req'[cur], req[cur])
    OBVIOUS
  <2>1. cur \in Req /\ ~Waits(cur) /\ Located(cur)
    BY <1>0 DEF ReqOrNone, Housed, Apart, Located
  <2>2. cur <= count
    BY <1>0, <2>1
  <2>3. QED BY <1>3, <1>6a, <2>1, <2>2
<1>9. deferred # NoReq => /\ deferred \in Req /\ deferred <= count
                           /\ Continues(req'[deferred], req[deferred])
                           /\ deferred \notin ordinary' /\ deferred # stopSlot'
                           /\ deferred # shutSlot'
  <2> SUFFICES ASSUME deferred # NoReq
               PROVE  /\ deferred \in Req /\ deferred <= count
                      /\ Continues(req'[deferred], req[deferred])
                           /\ deferred \notin ordinary' /\ deferred # stopSlot'
                           /\ deferred # shutSlot'
    OBVIOUS
  <2>1. deferred \in Req /\ deferred <= count
    BY <1>0 DEF ReqOrNone, Housed, SetAside
  <2>2. ~Waits(deferred)
    BY <2>1 DEF Housed, Apart
  <2>3. QED BY <1>3, <1>6a, <2>1, <2>2
<1>10. InHand' /\ Apart'
  <2>1. InHand'
    <3>1. opc' = "idle" <=> cur' = NoReq
      BY <1>1 DEF Housed, InHand
    <3>2. cur' # NoReq => req'[cur'].state \in Working /\ req'[cur'].reg /\ ~req'[cur'].drained
      BY <1>1, <1>8 DEF Housed, InHand, Continues, Working
    <3>3. QED BY <3>1, <3>2 DEF InHand
  <2>2. Apart'
    <3>1. cur # NoReq => cur # deferred
      BY DEF Housed, Apart
    <3>2. QED BY <1>1, <1>8, <1>9, <3>1 DEF Apart, Waits
  <2>3. QED BY <2>1, <2>2
<1>11. SetAside'
  BY <1>0, <1>1, <1>2, <1>9 DEF Housed, SetAside, Continues, Numbers
<1>12. Lanes'
  <2>1. ASSUME NEW r \in Req, r \in ordinary' PROVE req'[r].cmd \notin {"STOP", "SHUTDOWN"}
    <3>1. CASE r <= count
      <4>1. ordinary' \subseteq ordinary \cup {count + 1} /\ r # count + 1
        BY <1>0, <1>2, <3>1 DEF Numbers
      <4>2. r \in ordinary /\ req'[r].cmd = req[r].cmd
        BY <1>3, <2>1, <3>1, <4>1
      <4>3. QED BY <4>2 DEF Housed, Lanes
    <3>2. CASE r > count
      <4>1. PICK c \in Commands : Queues(c)
        BY <1>0, <2>1, <3>2 DEF Mail, NothingNew, AsksStop, AsksShutdown, Located, Waits, Numbers
      <4>2. r = count + 1
        BY <1>0, <2>1, <3>2, <4>1 DEF Queues, Located, Waits, Numbers
      <4>3. QED BY <4>1, <4>2 DEF Queues, New, Fresh
    <3>3. QED BY <1>5, <3>1, <3>2
  <2>2. ASSUME stopSlot' # NoReq PROVE req'[stopSlot'].cmd = "STOP" /\ stopH' = stopSlot'
    <3>1. CASE AsksStop
      BY <3>1 DEF AsksStop, New, Fresh
    <3>2. CASE ~AsksStop
      <4>1. stopSlot' = stopSlot /\ stopH' = stopH /\ stopSlot # NoReq
        BY <2>2, <3>2 DEF Mail, NothingNew, Queues, AsksShutdown
      <4>2. stopSlot \in Req /\ stopSlot <= count
        BY <1>0, <4>1 DEF ReqOrNone, Located, Waits
      <4>3. QED BY <1>3, <4>1, <4>2 DEF Housed, Lanes
    <3>3. QED BY <3>1, <3>2
  <2>3. ASSUME shutSlot' # NoReq PROVE req'[shutSlot'].cmd = "SHUTDOWN" /\ shutH' = shutSlot'
    <3>1. CASE AsksShutdown
      BY <3>1 DEF AsksShutdown, New, Fresh
    <3>2. CASE ~AsksShutdown
      <4>1. shutSlot' = shutSlot /\ shutH' = shutH /\ shutSlot # NoReq
        BY <2>3, <3>2 DEF Mail, NothingNew, Queues, AsksStop
      <4>2. shutSlot \in Req /\ shutSlot <= count
        BY <1>0, <4>1 DEF ReqOrNone, Located, Waits
      <4>3. QED BY <1>3, <4>1, <4>2 DEF Housed, Lanes
    <3>3. QED BY <3>1, <3>2
  <2>4. ordinary' \subseteq Req
    BY DEF TypeOK, MailOK
  <2>5. QED BY <2>1, <2>2, <2>3, <2>4 DEF Lanes
<1>13. ASSUME NEW r \in Req, Detaching(r)'
       PROVE  (r <= count /\ Detaching(r)) \/ (r = count + 1 /\ ~reserved /\ reserved')
  <2>1. req'[r].cmd = "DETACH" /\ (Waits(r)' \/ r = cur \/ r = deferred)
    BY <1>1, <1>13 DEF Detaching, Located
  <2>2. CASE r <= count
    BY <1>3, <2>1, <2>2 DEF Detaching, Located
  <2>3. CASE r > count
    <3>1. r = count' /\ r = count + 1
      BY <1>4, <2>1, <2>3
    <3>2. count' # count
      BY <1>0, <3>1 DEF Numbers
    <3>3. PICK c \in Commands : New(c) /\ (Queues(c) \/ c \in {"STOP", "SHUTDOWN"})
      BY <3>2 DEF Mail, NothingNew, Queues, AsksStop, AsksShutdown, Commands
    <3>4. c = "DETACH"
      BY <2>1, <3>1, <3>3 DEF New, Fresh
    <3>5. QED BY <3>1, <3>3, <3>4 DEF Queues
  <2>4. QED BY <1>5, <2>2, <2>3
<1>14. OneDetach'
  <2>1. ASSUME NEW r \in Req, Detaching(r)'
        PROVE  reserved' /\ \A q \in Req : Detaching(q)' => q = r
    <3>1. CASE r <= count /\ Detaching(r)
      BY <1>1, <1>13, <3>1 DEF Housed, OneDetach
    <3>2. CASE r = count + 1 /\ ~reserved /\ reserved'
      BY <1>13, <3>2 DEF Housed, OneDetach
    <3>3. QED BY <1>13, <2>1, <3>1, <3>2
  <2>2. QED BY <2>1 DEF OneDetach
<1>15. Announcing'
  <2> SUFFICES ASSUME NEW r \in Req, Announced(r)' PROVE req'[r].drained
    BY DEF Announcing
  <2>1. Announced(r) /\ r <= count /\ req[r].drained
    BY <1>0, <1>1 DEF Housed, Announcing
  <2>2. QED BY <1>1, <2>1 DEF Registry, Continues, Cancelled
<1>16. Accounted'
  <2> SUFFICES ASSUME NEW r \in Req, Active(r)' PROVE Located(r)' \/ Announced(r)'
    BY DEF Accounted
  <2>1. req'[r].reg /\ req'[r].state \in Working
    BY DEF Active
  <2>2. CASE r <= count
    <3>1. Waits(r) => Waits(r)'
      BY <1>3, <2>1, <2>2 DEF Working
    <3>2. ~Waits(r) => Active(r)
      BY <1>3, <2>1, <2>2 DEF Active, Continues, Working
    <3>3. QED BY <1>1, <3>1, <3>2 DEF Housed, Accounted, Located
  <2>3. CASE r > count
    BY <1>4, <2>1, <2>3 DEF Housed, Numbered, Located
  <2>4. QED BY <1>5, <2>2, <2>3
<1>17. QED BY <1>6, <1>7, <1>10, <1>11, <1>12, <1>14, <1>15, <1>16 DEF Housed

LEMMA TakesHouses ==
  ASSUME TypeOK, TypeOK', Known, Housed, Pop PROVE Housed'
<1>0. /\ Numbers /\ NoReq = 0 /\ stopSlot \in ReqOrNone /\ shutSlot \in ReqOrNone
      /\ deferred \in ReqOrNone /\ \A r \in Req : r > 0
  BY LocatedKnown
<1>1. /\ opc = "idle" /\ opc' = "popped" /\ cur = NoReq
      /\ UNCHANGED <<req, count, deferred, stopH, shutH, reserved, sig>>
  BY DEF Pop, Housed, InHand, ownVars, ctlVars, lifeVars
<1>2. /\ cur' \in Req /\ Waits(cur')
      /\ ordinary' = ordinary \ {cur'}
      /\ stopSlot' = (IF stopSlot = cur' THEN NoReq ELSE stopSlot)
      /\ shutSlot' = (IF shutSlot = cur' THEN NoReq ELSE shutSlot)
  <2>1. \A r \in ordinary : r \in Req /\ r # stopSlot /\ r # shutSlot /\ r # NoReq
    BY <1>0 DEF Housed, Lanes, Numbers
  <2>2. stopSlot # NoReq => stopSlot # shutSlot
    BY DEF Housed, Lanes
  <2>3. CASE stopSlot # NoReq /\ cur' = stopSlot /\ stopSlot' = NoReq
             /\ UNCHANGED <<shutSlot, ordinary>>
    BY <1>0, <2>1, <2>2, <2>3 DEF ReqOrNone, Waits
  <2>4. CASE stopSlot = NoReq /\ shutSlot # NoReq /\ cur' = shutSlot /\ shutSlot' = NoReq
             /\ UNCHANGED <<stopSlot, ordinary>>
    BY <1>0, <2>1, <2>2, <2>4 DEF ReqOrNone, Waits
  <2>5. CASE \E r \in ordinary : /\ cur' = r /\ ordinary' = ordinary \ {r}
                                 /\ UNCHANGED <<stopSlot, shutSlot>>
    BY <1>0, <2>1, <2>5 DEF ReqOrNone, Waits
  <2>6. QED BY <2>3, <2>4, <2>5 DEF Pop
<1>3. ASSUME NEW r \in Req
      PROVE  Waits(r)' <=> Waits(r) /\ r # cur'
  BY <1>0, <1>2 DEF Waits
<1>4. ASSUME NEW r \in Req PROVE Located(r)' <=> Located(r)
  BY <1>0, <1>1, <1>2, <1>3 DEF Located
<1>5. Numbered' /\ SetAside'
  BY <1>1 DEF Housed, Numbered, SetAside
<1>6. Queued'
  BY <1>1, <1>3 DEF Housed, Queued
<1>7. InHand'
  BY <1>0, <1>1, <1>2 DEF Housed, Queued, InHand, Working
<1>8. Lanes'
  BY <1>0, <1>1, <1>2 DEF Housed, Lanes
<1>9. Apart'
  <2>1. cur' # deferred
    BY <1>0, <1>2 DEF Housed, Apart
  <2>2. cur' \notin ordinary' /\ cur' # stopSlot' /\ cur' # shutSlot'
    BY <1>0, <1>2
  <2>3. deferred # NoReq => ~(deferred \in ordinary' \/ deferred = stopSlot' \/ deferred = shutSlot')
    BY <1>0, <1>2 DEF Housed, Apart, Waits
  <2>4. QED BY <1>1, <2>1, <2>2, <2>3 DEF Apart, Waits
<1>10. OneDetach'
  <2>1. \A r \in Req : Detaching(r)' <=> Detaching(r)
    BY <1>1, <1>4 DEF Detaching
  <2>2. QED BY <1>1, <2>1 DEF Housed, OneDetach
<1>11. Announcing' /\ Accounted'
  <2>1. \A r \in Req : Announced(r)' <=> Announced(r)
    BY <1>1 DEF Announced
  <2>2. \A r \in Req : Active(r)' <=> Active(r)
    BY <1>1 DEF Active
  <2>3. QED BY <1>1, <1>4, <2>1, <2>2 DEF Housed, Announcing, Accounted
<1>12. QED BY <1>5, <1>6, <1>7, <1>8, <1>9, <1>10, <1>11 DEF Housed

LEMMA LaboursHouses ==
  ASSUME TypeOK, TypeOK', Known, Housed, Labours PROVE Housed'
<1>1. /\ UNCHANGED <<count, ordinary, stopSlot, shutSlot, cur, deferred, stopH, shutH, reserved>>
      /\ opc # "idle" /\ opc' # "idle"
      /\ \A r \in Req : Announced(r)' <=> Announced(r)
  BY DEF Labours, mailVars
<1>2. /\ cur \in Req /\ cur # NoReq /\ cur <= count
      /\ Numbers /\ deferred \in ReqOrNone
      /\ stopSlot \in ReqOrNone /\ shutSlot \in ReqOrNone
  BY <1>1, LocatedKnown DEF Housed, InHand, ReqOrNone, Located
<1>3. ASSUME NEW r \in Req
      PROVE  /\ req'[r].cmd = req[r].cmd /\ req'[r].reg = req[r].reg
             /\ req'[r].drained = req[r].drained
             /\ r # cur => req'[r] = req[r]
             /\ Located(r)' <=> Located(r)
             /\ Waits(r)' <=> Waits(r)
             /\ Active(r)' => Active(r)
  <2>1. Located(r)' <=> Located(r)
    BY <1>1 DEF Located, Waits
  <2>2. Waits(r)' <=> Waits(r)
    BY <1>1 DEF Waits
  <2>3. CASE r = cur
    BY <1>2, <2>1, <2>2, <2>3 DEF Labours, Active, Housed, InHand
  <2>4. CASE r # cur
    BY <2>1, <2>2, <2>4 DEF Labours, Active
  <2>5. QED BY <2>3, <2>4
<1>4. ~Waits(cur) /\ cur # deferred
  BY <1>2 DEF Housed, Apart
<1>5. Numbered' /\ Queued'
  <2>1. Numbered'
    BY <1>1, <1>2, <1>3 DEF Housed, Numbered, Numbers
  <2>2. Queued'
    BY <1>3, <1>4 DEF Housed, Queued
  <2>3. QED BY <2>1, <2>2
<1>6. InHand'
  BY <1>1, <1>2 DEF Labours, Housed, InHand
<1>7. SetAside'
  BY <1>1, <1>2, <1>3 DEF Housed, SetAside, ReqOrNone
<1>8. Lanes'
  BY <1>1, <1>2, <1>3 DEF Housed, Lanes, ReqOrNone, Numbers
<1>9. Apart'
  BY <1>1 DEF Housed, Apart, Waits
<1>10. OneDetach'
  <2>1. \A r \in Req : Detaching(r)' <=> Detaching(r)
    BY <1>3 DEF Detaching
  <2>2. QED BY <1>1, <2>1 DEF Housed, OneDetach
<1>11. Announcing' /\ Accounted'
  BY <1>1, <1>3 DEF Housed, Announcing, Accounted
<1>12. QED BY <1>5, <1>6, <1>7, <1>8, <1>9, <1>10, <1>11 DEF Housed

LEMMA FinishesHouses ==
  ASSUME TypeOK, TypeOK', Known, Housed, Finishes PROVE Housed'
<1>1. /\ UNCHANGED <<count, ordinary, stopSlot, shutSlot, deferred, stopH, shutH>>
      /\ opc # "idle" /\ opc' = "idle" /\ cur' = NoReq
      /\ \A r \in Req : Announced(r)' <=> Announced(r) \/ r = cur
  BY DEF Finishes, mailVars
<1>2. /\ cur \in Req /\ cur # NoReq /\ cur <= count
      /\ Numbers /\ deferred \in ReqOrNone /\ NoReq = 0 /\ (\A r \in Req : r > 0)
      /\ stopSlot \in ReqOrNone /\ shutSlot \in ReqOrNone
  BY <1>1, LocatedKnown DEF Housed, InHand, ReqOrNone, Located
<1>3. ~Waits(cur) /\ cur # deferred
  BY <1>2 DEF Housed, Apart
<1>4. ASSUME NEW r \in Req
      PROVE  /\ req'[r].cmd = req[r].cmd
             /\ r # cur => req'[r] = req[r]
             /\ Located(r)' <=> Located(r) /\ r # cur
             /\ Waits(r)' <=> Waits(r)
  <2>1. Waits(r)' <=> Waits(r)
    BY <1>1 DEF Waits
  <2>2. Located(r)' <=> Waits(r) \/ r = deferred
    BY <1>1, <1>2, <2>1 DEF Located
  <2>3. req'[r].cmd = req[r].cmd /\ (r # cur => req'[r] = req[r])
    BY DEF Finishes
  <2>4. r = cur => ~(Waits(r) \/ r = deferred)
    BY <1>3
  <2>5. QED BY <2>1, <2>2, <2>3, <2>4 DEF Located
<1>5. Numbered' /\ Queued'
  <2>1. Numbered'
    BY <1>1, <1>2, <1>4 DEF Housed, Numbered, Numbers
  <2>2. Queued'
    BY <1>3, <1>4 DEF Housed, Queued
  <2>3. QED BY <2>1, <2>2
<1>6. InHand'
  BY <1>1 DEF InHand
<1>7. SetAside'
  BY <1>1, <1>2, <1>3, <1>4 DEF Housed, SetAside, ReqOrNone
<1>8. Lanes'
  BY <1>1, <1>2, <1>4 DEF Housed, Lanes, ReqOrNone, Numbers
<1>9. Apart'
  BY <1>1, <1>2 DEF Housed, Apart, Waits
<1>10. OneDetach'
  <2>1. \A r \in Req : Detaching(r)' => Detaching(r) /\ r # cur
    BY <1>4 DEF Detaching
  <2>2. Cmd = "DETACH" => Detaching(cur)
    BY DEF Cmd, Detaching, Located
  <2>3. Cmd = "DETACH" => \A r \in Req : ~Detaching(r)'
    BY <1>2, <2>1, <2>2 DEF Housed, OneDetach
  <2>4. Cmd # "DETACH" => reserved' = reserved
    BY DEF Finishes
  <2>5. QED BY <2>1, <2>3, <2>4 DEF Housed, OneDetach
<1>11. Announcing'
  BY <1>1, <1>4 DEF Housed, Announcing, Finishes
<1>12. Accounted'
  BY <1>1, <1>4 DEF Housed, Accounted, Active
<1>13. QED BY <1>5, <1>6, <1>7, <1>8, <1>9, <1>10, <1>11, <1>12 DEF Housed

LEMMA CommitsHouses ==
  ASSUME TypeOK, TypeOK', Known, Housed, Commits PROVE Housed'
<1>1. /\ UNCHANGED <<count, ordinary, stopSlot, shutSlot, stopH, shutH, reserved>>
      /\ opc # "idle" /\ opc' = "idle" /\ cur' = NoReq /\ deferred' = cur
      /\ \A r \in Req : Announced(r)' <=> Announced(r)
  BY DEF Commits, mailVars
<1>2. /\ cur \in Req /\ cur # NoReq /\ cur <= count
      /\ Numbers /\ deferred \in ReqOrNone /\ NoReq = 0 /\ (\A r \in Req : r > 0)
      /\ stopSlot \in ReqOrNone /\ shutSlot \in ReqOrNone
  BY <1>1, LocatedKnown DEF Housed, InHand, ReqOrNone, Located
<1>3. ~Waits(cur) /\ Detaching(cur)
  BY <1>2 DEF Housed, Apart, Commits, Cmd, Detaching, Located
(* The reservation is this detach's: nothing is set aside yet. *)
<1>4. deferred = NoReq
  <2>1. SUFFICES ASSUME deferred # NoReq PROVE FALSE
    OBVIOUS
  <2>2. deferred \in Req /\ Detaching(deferred)
    BY <1>2, <2>1 DEF ReqOrNone, Housed, SetAside, Detaching, Located
  <2>3. deferred = cur
    BY <1>2, <1>3, <2>2 DEF Housed, OneDetach
  <2>4. QED BY <1>2, <2>3 DEF Housed, Apart
<1>5. ASSUME NEW r \in Req
      PROVE  /\ req'[r].cmd = req[r].cmd /\ req'[r].reg = req[r].reg
             /\ r # cur => req'[r] = req[r]
             /\ Located(r)' <=> Located(r)
             /\ Waits(r)' <=> Waits(r)
  <2>1. Waits(r)' <=> Waits(r)
    BY <1>1 DEF Waits
  <2>2. Located(r)' <=> Waits(r) \/ r = cur
    BY <1>1, <1>2, <2>1 DEF Located
  <2>3. r # deferred
    BY <1>2, <1>4
  <2>4. QED BY <2>1, <2>2, <2>3 DEF Located, Commits
<1>6. Numbered' /\ Queued'
  <2>1. Numbered'
    BY <1>1, <1>2, <1>5 DEF Housed, Numbered, Numbers
  <2>2. Queued'
    BY <1>3, <1>5 DEF Housed, Queued
  <2>3. QED BY <2>1, <2>2
<1>7. InHand'
  BY <1>1 DEF InHand
<1>8. SetAside'
  BY <1>1, <1>2 DEF Housed, InHand, SetAside, Commits, Cmd
<1>9. Lanes'
  BY <1>1, <1>2, <1>5 DEF Housed, Lanes, ReqOrNone, Numbers
<1>10. Apart'
  BY <1>1, <1>3 DEF Apart, Waits
<1>11. OneDetach'
  <2>1. \A r \in Req : Detaching(r)' <=> Detaching(r)
    BY <1>5 DEF Detaching
  <2>2. QED BY <1>1, <2>1 DEF Housed, OneDetach
<1>12. Announcing'
  <2>1. ~Announced(cur)
    BY <1>2 DEF Housed, Announcing, InHand
  <2>2. \A r \in Req : Announced(r)' => req'[r] = req[r] /\ Announced(r)
    BY <1>1, <1>5, <2>1
  <2>3. QED BY <2>2 DEF Housed, Announcing
<1>13. Accounted'
  <2>1. \A r \in Req : r # cur => (Active(r)' <=> Active(r))
    BY <1>5 DEF Active
  <2>2. Located(cur)
    BY DEF Located
  <2>3. QED BY <1>1, <1>5, <2>1, <2>2 DEF Housed, Accounted
<1>14. QED BY <1>6, <1>7, <1>8, <1>9, <1>10, <1>11, <1>12, <1>13 DEF Housed

LEMMA SettlesHouses ==
  ASSUME TypeOK, TypeOK', Known, Housed, NEW d \in ReqOrNone, Settles(d) PROVE Housed'
<1>1. /\ UNCHANGED <<count, ordinary, stopSlot, shutSlot, cur, opc, stopH, shutH>>
      /\ \A r \in Req : r # d => req'[r] = req[r] /\ (Announced(r)' <=> Announced(r))
      /\ d \in Req => /\ ~req'[d].reg /\ req'[d].drained /\ req'[d].cmd = req[d].cmd
                      /\ req'[d].state = req[d].state
  BY DEF Settles, mailVars
<1>2. /\ Numbers /\ deferred \in ReqOrNone /\ cur \in ReqOrNone /\ NoReq = 0
      /\ stopSlot \in ReqOrNone /\ shutSlot \in ReqOrNone /\ (\A r \in Req : r > 0)
      /\ \A r \in Req : Located(r) => r <= count
  BY LocatedKnown
<1>3. /\ d \in Req => /\ d \notin ordinary /\ d # stopSlot /\ d # shutSlot /\ d # cur
                      /\ d # deferred' /\ d <= count
      /\ deferred' # NoReq => deferred' = deferred
  <2>1. CASE deferred' = deferred /\ reserved' = reserved /\ (d \in Req => req[d].drained)
    <3>1. ASSUME d \in Req PROVE ~Located(d)
      BY <1>2, <2>1, <3>1 DEF Housed, Queued, InHand, SetAside, Located
    <3>2. ASSUME d \in Req PROVE d <= count
      <4>1. ~(d > count)
        BY <2>1, <3>2 DEF Housed, Numbered
      <4>2. QED BY <1>2, <3>2, <4>1 DEF Numbers
    <3>3. QED BY <2>1, <3>1, <3>2 DEF Located, Waits
  <2>2. CASE deferred' = NoReq /\ deferred = d
    BY <1>2, <2>2 DEF Housed, Apart, SetAside, Waits
  <2>3. QED BY <2>1, <2>2 DEF Settles
<1>4. ASSUME NEW r \in Req
      PROVE  /\ req'[r].cmd = req[r].cmd
             /\ Waits(r)' <=> Waits(r)
             /\ Waits(r) => r # d
             /\ Located(r)' <=> Located(r) /\ r # d
             /\ r # d => (Active(r)' <=> Active(r))
             /\ r = d => ~Active(r)'
  <2>1. Waits(r)' <=> Waits(r)
    BY <1>1 DEF Waits
  <2>2. Waits(r) => r # d
    BY <1>3 DEF Waits
  <2>3. Located(r)' <=> Waits(r) \/ r = cur \/ r = deferred'
    BY <1>1, <2>1 DEF Located
  <2>4. r # d => (r = deferred' <=> r = deferred)
    BY <1>2, <1>3 DEF Settles
  <2>5. Located(r)' <=> Located(r) /\ r # d
    BY <1>3, <2>2, <2>3, <2>4 DEF Located
  <2>6. req'[r].cmd = req[r].cmd
    BY <1>1
  <2>7. r # d => (Active(r)' <=> Active(r))
    BY <1>1 DEF Active
  <2>8. r = d => ~Active(r)'
    BY <1>1 DEF Active
  <2>9. QED BY <2>1, <2>2, <2>5, <2>6, <2>7, <2>8
<1>5. Numbered'
  BY <1>1, <1>2, <1>3 DEF Housed, Numbered, Numbers
<1>6. Queued'
  BY <1>1, <1>4 DEF Housed, Queued
<1>7. InHand'
  BY <1>1, <1>2, <1>3 DEF Housed, InHand, ReqOrNone
<1>8. SetAside'
  BY <1>1, <1>2, <1>3 DEF Housed, SetAside, ReqOrNone
<1>9. Lanes'
  BY <1>1, <1>2, <1>4 DEF Housed, Lanes, ReqOrNone, Numbers
<1>10. Apart'
  BY <1>1, <1>2, <1>3 DEF Housed, Apart, Waits, Settles
<1>11. OneDetach'
  <2>1. \A r \in Req : Detaching(r)' => Detaching(r) /\ r # d
    BY <1>4 DEF Detaching
  <2>2. CASE deferred' = deferred /\ reserved' = reserved
    BY <2>1, <2>2 DEF Housed, OneDetach
  <2>3. CASE deferred' = NoReq /\ deferred = d /\ d \in Req
    <3>1. Detaching(d)
      BY <1>2, <2>3 DEF Housed, SetAside, Detaching, Located
    <3>2. QED BY <2>1, <2>3, <3>1 DEF Housed, OneDetach
  <2>4. QED BY <2>2, <2>3 DEF Settles
<1>12. Announcing'
  BY <1>1 DEF Housed, Announcing
<1>13. Accounted'
  BY <1>1, <1>4 DEF Housed, Accounted
<1>14. QED BY <1>5, <1>6, <1>7, <1>8, <1>9, <1>10, <1>11, <1>12, <1>13 DEF Housed

-----------------------------------------------------------------------------
(* Every call and every watchdog is Mail.                                    *)

LEMMA PendingGrows ==
  ASSUME NEW C, NEW D, Pending(C), C \subseteq D PROVE Pending(D)
BY DEF Pending

LEMMA NoWork ==
  ASSUME ~HasPendingWork, NEW C \in SUBSET Commands PROVE ~Pending(C)
BY PendingGrows DEF HasPendingWork

(* Parts of the mailbox a step leaves alone. *)
Others == /\ UNCHANGED <<cur, opc, deferred, sig, stopSlot, shutSlot, shutH>>
          /\ reserved => reserved'
          /\ stopSlot # NoReq => stopH' = stopH

LEMMA EnqueueMails ==
  ASSUME TypeOK, NEW c \in Commands \ {"STOP", "SHUTDOWN"}, CallerMayCreate, Enqueue(c),
         Admissible(c), Others, c = "DETACH" => ~reserved /\ reserved'
  PROVE  Mail
<1>1. Numbers /\ count + 1 \in Req
  BY NumbersTyped, CreateTypes DEF Enqueue
<1>2. \A r \in Req : r # count + 1 => req'[r] = req[r]
  BY DEF Enqueue, Create
<1>3. req'[count + 1] = Fresh(c)
  BY <1>1 DEF Enqueue, Create, TypeOK, RequestsOK
<1>4. Registry
  BY <1>1, <1>2 DEF Registry, Continues, Enqueue, Numbers
<1>5. New(c)
  BY <1>1, <1>2, <1>3 DEF New, Enqueue, Create, Numbers
<1>6. Queues(c)
  BY <1>5 DEF Queues, Others, Enqueue
<1>7. QED BY <1>4, <1>6 DEF Mail, Others

LEMMA IdleMails ==
  ASSUME Others, UNCHANGED <<req, count, ordinary>> PROVE Mail
<1>1. Registry
  BY DEF Registry, Continues
<1>2. NothingNew
  BY DEF NothingNew, Others
<1>3. QED BY <1>1, <1>2 DEF Mail, Others

(* Some of the FIFO is cancelled, nothing comes in. *)
LEMMA SweepMails ==
  ASSUME TypeOK, Known, Others, UNCHANGED count, ordinary' \subseteq ordinary,
         NEW q \in [Req -> Request], \A r \in Req : Continues(q[r], req[r]),
         \A r \in Req : r > count => q[r] = req[r],
         \A r \in Req : \/ r \in ordinary /\ r \notin ordinary' /\ Cancelled(req'[r], req[r])
                        \/ (r \in ordinary => r \in ordinary') /\ req'[r] = q[r]
  PROVE  Mail
<1>1. Registry
  BY DEF Registry
<1>2. Numbers
  BY NumbersTyped
<1>3. NothingNew
  <2>1. ASSUME NEW r \in Req, r > count PROVE req'[r] = req[r]
    <3>1. r \notin ordinary
      BY <1>2, <2>1 DEF Known, Numbers
    <3>2. QED BY <2>1, <3>1
  <2>2. QED BY <2>1 DEF NothingNew, Others
<1>4. QED BY <1>1, <1>3 DEF Mail, Others

LEMMA CancelledFacts ==
  ASSUME TypeOK, NEW r \in Req
  PROVE  /\ Cancelled(CancelledReq(r), req[r]) /\ Cancelled(Dropped(r), req[r])
         /\ Continues(req[r], req[r])
<1>1. req[r] \in Request
  BY DEF TypeOK, RequestsOK
<1>2. QED BY <1>1 DEF CancelledReq, Dropped, Cancelled, Continues, Request

LEMMA SubmitPlainMails ==
  ASSUME TypeOK, Known, Housed, NEW c \in Ops, SubmitPlain(c) PROVE Mail
<1>1. c \in Commands \ {"STOP", "SHUTDOWN"} /\ c # "DETACH" /\ c # "PREPARE"
  BY OpsAssumption DEF SubmitPlain, Plain, Commands
<1>2. CallerMayCreate /\ Enqueue(c) /\ Admitted(c)
  BY DEF SubmitPlain, CallerMayCall
<1>3. Others
  BY DEF SubmitPlain, Others, ownVars, ctlVars, lifeVars
<1>4. ~Pending({"RAMP"}) /\ ~Pending({"PREPARE"})
  BY <1>2, PendingGrows DEF Admitted
<1>5. Admissible(c)
  BY <1>1, <1>2, <1>4 DEF Admitted, Admissible
<1>6. QED BY <1>1, <1>2, <1>3, <1>5, EnqueueMails

LEMMA ConnectMails ==
  ASSUME ConnectAsync PROVE Mail
<1>1. Others /\ UNCHANGED <<req, count, ordinary>>
  BY DEF ConnectAsync, Others, mailVars, ownVars, ctlVars, lifeVars
<1>2. QED BY <1>1, IdleMails

LEMMA DisconnectMails ==
  ASSUME DisconnectAsync PROVE Mail
<1>1. Others /\ UNCHANGED <<req, count, ordinary>>
  BY DEF DisconnectAsync, Others, mailVars, ownVars, ctlVars, lifeVars
<1>2. QED BY <1>1, IdleMails

(* A Stop that is forgotten has succeeded, so it does not wait any more.     *)
LEMMA ForgottenWaitsNot ==
  ASSUME Known, TypeOK, Housed, stopH # NoReq => req[stopH].state # "QUEUED"
  PROVE  stopSlot = NoReq
<1>1. SUFFICES ASSUME stopSlot # NoReq PROVE FALSE
  OBVIOUS
<1>2. stopH = stopSlot /\ stopSlot \in Req
  BY <1>1 DEF Housed, Lanes, TypeOK, MailOK, ReqOrNone
<1>3. req[stopSlot].state = "QUEUED"
  BY <1>2 DEF Housed, Queued, Waits
<1>4. QED BY <1>1, <1>2, <1>3

LEMMA CheckStopMails ==
  ASSUME TypeOK, Known, Housed, NEW c, CheckStop(c) PROVE Mail
<1>1. UNCHANGED <<req, count, ordinary, cur, opc, deferred, sig, stopSlot, shutSlot, shutH,
                  reserved>>
  BY DEF CheckStop, mailVars, ownVars, lifeVars
<1>2. CASE stopH # NoReq /\ req[stopH].state # "SUCCEEDED"
  <2>1. Others
    BY <1>1, <1>2 DEF CheckStop, Others
  <2>2. QED BY <1>1, <2>1, IdleMails
<1>3. CASE ~(stopH # NoReq /\ req[stopH].state # "SUCCEEDED")
  <2>1. stopSlot = NoReq
    BY <1>3, ForgottenWaitsNot
  <2>2. Others
    BY <1>1, <2>1 DEF Others
  <2>3. QED BY <1>1, <2>2, IdleMails
<1>4. QED BY <1>2, <1>3

LEMMA SubmitPastMails ==
  ASSUME TypeOK, Known, Housed, NEW c, SubmitPast(c) PROVE Mail
<1>1. /\ c \in Commands \ {"STOP", "SHUTDOWN"} /\ c \notin {"DETACH", "PREPARE", "RAMP"}
      /\ CallerMayCreate
  BY DEF SubmitPast, Submissions, Commands
<1>2. Others
  BY DEF SubmitPast, Others, ownVars, ctlVars, lifeVars
<1>3. CASE ~Admitted(c)
  <2>1. UNCHANGED <<req, count, ordinary>>
    BY <1>3 DEF SubmitPast
  <2>2. QED BY <1>2, <2>1, IdleMails
<1>4. CASE Admitted(c)
  <2>1. Enqueue(c)
    BY <1>4 DEF SubmitPast
  <2>2. ~Pending({"RAMP"}) /\ ~Pending({"PREPARE"})
    BY <1>4, PendingGrows DEF Admitted
  <2>3. Admissible(c)
    BY <1>1, <2>2 DEF Admissible
  <2>4. QED BY <1>1, <1>2, <2>1, <2>3, EnqueueMails
<1>5. QED BY <1>3, <1>4

LEMMA PrepareMails ==
  ASSUME TypeOK, Known, Housed, PrepareAsync PROVE Mail
<1>1. Others
  BY DEF PrepareAsync, Others, ownVars, lifeVars
<1>2. CallerMayCreate /\ Enqueue("PREPARE") /\ ~Pending(FieldMutations \cup {"RAMP"})
  BY DEF PrepareAsync, CallerMayCall
<1>3. ~Pending({"RAMP"}) /\ ~Pending(FieldMutations)
  BY <1>2, PendingGrows
<1>4. Admissible("PREPARE")
  BY <1>3 DEF Admissible, FieldMutations
<1>5. "PREPARE" \in Commands \ {"STOP", "SHUTDOWN"}
  BY DEF Commands
<1>6. QED BY <1>1, <1>2, <1>4, <1>5, EnqueueMails

LEMMA DisplayMails ==
  ASSUME TypeOK, Known, Housed, DisplayAsync PROVE Mail
<1>1. Others
  BY DEF DisplayAsync, Others, ownVars, ctlVars, lifeVars
<1> DEFINE P == Pending(Mutations \cup LifecycleOps \cup {"PREPARE", "RAMP", "STOP"})
<1>2. CASE P
  <2>1. UNCHANGED <<req, count, ordinary>>
    BY <1>2 DEF DisplayAsync
  <2>2. QED BY <1>1, <2>1, IdleMails
<1>3. CASE ~P
  <2>1. CallerMayCreate /\ Enqueue("DISPLAY")
    BY <1>3 DEF DisplayAsync, CallerMayCall
  <2>2. ~Pending({"RAMP"})
    BY <1>3, PendingGrows
  <2>3. Admissible("DISPLAY")
    BY <2>2 DEF Admissible, FieldMutations
  <2>4. "DISPLAY" \in Commands \ {"STOP", "SHUTDOWN"}
    BY DEF Commands
  <2>5. QED BY <1>1, <2>1, <2>3, <2>4, EnqueueMails
<1>4. QED BY <1>2, <1>3

LEMMA DetachMails ==
  ASSUME TypeOK, Known, Housed, DetachAsync PROVE Mail
<1>1. ~reserved /\ reserved' /\ Others
  BY DEF DetachAsync, Others, ownVars
<1>2. CallerMayCreate /\ Enqueue("DETACH") /\ ~HasPendingWork
  BY DEF DetachAsync, CallerMayCall
<1>3. ~Pending({"RAMP"})
  BY <1>2, NoWork DEF Commands
<1>4. Admissible("DETACH")
  BY <1>2, <1>3 DEF Admissible, FieldMutations
<1>5. "DETACH" \in Commands \ {"STOP", "SHUTDOWN"}
  BY DEF Commands
<1>6. QED BY <1>1, <1>2, <1>4, <1>5, EnqueueMails

LEMMA InvalidateMails ==
  ASSUME InvalidateDisplayCache PROVE Mail
<1>1. Others /\ UNCHANGED <<req, count, ordinary>>
  BY DEF InvalidateDisplayCache, Others, mailVars, ownVars, ctlVars, lifeVars
<1>2. QED BY <1>1, IdleMails

(* A withdrawn preparation is the one request that leaves the FIFO. *)
LEMMA WithdrawMails ==
  ASSUME TypeOK, Known, Housed, WithdrawPreparation, Others, UNCHANGED count PROVE Mail
<1>1. CASE prepH \in ordinary
  <2>1. prepH \in Req /\ req \in [Req -> Request]
    BY <1>1 DEF TypeOK, MailOK, RequestsOK
  <2>2. /\ req' = [req EXCEPT ![prepH] = Dropped(prepH)] /\ ordinary' = ordinary \ {prepH}
    BY <1>1 DEF WithdrawPreparation
  <2>3. \A r \in Req : \/ r \in ordinary /\ r \notin ordinary' /\ Cancelled(req'[r], req[r])
                       \/ (r \in ordinary => r \in ordinary') /\ req'[r] = req[r]
    BY <1>1, <2>1, <2>2, CancelledFacts
  <2>4. \A r \in Req : Continues(req[r], req[r])
    BY CancelledFacts
  <2>5. ordinary' \subseteq ordinary
    BY <2>2
  <2>6. QED BY <2>1, <2>3, <2>4, <2>5, SweepMails
<1>2. CASE prepH \notin ordinary
  BY <1>2, IdleMails DEF WithdrawPreparation
<1>3. QED BY <1>1, <1>2

LEMMA CancelMails ==
  ASSUME TypeOK, Known, Housed, CancelMagnetPreparation PROVE Mail
<1>1. Others /\ WithdrawPreparation /\ UNCHANGED count
  BY DEF CancelMagnetPreparation, Others, ownVars, lifeVars
<1>2. QED BY <1>1, WithdrawMails

(* An accepted Stop sweeps the queued mutations out of the FIFO; q is the    *)
(* registry without them.                                                    *)
LEMMA AsksStopMails ==
  ASSUME TypeOK, Known, Housed, ~Pending({"RAMP"}), count + 1 \in Req,
         NEW q \in [Req -> Request], \A r \in Req : Continues(q[r], req[r]),
         \A r \in Req : r > count => q[r] = req[r],
         stopSlot = NoReq, count' = count + 1,
         ordinary' = {r \in ordinary : ~Swept(r)},
         req' = [r \in Req |-> IF r = count + 1 THEN Fresh("STOP")
                              ELSE IF Swept(r) THEN CancelledReq(r) ELSE q[r]],
         stopSlot' = count + 1, stopH' = count + 1,
         UNCHANGED <<cur, opc, deferred, sig, shutSlot, shutH, reserved>>
  PROVE  Mail
<1>1. Numbers
  BY NumbersTyped
<1>2. \A r \in Req : Swept(r) => r <= count /\ r \in ordinary /\ r \notin ordinary'
  BY DEF Swept, Known
<1>3. Registry
  <2> SUFFICES ASSUME NEW r \in Req, r <= count
               PROVE  \/ Continues(req'[r], req[r]) /\ (r \in ordinary => r \in ordinary')
                      \/ Cancelled(req'[r], req[r]) /\ r \in ordinary /\ r \notin ordinary'
    BY DEF Registry
  <2>1. r # count + 1
    BY <1>1 DEF Numbers
  <2>2. req'[r] = IF Swept(r) THEN CancelledReq(r) ELSE q[r]
    BY <2>1
  <2>3. QED BY <1>2, <2>2, CancelledFacts
<1>4. New("STOP")
  <2>1. req'[count + 1] = Fresh("STOP")
    OBVIOUS
  <2>2. ASSUME NEW r \in Req, r > count + 1 PROVE req'[r] = req[r]
    <3>1. r # count + 1 /\ ~(r <= count) /\ r > count
      BY <1>1, <2>2 DEF Numbers
    <3>2. ~Swept(r)
      BY <1>2, <3>1
    <3>3. QED BY <3>1, <3>2
  <2>3. QED BY <2>1, <2>2 DEF New
<1>5. Admissible("STOP")
  BY DEF Admissible, FieldMutations
<1>6. AsksStop
  BY <1>4, <1>5 DEF AsksStop
<1>7. QED BY <1>3, <1>6 DEF Mail

LEMMA ReusesStopMails ==
  ASSUME TypeOK, Known, Housed,
         NEW q \in [Req -> Request], \A r \in Req : Continues(q[r], req[r]),
         \A r \in Req : r > count => q[r] = req[r],
         ordinary' = {r \in ordinary : ~Swept(r)},
         req' = [r \in Req |-> IF Swept(r) THEN CancelledReq(r) ELSE q[r]],
         Others, UNCHANGED count
  PROVE  Mail
<1>1. \A r \in Req : \/ r \in ordinary /\ r \notin ordinary' /\ Cancelled(req'[r], req[r])
                     \/ (r \in ordinary => r \in ordinary') /\ req'[r] = q[r]
  BY CancelledFacts DEF Swept
<1>2. ordinary' \subseteq ordinary
  OBVIOUS
<1>3. QED BY <1>1, <1>2, SweepMails

(* The Stop that waits is the one whose handle is kept. *)
LEMMA NoHandleNoStop == ASSUME Housed, stopH = NoReq PROVE stopSlot = NoReq
BY DEF Housed, Lanes

LEMMA IssueMails ==
  ASSUME TypeOK, Known, Housed, CallerMayCreate, ~Pending({"RAMP"}), IssueStop,
         UNCHANGED <<cur, opc, deferred, sig, shutSlot, shutH, reserved>>
  PROVE  Mail
<1>1. /\ req \in [Req -> Request] /\ \A r \in Req : Continues(req[r], req[r])
      /\ count + 1 \in Req
  <2>1. count + 1 \in Req
    BY BoundAssumption DEF TypeOK, RequestsOK, CallerMayCreate, Req
  <2>2. QED BY <2>1, CancelledFacts DEF TypeOK, RequestsOK
<1>2. CASE stopH = NoReq
  BY <1>1, <1>2, AsksStopMails, NoHandleNoStop DEF IssueStop
<1>3. CASE stopH # NoReq
  <2>1. /\ req' = [r \in Req |-> IF Swept(r) THEN CancelledReq(r) ELSE req[r]]
        /\ ordinary' = {r \in ordinary : ~Swept(r)} /\ UNCHANGED <<count, stopSlot>>
        /\ stopH' = stopH
    BY <1>3 DEF IssueStop
  <2>2. Others
    BY <2>1 DEF Others
  <2>3. QED BY <1>1, <2>1, <2>2, ReusesStopMails
<1>4. QED BY <1>2, <1>3

LEMMA RequestStopMails ==
  ASSUME TypeOK, Known, Housed, RequestStop PROVE Mail
<1>1. CallerMayCreate /\ UNCHANGED <<cur, opc, deferred, sig, shutSlot, shutH, reserved>>
  BY DEF RequestStop, CallerMayCall, ownVars, lifeVars
<1>2. CASE StopCancelsPreparation /\ WithdrawPreparation /\ UNCHANGED <<stopSlot, stopH, count>>
  <2>1. Others
    BY <1>1, <1>2 DEF Others
  <2>2. QED BY <1>2, <2>1, WithdrawMails
<1>3. CASE StopAccepted /\ IssueStop
  BY <1>1, <1>3, IssueMails DEF StopAccepted
<1>4. QED BY <1>2, <1>3 DEF RequestStop

LEMMA RetryStopMails ==
  ASSUME TypeOK, Known, Housed, RetryStop PROVE Mail
<1>1. UNCHANGED <<req, count, ordinary, cur, opc, deferred, sig, stopSlot, shutSlot, shutH,
                  reserved>>
  BY DEF RetryStop, mailVars, ownVars, lifeVars
<1>2. stopSlot = NoReq
  BY ForgottenWaitsNot DEF RetryStop
<1>3. Others
  BY <1>1, <1>2 DEF Others
<1>4. QED BY <1>1, <1>3, IdleMails

(* The steps of request_shutdown that leave the mailbox alone. *)
LEMMA ShutdownChecksMails ==
  ASSUME RequestShutdown \/ ShutdownRaisesStop PROVE Mail
<1>1. Others /\ UNCHANGED <<req, count, ordinary>>
  BY DEF RequestShutdown, ShutdownRaisesStop, Others, mailVars, ownVars, ctlVars, lifeVars
<1>2. QED BY <1>1, IdleMails

LEMMA ShutdownSweepsMails ==
  ASSUME TypeOK, Known, Housed, ShutdownSweeps PROVE Mail
<1>1. /\ ordinary' = {} /\ UNCHANGED count
      /\ req' = [r \in Req |-> IF r \in ordinary THEN CancelledReq(r) ELSE req[r]]
  BY DEF ShutdownSweeps
<1>2. Others
  BY DEF ShutdownSweeps, Others, ownVars, ctlVars, lifeVars
<1>3. \A r \in Req : \/ r \in ordinary /\ r \notin ordinary' /\ Cancelled(req'[r], req[r])
                     \/ (r \in ordinary => r \in ordinary') /\ req'[r] = req[r]
  BY <1>1, CancelledFacts
<1>4. req \in [Req -> Request] /\ ordinary' \subseteq ordinary
      /\ \A r \in Req : Continues(req[r], req[r])
  BY <1>1, CancelledFacts DEF TypeOK, RequestsOK
<1>5. QED BY <1>1, <1>2, <1>3, <1>4, SweepMails

LEMMA ShutdownSubmitsMails ==
  ASSUME TypeOK, Known, Housed, ShutdownSubmits PROVE Mail
<1>1. /\ CallerMayCreate /\ Numbers
      /\ UNCHANGED <<ordinary, cur, opc, deferred, sig, stopSlot, stopH, reserved>>
  BY NumbersTyped DEF ShutdownSubmits, ownVars, lifeVars
<1>2. CASE UNCHANGED <<req, count, shutSlot, shutH>>
  <2>1. Others
    BY <1>1, <1>2 DEF Others
  <2>2. QED BY <1>1, <1>2, <2>1, IdleMails
<1>3. CASE /\ shutH # NoReq => req[shutH].state \in {"FAILED", "CANCELLED"}
           /\ Create("SHUTDOWN") /\ shutSlot' = count + 1 /\ shutH' = count + 1
  <2>1. /\ count + 1 \in Req /\ count' = count + 1 /\ req'[count + 1] = Fresh("SHUTDOWN")
        /\ \A r \in Req : r # count + 1 => req'[r] = req[r]
    <3>1. count + 1 \in Req
      BY <1>1, BoundAssumption DEF TypeOK, RequestsOK, CallerMayCreate, Req
    <3>2. req \in [Req -> Request]
      BY DEF TypeOK, RequestsOK
    <3>3. count' = count + 1 /\ req' = [req EXCEPT ![count + 1] = Fresh("SHUTDOWN")]
      BY <1>3 DEF Create
    <3>4. QED BY <3>1, <3>2, <3>3
  <2>2. Registry
    BY <1>1, <2>1 DEF Registry, Continues, Numbers
  <2>3. New("SHUTDOWN")
    BY <1>1, <2>1 DEF New, Numbers
  <2>4. shutSlot = NoReq
    <3>1. SUFFICES ASSUME shutSlot # NoReq PROVE FALSE
      OBVIOUS
    <3>2. shutH = shutSlot /\ shutSlot \in Req
      BY <3>1 DEF Housed, Lanes, TypeOK, MailOK, ReqOrNone
    <3>3. req[shutSlot].state = "QUEUED"
      BY <3>2 DEF Housed, Queued, Waits
    <3>4. QED BY <1>3, <3>1, <3>2, <3>3
  <2>5. Admissible("SHUTDOWN")
    BY DEF Admissible, FieldMutations
  <2>6. AsksShutdown
    BY <1>1, <1>3, <2>3, <2>4, <2>5 DEF AsksShutdown
  <2>7. QED BY <1>1, <2>2, <2>6 DEF Mail
<1>4. QED BY <1>2, <1>3 DEF ShutdownSubmits

LEMMA ClientMails ==
  ASSUME TypeOK, Known, Housed, Client PROVE Mail
BY SubmitPlainMails, CheckStopMails, SubmitPastMails, ConnectMails, DisconnectMails,
   PrepareMails, CancelMails, DisplayMails, InvalidateMails, RequestStopMails, RetryStopMails,
   DetachMails, ShutdownChecksMails, ShutdownSweepsMails, ShutdownSubmitsMails DEF Client

(* A watchdog changes its own record, which keeps its place.                 *)
LEMMA TickFacts ==
  ASSUME TypeOK, NEW t \in Req, NEW m \in {"spent", "request", "raise"}
  PROVE  LET q == [req EXCEPT ![t].timer = m] IN
         q \in [Req -> Request] /\ \A r \in Req : Continues(q[r], req[r]) /\ (r # t => q[r] = req[r])
<1>1. \A r \in Req : req[r] \in Request
  BY DEF TypeOK, RequestsOK
<1>2. QED BY <1>1 DEF Continues, Request, TypeOK, RequestsOK

LEMMA TickMails ==
  ASSUME TypeOK, Known, Housed, NEW t \in Req, t <= count, Others,
         UNCHANGED <<count, ordinary>>, NEW m \in {"spent", "request", "raise"},
         req' = [req EXCEPT ![t].timer = m]
  PROVE  Mail
<1> DEFINE q == [req EXCEPT ![t].timer = m]
<1>1. /\ q \in [Req -> Request] /\ \A r \in Req : Continues(q[r], req[r])
      /\ \A r \in Req : r # t => q[r] = req[r]
  BY TickFacts
<1>2. \A r \in Req : r > count => r # t
  BY NumbersTyped DEF Numbers
<1>3. req' = q
  OBVIOUS
<1> HIDE DEF q
<1>4. \A r \in Req : (r \in ordinary => r \in ordinary') /\ req'[r] = q[r]
  BY <1>3
<1>5. \A r \in Req : r > count => q[r] = req[r]
  BY <1>1, <1>2
<1>6. ordinary' \subseteq ordinary
  OBVIOUS
<1>7. QED BY <1>1, <1>4, <1>5, <1>6, SweepMails

LEMMA TimerMails ==
  ASSUME TypeOK, Known, Housed, NEW t \in Req, Timer(t) PROVE Mail
<1>0. Numbers /\ (\A r \in Req : req[r] \in Request) /\ req \in [Req -> Request]
  BY NumbersTyped DEF TypeOK, RequestsOK
<1>1. t <= count
  <2>1. req[t].timer # "off"
    BY DEF Timer, TimeoutQueued, TimeoutRunning, TimeoutRaisesStop, TimeoutRequestsStop,
       TimeoutChecksPreparation, TimeoutRaisesEvent, Due
  <2>2. QED BY <1>0, <2>1 DEF Housed, Numbered, Numbers
<1>2. UNCHANGED <<cur, opc, deferred, sig, shutSlot, shutH, reserved>>
  BY DEF Timer, TimeoutQueued, TimeoutRunning, TimeoutRaisesStop, TimeoutRequestsStop,
     TimeoutChecksPreparation, TimeoutRaisesEvent, mailVars, ownVars, ctlVars, lifeVars
<1>3. CASE TimeoutQueued(t)
  <2>1. /\ req' = [req EXCEPT ![t] = Dropped(t)] /\ ordinary' = ordinary \ {t} /\ t \in ordinary
        /\ UNCHANGED count /\ Others
    BY <1>2, <1>3 DEF TimeoutQueued, Others
  <2>2. \A r \in Req : \/ r \in ordinary /\ r \notin ordinary' /\ Cancelled(req'[r], req[r])
                       \/ (r \in ordinary => r \in ordinary') /\ req'[r] = req[r]
    BY <1>0, <2>1, CancelledFacts
  <2>3. \A r \in Req : Continues(req[r], req[r])
    BY CancelledFacts
  <2>4. ordinary' \subseteq ordinary
    BY <2>1
  <2>5. QED BY <1>0, <2>1, <2>2, <2>3, <2>4, SweepMails
<1>4. CASE TimeoutRunning(t)
  <2>1. UNCHANGED <<count, ordinary>> /\ Others
    BY <1>2, <1>4 DEF TimeoutRunning, Others, mailVars
  <2>2. \A r \in Req : r # t => req'[r] = req[r]
    BY <1>0, <1>4 DEF TimeoutRunning
  <2>3. Continues(req'[t], req[t])
    BY <1>0, <1>4 DEF TimeoutRunning, Continues, Request
  <2>4. req' \in [Req -> Request]
    BY <1>4, WatchdogTypes DEF Timer, TypeOK, RequestsOK
  <2>5. \A r \in Req : Continues(req'[r], req[r])
    BY <2>2, <2>3, CancelledFacts
  <2>6. \A r \in Req : r > count => req'[r] = req[r]
    BY <1>0, <1>1, <2>2 DEF Numbers
  <2>7. Registry
    BY <2>1, <2>5 DEF Registry
  <2>8. NothingNew
    BY <2>1, <2>6 DEF NothingNew, Others
  <2>9. QED BY <2>1, <2>7, <2>8 DEF Mail, Others
<1>5. CASE TimeoutRaisesStop(t)
  <2>1. UNCHANGED <<count, ordinary>> /\ Others /\ req' = [req EXCEPT ![t].timer = "request"]
    BY <1>2, <1>5 DEF TimeoutRaisesStop, Others, mailVars, ctlVars
  <2>2. QED BY <1>1, <2>1, TickMails
<1>6. CASE TimeoutChecksPreparation(t)
  <2>1. PICK m \in {"raise", "spent"} : req' = [req EXCEPT ![t].timer = m]
    BY <1>6 DEF TimeoutChecksPreparation
  <2>2. UNCHANGED <<count, ordinary>> /\ Others
    BY <1>2, <1>6 DEF TimeoutChecksPreparation, Others, mailVars, ctlVars
  <2>3. QED BY <1>1, <2>1, <2>2, TickMails
<1>7. CASE TimeoutRaisesEvent(t)
  <2>1. UNCHANGED <<count, ordinary>> /\ Others /\ req' = [req EXCEPT ![t].timer = "spent"]
    BY <1>2, <1>7 DEF TimeoutRaisesEvent, Others, mailVars, ctlVars
  <2>2. QED BY <1>1, <2>1, TickMails
<1>8. CASE TimeoutRequestsStop(t)
  <2> DEFINE spent == [req EXCEPT ![t].timer = "spent"]
  <2>1. /\ spent \in [Req -> Request] /\ \A r \in Req : Continues(spent[r], req[r])
        /\ \A r \in Req : r # t => spent[r] = req[r]
    BY TickFacts
  <2>2. \A r \in Req : r > count => spent[r] = req[r]
    BY <1>0, <1>1, <2>1 DEF Numbers
  <2>3. CASE /\ prepH \in ordinary /\ req' = [spent EXCEPT ![prepH] = Dropped(prepH)]
             /\ ordinary' = ordinary \ {prepH} /\ UNCHANGED <<count, stopSlot, stopH>>
    <3>1. prepH \in Req
      BY <2>3 DEF TypeOK, MailOK
    <3> HIDE DEF spent
    <3>2. \A r \in Req : \/ r \in ordinary /\ r \notin ordinary' /\ Cancelled(req'[r], req[r])
                         \/ (r \in ordinary => r \in ordinary') /\ req'[r] = spent[r]
      BY <2>1, <2>3, <3>1, CancelledFacts
    <3>3. Others /\ ordinary' \subseteq ordinary
      BY <1>2, <2>3 DEF Others
    <3>4. QED BY <2>1, <2>2, <2>3, <3>2, <3>3, SweepMails
  <2>4. CASE req' = spent /\ UNCHANGED <<count, ordinary, stopSlot, stopH>>
    <3>1. Others
      BY <1>2, <2>4 DEF Others
    <3>2. QED BY <1>1, <2>4, <3>1, TickMails
  <2>5. CASE /\ StopAccepted /\ stopH = NoReq /\ count < 2 * MaxCalls /\ count' = count + 1
             /\ ordinary' = {q \in ordinary : ~Swept(q)}
             /\ req' = [q \in Req |-> IF q = count + 1 THEN Fresh("STOP")
                                 ELSE IF Swept(q) THEN CancelledReq(q) ELSE spent[q]]
             /\ stopSlot' = count + 1 /\ stopH' = count + 1
    <3> HIDE DEF spent
    <3>1. count + 1 \in Req
      BY <2>5, BoundAssumption DEF TypeOK, RequestsOK, Req
    <3>2. stopSlot = NoReq /\ ~Pending({"RAMP"})
      BY <2>5, NoHandleNoStop DEF StopAccepted
    <3>3. QED BY <1>2, <2>1, <2>2, <2>5, <3>1, <3>2, AsksStopMails
  <2>6. CASE /\ ordinary' = {q \in ordinary : ~Swept(q)}
             /\ req' = [q \in Req |-> IF Swept(q) THEN CancelledReq(q) ELSE spent[q]]
             /\ UNCHANGED <<count, stopSlot, stopH>>
    <3> HIDE DEF spent
    <3>1. Others
      BY <1>2, <2>6 DEF Others
    <3>2. QED BY <2>1, <2>2, <2>6, <3>1, ReusesStopMails
  <2>7. QED BY <1>8, <2>3, <2>4, <2>5, <2>6 DEF TimeoutRequestsStop
<1>9. QED BY <1>3, <1>4, <1>5, <1>6, <1>7, <1>8 DEF Timer

-----------------------------------------------------------------------------
(* The steps of the owner and of the GUI thread.                             *)

LEMMA BusyOwner ==
  ASSUME TypeOK, opc # "idle"
  PROVE  cur \in Req /\ req[cur] \in Request /\ Cmd = req[cur].cmd
BY DEF TypeOK, BusyOK, RequestsOK, Cmd

LEMMA DoneFacts ==
  ASSUME TypeOK, NEW r \in Req, NEW v
  PROVE  /\ Done(r, v).cmd = req[r].cmd /\ Done(r, v).reg = req[r].reg /\ Done(r, v).drained
         /\ Done(r, v).state = (IF req[r].state = "DRAINING" THEN "DRAINING" ELSE "SUCCEEDED")
         /\ Errored(r).cmd = req[r].cmd /\ Errored(r).drained /\ Errored(r).state = "FAILED"
<1>1. req[r] \in Request
  BY DEF TypeOK, RequestsOK
<1>2. QED BY <1>1 DEF Done, Errored, Request

LEMMA OpenFinishes ==
  ASSUME TypeOK, opc # "idle", UNCHANGED <<count, mailVars, deferred, stopH, shutH>>,
         NEW s \in OwnerStates \cup {NoState}, NEW q, q.cmd = req[cur].cmd, q.drained,
         req' = [req EXCEPT ![cur] = q], Release,
         NEW after \in {<<>>, <<QuitSig>>},
         sig' = sig \o Announce(s) \o <<TerminalSig(cur)>> \o after,
         reserved' = reserved \/ Cmd = "DETACH"
  PROVE  Finishes
<1>1. cur \in Req /\ req \in [Req -> Request]
  BY BusyOwner DEF TypeOK, RequestsOK
<1>2. sig \in Seq(Signal)
  BY DEF TypeOK, SignalsOK
<1>3. \A r \in Req : Announced(r)' <=> Announced(r) \/ r = cur
  BY <1>1, <1>2, AnnouncedAfter
<1>4. req'[cur] = q /\ \A r \in Req : r # cur => req'[r] = req[r]
  BY <1>1
<1>5. QED BY <1>3, <1>4 DEF Finishes, Release

LEMMA SucceedFinishes ==
  ASSUME TypeOK, opc # "idle", UNCHANGED <<count, mailVars, deferred, stopH, shutH>>,
         NEW s \in OwnerStates \cup {NoState}, NEW v, NEW after \in {<<>>, <<QuitSig>>},
         Succeed(s, v, after), reserved' = reserved \/ Cmd = "DETACH"
  PROVE  Finishes
<1>1. Done(cur, v).cmd = req[cur].cmd /\ Done(cur, v).drained
  BY BusyOwner, DoneFacts
<1>2. QED BY <1>1, OpenFinishes DEF Succeed

LEMMA FailWithFinishes ==
  ASSUME TypeOK, opc # "idle", UNCHANGED <<count, mailVars, deferred, stopH, shutH>>,
         NEW s \in OwnerStates \cup {NoState}, FailWith(s),
         reserved' = reserved \/ Cmd = "DETACH"
  PROVE  Finishes
<1>1. Errored(cur).cmd = req[cur].cmd /\ Errored(cur).drained
  BY BusyOwner, DoneFacts
<1>2. sig \o Announce(s) \o <<TerminalSig(cur)>> \o <<>> = sig \o Announce(s) \o <<TerminalSig(cur)>>
  <2>1. sig \o Announce(s) \o <<TerminalSig(cur)>> \in Seq(Signal)
    BY BusyOwner, FinishTypes DEF TypeOK, SignalsOK
  <2>2. QED BY <2>1, ConcatEmptySeq
<1>3. QED BY <1>1, <1>2, OpenFinishes DEF FailWith

LEMMA FailFinishes ==
  ASSUME TypeOK, opc # "idle", UNCHANGED <<count, mailVars, deferred, stopH, shutH>>, Fail
  PROVE  Finishes
<1>1. ErrorState(Cmd) \in OwnerStates \cup {NoState}
  BY DEF ErrorState, OwnerStates, NoState
<1>2. reserved' = reserved \/ Cmd = "DETACH"
  BY DEF Fail, TypeOK, LifecycleOK
<1>3. QED BY <1>1, <1>2, FailWithFinishes DEF Fail

LEMMA FinishingFinishes ==
  ASSUME Custodial, Finishing, ~DetachCommits PROVE Finishes
<1>0. /\ NoState \in OwnerStates \cup {NoState} /\ "TERMINATED" \in OwnerStates \cup {NoState}
      /\ "DISCONNECTED" \in OwnerStates \cup {NoState} /\ "IDLE" \in OwnerStates \cup {NoState}
      /\ "ARMED" \in OwnerStates \cup {NoState} /\ "ACTIVE" \in OwnerStates \cup {NoState}
      /\ "RECOVERY_REQUIRED" \in OwnerStates \cup {NoState}
      /\ Resume(prevState) \in OwnerStates \cup {NoState}
  BY DEF OwnerStates, Resume, Custodial, TypeOK, OwnerOK, ConnectedStates
<1>1. CASE RejectStale
  BY <1>0, <1>1, FailWithFinishes DEF Custodial, RejectStale, lifeVars, ctlVars
<1>2. CASE CommandRefused
  BY <1>2, FailFinishes DEF Custodial, CommandRefused, ctlVars
<1>3. CASE ClosedAlready
  <2>1. CASE Cmd = "SHUTDOWN"
    BY <1>0, <1>3, <2>1, SucceedFinishes DEF Custodial, ClosedAlready, lifeVars, ctlVars
  <2>2. CASE Cmd # "SHUTDOWN"
    BY <1>0, <1>3, <2>2, SucceedFinishes DEF Custodial, ClosedAlready, lifeVars, ctlVars
  <2>3. QED BY <2>1, <2>2
<1>4. CASE ConnectDone
  BY <1>0, <1>4, SucceedFinishes DEF Custodial, ConnectDone, InSdk, lifeVars, ctlVars
<1>5. CASE ReadDone
  BY <1>0, <1>5, SucceedFinishes DEF Custodial, ReadDone, Reads, lifeVars, ctlVars
<1>6. CASE SetpointDone
  BY <1>0, <1>6, SucceedFinishes DEF Custodial, SetpointDone, InSdk, lifeVars, ctlVars
<1>7. CASE StartDone
  <2>1. CASE Succeed("ACTIVE", 0, <<>>) /\ UNCHANGED reserved
    BY <1>0, <1>7, <2>1, SucceedFinishes DEF Custodial, StartDone, InSdk, ctlVars
  <2>2. CASE Fail
    BY <1>7, <2>2, FailFinishes DEF Custodial, StartDone, InSdk, ctlVars
  <2>3. QED BY <1>7, <2>1, <2>2 DEF StartDone
<1>8. CASE StopDone
  BY <1>0, <1>8, SucceedFinishes DEF Custodial, StopDone, InSdk, lifeVars, ctlVars
<1>9. CASE DisconnectDone
  BY <1>0, <1>9, SucceedFinishes DEF Custodial, DisconnectDone, InSdk, lifeVars, ctlVars
<1>10. CASE SdkFails
  BY <1>10, FailFinishes DEF Custodial, SdkFails, ctlVars
<1>11. CASE ShutdownDone
  BY <1>0, <1>11, SucceedFinishes DEF Custodial, ShutdownDone, InSdk, lifeVars, ctlVars
<1>12. CASE DetachAborts
  <2>1. Cmd = "DETACH"
    BY <1>12 DEF DetachAborts, Custodial, Executing
  <2>2. QED BY <1>0, <1>12, <2>1, FailWithFinishes DEF Custodial, DetachAborts, ctlVars
<1>13. CASE PrepareFails
  BY <1>0, <1>13, FailWithFinishes DEF Custodial, PrepareFails, lifeVars, ctlVars
<1>14. CASE PrepareDone
  BY <1>0, <1>14, SucceedFinishes DEF Custodial, PrepareDone, lifeVars, ctlVars
<1>15. QED BY <1>1, <1>2, <1>3, <1>4, <1>5, <1>6, <1>7, <1>8, <1>9, <1>10, <1>11, <1>12,
   <1>13, <1>14 DEF Finishing

Work == \/ Begin \/ ShutdownStops \/ DetachVerified \/ RequestDrivenMode \/ SetDrivenMode
        \/ ObserveMode

LEMMA StateNotAnnounced ==
  ASSUME sig \in Seq(Signal), NEW s \in OwnerStates \cup {NoState}, sig' = sig \o Announce(s)
  PROVE  \A r \in Req : Announced(r)' <=> Announced(r)
<1> TAKE r \in Req
<1>1. Announce(s) \in Seq(Signal)
  BY AnnounceTypes
<1>2. In(sig', TerminalSig(r)) <=> In(sig, TerminalSig(r)) \/ In(Announce(s), TerminalSig(r))
  BY <1>1, InConcat
<1>3. ~In(Announce(s), TerminalSig(r))
  BY NoTerminal
<1>4. QED BY <1>2, <1>3 DEF Announced, In

LEMMA OwnerLabours ==
  ASSUME Custodial, Housed, Work PROVE Labours
<1>1. opc # "idle"
  BY DEF Work, Begin, ShutdownStops, DetachVerified, RequestDrivenMode, SetDrivenMode,
     ObserveMode, InSdk
<1>2. cur \in Req /\ req[cur] \in Request /\ sig \in Seq(Signal) /\ req \in [Req -> Request]
  BY <1>1, BusyOwner DEF Custodial, TypeOK, SignalsOK, RequestsOK
<1>3. req[cur].state \in Working
  BY <1>1 DEF Housed, InHand
<1>4. CASE Begin
  <2>1. /\ opc' = "sdk" /\ req' = [req EXCEPT ![cur].state = "RUNNING"]
        /\ sig' = sig \o Announce(EntryState(Cmd))
        /\ UNCHANGED <<count, mailVars, cur, deferred, stopH, shutH, reserved>>
    BY <1>4 DEF Begin, ctlVars, lifeVars
  <2>2. EntryState(Cmd) \in OwnerStates \cup {NoState}
    BY DEF EntryState, OwnerStates
  <2>3. \A r \in Req : Announced(r)' <=> Announced(r)
    BY <1>2, <2>1, <2>2, StateNotAnnounced
  <2>4. /\ req'[cur].cmd = req[cur].cmd /\ req'[cur].reg = req[cur].reg
        /\ req'[cur].drained = req[cur].drained /\ req'[cur].state \in Working
    BY <1>2, <2>1 DEF Request, Working
  <2>5. \A r \in Req : r # cur => req'[r] = req[r]
    BY <1>2, <2>1
  <2>6. QED BY <1>1, <2>1, <2>3, <2>4, <2>5 DEF Labours
<1>5. CASE RequestDrivenMode
  <2>1. /\ opc' = "locked" /\ sig' = sig \o <<StateSig("RECOVERY_REQUIRED")>>
        /\ UNCHANGED <<req, count, mailVars, cur, deferred, stopH, shutH, reserved>>
    BY <1>5 DEF RequestDrivenMode, ctlVars
  <2>2. sig' = sig \o Announce("RECOVERY_REQUIRED")
    BY <2>1 DEF Announce, NoState
  <2>3. \A r \in Req : Announced(r)' <=> Announced(r)
    BY <1>2, <2>2, StateNotAnnounced DEF OwnerStates
  <2>4. QED BY <1>1, <1>3, <2>1, <2>3 DEF Labours
<1>6. CASE ShutdownStops \/ DetachVerified \/ SetDrivenMode \/ ObserveMode
  <2>1. /\ UNCHANGED <<req, sig, count, mailVars, cur, deferred, stopH, shutH, reserved>>
        /\ opc' # "idle"
    BY <1>1, <1>6 DEF ShutdownStops, DetachVerified, SetDrivenMode, ObserveMode, ownVars, ctlVars,
       lifeVars
  <2>2. \A r \in Req : Announced(r)' <=> Announced(r)
    BY <2>1 DEF Announced
  <2>3. QED BY <1>1, <1>3, <2>1, <2>2 DEF Labours
<1>7. QED BY <1>4, <1>5, <1>6 DEF Work

LEMMA DetachCommitsCommits ==
  ASSUME Custodial, Housed, DetachCommits PROVE Commits
<1>1. /\ opc # "idle" /\ opc' = "idle" /\ cur' = NoReq /\ deferred' = cur
      /\ UNCHANGED <<count, mailVars, stopH, shutH, reserved>>
      /\ req' = [req EXCEPT ![cur] = [Done(cur, 0) EXCEPT !.drained = FALSE]]
      /\ sig' = sig \o <<StateSig("DETACHED"), QuitSig>>
  BY DEF DetachCommits, Release, ctlVars
<1>2. /\ cur \in Req /\ sig \in Seq(Signal) /\ req \in [Req -> Request]
      /\ Done(cur, 0) \in Request
  BY <1>1, BusyOwner, RequestTypes DEF Custodial, TypeOK, SignalsOK, RequestsOK
<1>3. Cmd = "DETACH"
  BY DEF DetachCommits, Custodial, Executing
<1>4. Done(cur, 0).cmd = req[cur].cmd /\ Done(cur, 0).reg = req[cur].reg
  BY <1>2, DoneFacts DEF Custodial
<1>5. /\ req'[cur].cmd = req[cur].cmd /\ req'[cur].reg = req[cur].reg /\ ~req'[cur].drained
      /\ \A r \in Req : r # cur => req'[r] = req[r]
  <2> DEFINE d == Done(cur, 0)
  <2>1. req'[cur] = [d EXCEPT !.drained = FALSE]
    BY <1>1, <1>2
  <2> HIDE DEF d
  <2>2. d \in Request
    BY <1>2 DEF d
  <2>3. req'[cur].cmd = d.cmd /\ req'[cur].reg = d.reg /\ ~req'[cur].drained
    BY <2>1, <2>2 DEF Request
  <2>4. QED BY <1>1, <1>2, <1>4, <2>3 DEF d
<1>6. ASSUME NEW r \in Req PROVE Announced(r)' <=> Announced(r)
  <2> DEFINE x == TerminalSig(r)
             t == <<StateSig("DETACHED"), QuitSig>>
  <2>1. StateSig("DETACHED") \in Signal /\ QuitSig \in Signal
    BY SignalTypes DEF OwnerStates
  <2>2. t \in Seq(Signal)
    BY <2>1
  <2>3. In(sig \o t, x) <=> In(sig, x) \/ In(t, x)
    BY <1>2, <2>2, InConcat
  <2>4. ~In(t, x)
    BY NoTerminal DEF In
  <2>5. QED BY <1>1, <2>3, <2>4 DEF Announced, In
<1>7. QED BY <1>1, <1>3, <1>5, <1>6 DEF Commits

(* What the GUI thread takes off the queue. *)
LEMMA HeadAnnounced ==
  ASSUME TypeOK, sig # <<>>, sig' = Tail(sig)
  PROVE  /\ Head(sig) \in Signal
         /\ \A r \in Req : Announced(r) <=> Head(sig) = TerminalSig(r) \/ Announced(r)'
<1>1. sig \in Seq(Signal)
  BY DEF TypeOK, SignalsOK
<1>2. Head(sig) \in Signal
  BY <1>1, HeadTailProperties
<1>3. QED BY <1>1, <1>2, InTail DEF Announced, In

(* A step that leaves requests, mailbox and owner alone settles nobody.      *)
LEMMA NobodySettles ==
  ASSUME UNCHANGED <<req, count, mailVars, cur, opc, deferred, stopH, shutH, reserved>>,
         \A r \in Req : Announced(r)' <=> Announced(r)
  PROVE  Settles(NoReq)
BY DEF Settles, NoReq, Req

LEMMA TerminalSettled ==
  ASSUME TypeOK, NEW d \in Req, NEW q \in Request, Terminal(d, q)
  PROVE  /\ ~req'[d].reg /\ req'[d].drained = q.drained /\ req'[d].cmd = q.cmd
         /\ req'[d].state = q.state /\ req'[d].val = q.val
         /\ \A r \in Req : r # d => req'[r] = req[r]
<1>1. req \in [Req -> Request]
  BY DEF TypeOK, RequestsOK
<1>2. req' = [req EXCEPT ![d] = [q EXCEPT !.reg = FALSE]]
  BY DEF Terminal
<1>3. req'[d] = [q EXCEPT !.reg = FALSE] /\ \A r \in Req : r # d => req'[r] = req[r]
  BY <1>1, <1>2
<1>4. QED BY <1>3 DEF Request

LEMMA MainSettles ==
  ASSUME Custodial, Housed, Main \/ ThreadFinish \/ MagnetSettles \/ MagnetReverts
  PROVE  \E d \in ReqOrNone : Settles(d)
<1>0. TypeOK /\ NoReq \in ReqOrNone /\ Req \subseteq ReqOrNone
  BY DEF Custodial, ReqOrNone
<1>1. CASE RequestTerminal
  <2> DEFINE d == Head(sig).req
  <2>1. /\ sig # <<>> /\ sig' = Tail(sig) /\ Head(sig).kind = "terminal" /\ Terminal(d, req[d])
        /\ UNCHANGED <<count, mailVars, cur, opc, deferred, stopH, shutH, reserved>>
    BY <1>1 DEF RequestTerminal, NextSig, ownVars, lifeVars
  <2>2. Head(sig) \in Signal
    BY <1>0, <2>1, HeadAnnounced
  <2>3. d \in Req /\ Head(sig) = TerminalSig(d)
    BY <2>1, <2>2 DEF Signal, TerminalSig
  <2> HIDE DEF d
  <2>4. Announced(d) /\ req[d].drained /\ req[d] \in Request
    BY <1>0, <2>1, <2>3, HeadAnnounced DEF Housed, Announcing, TypeOK, RequestsOK
  <2>5. /\ ~req'[d].reg /\ req'[d].drained /\ req'[d].cmd = req[d].cmd
        /\ req'[d].state = req[d].state /\ req'[d].val = req[d].val
        /\ \A r \in Req : r # d => req'[r] = req[r]
    BY <1>0, <2>1, <2>3, <2>4, TerminalSettled
  <2>6. \A r \in Req : r # d => (Announced(r)' <=> Announced(r))
    BY <1>0, <2>1, <2>3, HeadAnnounced, TerminalsDiffer
  <2>7. Settles(d)
    BY <2>1, <2>3, <2>4, <2>5, <2>6 DEF Settles
  <2>8. QED BY <1>0, <2>3, <2>7
<1>2. CASE CacheState \/ ThreadQuit
  <2>1. /\ sig # <<>> /\ sig' = Tail(sig) /\ Head(sig).kind # "terminal"
        /\ UNCHANGED <<req, count, mailVars, cur, opc, deferred, stopH, shutH, reserved>>
    BY <1>2 DEF CacheState, ThreadQuit, NextSig, ownVars, ctlVars, lifeVars
  <2>2. \A r \in Req : Head(sig) # TerminalSig(r)
    BY <2>1 DEF TerminalSig
  <2>3. \A r \in Req : Announced(r)' <=> Announced(r)
    BY <1>0, <2>1, <2>2, HeadAnnounced
  <2>4. QED BY <1>0, <2>1, <2>3, NobodySettles
<1>3. CASE ThreadFinished
  <2>1. /\ sig # <<>> /\ sig' = Tail(sig) /\ Head(sig).kind = "finished" /\ deferred' = NoReq
        /\ UNCHANGED <<count, mailVars, cur, opc, stopH, shutH>>
    BY <1>3 DEF ThreadFinished, NextSig
  <2>2. \A r \in Req : Head(sig) # TerminalSig(r)
    BY <2>1 DEF TerminalSig
  <2>3. \A r \in Req : Announced(r)' <=> Announced(r)
    BY <1>0, <2>1, <2>2, HeadAnnounced
  <2>4. CASE deferred = NoReq
    <3>1. UNCHANGED <<req, reserved, deferred>>
      BY <1>3, <2>1, <2>4 DEF ThreadFinished
    <3>2. QED BY <1>0, <2>1, <2>3, <3>1, NobodySettles
  <2>5. CASE deferred # NoReq
    <3> DEFINE q == [req[deferred] EXCEPT !.drained = TRUE]
    <3>1. deferred \in Req /\ req[deferred] \in Request
      BY <1>0, <2>5 DEF TypeOK, OwnerOK, RequestsOK, ReqOrNone
    <3>2. q \in Request /\ q.cmd = req[deferred].cmd /\ q.state = req[deferred].state /\ q.drained
          /\ q.val = req[deferred].val
      BY <3>1 DEF Request
    <3>3. Terminal(deferred, q)
      BY <1>3, <2>5 DEF ThreadFinished
    <3> HIDE DEF q
    <3>4. /\ ~req'[deferred].reg /\ req'[deferred].drained
          /\ req'[deferred].cmd = req[deferred].cmd
          /\ req'[deferred].state = req[deferred].state
          /\ req'[deferred].val = req[deferred].val
          /\ \A r \in Req : r # deferred => req'[r] = req[r]
      BY <1>0, <3>1, <3>2, <3>3, TerminalSettled
    <3>5. Settles(deferred)
      BY <2>1, <2>3, <3>1, <3>4 DEF Settles
    <3>6. QED BY <1>0, <3>1, <3>5
  <2>6. QED BY <2>4, <2>5
<1>4. CASE ThreadFinish
  <2>1. /\ sig' = Append(sig, FinishedSig)
        /\ UNCHANGED <<req, count, mailVars, cur, opc, deferred, stopH, shutH, reserved>>
    BY <1>4 DEF ThreadFinish, ownVars, ctlVars, lifeVars
  <2>2. sig \in Seq(Signal) /\ FinishedSig \in Signal
    BY <1>0, SignalTypes DEF TypeOK, SignalsOK
  <2>3. sig' = sig \o <<FinishedSig>> /\ <<FinishedSig>> \in Seq(Signal)
    BY <2>1, <2>2, AppendIsConcat
  <2>4. \A r \in Req : Announced(r)' <=> Announced(r)
    <3> TAKE r \in Req
    <3> DEFINE x == TerminalSig(r)
    <3>1. In(sig', x) <=> In(sig, x) \/ In(<<FinishedSig>>, x)
      BY <2>2, <2>3, InConcat
    <3>2. ~In(<<FinishedSig>>, x)
      BY InOne, NoTerminal
    <3>3. (Announced(r) <=> In(sig, x)) /\ (Announced(r)' <=> In(sig', x))
      BY DEF Announced, In
    <3> HIDE DEF x
    <3>4. QED BY <3>1, <3>2, <3>3
  <2>5. QED BY <1>0, <2>1, <2>4, NobodySettles
<1>5. CASE MagnetSettles \/ MagnetReverts
  <2>1. UNCHANGED <<req, count, mailVars, cur, opc, deferred, stopH, shutH, reserved, sig>>
    BY <1>5 DEF MagnetSettles, MagnetReverts, ownVars, ctlVars, lifeVars
  <2>2. QED BY <1>0, <2>1, NobodySettles DEF Announced
<1>6. QED BY <1>1, <1>2, <1>3, <1>4, <1>5 DEF Main

-----------------------------------------------------------------------------
(* No request is ever forgotten.                                             *)

(* Every step is of one kind. *)
Kinds == \/ Mail \/ Pop \/ Labours \/ Finishes \/ Commits \/ (\E d \in ReqOrNone : Settles(d))

LEMMA StepKinds ==
  ASSUME Custodial, Housed, Next PROVE Kinds
<1>1. TypeOK /\ Known
  BY DEF Custodial
<1>2. CASE Client \/ \E r \in Req : Timer(r)
  BY <1>1, <1>2, ClientMails, TimerMails DEF Kinds
<1>3. CASE Owner
  <2>1. CASE Pop
    BY <2>1 DEF Kinds
  <2>2. CASE Work
    BY <2>2, OwnerLabours DEF Kinds
  <2>3. CASE DetachCommits
    BY <2>3, DetachCommitsCommits DEF Kinds
  <2>4. CASE Finishing /\ ~DetachCommits
    BY <2>4, FinishingFinishes DEF Kinds
  <2>5. QED BY <1>3, <2>1, <2>2, <2>3, <2>4 DEF Owner, Finishing, Work
<1>4. CASE Main \/ ThreadFinish \/ MagnetSettles \/ MagnetReverts
  BY <1>4, MainSettles DEF Kinds
<1>5. QED BY <1>2, <1>3, <1>4 DEF Next

LEMMA HousedNext == Custodial /\ Housed /\ [Next]_vars => Housed'
<1> SUFFICES ASSUME Custodial, Housed, [Next]_vars PROVE Housed'
  OBVIOUS
<1>1. TypeOK /\ Known /\ TypeOK'
  BY NextTypes DEF Custodial
<1>2. CASE Next
  BY <1>1, <1>2, StepKinds, MailHouses, TakesHouses, LaboursHouses, FinishesHouses,
     CommitsHouses, SettlesHouses DEF Kinds
<1>3. CASE UNCHANGED vars
  BY <1>3 DEF vars, mailVars, ownVars, ctlVars, lifeVars, Housed, Numbered, Queued, InHand,
     SetAside, Lanes, Apart, OneDetach, Announcing, Accounted, Waits, Located, Detaching,
     Announced, Active
<1>4. QED BY <1>2, <1>3

LEMMA HousedInit == Init => Housed
<1> SUFFICES ASSUME Init PROVE Housed
  OBVIOUS
<1>1. /\ \A r \in Req : req[r] = Unused /\ r > 0
      /\ cur = NoReq /\ stopSlot = NoReq /\ shutSlot = NoReq /\ deferred = NoReq
      /\ ordinary = {} /\ opc = "idle" /\ NoReq = 0 /\ sig = <<>>
  BY BoundAssumption DEF Init, Req, NoReq
<1>2. \A r \in Req : ~Located(r) /\ ~Waits(r) /\ ~Announced(r) /\ ~Active(r)
  BY <1>1 DEF Located, Waits, Announced, Active, Unused
<1>3. QED BY <1>1, <1>2 DEF Housed, Numbered, Queued, InHand, SetAside, Lanes, Apart,
   OneDetach, Detaching, Announcing, Accounted, Unused

LEMMA HousedAlways == Spec => [](Custodial /\ Housed)
<1>1. Init => Custodial /\ Housed
  BY InitHolds, HousedInit
<1>2. Custodial /\ Housed /\ [Next]_vars => Custodial' /\ Housed'
  BY NextHolds, HousedNext
<1>3. QED BY <1>1, <1>2, PTL DEF Spec

(* has_pending_work can end: a registered request that counts as pending is  *)
(* in exactly one place of the mailbox, the owner's hands or the deferral of *)
(* a detach, or its terminal signal is on its way (_submit_ordinary,         *)
(* request_stop, cancel_queued, _caller_timeout, _finish).                   *)
THEOREM NoneForgotten == Spec => []NothingForgotten
<1>1. ASSUME Custodial, Housed PROVE NothingForgotten
  <2>0. /\ NoReq = 0 /\ \A r \in Req : r > 0
    BY <1>1, LocatedKnown DEF Custodial
  <2> SUFFICES ASSUME NEW r \in Req
               PROVE  /\ Places(r) <= 1
                      /\ Active(r) /\ ~req[r].drained => Places(r) = 1
                      /\ Active(r) /\ req[r].drained => Announced(r)
    BY DEF NothingForgotten
  <2>1. r # NoReq
    BY <2>0
  <2>2. /\ r \in ordinary => r # stopSlot /\ r # shutSlot
        /\ r = stopSlot => r # shutSlot
    BY <1>1, <2>1 DEF Housed, Lanes
  <2>3. r = cur => ~Waits(r) /\ r # deferred
    BY <1>1, <2>1 DEF Housed, Apart
  <2>4. r = deferred => ~Waits(r)
    BY <1>1, <2>1 DEF Housed, Apart
  <2>5. Places(r) <= 1 /\ (Located(r) => Places(r) = 1)
    BY <2>2, <2>3, <2>4 DEF Places, Located, Waits
  <2>6. Located(r) => ~req[r].drained
    BY <1>1, <2>1 DEF Housed, Located, Queued, InHand, SetAside
  <2>7. Announced(r) => req[r].drained
    BY <1>1 DEF Housed, Announcing
  <2>8. Active(r) => Located(r) \/ Announced(r)
    BY <1>1 DEF Housed, Accounted
  <2>9. QED BY <2>5, <2>6, <2>7, <2>8
<1>2. QED BY <1>1, HousedAlways, PTL

-----------------------------------------------------------------------------
(* What excludes what.                                                       *)

(* A step leaves the requests that are pending, except for at most one new   *)
(* one, which has been admitted.                                             *)
LEMMA Admission ==
  ASSUME TypeOK, Known, Housed, Kinds, NEW r \in Req, Active(r)'
  PROVE  \/ Active(r) /\ req'[r].cmd = req[r].cmd
         \/ r = count + 1 /\ count' = count + 1 /\ Admissible(req'[r].cmd)
<1>1. req'[r].reg /\ req'[r].state \in Working
  BY DEF Active
<1>2. ASSUME opc # "idle" PROVE cur \in Req /\ Active(cur)
  BY <1>2, BusyOwner DEF Housed, InHand, Active, NoReq
<1>3. CASE Mail
  <2>1. CASE r <= count
    <3>1. Continues(req'[r], req[r])
      BY <1>1, <1>3, <2>1 DEF Mail, Registry, Cancelled, Working
    <3>2. QED BY <1>1, <3>1 DEF Continues, Active, Working
  <2>2. CASE r > count
    <3>0. Numbers
      BY NumbersTyped
    <3>1. ~req[r].reg
      BY <2>2 DEF Housed, Numbered
    <3>2. CASE NothingNew
      BY <1>1, <2>2, <3>1, <3>2 DEF NothingNew
    <3>3. ASSUME NEW c, New(c), Admissible(c)
          PROVE  r = count + 1 /\ count' = count + 1 /\ Admissible(req'[r].cmd)
      <4>1. r = count + 1
        BY <1>1, <2>2, <3>0, <3>1, <3>3 DEF New, Numbers
      <4>2. req'[r].cmd = c
        BY <3>3, <4>1 DEF New, Fresh
      <4>3. QED BY <3>3, <4>1, <4>2 DEF New
    <3>4. CASE (\E c \in Commands : Queues(c)) \/ AsksStop \/ AsksShutdown
      BY <3>3, <3>4 DEF Queues, AsksStop, AsksShutdown
    <3>5. QED BY <1>3, <3>2, <3>4 DEF Mail
  <2>3. QED BY <2>1, <2>2, NumbersTyped DEF Numbers
<1>4. CASE Pop
  BY <1>1, <1>4 DEF Pop, Active
<1>5. CASE Labours \/ Finishes \/ Commits
  <2>1. /\ opc # "idle" /\ req'[cur].cmd = req[cur].cmd
        /\ r # cur => req'[r] = req[r]
    BY <1>5 DEF Labours, Finishes, Commits
  <2>2. QED BY <1>1, <1>2, <2>1 DEF Active
<1>6. CASE \E d \in ReqOrNone : Settles(d)
  BY <1>1, <1>6 DEF Settles, Active
<1>7. QED BY <1>3, <1>4, <1>5, <1>6 DEF Kinds

LEMMA ExclusionNext ==
  ASSUME Custodial, Housed, PreparationExclusive, RampExclusive, [Next]_vars
  PROVE  PreparationExclusive' /\ RampExclusive'
<1>0. TypeOK /\ Known
  BY DEF Custodial
<1>1. CASE UNCHANGED vars
  BY <1>1 DEF vars, PreparationExclusive, RampExclusive, Pending, Active
<1>2. CASE Next
  <2>0. Kinds
    BY <1>2, StepKinds
  <2>1. ASSUME NEW r \in Req, Active(r)'
        PROVE  \/ Active(r) /\ req'[r].cmd = req[r].cmd
               \/ r = count + 1 /\ count' = count + 1 /\ Admissible(req'[r].cmd)
    BY <1>0, <2>0, <2>1, Admission
  <2>2. PreparationExclusive'
    <3>1. SUFFICES ASSUME NEW p \in Req, Active(p)', req'[p].cmd = "PREPARE",
                          NEW m \in Req, Active(m)', req'[m].cmd \in FieldMutations
                   PROVE  FALSE
      BY DEF PreparationExclusive, Pending
    <3>2. p # m
      BY <3>1 DEF FieldMutations
    <3>3. CASE Active(p) /\ req[p].cmd = "PREPARE" /\ Active(m) /\ req[m].cmd \in FieldMutations
      BY <3>3 DEF PreparationExclusive, Pending
    <3>4. CASE Active(p) /\ req[p].cmd = "PREPARE" /\ Admissible(req'[m].cmd)
      BY <3>1, <3>4 DEF Admissible, Pending
    <3>5. CASE Active(m) /\ req[m].cmd \in FieldMutations /\ Admissible(req'[p].cmd)
      BY <3>1, <3>5 DEF Admissible, Pending
    <3>6. QED BY <2>1, <3>1, <3>2, <3>3, <3>4, <3>5
  <2>3. RampExclusive'
    <3>1. SUFFICES ASSUME NEW r \in Req, Active(r)', req'[r].cmd = "RAMP",
                          NEW q \in Req, Active(q)', q # r
                   PROVE  req'[q].cmd = "SHUTDOWN" /\ r < q
      BY DEF RampExclusive
    <3>2. CASE Active(r) /\ req[r].cmd = "RAMP" /\ Active(q) /\ req'[q].cmd = req[q].cmd
      BY <3>1, <3>2 DEF RampExclusive
    <3>3. CASE Active(r) /\ req[r].cmd = "RAMP" /\ q = count + 1 /\ Admissible(req'[q].cmd)
      <4>1. req'[q].cmd = "SHUTDOWN"
        BY <3>3 DEF Admissible, Pending
      <4>2. Numbers /\ ~(r > count)
        BY <1>0, <3>3, NumbersTyped DEF Housed, Numbered, Active
      <4>3. QED BY <3>3, <4>1, <4>2 DEF Numbers
    <3>4. CASE Admissible(req'[r].cmd) /\ Active(q)
      <4>1. req[q].cmd \in Commands
        BY <1>0 DEF TypeOK, RequestsOK, Request
      <4>2. QED BY <3>1, <3>4, <4>1 DEF Admissible, HasPendingWork, Pending
    <3>5. QED BY <2>1, <3>1, <3>2, <3>3, <3>4
  <2>4. QED BY <2>2, <2>3
<1>3. QED BY <1>1, <1>2

LEMMA ExclusionAlways == Spec => [](PreparationExclusive /\ RampExclusive)
<1>1. Init => PreparationExclusive /\ RampExclusive
  BY DEF Init, PreparationExclusive, RampExclusive, Pending, Active, Unused
<1>2. /\ Custodial /\ Housed /\ PreparationExclusive /\ RampExclusive /\ [Next]_vars
      => PreparationExclusive' /\ RampExclusive'
  BY ExclusionNext
<1>3. QED BY <1>1, <1>2, HousedAlways, PTL DEF Spec

(* A pending preparation excludes pending setpoints and starts, whoever      *)
(* times out or is cancelled in between (prepare_driven_mode_async and       *)
(* _submit_ordinary).                                                        *)
THEOREM PreparationAlwaysExclusive == Spec => []PreparationExclusive
BY ExclusionAlways, PTL

(* While a ramp-table read is pending nothing else is, save a Shutdown that   *)
(* checked before the read came and waits behind it (read_ramp_tables_async, *)
(* request_stop, and the two lock sections of request_shutdown).             *)
THEOREM RampAlwaysExclusive == Spec => []RampExclusive
BY ExclusionAlways, PTL

-----------------------------------------------------------------------------
(* A Stop holds.                                                             *)

(* The kept handle is a Stop's.  Connecting alone clears the event under it,  *)
(* so the event stands on the connection the Stop was asked for on, and for  *)
(* as long as a detach that was reserved before waits or is verified.        *)
StopKept == stopH # NoReq => /\ stopH <= count /\ req[stopH].cmd = "STOP"
                             /\ req[stopH].val <= session
StopStands == stopH # NoReq /\ req[stopH].val = session => stopEvt
StopNotUndone ==
  stopH # NoReq =>
    \A d \in Req : req[d].cmd = "DETACH" /\ (d \in ordinary \/ d = cur) => stopEvt
(* A detach is reserved when nothing is pending, so no connect overtakes it. *)
DetachFirst ==
  \A d \in ordinary : req[d].cmd = "DETACH" =>
    /\ \A r \in ordinary : d <= r
    /\ cur # NoReq => Cmd # "CONNECT"
Stopping == StopKept /\ StopStands /\ StopNotUndone /\ DetachFirst /\ StopHolds

(* What callers and watchdogs do to the Stop: forget it; leave it, admitting *)
(* no detach behind it; ask for a new one.                                   *)
LeavesStop == /\ stopH' = stopH /\ (stopEvt => stopEvt')
              /\ \A r \in ordinary' : r \in ordinary \/ req'[r].cmd # "DETACH"
AsksAgain == /\ count' = count + 1 /\ stopH' = count + 1 /\ stopEvt'
             /\ req'[count + 1] = Fresh("STOP")
StopAsked == UNCHANGED <<field, session>> /\ (stopH' = NoReq \/ LeavesStop \/ AsksAgain)

LEMMA EnqueueLeavesStop ==
  ASSUME TypeOK, CallerMayCreate, NEW c \in Commands \ {"DETACH"}, Enqueue(c),
         UNCHANGED <<stopH, stopEvt, field, session>>
  PROVE  StopAsked
<1>1. count + 1 \in Req
  BY CreateTypes DEF Enqueue
<1>2. req'[count + 1] = Fresh(c) /\ ordinary' = ordinary \cup {count + 1}
  BY <1>1 DEF Enqueue, Create, TypeOK, RequestsOK
<1>3. req'[count + 1].cmd # "DETACH"
  BY <1>2 DEF Fresh
<1>4. QED BY <1>2, <1>3 DEF StopAsked, LeavesStop

LEMMA DisplayAsks ==
  ASSUME TypeOK, DisplayAsync PROVE StopAsked
<1> DEFINE P == Pending(Mutations \cup LifecycleOps \cup {"PREPARE", "RAMP", "STOP"})
<1>1. UNCHANGED <<stopH, stopEvt, field, session>>
  BY DEF DisplayAsync, ctlVars, evtVars, hwVars
<1>2. CASE P
  <2>1. UNCHANGED <<req, count, ordinary>>
    BY <1>2 DEF DisplayAsync
  <2>2. QED BY <1>1, <2>1 DEF StopAsked, LeavesStop
<1>3. CASE ~P
  <2>1. CallerMayCreate /\ Enqueue("DISPLAY") /\ "DISPLAY" \in Commands \ {"DETACH"}
    BY <1>3 DEF DisplayAsync, CallerMayCall, Commands
  <2>2. QED BY <1>1, <2>1, EnqueueLeavesStop
<1>4. QED BY <1>2, <1>3

LEMMA ClientAsks ==
  ASSUME TypeOK, Known, Housed, Client PROVE StopAsked
<1>0. CallerMayCreate => count + 1 \in Req
  BY BoundAssumption DEF TypeOK, RequestsOK, CallerMayCreate, Req
<1>1. CASE \E c \in Ops : SubmitPlain(c) \/ SubmitPast(c)
  <2>1. PICK c \in Ops : SubmitPlain(c) \/ SubmitPast(c)
    BY <1>1
  <2>2. /\ c \in Commands \ {"DETACH"} /\ CallerMayCreate
        /\ Enqueue(c) \/ UNCHANGED ordinary
        /\ UNCHANGED <<stopH, stopEvt, field, session>>
    BY <2>1, OpsAssumption DEF SubmitPlain, SubmitPast, Submissions, CallerMayCall, Plain,
       Commands, ctlVars, evtVars, hwVars
  <2>3. CASE Enqueue(c)
    BY <2>2, <2>3, EnqueueLeavesStop
  <2>4. CASE UNCHANGED ordinary
    BY <2>2, <2>4 DEF StopAsked, LeavesStop
  <2>5. QED BY <2>2, <2>3, <2>4
<1>2. ASSUME NEW c \in Ops, CheckStop(c) PROVE StopAsked
  <2>1. UNCHANGED <<field, session>>
    BY <1>2 DEF CheckStop, hwVars
  <2>2. stopH' = NoReq \/ (UNCHANGED <<stopH, stopEvt, ordinary>>)
    BY <1>2 DEF CheckStop, ForgetStop, mailVars
  <2>3. QED BY <2>1, <2>2 DEF StopAsked, LeavesStop
<1>3. CASE PrepareAsync
  <2>1. /\ UNCHANGED <<stopH, stopEvt, field, session>> /\ CallerMayCreate /\ Enqueue("PREPARE")
        /\ "PREPARE" \in Commands \ {"DETACH"}
    BY <1>3 DEF PrepareAsync, CallerMayCall, Commands, hwVars
  <2>2. QED BY <2>1, EnqueueLeavesStop
<1>4. CASE ConnectAsync \/ DisconnectAsync \/ CancelMagnetPreparation \/ InvalidateDisplayCache
  <2>1. UNCHANGED <<stopH, stopEvt, field, session>>
    BY <1>4 DEF ConnectAsync, DisconnectAsync, CancelMagnetPreparation, InvalidateDisplayCache,
       ctlVars, evtVars, hwVars
  <2>2. ordinary' \subseteq ordinary
    BY <1>4 DEF ConnectAsync, DisconnectAsync, CancelMagnetPreparation, WithdrawPreparation,
       InvalidateDisplayCache, mailVars
  <2>3. QED BY <2>1, <2>2 DEF StopAsked, LeavesStop
<1>5. CASE RequestStop
  <2>1. CallerMayCreate /\ UNCHANGED <<field, session>>
    BY <1>5 DEF RequestStop, CallerMayCall, hwVars
  <2>2. CASE WithdrawPreparation /\ UNCHANGED <<stopEvt, stopH>>
    BY <2>1, <2>2 DEF WithdrawPreparation, StopAsked, LeavesStop
  <2>3. CASE stopEvt' = TRUE /\ IssueStop /\ stopH = NoReq
    <3>1. req'[count + 1] = Fresh("STOP")
      BY <1>0, <2>1, <2>3 DEF IssueStop
    <3>2. QED BY <2>1, <2>3, <3>1 DEF IssueStop, StopAsked, AsksAgain
  <2>4. CASE stopEvt' = TRUE /\ IssueStop /\ stopH # NoReq
    BY <2>1, <2>4 DEF IssueStop, StopAsked, LeavesStop
  <2>5. QED BY <1>5, <2>2, <2>3, <2>4 DEF RequestStop
<1>6. CASE RetryStop \/ DetachAsync
  BY <1>6 DEF RetryStop, DetachAsync, StopAsked, hwVars
<1>7. CASE RequestShutdown \/ ShutdownRaisesStop \/ ShutdownSweeps \/ ShutdownSubmits
  <2>1. /\ UNCHANGED <<stopH, field, session>> /\ (stopEvt => stopEvt')
        /\ ordinary' \subseteq ordinary
    BY <1>7 DEF RequestShutdown, ShutdownRaisesStop, ShutdownSweeps, ShutdownSubmits, mailVars,
       ctlVars, evtVars, hwVars
  <2>2. QED BY <2>1 DEF StopAsked, LeavesStop
<1>8. QED BY <1>1, <1>2, <1>3, <1>4, <1>5, <1>6, <1>7, DisplayAsks DEF Client

LEMMA TimerAsks ==
  ASSUME TypeOK, Known, Housed, NEW t \in Req, Timer(t) PROVE StopAsked
<1>1. UNCHANGED <<field, session>> /\ (stopEvt => stopEvt')
  BY DEF Timer, TimeoutQueued, TimeoutRunning, TimeoutRaisesStop, TimeoutRequestsStop,
     TimeoutChecksPreparation, TimeoutRaisesEvent, evtVars, hwVars
<1>2. CASE UNCHANGED stopH /\ ordinary' \subseteq ordinary
  BY <1>1, <1>2 DEF StopAsked, LeavesStop
<1>3. CASE TimeoutQueued(t) \/ TimeoutRunning(t) \/ TimeoutRaisesStop(t)
           \/ TimeoutChecksPreparation(t) \/ TimeoutRaisesEvent(t)
  <2>1. UNCHANGED stopH /\ ordinary' \subseteq ordinary
    BY <1>3 DEF TimeoutQueued, TimeoutRunning, TimeoutRaisesStop, TimeoutChecksPreparation,
       TimeoutRaisesEvent, mailVars, ctlVars
  <2>2. QED BY <1>2, <2>1
<1>4. CASE TimeoutRequestsStop(t)
  <2> DEFINE Asks == /\ stopH = NoReq /\ count < 2 * MaxCalls
                     /\ count' = count + 1 /\ stopH' = count + 1
                     /\ req' = [q \in Req |-> IF q = count + 1 THEN Fresh("STOP")
                                  ELSE IF Swept(q) THEN CancelledReq(q)
                                  ELSE [req EXCEPT ![t].timer = "spent"][q]]
  <2>1. CASE Asks
    <3>1. count + 1 \in Req
      BY <2>1, BoundAssumption DEF TypeOK, RequestsOK, Req
    <3>2. req'[count + 1] = Fresh("STOP")
      BY <2>1, <3>1
    <3>3. stopEvt' = TRUE
      BY <1>4 DEF TimeoutRequestsStop
    <3>4. QED BY <1>1, <2>1, <3>2, <3>3 DEF StopAsked, AsksAgain
  <2>2. (UNCHANGED stopH /\ ordinary' \subseteq ordinary) \/ Asks
    BY <1>4 DEF TimeoutRequestsStop
  <2>3. QED BY <1>2, <2>1, <2>2
<1>5. QED BY <1>3, <1>4 DEF Timer

(* What enters the FIFO has the next number, and a detach enters it alone.   *)
LEMMA DetachEntersFirst ==
  ASSUME TypeOK, TypeOK', Known, Housed, Stopping, Mail PROVE DetachFirst'
<1>0. /\ Numbers /\ UNCHANGED <<cur, opc>> /\ Registry /\ ordinary \subseteq Req
      /\ ordinary' \subseteq Req /\ cur \in ReqOrNone
      /\ \A r \in Req : Located(r) => r <= count
  BY LocatedKnown, NumbersTyped DEF Mail, TypeOK, MailOK
<1>1. \A r \in Req : r <= count => req'[r].cmd = req[r].cmd
  BY <1>0 DEF Registry, Continues, Cancelled
<1>2. cur # NoReq => cur \in Req /\ Cmd' = Cmd
  BY <1>0, <1>1 DEF ReqOrNone, Located, Cmd
<1>3. \A r \in ordinary : r <= count /\ req'[r].cmd = req[r].cmd
  BY <1>0, <1>1 DEF Known
<1>4. CASE ordinary' \subseteq ordinary
  BY <1>0, <1>2, <1>3, <1>4 DEF Stopping, DetachFirst
<1>5. ASSUME NEW c \in Commands, Queues(c) PROVE DetachFirst'
  <2>1. ordinary' = ordinary \cup {count + 1} /\ req'[count + 1].cmd = c /\ Admissible(c)
    BY <1>5 DEF Queues, New, Fresh
  <2>2. CASE c # "DETACH"
    <3>1. \A d \in ordinary : d <= count + 1
      BY <1>0, <1>3 DEF Numbers
    <3>2. QED BY <1>0, <1>2, <1>3, <2>1, <2>2, <3>1 DEF Stopping, DetachFirst
  <2>3. CASE c = "DETACH"
    <3>1. \A r \in Req : ~Active(r)
      BY <2>1, <2>3 DEF Admissible, HasPendingWork, Pending, TypeOK, RequestsOK, Request
    <3>2. ordinary = {} /\ cur = NoReq
      <4>1. \A r \in Req : Waits(r) => Active(r)
        BY DEF Housed, Queued, Active, Working
      <4>2. cur # NoReq => Active(cur)
        BY DEF Housed, InHand, Active
      <4>3. QED BY <1>0, <1>2, <3>1, <4>1, <4>2 DEF Waits
    <3>3. count + 1 \in Req
      BY <1>5 DEF Queues, New
    <3>4. QED BY <1>0, <2>1, <3>2, <3>3 DEF DetachFirst, Req
  <2>4. QED BY <2>2, <2>3
<1>6. QED BY <1>4, <1>5 DEF Mail, NothingNew, AsksStop, AsksShutdown

LEMMA StopSurvivesCalls ==
  ASSUME TypeOK, TypeOK', Known, Housed, Stopping, Mail, StopAsked PROVE Stopping'
<1>0. /\ Numbers /\ NoReq = 0 /\ UNCHANGED <<cur, opc>> /\ Registry
      /\ ordinary \subseteq Req /\ ordinary' \subseteq Req
      /\ cur \in ReqOrNone /\ (\A r \in Req : Located(r) => r <= count)
      /\ stopH \in ReqOrNone /\ session \in Nat
  BY LocatedKnown, NumbersTyped DEF Mail, TypeOK, MailOK, ControllerOK, MagnetOK
<1>1. UNCHANGED <<field, session>>
  BY DEF StopAsked
<1>2. DetachFirst'
  BY DetachEntersFirst
<1>3. ASSUME NEW r \in Req, r <= count
      PROVE  /\ req'[r].cmd = req[r].cmd
             /\ req'[r].state = "SUCCEEDED" => req[r].state = "SUCCEEDED"
             /\ r \notin ordinary => req'[r].val = req[r].val
  BY <1>0, <1>3 DEF Registry, Continues, Cancelled
<1>4. cur # NoReq => cur \in Req /\ req'[cur].cmd = req[cur].cmd
  BY <1>0, <1>3 DEF ReqOrNone, Located
<1>5. CASE stopH' = NoReq
  BY <1>2, <1>5 DEF Stopping, StopKept, StopStands, StopNotUndone, StopHolds
<1>6. CASE LeavesStop /\ stopH' # NoReq
  <2>1. /\ stopH # NoReq /\ stopH \in Req /\ stopH <= count /\ stopH' = stopH
        /\ req[stopH].cmd = "STOP" /\ req[stopH].val <= session
    BY <1>0, <1>6 DEF LeavesStop, Stopping, StopKept, ReqOrNone
  <2>2. stopH \notin ordinary
    BY <2>1 DEF Housed, Lanes
  <2>3. stopH <= count'
    BY <1>0, <2>1 DEF Mail, NothingNew, Queues, AsksStop, AsksShutdown, New, Numbers, Req
  <2>4. req'[stopH].cmd = "STOP" /\ req'[stopH].val = req[stopH].val
    BY <1>3, <2>1, <2>2
  <2>5. StopKept' /\ StopStands'
    BY <1>1, <1>6, <2>1, <2>3, <2>4 DEF StopKept, StopStands, Stopping, LeavesStop
  <2>6. StopNotUndone'
    <3> SUFFICES ASSUME NEW d \in Req, req'[d].cmd = "DETACH", d \in ordinary' \/ d = cur'
                 PROVE  stopEvt'
      BY DEF StopNotUndone
    <3>1. d \in ordinary \/ d = cur
      BY <1>0, <1>6 DEF LeavesStop
    <3>2. req[d].cmd = "DETACH"
      BY <1>0, <1>3, <3>1 DEF Located, Waits
    <3>3. QED BY <1>6, <2>1, <3>1, <3>2 DEF Stopping, StopNotUndone, LeavesStop
  <2>7. StopHolds'
    BY <1>1, <1>3, <2>1, <2>4 DEF StopHolds, Stopping
  <2>8. QED BY <1>2, <2>5, <2>6, <2>7 DEF Stopping
<1>7. CASE AsksAgain
  <2>1. /\ req'[count + 1].cmd = "STOP" /\ req'[count + 1].state = "QUEUED"
        /\ req'[count + 1].val = session
        /\ stopH' = count + 1 /\ count' = count + 1 /\ stopEvt'
    BY <1>7 DEF AsksAgain, Fresh
  <2>2. StopKept' /\ StopHolds' /\ StopStands' /\ StopNotUndone'
    BY <1>0, <1>1, <2>1 DEF StopKept, StopHolds, StopStands, StopNotUndone, Numbers
  <2>3. QED BY <1>2, <2>2 DEF Stopping
<1>8. QED BY <1>5, <1>6, <1>7 DEF StopAsked

(* A detach is popped from the head of the FIFO, and while it waits what is   *)
(* popped is a Stop or a Shutdown.                                           *)
LEMMA StopSurvivesPop ==
  ASSUME TypeOK, TypeOK', Known, Housed, Stopping, Pop PROVE Stopping'
<1>1. /\ ordinary' \subseteq ordinary /\ ordinary \subseteq Req /\ NoReq = 0
      /\ UNCHANGED <<req, count, stopH, stopEvt, field, session>>
  BY DEF Pop, ownVars, ctlVars, evtVars, hwVars, TypeOK, MailOK, NoReq
<1>2. Numbers
  BY NumbersTyped
<1>3. StopKept' /\ StopStands' /\ StopHolds'
  BY <1>1 DEF Stopping, StopKept, StopStands, StopHolds
<1>4. \/ cur' \in ordinary /\ \A q \in ordinary : cur' <= q
      \/ req[cur'].cmd \in {"STOP", "SHUTDOWN"}
  BY DEF Pop, Housed, Lanes
<1>5. StopNotUndone'
  BY <1>1, <1>4 DEF Stopping, StopNotUndone
<1>6. DetachFirst'
  <2> SUFFICES ASSUME NEW d \in ordinary', req[d].cmd = "DETACH" PROVE req[cur'].cmd # "CONNECT"
    BY <1>1 DEF Stopping, DetachFirst, Cmd
  <2>1. CASE cur' \in ordinary /\ \A q \in ordinary : cur' <= q
    <3>1. d <= cur' /\ cur' <= d /\ cur' \in Req /\ d \in Req
      BY <1>1, <2>1 DEF Stopping, DetachFirst
    <3>2. d = cur'
      BY <3>1 DEF Req
    <3>3. QED BY <3>2
  <2>2. QED BY <1>4, <2>1
<1>7. QED BY <1>3, <1>5, <1>6 DEF Stopping

LEMMA StopSurvivesWork ==
  ASSUME Custodial, Housed, Stopping, Work PROVE Stopping'
<1>1. /\ UNCHANGED <<count, ordinary, cur, stopH, stopEvt, session>>
      /\ \A r \in Req : r # cur => req'[r] = req[r]
      /\ req'[cur].cmd = req[cur].cmd /\ req'[cur].state \in Working
  <2>1. UNCHANGED <<stopEvt, session>>
    BY DEF Work, Begin, ShutdownStops, DetachVerified, RequestDrivenMode, SetDrivenMode,
       ObserveMode, evtVars, hwVars
  <2>2. QED BY <2>1, OwnerLabours DEF Labours, mailVars
<1>2. \A r \in Req : req'[r].cmd = req[r].cmd /\ req'[r].val = req[r].val
  BY <1>1 DEF Work, Begin, ShutdownStops, DetachVerified, RequestDrivenMode, SetDrivenMode,
     ObserveMode, Custodial, TypeOK, RequestsOK, Request
<1>3. /\ stopH \in ReqOrNone /\ ordinary \subseteq Req /\ cur \in ReqOrNone
  BY DEF Custodial, TypeOK, ControllerOK, MailOK, BusyOK
<1>4. field' \in {field, "off"}
  BY DEF Work, Begin, ShutdownStops, DetachVerified, RequestDrivenMode, SetDrivenMode,
     ObserveMode, hwVars
<1>5. StopKept' /\ StopStands' /\ StopNotUndone'
  BY <1>1, <1>2, <1>3 DEF Stopping, StopKept, StopStands, StopNotUndone, ReqOrNone
<1>6. DetachFirst'
  BY <1>1, <1>2, <1>3 DEF Stopping, DetachFirst, Cmd, ReqOrNone
<1>7. StopHolds'
  <2>1. stopH # NoReq /\ req'[stopH].state = "SUCCEEDED" => req[stopH].state = "SUCCEEDED"
    BY <1>1, <1>3 DEF ReqOrNone, Working
  <2>2. QED BY <1>1, <1>2, <1>3, <1>4, <2>1 DEF Stopping, StopHolds, ReqOrNone
<1>8. QED BY <1>5, <1>6, <1>7 DEF Stopping

(* How a command ends, as far as a Stop is concerned.                        *)
LEMMA Endings ==
  ASSUME Custodial, Housed, Stopping, Finishing
  PROVE  /\ UNCHANGED <<count, ordinary, stopH>> /\ opc # "idle" /\ cur' = NoReq /\ opc' = "idle"
         /\ cur \in Req /\ \A r \in Req : req'[r].cmd = req[r].cmd
         /\ \A r \in Req : r # cur => req'[r] = req[r]
<1>1. CASE DetachCommits
  <2>1. Commits
    BY <1>1, DetachCommitsCommits
  <2>2. QED BY <2>1, BusyOwner DEF Commits, Custodial, mailVars
<1>2. CASE ~DetachCommits
  <2>1. Finishes
    BY <1>2, FinishingFinishes
  <2>2. QED BY <2>1, BusyOwner DEF Finishes, Custodial, mailVars
<1>3. QED BY <1>1, <1>2

(* A Stop in hand stops the field, or fails. *)
LEMMA StopEnds ==
  ASSUME Custodial, Housed, Stopping, Finishing, Cmd = "STOP"
  PROVE  /\ req'[cur].val = req[cur].val /\ UNCHANGED <<stopEvt, session>>
         /\ field' # "ours" \/ (req'[cur].state = "FAILED" /\ field' = field)
<1>0. /\ cur \in Req /\ opc # "idle" /\ req \in [Req -> Request]
      /\ req[cur] \in Request /\ cur # NoReq
  BY Endings, BoundAssumption DEF Custodial, TypeOK, RequestsOK, Req, NoReq
<1>1. RejectStale \/ CommandRefused \/ SdkFails \/ StopDone
  BY DEF Finishing, ClosedAlready, ConnectDone, ReadDone, Reads, SetpointDone, StartDone,
     DisconnectDone, ShutdownDone, DetachCommits, DetachAborts, PrepareFails, PrepareDone,
     InSdk, Custodial, Executing
<1>2. CASE StopDone
  <2>1. /\ req' = [req EXCEPT ![cur] = Done(cur, req[cur].val)] /\ field' = "off"
        /\ UNCHANGED <<stopEvt, session>>
    BY <1>2 DEF StopDone, Succeed, evtVars
  <2>2. req'[cur].val = req[cur].val
    BY <1>0, <2>1 DEF Done, Request
  <2>3. QED BY <2>1, <2>2
<1>3. CASE RejectStale \/ CommandRefused \/ SdkFails
  <2>1. req' = [req EXCEPT ![cur] = Errored(cur)] /\ UNCHANGED <<stopEvt, session, field>>
    BY <1>3 DEF RejectStale, CommandRefused, SdkFails, Fail, FailWith, evtVars, hwVars
  <2>2. req'[cur].val = req[cur].val /\ req'[cur].state = "FAILED"
    BY <1>0, <2>1 DEF Errored, Request
  <2>3. QED BY <2>1, <2>2
<1>4. QED BY <1>1, <1>2, <1>3

LEMMA StopSurvivesEndings ==
  ASSUME Custodial, Housed, Stopping, Finishing PROVE Stopping'
<1>0. /\ UNCHANGED <<count, ordinary, stopH>> /\ cur' = NoReq /\ cur \in Req /\ opc # "idle"
      /\ \A r \in Req : req'[r].cmd = req[r].cmd
      /\ \A r \in Req : r # cur => req'[r] = req[r]
  BY Endings
<1>1. stopH \in ReqOrNone /\ ordinary \subseteq Req /\ session \in Nat /\ NoReq \notin Req
      /\ \A r \in Req : req[r].val \in Nat
  BY DEF Custodial, TypeOK, ControllerOK, MailOK, MagnetOK, NoReq, Req, RequestsOK, Request
<1>2. DetachFirst'
  BY <1>0, <1>1 DEF Stopping, DetachFirst
<1>3. CASE stopH = NoReq
  BY <1>0, <1>2, <1>3 DEF Stopping, StopKept, StopStands, StopNotUndone, StopHolds
<1>4. CASE stopH # NoReq
  <2>1. stopH \in Req /\ stopH <= count /\ req[stopH].cmd = "STOP" /\ req[stopH].val <= session
    BY <1>1, <1>4 DEF Stopping, StopKept, ReqOrNone
  <2>2. req'[stopH].val = req[stopH].val
    BY <1>0, <2>1, StopEnds DEF Cmd
  <2>3. CASE ConnectDone
    <3>1. session' = session + 1 /\ Cmd = "CONNECT"
      BY <2>3 DEF ConnectDone, InSdk
    <3>2. req[stopH].val \in Nat /\ req[stopH].val # session' /\ req[stopH].val <= session'
      BY <1>1, <2>1, <3>1
    <3>3. \A d \in ordinary : req[d].cmd # "DETACH"
      BY <1>0, <1>1, <3>1 DEF Stopping, DetachFirst
    <3>4. StopKept' /\ StopStands' /\ StopNotUndone' /\ StopHolds'
      BY <1>0, <1>1, <2>1, <2>2, <3>2, <3>3 DEF StopKept, StopStands, StopNotUndone, StopHolds
    <3>5. QED BY <1>2, <3>4 DEF Stopping
  <2>4. CASE ~ConnectDone
    <3>1. UNCHANGED <<stopEvt, session>>
      BY <2>4 DEF Finishing, RejectStale, CommandRefused, ClosedAlready, ReadDone, SetpointDone,
         StartDone, StopDone, DisconnectDone, SdkFails, ShutdownDone, DetachCommits,
         DetachAborts, PrepareFails, PrepareDone, evtVars, hwVars
    <3>2. StopKept' /\ StopStands' /\ StopNotUndone'
      BY <1>0, <1>1, <2>1, <2>2, <3>1 DEF Stopping, StopKept, StopStands, StopNotUndone
    <3>3. StopHolds'
      <4> SUFFICES ASSUME req'[stopH].state = "SUCCEEDED", req[stopH].val = session
                   PROVE  field' # "ours"
        BY <1>0, <2>2, <3>1 DEF StopHolds
      <4>1. stopEvt
        BY <1>4 DEF Stopping, StopStands
      <4>2. field' # "ours" \/ field' = field
        BY <2>4, <4>1 DEF Finishing, RejectStale, CommandRefused, ClosedAlready, ReadDone,
           SetpointDone, StartDone, StopDone, DisconnectDone, SdkFails, ShutdownDone,
           DetachCommits, DetachAborts, PrepareFails, PrepareDone, hwVars
      <4>3. CASE stopH # cur
        BY <1>0, <1>4, <2>1, <4>2, <4>3 DEF Stopping, StopHolds
      <4>4. CASE stopH = cur
        BY <2>1, <4>4, StopEnds DEF Cmd
      <4>5. QED BY <4>3, <4>4
    <3>4. QED BY <1>2, <3>2, <3>3 DEF Stopping
  <2>5. QED BY <2>3, <2>4
<1>5. QED BY <1>3, <1>4

LEMMA StopSurvivesMain ==
  ASSUME Custodial, Housed, Stopping, Main \/ ThreadFinish \/ MagnetSettles \/ MagnetReverts
  PROVE  Stopping'
<1>1. UNCHANGED <<stopEvt, field, session>>
  BY DEF Main, CacheState, RequestTerminal, ThreadQuit, ThreadFinished, ThreadFinish,
     MagnetSettles, MagnetReverts, ownVars, evtVars, hwVars
<1>2. /\ UNCHANGED <<count, ordinary, cur, opc, stopH>>
      /\ \A r \in Req : /\ req'[r].cmd = req[r].cmd /\ req'[r].state = req[r].state
                        /\ req'[r].val = req[r].val
  BY MainSettles DEF Settles, mailVars
<1>3. stopH \in ReqOrNone /\ ordinary \subseteq Req /\ cur \in ReqOrNone
  BY DEF Custodial, TypeOK, ControllerOK, MailOK, BusyOK
<1>4. StopKept' /\ StopStands' /\ StopNotUndone' /\ StopHolds'
  BY <1>1, <1>2, <1>3 DEF Stopping, StopKept, StopStands, StopNotUndone, StopHolds, ReqOrNone
<1>5. DetachFirst'
  <2>1. cur # NoReq => Cmd' = Cmd
    BY <1>2, <1>3 DEF Cmd, ReqOrNone
  <2>2. QED BY <1>2, <1>3, <2>1 DEF Stopping, DetachFirst
<1>6. QED BY <1>4, <1>5 DEF Stopping

LEMMA StoppingNext ==
  Custodial /\ Housed /\ Stopping /\ [Next]_vars => Stopping'
<1> SUFFICES ASSUME Custodial, Housed, Stopping, [Next]_vars PROVE Stopping'
  OBVIOUS
<1>1. TypeOK /\ Known /\ TypeOK'
  BY NextTypes DEF Custodial
<1>2. CASE Client \/ \E t \in Req : Timer(t)
  BY <1>1, <1>2, ClientMails, TimerMails, ClientAsks, TimerAsks, StopSurvivesCalls
<1>3. CASE Owner
  <2>1. Pop \/ Work \/ Finishing
    BY <1>3 DEF Owner, Work, Finishing
  <2>2. QED BY <1>1, <2>1, StopSurvivesPop, StopSurvivesWork, StopSurvivesEndings
<1>4. CASE Main \/ ThreadFinish \/ MagnetSettles \/ MagnetReverts
  BY <1>4, StopSurvivesMain
<1>5. CASE UNCHANGED vars
  BY <1>5 DEF vars, mailVars, ownVars, ctlVars, evtVars, hwVars, Stopping, StopKept,
     StopStands, StopNotUndone, DetachFirst, StopHolds, Cmd
<1>6. QED BY <1>2, <1>3, <1>4, <1>5 DEF Next

LEMMA StoppingAlways == Spec => [](Custodial /\ Housed /\ Stopping)
<1>1. Init => Stopping
  BY DEF Init, Stopping, StopKept, StopStands, StopNotUndone, DetachFirst, StopHolds
<1>2. Custodial /\ Housed /\ Stopping /\ [Next]_vars => Stopping'
  BY StoppingNext
<1>3. QED BY <1>1, <1>2, HousedAlways, PTL DEF Spec

(* Once a Stop asked for on a connection has succeeded, nothing that was      *)
(* queued, popped, checked or timed out before it energises the field again  *)
(* on that connection (request_stop, set_h_setpoint_async, the SETPOINT and  *)
(* START branches of _execute, _caller_timeout).                             *)
THEOREM StopAlwaysHolds == Spec => []StopHolds
<1>1. Stopping => StopHolds
  BY DEF Stopping
<1>2. QED BY <1>1, StoppingAlways, PTL

(* A detach never undoes a Stop: when it commits, no Stop has been requested *)
(* since the run was reserved (commit_detach).                               *)
THEOREM HandOverNeverUndoesStop == Spec => HandedOverUncancelled
<1>1. ASSUME Custodial, Housed, Stopping, [Next]_vars, field = "ours", field' = "left"
      PROVE  reserved /\ stopSlot = NoReq /\ stopH = NoReq
  <2>1. DetachCommits
    <3>1. field' # field
      BY <1>1
    <3>2. ~Client /\ ~(\E t \in Req : Timer(t))
      BY <1>1, ClientAsks, TimerAsks DEF Custodial, StopAsked
    <3>3. ~(Main \/ ThreadFinish \/ MagnetSettles \/ MagnetReverts)
      BY <3>1 DEF Main, CacheState, RequestTerminal, ThreadQuit, ThreadFinished, ThreadFinish,
         MagnetSettles, MagnetReverts, hwVars
    <3>4. Owner
      BY <1>1, <3>1, <3>2, <3>3 DEF Next, vars, hwVars
    <3>5. QED
      BY <1>1, <3>1, <3>4 DEF Owner, Pop, RejectStale, CommandRefused, ClosedAlready, Begin,
         ConnectDone, ReadDone, SetpointDone, StartDone, StopDone, DisconnectDone, SdkFails,
         ShutdownStops, ShutdownDone, DetachVerified, DetachAborts, PrepareFails,
         RequestDrivenMode, SetDrivenMode, ObserveMode, PrepareDone, hwVars
  <2>2. ~stopEvt /\ reserved /\ cur \in Req /\ req[cur].cmd = "DETACH"
    BY <1>1, <2>1, BusyOwner DEF DetachCommits, MayCommit, Custodial, Executing, Cmd
  <2>3. stopH = NoReq
    BY <1>1, <2>2 DEF Stopping, StopNotUndone
  <2>4. QED BY <1>1, <2>2, <2>3, NoHandleNoStop
<1>2. QED BY <1>1, StoppingAlways, PTL DEF Spec, HandedOverUncancelled

-----------------------------------------------------------------------------

-----------------------------------------------------------------------------
(* The display cache answers for the present connection.                     *)

(* What is on its way in the queue: the end of a disconnect or a shutdown,    *)
(* which clears the cache; the ends of the owner thread, at which a detach   *)
(* clears it.                                                                *)
Closers == {"DISCONNECT", "SHUTDOWN"}
ClosingEnd(i) == sig[i].kind = "terminal" /\ req[sig[i].req].cmd \in Closers
ThreadEnd(i) == sig[i].kind \in {"quit", "finished"}

(* Until a Shutdown is requested the owner thread ends only for a detach, and *)
(* only once: the quit, the ending thread and its finished signal follow     *)
(* each other.                                                               *)
Shut == shutH # NoReq
Closing == cur # NoReq /\ Cmd = "SHUTDOWN" => Shut
EndsOnce ==
  ~Shut => /\ \A i, j \in 1..Len(sig) : ThreadEnd(i) /\ ThreadEnd(j) => i = j
           /\ thread = "quitting" => \A i \in 1..Len(sig) : ~ThreadEnd(i)
           /\ deferred = NoReq => thread # "quitting" /\ \A i \in 1..Len(sig) : ~ThreadEnd(i)
(* A Shutdown that ends it earlier than a waiting detach has closed the       *)
(* connection that detach would hand over.                                   *)
DetachWaits == \E d \in Req : req[d].cmd = "DETACH" /\ (d \in ordinary \/ d = cur)
DetachApart ==
  DetachWaits /\ adapter => thread # "quitting" /\ \A i \in 1..Len(sig) : ~ThreadEnd(i)

(* What the cache, or an answer still in its slot, holds was measured on the *)
(* connection of this moment, or what ends that connection will clear it.    *)
Current(v) == v = session /\ adapter
CacheEnding == deferred # NoReq \/ \E i \in 1..Len(sig) : ClosingEnd(i)
SlotEndsAt(j) ==
  /\ sig[j] = TerminalSig(slot)
  /\ \/ deferred # NoReq /\ \A i \in 1..j : sig[i].kind # "finished"
     \/ \E i \in j..Len(sig) : ClosingEnd(i)
Answered == slot # NoReq /\ req[slot].state = "SUCCEEDED"
SlotKept == slot # NoReq => /\ slot <= count /\ req[slot].cmd = "DISPLAY"
                            /\ req[slot].state = "SUCCEEDED" => Announced(slot)
CacheServed == cache # NoCache => Current(cache.val) \/ CacheEnding
SlotServed == Answered => \/ Current(req[slot].val)
                          \/ \E j \in 1..Len(sig) : SlotEndsAt(j)
Serves == Closing /\ EndsOnce /\ DetachApart /\ SlotKept /\ CacheServed /\ SlotServed

(* The queue grows at its end and shrinks at its head. *)
Lengthens == Len(sig) <= Len(sig') /\ \A i \in 1..Len(sig) : sig'[i] = sig[i]
EndsKept == \A i \in 1..Len(sig) : ClosingEnd(i) => req'[sig[i].req].cmd \in Closers

LEMMA LongerBy ==
  ASSUME NEW s \in Seq(Signal), NEW t \in Seq(Signal)
  PROVE  /\ s \o t \in Seq(Signal) /\ Len(s) \in Nat /\ Len(t) \in Nat
         /\ Len(s \o t) = Len(s) + Len(t)
         /\ \A i \in 1..Len(s) : (s \o t)[i] = s[i]
         /\ \A i \in (Len(s) + 1)..Len(s \o t) :
              i - Len(s) \in 1..Len(t) /\ (s \o t)[i] = t[i - Len(s)]
<1>1. /\ Len(s) \in Nat /\ Len(t) \in Nat /\ Len(s \o t) = Len(s) + Len(t)
      /\ s \o t \in Seq(Signal)
      /\ \A i \in 1..(Len(s) + Len(t)) :
           (s \o t)[i] = IF i <= Len(s) THEN s[i] ELSE t[i - Len(s)]
  BY ConcatProperties, LenProperties
<1>2. \A i \in 1..Len(s) : (s \o t)[i] = s[i]
  BY <1>1
<1>3. ASSUME NEW i \in (Len(s) + 1)..Len(s \o t)
      PROVE  i - Len(s) \in 1..Len(t) /\ (s \o t)[i] = t[i - Len(s)]
  <2>1. i \in 1..(Len(s) + Len(t)) /\ ~(i <= Len(s))
    BY <1>1
  <2>2. QED BY <1>1, <2>1
<1>4. QED BY <1>1, <1>2, <1>3

LEMMA SigAppended ==
  ASSUME sig \in Seq(Signal), NEW t \in Seq(Signal), sig' = sig \o t
  PROVE  /\ Lengthens /\ Len(sig) \in Nat /\ Len(sig') = Len(sig) + Len(t)
         /\ \A i \in (Len(sig) + 1)..Len(sig') :
              i - Len(sig) \in 1..Len(t) /\ sig'[i] = t[i - Len(sig)]
<1>1. /\ Len(sig) \in Nat /\ Len(t) \in Nat /\ Len(sig \o t) = Len(sig) + Len(t)
      /\ \A i \in 1..Len(sig) : (sig \o t)[i] = sig[i]
      /\ \A i \in (Len(sig) + 1)..Len(sig \o t) :
              i - Len(sig) \in 1..Len(t) /\ (sig \o t)[i] = t[i - Len(sig)]
  BY LongerBy
<1>2. QED BY <1>1 DEF Lengthens

LEMMA EndingGrows ==
  ASSUME sig \in Seq(Signal), sig' \in Seq(Signal), Lengthens, EndsKept,
         deferred # NoReq => deferred' # NoReq
  PROVE  /\ CacheEnding => CacheEnding'
         /\ \A j \in 1..Len(sig) : slot' = slot /\ SlotEndsAt(j) =>
              j \in 1..Len(sig') /\ SlotEndsAt(j)'
<1>1. /\ Len(sig) \in Nat /\ Len(sig') \in Nat /\ Len(sig) <= Len(sig')
      /\ \A i \in 1..Len(sig) : i \in 1..Len(sig') /\ sig'[i] = sig[i]
  BY DEF Lengthens
<1>2. \A i \in 1..Len(sig) : ClosingEnd(i) => ClosingEnd(i)'
  BY <1>1 DEF ClosingEnd, EndsKept
<1>3. CacheEnding => CacheEnding'
  BY <1>1, <1>2 DEF CacheEnding
<1>4. ASSUME NEW j \in 1..Len(sig), slot' = slot, SlotEndsAt(j)
      PROVE  j \in 1..Len(sig') /\ SlotEndsAt(j)'
  <2>1. j \in 1..Len(sig') /\ sig'[j] = TerminalSig(slot')
    BY <1>1, <1>4 DEF SlotEndsAt, TerminalSig
  <2>2. CASE deferred # NoReq /\ \A i \in 1..j : sig[i].kind # "finished"
    <3>1. \A i \in 1..j : sig'[i].kind # "finished"
      BY <1>1, <2>2
    <3>2. QED BY <2>1, <2>2, <3>1 DEF SlotEndsAt, TerminalSig
  <2>3. CASE \E i \in j..Len(sig) : ClosingEnd(i)
    <3>1. PICK i \in j..Len(sig) : ClosingEnd(i)
      BY <2>3
    <3>2. i \in 1..Len(sig) /\ i \in j..Len(sig')
      BY <1>1
    <3>3. ClosingEnd(i)'
      BY <1>2, <3>1, <3>2
    <3>4. QED BY <2>1, <3>2, <3>3 DEF SlotEndsAt, TerminalSig
  <2>4. QED BY <1>4, <2>2, <2>3 DEF SlotEndsAt
<1>5. QED BY <1>3, <1>4

LEMMA EndingShrinks ==
  ASSUME sig \in Seq(Signal), sig # <<>>, sig' = Tail(sig), EndsKept
  PROVE  /\ Len(sig) \in Nat /\ Len(sig') \in Nat /\ Len(sig') = Len(sig) - 1
         /\ Head(sig) = sig[1] /\ 1 \in 1..Len(sig)
         /\ \A i \in 1..Len(sig') : sig'[i] = sig[i + 1] /\ i + 1 \in 1..Len(sig)
         /\ ~ClosingEnd(1) /\ (\E i \in 1..Len(sig) : ClosingEnd(i))
              => \E i \in 1..Len(sig') : ClosingEnd(i)'
         /\ \A j \in 2..Len(sig) :
              /\ SlotEndsAt(j) /\ slot' = slot
              /\ (deferred # NoReq => deferred' # NoReq \/ sig[1].kind = "finished")
              => j - 1 \in 1..Len(sig') /\ SlotEndsAt(j - 1)'
<1>1. /\ Len(sig) \in Nat /\ Len(sig') \in Nat /\ Len(sig') = Len(sig) - 1
      /\ Head(sig) = sig[1] /\ 1 \in 1..Len(sig)
      /\ \A i \in 1..Len(sig') : sig'[i] = sig[i + 1] /\ i + 1 \in 1..Len(sig)
  BY HeadTailProperties
<1>2. ASSUME NEW i \in 1..Len(sig), ClosingEnd(i), i # 1
      PROVE  i > 1 /\ i - 1 \in 1..Len(sig') /\ ClosingEnd(i - 1)'
  <2>1. i > 1 /\ i - 1 \in 1..Len(sig') /\ i - 1 + 1 = i
    BY <1>1, <1>2
  <2>2. sig'[i - 1] = sig[i]
    BY <1>1, <2>1
  <2>3. QED BY <1>2, <2>1, <2>2 DEF ClosingEnd, EndsKept
<1>3. ASSUME NEW j \in 2..Len(sig), SlotEndsAt(j), slot' = slot,
             deferred # NoReq => deferred' # NoReq \/ sig[1].kind = "finished"
      PROVE  j - 1 \in 1..Len(sig') /\ SlotEndsAt(j - 1)'
  <2>1. j - 1 \in 1..Len(sig') /\ j - 1 + 1 = j
    BY <1>1
  <2>2. sig'[j - 1] = TerminalSig(slot')
    BY <1>1, <1>3, <2>1 DEF SlotEndsAt
  <2>3. CASE deferred # NoReq /\ \A i \in 1..j : sig[i].kind # "finished"
    <3>1. ASSUME NEW i \in 1..(j - 1) PROVE sig'[i].kind # "finished"
      <4>1. i \in 1..Len(sig') /\ i + 1 \in 1..j
        BY <1>1, <2>1
      <4>2. QED BY <1>1, <2>3, <4>1
    <3>2. deferred' # NoReq
      <4>1. 1 \in 1..j
        BY <1>1
      <4>2. QED BY <1>3, <2>3, <4>1
    <3>3. QED BY <2>1, <2>2, <3>1, <3>2 DEF SlotEndsAt
  <2>4. CASE \E i \in j..Len(sig) : ClosingEnd(i)
    <3>1. PICK i \in j..Len(sig) : ClosingEnd(i)
      BY <2>4
    <3>2. i \in 1..Len(sig) /\ i # 1 /\ i - 1 \in (j - 1)..Len(sig')
      BY <1>1
    <3>3. ClosingEnd(i - 1)'
      BY <1>2, <3>1, <3>2
    <3>4. QED BY <2>1, <2>2, <3>2, <3>3 DEF SlotEndsAt
  <2>5. QED BY <1>3, <2>3, <2>4 DEF SlotEndsAt
<1>4. QED BY <1>1, <1>2, <1>3

LEMMA EndsOnceGrows ==
  ASSUME sig \in Seq(Signal), sig' \in Seq(Signal), Lengthens, EndsOnce, Shut => Shut',
         \A i \in (Len(sig) + 1)..Len(sig') : ThreadEnd(i)' => Shut',
         deferred' = deferred, thread' = "quitting" => thread = "quitting"
  PROVE  EndsOnce'
<1>1. SUFFICES ASSUME ~Shut' PROVE EndsOnce'
  BY DEF EndsOnce
<1>2. /\ Len(sig) \in Nat /\ Len(sig') \in Nat /\ Len(sig) <= Len(sig')
      /\ \A i \in 1..Len(sig) : sig'[i] = sig[i]
  BY DEF Lengthens
<1>3. \A i \in 1..Len(sig') : ThreadEnd(i)' => i \in 1..Len(sig) /\ ThreadEnd(i)
  <2> SUFFICES ASSUME NEW i \in 1..Len(sig'), ThreadEnd(i)'
               PROVE  i \in 1..Len(sig) /\ ThreadEnd(i)
    OBVIOUS
  <2>1. i \notin (Len(sig) + 1)..Len(sig')
    BY <1>1
  <2>2. i \in 1..Len(sig)
    BY <1>2, <2>1
  <2>3. QED BY <1>2, <2>2 DEF ThreadEnd
<1>4. QED BY <1>1, <1>3 DEF EndsOnce

(* What callers and watchdogs do to the display: forget what is cached; move *)
(* the answer of a slot to the cache and take a new request, or none.        *)
Serving ==
  /\ UNCHANGED <<session, adapter>> /\ (thread' = "quitting" => thread = "quitting")
  /\ \A r \in ordinary' : r \in ordinary \/ req'[r].cmd # "DETACH" \/ ~(Shut \/ reserved)
  /\ \/ slot' = slot /\ cache' \in {cache, NoCache}
     \/ /\ cache' = cache \/ (Answered /\ cache'.val = req[slot].val)
        /\ \/ slot' = NoReq
           \/ /\ slot' = count + 1 /\ count' = count + 1 /\ req'[count + 1].cmd = "DISPLAY"
              /\ req'[count + 1].state = "QUEUED"

LEMMA EnqueueServes ==
  ASSUME TypeOK, CallerMayCreate, NEW c \in Commands, Enqueue(c),
         c = "DETACH" => ~(Shut \/ reserved), UNCHANGED <<session, adapter, slot, cache, thread>>
  PROVE  Serving
<1>1. count + 1 \in Req
  BY CreateTypes DEF Enqueue
<1>2. req'[count + 1] = Fresh(c) /\ ordinary' = ordinary \cup {count + 1}
  BY <1>1 DEF Enqueue, Create, TypeOK, RequestsOK
<1>3. req'[count + 1].cmd = c
  BY <1>2 DEF Fresh
<1>4. QED BY <1>2, <1>3 DEF Serving

LEMMA AloneServes ==
  ASSUME UNCHANGED <<session, adapter, slot, cache>>, ordinary' \subseteq ordinary,
         thread' = "quitting" => thread = "quitting"
  PROVE  Serving
BY DEF Serving

LEMMA DisplayServes ==
  ASSUME TypeOK, DisplayAsync PROVE Serving
<1> DEFINE P == Pending(Mutations \cup LifecycleOps \cup {"PREPARE", "RAMP", "STOP"})
<1>1. UNCHANGED <<session, adapter, thread>> /\ CallerMayCreate /\ cache' = CacheAfterSlot
  BY DEF DisplayAsync, CallerMayCall, ownVars, hwVars
<1>2. cache' = cache \/ (Answered /\ cache'.val = req[slot].val)
  BY <1>1 DEF CacheAfterSlot, SlotDrained, Answered
<1>3. CASE P
  <2>1. slot' = NoReq /\ UNCHANGED ordinary
    BY <1>3 DEF DisplayAsync
  <2>2. QED BY <1>1, <1>2, <2>1 DEF Serving
<1>4. CASE ~P
  <2>0. slot' = count + 1 /\ Enqueue("DISPLAY")
    BY <1>4 DEF DisplayAsync
  <2>1. count + 1 \in Req
    BY <1>1, <2>0, CreateTypes DEF Enqueue, Commands
  <2>2. req'[count + 1] = Fresh("DISPLAY") /\ ordinary' = ordinary \cup {count + 1}
        /\ count' = count + 1
    BY <2>0, <2>1 DEF Enqueue, Create, TypeOK, RequestsOK
  <2>3. req'[count + 1].cmd = "DISPLAY" /\ req'[count + 1].state = "QUEUED"
    BY <2>2 DEF Fresh
  <2>4. QED BY <1>1, <1>2, <2>0, <2>2, <2>3 DEF Serving
<1>5. QED BY <1>3, <1>4

LEMMA ClientServes ==
  ASSUME TypeOK, Known, Housed, Client PROVE Serving
<1>1. CASE \E c \in Ops : SubmitPlain(c) \/ SubmitPast(c)
  <2>1. PICK c \in Ops : SubmitPlain(c) \/ SubmitPast(c)
    BY <1>1
  <2>2. /\ c \in Commands \ {"DETACH"} /\ CallerMayCreate
        /\ Enqueue(c) \/ UNCHANGED ordinary
        /\ UNCHANGED <<session, adapter, slot, cache, thread>>
    BY <2>1, OpsAssumption DEF SubmitPlain, SubmitPast, Submissions, CallerMayCall, Plain,
       Commands, ownVars, dispVars, hwVars
  <2>3. CASE Enqueue(c)
    BY <2>2, <2>3, EnqueueServes
  <2>4. CASE UNCHANGED ordinary
    BY <2>2, <2>4, AloneServes
  <2>5. QED BY <2>2, <2>3, <2>4
<1>2. CASE PrepareAsync
  <2>1. /\ UNCHANGED <<session, adapter, slot, cache, thread>> /\ CallerMayCreate
        /\ Enqueue("PREPARE")
    BY <1>2 DEF PrepareAsync, CallerMayCall, ownVars, dispVars, hwVars
  <2>2. QED BY <2>1, EnqueueServes DEF Commands
<1>3. CASE DetachAsync
  <2>1. /\ UNCHANGED <<session, adapter, slot, cache, thread>> /\ CallerMayCreate
        /\ Enqueue("DETACH") /\ ~(Shut \/ reserved)
    BY <1>3 DEF DetachAsync, CallerMayCall, ownVars, dispVars, hwVars, Shut
  <2>2. QED BY <2>1, EnqueueServes DEF Commands
<1>4. CASE \/ ConnectAsync \/ DisconnectAsync \/ CancelMagnetPreparation \/ RetryStop
           \/ RequestShutdown \/ ShutdownRaisesStop \/ ShutdownSweeps \/ ShutdownSubmits
           \/ \E c \in Ops : CheckStop(c)
  <2>1. /\ UNCHANGED <<session, adapter, slot, cache>>
        /\ thread' = "quitting" => thread = "quitting"
    BY <1>4 DEF ConnectAsync, DisconnectAsync, CancelMagnetPreparation, RetryStop,
       RequestShutdown, ShutdownRaisesStop, ShutdownSweeps, ShutdownSubmits, CheckStop,
       ownVars, dispVars, hwVars
  <2>2. ordinary' \subseteq ordinary
    BY <1>4 DEF ConnectAsync, DisconnectAsync, CancelMagnetPreparation, WithdrawPreparation,
       RetryStop, RequestShutdown, ShutdownRaisesStop, ShutdownSweeps, ShutdownSubmits,
       CheckStop, mailVars
  <2>3. QED BY <2>1, <2>2, AloneServes
<1>5. CASE InvalidateDisplayCache
  BY <1>5 DEF InvalidateDisplayCache, Serving, mailVars, ownVars, hwVars
<1>6. CASE RequestStop
  <2>1. UNCHANGED <<session, adapter, slot, cache, thread>>
    BY <1>6 DEF RequestStop, ownVars, dispVars, hwVars
  <2>2. ordinary' \subseteq ordinary
    BY <1>6 DEF RequestStop, WithdrawPreparation, IssueStop
  <2>3. QED BY <2>1, <2>2, AloneServes
<1>7. QED BY <1>1, <1>2, <1>3, <1>4, <1>5, <1>6, DisplayServes DEF Client

LEMMA TimerServes ==
  ASSUME NEW t \in Req, Timer(t) PROVE Serving
<1>1. UNCHANGED <<session, adapter, slot, cache, thread>>
  BY DEF Timer, TimeoutQueued, TimeoutRunning, TimeoutRaisesStop, TimeoutRequestsStop,
     TimeoutChecksPreparation, TimeoutRaisesEvent, ownVars, ctlVars, dispVars, hwVars
<1>2. ordinary' \subseteq ordinary
  BY DEF Timer, TimeoutQueued, TimeoutRunning, TimeoutRaisesStop, TimeoutRequestsStop,
     TimeoutChecksPreparation, TimeoutRaisesEvent, mailVars
<1>3. QED BY <1>1, <1>2, AloneServes

(* Signals name requests that exist, and a disconnect stays one. *)
LEMMA SignalsKnown ==
  ASSUME TypeOK, Known, Housed
  PROVE  \A i \in 1..Len(sig) : sig[i].kind = "terminal" =>
           /\ sig[i].req \in Req /\ sig[i].req <= count /\ sig[i] = TerminalSig(sig[i].req)
<1> TAKE i \in 1..Len(sig)
<1> HAVE sig[i].kind = "terminal"
<1>1. sig[i] \in Signal
  BY DEF TypeOK, SignalsOK
<1>2. sig[i].req \in Req /\ sig[i] = TerminalSig(sig[i].req)
  BY <1>1 DEF Signal, TerminalSig
<1>3. Announced(sig[i].req)
  BY <1>2 DEF Announced
<1>4. QED BY <1>2, <1>3, LocatedKnown

LEMMA CommandsKeepEnds ==
  ASSUME TypeOK, Known, Housed, \A r \in Req : r <= count => req'[r].cmd = req[r].cmd
  PROVE  EndsKept
BY SignalsKnown DEF EndsKept, ClosingEnd

LEMMA ServesCalls ==
  ASSUME TypeOK, TypeOK', Known, Housed, Serves, Mail, Serving PROVE Serves'
<1>0. /\ Numbers /\ NoReq = 0 /\ UNCHANGED <<cur, opc, deferred, sig>> /\ Registry
      /\ ordinary \subseteq Req /\ ordinary' \subseteq Req
      /\ cur \in ReqOrNone /\ slot \in ReqOrNone /\ (\A r \in Req : Located(r) => r <= count)
      /\ sig \in Seq(Signal) /\ \A r \in Req : r > 0
  BY LocatedKnown, NumbersTyped DEF Mail, TypeOK, MailOK, DisplayOK, SignalsOK
<1>1. UNCHANGED <<session, adapter>> /\ (thread' = "quitting" => thread = "quitting")
  BY DEF Serving
<1>2. ASSUME NEW r \in Req, r <= count
      PROVE  /\ req'[r].cmd = req[r].cmd
             /\ req'[r].state = "SUCCEEDED" => req[r].state = "SUCCEEDED" /\ req'[r].val = req[r].val
  BY <1>0, <1>2 DEF Registry, Continues, Cancelled
<1>3. cur # NoReq => cur \in Req /\ req'[cur].cmd = req[cur].cmd
  BY <1>0, <1>2 DEF ReqOrNone, Located
<1>4. (Shut => Shut') /\ count <= count'
  BY <1>0 DEF Mail, NothingNew, Queues, AsksStop, AsksShutdown, New, Numbers, Shut
<1>5. DetachApart'
  <2> SUFFICES ASSUME NEW d \in Req, req'[d].cmd = "DETACH", d \in ordinary' \/ d = cur, adapter
               PROVE  thread # "quitting" /\ \A i \in 1..Len(sig) : ~ThreadEnd(i)
    BY <1>0, <1>1 DEF DetachApart, DetachWaits, ThreadEnd
  <2>1. CASE d \in ordinary \/ d = cur
    <3>1. req[d].cmd = "DETACH"
      BY <1>0, <1>2, <2>1 DEF Located, Waits
    <3>2. QED BY <2>1, <3>1 DEF Serves, DetachApart, DetachWaits
  <2>2. CASE d \notin ordinary /\ d # cur
    <3>1. ~Shut /\ ~reserved
      BY <2>2 DEF Serving
    <3>2. deferred = NoReq
      BY <1>0, <3>1 DEF Housed, SetAside, OneDetach, Detaching, Located, Numbers, Req, TypeOK,
         OwnerOK, ReqOrNone
    <3>3. QED BY <3>1, <3>2 DEF Serves, EndsOnce
  <2>3. QED BY <2>1, <2>2
<1>7. Closing'
  BY <1>0, <1>3, <1>4 DEF Closing, Serves, Cmd
<1>8. EndsOnce'
  BY <1>0, <1>1, <1>4 DEF Serves, EndsOnce, ThreadEnd
<1>9. EndsKept /\ Lengthens
  BY <1>0, <1>2, CommandsKeepEnds DEF Lengthens
<1>10. /\ CacheEnding => CacheEnding'
       /\ \A j \in 1..Len(sig) : slot' = slot /\ SlotEndsAt(j) =>
              j \in 1..Len(sig') /\ SlotEndsAt(j)'
  BY <1>0, <1>9, EndingGrows
<1>11. \A v : Current(v) => Current(v)'
  BY <1>1 DEF Current
<1>12. slot # NoReq => slot \in Req /\ slot <= count
  BY <1>0 DEF ReqOrNone, Serves, SlotKept
<1>13. SlotKept'
  <2>1. CASE slot' = slot
    <3>1. slot # NoReq => req'[slot].cmd = "DISPLAY" /\ slot <= count'
      BY <1>0, <1>2, <1>4, <1>12 DEF Serves, SlotKept, Numbers, TypeOK, RequestsOK
    <3>2. slot # NoReq /\ req'[slot].state = "SUCCEEDED" => Announced(slot)
      BY <1>2, <1>12 DEF Serves, SlotKept
    <3>3. QED BY <1>0, <2>1, <3>1, <3>2 DEF SlotKept, Announced
  <2>2. CASE slot' = NoReq
    BY <2>2 DEF SlotKept
  <2>3. CASE slot' = count + 1 /\ count' = count + 1 /\ req'[count + 1].cmd = "DISPLAY"
             /\ req'[count + 1].state = "QUEUED"
    BY <1>0, <2>3 DEF SlotKept, Numbers
  <2>4. QED BY <2>1, <2>2, <2>3 DEF Serving
<1>14. CacheServed'
  <2>1. CASE cache' = NoCache
    BY <2>1 DEF CacheServed
  <2>2. CASE cache' = cache
    BY <1>10, <1>11, <2>2 DEF Serves, CacheServed
  <2>3. CASE Answered /\ cache'.val = req[slot].val
    <3>1. Current(req[slot].val) \/ \E j \in 1..Len(sig) : SlotEndsAt(j)
      BY <2>3 DEF Serves, SlotServed
    <3>2. ASSUME NEW j \in 1..Len(sig), SlotEndsAt(j) PROVE CacheEnding
      <4>1. \A i \in j..Len(sig) : i \in 1..Len(sig)
        BY <1>0, LenProperties
      <4>2. QED BY <3>2, <4>1 DEF SlotEndsAt, CacheEnding
    <3>3. QED BY <1>10, <1>11, <2>3, <3>1, <3>2 DEF CacheServed
  <2>4. QED BY <2>1, <2>2, <2>3 DEF Serving
<1>15. SlotServed'
  <2>1. CASE slot' = slot
    <3>1. SUFFICES ASSUME Answered' PROVE SlotServed'
      BY DEF SlotServed
    <3>2. Answered /\ req'[slot'].val = req[slot].val
      BY <1>2, <1>12, <2>1, <3>1 DEF Answered
    <3>3. PICK v : v = req[slot].val
      OBVIOUS
    <3>4. Current(v) \/ \E j \in 1..Len(sig) : SlotEndsAt(j)
      BY <3>2, <3>3 DEF Serves, SlotServed
    <3>5. Current(v)' \/ \E j \in 1..Len(sig') : SlotEndsAt(j)'
      BY <1>10, <1>11, <2>1, <3>4
    <3>6. CASE Current(v)'
      BY <3>2, <3>3, <3>6 DEF SlotServed, Current
    <3>7. QED BY <3>5, <3>6 DEF SlotServed
  <2>2. CASE slot' = NoReq
    BY <2>2 DEF SlotServed, Answered
  <2>3. CASE slot' = count + 1 /\ req'[count + 1].state = "QUEUED"
    BY <2>3 DEF SlotServed, Answered
  <2>4. QED BY <2>1, <2>2, <2>3 DEF Serving
<1>16. QED BY <1>5, <1>7, <1>8, <1>13, <1>14, <1>15 DEF Serves

(* The owner's steps leave the display alone.  What was measured on the      *)
(* present connection stays so, or the end of that connection was queued.    *)
NewEnd == \E i \in (Len(sig) + 1)..Len(sig') : ClosingEnd(i)'

LEMMA ServesOn ==
  ASSUME TypeOK, TypeOK', Serves, Closing', SlotKept', DetachApart', Shut => Shut', Lengthens,
         EndsKept,
         UNCHANGED <<deferred, slot, cache>>, thread' = "quitting" => thread = "quitting",
         \A i \in (Len(sig) + 1)..Len(sig') : ThreadEnd(i)' => Shut',
         \A v : Current(v) => Current(v)' \/ NewEnd,
         \A v : Answered' /\ v = req'[slot'].val =>
                  (Answered /\ v = req[slot].val) \/ Current(v)'
  PROVE  Serves'
<1>0. /\ sig \in Seq(Signal) /\ sig' \in Seq(Signal) /\ Len(sig) \in Nat /\ Len(sig') \in Nat
      /\ Len(sig) <= Len(sig') /\ \A i \in 1..Len(sig) : sig'[i] = sig[i]
  BY LenProperties DEF TypeOK, SignalsOK, Lengthens
<1>1. EndsOnce'
  BY <1>0, EndsOnceGrows DEF Serves
<1>2. /\ CacheEnding => CacheEnding'
      /\ \A j \in 1..Len(sig) : SlotEndsAt(j) => j \in 1..Len(sig') /\ SlotEndsAt(j)'
  BY <1>0, EndingGrows
<1>3. NewEnd => CacheEnding'
  <2> SUFFICES ASSUME NEW i \in (Len(sig) + 1)..Len(sig'), ClosingEnd(i)' PROVE CacheEnding'
    BY DEF NewEnd
  <2>1. i \in 1..Len(sig')
    BY <1>0
  <2>2. QED BY <2>1 DEF CacheEnding
<1>4. CacheServed'
  <2> SUFFICES ASSUME cache # NoCache PROVE Current(cache.val)' \/ CacheEnding'
    BY DEF CacheServed
  <2>1. PICK v : v = cache.val
    OBVIOUS
  <2>2. Current(v) \/ CacheEnding
    BY <2>1 DEF Serves, CacheServed
  <2>3. Current(v)' \/ CacheEnding'
    BY <1>2, <1>3, <2>2
  <2>4. QED BY <2>1, <2>3 DEF Current
<1>5. ASSUME Answered, NewEnd PROVE \E j \in 1..Len(sig') : SlotEndsAt(j)'
  <2>1. PICK i \in (Len(sig) + 1)..Len(sig') : ClosingEnd(i)'
    BY <1>5 DEF NewEnd
  <2>2. PICK j \in 1..Len(sig) : sig[j] = TerminalSig(slot)
    BY <1>5 DEF Serves, SlotKept, Answered, Announced
  <2>3. j \in 1..Len(sig') /\ sig'[j] = TerminalSig(slot') /\ i \in j..Len(sig')
    BY <1>0, <2>2
  <2>4. QED BY <2>1, <2>3 DEF SlotEndsAt, TerminalSig
<1>6. SlotServed'
  <2>1. SUFFICES ASSUME Answered' PROVE SlotServed'
    BY DEF SlotServed
  <2>2. PICK v : v = req'[slot'].val
    OBVIOUS
  <2>3. Current(v)' \/ \E j \in 1..Len(sig') : SlotEndsAt(j)'
    <3>1. CASE Answered /\ v = req[slot].val
      <4>1. Current(v) \/ \E j \in 1..Len(sig) : SlotEndsAt(j)
        BY <3>1 DEF Serves, SlotServed
      <4>2. QED BY <1>2, <1>5, <3>1, <4>1
    <3>2. QED BY <2>1, <2>2, <3>1
  <2>4. CASE Current(v)'
    BY <2>2, <2>4 DEF SlotServed, Current
  <2>5. QED BY <2>3, <2>4 DEF SlotServed
<1>7. QED BY <1>1, <1>4, <1>6 DEF Serves

LEMMA ServesPop ==
  ASSUME TypeOK, TypeOK', Known, Housed, Serves, Pop PROVE Serves'
<1>1. /\ UNCHANGED <<req, count, session, adapter, thread, deferred, shutH, slot, cache, sig>>
      /\ ordinary' \subseteq ordinary
  BY DEF Pop, ownVars, ctlVars, dispVars, hwVars
<1>2. cur' \in ordinary \/ (shutSlot # NoReq /\ cur' = shutSlot)
      \/ (stopSlot # NoReq /\ cur' = stopSlot)
  BY DEF Pop
<1>3. /\ req[cur'].cmd = "SHUTDOWN" => shutH # NoReq
      /\ req[cur'].cmd = "DETACH" => cur' \in ordinary
  BY <1>2 DEF Housed, Lanes
<1>4. (Shut => Shut') /\ Closing'
  BY <1>1, <1>3 DEF Closing, Shut, Cmd
<1>5. DetachApart'
  BY <1>1, <1>3 DEF Serves, DetachApart, DetachWaits, ThreadEnd
<1>6. SlotKept'
  BY <1>1 DEF Serves, SlotKept, Announced
<1>7. Lengthens /\ EndsKept /\ Len(sig) \in Nat
  BY <1>1, LenProperties DEF Lengthens, EndsKept, ClosingEnd, TypeOK, SignalsOK
<1>8. \A v : Current(v) => Current(v)'
  BY <1>1 DEF Current
<1>9. \A v : Answered' /\ v = req'[slot'].val => Answered /\ v = req[slot].val
  BY <1>1 DEF Answered
<1>10. \A i \in (Len(sig) + 1)..Len(sig') : FALSE
  BY <1>1, <1>7
<1>11. QED BY <1>1, <1>4, <1>5, <1>6, <1>7, <1>8, <1>9, <1>10, ServesOn

LEMMA ServesWork ==
  ASSUME Custodial, TypeOK', Housed, Serves, Work PROVE Serves'
<1>0. TypeOK /\ Known
  BY DEF Custodial
<1>1. UNCHANGED <<session, adapter, thread, slot, cache>>
  BY DEF Work, Begin, ShutdownStops, DetachVerified, RequestDrivenMode, SetDrivenMode,
     ObserveMode, ownVars, dispVars, hwVars
<1>2. Labours
  BY OwnerLabours
<1>3. /\ UNCHANGED <<count, ordinary, cur, deferred, shutH>> /\ cur \in Req
      /\ \A r \in Req : r # cur => req'[r] = req[r]
      /\ req'[cur].cmd = req[cur].cmd /\ req'[cur].state \in Working
      /\ \A r \in Req : Announced(r)' <=> Announced(r)
  BY <1>0, <1>2, BusyOwner DEF Labours, mailVars
<1>4. /\ \A r \in Req : req'[r].cmd = req[r].cmd
      /\ slot # NoReq => slot \in Req
      /\ ordinary \subseteq Req /\ sig \in Seq(Signal)
  BY <1>0, <1>3 DEF TypeOK, DisplayOK, ReqOrNone, MailOK, SignalsOK
<1>5. Cmd' = Cmd
  BY <1>3, <1>4 DEF Cmd
<1>6. (Shut => Shut') /\ Closing'
  BY <1>3, <1>5 DEF Shut, Closing, Serves
<1>7. SlotKept'
  BY <1>1, <1>3, <1>4 DEF Serves, SlotKept, Working
<1>8. EndsKept
  BY <1>0, <1>4, CommandsKeepEnds
<1>9. \E t \in Seq(Signal) : sig' = sig \o t /\ \A i \in 1..Len(t) : t[i].kind = "state"
  <2>1. CASE Begin
    <3>1. sig' = sig \o Announce(EntryState(Cmd))
      BY <2>1 DEF Begin
    <3>2. EntryState(Cmd) \in OwnerStates \cup {NoState}
      BY OwnerNames
    <3>3. Announce(EntryState(Cmd)) \in Seq(Signal)
      BY <3>2, AnnounceTypes
    <3>4. \A i \in 1..Len(Announce(EntryState(Cmd))) : Announce(EntryState(Cmd))[i].kind = "state"
      BY DEF Announce, StateSig
    <3>5. QED BY <3>1, <3>3, <3>4
  <2>2. CASE RequestDrivenMode
    <3>1. sig' = sig \o <<StateSig("RECOVERY_REQUIRED")>>
      BY <2>2 DEF RequestDrivenMode
    <3> DEFINE t == <<StateSig("RECOVERY_REQUIRED")>>
    <3>2. t \in Seq(Signal)
      BY SignalTypes DEF OwnerStates
    <3>3. \A i \in 1..Len(t) : t[i].kind = "state"
      BY DEF StateSig
    <3>4. sig' = sig \o t
      BY <3>1
    <3> HIDE DEF t
    <3>5. QED BY <3>2, <3>3, <3>4
  <2>3. CASE ShutdownStops \/ DetachVerified \/ SetDrivenMode \/ ObserveMode
    <3>1. sig' = sig
      BY <2>3 DEF ShutdownStops, DetachVerified, SetDrivenMode, ObserveMode
    <3> DEFINE t == <<>>
    <3>2. sig' = sig \o t
      BY <1>4, <3>1, ConcatEmptySeq
    <3>3. t \in Seq(Signal) /\ \A i \in 1..Len(t) : t[i].kind = "state"
      BY EmptySeq
    <3> HIDE DEF t
    <3>4. QED BY <3>2, <3>3
  <2>4. QED BY <2>1, <2>2, <2>3 DEF Work
<1>10. /\ Lengthens
       /\ \A i \in (Len(sig) + 1)..Len(sig') : sig'[i].kind = "state"
  <2>1. PICK t \in Seq(Signal) : sig' = sig \o t /\ \A i \in 1..Len(t) : t[i].kind = "state"
    BY <1>9
  <2>2. QED BY <1>4, <2>1, SigAppended
<1>11. \A i \in (Len(sig) + 1)..Len(sig') : ~ThreadEnd(i)'
  BY <1>10 DEF ThreadEnd
<1>12. \A v : Current(v) => Current(v)'
  BY <1>1 DEF Current
<1>13. \A v : Answered' /\ v = req'[slot'].val => Answered /\ v = req[slot].val
  BY <1>1, <1>3, <1>4 DEF Answered, Working
<1>14. DetachApart'
  <2>1. DetachWaits' => DetachWaits
    BY <1>3, <1>4 DEF DetachWaits
  <2>2. /\ Len(sig) \in Nat /\ Len(sig') \in Nat
        /\ \A i \in 1..Len(sig') : ThreadEnd(i)' => i \in 1..Len(sig) /\ ThreadEnd(i)
    <3>1. Len(sig) \in Nat /\ Len(sig') \in Nat /\ \A i \in 1..Len(sig) : sig'[i] = sig[i]
      BY <1>4, <1>10, LenProperties DEF Lengthens, TypeOK, SignalsOK
    <3>2. QED BY <1>11, <3>1 DEF ThreadEnd
  <2>3. QED BY <1>1, <2>1, <2>2 DEF Serves, DetachApart
<1>15. QED BY <1>0, <1>1, <1>3, <1>6, <1>7, <1>8, <1>10, <1>11, <1>12, <1>13, <1>14, ServesOn

(* What a command that ends appends: a state, its terminal signal and, if    *)
(* the owner is done, the quit.                                              *)
Appends(s, after) ==
  /\ s \in OwnerStates \cup {NoState} /\ after \in {<<>>, <<QuitSig>>}
  /\ sig' = sig \o Announce(s) \o <<TerminalSig(cur)>> \o after

LEMMA EndAppended ==
  ASSUME sig \in Seq(Signal), NEW s, NEW after, Appends(s, after), cur \in Req
  PROVE  /\ Lengthens
         /\ \E i \in (Len(sig) + 1)..Len(sig') : sig'[i] = TerminalSig(cur)
         /\ \A i \in (Len(sig) + 1)..Len(sig') : sig'[i].kind \in {"quit", "finished"} => after # <<>>
<1> DEFINE a == Announce(s)
           t == <<TerminalSig(cur)>>
           x == sig \o a
           y == x \o t
<1>1. a \in Seq(Signal) /\ \A i \in 1..Len(a) : a[i].kind = "state"
  <2>1. s \in OwnerStates \cup {NoState}
    BY DEF Appends
  <2>2. a \in Seq(Signal)
    BY <2>1, AnnounceTypes
  <2>3. \A i \in 1..Len(a) : a[i].kind = "state"
    BY DEF Announce, StateSig
  <2>4. QED BY <2>2, <2>3
<1>2. t \in Seq(Signal) /\ Len(t) = 1 /\ t[1] = TerminalSig(cur)
  BY SignalTypes
<1>3. after \in Seq(Signal)
  <2>1. <<QuitSig>> \in Seq(Signal) /\ <<>> \in Seq(Signal)
    BY OwnerNames
  <2>2. QED BY <2>1 DEF Appends
<1>4. sig' = y \o after
  BY DEF Appends
<1> HIDE DEF a, t
<1>5. /\ x \in Seq(Signal) /\ Len(sig) \in Nat /\ Len(a) \in Nat /\ Len(x) = Len(sig) + Len(a)
      /\ \A i \in 1..Len(sig) : x[i] = sig[i]
      /\ \A i \in (Len(sig) + 1)..Len(x) : i - Len(sig) \in 1..Len(a) /\ x[i] = a[i - Len(sig)]
  BY <1>1, LongerBy
<1> HIDE DEF x
<1>6. /\ y \in Seq(Signal) /\ Len(x) \in Nat /\ Len(y) = Len(x) + 1
      /\ \A i \in 1..Len(x) : y[i] = x[i]
      /\ \A i \in (Len(x) + 1)..Len(y) : i - Len(x) \in 1..Len(t) /\ y[i] = t[i - Len(x)]
  <2>1. /\ y \in Seq(Signal) /\ Len(x) \in Nat /\ Len(y) = Len(x) + Len(t)
        /\ \A i \in 1..Len(x) : y[i] = x[i]
        /\ \A i \in (Len(x) + 1)..Len(y) : i - Len(x) \in 1..Len(t) /\ y[i] = t[i - Len(x)]
    BY <1>2, <1>5, LongerBy
  <2>2. Len(y) = Len(x) + 1
    BY <1>2, <2>1
  <2>3. QED BY <2>1, <2>2
<1> HIDE DEF y
<1>7. /\ Len(y) \in Nat /\ Len(after) \in Nat /\ Len(sig') = Len(y) + Len(after)
      /\ \A i \in 1..Len(y) : sig'[i] = y[i]
      /\ \A i \in (Len(y) + 1)..Len(sig') : i - Len(y) \in 1..Len(after) /\ sig'[i] = after[i - Len(y)]
  BY <1>3, <1>4, <1>6, LongerBy
<1>8. Lengthens
  BY <1>5, <1>6, <1>7 DEF Lengthens
<1>9. sig'[Len(x) + 1] = TerminalSig(cur) /\ Len(x) + 1 \in (Len(sig) + 1)..Len(sig')
  <2>1. Len(x) + 1 \in (Len(x) + 1)..Len(y) /\ Len(x) + 1 \in 1..Len(y) /\ Len(x) + 1 - Len(x) = 1
    BY <1>5, <1>6
  <2>2. y[Len(x) + 1] = TerminalSig(cur)
    BY <1>2, <1>6, <2>1
  <2>3. QED BY <1>5, <1>6, <1>7, <2>1, <2>2
<1>10. ASSUME NEW i \in (Len(sig) + 1)..Len(sig'), sig'[i].kind \in {"quit", "finished"}
       PROVE  after # <<>>
  <2>1. CASE i <= Len(x)
    <3>1. i \in (Len(sig) + 1)..Len(x) /\ i \in 1..Len(x) /\ i \in 1..Len(y)
      BY <1>5, <1>6, <2>1
    <3>2. sig'[i] = a[i - Len(sig)] /\ i - Len(sig) \in 1..Len(a)
      BY <1>5, <1>6, <1>7, <3>1
    <3>3. sig'[i].kind = "state"
      BY <1>1, <3>2
    <3>4. QED BY <1>10, <3>3
  <2>2. CASE i = Len(x) + 1
    BY <1>9, <1>10, <2>2 DEF TerminalSig
  <2>3. CASE i > Len(x) + 1
    <3>1. i \in (Len(y) + 1)..Len(sig')
      BY <1>5, <1>6, <1>7, <2>3
    <3>2. i - Len(y) \in 1..Len(after)
      BY <1>7, <3>1
    <3>3. QED BY <3>2
  <2>4. i \in Int /\ Len(x) \in Nat
    BY <1>5, <1>6, <1>7
  <2>5. i <= Len(x) \/ i = Len(x) + 1 \/ i > Len(x) + 1
    BY <2>4
  <2>6. QED BY <2>1, <2>2, <2>3, <2>5
<1>11. QED BY <1>8, <1>9, <1>10

(* Three ways to end. *)
FailsSo == /\ \E s : Appends(s, <<>>)
           /\ req'[cur].state = "FAILED"
SucceedsSo(v) == /\ \E s : Appends(s, <<>>)
                 /\ req'[cur].val = v /\ UNCHANGED <<session, adapter>>
ClosesSo == /\ Cmd = "SHUTDOWN" /\ \E s : Appends(s, <<QuitSig>>)
            /\ UNCHANGED session /\ ~adapter'

LEMMA FailWithAppends ==
  ASSUME TypeOK, cur \in Req, NEW s \in OwnerStates \cup {NoState}, FailWith(s)
  PROVE  FailsSo
<1>1. sig \o Announce(s) \o <<TerminalSig(cur)>> \o <<>> = sig \o Announce(s) \o <<TerminalSig(cur)>>
  <2>1. sig \o Announce(s) \o <<TerminalSig(cur)>> \in Seq(Signal)
    BY OwnerNames, FinishTypes DEF TypeOK, SignalsOK
  <2>2. QED BY <2>1, ConcatEmptySeq
<1>2. Appends(s, <<>>)
  BY <1>1 DEF FailWith, Appends
<1>3. req' = [req EXCEPT ![cur] = Errored(cur)] /\ req \in [Req -> Request]
  BY DEF FailWith, TypeOK, RequestsOK
<1>4. req'[cur] = Errored(cur)
  BY <1>3
<1>5. req'[cur].state = "FAILED"
  BY <1>4, DoneFacts
<1>6. QED BY <1>2, <1>5 DEF FailsSo

LEMMA SucceedAppends ==
  ASSUME TypeOK, cur \in Req, NEW s \in OwnerStates \cup {NoState}, NEW v,
         NEW after \in {<<>>, <<QuitSig>>}, Succeed(s, v, after)
  PROVE  Appends(s, after) /\ req'[cur].val = v
<1>1. Appends(s, after)
  BY DEF Succeed, Appends
<1>2. req' = [req EXCEPT ![cur] = Done(cur, v)] /\ req \in [Req -> Request]
  BY DEF Succeed, TypeOK, RequestsOK
<1>3. req'[cur] = Done(cur, v) /\ req[cur] \in Request
  BY <1>2
<1>4. Done(cur, v).val = v
  BY <1>3 DEF Done, Request
<1>5. QED BY <1>1, <1>3, <1>4

(* Every way a command ends that is neither a connect, a disconnect nor the  *)
(* commit of a detach leaves the connection alone.                           *)
Ends == \/ FailsSo /\ UNCHANGED <<session, adapter>>
        \/ \E v : SucceedsSo(v) /\ (Cmd = "DISPLAY" => v = session /\ adapter)
        \/ ClosesSo
        \/ ConnectDone /\ \E s : Appends(s, <<>>)
        \/ DisconnectDone /\ (\E s : Appends(s, <<>>)) /\ UNCHANGED session

LEMMA FinishingEnds ==
  ASSUME Custodial, Housed, Finishing, ~DetachCommits PROVE Ends
<1>0. /\ TypeOK /\ cur \in Req /\ NoState \in OwnerStates \cup {NoState}
      /\ \A s : Resume(s) \in OwnerStates \cup {NoState}
      /\ ErrorState(Cmd) \in OwnerStates \cup {NoState}
  <2>1. cur \in Req
    BY FinishingReleases
  <2>2. ErrorState(Cmd) \in OwnerStates \cup {NoState}
    BY DEF ErrorState, OwnerStates
  <2>3. QED BY <2>1, <2>2, OwnerNames DEF Custodial
<1>1. CASE \/ RejectStale \/ CommandRefused \/ SdkFails \/ DetachAborts \/ PrepareFails
  <2>1. UNCHANGED <<session, adapter>>
    BY <1>1 DEF RejectStale, CommandRefused, SdkFails, DetachAborts, PrepareFails, hwVars
  <2>2. \E s \in OwnerStates \cup {NoState} : FailWith(s)
    <3>1. "ACTIVE" \in OwnerStates /\ "RECOVERY_REQUIRED" \in OwnerStates
      BY DEF OwnerStates
    <3>2. CASE RejectStale
      BY <1>0, <3>2 DEF RejectStale
    <3>3. CASE CommandRefused \/ SdkFails
      BY <1>0, <3>3 DEF CommandRefused, SdkFails, Fail
    <3>4. CASE DetachAborts
      BY <3>1, <3>4 DEF DetachAborts
    <3>5. CASE PrepareFails
      BY <1>0, <3>1, <3>5 DEF PrepareFails
    <3>6. QED BY <1>1, <3>2, <3>3, <3>4, <3>5
  <2>3. QED BY <1>0, <2>1, <2>2, FailWithAppends DEF Ends
<1>2. ASSUME NEW s \in OwnerStates \cup {NoState}, Succeed(s, 0, <<>>), Cmd # "DISPLAY",
             UNCHANGED <<session, adapter>>
      PROVE  Ends
  <2>1. Appends(s, <<>>) /\ req'[cur].val = 0
    BY <1>0, <1>2, SucceedAppends
  <2>2. QED BY <1>2, <2>1 DEF Ends, SucceedsSo
<1>3. /\ "TERMINATED" \in OwnerStates \cup {NoState} /\ "DISCONNECTED" \in OwnerStates \cup {NoState}
      /\ "IDLE" \in OwnerStates \cup {NoState} /\ "ARMED" \in OwnerStates \cup {NoState}
      /\ "ACTIVE" \in OwnerStates \cup {NoState} /\ "RECOVERY_REQUIRED" \in OwnerStates \cup {NoState}
  BY DEF OwnerStates
<1>4. CASE ClosedAlready
  <2>1. UNCHANGED <<session, adapter>>
    BY <1>4 DEF ClosedAlready, hwVars
  <2>2. CASE Cmd = "SHUTDOWN"
    <3>1. Appends("TERMINATED", <<QuitSig>>)
      BY <1>0, <1>3, <1>4, <2>2, SucceedAppends DEF ClosedAlready
    <3>2. QED BY <1>4, <2>1, <2>2, <3>1 DEF Ends, ClosesSo, ClosedAlready
  <2>3. CASE Cmd # "SHUTDOWN"
    BY <1>2, <1>3, <1>4, <2>1, <2>3 DEF ClosedAlready
  <2>4. QED BY <2>2, <2>3
<1>5. CASE ConnectDone
  <2>1. Appends("IDLE", <<>>)
    BY <1>0, <1>3, <1>5, SucceedAppends DEF ConnectDone
  <2>2. QED BY <1>5, <2>1 DEF Ends
<1>6. CASE ReadDone
  <2>1. Succeed(NoState, session, <<>>) /\ UNCHANGED <<session, adapter>> /\ opc = "sdk" /\ Cmd # "CONNECT"
    BY <1>6 DEF ReadDone, Reads, hwVars
  <2>2. Appends(NoState, <<>>) /\ req'[cur].val = session
    BY <1>0, <2>1, SucceedAppends
  <2>3. adapter
    BY <2>1 DEF Custodial, Executing, TypeOK, OwnerOK
  <2>4. SucceedsSo(session)
    BY <2>1, <2>2 DEF SucceedsSo
  <2>5. QED BY <2>3, <2>4 DEF Ends
<1>7. CASE SetpointDone
  BY <1>2, <1>3, <1>7 DEF SetpointDone, InSdk, hwVars
<1>8. CASE StartDone
  <2>1. UNCHANGED <<session, adapter>> /\ Cmd # "DISPLAY"
    BY <1>8 DEF StartDone, InSdk
  <2>2. CASE Succeed("ACTIVE", 0, <<>>)
    BY <1>2, <1>3, <2>1, <2>2
  <2>3. CASE Fail
    <3>1. FailsSo
      BY <1>0, <2>3, FailWithAppends DEF Fail
    <3>2. QED BY <2>1, <3>1 DEF Ends
  <2>4. QED BY <1>8, <2>2, <2>3 DEF StartDone
<1>9. CASE StopDone
  <2>1. Succeed("IDLE", req[cur].val, <<>>) /\ UNCHANGED <<session, adapter>> /\ Cmd # "DISPLAY"
    BY <1>9 DEF StopDone, InSdk
  <2>2. Appends("IDLE", <<>>) /\ req'[cur].val = req[cur].val
    BY <1>0, <1>3, <2>1, SucceedAppends
  <2>3. QED BY <2>1, <2>2 DEF Ends, SucceedsSo
<1>10. CASE DisconnectDone
  <2>1. Appends("DISCONNECTED", <<>>)
    BY <1>0, <1>3, <1>10, SucceedAppends DEF DisconnectDone
  <2>2. QED BY <1>10, <2>1 DEF Ends, DisconnectDone, hwVars
<1>11. CASE ShutdownDone
  <2>1. Appends("TERMINATED", <<QuitSig>>)
    BY <1>0, <1>3, <1>11, SucceedAppends DEF ShutdownDone
  <2>2. QED BY <1>11, <2>1 DEF Ends, ClosesSo, ShutdownDone, InSdk, hwVars
<1>12. CASE PrepareDone
  <2>1. /\ Cmd = "PREPARE" /\ UNCHANGED <<session, adapter>>
    BY <1>12 DEF PrepareDone, Custodial, Executing, hwVars
  <2>2. \E s \in OwnerStates \cup {NoState} : Succeed(s, 0, <<>>)
    BY <1>0, <1>3, <1>12 DEF PrepareDone
  <2>3. QED BY <1>2, <2>1, <2>2
<1>13. QED BY <1>1, <1>4, <1>5, <1>6, <1>7, <1>8, <1>9, <1>10, <1>11, <1>12 DEF Finishing

LEMMA ServesEndings ==
  ASSUME Custodial, TypeOK', Housed, DetachFirst, Serves, Finishing, ~DetachCommits
  PROVE  Serves'
<1>0. TypeOK /\ Known /\ Ends /\ Finishes
  BY FinishingEnds, FinishingFinishes DEF Custodial
<1>1. UNCHANGED <<thread, slot, cache>>
  BY DEF Finishing, RejectStale, CommandRefused, ClosedAlready, ConnectDone, ReadDone,
     SetpointDone, StartDone, StopDone, DisconnectDone, SdkFails, ShutdownDone, DetachAborts,
     PrepareFails, PrepareDone, dispVars
<1>2. /\ UNCHANGED <<count, ordinary, deferred, shutH>> /\ cur \in Req /\ cur' = NoReq
      /\ \A r \in Req : r # cur => req'[r] = req[r]
      /\ req'[cur].cmd = req[cur].cmd
      /\ \A r \in Req : Announced(r)' <=> Announced(r) \/ r = cur
      /\ cur # NoReq
  <2>1. cur \in Req /\ \A r \in Req : r # NoReq
    BY FinishingReleases, LocatedKnown DEF Custodial
  <2>2. QED BY <1>0, <2>1 DEF Finishes, mailVars
<1>3. /\ \A r \in Req : req'[r].cmd = req[r].cmd
      /\ slot # NoReq => slot \in Req
      /\ ordinary \subseteq Req /\ sig \in Seq(Signal) /\ sig' \in Seq(Signal)
  BY <1>0, <1>2 DEF TypeOK, DisplayOK, ReqOrNone, MailOK, SignalsOK
<1>5. (Shut => Shut') /\ Closing'
  BY <1>2 DEF Shut, Closing
<1>6. SlotKept'
  BY <1>1, <1>2, <1>3 DEF Serves, SlotKept
<1>7. EndsKept
  BY <1>0, <1>3, CommandsKeepEnds
<1>8. PICK s, after : Appends(s, after) /\ (after # <<>> => ClosesSo)
  BY <1>0 DEF Ends, FailsSo, SucceedsSo, ClosesSo
<1>9. /\ Lengthens
      /\ \E i \in (Len(sig) + 1)..Len(sig') : sig'[i] = TerminalSig(cur)
      /\ \A i \in (Len(sig) + 1)..Len(sig') : sig'[i].kind \in {"quit", "finished"} => after # <<>>
  BY <1>2, <1>3, <1>8, EndAppended
<1>10. Cmd = "SHUTDOWN" => Shut'
  BY <1>2 DEF Shut, Serves, Closing
<1>11. \A i \in (Len(sig) + 1)..Len(sig') : ThreadEnd(i)' => Shut'
  BY <1>8, <1>9, <1>10 DEF ThreadEnd, ClosesSo
<1>12. ASSUME NEW v, Current(v) PROVE Current(v)' \/ NewEnd
  <2>1. CASE UNCHANGED <<session, adapter>>
    BY <1>12, <2>1 DEF Current
  <2>2. CASE ConnectDone
    BY <1>12, <2>2 DEF ConnectDone, InSdk, Custodial, Executing, Current
  <2>3. CASE ClosesSo \/ DisconnectDone
    <3>1. Cmd \in Closers
      BY <2>3 DEF ClosesSo, DisconnectDone, InSdk, Closers
    <3>2. req'[cur].cmd \in Closers
      BY <1>2, <3>1 DEF Cmd
    <3>3. PICK i \in (Len(sig) + 1)..Len(sig') : sig'[i] = TerminalSig(cur)
      BY <1>9
    <3>4. sig'[i].kind = "terminal" /\ sig'[i].req = cur
      BY <3>3 DEF TerminalSig
    <3>5. ClosingEnd(i)'
      BY <3>2, <3>4 DEF ClosingEnd
    <3>6. QED BY <3>5 DEF NewEnd
  <2>5. QED BY <1>0, <2>1, <2>2, <2>3 DEF Ends, SucceedsSo
<1>13. ASSUME NEW v, Answered', v = req'[slot'].val
       PROVE  (Answered /\ v = req[slot].val) \/ Current(v)'
  <2>1. slot # NoReq /\ slot' = slot /\ slot \in Req /\ req'[slot].state = "SUCCEEDED"
    BY <1>1, <1>3, <1>13 DEF Answered
  <2>2. CASE slot # cur
    BY <1>2, <1>13, <2>1, <2>2 DEF Answered
  <2>3. CASE slot = cur
    <3>1. Cmd = "DISPLAY"
      BY <2>1, <2>3 DEF Serves, SlotKept, Cmd
    <3>2. PICK w : SucceedsSo(w) /\ w = session /\ adapter
      BY <1>0, <2>1, <2>3, <3>1 DEF Ends, FailsSo, ClosesSo, ConnectDone, DisconnectDone, InSdk
    <3>3. QED BY <1>13, <2>1, <2>3, <3>2 DEF SucceedsSo, Current
  <2>4. QED BY <2>2, <2>3
<1>14. DetachApart'
  <2> SUFFICES ASSUME DetachWaits', adapter'
               PROVE  thread # "quitting" /\ \A i \in 1..Len(sig') : ~ThreadEnd(i)'
    BY <1>1 DEF DetachApart
  <2> PICK d \in Req : req[d].cmd = "DETACH" /\ d \in ordinary
    <3>1. PICK d \in Req : req'[d].cmd = "DETACH" /\ (d \in ordinary' \/ d = cur')
      BY DEF DetachWaits
    <3>2. d # NoReq
      BY LocatedKnown DEF Custodial
    <3>3. QED BY <1>2, <1>3, <3>1, <3>2
  <2>1. UNCHANGED adapter /\ after = <<>>
    <3>1. ~ConnectDone
      BY <1>2 DEF DetachFirst, ConnectDone, InSdk
    <3>2. ~ClosesSo /\ ~DisconnectDone
      BY DEF ClosesSo, DisconnectDone
    <3>3. UNCHANGED adapter
      BY <1>0, <3>1, <3>2 DEF Ends, SucceedsSo
    <3>4. QED BY <1>8, <3>2, <3>3
  <2>2. thread # "quitting" /\ \A i \in 1..Len(sig) : ~ThreadEnd(i)
    BY <2>1 DEF Serves, DetachApart, DetachWaits
  <2>3. /\ Len(sig) \in Nat /\ Len(sig') \in Nat /\ \A i \in 1..Len(sig) : sig'[i] = sig[i]
    BY <1>3, <1>9, LenProperties DEF Lengthens
  <2>4. \A i \in (Len(sig) + 1)..Len(sig') : ~ThreadEnd(i)'
    BY <1>9, <2>1 DEF ThreadEnd
  <2>5. QED BY <2>2, <2>3, <2>4 DEF ThreadEnd
<1>15. QED BY <1>0, <1>1, <1>2, <1>5, <1>6, <1>7, <1>9, <1>11, <1>12, <1>13, <1>14, ServesOn

(* A detach that commits leaves the end of its thread to clear the display.  *)
LEMMA ServesHandOver ==
  ASSUME Custodial, TypeOK', Housed, Serves, DetachCommits PROVE Serves'
<1>0. TypeOK /\ Known /\ Commits
  BY DetachCommitsCommits DEF Custodial
<1>1. /\ UNCHANGED <<thread, slot, cache, session, shutH, count, ordinary>>
      /\ sig' = sig \o <<StateSig("DETACHED"), QuitSig>>
      /\ deferred' = cur /\ cur' = NoReq /\ cur \in Req /\ cur # NoReq
      /\ Cmd = "DETACH" /\ req[cur].cmd = "DETACH"
      /\ \A r \in Req : r # cur => req'[r] = req[r]
      /\ req'[cur].cmd = req[cur].cmd
      /\ \A r \in Req : Announced(r)' <=> Announced(r)
  <2>1. UNCHANGED <<thread, slot, cache, session>> /\ sig' = sig \o <<StateSig("DETACHED"), QuitSig>>
    BY DEF DetachCommits, dispVars
  <2>2. cur \in Req /\ \A r \in Req : r # NoReq
    BY <1>0, BusyOwner, LocatedKnown DEF Commits
  <2>3. QED BY <1>0, <2>1, <2>2 DEF Commits, mailVars, Cmd
<1>2. /\ \A r \in Req : req'[r].cmd = req[r].cmd
      /\ slot # NoReq => slot \in Req
      /\ deferred # NoReq => deferred \in Req
      /\ ordinary \subseteq Req /\ sig \in Seq(Signal) /\ sig' \in Seq(Signal)
  BY <1>0, <1>1 DEF TypeOK, DisplayOK, ReqOrNone, MailOK, SignalsOK, OwnerOK
<1>4. (Shut => Shut') /\ Closing'
  BY <1>1 DEF Shut, Closing
<1>5. slot # NoReq => slot # cur
  BY <1>1 DEF Serves, SlotKept
<1>6. SlotKept'
  BY <1>1, <1>2, <1>5 DEF Serves, SlotKept
<1>7. deferred = NoReq
  <2>1. SUFFICES ASSUME deferred # NoReq PROVE FALSE
    OBVIOUS
  <2>2. deferred \in Req /\ deferred # cur /\ Detaching(deferred) /\ Detaching(cur)
    BY <1>1, <1>2, <2>1 DEF Housed, Apart, SetAside, Detaching, Located
  <2>3. QED BY <1>1, <2>2 DEF Housed, OneDetach
<1>8. EndsKept
  BY <1>0, <1>2, CommandsKeepEnds
<1> DEFINE t == <<StateSig("DETACHED"), QuitSig>>
<1>9. t \in Seq(Signal) /\ Len(t) = 2 /\ t[1].kind = "state"
  <2>1. StateSig("DETACHED") \in Signal /\ QuitSig \in Signal
    BY SignalTypes DEF OwnerStates
  <2>2. QED BY <2>1 DEF StateSig
<1>10. sig' = sig \o t
  BY <1>1
<1> HIDE DEF t
<1>11. /\ Lengthens /\ Len(sig) \in Nat /\ Len(sig') = Len(sig) + 2
       /\ \A i \in (Len(sig) + 1)..Len(sig') :
              i - Len(sig) \in 1..Len(t) /\ sig'[i] = t[i - Len(sig)]
  <2>1. /\ Lengthens /\ Len(sig) \in Nat /\ Len(sig') = Len(sig) + Len(t)
        /\ \A i \in (Len(sig) + 1)..Len(sig') :
              i - Len(sig) \in 1..Len(t) /\ sig'[i] = t[i - Len(sig)]
    BY <1>2, <1>9, <1>10, SigAppended
  <2>2. QED BY <1>9, <2>1
<1>12. \A i \in 1..Len(sig) : i \in 1..Len(sig') /\ sig'[i] = sig[i]
  BY <1>11 DEF Lengthens
<1>13. thread # "quitting" /\ \A i \in 1..Len(sig) : ~ThreadEnd(i)
  <2>1. adapter
    BY <1>1 DEF Custodial, Executing, TypeOK, OwnerOK, DetachCommits
  <2>2. QED BY <1>1, <2>1 DEF Serves, DetachApart, DetachWaits
<1>14. EndsOnce'
  <2>1. SUFFICES ASSUME ~Shut' PROVE EndsOnce'
    BY DEF EndsOnce
  <2>2. thread' # "quitting" /\ deferred' # NoReq
    BY <1>1, <1>13
  <2>3. ASSUME NEW i \in 1..Len(sig'), ThreadEnd(i)' PROVE i = Len(sig) + 2
    <3>1. i \notin 1..Len(sig)
      BY <1>12, <1>13, <2>3 DEF ThreadEnd
    <3>2. i # Len(sig) + 1
      <4>1. SUFFICES ASSUME i = Len(sig) + 1 PROVE FALSE
        OBVIOUS
      <4>2. i \in (Len(sig) + 1)..Len(sig') /\ i - Len(sig) = 1
        BY <1>11, <4>1
      <4>3. sig'[i] = t[1]
        BY <1>11, <4>2
      <4>4. QED BY <1>9, <2>3, <4>3 DEF ThreadEnd
    <3>3. QED BY <1>11, <3>1, <3>2
  <2>4. QED BY <2>2, <2>3 DEF EndsOnce
<1>15. CacheServed'
  BY <1>1 DEF CacheServed, CacheEnding
<1>16. SlotServed'
  <2>1. SUFFICES ASSUME Answered' PROVE SlotServed'
    BY DEF SlotServed
  <2>2. Answered /\ slot' = slot /\ req'[slot'].val = req[slot].val
    BY <1>1, <1>2, <1>5, <2>1 DEF Answered
  <2>3. PICK v : v = req[slot].val
    OBVIOUS
  <2>4. CASE \E j \in 1..Len(sig) : SlotEndsAt(j)
    <3>1. \A j \in 1..Len(sig) : SlotEndsAt(j) => j \in 1..Len(sig') /\ SlotEndsAt(j)'
      BY <1>2, <1>7, <1>8, <1>11, <2>2, EndingGrows
    <3>2. QED BY <2>4, <3>1 DEF SlotServed
  <2>5. CASE Current(v)
    <3>1. PICK j \in 1..Len(sig) : sig[j] = TerminalSig(slot)
      BY <2>2 DEF Serves, SlotKept, Answered, Announced
    <3>2. j \in 1..Len(sig') /\ sig'[j] = TerminalSig(slot')
      BY <1>12, <2>2, <3>1
    <3>3. \A i \in 1..j : sig'[i].kind # "finished"
      <4>1. \A i \in 1..j : i \in 1..Len(sig)
        BY <1>11
      <4>2. QED BY <1>12, <1>13, <4>1 DEF ThreadEnd
    <3>4. SlotEndsAt(j)'
      BY <1>1, <3>2, <3>3 DEF SlotEndsAt, TerminalSig
    <3>5. QED BY <3>2, <3>4 DEF SlotServed
  <2>6. QED BY <2>2, <2>3, <2>4, <2>5 DEF Serves, SlotServed
<1>17. DetachApart'
  BY DEF DetachCommits, DetachApart
<1>18. QED BY <1>4, <1>6, <1>14, <1>15, <1>16, <1>17 DEF Serves

(* The GUI thread applies a signal: the queue loses its head. *)
LEMMA ServesMain ==
  ASSUME Custodial, TypeOK', Housed, Serves, Main PROVE Serves'
<1>0. /\ TypeOK /\ Known /\ sig \in Seq(Signal) /\ slot \in ReqOrNone
      /\ (\A r \in Req : r # NoReq) /\ deferred \in ReqOrNone
  BY LocatedKnown DEF Custodial, TypeOK, SignalsOK, DisplayOK
<1>1. /\ sig # <<>> /\ sig' = Tail(sig) /\ UNCHANGED <<session, adapter, shutH>>
      /\ (deferred' # deferred => deferred' = NoReq /\ ThreadFinished)
      /\ (thread' # thread => Head(sig).kind = "quit")
  BY DEF Main, CacheState, RequestTerminal, ThreadQuit, ThreadFinished, NextSig, ownVars,
     ctlVars, hwVars
<1>2. /\ UNCHANGED <<count, ordinary, cur>> /\ \A r \in Req : req'[r].cmd = req[r].cmd
  BY MainSettles DEF Settles, mailVars
<1>3. ordinary \subseteq Req /\ cur \in ReqOrNone
  BY <1>0 DEF TypeOK, MailOK, BusyOK
<1>4. cur # NoReq => Cmd' = Cmd
  BY <1>2, <1>3 DEF Cmd, ReqOrNone
<1>5. (Shut => Shut') /\ Closing'
  BY <1>1, <1>2, <1>4 DEF Shut, Closing, Serves
<1>6. EndsKept
  BY <1>0, <1>2, CommandsKeepEnds
<1>7. /\ Len(sig) \in Nat /\ Len(sig') \in Nat /\ Len(sig') = Len(sig) - 1
      /\ Head(sig) = sig[1] /\ 1 \in 1..Len(sig)
      /\ \A i \in 1..Len(sig') : sig'[i] = sig[i + 1] /\ i + 1 \in 1..Len(sig)
      /\ ~ClosingEnd(1) /\ (\E i \in 1..Len(sig) : ClosingEnd(i))
              => \E i \in 1..Len(sig') : ClosingEnd(i)'
      /\ \A j \in 2..Len(sig) :
              /\ SlotEndsAt(j) /\ slot' = slot
              /\ (deferred # NoReq => deferred' # NoReq \/ sig[1].kind = "finished")
              => j - 1 \in 1..Len(sig') /\ SlotEndsAt(j - 1)'
  BY <1>0, <1>1, <1>6, EndingShrinks
<1>8. deferred # NoReq => deferred' # NoReq \/ sig[1].kind = "finished"
  BY <1>1, <1>7 DEF ThreadFinished, NextSig
<1>9. \A v : Current(v) => Current(v)'
  BY <1>1 DEF Current
<1>17. DetachApart'
  <2> SUFFICES ASSUME DetachWaits', adapter'
               PROVE  thread' # "quitting" /\ \A i \in 1..Len(sig') : ~ThreadEnd(i)'
    BY DEF DetachApart
  <2>1. DetachWaits /\ adapter
    BY <1>1, <1>2 DEF DetachWaits
  <2>2. thread # "quitting" /\ \A i \in 1..Len(sig) : ~ThreadEnd(i)
    BY <2>1 DEF Serves, DetachApart
  <2>3. thread' # "quitting"
    BY <1>1, <1>7, <2>2 DEF ThreadEnd
  <2>4. QED BY <1>7, <2>2, <2>3 DEF ThreadEnd
<1>10. EndsOnce'
  <2>1. SUFFICES ASSUME ~Shut' PROVE EndsOnce'
    BY DEF EndsOnce
  <2>2. /\ \A i, j \in 1..Len(sig) : ThreadEnd(i) /\ ThreadEnd(j) => i = j
        /\ thread = "quitting" => \A i \in 1..Len(sig) : ~ThreadEnd(i)
        /\ deferred = NoReq => thread # "quitting" /\ \A i \in 1..Len(sig) : ~ThreadEnd(i)
    BY <1>5, <2>1 DEF Serves, EndsOnce
  <2>3. \A i \in 1..Len(sig') : ThreadEnd(i)' => i + 1 \in 1..Len(sig) /\ ThreadEnd(i + 1)
    BY <1>7 DEF ThreadEnd
  <2>4. \A i, j \in 1..Len(sig') : ThreadEnd(i)' /\ ThreadEnd(j)' => i = j
    <3> SUFFICES ASSUME NEW i \in 1..Len(sig'), NEW j \in 1..Len(sig'), ThreadEnd(i)', ThreadEnd(j)'
                 PROVE  i = j
      OBVIOUS
    <3>1. i + 1 = j + 1
      BY <2>2, <2>3
    <3>2. QED BY <1>7, <3>1
  <2>5. CASE ThreadEnd(1)
    <3>1. \A i \in 1..Len(sig') : ~ThreadEnd(i)'
      <4> SUFFICES ASSUME NEW i \in 1..Len(sig'), ThreadEnd(i)' PROVE FALSE
        OBVIOUS
      <4>1. i + 1 = 1
        BY <1>7, <2>2, <2>3, <2>5
      <4>2. QED BY <1>7, <4>1
    <3>2. thread # "quitting" /\ deferred # NoReq
      BY <1>7, <2>2, <2>5
    <3>3. deferred' = NoReq => thread' # "quitting"
      <4>1. SUFFICES ASSUME deferred' = NoReq PROVE thread' # "quitting"
        OBVIOUS
      <4>2. Head(sig).kind = "finished"
        BY <1>1, <3>2, <4>1 DEF ThreadFinished, NextSig
      <4>3. QED BY <1>1, <3>2, <4>2
    <3>4. QED BY <2>4, <3>1, <3>3 DEF EndsOnce
  <2>6. CASE ~ThreadEnd(1)
    <3>1. thread' = thread /\ deferred' = deferred
      BY <1>1, <1>7, <2>6 DEF ThreadEnd, ThreadFinished, NextSig
    <3>2. QED BY <2>2, <2>3, <2>4, <3>1 DEF EndsOnce
  <2>7. QED BY <2>5, <2>6
<1>11. ASSUME slot' = slot, slot # NoReq => req'[slot] = req[slot] /\ sig[1] # TerminalSig(slot)
       PROVE  SlotServed' /\ SlotKept'
  <2>1. SlotKept'
    <3>1. slot # NoReq => slot \in Req
      BY <1>0 DEF ReqOrNone
    <3>2. slot # NoReq /\ Announced(slot) => Announced(slot)'
      BY <1>0, <1>1, <1>7, <1>11, <3>1, HeadAnnounced
    <3>3. QED BY <1>2, <1>11, <3>2 DEF Serves, SlotKept, Announced, TerminalSig
  <2>2. SUFFICES ASSUME Answered' PROVE SlotServed'
    BY <2>1 DEF SlotServed
  <2>3. Answered /\ req'[slot'].val = req[slot].val
    BY <1>11, <2>2 DEF Answered
  <2>4. PICK v : v = req[slot].val
    OBVIOUS
  <2>5. CASE Current(v)
    <3>1. Current(v)'
      BY <1>9, <2>5
    <3>2. QED BY <2>3, <2>4, <3>1 DEF SlotServed, Current
  <2>6. ASSUME NEW j \in 1..Len(sig), SlotEndsAt(j) PROVE SlotServed'
    <3>1. j # 1
      BY <1>11, <2>3, <2>6 DEF SlotEndsAt, Answered
    <3>2. j \in 2..Len(sig)
      BY <1>7, <3>1
    <3>3. j - 1 \in 1..Len(sig') /\ SlotEndsAt(j - 1)'
      BY <1>7, <1>8, <1>11, <2>6, <3>2
    <3>4. QED BY <3>3 DEF SlotServed
  <2>7. QED BY <2>3, <2>4, <2>5, <2>6 DEF Serves, SlotServed
(* The cache is kept: what will clear it is still to come. *)
<1>12. ASSUME ~ClosingEnd(1), deferred' = deferred, cache' = cache PROVE CacheServed'
  <2> SUFFICES ASSUME cache # NoCache PROVE Current(cache.val)' \/ CacheEnding'
    BY <1>12 DEF CacheServed
  <2>1. PICK v : v = cache.val
    OBVIOUS
  <2>2. Current(v) \/ CacheEnding
    BY <2>1 DEF Serves, CacheServed
  <2>3. CacheEnding => CacheEnding'
    BY <1>7, <1>12 DEF CacheEnding
  <2>4. Current(v)' \/ CacheEnding'
    BY <1>9, <2>2, <2>3
  <2>5. QED BY <1>12, <2>1, <2>4 DEF Current
<1>13. CASE CacheState \/ ThreadQuit \/ (ThreadFinished /\ deferred = NoReq)
  <2>1. UNCHANGED <<req, slot, cache, deferred>> /\ Head(sig).kind # "terminal"
    BY <1>13 DEF CacheState, ThreadQuit, ThreadFinished, NextSig, ownVars, dispVars
  <2>2. ~ClosingEnd(1) /\ sig[1] # TerminalSig(slot)
    BY <1>7, <2>1 DEF ClosingEnd, TerminalSig
  <2>3. QED BY <1>5, <1>10, <1>11, <1>12, <1>17, <2>1, <2>2 DEF Serves
<1>14. CASE ThreadFinished /\ deferred # NoReq
  <2>1. /\ Head(sig).kind = "finished" /\ Terminal(deferred, [req[deferred] EXCEPT !.drained = TRUE])
        /\ deferred \in Req /\ req[deferred] \in Request /\ req[deferred].cmd = "DETACH"
    BY <1>0, <1>14 DEF ThreadFinished, NextSig, Housed, SetAside, ReqOrNone, TypeOK, RequestsOK
  <2>2. [req[deferred] EXCEPT !.drained = TRUE].cmd = "DETACH"
        /\ [req[deferred] EXCEPT !.drained = TRUE] \in Request
    BY <2>1 DEF Request
  <2>3. cache' = NoCache
    BY <2>1, <2>2 DEF Terminal, LifecycleOps
  <2>4. slot # deferred
    BY <1>0, <1>14, <2>1 DEF Serves, SlotKept
  <2>5. slot' = slot /\ (slot # NoReq => req'[slot] = req[slot])
    <3>1. slot' = slot
      BY <2>1, <2>4 DEF Terminal
    <3>2. \A r \in Req : r # deferred => req'[r] = req[r]
      BY <1>0, <2>1, <2>2, TerminalSettled
    <3>3. QED BY <1>0, <2>4, <3>1, <3>2 DEF ReqOrNone
  <2>6. sig[1] # TerminalSig(slot)
    BY <1>7, <2>1 DEF TerminalSig
  <2>7. CacheServed'
    BY <2>3 DEF CacheServed
  <2>8. QED BY <1>5, <1>10, <1>11, <1>17, <2>5, <2>6, <2>7 DEF Serves
<1>15. CASE RequestTerminal
  <2> DEFINE d == Head(sig).req
  <2>1. Head(sig).kind = "terminal" /\ Terminal(d, req[d]) /\ deferred' = deferred
    BY <1>15 DEF RequestTerminal, NextSig, ownVars
  <2>2. Head(sig) \in Signal
    BY <1>0, <1>1, HeadAnnounced
  <2>3. d \in Req /\ sig[1] = TerminalSig(d) /\ req[d] \in Request
    BY <1>0, <1>7, <2>1, <2>2 DEF Signal, TerminalSig, TypeOK, RequestsOK
  <2> HIDE DEF d
  <2>4. \A r \in Req : r # d => req'[r] = req[r]
    BY <1>0, <2>1, <2>3, TerminalSettled
  <2>5. ClosingEnd(1) <=> req[d].cmd \in Closers
    BY <2>3 DEF ClosingEnd, TerminalSig
  <2>6. slot # d => SlotServed' /\ SlotKept'
    <3>1. SUFFICES ASSUME slot # d PROVE SlotServed' /\ SlotKept'
      OBVIOUS
    <3>2. slot' = slot
      BY <2>1, <3>1 DEF Terminal
    <3>3. slot # NoReq => req'[slot] = req[slot] /\ sig[1] # TerminalSig(slot)
      BY <1>0, <2>3, <2>4, <3>1, TerminalsDiffer DEF ReqOrNone
    <3>4. QED BY <1>11, <3>2, <3>3
  <2>7. slot = d => SlotServed' /\ SlotKept'
    BY <2>1 DEF Terminal, SlotServed, SlotKept, Answered
  <2>8. CacheServed'
    <3>1. CASE req[d].cmd \in LifecycleOps
      BY <2>1, <3>1 DEF Terminal, CacheServed
    <3>2. CASE req[d].cmd \notin LifecycleOps /\ cache' = cache
      <4>1. ~ClosingEnd(1)
        BY <2>5, <3>2 DEF LifecycleOps, Closers
      <4>2. QED BY <1>12, <2>1, <3>2, <4>1
    <3>3. CASE req[d].cmd \notin LifecycleOps /\ slot = d /\ req[d].state = "SUCCEEDED"
               /\ cache'.val = req[d].val
      <4>1. ~ClosingEnd(1)
        BY <2>5, <3>3 DEF LifecycleOps, Closers
      <4>2. Answered
        BY <1>0, <2>3, <3>3 DEF Answered
      <4>3. PICK v : v = req[d].val
        OBVIOUS
      <4>4. Current(v) \/ \E j \in 1..Len(sig) : SlotEndsAt(j)
        BY <3>3, <4>2, <4>3 DEF Serves, SlotServed
      <4>5. CASE Current(v)
        <5>1. Current(v)'
          BY <1>9, <4>5
        <5>2. QED BY <3>3, <4>3, <5>1 DEF CacheServed, Current
      <4>6. ASSUME NEW j \in 1..Len(sig), SlotEndsAt(j) PROVE CacheServed'
        <5>1. \A i \in j..Len(sig) : i \in 1..Len(sig)
          BY <1>7
        <5>2. deferred # NoReq \/ \E i \in 1..Len(sig) : ClosingEnd(i)
          BY <4>6, <5>1 DEF SlotEndsAt
        <5>3. CacheEnding'
          BY <1>7, <2>1, <4>1, <5>2 DEF CacheEnding
        <5>4. QED BY <5>3 DEF CacheServed
      <4>7. QED BY <4>4, <4>5, <4>6
    <3>4. QED BY <2>1, <3>1, <3>2, <3>3 DEF Terminal
  <2>9. QED BY <1>5, <1>10, <1>17, <2>6, <2>7, <2>8 DEF Serves
<1>16. QED BY <1>13, <1>14, <1>15 DEF Main

LEMMA ServesThreadFinish ==
  ASSUME Custodial, TypeOK', Serves, ThreadFinish PROVE Serves'
<1>1. /\ UNCHANGED <<req, count, ordinary, cur, session, adapter, shutH, deferred, slot, cache>>
      /\ thread = "quitting" /\ thread' = "stopped" /\ sig' = Append(sig, FinishedSig)
      /\ sig \in Seq(Signal) /\ sig' \in Seq(Signal)
  BY DEF ThreadFinish, mailVars, ownVars, ctlVars, dispVars, hwVars, Custodial, TypeOK, SignalsOK
<1>2. /\ FinishedSig \in Signal /\ Len(sig) \in Nat /\ Len(sig') = Len(sig) + 1
      /\ \A i \in 1..Len(sig) : sig'[i] = sig[i]
  BY <1>1, SignalTypes, AppendProperties, LenProperties
<1>3. Lengthens /\ EndsKept
  BY <1>1, <1>2 DEF Lengthens, EndsKept, ClosingEnd
<1>4. /\ CacheEnding => CacheEnding'
      /\ \A j \in 1..Len(sig) : SlotEndsAt(j) => j \in 1..Len(sig') /\ SlotEndsAt(j)'
  BY <1>1, <1>3, EndingGrows
<1>5. (Shut' <=> Shut) /\ Closing'
  BY <1>1 DEF Shut, Closing, Cmd, Serves
<1>6. EndsOnce'
  <2>1. SUFFICES ASSUME ~Shut PROVE EndsOnce'
    BY <1>5 DEF EndsOnce
  <2>2. deferred # NoReq /\ \A i \in 1..Len(sig) : ~ThreadEnd(i)
    BY <1>1, <2>1 DEF Serves, EndsOnce
  <2>3. \A i \in 1..Len(sig') : ThreadEnd(i)' => i = Len(sig) + 1
    BY <1>2, <2>2 DEF ThreadEnd
  <2>4. QED BY <1>1, <2>2, <2>3 DEF EndsOnce
<1>7. \A v : Current(v) => Current(v)'
  BY <1>1 DEF Current
<1>8. SlotKept'
  <2>1. Announced(slot) => Announced(slot)'
    BY <1>1, <1>2 DEF Announced, TerminalSig
  <2>2. QED BY <1>1, <2>1 DEF Serves, SlotKept
<1>9. CacheServed'
  BY <1>1, <1>4, <1>7 DEF Serves, CacheServed
<1>10. SlotServed'
  BY <1>1, <1>4, <1>7 DEF Serves, SlotServed, Answered
<1>11. DetachApart'
  BY <1>1 DEF Serves, DetachApart, DetachWaits
<1>12. QED BY <1>5, <1>6, <1>8, <1>9, <1>10, <1>11 DEF Serves

LEMMA ServesNext ==
  Custodial /\ Housed /\ DetachFirst /\ Serves /\ [Next]_vars => Serves'
<1> SUFFICES ASSUME Custodial, Housed, DetachFirst, Serves, [Next]_vars PROVE Serves'
  OBVIOUS
<1>1. TypeOK /\ Known /\ TypeOK'
  BY NextTypes DEF Custodial
<1>2. CASE Client \/ \E t \in Req : Timer(t)
  BY <1>1, <1>2, ClientMails, TimerMails, ClientServes, TimerServes, ServesCalls
<1>3. CASE Owner
  <2>1. Pop \/ Work \/ Finishing
    BY <1>3 DEF Owner, Work, Finishing
  <2>2. QED BY <1>1, <2>1, ServesPop, ServesWork, ServesEndings, ServesHandOver
<1>4. CASE Main
  BY <1>1, <1>4, ServesMain
<1>5. CASE ThreadFinish
  BY <1>1, <1>5, ServesThreadFinish
<1>6. CASE MagnetSettles \/ MagnetReverts \/ UNCHANGED vars
  <2>1. UNCHANGED <<req, count, ordinary, cur, session, adapter, shutH, deferred, slot, cache,
                    sig, thread>>
    BY <1>6 DEF MagnetSettles, MagnetReverts, vars, mailVars, ownVars, ctlVars, dispVars, hwVars
  <2>2. QED BY <2>1 DEF Serves, Closing, Cmd, EndsOnce, Shut, ThreadEnd, DetachApart, DetachWaits,
     SlotKept, Announced, CacheServed, Current, CacheEnding, ClosingEnd, SlotServed, Answered, SlotEndsAt
<1>7. QED BY <1>2, <1>3, <1>4, <1>5, <1>6 DEF Next

LEMMA ServesInit == Init => Serves
<1> SUFFICES ASSUME Init PROVE Serves
  OBVIOUS
<1>1. /\ ordinary = {} /\ cur = NoReq /\ slot = NoReq /\ cache = NoCache /\ sig = <<>>
      /\ thread = "running"
  BY DEF Init
<1>2. \A i \in 1..Len(sig) : FALSE
  BY <1>1
<1>3. QED BY <1>1, <1>2 DEF Serves, Closing, EndsOnce, DetachApart, SlotKept, CacheServed,
   SlotServed, Answered

LEMMA ServesAlways == Spec => [](Custodial /\ Housed /\ Serves)
<1>1. Custodial /\ Housed /\ DetachFirst /\ Serves /\ [Next]_vars => Serves'
  BY ServesNext
<1>2. Stopping => DetachFirst
  BY DEF Stopping
<1>3. QED BY <1>1, <1>2, ServesInit, StoppingAlways, PTL DEF Spec

(* Once the GUI thread has applied the ends of all disconnects, shutdowns and *)
(* detaches, an answer it serves from the display cache was measured on the present    *)
(* connection (_display_async, _request_terminal, _owner_thread_finished).   *)
THEOREM DisplayAlwaysFreshOnceApplied == Spec => []DisplayFreshOnceApplied
<1>1. ASSUME Serves PROVE DisplayFreshOnceApplied
  <2>1. EndsApplied => ~CacheEnding
    BY DEF EndsApplied, CacheEnding, ClosingEnd, Closers
  <2>2. CacheServed
    BY <1>1 DEF Serves
  <2>3. QED BY <2>1, <2>2 DEF CacheServed, Current, DisplayFreshOnceApplied, DisplayFresh
<1>2. QED BY <1>1, ServesAlways, PTL
=============================================================================
