----------------------- MODULE ProcessWatchdogProofs -----------------------
(***************************************************************************)
(* Proofs about the process watchdog, for every limit of lateness of three *)
(* periods or more and every horizon of the clock.                         *)
(*                                                                         *)
(* The inductive invariant has one part per actor and one per question: in *)
(* which order the main thread and the writer hold the lock, what the child*)
(* knows of a crash, how the failures of an incident are counted, and how  *)
(* far behind a healthy application the file can be.                       *)
(***************************************************************************)
EXTENDS ProcessWatchdog, TLAPS

\* Main thread and writer: who is inside the lock, and that a closed session
\* has no writer inside it.
Threads ==
    /\ now > 0
    /\ app = "start" => /\ writer = "none" /\ hb = 0 /\ queue = 0
                        /\ child = "none" /\ ~closed /\ ~stopped
    /\ app = "dead" => writer = "none"
    /\ app = "mark" => lock = "app" /\ closed
    /\ writer = "write" => lock = "writer" /\ ~closed
    /\ hb # 0 <=> writer \in {"hold", "write"}
    /\ stopped => closed /\ app \in {"terminate", "unlink", "exit", "dead"}
    /\ app \in {"terminate", "unlink", "exit"} => stopped
    /\ closed => app \notin {"start", "run", "full"}
    /\ ~url => writer = "none" /\ child = "none"

\* The child has asked before it speaks of a crash, and has read the file of a
\* process that cannot change it any more.
Crash ==
    /\ child = "reread" => app = "dead"
    /\ CrashIsReal

\* Each attempt at an incident but the one under way has failed.
Tally ==
    /\ child = "send" => ~alerted /\ incident \in Titles /\ attempts > 0
    /\ ~alerted /\ incident \in Titles =>
          failed[incident] >= attempts
                                - (IF child \in {"send", "ended"} THEN 1 ELSE 0)

\* Before a subscription only the queue ages.
Unwatched ==
    healthy /\ ~url /\ app \in {"run", "full"} =>
        /\ beaten \in {now - 1, now}
        /\ app = "run" => queue \in {0, beaten}

\* How old the running file of a watched healthy application can be, by where
\* the heartbeats after it are.
Age ==
    /\ queue = now - 1 /\ queue # 0 => hb = 0 /\ file.hb >= now
    /\ hb = now => file.hb >= now - 2
    /\ hb # 0 /\ hb < now => /\ file.hb >= now - 3
                             /\ \/ file.hb >= now - 2
                                \/ beaten < now \/ queue = now
    /\ hb = 0 /\ (~stopped \/ writer = "get") =>
          file.hb >= IF queue = 0 THEN beaten - 1 ELSE now - 2
    /\ hb = 0 /\ stopped => /\ file.hb >= now - 3
                            /\ \/ file.hb >= now - 2
                               \/ beaten < now \/ queue # 0

Watched == healthy /\ app # "dead" /\ child \notin {"none", "ended"}

Fresh ==
    Watched =>
        /\ app # "start" /\ child \in {"rest", "ask"}
        /\ beaten \in {now - 1, now}
        /\ queue \in {0, now - 1, now} /\ (queue = now => beaten = now)
        /\ hb \in {0, now - 1, now} /\ (hb = now => beaten = now)
        /\ app = "full" => queue # now
        /\ child = "ask" => seen >= now - 3
        /\ ~closed => file.state = "running"
        /\ file.state = "running" => Age

Watching == TypeOK /\ Threads /\ Crash /\ Tally /\ Unwatched /\ Fresh

---------------------------------------------------------------------------
\* The files the application writes are files.
Files == [state : {"none", "running", "normal_exit"}, hb : Nat]

LEMMA FileTypes ==
    /\ NoFile \in Files
    /\ \A h \in Nat : /\ RunningFile(h) \in Files
                      /\ [state |-> "normal_exit", hb |-> h] \in Files
BY DEF NoFile, RunningFile, Files

\* Every variable keeps its type through every step.
LEMMA TypeStep ==
    TypeOK /\ [Next]_vars => TypeOK'
<1> SUFFICES ASSUME TypeOK, [Next]_vars PROVE TypeOK'
    OBVIOUS
<1> USE DEF TypeOK, session, thread, monitor
<1> USE FileTypes DEF Files
<1>1. ASSUME NEW w \in BOOLEAN, NEW s \in BOOLEAN, Start(w, s) PROVE TypeOK'
    BY <1>1 DEF Start, Launch
<1>2. ASSUME NEW w \in BOOLEAN, NEW s \in BOOLEAN, Enable(w, s) PROVE TypeOK'
    BY <1>2 DEF Enable, Launch
<1>3. CASE Beat \/ Replace
    BY <1>3 DEF Beat, Replace
<1>4. ASSUME NEW b \in BOOLEAN, Close(b) PROVE TypeOK'
    <2>1. CASE b
        BY <1>4, <2>1 DEF Close
    <2>2. CASE ~b
        BY <1>4, <2>2 DEF Close
    <2> QED
        BY <2>1, <2>2
<1>16. ASSUME NEW b \in BOOLEAN, Mark(b) PROVE TypeOK'
    BY <1>16 DEF Mark
<1>5. ASSUME NEW b \in BOOLEAN, Terminate(b) \/ Unlink(b) PROVE TypeOK'
    BY <1>5 DEF Terminate, Unlink
<1>6. CASE Die
    BY <1>6 DEF Die
<1>17. CASE Reuse
    BY <1>17 DEF Reuse
<1>7. CASE Loop \/ Get \/ Hold
    BY <1>7 DEF Loop, Get, Hold
<1>8. ASSUME NEW w \in BOOLEAN, Write(w) PROVE TypeOK'
    BY <1>8 DEF Write
<1>9. CASE Look
    BY <1>9 DEF Look
<1>10. ASSUME NEW t \in Titles, Decide(t)
       PROVE  /\ child' \in {"rest", "send"} /\ incident' \in Titles \cup {"none"}
              /\ attempts' \in 0 .. Tries /\ alerted' \in BOOLEAN
    <2>1. CASE alerted
        BY <1>10, <2>1 DEF Decide, Titles
    <2>2. CASE ~alerted /\ incident = t /\ attempts >= Tries
        BY <1>10, <2>2 DEF Decide, Tries
    <2>4. CASE ~alerted /\ incident = t /\ ~(attempts >= Tries)
        BY <1>10, <2>4 DEF Decide, Tries
    <2>3. CASE ~alerted /\ incident # t
        BY <1>10, <2>3 DEF Decide, Tries
    <2> QED
        BY <2>1, <2>2, <2>3, <2>4
<1>11. CASE Ask
    BY <1>11, <1>10 DEF Ask, Titles
<1>12. CASE Reread
    BY <1>12, <1>10 DEF Reread, Titles
<1>13. ASSUME NEW d \in BOOLEAN, Send(d) PROVE TypeOK'
    <2>1. \A n \in 0 .. Tries : (IF d \/ n = Tries THEN n ELSE n + 1) \in 0 .. Tries
        BY DEF Tries
    <2>2. failed' \in [Titles -> 0 .. Tries]
        <3>1. CASE incident \in Titles
            BY <1>13, <2>1, <3>1 DEF Send
        <3>2. CASE incident \notin Titles
            BY <1>13, <3>2 DEF Send
        <3> QED
            BY <3>1, <3>2
    <2> QED
        BY <1>13, <2>2 DEF Send
<1>14. CASE Tick
    BY <1>14 DEF Tick
<1>15. CASE UNCHANGED vars
    BY <1>15 DEF vars
<1> QED
    BY <1>1, <1>2, <1>3, <1>4, <1>5, <1>6, <1>7, <1>8, <1>9, <1>11, <1>12, <1>13,
       <1>14, <1>15, <1>16, <1>17 DEF Next, Main, Writer, Child

\* Main thread, writer and lock keep their order through every step.
LEMMA ThreadsStep ==
    TypeOK /\ Threads /\ [Next]_vars => Threads'
<1> SUFFICES ASSUME TypeOK, Threads, [Next]_vars PROVE Threads'
    OBVIOUS
<1> USE DEF TypeOK, Threads, session, thread, monitor
<1>1. ASSUME NEW w \in BOOLEAN, NEW s \in BOOLEAN, Start(w, s) \/ Enable(w, s)
      PROVE  Threads'
    BY <1>1 DEF Start, Enable, Launch
<1>2. CASE Beat \/ Replace
    BY <1>2 DEF Beat, Replace
<1>3. ASSUME NEW b \in BOOLEAN, Close(b) PROVE Threads'
    BY <1>3 DEF Close
<1>11. ASSUME NEW b \in BOOLEAN, Mark(b) \/ Terminate(b) \/ Unlink(b) PROVE Threads'
    BY <1>11 DEF Mark, Terminate, Unlink
<1>4. CASE Die \/ Reuse
    BY <1>4 DEF Die, Reuse
<1>5. CASE Loop \/ Get \/ Hold
    BY <1>5 DEF Loop, Get, Hold
<1>6. ASSUME NEW w \in BOOLEAN, Write(w) PROVE Threads'
    BY <1>6 DEF Write
<1>7. CASE Look \/ Ask \/ Reread
    BY <1>7 DEF Look, Ask, Reread, Decide
<1>8. ASSUME NEW d \in BOOLEAN, Send(d) PROVE Threads'
    BY <1>8 DEF Send
<1>9. CASE Tick
    BY <1>9 DEF Tick
<1>10. CASE UNCHANGED vars
    BY <1>10 DEF vars
<1> QED
    BY <1>1, <1>2, <1>3, <1>4, <1>5, <1>6, <1>7, <1>8, <1>9, <1>10, <1>11
       DEF Next, Main, Writer, Child

\* A crash the child speaks of stays one.
LEMMA CrashStep ==
    TypeOK /\ Threads /\ Crash /\ [Next]_vars => Crash'
<1> SUFFICES ASSUME TypeOK, Threads, Crash, [Next]_vars PROVE Crash'
    OBVIOUS
<1> USE DEF TypeOK, Threads, Crash, CrashIsReal, session, thread, monitor, Titles
<1>1. ASSUME NEW w \in BOOLEAN, NEW s \in BOOLEAN, Start(w, s) \/ Enable(w, s)
      PROVE  Crash'
    BY <1>1 DEF Start, Enable, Launch
<1>2. CASE Beat \/ Replace \/ Die \/ Reuse
    BY <1>2 DEF Beat, Replace, Die, Reuse
<1>3. ASSUME NEW b \in BOOLEAN,
             Close(b) \/ Mark(b) \/ Terminate(b) \/ Unlink(b)
      PROVE  Crash'
    BY <1>3 DEF Close, Mark, Terminate, Unlink
<1>4. CASE Loop \/ Get \/ Hold
    BY <1>4 DEF Loop, Get, Hold
<1>5. ASSUME NEW w \in BOOLEAN, Write(w) PROVE Crash'
    BY <1>5 DEF Write
<1>6. CASE Look \/ Ask \/ Reread
    BY <1>6 DEF Look, Ask, Reread, Decide, Alive
<1>7. ASSUME NEW d \in BOOLEAN, Send(d) PROVE Crash'
    BY <1>7 DEF Send
<1>8. CASE Tick
    BY <1>8 DEF Tick
<1>9. CASE UNCHANGED vars
    BY <1>9 DEF vars
<1> QED
    BY <1>1, <1>2, <1>3, <1>4, <1>5, <1>6, <1>7, <1>8, <1>9
       DEF Next, Main, Writer, Child

\* A decision on an incident keeps the count of its failures, and gives up
\* only when the count is full.
LEMMA TallyDecide ==
    ASSUME TypeOK, Tally, NEW t \in Titles, child \in {"ask", "reread"},
           Decide(t), failed' = failed
    PROVE  Tally' /\ (~alerted /\ alerted' => failed[incident'] = Tries)
BY DEF TypeOK, Tally, Decide, Titles, Tries

\* The count of failures is kept by every step.
LEMMA TallyStep ==
    TypeOK /\ Threads /\ Tally /\ [Next]_vars => Tally'
<1> SUFFICES ASSUME TypeOK, Threads, Tally, [Next]_vars PROVE Tally'
    OBVIOUS
<1> USE DEF session, thread, monitor
<1>1. ASSUME NEW w \in BOOLEAN, NEW s \in BOOLEAN, Start(w, s) \/ Enable(w, s)
      PROVE  Tally'
    BY <1>1 DEF Start, Enable, Launch, TypeOK, Threads, Tally, Titles
<1>2. CASE Beat \/ Replace \/ Die \/ Reuse
    BY <1>2 DEF Beat, Replace, Die, Reuse, Tally
<1>3. ASSUME NEW b \in BOOLEAN,
             Close(b) \/ Mark(b) \/ Terminate(b) \/ Unlink(b)
      PROVE  Tally'
    BY <1>3 DEF Close, Mark, Terminate, Unlink, TypeOK, Tally, Titles
<1>4. CASE Loop \/ Get \/ Hold
    BY <1>4 DEF Loop, Get, Hold, Tally
<1>5. ASSUME NEW w \in BOOLEAN, Write(w) PROVE Tally'
    BY <1>5 DEF Write, Tally
<1>6. CASE Look
    BY <1>6 DEF Look, TypeOK, Tally
<1>7. CASE Ask
    <2>1. CASE \E t \in Titles : Decide(t)
        BY <1>7, <2>1, TallyDecide DEF Ask
    <2>2. CASE child' \in {"rest", "reread"} /\ UNCHANGED <<incident, attempts, alerted>>
        BY <1>7, <2>2 DEF Ask, TypeOK, Tally
    <2> QED
        BY <1>7, <2>1, <2>2 DEF Ask, Titles
<1>8. CASE Reread
    <2>1. CASE \E t \in Titles : Decide(t)
        BY <1>8, <2>1, TallyDecide DEF Reread
    <2>2. CASE child' = "rest" /\ UNCHANGED <<incident, attempts, alerted>>
        BY <1>8, <2>2 DEF Reread, TypeOK, Tally
    <2> QED
        BY <1>8, <2>1, <2>2 DEF Reread, Titles
<1>9. ASSUME NEW d \in BOOLEAN, Send(d) PROVE Tally'
    BY <1>9 DEF Send, TypeOK, Tally, Titles, Tries
<1>10. CASE Tick
    BY <1>10 DEF Tick, Tally
<1>11. CASE UNCHANGED vars
    BY <1>11 DEF vars, Tally
<1> QED
    BY <1>1, <1>2, <1>3, <1>4, <1>5, <1>6, <1>7, <1>8, <1>9, <1>10, <1>11
       DEF Next, Main, Writer, Child

\* Before the subscription a healthy application beats in every period.
LEMMA UnwatchedStep ==
    TypeOK /\ Threads /\ Unwatched /\ [Next]_vars => Unwatched'
<1> SUFFICES ASSUME TypeOK, Threads, Unwatched, [Next]_vars PROVE Unwatched'
    OBVIOUS
<1> USE DEF TypeOK, Threads, Unwatched, session, thread, monitor
<1>1. ASSUME NEW w \in BOOLEAN, NEW s \in BOOLEAN, Start(w, s) \/ Enable(w, s)
      PROVE  Unwatched'
    BY <1>1 DEF Start, Enable
<1>2. CASE Beat \/ Replace
    BY <1>2 DEF Beat, Replace
<1>3. ASSUME NEW b \in BOOLEAN,
             Close(b) \/ Mark(b) \/ Terminate(b) \/ Unlink(b)
      PROVE  Unwatched'
    BY <1>3 DEF Close, Mark, Terminate, Unlink
<1>4. CASE Die \/ Reuse \/ Writer
    BY <1>4 DEF Die, Reuse, Writer, Loop, Get, Hold, Write
<1>5. CASE Child
    BY <1>5 DEF Child, Look, Ask, Reread, Send
<1>6. CASE Tick
    BY <1>6 DEF Tick, KeptUp
<1>7. CASE UNCHANGED vars
    BY <1>7 DEF vars
<1> QED
    BY <1>1, <1>2, <1>3, <1>4, <1>5, <1>6, <1>7 DEF Next, Main

\* No step lets the file of a healthy application fall further behind; the
\* child therefore never finds it late.
LEMMA FreshStep ==
    TypeOK /\ Threads /\ Unwatched /\ Fresh /\ [Next]_vars => Fresh'
<1> SUFFICES ASSUME TypeOK, Threads, Unwatched, Fresh, [Next]_vars, Watched'
             PROVE  Fresh'
    BY DEF Fresh
<1> USE DEF TypeOK, Threads, Watched, session, thread, monitor
<1>1. ASSUME NEW w \in BOOLEAN, NEW s \in BOOLEAN, Start(w, s) PROVE Fresh'
    BY <1>1 DEF Start, Launch, RunningFile, Fresh, Age
<1>2. ASSUME NEW w \in BOOLEAN, NEW s \in BOOLEAN, Enable(w, s) PROVE Fresh'
    BY <1>2 DEF Enable, Launch, RunningFile, Unwatched, Fresh, Age
<1>3. CASE Beat
    BY <1>3 DEF Beat, Fresh, Age
<1>4. CASE Replace
    BY <1>4 DEF Replace, Fresh, Age
<1>5. ASSUME NEW b \in BOOLEAN, Close(b) PROVE Fresh'
    BY <1>5 DEF Close, Fresh, Age
<1>6. ASSUME NEW b \in BOOLEAN, Mark(b) PROVE Fresh'
    BY <1>6 DEF Mark, Fresh, Age
<1>7. ASSUME NEW b \in BOOLEAN, Terminate(b) PROVE Fresh'
    BY <1>7 DEF Terminate, Fresh, Age
<1>18. ASSUME NEW b \in BOOLEAN, Unlink(b) PROVE Fresh'
    <2>1. file' = file \/ file'.state # "running"
        BY <1>18 DEF Unlink, NoFile
    <2> QED
        BY <1>18, <2>1 DEF Unlink, Fresh, Age
<1>8. CASE Die \/ Reuse
    BY <1>8 DEF Die, Reuse, Fresh, Age
<1>9. CASE Loop
    BY <1>9 DEF Loop, Fresh, Age
<1>10. CASE Get
    BY <1>10 DEF Get, Fresh, Age
<1>11. CASE Hold
    <2>1. CASE closed
        BY <1>11, <2>1 DEF Hold, Fresh, Age
    <2>2. CASE ~closed
        BY <1>11, <2>2 DEF Hold, Fresh, Age
    <2> QED
        BY <2>1, <2>2
<1>12. ASSUME NEW w \in BOOLEAN, Write(w) PROVE Fresh'
    <2>1. Watched /\ hb # 0 /\ ~stopped
        BY <1>12 DEF Write
    <2>2. file' = RunningFile(hb) /\ file'.state = "running" /\ file'.hb = hb
        BY <1>12, <2>1 DEF Write, RunningFile
    <2> QED
        BY <1>12, <2>1, <2>2 DEF Write, Fresh, Age
<1>13. CASE Look
    BY <1>13 DEF Look, Fresh, Age
<1>14. CASE Ask
    <2>1. Alive /\ ~Late
        BY <1>14, StaleIsLong DEF Ask, Alive, Late, Fresh
    <2> QED
        BY <1>14, <2>1 DEF Ask, Fresh, Age
<1>15. CASE Reread \/ \E d \in BOOLEAN : Send(d)
    BY <1>15 DEF Reread, Send, Fresh
<1>16. CASE Tick
    BY <1>16 DEF Tick, KeptUp, Fresh, Age
<1>17. CASE UNCHANGED vars
    BY <1>17 DEF vars, Fresh, Age
<1> QED
    BY <1>1, <1>2, <1>3, <1>4, <1>5, <1>6, <1>7, <1>8, <1>9, <1>10, <1>11, <1>12,
       <1>13, <1>14, <1>15, <1>16, <1>17, <1>18 DEF Next, Main, Writer, Child

---------------------------------------------------------------------------
\* The invariant holds in every reachable state.
LEMMA AlwaysWatching == Spec => []Watching
<1>1. Init => Watching
    <2> USE DEF Init
    <2>1. Init => TypeOK
        <3>1. Init => file \in Files
            BY FileTypes
        <3>2. Init => failed \in [Titles -> 0 .. Tries]
            BY DEF Tries
        <3>3. Init => /\ url \in BOOLEAN /\ healthy \in BOOLEAN /\ reused \in BOOLEAN
                      /\ closed \in BOOLEAN /\ stopped \in BOOLEAN
                      /\ alerted \in BOOLEAN
            BY Zenon
        <3>4. Init => /\ now \in Nat /\ beaten \in Nat /\ queue \in Nat /\ hb \in Nat
                      /\ seen \in Nat /\ attempts \in 0 .. Tries
            BY DEF Tries
        <3> QED
            BY <3>1, <3>2, <3>3, <3>4, Zenon DEF TypeOK, Files
    <2>2. Init => Threads /\ Crash
        BY DEF Threads, Crash, CrashIsReal, NoFile
    <2>3. Init => Tally /\ Unwatched /\ Fresh
        BY DEF Tally, Unwatched, Fresh, Watched, Titles
    <2> QED
        BY <2>1, <2>2, <2>3 DEF Watching
<1>2. Watching /\ [Next]_vars => Watching'
    BY TypeStep, ThreadsStep, CrashStep, TallyStep, UnwatchedStep, FreshStep
       DEF Watching
<1> QED
    BY <1>1, <1>2, PTL DEF Spec

\* Every variable has its type, whatever the processes do: in particular the
\* attempts at an incident never pass their limit.
THEOREM TypeCorrect == Spec => []TypeOK
<1>1. Watching => TypeOK
    BY DEF Watching
<1> QED
    BY <1>1, AlwaysWatching, PTL

\* A crash is only ever reported of a process that is gone and left the file
\* saying that it ran, however its exit races with the child's two readings.
THEOREM CrashesAreReal == Spec => []CrashIsReal
<1>1. Watching => CrashIsReal
    BY DEF Watching, Crash
<1> QED
    BY <1>1, AlwaysWatching, PTL

\* A healthy application is never called unresponsive, not even when it was
\* watched late and lost a beat, as long as three periods are not late.
THEOREM HealthyNeverBlamed == Spec => []HealthyIsQuiet
<1>1. Watching => HealthyIsQuiet
    BY DEF Watching, Fresh, Watched, HealthyIsQuiet
<1> QED
    BY <1>1, AlwaysWatching, PTL

\* Once close() has had the lock the writer thread never reaches the file.
THEOREM NeverRevived == Spec => NoBeatAfterClose
<1> DEFINE Kept == closed /\ file' # file => file'.state # "running"
<1>1. Watching /\ [Next]_vars => [Kept]_vars
    <2> SUFFICES ASSUME Watching, Next, closed, file' # file
                 PROVE  file'.state # "running"
        OBVIOUS
    <2> USE DEF Watching, TypeOK, Threads, session, thread, monitor
    <2>1. ASSUME NEW b \in BOOLEAN, Mark(b) \/ Unlink(b)
          PROVE  file'.state # "running"
        <3>1. CASE Mark(b)
            BY <3>1 DEF Mark
        <3>2. CASE Unlink(b)
            BY <3>2 DEF Unlink, NoFile
        <3> QED
            BY <2>1, <3>1, <3>2
    <2>2. ~Writer
        BY DEF Writer, Loop, Get, Hold, Write
    <2>3. ~Child /\ ~Reuse /\ ~Tick
        BY DEF Child, Look, Ask, Reread, Send, Reuse, Tick
    <2>4. \A w, s \in BOOLEAN : ~Start(w, s) /\ ~Enable(w, s)
        BY DEF Start, Enable
    <2>5. \A b \in BOOLEAN : ~Close(b) /\ ~Terminate(b)
        BY DEF Close, Terminate
    <2>6. ~Beat /\ ~Replace /\ ~Die
        BY DEF Beat, Replace, Die
    <2> QED
        BY <2>1, <2>2, <2>3, <2>4, <2>5, <2>6 DEF Next, Main
<1> QED
    BY <1>1, AlwaysWatching, PTL DEF Spec, NoBeatAfterClose

\* The child falls silent about an incident only after it has failed three
\* times to report that very incident.
THEOREM NeverGivesUpEarly == Spec => GivesUpAfterThree
<1> DEFINE Fair == ~alerted /\ alerted' /\ child # "send" => failed[incident'] = Tries
<1>1. Watching /\ [Next]_vars => [Fair]_vars
    <2> SUFFICES ASSUME Watching, Next, ~alerted, alerted', child # "send"
                 PROVE  failed[incident'] = Tries
        OBVIOUS
    <2> USE DEF session, thread, monitor
    <2>1. ASSUME NEW t \in Titles, child \in {"ask", "reread"}, Decide(t),
                 failed' = failed
          PROVE  failed[incident'] = Tries
        BY <2>1, TallyDecide DEF Watching
    <2>2. CASE Child
        BY <2>1, <2>2 DEF Child, Look, Ask, Reread, Send, Titles
    <2>3. ~Main
        BY DEF Main, Start, Enable, Launch, Beat, Replace, Close, Mark, Terminate,
               Unlink, Die
    <2>4. ~Writer /\ ~Reuse /\ ~Tick
        BY DEF Writer, Loop, Get, Hold, Write, Reuse, Tick
    <2> QED
        BY <2>2, <2>3, <2>4 DEF Next
<1> QED
    BY <1>1, AlwaysWatching, PTL DEF Spec, GivesUpAfterThree

=============================================================================
