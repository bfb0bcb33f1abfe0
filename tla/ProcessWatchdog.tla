-------------------------- MODULE ProcessWatchdog --------------------------
(***************************************************************************)
(* app/process_watchdog.py and its use in main.py: the application keeps a *)
(* status file fresh through a writer thread and marks a normal exit in it;*)
(* a child process reads the file, asks the system whether the application *)
(* is alive, and notifies the user.  Three actors share the file: the      *)
(* application's main thread, its writer thread, and the child.            *)
(*                                                                         *)
(* The file's name, token and pid belong to one session, so the checks of  *)
(* token and pid always pass here.  A write may fail (on Windows it does   *)
(* while the child has the file open); a delete may fail; the child may    *)
(* outlive its terminate().                                                *)
(***************************************************************************)
EXTENDS Integers, FiniteSets

CONSTANTS
    Stale,      \* the age of a heartbeat beyond which it is late (30 s)
    Horizon     \* bound: the latest instant of the clock

\* A beat every five seconds (main.py) against thirty without one.
ASSUME StaleIsLong == Stale \in Nat /\ Stale >= 3
ASSUME HorizonNatural == Horizon \in Nat

Titles == {"CRASH", "UNRESPONSIVE"}
Tries == 3                                   \* step(): attempts >= 3

VARIABLES
    now,        \* time.time()
    healthy,    \* whether main loop, writer and child keep up with the clock
    app,        \* where the main thread is, or "dead"
    url,        \* whether there is a url to notify
    reused,     \* whether the system has given the dead process's pid away
    beaten,     \* the instant of the last beat()
    queue,      \* _beats: the heartbeat in it, or 0
    closed,     \* _closed
    stopped,    \* _stop
    lock,       \* who holds _write_lock
    writer,     \* where the writer thread is
    hb,         \* the heartbeat the writer carries, or 0
    file,       \* the status file
    child,      \* where the child process is
    seen,       \* the heartbeat the child has read
    incident, attempts, alerted,             \* WatchdogMonitor
    failed      \* per title: attempts that failed

session == <<app, url, beaten, queue, closed, stopped>>
thread == <<lock, writer, hb>>
monitor == <<child, seen, incident, attempts, alerted, failed>>
vars == <<now, healthy, reused, session, thread, file, monitor>>

NoFile == [state |-> "none", hb |-> 0]
RunningFile(h) == [state |-> "running", hb |-> h]

Init ==
    /\ now = 1 /\ healthy \in BOOLEAN /\ reused = FALSE
    /\ app = "start" /\ url \in BOOLEAN /\ beaten = 0 /\ queue = 0
    /\ closed = FALSE /\ stopped = FALSE
    /\ lock = "free" /\ writer = "none" /\ hb = 0
    /\ file = NoFile
    /\ child = "none" /\ seen = 0
    /\ incident = "none" /\ attempts = 0 /\ alerted = FALSE
    /\ failed = [t \in Titles |-> 0]

---------------------------------------------------------------------------
(* The main thread.                                                        *)

\* start(): a write that fails leaves the session without writer and child.
Launch(written, spawned) ==
    IF written
    THEN /\ file' = RunningFile(now) /\ writer' = "loop"
         /\ child' = IF spawned THEN "rest" ELSE "none"
    ELSE UNCHANGED <<file, writer, child>>

Start(written, spawned) ==
    /\ app = "start"
    /\ app' = "run" /\ beaten' = now
    /\ IF url THEN Launch(written, spawned) ELSE UNCHANGED <<file, writer, child>>
    /\ UNCHANGED <<now, healthy, reused, url, queue, closed, stopped, lock, hb,
                   seen, incident, attempts, alerted, failed>>

\* enable(), when the user has subscribed; the beats of the time before have
\* left one in the queue.
Enable(written, spawned) ==
    /\ app = "run" /\ ~url
    /\ url' = TRUE
    /\ Launch(written, spawned)
    /\ UNCHANGED <<now, healthy, reused, app, beaten, queue, closed, stopped, lock,
                   hb, seen, incident, attempts, alerted, failed>>

\* beat(): put_nowait, and when the queue is full get_nowait and put_nowait,
\* with the writer free to empty the queue in between.
Beat ==
    /\ app = "run" /\ beaten < now
    /\ beaten' = now
    /\ IF queue = 0 THEN queue' = now /\ UNCHANGED app
       ELSE app' = "full" /\ UNCHANGED queue
    /\ UNCHANGED <<now, healthy, reused, url, closed, stopped, thread, file, monitor>>

Replace ==
    /\ app = "full"
    /\ app' = "run"
    /\ queue' = IF queue = 0 THEN 0 ELSE beaten
    /\ UNCHANGED <<now, healthy, reused, url, beaten, closed, stopped, thread, file,
                   monitor>>

\* close(), from app.exec()'s return or from an exception.
Close(normal) ==
    /\ app = "run" /\ lock = "free"
    /\ closed' = TRUE
    /\ IF normal THEN app' = "mark" /\ lock' = "app" /\ UNCHANGED stopped
       ELSE app' = "exit" /\ stopped' = TRUE /\ UNCHANGED lock
    /\ UNCHANGED <<now, healthy, reused, url, beaten, queue, writer, hb, file, monitor>>

Mark(written) ==
    /\ app = "mark"
    /\ written => url
    /\ file' = IF written THEN [state |-> "normal_exit", hb |-> now] ELSE file
    /\ app' = "terminate" /\ lock' = "free" /\ stopped' = TRUE
    /\ UNCHANGED <<now, healthy, reused, url, beaten, queue, closed, writer, hb, monitor>>

\* The writer's join and the child's wait are bounded and change nothing.
Terminate(ended) ==
    /\ app = "terminate"
    /\ app' = "unlink"
    /\ child' = IF ended /\ child # "none" THEN "ended" ELSE child
    /\ UNCHANGED <<now, healthy, reused, url, beaten, queue, closed, stopped, thread,
                   file, seen, incident, attempts, alerted, failed>>

Unlink(deleted) ==
    /\ app = "unlink"
    /\ app' = "exit"
    /\ file' = IF deleted THEN NoFile ELSE file
    /\ UNCHANGED <<now, healthy, reused, url, beaten, queue, closed, stopped, thread,
                   monitor>>

\* The process ends, by itself or killed at any instant; a write that has not
\* replaced the file by then never will.
Die ==
    /\ app \notin {"start", "dead"}
    /\ app' = "dead"
    /\ writer' = "none" /\ lock' = "free" /\ queue' = 0 /\ hb' = 0
    /\ UNCHANGED <<now, healthy, reused, url, beaten, closed, stopped, file, monitor>>

Reuse ==
    /\ app = "dead" /\ reused' = ~reused
    /\ UNCHANGED <<now, healthy, session, thread, file, monitor>>

---------------------------------------------------------------------------
(* The writer thread, _write_loop.                                         *)

Loop ==
    /\ writer = "loop"
    /\ writer' = IF stopped THEN "none" ELSE "get"
    /\ UNCHANGED <<now, healthy, reused, session, lock, hb, file, monitor>>

\* The get times out when the queue is empty.
Get ==
    /\ writer = "get"
    /\ writer' = IF queue = 0 THEN "loop" ELSE "hold"
    /\ hb' = queue /\ queue' = 0
    /\ UNCHANGED <<now, healthy, reused, app, url, beaten, closed, stopped, lock,
                   file, monitor>>

\* mutant: the writer does not look at _closed
HoldAnyway ==
    /\ writer = "hold" /\ lock = "free"
    /\ writer' = "write" /\ lock' = "writer" /\ UNCHANGED hb
    /\ UNCHANGED <<now, healthy, reused, session, file, monitor>>

Hold ==
    /\ writer = "hold" /\ lock = "free"
    /\ IF closed THEN writer' = "loop" /\ hb' = 0 /\ UNCHANGED lock
       ELSE writer' = "write" /\ lock' = "writer" /\ UNCHANGED hb
    /\ UNCHANGED <<now, healthy, reused, session, file, monitor>>

Write(written) ==
    /\ writer = "write"
    /\ healthy => written
    /\ file' = IF written THEN RunningFile(hb) ELSE file
    /\ writer' = "loop" /\ lock' = "free" /\ hb' = 0
    /\ UNCHANGED <<now, healthy, reused, session, monitor>>

---------------------------------------------------------------------------
(* The child, WatchdogMonitor.step.                                        *)

Look ==
    /\ child = "rest"
    /\ file.state = "running"
    /\ child' = "ask" /\ seen' = file.hb
    /\ UNCHANGED <<now, healthy, reused, session, thread, file, incident, attempts,
                   alerted, failed>>

\* What step() does with the incident it has found.
Decide(title) ==
    IF alerted THEN child' = "rest" /\ UNCHANGED <<incident, attempts, alerted>>
    ELSE LET made == IF incident = title THEN attempts ELSE 0 IN
         /\ incident' = title
         /\ IF made >= Tries
            THEN child' = "rest" /\ alerted' = TRUE /\ attempts' = made
            ELSE child' = "send" /\ attempts' = made + 1 /\ UNCHANGED alerted

Alive == app # "dead" \/ reused

\* mutant: the boundary itself is late
LateAtBoundary == now - seen >= Stale

Late == now - seen > Stale

\* mutant: a dead process is a crash, whatever it wrote last
AskOnce ==
    /\ child = "ask"
    /\ IF ~Alive THEN Decide("CRASH")
       ELSE IF Late THEN Decide("UNRESPONSIVE")
       ELSE child' = "rest" /\ UNCHANGED <<incident, attempts, alerted>>
    /\ UNCHANGED <<now, healthy, reused, session, thread, file, seen, failed>>

Ask ==
    /\ child = "ask"
    /\ IF ~Alive
       THEN child' = "reread" /\ UNCHANGED <<incident, attempts, alerted>>
       ELSE IF Late THEN Decide("UNRESPONSIVE")
       ELSE child' = "rest" /\ UNCHANGED <<incident, attempts, alerted>>
    /\ UNCHANGED <<now, healthy, reused, session, thread, file, seen, failed>>

Reread ==
    /\ child = "reread"
    /\ IF file.state = "running" THEN Decide("CRASH")
       ELSE child' = "rest" /\ UNCHANGED <<incident, attempts, alerted>>
    /\ UNCHANGED <<now, healthy, reused, session, thread, file, seen, failed>>

\* mutant: only a delivered alert counts
SendUncounted(delivered) ==
    /\ child = "send"
    /\ child' = "rest"
    /\ alerted' = delivered
    /\ attempts' = IF delivered THEN attempts ELSE attempts - 1
    /\ failed' = [failed EXCEPT ![incident] =
                    IF delivered \/ @ = Tries THEN @ ELSE @ + 1]
    /\ UNCHANGED <<now, healthy, reused, session, thread, file, seen, incident>>

Send(delivered) ==
    /\ child = "send"
    /\ child' = "rest"
    /\ alerted' = delivered
    /\ failed' = [failed EXCEPT ![incident] =
                    IF delivered \/ @ = Tries THEN @ ELSE @ + 1]
    /\ UNCHANGED <<now, healthy, reused, session, thread, file, seen, incident,
                   attempts>>

---------------------------------------------------------------------------
\* A healthy application beats in every period, its writer takes the beat in
\* that period and has written it by the end of the next, and the child's step
\* takes less than one.
KeptUp ==
    /\ app # "dead" => beaten = now
    /\ (url => queue = 0) /\ hb \in {0, now}
    /\ child \in {"none", "rest", "ended"}

Tick ==
    /\ now < Horizon
    /\ healthy => KeptUp
    /\ now' = now + 1
    /\ UNCHANGED <<healthy, reused, session, thread, file, monitor>>

Main ==
    \/ \E written, spawned \in BOOLEAN : Start(written, spawned)
    \/ \E written, spawned \in BOOLEAN : Enable(written, spawned)
    \/ Beat \/ Replace
    \/ \E normal \in BOOLEAN : Close(normal)
    \/ \E written \in BOOLEAN : Mark(written)
    \/ \E ended \in BOOLEAN : Terminate(ended)
    \/ \E deleted \in BOOLEAN : Unlink(deleted)
    \/ Die
Writer == Loop \/ Get \/ Hold \/ \E written \in BOOLEAN : Write(written)
Child == Look \/ Ask \/ Reread \/ \E delivered \in BOOLEAN : Send(delivered)

Next == Main \/ Writer \/ Child \/ Reuse \/ Tick

Spec == Init /\ [][Next]_vars

\* The child sleeps five seconds between steps and does nothing else; the
\* sender gives up after three seconds.
FairSpec == Spec /\ WF_vars(Child)

---------------------------------------------------------------------------
TypeOK ==
    /\ now \in Nat /\ healthy \in BOOLEAN /\ reused \in BOOLEAN
    /\ app \in {"start", "run", "full", "mark", "terminate", "unlink", "exit",
                "dead"}
    /\ url \in BOOLEAN /\ beaten \in Nat /\ queue \in Nat
    /\ closed \in BOOLEAN /\ stopped \in BOOLEAN
    /\ lock \in {"free", "app", "writer"}
    /\ writer \in {"none", "loop", "get", "hold", "write"} /\ hb \in Nat
    /\ file \in [state : {"none", "running", "normal_exit"}, hb : Nat]
    /\ child \in {"none", "rest", "ask", "reread", "send", "ended"}
    /\ seen \in Nat
    /\ incident \in Titles \cup {"none"} /\ attempts \in 0 .. Tries
    /\ alerted \in BOOLEAN
    /\ failed \in [Titles -> 0 .. Tries]

\* Whoever is told of a crash has one: the process is gone, and left the file
\* saying that it ran.
CrashIsReal ==
    child = "send" /\ incident = "CRASH" => app = "dead" /\ file.state = "running"

\* From the moment close() has taken the lock no heartbeat reaches the file,
\* so a mark of a normal exit is never overwritten nor a deleted file revived.
NoBeatAfterClose ==
    [][closed /\ file' # file => file'.state # "running"]_vars

\* The child gives up on an incident only after three attempts at that
\* incident have failed, whatever it tried to report before.
GivesUpAfterThree ==
    [][~alerted /\ alerted' /\ child # "send" => failed[incident'] = Tries]_vars

\* An application that keeps its periods is never called unresponsive.
HealthyIsQuiet ==
    healthy /\ app # "dead" => ~(child = "send" /\ incident = "UNRESPONSIVE")

\* A crash ends in an alert or in three failed attempts, as long as there is
\* a child to see it.
CrashSettled ==
    (app = "dead" /\ ~reused /\ file.state = "running"
       /\ child \notin {"none", "ended"})
      ~> (alerted \/ reused)

=============================================================================
