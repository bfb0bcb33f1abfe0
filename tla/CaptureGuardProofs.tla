------------------------ MODULE CaptureGuardProofs ------------------------
(***************************************************************************)
(* Proofs about the capture guard, for all budgets and bounds.             *)
(*                                                                         *)
(* The inductive invariant has one part per idea: which scopes can be open *)
(* around which, where a dataset can be, what a pending departure knows,   *)
(* that the deadlines agree with the time really spent in each domain, and *)
(* that the monitor of an operation in good standing still watches it.     *)
(***************************************************************************)
EXTENDS CaptureGuard, SequenceTheorems, TLAPS

\* Metadata spans are opened inside captures, never the other way round; the
\* operation counts both.
Stack ==
    /\ active <=> scopes # <<>>
    /\ active => /\ cur \in Ops
                 /\ op.depth \in 1 .. Len(scopes)
                 /\ op.metaDepth = Len(scopes) - op.depth
                 /\ \A i \in 1 .. Len(scopes) :
                        scopes[i] \in OpScopes <=> i <= op.depth

\* A capture stands directly inside a reader, and only they own datasets.
Data ==
    /\ \A i \in 1 .. Len(scopes) :
           scopes[i] = "capture" => i > 1 /\ scopes[i - 1] = "reader"
    /\ raw # 0 => /\ active /\ raw <= op.depth
                  /\ scopes[raw] \in {"reader", "capture"}

\* The owner leaves late only after an incident.
Pending ==
    /\ todo = "leave" => active /\ SdkScope /\ op.stalled
    /\ active => (recovery <=> op.stalled)

\* The deadlines and the time really spent agree.
Clock ==
    active =>
      /\ op.deadline = op.started + op.budget + op.metaElapsed
      /\ op.metaDepth = 0 => now = op.started + op.sdk + op.metaElapsed
      /\ op.metaDepth > 0 =>
            /\ now = op.metaStarted + op.meta
            /\ op.metaStarted = op.started + op.sdk + op.metaElapsed
            /\ ~op.stalled => op.sdk < op.budget

\* The monitor of a healthy operation is about to look, or sleeps and wakes
\* in time.
Vigil ==
    active /\ ~op.stalled =>
      \/ watch[cur].at = "look"
      \/ /\ watch[cur].at = "wait"
         /\ watch[cur].wake \/ watch[cur].alarm <= DeadlineOf(op)

Guarded == TypeOK /\ Stack /\ Data /\ Pending /\ Clock /\ Vigil /\ PromptlyNoticed

\* What both the monitor and the owner do first: an expiry changes nothing but
\* the incident, and it happens exactly when the deadline has passed.
Account(o) == <<o.started, o.budget, o.deadline, o.metaElapsed, o.metaStarted,
                o.metaDepth, o.depth, o.sdk, o.meta>>

LEMMA Expiry ==
    ASSUME NEW o \in Operation, now \in Nat
    PROVE  /\ Expired(o) \in Operation
           /\ Account(Expired(o)) = Account(o)
           /\ o.stalled => Expired(o) = o
           /\ ~Expired(o).stalled => Expired(o) = o /\ now < DeadlineOf(o)
           /\ DeadlineOf(Expired(o)) = DeadlineOf(o)
           /\ DeadlineOf(o) \in Nat
  <1>1. DeadlineOf(o) \in Nat
    BY MetaBudgetPositive DEF DeadlineOf, Operation
  <1>2. CASE now < DeadlineOf(o)
    BY <1>1, <1>2 DEF Expired
  <1>3. CASE now >= DeadlineOf(o)
    <2> PICK c \in Causes : Expired(o) = Quarantined(o, c)
      BY <1>3 DEF Expired, Causes
    <2> QED
      BY <1>1, <1>3 DEF Quarantined, DeadlineOf, Operation, Account
  <1> QED
    BY <1>1, <1>2, <1>3

LEMMA InitGuarded == Init => Guarded
  <1> SUFFICES ASSUME Init PROVE Guarded
    OBVIOUS
  <1> USE DEF Init
  <1>1. op \in Operation
    <2>1. NewOperation(0) \in Operation
      BY DEF NewOperation, Operation, Causes
    <2> QED
      BY <2>1 DEF Operation
  <1>2. watch \in [Ops -> Monitor]
    BY DEF Monitor, Resting
  <1>3. TypeOK
    <2>1. cur \in 0 .. MaxOps /\ scopes \in Seq(OpScopes \cup MetaScopes)
      BY BoundsNatural
    <2> QED
      BY <1>1, <1>2, <2>1 DEF TypeOK
  <1>4. Stack /\ Data /\ Pending /\ Clock /\ Vigil /\ PromptlyNoticed
    BY DEF Stack, Data, Pending, Clock, Vigil, PromptlyNoticed
  <1> QED
    BY <1>3, <1>4 DEF Guarded

LEMMA TickGuarded == Guarded /\ Tick => Guarded'
  <1> SUFFICES ASSUME Guarded, Tick PROVE Guarded'
    OBVIOUS
  <1> USE DEF Guarded, Tick
  <1>0. /\ UNCHANGED <<prompt, cur, active, recovery, scopes, mode, todo, raw, watch>>
        /\ now \in Nat /\ now' = now + 1 /\ op \in Operation /\ op' \in Operation
        /\ active /\ op.metaDepth > 0 =>
              op' = [op EXCEPT !.meta = @ + 1]
        /\ active /\ ~(op.metaDepth > 0) =>
              op' = [op EXCEPT !.sdk = @ + 1]
    <2>1. UNCHANGED <<prompt, cur, active, recovery, scopes, mode, todo, raw, watch>>
      BY DEF owner
    <2>2. op \in Operation /\ now \in Nat
      BY DEF TypeOK
    <2>3. [op EXCEPT !.meta = @ + 1] \in Operation
      BY <2>2 DEF Operation
    <2>4. [op EXCEPT !.sdk = @ + 1] \in Operation
      BY <2>2 DEF Operation
    <2> QED
      BY <2>1, <2>2, <2>3, <2>4
  <1> USE <1>0
  <1>1. TypeOK'
    BY DEF TypeOK
  <1>2. Stack' /\ Data' /\ Pending'
    BY DEF TypeOK, Operation, Stack, Data, Pending, SdkScope, Top, owner
  <1>3. Clock'
    <2>1. CASE ~active
      BY <2>1 DEF Clock
    <2>2. CASE active /\ op.metaDepth > 0
      BY <2>2 DEF Clock, Operation
    <2>3. CASE active /\ ~(op.metaDepth > 0)
      BY <2>3 DEF Clock, Operation
    <2> QED
      BY <2>1, <2>2, <2>3
  <1>4. Vigil'
    BY DEF TypeOK, Operation, Vigil, DeadlineOf, owner
  <1>5. PromptlyNoticed'
    <2> SUFFICES ASSUME prompt, active, ~op'.stalled
                 PROVE  now' <= DeadlineOf(op')
      BY DEF PromptlyNoticed
    <2>1. ~op.stalled /\ DeadlineOf(op') = DeadlineOf(op) /\ DeadlineOf(op) \in Nat
      BY MetaBudgetPositive DEF Operation, DeadlineOf
    <2>2. cur \in Ops /\ ~Due(cur)
      BY DEF Stack
    <2>3. watch[cur].alarm \in Nat /\ watch[cur].wake \in BOOLEAN
      BY <2>2 DEF TypeOK, Monitor
    <2>4. now < DeadlineOf(op)
      BY <2>1, <2>2, <2>3 DEF Vigil, Due
    <2> QED
      BY <2>1, <2>4
  <1> QED
    BY <1>1, <1>2, <1>3, <1>4, <1>5

LEMMA WatchGuarded ==
    ASSUME NEW o \in Ops, Guarded, Watch(o)
    PROVE  Guarded'
  <1> USE DEF Guarded
  <1>1. CASE WatchWake(o)
    <2>1. /\ UNCHANGED <<now, prompt, cur, active, recovery, op>>
          /\ UNCHANGED <<scopes, mode, todo, raw>>
      BY <1>1 DEF WatchWake, guard, owner
    <2>2. Resting("look") \in Monitor /\ Resting("gone") \in Monitor
      BY DEF Resting, Monitor
    <2>3. TypeOK'
      BY <1>1, <2>1, <2>2 DEF WatchWake, TypeOK
    <2>4. Stack' /\ Data' /\ Pending' /\ Clock' /\ PromptlyNoticed'
      BY <2>1 DEF Stack, Data, Pending, Clock, PromptlyNoticed, SdkScope, Top, DeadlineOf
    <2>5. Vigil'
      BY <1>1, <2>1 DEF WatchWake, TypeOK, Stack, Vigil, Resting, DeadlineOf
    <2> QED
      BY <2>3, <2>4, <2>5
  <1>2. CASE WatchLook(o) /\ (o # cur \/ ~active)
    <2>1. /\ UNCHANGED <<now, prompt, cur, active, recovery, op>>
          /\ UNCHANGED <<scopes, mode, todo, raw>>
          /\ watch' = [watch EXCEPT ![o] = Resting("gone")]
      BY <1>2 DEF WatchLook, guard, owner
    <2>2. Resting("gone") \in Monitor
      BY DEF Resting, Monitor
    <2>3. TypeOK'
      BY <2>1, <2>2 DEF TypeOK
    <2>4. Stack' /\ Data' /\ Pending' /\ Clock' /\ PromptlyNoticed'
      BY <2>1 DEF Stack, Data, Pending, Clock, PromptlyNoticed, SdkScope, Top, DeadlineOf
    <2>5. Vigil'
      BY <1>2, <2>1 DEF TypeOK, Stack, Vigil, Resting, DeadlineOf
    <2> QED
      BY <2>3, <2>4, <2>5
  <1>3. CASE WatchLook(o) /\ o = cur /\ active
    <2> DEFINE e == Expired(op)
    <2>1. op' = e /\ recovery' = (recovery \/ e.stalled)
      BY <1>3 DEF WatchLook, Keep
    <2>2. /\ e \in Operation /\ Account(e) = Account(op)
          /\ op.stalled => e = op
          /\ ~e.stalled => e = op /\ now < DeadlineOf(op)
          /\ DeadlineOf(e) = DeadlineOf(op) /\ DeadlineOf(op) \in Nat
      BY Expiry DEF TypeOK
    <2> HIDE DEF e
    <2>3. /\ UNCHANGED <<now, prompt, scopes, mode, todo, raw, cur, active>>
          /\ watch' = [watch EXCEPT ![o] =
                 IF e.stalled THEN Resting("gone")
                 ELSE [at |-> "wait", alarm |-> DeadlineOf(op), wake |-> FALSE]]
      BY <1>3, <2>1 DEF WatchLook, owner
    <2>4. TypeOK'
      BY <2>1, <2>2, <2>3 DEF TypeOK, Monitor, Resting
    <2>5. Stack' /\ Data' /\ Pending' /\ Clock'
      BY <2>1, <2>2, <2>3 DEF TypeOK, Stack, Data, Pending, Clock, Account, SdkScope, Top
    <2>6. Vigil' /\ PromptlyNoticed'
      BY <1>3, <2>1, <2>2, <2>3 DEF TypeOK, Vigil, PromptlyNoticed, DeadlineOf, Ops
    <2> QED
      BY <2>4, <2>5, <2>6
  <1> QED
    BY <1>1, <1>2, <1>3 DEF Watch

\* A woken monitor looks whatever its alarm says, and a wake-up is only lost
\* on a monitor that is about to look anyway.
LEMMA Awake ==
    ASSUME Guarded
    PROVE  /\ Woken \in [Ops -> Monitor]
           /\ active /\ ~op.stalled =>
                 \/ Woken[cur].at = "look"
                 \/ Woken[cur].at = "wait" /\ Woken[cur].wake
  <1> USE DEF Guarded
  <1>1. watch \in [Ops -> Monitor]
    BY DEF TypeOK
  <1>2. Woken \in [Ops -> Monitor]
    BY <1>1 DEF Woken, Monitor
  <1>3. ASSUME active, ~op.stalled
        PROVE  \/ Woken[cur].at = "look"
               \/ Woken[cur].at = "wait" /\ Woken[cur].wake
    <2>1. cur \in Ops
      BY <1>3 DEF Stack
    <2>2. watch[cur] \in Monitor
      BY <1>1, <2>1
    <2>3. Woken[cur] = [watch[cur] EXCEPT !.wake = (watch[cur].at = "wait")]
      BY <1>1, <2>1 DEF Woken
    <2>4. Woken[cur].at = watch[cur].at
      BY <2>2, <2>3 DEF Monitor
    <2>5. CASE watch[cur].at = "wait"
      <3>1. Woken[cur].wake = (watch[cur].at = "wait")
        BY <2>2, <2>3 DEF Monitor
      <3> QED
        BY <2>4, <2>5, <3>1
    <2> QED
      BY <1>3, <2>4, <2>5 DEF Vigil
  <1> QED
    BY <1>2, <1>3

LEMMA OuterFacts ==
    ASSUME Len(scopes) \in Nat \ {0}, scopes \in Seq(OpScopes \cup MetaScopes)
    PROVE  /\ Outer \in Seq(OpScopes \cup MetaScopes)
           /\ Len(Outer) = Len(scopes) - 1
           /\ \A i \in 1 .. Len(scopes) - 1 : Outer[i] = scopes[i]
  <1> DEFINE n == Len(scopes) - 1
  <1>1. n \in Nat /\ n <= Len(scopes)
    OBVIOUS
  <1>2. Outer = SubSeq(scopes, 1, n)
    BY DEF Outer
  <1> HIDE DEF n
  <1>3. Outer \in Seq(OpScopes \cup MetaScopes)
    BY <1>1, <1>2
  <1>4. Len(Outer) = n /\ \A i \in 1 .. n : Outer[i] = scopes[i]
    BY <1>1, <1>2
  <1> QED
    BY <1>3, <1>4 DEF n

LEMMA InSdkScope ==
    ASSUME Guarded, active, SdkScope
    PROVE  /\ Len(scopes) \in Nat \ {0}
           /\ op.depth = Len(scopes) /\ op.metaDepth = 0
  <1>1. Len(scopes) \in Nat \ {0} /\ Len(scopes) \in 1 .. Len(scopes)
    BY DEF Guarded, TypeOK, SdkScope
  <1>2. scopes[Len(scopes)] \in OpScopes
    BY DEF SdkScope, Top
  <1> QED
    BY <1>1, <1>2 DEF Guarded, Stack

LEMMA EnterFirstGuarded ==
    ASSUME NEW k \in OpScopes, NEW b \in Budgets, Guarded, EnterFirst(k, b)
    PROVE  Guarded'
  <1> USE DEF Guarded, EnterFirst
  <1>1. NewOperation(b) \in Operation /\ b \in Nat \ {0} /\ now \in Nat
    BY BudgetsPositive DEF TypeOK, NewOperation, Operation, Causes
  <1>2. cur + 1 \in Ops /\ Resting("look") \in Monitor
    BY BoundsNatural DEF TypeOK, Ops, Resting, Monitor
  <1>3. Len(scopes') = 1 /\ scopes'[1] = k
    OBVIOUS
  <1>4. TypeOK'
    BY <1>1, <1>2, BoundsNatural DEF TypeOK, Ops
  <1>5. Stack' /\ Pending'
    BY <1>1, <1>2, <1>3 DEF Stack, Pending, NewOperation
  <1>6. Data'
    BY <1>3 DEF Data
  <1>7. Clock' /\ PromptlyNoticed'
    BY <1>1 DEF Clock, PromptlyNoticed, NewOperation, DeadlineOf
  <1>8. Vigil'
    BY <1>2 DEF TypeOK, Vigil, Resting
  <1> QED
    BY <1>4, <1>5, <1>6, <1>7, <1>8

\* Steps that at most record an incident and change what the owner does next.
LEMMA RecordGuarded ==
    ASSUME Guarded, active, NEW e \in Operation, Keep(e),
           Account(e) = Account(op), op.stalled => e.stalled,
           ~e.stalled => e = op,
           UNCHANGED <<now, prompt, cur, active, scopes>>,
           watch' \in {watch, Woken},
           mode' \in {"run", "raise"},
           todo' \in {"none", "confirm"} \/ (todo' = "leave" /\ SdkScope /\ e.stalled),
           raw' = raw \/ raw' = 0
    PROVE  Guarded'
  <1> USE DEF Guarded
  <1>1. op' = e /\ (recovery' <=> e.stalled) /\ recovery' \in BOOLEAN
    BY DEF Keep, Pending, TypeOK, Operation
  <1>2. TypeOK'
    BY <1>1, Awake DEF TypeOK
  <1>3. Stack' /\ Data' /\ Clock'
    BY <1>1 DEF Stack, Data, Clock, Account
  <1>4. Pending'
    BY <1>1 DEF Pending, SdkScope, Top
  <1>5. Vigil'
    BY <1>1, Awake DEF Vigil, DeadlineOf
  <1>6. PromptlyNoticed'
    BY <1>1 DEF PromptlyNoticed, DeadlineOf
  <1> QED
    BY <1>2, <1>3, <1>4, <1>5, <1>6

LEMMA RaiseGuarded == Guarded /\ Raise => Guarded'
  BY DEF Guarded, Raise, Running, guard, TypeOK, Stack, Data, Pending, Clock,
     Vigil, PromptlyNoticed, SdkScope, Top, DeadlineOf

LEMMA ConfirmGuarded == Guarded /\ Confirm => Guarded'
  BY DEF Guarded, Confirm, guard, TypeOK, Stack, Data, Pending, Clock,
     Vigil, PromptlyNoticed, SdkScope, Top, DeadlineOf

LEMMA ReconnectGuarded == Guarded /\ Reconnect => Guarded'
  <1> SUFFICES ASSUME Guarded, Reconnect PROVE Guarded'
    OBVIOUS
  <1>1. /\ UNCHANGED <<now, prompt, cur, active, op, watch>>
        /\ UNCHANGED <<scopes, mode, todo, raw>>
        /\ ~active /\ recovery' = FALSE
    BY DEF Reconnect, owner
  <1>2. TypeOK'
    BY <1>1 DEF Guarded, TypeOK
  <1>3. Stack' /\ Data' /\ Pending' /\ Clock' /\ Vigil' /\ PromptlyNoticed'
    BY <1>1 DEF Guarded, Stack, Data, Pending, Clock, Vigil, PromptlyNoticed
  <1> QED
    BY <1>2, <1>3 DEF Guarded

LEMMA CheckGuarded == Guarded /\ Check => Guarded'
  <1> SUFFICES ASSUME Guarded, Check PROVE Guarded'
    OBVIOUS
  <1>1. op \in Operation /\ now \in Nat
    BY DEF Guarded, TypeOK
  <1>2. Expired(op) \in Operation /\ Account(Expired(op)) = Account(op)
        /\ (op.stalled => Expired(op).stalled) /\ (~Expired(op).stalled => Expired(op) = op)
    BY <1>1, Expiry
  <1>3. mode' \in {"run", "raise"} /\ todo' = "none" /\ raw' = raw /\ watch' = watch
    BY DEF Check, Running
  <1> QED
    BY <1>2, <1>3, RecordGuarded DEF Check

LEMMA LeaveStalledGuarded == Guarded /\ LeaveStalled => Guarded'
  <1> SUFFICES ASSUME Guarded, LeaveStalled PROVE Guarded'
    OBVIOUS
  <1>1. op \in Operation /\ now \in Nat /\ mode \in {"run", "raise"}
    BY DEF Guarded, TypeOK
  <1>2. Expired(op) \in Operation /\ Account(Expired(op)) = Account(op)
        /\ (op.stalled => Expired(op).stalled) /\ (~Expired(op).stalled => Expired(op) = op)
    BY <1>1, Expiry
  <1>3. active /\ SdkScope /\ Expired(op).stalled
    BY DEF LeaveStalled, Leaving, Keep
  <1> QED
    BY <1>1, <1>2, <1>3, RecordGuarded DEF LeaveStalled

LEMMA CaptureGuarded == Guarded /\ Capture => Guarded'
  <1> SUFFICES ASSUME Guarded, Capture PROVE Guarded'
    OBVIOUS
  <1>1. /\ Len(scopes) \in 1 .. op.depth /\ scopes[Len(scopes)] = "capture"
        /\ active /\ raw' = Len(scopes)
    BY DEF Guarded, Capture, SdkScope, Stack, Top, OpScopes, TypeOK
  <1> QED
    BY <1>1 DEF Guarded, Capture, guard, TypeOK, Stack, Data, Pending, Clock,
       Vigil, PromptlyNoticed, SdkScope, Top, DeadlineOf

LEMMA DisposeGuarded ==
    ASSUME NEW succeeds \in BOOLEAN, Guarded, Dispose(succeeds)
    PROVE  Guarded'
  <1> DEFINE e == IF succeeds THEN Expired(op)
                  ELSE Quarantined(Expired(op), "dispose")
  <1>1. op \in Operation /\ now \in Nat
    BY DEF Guarded, TypeOK
  <1>2. /\ Expired(op) \in Operation /\ Account(Expired(op)) = Account(op)
        /\ op.stalled => Expired(op).stalled
        /\ ~Expired(op).stalled => Expired(op) = op
    BY <1>1, Expiry
  <1>3. /\ e \in Operation /\ Account(e) = Account(op)
        /\ op.stalled => e.stalled
        /\ ~e.stalled => e = op
    BY <1>2 DEF Quarantined, Operation, Causes, Account
  <1>4. /\ Keep(e) /\ active /\ SdkScope /\ raw' = 0
        /\ UNCHANGED <<now, prompt, cur, active, scopes, todo>>
        /\ watch' \in {watch, Woken} /\ mode' \in {"run", "raise"}
        /\ todo = "none" \/ todo = "leave"
    BY DEF Dispose, Guarded, TypeOK
  <1>5. todo = "leave" => e.stalled
    BY <1>3 DEF Guarded, Pending
  <1> HIDE DEF e
  <1> QED
    BY <1>3, <1>4, <1>5, RecordGuarded

LEMMA SetFramesGuarded ==
    ASSUME NEW b \in Budgets, Guarded, SetFrames(b)
    PROVE  Guarded'
  <1> DEFINE e == Expired(op)
             r == [e EXCEPT !.budget = b, !.deadline = e.started + b + e.metaElapsed]
             f == IF e.stalled THEN e ELSE Expired(r)
  <1> USE DEF Guarded
  <1>1. op \in Operation /\ now \in Nat /\ b \in Nat
    BY BudgetsPositive DEF TypeOK
  <1>2. /\ e \in Operation /\ Account(e) = Account(op)
        /\ op.stalled => e = op
        /\ ~e.stalled => e = op /\ now < DeadlineOf(op)
    BY <1>1, Expiry
  <1>3. /\ Keep(f) /\ active /\ SdkScope /\ watch' = Woken /\ todo' = "confirm"
        /\ UNCHANGED <<now, prompt, cur, active, scopes, mode, raw>>
    BY DEF SetFrames
  <1> HIDE DEF e
  <1>4. CASE e.stalled
    BY <1>2, <1>3, <1>4, RecordGuarded DEF TypeOK
  <1>5. CASE ~e.stalled
    <2>1. r \in Operation
      <3>1. e.started + b + e.metaElapsed \in Nat
        BY <1>1, <1>2 DEF Operation
      <3> QED
        BY <1>1, <1>2, <3>1 DEF Operation
    <2>2. /\ Expired(r) \in Operation /\ Account(Expired(r)) = Account(r)
          /\ ~Expired(r).stalled => Expired(r) = r /\ now < DeadlineOf(r)
          /\ DeadlineOf(Expired(r)) = DeadlineOf(r)
      BY <1>1, <2>1, Expiry
    <2>3. op' = Expired(r) /\ recovery' = (recovery \/ Expired(r).stalled)
      BY <1>3, <1>5 DEF Keep
    <2>4. ~op.stalled /\ recovery = FALSE
      BY <1>2, <1>3, <1>5 DEF Pending, TypeOK
    <2>5. op.metaDepth = 0
      BY <1>3, InSdkScope
    <2>6. /\ op'.depth = op.depth /\ op'.metaDepth = op.metaDepth
          /\ op'.started = op.started /\ op'.metaElapsed = op.metaElapsed
          /\ op'.sdk = op.sdk /\ op'.budget = b
          /\ op'.deadline = op.started + b + op.metaElapsed
      BY <1>2, <1>5, <2>1, <2>2, <2>3 DEF Account, Operation
    <2>7. TypeOK'
      BY <1>3, <2>2, <2>3, Awake DEF TypeOK, Operation
    <2>8. Stack' /\ Data' /\ Clock'
      BY <1>3, <2>5, <2>6 DEF Stack, Data, Clock
    <2>9. Pending' /\ Vigil'
      BY <1>3, <2>3, <2>4, Awake DEF Pending, Vigil
    <2>10. PromptlyNoticed'
      BY <1>1, <1>3, <2>1, <2>2, <2>3, Expiry DEF PromptlyNoticed, DeadlineOf
    <2> QED
      BY <2>7, <2>8, <2>9, <2>10
  <1> QED
    BY <1>4, <1>5

LEMMA EnterNestedGuarded ==
    ASSUME NEW k \in OpScopes, Guarded, EnterNested(k)
    PROVE  Guarded'
  <1> DEFINE e == Expired(op)
  <1> USE DEF Guarded
  <1>1. op \in Operation /\ now \in Nat
    BY DEF TypeOK
  <1>2. /\ e \in Operation /\ Account(e) = Account(op)
        /\ op.stalled => e = op
        /\ ~e.stalled => e = op /\ now < DeadlineOf(op)
    BY <1>1, Expiry
  <1>3. /\ active /\ SdkScope /\ Nests(k)
        /\ UNCHANGED <<now, prompt, cur, active, raw, watch>>
        /\ mode = "run" /\ todo = "none"
    BY DEF EnterNested, Running
  <1>4. CASE recovery \/ e.stalled
    <2>1. Keep(e) /\ mode' = "raise" /\ UNCHANGED <<scopes, todo>>
      BY <1>4 DEF EnterNested
    <2> HIDE DEF e
    <2> QED
      BY <1>2, <1>3, <2>1, RecordGuarded
  <1>5. CASE ~(recovery \/ e.stalled)
    <2>1. /\ Keep([e EXCEPT !.depth = @ + 1])
          /\ scopes' = Append(scopes, k) /\ todo' = "confirm" /\ mode' = mode
      BY <1>5 DEF EnterNested
    <2>2. e = op /\ ~op.stalled /\ ~recovery /\ now < DeadlineOf(op)
      BY <1>2, <1>5
    <2> HIDE DEF e
    <2>3. /\ op' = [op EXCEPT !.depth = @ + 1] /\ op' \in Operation
          /\ recovery' = (recovery \/ op'.stalled)
      <3>1. op.depth + 1 \in Nat
        BY <1>1 DEF Operation
      <3>2. [op EXCEPT !.depth = @ + 1] \in Operation
        BY <1>1, <3>1 DEF Operation
      <3> QED
        BY <2>1, <2>2, <3>2 DEF Keep
    <2>4. /\ scopes \in Seq(OpScopes \cup MetaScopes)
          /\ op.depth = Len(scopes) /\ op.metaDepth = 0 /\ Len(scopes) \in Nat \ {0}
          /\ Len(scopes') = Len(scopes) + 1 /\ scopes'[Len(scopes) + 1] = k
          /\ \A i \in 1 .. Len(scopes) : scopes'[i] = scopes[i]
      BY <1>3, <2>1, InSdkScope DEF TypeOK
    <2>5. TypeOK'
      BY <1>3, <2>1, <2>2, <2>3, <2>4 DEF TypeOK
    <2>6. Stack'
      <3>1. op'.depth = Len(scopes') /\ op'.metaDepth = 0
        BY <1>1, <2>3, <2>4 DEF Operation
      <3>2. \A i \in 1 .. Len(scopes') : scopes'[i] \in OpScopes
        BY <1>3, <2>4 DEF Stack
      <3> QED
        BY <1>3, <2>4, <3>1, <3>2 DEF Stack
    <2>7. Data'
      <3>1. k = "capture" => scopes[Len(scopes)] = "reader"
        BY <1>3 DEF Nests, SdkScope, Top
      <3>2. op'.depth = op.depth + 1
        BY <1>1, <2>3 DEF Operation
      <3>3. raw # 0 => raw \in 1 .. Len(scopes)
        BY <2>4 DEF Data, TypeOK
      <3>4. ASSUME NEW i \in 1 .. Len(scopes'), scopes'[i] = "capture"
            PROVE  i > 1 /\ scopes'[i - 1] = "reader"
        <4>1. CASE i = Len(scopes) + 1
          BY <2>4, <3>1, <3>4, <4>1
        <4>2. CASE i \in 1 .. Len(scopes)
          BY <2>4, <3>4, <4>2 DEF Data
        <4> QED
          BY <2>4, <4>1, <4>2
      <3> QED
        BY <1>3, <2>4, <3>2, <3>3, <3>4 DEF Data
    <2>8. Pending' /\ Clock' /\ Vigil' /\ PromptlyNoticed'
      BY <1>1, <1>3, <2>1, <2>2, <2>3
      DEF Pending, Clock, Vigil, PromptlyNoticed, DeadlineOf, Operation
    <2> QED
      BY <2>5, <2>6, <2>7, <2>8
  <1> QED
    BY <1>4, <1>5

LEMMA BeginMetadataGuarded ==
    ASSUME NEW k \in MetaScopes, Guarded, BeginMetadata(k)
    PROVE  Guarded'
  <1> DEFINE e == Expired(op)
             first == [e EXCEPT !.metaDepth = 1, !.metaStarted = now, !.meta = 0]
             again == [e EXCEPT !.metaDepth = @ + 1]
  <1> USE DEF Guarded
  <1>1. op \in Operation /\ now \in Nat
    BY DEF TypeOK
  <1>2. /\ e \in Operation /\ Account(e) = Account(op)
        /\ op.stalled => e = op
        /\ ~e.stalled => e = op /\ now < DeadlineOf(op)
    BY <1>1, Expiry
  <1>3. /\ active /\ scopes # <<>> /\ todo = "none"
        /\ UNCHANGED <<now, prompt, cur, active, raw, todo>>
    BY DEF BeginMetadata
  <1>4. CASE e.stalled /\ k = "strict"
    <2>1. Keep(e) /\ mode' = "raise" /\ UNCHANGED <<scopes, watch>>
      BY <1>4 DEF BeginMetadata
    <2> HIDE DEF e
    <2> QED
      BY <1>2, <1>3, <2>1, RecordGuarded
  <1>5. CASE ~(e.stalled /\ k = "strict")
    <2>1. /\ Keep(IF e.metaDepth > 0 THEN again ELSE first)
          /\ scopes' = Append(scopes, k) /\ watch' = Woken /\ mode' = mode
      BY <1>5 DEF BeginMetadata
    <2> HIDE DEF e
    <2>2. first \in Operation /\ again \in Operation
      <3>1. e.metaDepth + 1 \in Nat
        BY <1>2 DEF Operation
      <3> QED
        BY <1>1, <1>2, <3>1 DEF Operation
    <2>3. /\ op' \in Operation /\ recovery' = (recovery \/ e.stalled)
          /\ op'.stalled = e.stalled
      BY <1>2, <2>1, <2>2 DEF Keep, Operation
    <2>4. /\ op'.metaDepth = op.metaDepth + 1 /\ op'.depth = op.depth
          /\ op'.started = op.started /\ op'.budget = op.budget
          /\ op'.deadline = op.deadline /\ op'.sdk = op.sdk
          /\ op'.metaElapsed = op.metaElapsed
          /\ op.metaDepth > 0 =>
                op'.metaStarted = op.metaStarted /\ op'.meta = op.meta
          /\ op.metaDepth = 0 => op'.metaStarted = now /\ op'.meta = 0
      BY <1>2, <2>1 DEF Keep, Operation, Account
    <2>5. /\ scopes \in Seq(OpScopes \cup MetaScopes) /\ Len(scopes) \in Nat
          /\ Len(scopes') = Len(scopes) + 1 /\ scopes'[Len(scopes) + 1] = k
          /\ \A i \in 1 .. Len(scopes) : scopes'[i] = scopes[i]
          /\ k \notin OpScopes
      BY <2>1 DEF TypeOK, OpScopes, MetaScopes
    <2>6. TypeOK'
      BY <1>3, <2>1, <2>3, <2>5, Awake DEF TypeOK
    <2>7. Stack'
      <3>1. ASSUME NEW i \in 1 .. Len(scopes')
            PROVE  scopes'[i] \in OpScopes <=> i <= op'.depth
        <4>1. CASE i = Len(scopes) + 1
          BY <1>1, <1>3, <2>4, <2>5, <4>1 DEF Stack, Operation
        <4>2. CASE i \in 1 .. Len(scopes)
          BY <1>3, <2>4, <2>5, <4>2 DEF Stack
        <4> QED
          BY <2>5, <4>1, <4>2
      <3> QED
        BY <1>1, <1>3, <2>4, <2>5, <3>1 DEF Stack, Operation
    <2>8. Data'
      <3>1. ASSUME NEW i \in 1 .. Len(scopes'), scopes'[i] = "capture"
            PROVE  i > 1 /\ scopes'[i - 1] = "reader"
        <4>1. i \in 1 .. Len(scopes)
          BY <2>5, <3>1 DEF OpScopes
        <4> QED
          BY <2>5, <3>1, <4>1 DEF Data
      <3>2. raw # 0 => raw \in 1 .. Len(scopes)
        BY <2>5 DEF Data, Stack, TypeOK
      <3> QED
        BY <1>3, <2>4, <2>5, <3>1, <3>2 DEF Data
    <2>9. Pending' /\ Vigil'
      BY <1>2, <1>3, <2>1, <2>3, Awake DEF Pending, Vigil, TypeOK, Operation
    <2>10. Clock'
      <3>1. op.metaDepth \in Nat
        BY <1>1 DEF Operation
      <3>2. ~op'.stalled => ~op.stalled /\ now < DeadlineOf(op)
        BY <1>2, <2>3
      <3>3. CASE op.metaDepth > 0
        BY <1>3, <2>4, <3>1, <3>2, <3>3 DEF Clock
      <3>4. CASE op.metaDepth = 0
        <4>1. ~op'.stalled => op.sdk < op.budget
          BY <1>1, <1>3, <3>2, <3>4 DEF Clock, DeadlineOf, Operation
        <4> QED
          BY <1>1, <1>3, <2>4, <3>4, <4>1 DEF Clock
      <3> QED
        BY <3>1, <3>3, <3>4
    <2>11. PromptlyNoticed'
      <3>1. ~op'.stalled => now < DeadlineOf(op)
        BY <1>2, <2>3
      <3>2. op.metaDepth \in Nat
        BY <1>1 DEF Operation
      <3>3. CASE op.metaDepth > 0
        <4>1. DeadlineOf(op') = DeadlineOf(op) /\ DeadlineOf(op) \in Nat
          BY <1>1, <2>4, <3>2, <3>3, MetaBudgetPositive DEF DeadlineOf, Operation
        <4> QED
          BY <1>1, <1>3, <3>1, <4>1 DEF PromptlyNoticed
      <3>4. CASE op.metaDepth = 0
        <4>1. DeadlineOf(op') = now + MetaBudget
          BY <2>4, <3>4 DEF DeadlineOf
        <4> QED
          BY <1>1, <1>3, <4>1, MetaBudgetPositive DEF PromptlyNoticed
      <3> QED
        BY <3>2, <3>3, <3>4
    <2> QED
      BY <2>6, <2>7, <2>8, <2>9, <2>10, <2>11
  <1> QED
    BY <1>4, <1>5

LEMMA EndMetadataGuarded == Guarded /\ EndMetadata => Guarded'
  <1> SUFFICES ASSUME Guarded, EndMetadata PROVE Guarded'
    OBVIOUS
  <1> DEFINE e == Expired(op)
             span == now - e.metaStarted
             last == [e EXCEPT !.metaDepth = 0, !.deadline = @ + span,
                               !.metaElapsed = @ + span]
             inner == [e EXCEPT !.metaDepth = @ - 1]
  <1> USE DEF Guarded
  <1>1. op \in Operation /\ now \in Nat
    BY DEF TypeOK
  <1>2. /\ e \in Operation /\ Account(e) = Account(op)
        /\ op.stalled => e = op
        /\ ~e.stalled => e = op /\ now < DeadlineOf(op)
    BY <1>1, Expiry
  <1>3. /\ active /\ scopes # <<>> /\ Top \in MetaScopes /\ todo = "none"
        /\ UNCHANGED <<now, prompt, cur, active, raw, todo>>
        /\ scopes' = Outer /\ watch' = Woken /\ mode' \in {"run", "raise"}
        /\ Keep(IF e.metaDepth > 1 THEN inner ELSE last)
    BY DEF EndMetadata, Elapsed, TypeOK
  <1> HIDE DEF e
  <1>4. /\ scopes \in Seq(OpScopes \cup MetaScopes) /\ Len(scopes) \in Nat \ {0}
        /\ Len(scopes') = Len(scopes) - 1
        /\ \A i \in 1 .. Len(scopes) - 1 : scopes'[i] = scopes[i]
        /\ scopes' \in Seq(OpScopes \cup MetaScopes)
    <2>1. scopes \in Seq(OpScopes \cup MetaScopes) /\ Len(scopes) \in Nat
      BY DEF TypeOK
    <2>2. Len(scopes) \in Nat \ {0}
      BY <1>3, <2>1 DEF Stack
    <2> QED
      BY <1>3, <2>1, <2>2, OuterFacts
  <1>5. /\ op.depth \in 1 .. Len(scopes) - 1
        /\ op.metaDepth = Len(scopes) - op.depth /\ op.metaDepth > 0
    <2>1. Len(scopes) \in 1 .. Len(scopes) /\ scopes[Len(scopes)] \notin OpScopes
      BY <1>3, <1>4 DEF Top, MetaScopes, OpScopes
    <2>2. op.depth \in 1 .. Len(scopes) /\ ~(Len(scopes) <= op.depth)
      BY <1>3, <2>1 DEF Stack
    <2> QED
      BY <1>3, <1>4, <2>2 DEF Stack
  <1>6. e.metaStarted = op.metaStarted /\ e.metaDepth = op.metaDepth /\ span = op.meta
    BY <1>1, <1>2, <1>3, <1>5 DEF Clock, Account, Operation
  <1>7. inner \in Operation /\ last \in Operation
    <2>1. e.metaDepth \in Nat \ {0} /\ e.deadline \in Nat /\ e.metaElapsed \in Nat
          /\ span \in Nat
      BY <1>1, <1>2, <1>5, <1>6 DEF Operation
    <2> HIDE DEF span
    <2>2. e.metaDepth - 1 \in Nat /\ e.deadline + span \in Nat /\ e.metaElapsed + span \in Nat
      BY <2>1
    <2> QED
      BY <1>2, <2>2 DEF Operation
  <1>8. /\ op' \in Operation /\ recovery' = (recovery \/ e.stalled)
        /\ op'.stalled = e.stalled
    BY <1>2, <1>3, <1>7 DEF Keep, Operation
  <1>9. /\ op'.metaDepth = op.metaDepth - 1 /\ op'.depth = op.depth
        /\ op'.started = op.started /\ op'.budget = op.budget
        /\ op'.sdk = op.sdk /\ op'.metaStarted = op.metaStarted
        /\ op'.meta = op.meta
        /\ op.metaDepth > 1 =>
              op'.deadline = op.deadline /\ op'.metaElapsed = op.metaElapsed
        /\ op.metaDepth = 1 => /\ op'.deadline = op.deadline + op.meta
                               /\ op'.metaElapsed = op.metaElapsed + op.meta
    BY <1>1, <1>2, <1>3, <1>5, <1>6 DEF Keep, Operation, Account
  <1>10. TypeOK'
    BY <1>3, <1>4, <1>8, Awake DEF TypeOK
  <1>11. Stack'
    BY <1>1, <1>3, <1>4, <1>5, <1>9 DEF Stack
  <1>12. Data'
    <2>1. ASSUME NEW i \in 1 .. Len(scopes'), scopes'[i] = "capture"
          PROVE  i > 1 /\ scopes'[i - 1] = "reader"
      BY <1>4, <2>1 DEF Data
    <2>2. raw # 0 => raw \in 1 .. Len(scopes) - 1
      BY <1>4, <1>5 DEF Data, TypeOK
    <2> QED
      BY <1>3, <1>4, <1>9, <2>1, <2>2 DEF Data
  <1>13. Pending' /\ Vigil'
    BY <1>2, <1>3, <1>8, Awake DEF Pending, Vigil, TypeOK, Operation
  <1>14. Clock'
    <2>1. op.metaDepth \in Nat \ {0}
      BY <1>1, <1>5 DEF Operation
    <2>4. ~op'.stalled => ~op.stalled
      BY <1>2, <1>8
    <2>2. CASE op.metaDepth > 1
      BY <1>3, <1>9, <2>1, <2>2, <2>4 DEF Clock
    <2>3. CASE op.metaDepth = 1
      BY <1>1, <1>3, <1>9, <2>3 DEF Clock, Operation
    <2> QED
      BY <2>1, <2>2, <2>3
  <1>15. PromptlyNoticed'
    <2>1. ~op'.stalled => ~op.stalled /\ now < DeadlineOf(op)
      BY <1>2, <1>8
    <2>2. CASE op.metaDepth > 1
      BY <1>1, <1>3, <1>9, <2>1, <2>2 DEF PromptlyNoticed, DeadlineOf, Operation
    <2>3. CASE op.metaDepth = 1
      BY <1>1, <1>3, <1>9, <2>1, <2>3 DEF PromptlyNoticed, DeadlineOf, Clock, Operation
    <2> QED
      BY <1>1, <1>5, <2>2, <2>3 DEF Operation
  <1> QED
    BY <1>10, <1>11, <1>12, <1>13, <1>14, <1>15

\* Letting a scope go, once its dataset is with the scope around it or gone.
LEMMA ReleaseGuarded ==
    ASSUME Guarded, active, SdkScope, Release(op),
           UNCHANGED <<now, prompt, cur>>, mode' \in {"run", "raise"},
           \/ raw' = raw /\ raw # Len(scopes)
           \/ raw' = raw - 1 /\ raw = Len(scopes) /\ Top = "capture"
    PROVE  Guarded'
  <1> USE DEF Guarded
  <1>1. op \in Operation /\ now \in Nat /\ recovery \in BOOLEAN /\ raw \in Nat
    BY DEF TypeOK
  <1>2. Len(scopes) \in Nat \ {0} /\ op.depth = Len(scopes) /\ op.metaDepth = 0
    BY InSdkScope
  <1>3. [op EXCEPT !.depth = @ - 1] \in Operation
    <2>1. op.depth - 1 \in Nat
      BY <1>2
    <2> QED
      BY <1>1, <2>1 DEF Operation
  <1>4. /\ op' = [op EXCEPT !.depth = @ - 1] /\ op' \in Operation
        /\ recovery' = (recovery \/ op'.stalled)
        /\ active' = (Len(scopes) > 1) /\ todo' = "none"
        /\ watch' = watch \/ watch' = Woken
        /\ op'.depth = Len(scopes) - 1
    BY <1>1, <1>2, <1>3 DEF Release, Keep, Operation
  <1>5. /\ op'.started = op.started /\ op'.budget = op.budget
        /\ op'.deadline = op.deadline /\ op'.sdk = op.sdk
        /\ op'.metaElapsed = op.metaElapsed /\ op'.metaDepth = 0
        /\ op'.stalled = op.stalled
    BY <1>1, <1>2, <1>4 DEF Operation
  <1>6. /\ scopes' \in Seq(OpScopes \cup MetaScopes)
        /\ Len(scopes') = Len(scopes) - 1
        /\ \A i \in 1 .. Len(scopes) - 1 : scopes'[i] = scopes[i]
    BY <1>2, OuterFacts DEF Release, TypeOK
  <1>7. raw' # 0 => /\ raw' \in 1 .. Len(scopes) - 1
                    /\ scopes[raw'] \in {"reader", "capture"}
    BY <1>1, <1>2 DEF Data, Top
  <1>8. TypeOK'
    <2>1. raw' \in Nat
      BY <1>1, <1>2
    <2>2. active' \in BOOLEAN
      BY <1>4
    <2>3. op'.stalled \in BOOLEAN
      BY <1>4 DEF Operation
    <2>4. recovery' \in BOOLEAN
      BY <1>1, <1>4, <2>3
    <2> QED
      BY <1>4, <1>6, <2>1, <2>2, <2>4, Awake DEF TypeOK
  <1>9. Stack'
    <2>1. active' <=> scopes' # <<>>
      <3>1. scopes' = <<>> <=> Len(scopes') = 0
        BY <1>6, EmptySeq
      <3>2. Len(scopes) > 1 <=> Len(scopes') # 0
        BY <1>2, <1>6
      <3> QED
        BY <1>4, <3>1, <3>2
    <2>2. \A i \in 1 .. Len(scopes') : scopes'[i] \in OpScopes /\ i <= op'.depth
      BY <1>2, <1>4, <1>6 DEF Stack
    <2> QED
      BY <1>2, <1>4, <1>5, <1>6, <2>1, <2>2 DEF Stack
  <1>10. Data'
    <2>1. ASSUME NEW i \in 1 .. Len(scopes'), scopes'[i] = "capture"
          PROVE  i > 1 /\ scopes'[i - 1] = "reader"
      BY <1>2, <1>6, <2>1 DEF Data
    <2>2. raw' # 0 => /\ active' /\ raw' <= op'.depth
                      /\ scopes'[raw'] \in {"reader", "capture"}
      <3> SUFFICES ASSUME raw' # 0
                   PROVE  /\ active' /\ raw' <= op'.depth
                          /\ scopes'[raw'] \in {"reader", "capture"}
        OBVIOUS
      <3>1. raw' \in 1 .. Len(scopes) - 1
        BY <1>7
      <3>2. Len(scopes) > 1 /\ raw' <= op'.depth
        BY <1>2, <1>4, <3>1
      <3>3. scopes'[raw'] = scopes[raw']
        BY <1>6, <3>1
      <3>4. active'
        BY <1>4, <3>2
      <3> QED
        BY <1>7, <3>2, <3>3, <3>4
    <2> QED
      BY <2>1, <2>2 DEF Data
  <1>11. Pending'
    BY <1>1, <1>4, <1>5 DEF Pending
  <1>12. Clock' /\ PromptlyNoticed'
    BY <1>2, <1>5 DEF Clock, PromptlyNoticed, DeadlineOf
  <1>13. Vigil'
    BY <1>2, <1>4, <1>5, Awake DEF Vigil, DeadlineOf
  <1> QED
    BY <1>8, <1>9, <1>10, <1>11, <1>12, <1>13

LEMMA LeaveGuarded == Guarded /\ Leave => Guarded'
  <1> SUFFICES ASSUME Guarded, Leave PROVE Guarded'
    OBVIOUS
  <1>1. op \in Operation /\ now \in Nat /\ mode \in {"run", "raise"}
    BY DEF Guarded, TypeOK
  <1>2. Expired(op) = op
    BY <1>1, Expiry DEF Leave
  <1>3. active /\ SdkScope /\ Release(op) /\ UNCHANGED <<now, prompt, cur>>
        /\ mode' \in {"run", "raise"}
    BY <1>1, <1>2 DEF Leave, Leaving
  <1>4. \/ raw' = raw /\ raw # Len(scopes)
        \/ raw' = raw - 1 /\ raw = Len(scopes) /\ Top = "capture"
    BY DEF Leave, Leaving
  <1> QED
    BY <1>3, <1>4, ReleaseGuarded

LEMMA FinishLeaveGuarded == Guarded /\ FinishLeave => Guarded'
  <1> SUFFICES ASSUME Guarded, FinishLeave PROVE Guarded'
    OBVIOUS
  <1>1. SdkScope
    BY DEF Guarded, Pending, FinishLeave
  <1> QED
    BY <1>1, ReleaseGuarded DEF FinishLeave

LEMMA NextGuarded == Guarded /\ [Next]_vars => Guarded'
  <1> SUFFICES ASSUME Guarded, [Next]_vars PROVE Guarded'
    OBVIOUS
  <1>1. CASE Tick
    BY <1>1, TickGuarded
  <1>2. CASE \E o \in Ops : Watch(o)
    BY <1>2, WatchGuarded
  <1>3. CASE \E k \in OpScopes, b \in Budgets : EnterFirst(k, b)
    BY <1>3, EnterFirstGuarded
  <1>4. CASE \E k \in OpScopes : EnterNested(k)
    BY <1>4, EnterNestedGuarded
  <1>5. CASE \E b \in Budgets : SetFrames(b)
    BY <1>5, SetFramesGuarded
  <1>6. CASE Confirm \/ Check \/ Raise \/ Capture
    BY <1>6, ConfirmGuarded, CheckGuarded, RaiseGuarded, CaptureGuarded
  <1>7. CASE \E k \in MetaScopes : BeginMetadata(k)
    BY <1>7, BeginMetadataGuarded
  <1>8. CASE EndMetadata
    BY <1>8, EndMetadataGuarded
  <1>9. CASE \E succeeds \in BOOLEAN : Dispose(succeeds)
    BY <1>9, DisposeGuarded
  <1>10. CASE Leave \/ LeaveStalled \/ FinishLeave \/ Reconnect
    BY <1>10, LeaveGuarded, LeaveStalledGuarded, FinishLeaveGuarded,
       ReconnectGuarded
  <1>11. CASE UNCHANGED vars
    BY <1>11 DEF vars, guard, owner, Guarded, TypeOK, Stack, Data, Pending,
       Clock, Vigil, PromptlyNoticed, SdkScope, Top, DeadlineOf
  <1> QED
    BY <1>1, <1>2, <1>3, <1>4, <1>5, <1>6, <1>7, <1>8, <1>9, <1>10, <1>11
    DEF Next, Owner

LEMMA AlwaysGuarded == Spec => []Guarded
  BY InitGuarded, NextGuarded, PTL DEF Spec

---------------------------------------------------------------------------
(* The results.                                                            *)

\* The state of the guard, of its owner and of the monitors keeps its types:
\* depths and accounts never fall below zero.
THEOREM TypeCorrect == Spec => []TypeOK
  BY AlwaysGuarded, PTL DEF Guarded

\* close() cannot come between a capture and the disposal of its dataset.
THEOREM DataAlwaysOwned == Spec => []NoOrphanData
  <1>1. Guarded => NoOrphanData
    <2> SUFFICES ASSUME Guarded, raw # 0 PROVE active /\ raw <= Len(scopes)
      BY DEF NoOrphanData
    <2>1. active /\ raw <= op.depth /\ op.depth \in 1 .. Len(scopes) /\ raw \in Nat
      BY DEF Guarded, Data, Stack, TypeOK
    <2> QED
      BY <2>1 DEF Guarded, TypeOK
  <1> QED
    BY <1>1, AlwaysGuarded, PTL

\* With prompt monitors no deadline passes unnoticed, however the owner moves
\* it by opening and closing metadata spans or changing the frame count.
THEOREM DeadlinesWatched == Spec => []PromptlyNoticed
  BY AlwaysGuarded, PTL DEF Guarded

\* An operation that ends without an incident kept its SDK budget.
THEOREM EndsWithinBudget == Spec => HandedInTime
  <1>1. Guarded /\ [Next]_vars =>
          (active /\ ~active' /\ ~op'.stalled => op.sdk < op.budget)
    <2> SUFFICES ASSUME Guarded, [Next]_vars, active, ~active', ~op'.stalled
                 PROVE  op.sdk < op.budget
      OBVIOUS
    <2>1. op \in Operation /\ now \in Nat
      BY DEF Guarded, TypeOK
    <2>2. CASE Leave
      <3>1. Expired(op) = op /\ now < DeadlineOf(op)
        BY <2>1, <2>2, Expiry DEF Leave
      <3>2. op.metaDepth = 0
        BY <2>2, InSdkScope DEF Leave, Leaving
      <3> QED
        BY <2>1, <3>1, <3>2 DEF Guarded, Clock, DeadlineOf, Operation
    <2>3. CASE FinishLeave
      <3>1. op'.stalled = op.stalled /\ op.stalled
        BY <2>1, <2>3 DEF FinishLeave, Release, Keep, Guarded, Pending, Operation
      <3> QED
        BY <3>1
    <2>4. ~Leave /\ ~FinishLeave => active' = active
      BY DEF Next, Owner, EnterFirst, EnterNested, SetFrames, Confirm, Check,
         Raise, Capture, BeginMetadata, EndMetadata, Dispose, LeaveStalled,
         Reconnect, Watch, WatchLook, WatchWake, Tick, vars, guard
    <2> QED
      BY <2>2, <2>3, <2>4
  <1> QED
    BY <1>1, AlwaysGuarded, PTL DEF Spec, HandedInTime

\* An incident that an expiry records has the cause of the domain whose time
\* is up, for every operation whose deadlines agree with the time spent.
Blamed(o, e) ==
    \/ e.cause = "sdk" /\ o.sdk >= o.budget
    \/ e.cause = "metadata" /\ o.meta >= MetaBudget /\ o.sdk < o.budget
OnTheClock(o) ==
    /\ o.deadline = o.started + o.budget + o.metaElapsed
    /\ o.metaDepth = 0 => now = o.started + o.sdk + o.metaElapsed
    /\ o.metaDepth > 0 => now = o.metaStarted + o.meta /\ o.sdk < o.budget

LEMMA Blame ==
    ASSUME NEW o \in Operation, now \in Nat, OnTheClock(o), ~o.stalled,
           Expired(o).stalled
    PROVE  Blamed(o, Expired(o))
  <1>1. now >= DeadlineOf(o)
    BY DEF Expired
  <1>2. CASE o.metaDepth > 0
    <2>1. Expired(o) = [o EXCEPT !.stalled = TRUE, !.cause = "metadata"]
      BY <1>1, <1>2 DEF Expired, Quarantined
    <2>2. Expired(o).cause = "metadata"
      BY <2>1 DEF Operation
    <2>3. o.metaStarted + o.meta >= o.metaStarted + MetaBudget
      BY <1>1, <1>2 DEF DeadlineOf, OnTheClock
    <2>4. o.meta \in Nat /\ o.metaStarted \in Nat /\ MetaBudget \in Nat
      BY MetaBudgetPositive DEF Operation
    <2> QED
      BY <1>2, <2>2, <2>3, <2>4 DEF Blamed, OnTheClock
  <1>3. CASE o.metaDepth = 0
    <2>1. Expired(o) = [o EXCEPT !.stalled = TRUE, !.cause = "sdk"]
      BY <1>1, <1>3 DEF Expired, Quarantined
    <2>2. Expired(o).cause = "sdk"
      BY <2>1 DEF Operation
    <2>3. o.started + o.sdk + o.metaElapsed >= o.started + o.budget + o.metaElapsed
      BY <1>1, <1>3 DEF DeadlineOf, OnTheClock
    <2>4. o.sdk \in Nat /\ o.started \in Nat /\ o.budget \in Nat /\ o.metaElapsed \in Nat
      BY DEF Operation
    <2> QED
      BY <2>2, <2>3, <2>4 DEF Blamed
  <1> QED
    BY <1>2, <1>3 DEF Operation

\* What is left of an incident after a step: the operation, healthy before the
\* step, is stalled after it because its time was up, because the new frame
\* budget was spent already, or because its dataset could not be disposed of.
LEMMA StepBlame ==
    ASSUME Guarded, Next, active, ~op.stalled, op'.stalled
    PROVE  \/ op'.cause = "sdk" /\ op.sdk >= op'.budget
           \/ /\ op'.cause = "metadata" /\ op.meta >= MetaBudget
              /\ op.sdk < op.budget
           \/ op'.cause = "dispose"
  <1> DEFINE e == Expired(op)
  <1>1. op \in Operation /\ now \in Nat
    BY DEF Guarded, TypeOK
  <1>2. /\ e \in Operation /\ Account(e) = Account(op)
        /\ ~e.stalled => e = op
    BY <1>1, Expiry
  <1>3. OnTheClock(op)
    BY DEF Guarded, Clock, OnTheClock
  <1>4. e.stalled => Blamed(op, e)
    BY <1>1, <1>3, Blame
  <1>5. ASSUME e.stalled, op'.cause = e.cause, op'.budget = e.budget
        PROVE  \/ op'.cause = "sdk" /\ op.sdk >= op'.budget
               \/ /\ op'.cause = "metadata" /\ op.meta >= MetaBudget
                  /\ op.sdk < op.budget
    BY <1>2, <1>4, <1>5 DEF Blamed, Account
  <1>6. CASE \E k \in OpScopes : EnterNested(k)
    <2>1. op' = e \/ op' = [e EXCEPT !.depth = @ + 1]
      BY <1>6 DEF EnterNested, Keep
    <2>2. op'.stalled = e.stalled /\ op'.cause = e.cause /\ op'.budget = e.budget
      BY <1>2, <2>1 DEF Operation
    <2> QED
      BY <1>5, <2>2
  <1>7. CASE \E b \in Budgets : SetFrames(b)
    <2> PICK b \in Budgets : SetFrames(b)
      BY <1>7
    <2> DEFINE n == [e EXCEPT !.budget = b, !.deadline = e.started + b + e.metaElapsed]
    <2>1. op' = IF e.stalled THEN e ELSE Expired(n)
      BY DEF SetFrames, Keep
    <2>2. CASE e.stalled
      BY <1>5, <2>1, <2>2
    <2>3. CASE ~e.stalled
      <3>1. e = op /\ op.metaDepth = 0 /\ b \in Nat
        <4>1. op.metaDepth = 0
          BY InSdkScope DEF SetFrames
        <4>2. b \in Nat
          BY BudgetsPositive
        <4> HIDE DEF n, e
        <4> QED
          BY <1>2, <2>3, <4>1, <4>2
      <3>2. n \in Operation
        <4>1. e.started + b + e.metaElapsed \in Nat
          BY <1>1, <3>1 DEF Operation
        <4> HIDE DEF e
        <4> QED
          BY <1>2, <3>1, <4>1 DEF Operation
      <3>3. /\ n.sdk = op.sdk /\ n.stalled = op.stalled /\ n.budget = b
            /\ n.started = op.started /\ n.metaElapsed = op.metaElapsed
            /\ n.metaDepth = 0 /\ n.deadline = op.started + b + op.metaElapsed
        BY <1>1, <3>1 DEF Operation
      <3> HIDE DEF n, e
      <3>4. OnTheClock(n)
        BY <1>3, <3>1, <3>3 DEF OnTheClock
      <3>5. op' = Expired(n) /\ Expired(n).stalled
        BY <2>1, <2>3
      <3>6. Blamed(n, op')
        BY <1>1, <3>2, <3>3, <3>4, <3>5, Blame
      <3>7. now >= DeadlineOf(n)
        BY <3>2, <3>3, <3>5 DEF Expired
      <3>8. op' = [n EXCEPT !.stalled = TRUE, !.cause = "sdk"]
        BY <3>3, <3>5, <3>7 DEF Expired, Quarantined
      <3>9. op'.cause = "sdk" /\ op'.budget = n.budget
        BY <3>2, <3>8 DEF Operation
      <3> QED
        BY <3>3, <3>6, <3>9 DEF Blamed
    <2> QED
      BY <2>2, <2>3
  <1>8. CASE Check \/ LeaveStalled \/ (\E o \in Ops : WatchLook(o))
    <2>1. op' = e
      BY <1>8 DEF Check, LeaveStalled, WatchLook, Keep, guard
    <2> QED
      BY <1>5, <2>1
  <1>9. CASE \E k \in MetaScopes : BeginMetadata(k)
    <2>1. \/ op' = e
          \/ op' = [e EXCEPT !.metaDepth = @ + 1]
          \/ op' = [e EXCEPT !.metaDepth = 1, !.metaStarted = now, !.meta = 0]
      BY <1>9 DEF BeginMetadata, Keep
    <2>2. op'.stalled = e.stalled /\ op'.cause = e.cause /\ op'.budget = e.budget
      BY <1>2, <2>1 DEF Operation
    <2> QED
      BY <1>5, <2>2
  <1>10. CASE EndMetadata
    <2>1. \/ op' = [e EXCEPT !.metaDepth = @ - 1]
          \/ op' = [e EXCEPT !.metaDepth = 0, !.deadline = @ + Elapsed(e),
                             !.metaElapsed = @ + Elapsed(e)]
      BY <1>10 DEF EndMetadata, Keep
    <2>2. op'.stalled = e.stalled /\ op'.cause = e.cause /\ op'.budget = e.budget
      BY <1>2, <2>1 DEF Operation
    <2> QED
      BY <1>5, <2>2
  <1>11. CASE \E succeeds \in BOOLEAN : Dispose(succeeds)
    <2>1. op' = e \/ op' = Quarantined(e, "dispose")
      BY <1>11 DEF Dispose, Keep
    <2>2. CASE e.stalled
      BY <1>5, <2>1, <2>2 DEF Quarantined
    <2>3. CASE ~e.stalled
      <3>1. op' = [e EXCEPT !.stalled = TRUE, !.cause = "dispose"]
        BY <2>1, <2>3 DEF Quarantined
      <3> QED
        BY <1>2, <3>1 DEF Operation
    <2> QED
      BY <2>2, <2>3
  <1>12. CASE Leave
    <2>1. op' = [op EXCEPT !.depth = @ - 1]
      BY <1>2, <1>12 DEF Leave, Release, Keep
    <2> QED
      BY <1>1, <2>1 DEF Operation
  <1>13. CASE FinishLeave
    BY <1>13 DEF FinishLeave, Guarded, Pending
  <1>14. CASE Tick
    <2>1. op' = [op EXCEPT !.meta = @ + 1] \/ op' = [op EXCEPT !.sdk = @ + 1]
      BY <1>14 DEF Tick
    <2> QED
      BY <1>1, <2>1 DEF Operation
  <1>15. CASE \/ \E k \in OpScopes, b \in Budgets : EnterFirst(k, b)
              \/ Confirm \/ Raise \/ Capture \/ Reconnect
              \/ \E o \in Ops : WatchWake(o)
    BY <1>15 DEF EnterFirst, Confirm, Raise, Capture, Reconnect, WatchWake, guard
  <1> QED
    BY <1>6, <1>7, <1>8, <1>9, <1>10, <1>11, <1>12, <1>13, <1>14, <1>15
    DEF Next, Owner, Watch

\* The incident on record names the domain that ran out.
THEOREM BlameAlwaysRight == Spec => BlameIsRight
  <1>1. Guarded /\ [Next]_vars =>
          (active /\ ~op.stalled /\ op'.stalled =>
             \/ op'.cause = "sdk" /\ op.sdk >= op'.budget
             \/ op'.cause = "metadata" /\ op.meta >= MetaBudget
                /\ op.sdk < op.budget
             \/ op'.cause = "dispose")
    BY StepBlame DEF vars, guard
  <1> QED
    BY <1>1, AlwaysGuarded, PTL DEF Spec, BlameIsRight

LEMMA StepLatched ==
    ASSUME Guarded, Next
    PROVE  /\ recovery => cur' = cur
           /\ recovery /\ active => recovery'
           /\ active /\ op.stalled => op'.stalled /\ op'.cause = op.cause
  <1> DEFINE e == Expired(op)
  <1>1. op \in Operation /\ now \in Nat /\ recovery \in BOOLEAN
    BY DEF Guarded, TypeOK
  <1>2. e \in Operation /\ (op.stalled => e = op)
    BY <1>1, Expiry
  <1>3. recovery => cur' = cur
    BY DEF Next, Owner, EnterFirst, EnterNested, SetFrames, Confirm, Check,
       Raise, Capture, BeginMetadata, EndMetadata, Dispose, Leave, LeaveStalled,
       FinishLeave, Reconnect, Watch, WatchLook, WatchWake, Tick, guard
  <1>4. recovery /\ active => recovery'
    BY DEF Next, Owner, EnterFirst, EnterNested, SetFrames, Confirm, Check,
       Raise, Capture, BeginMetadata, EndMetadata, Dispose, Leave, LeaveStalled,
       FinishLeave, Release, Keep, Reconnect, Watch, WatchLook, WatchWake, Tick,
       guard
  <1>5. ASSUME active, op.stalled
        PROVE  op'.stalled /\ op'.cause = op.cause
    <2>1. e = op
      BY <1>2, <1>5
    <2>2. CASE (\E k \in OpScopes : EnterNested(k)) \/ (\E b \in Budgets : SetFrames(b))
              \/ Check \/ LeaveStalled \/ Leave \/ (\E o \in Ops : WatchLook(o))
      BY <1>5, <2>1, <2>2 DEF EnterNested, SetFrames, Check, LeaveStalled, Leave,
         WatchLook, Keep, guard
    <2>3. CASE \E k \in MetaScopes : BeginMetadata(k)
      <3>1. \/ op' = op
            \/ op' = [op EXCEPT !.metaDepth = @ + 1]
            \/ op' = [op EXCEPT !.metaDepth = 1, !.metaStarted = now, !.meta = 0]
        BY <2>1, <2>3 DEF BeginMetadata, Keep
      <3> QED
        BY <1>1, <1>5, <3>1 DEF Operation
    <2>4. CASE EndMetadata
      <3>1. \/ op' = [op EXCEPT !.metaDepth = @ - 1]
            \/ op' = [op EXCEPT !.metaDepth = 0, !.deadline = @ + Elapsed(op),
                                !.metaElapsed = @ + Elapsed(op)]
        BY <2>1, <2>4 DEF EndMetadata, Keep
      <3> QED
        BY <1>1, <1>5, <3>1 DEF Operation
    <2>5. CASE \E succeeds \in BOOLEAN : Dispose(succeeds)
      BY <1>5, <2>1, <2>5 DEF Dispose, Keep, Quarantined
    <2>6. CASE FinishLeave
      <3>1. op' = [op EXCEPT !.depth = @ - 1]
        BY <2>6 DEF FinishLeave, Release, Keep
      <3> QED
        BY <1>1, <1>5, <3>1 DEF Operation
    <2>7. CASE Tick
      <3>1. op' = [op EXCEPT !.meta = @ + 1] \/ op' = [op EXCEPT !.sdk = @ + 1]
        BY <1>5, <2>7 DEF Tick
      <3> QED
        BY <1>1, <1>5, <3>1 DEF Operation
    <2>8. CASE \/ \E k \in OpScopes, b \in Budgets : EnterFirst(k, b)
               \/ Confirm \/ Raise \/ Capture \/ Reconnect
               \/ \E o \in Ops : WatchWake(o)
      BY <1>5, <2>8 DEF EnterFirst, Confirm, Raise, Capture, Reconnect, WatchWake, guard
    <2> QED
      BY <2>2, <2>3, <2>4, <2>5, <2>6, <2>7, <2>8 DEF Next, Owner, Watch
  <1> QED
    BY <1>3, <1>4, <1>5

\* A quarantined connection starts nothing, keeps its first incident and is
\* given up only when no operation is left on it.
THEOREM QuarantineAlwaysLatched == Spec => QuarantineLatched
  <1>1. Guarded /\ [Next]_vars =>
          /\ recovery => cur' = cur
          /\ recovery /\ active => recovery'
          /\ active /\ op.stalled => op'.stalled /\ op'.cause = op.cause
    BY StepLatched DEF vars, guard
  <1> QED
    BY <1>1, AlwaysGuarded, PTL DEF Spec, QuarantineLatched

=============================================================================
