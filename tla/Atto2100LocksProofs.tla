------------------------ MODULE Atto2100LocksProofs ------------------------
(***************************************************************************)
(* Proofs about the locks of the attoDRY2100 controller, for any number of *)
(* requests, calls and clients.                                            *)
(*                                                                         *)
(* Leads is a Hoare triple of programs: called with the locks K, p may go  *)
(* on with L.  It says that p takes locks in order and keeps none it has   *)
(* not taken.  Duty(p, R) says that p decides on requests of R only, and   *)
(* on each of them once.  Every program and what every action makes of one *)
(* have both, which gives mutual exclusion, the order of the locks, and    *)
(* that one thread at a time decides what becomes of a request.            *)
(***************************************************************************)
EXTENDS Atto2100Locks, SequenceTheorems, TLAPS

Shared == {Controller, Mailbox, Diagnostics}

(* The order of the locks: what may be wanted inside a shared lock.         *)
Later(l) == CASE l = Controller -> Locks
              [] l = Mailbox -> Locks \ {Controller}
              [] OTHER -> Requests

Setters == Finals \cup {"running"}
Single  == Setters \cup {"discard", "expire", "begin", "judge"}
Loops   == {"look", "cancel"}
Deeds   == Single \cup Loops \cup {"take", "scan", "admit", "put", "stop", "find",
             "sweep", "forget", "pop", "emit"}
Subjects == Locks \cup Kinds \cup (SUBSET Requests) \cup (SUBSET Kinds)
Steps == [do : Deeds, takes : SUBSET Locks, of : Subjects, in : SUBSET Locks]

(* What each step takes, speaks of and may be done in.                      *)
Proper(s) ==
  /\ s \in Steps
  /\ s.do \in Single => s.of \in Requests /\ s.takes = {s.of}
  /\ s.do \in Loops  => s.of \in SUBSET Requests /\ s.takes = {}
  /\ s.do \in {"put", "forget", "emit"} => s.of \in Requests
  /\ s.do \in {"scan", "find", "forget"} => s.takes = {Controller}
  /\ s.do \in {"sweep", "put", "pop"} => s.takes = {Mailbox}
  /\ s.do \in {"admit", "stop", "emit"} => s.takes = {}
  /\ s.do = "admit" => s.of \in Kinds
  /\ s.do = "sweep" => s.of \in SUBSET Kinds
  /\ s.do = "take" => s.of \in Locks /\ s.takes = {s.of}
  /\ s.do \in {"scan", "find", "pop", "begin", "judge", "emit", "expire"} => s.in = {}
  /\ s.do \in {"look", "admit", "stop"} => s.in = {Controller}
  /\ s.do \in {"put", "forget", "sweep"} => s.in \in SUBSET {Controller}
  /\ s.do \in Setters \cup {"cancel", "discard"} => s.in \in SUBSET {Controller, Mailbox}
  /\ s.do \in {"cancel", "discard"} => Mailbox \in s.in
  /\ s.do = "take" =>
       \/ s.in \in SUBSET Shared /\ \A l \in s.in : s.of \in Later(l)
       \/ s.of = Controller /\ \E r \in Requests : s.in = {r}

(* The locks a thread may be in after a step: that of a request is left.    *)
After(s) == s.in \cup (s.takes \ Requests)

Leads(K, p, L) ==
  /\ p \in Seq(Steps)
  /\ \A i \in 1..Len(p) : Proper(p[i])
  /\ \A i \in 1..Len(p) : i < Len(p) => p[i+1].in \subseteq After(p[i])
  /\ p = <<>> => L \subseteq K
  /\ p # <<>> => p[1].in \subseteq K /\ L \subseteq After(p[Len(p)])

(* The requests a step decides on.                                          *)
Charge(s) == IF s.do \in Setters \cup {"begin", "judge", "put"} THEN {s.of}
             ELSE IF s.do = "cancel" THEN s.of ELSE {}
Charges(p) == {r \in Requests : \E i \in 1..Len(p) : r \in Charge(p[i])}
Once(p) == \A i, j \in 1..Len(p) : \A r \in Requests :
             i < j /\ r \in Charge(p[i]) /\ r \in Charge(p[j]) => p[i].do = "running"
Duty(p, R) == Once(p) /\ Charges(p) \subseteq R

States == {"unused", "queued", "running", "timedout"} \cup Finals
TypeOK ==
  /\ state \in [Requests -> States] /\ kind \in [Requests -> Kinds]
  /\ registered \in SUBSET Requests /\ mailbox \in SUBSET Requests
  /\ ended \in SUBSET Requests /\ armed \in SUBSET Requests
  /\ DOMAIN todo = Threads

Ordered == \A t \in Threads : Leads(Held(t), todo[t], {})
Exclusive == \A t, u \in Threads : \A l \in Locks :
               l \in Held(t) /\ l \in Held(u) => t = u
(* Only a timeout wants a lock inside that of a request.                    *)
Marked == \A t \in Threads : \A r \in Requests : r \in Held(t) => state[r] = "timedout"

Open(r) == state[r] \notin Finals \cup {"unused"}
Custody ==
  /\ \A t \in Threads : Once(todo[t])
  /\ \A t \in Threads : \A r \in Charges(todo[t]) : r \notin mailbox /\ Open(r)
  /\ \A t, u \in Threads : \A r \in Charges(todo[t]) : r \in Charges(todo[u]) => t = u
  /\ \A r \in mailbox : Open(r)

Locked == TypeOK /\ Ordered /\ Exclusive /\ Marked /\ Custody
-----------------------------------------------------------------------------
(* Programs.                                                               *)

LEMMA Names ==
  /\ Shared \cap Requests = {} /\ Locks = Shared \cup Requests
  /\ Requests \subseteq Nat /\ Requests \subseteq Locks /\ Shared \subseteq Locks
  /\ Controller # Mailbox /\ Controller # Diagnostics /\ Mailbox # Diagnostics
BY LocksDistinct, BoundsNatural DEF Shared, Locks, Requests

LEMMA SingleStep ==
  ASSUME NEW do, NEW takes, NEW of, NEW in, NEW K, NEW L,
         LET s == [do |-> do, takes |-> takes, of |-> of, in |-> in]
         IN  Proper(s) /\ in \subseteq K /\ L \subseteq After(s)
  PROVE  Leads(K, One(do, takes, of, in), L)
<1> DEFINE s == [do |-> do, takes |-> takes, of |-> of, in |-> in]
<1>1. One(do, takes, of, in) = <<s>>
  BY DEF One
<1>2. s \in Steps /\ s.in = in
  BY DEF Proper
<1>3. <<s>> \in Seq(Steps) /\ Len(<<s>>) = 1 /\ <<s>>[1] = s
  BY <1>2
<1>4. QED BY <1>1, <1>2, <1>3 DEF Leads

LEMMA Nothing == ASSUME NEW K PROVE Leads(K, <<>>, K)
BY DEF Leads

LEMMA Weaken ==
  ASSUME NEW K, NEW p, NEW L, Leads(K, p, L), NEW M, K \subseteq M, NEW N, N \subseteq L
  PROVE  Leads(M, p, N)
BY DEF Leads

LEMMA Compose ==
  ASSUME NEW K, NEW p, NEW L, NEW q, NEW M, Leads(K, p, L), Leads(L, q, M)
  PROVE  Leads(K, p \o q, M)
<1>1. p \in Seq(Steps) /\ q \in Seq(Steps)
  BY DEF Leads
<1>2. CASE p = <<>>
  <2>1. p \o q = q
    BY <1>1, <1>2
  <2>2. QED BY <1>2, <2>1 DEF Leads
<1>3. CASE q = <<>>
  <2>1. p \o q = p
    BY <1>1, <1>3
  <2>2. QED BY <1>2, <1>3, <2>1 DEF Leads
<1>4. CASE p # <<>> /\ q # <<>>
  <2> DEFINE c == p \o q
  <2>1. /\ Len(p) \in Nat \ {0} /\ Len(q) \in Nat \ {0} /\ Len(c) = Len(p) + Len(q)
        /\ c \in Seq(Steps) /\ c # <<>>
    BY <1>1, <1>4
  <2>2. /\ \A i \in 1..Len(p) : c[i] = p[i]
        /\ \A i \in 1..Len(q) : c[Len(p) + i] = q[i]
    BY <1>1
  <2>3. \A i \in 1..Len(c) : i \in 1..Len(p) \/ (i - Len(p) \in 1..Len(q) /\ c[i] = q[i - Len(p)])
    BY <2>1, <2>2
  <2>4. \A i \in 1..Len(c) : Proper(c[i])
    BY <2>2, <2>3 DEF Leads
  <2>5. ASSUME NEW i \in 1..Len(c), i < Len(c) PROVE c[i+1].in \subseteq After(c[i])
    <3>1. CASE i < Len(p)
      BY <2>1, <2>2, <3>1 DEF Leads
    <3>2. CASE i = Len(p)
      <4>1. c[i] = p[Len(p)] /\ c[i+1] = q[1]
        BY <2>1, <2>2, <3>2
      <4>2. QED BY <1>4, <4>1 DEF Leads
    <3>3. CASE i > Len(p)
      <4> DEFINE j == i - Len(p)
      <4>1. j \in 1..Len(q) /\ j < Len(q) /\ c[i] = q[j] /\ c[i+1] = q[j+1]
        <5>1. j \in 1..Len(q) /\ j + 1 \in 1..Len(q) /\ i = Len(p) + j /\ i + 1 = Len(p) + (j + 1)
          BY <2>1, <2>5, <3>3
        <5> QED BY <5>1, <2>1, <2>2
      <4>2. QED BY <4>1 DEF Leads
    <3>4. i < Len(p) \/ i = Len(p) \/ i > Len(p)
      <4>1. i \in Int /\ Len(p) \in Int
        BY <2>1
      <4>2. QED BY <4>1
    <3>5. QED BY <3>1, <3>2, <3>3, <3>4
  <2>6. c[1] = p[1] /\ c[Len(c)] = q[Len(q)]
    BY <2>1, <2>2
  <2>7. QED BY <1>4, <2>1, <2>4, <2>5, <2>6 DEF Leads
<1>5. QED BY <1>2, <1>3, <1>4

LEMMA Popped ==
  ASSUME NEW K, NEW p, NEW L, Leads(K, p, L), p # <<>>
  PROVE  Proper(Head(p)) /\ Head(p).in \subseteq K /\ Leads(After(Head(p)), Tail(p), L)
<1>1. p \in Seq(Steps)
  BY DEF Leads
<1>2. /\ Len(p) \in Nat \ {0} /\ Head(p) = p[1] /\ Tail(p) \in Seq(Steps)
      /\ Len(Tail(p)) = Len(p) - 1
      /\ \A i \in 1..(Len(p) - 1) : Tail(p)[i] = p[i + 1]
  BY <1>1, EmptySeq, HeadTailProperties
<1>3. \A i \in 1..(Len(p) - 1) : i + 1 \in 1..Len(p)
  BY <1>2
<1>4. 1 \in 1..Len(p)
  BY <1>2
<1>5. Proper(Head(p)) /\ Head(p).in \subseteq K
  BY <1>2, <1>4 DEF Leads
<1>6. CASE Tail(p) = <<>>
  <2>1. Len(p) = 1
    BY <1>2, <1>6
  <2>2. L \subseteq After(Head(p))
    BY <1>2, <2>1 DEF Leads
  <2>3. Leads(After(Head(p)), <<>>, L)
    BY <2>2, Nothing, Weaken
  <2>4. QED BY <1>5, <1>6, <2>3
<1>7. CASE Tail(p) # <<>>
  <2>1. Len(p) > 1
    BY <1>2, <1>7, EmptySeq
  <2>2. Tail(p)[1] = p[2] /\ Tail(p)[Len(Tail(p))] = p[Len(p)]
    BY <1>2, <2>1
  <2>3. p[1+1].in \subseteq After(p[1])
    BY <1>4, <2>1 DEF Leads
  <2>4. \A i \in 1..Len(Tail(p)) : Proper(Tail(p)[i])
    BY <1>2, <1>3 DEF Leads
  <2>5. ASSUME NEW i \in 1..Len(Tail(p)), i < Len(Tail(p))
        PROVE  Tail(p)[i+1].in \subseteq After(Tail(p)[i])
    <3>1. i \in 1..(Len(p)-1) /\ i+1 \in 1..(Len(p)-1) /\ i+1 \in 1..Len(p) /\ i + 1 < Len(p)
      BY <1>2, <2>5
    <3>2. Tail(p)[i] = p[i+1] /\ Tail(p)[i+1] = p[(i+1)+1]
      BY <1>2, <3>1
    <3>3. QED BY <3>1, <3>2 DEF Leads
  <2>6. QED BY <1>2, <1>7, <2>2, <2>3, <2>4, <2>5 DEF Leads
<1>8. QED BY <1>5, <1>6, <1>7

(* What a concatenation decides on.                                        *)
LEMMA Parts ==
  ASSUME NEW p \in Seq(Steps), NEW q \in Seq(Steps)
  PROVE  /\ p \o q \in Seq(Steps) /\ Len(p \o q) = Len(p) + Len(q)
         /\ Len(p) \in Nat /\ Len(q) \in Nat
         /\ \A i \in 1..Len(p) : (p \o q)[i] = p[i]
         /\ \A i \in 1..Len(p \o q) :
              \/ i \in 1..Len(p) /\ (p \o q)[i] = p[i]
              \/ i > Len(p) /\ i - Len(p) \in 1..Len(q) /\ (p \o q)[i] = q[i - Len(p)]
OBVIOUS

LEMMA ChargesOf ==
  ASSUME NEW p \in Seq(Steps), NEW q \in Seq(Steps)
  PROVE  Charges(p \o q) \subseteq Charges(p) \cup Charges(q)
<1> SUFFICES ASSUME NEW r \in Charges(p \o q), r \notin Charges(p)
             PROVE  r \in Charges(q)
  OBVIOUS
<1>1. PICK i \in 1..Len(p \o q) : r \in Requests /\ r \in Charge((p \o q)[i])
  BY DEF Charges
<1>2. ~(i \in 1..Len(p) /\ (p \o q)[i] = p[i])
  BY <1>1 DEF Charges
<1>3. i - Len(p) \in 1..Len(q) /\ (p \o q)[i] = q[i - Len(p)]
  BY <1>1, <1>2, Parts
<1>4. QED BY <1>1, <1>3 DEF Charges

LEMMA Shares ==
  ASSUME NEW p \in Seq(Steps), NEW R, Duty(p, R),
         NEW q \in Seq(Steps), NEW Q, Duty(q, Q),
         \A r \in R \cap Q, i \in 1..Len(p) : r \in Charge(p[i]) => p[i].do = "running"
  PROVE  Duty(p \o q, R \cup Q)
<1> DEFINE c == p \o q
<1>1. Charges(c) \subseteq R \cup Q
  BY ChargesOf DEF Duty
<1>2. ASSUME NEW i \in 1..Len(c), NEW j \in 1..Len(c), NEW r \in Requests,
             i < j, r \in Charge(c[i]), r \in Charge(c[j])
      PROVE  c[i].do = "running"
  <2>1. i \in Int /\ j \in Int /\ Len(p) \in Nat
    BY Parts
  <2>2. CASE j \in 1..Len(p) /\ c[j] = p[j]
    <3>1. i \in 1..Len(p) /\ c[i] = p[i]
      BY <1>2, <2>1, <2>2, Parts
    <3>2. QED BY <1>2, <2>2, <3>1 DEF Duty, Once
  <2>3. CASE j > Len(p) /\ j - Len(p) \in 1..Len(q) /\ c[j] = q[j - Len(p)]
    <3>1. r \in Charges(q)
      BY <1>2, <2>3 DEF Charges
    <3>2. CASE i \in 1..Len(p) /\ c[i] = p[i]
      <4>1. r \in Charges(p)
        BY <1>2, <3>2 DEF Charges
      <4>2. QED BY <1>2, <3>1, <3>2, <4>1 DEF Duty
    <3>3. CASE i > Len(p) /\ i - Len(p) \in 1..Len(q) /\ c[i] = q[i - Len(p)]
      <4>1. i - Len(p) < j - Len(p)
        BY <1>2, <2>1
      <4>2. QED BY <1>2, <2>3, <3>3, <4>1 DEF Duty, Once
    <3>4. QED BY <3>2, <3>3, Parts
  <2>4. QED BY <2>2, <2>3, Parts
<1>3. QED BY <1>1, <1>2 DEF Duty, Once

(* A program called in K with R in its custody, that may go on with L.     *)
Safe(K, p, L, R) == Leads(K, p, L) /\ Duty(p, R)

LEMMA SafeStep ==
  ASSUME NEW do, NEW takes, NEW of, NEW in, NEW K, NEW L, NEW R,
         LET s == [do |-> do, takes |-> takes, of |-> of, in |-> in]
         IN  Proper(s) /\ in \subseteq K /\ L \subseteq After(s)
               /\ \A r \in Requests : r \in Charge(s) => r \in R
  PROVE  Safe(K, One(do, takes, of, in), L, R)
<1> DEFINE s == [do |-> do, takes |-> takes, of |-> of, in |-> in]
           p == One(do, takes, of, in)
<1>1. Leads(K, p, L)
  BY SingleStep
<1>2. p = <<s>> /\ Len(<<s>>) = 1 /\ <<s>>[1] = s
  BY DEF One
<1>3. Charges(p) \subseteq R
  BY <1>2 DEF Charges
<1>4. Once(p)
  <2>1. \A i, j \in 1..Len(p) : ~(i < j)
    BY <1>2
  <2>2. QED BY <2>1 DEF Once
<1>5. QED BY <1>1, <1>3, <1>4 DEF Safe, Duty

LEMMA SafeNothing == ASSUME NEW K, NEW R PROVE Safe(K, <<>>, K, R)
<1>1. Len(<<>>) = 0
  OBVIOUS
<1>2. Charges(<<>>) = {} /\ Once(<<>>)
  BY <1>1 DEF Charges, Once
<1>3. QED BY <1>2, Nothing DEF Safe, Duty

LEMMA SafeThen ==
  ASSUME NEW K, NEW p, NEW L, NEW R, Safe(K, p, L, R),
         NEW q, NEW M, NEW Q, Safe(L, q, M, Q), R \cap Q = {}
  PROVE  Safe(K, p \o q, M, R \cup Q)
<1>1. p \in Seq(Steps) /\ q \in Seq(Steps)
  BY DEF Safe, Leads
<1>2. Duty(p \o q, R \cup Q)
  BY <1>1, Shares DEF Safe
<1>3. Leads(K, p \o q, M)
  BY Compose DEF Safe
<1>4. QED BY <1>2, <1>3 DEF Safe

(* What is set to running may be decided on later.                         *)
LEMMA SafeRun ==
  ASSUME NEW K, NEW p, NEW L, NEW R, Safe(K, p, L, R),
         \A i \in 1..Len(p) : p[i].do = "running",
         NEW q, NEW M, Safe(L, q, M, R)
  PROVE  Safe(K, p \o q, M, R)
<1>1. p \in Seq(Steps) /\ q \in Seq(Steps)
  BY DEF Safe, Leads
<1>2. Duty(p \o q, R \cup R)
  BY <1>1, Shares DEF Safe
<1>3. Leads(K, p \o q, M)
  BY Compose DEF Safe
<1>4. R \cup R = R
  OBVIOUS
<1>5. QED BY <1>2, <1>3, <1>4 DEF Safe

LEMMA SafeWeaken ==
  ASSUME NEW K, NEW p, NEW L, NEW R, Safe(K, p, L, R),
         NEW M, K \subseteq M, NEW N, N \subseteq L, NEW Q, R \subseteq Q
  PROVE  Safe(M, p, N, Q)
BY Weaken DEF Safe, Duty

LEMMA SafePopped ==
  ASSUME NEW K, NEW p, NEW L, Leads(K, p, L), Once(p), p # <<>>
  PROVE  /\ Proper(Head(p)) /\ Head(p).in \subseteq K
         /\ Safe(After(Head(p)), Tail(p), L, Charges(Tail(p)))
         /\ Charges(Tail(p)) \subseteq Charges(p)
         /\ \A r \in Requests : r \in Charge(Head(p)) => r \in Charges(p)
         /\ Head(p).do # "running" =>
              \A r \in Charge(Head(p)) : r \notin Charges(Tail(p))
<1>1. p \in Seq(Steps)
  BY DEF Leads
<1>2. /\ Len(p) \in Nat \ {0} /\ Head(p) = p[1] /\ Tail(p) \in Seq(Steps)
      /\ Len(Tail(p)) = Len(p) - 1
      /\ \A i \in 1..(Len(p) - 1) : Tail(p)[i] = p[i + 1]
  BY <1>1, EmptySeq, HeadTailProperties
<1>3. \A i \in 1..Len(Tail(p)) : i + 1 \in 1..Len(p) /\ Tail(p)[i] = p[i + 1] /\ 1 < i + 1
  BY <1>2
<1>4. 1 \in 1..Len(p)
  BY <1>2
<1>5. Charges(Tail(p)) \subseteq Charges(p)
  BY <1>3 DEF Charges
<1>6. Once(Tail(p))
  <2> SUFFICES ASSUME NEW i \in 1..Len(Tail(p)), NEW j \in 1..Len(Tail(p)),
                      NEW r \in Requests, i < j,
                      r \in Charge(Tail(p)[i]), r \in Charge(Tail(p)[j])
               PROVE  Tail(p)[i].do = "running"
    BY DEF Once
  <2>1. i + 1 < j + 1
    BY <1>2
  <2>2. QED BY <1>3, <2>1 DEF Once
<1>7. ASSUME NEW r \in Charge(Head(p)), r \in Charges(Tail(p)), Head(p).do # "running"
      PROVE  FALSE
  <2>1. PICK i \in 1..Len(Tail(p)) : r \in Requests /\ r \in Charge(Tail(p)[i])
    BY <1>7 DEF Charges
  <2>2. QED BY <1>2, <1>3, <1>4, <1>7, <2>1 DEF Once
<1>8. \A r \in Requests : r \in Charge(Head(p)) => r \in Charges(p)
  BY <1>2, <1>4 DEF Charges
<1>9. QED BY <1>5, <1>6, <1>7, <1>8, Popped DEF Safe, Duty

-----------------------------------------------------------------------------
(* The programs of the controller.                                         *)

LEMMA SafeTake ==
  ASSUME NEW l \in Locks, NEW L \in SUBSET Shared, \A m \in L : l \in Later(m),
         NEW M, M \subseteq L \cup ({l} \ Requests)
  PROVE  Safe(L, Take(l, L), M, {})
<1> DEFINE s == [do |-> "take", takes |-> {l}, of |-> l, in |-> L]
<1>1. Proper(s)
  <2>1. s \in Steps
    BY Names DEF Steps, Subjects, Deeds
  <2>2. QED BY <2>1 DEF Proper, Single, Setters, Finals, Loops
<1>2. Charge(s) = {}
  BY DEF Charge, Setters, Finals
<1>3. QED BY <1>1, <1>2, SafeStep DEF Take, After

LEMMA SafeTimeout ==
  ASSUME NEW r \in Requests
  PROVE  Safe({r}, Take(Controller, {r}), {}, {})
<1> DEFINE s == [do |-> "take", takes |-> {Controller}, of |-> Controller, in |-> {r}]
<1>1. Proper(s)
  <2>1. s \in Steps
    BY Names DEF Steps, Subjects, Deeds, Shared
  <2>2. QED BY <2>1, Names DEF Proper, Single, Setters, Finals, Loops, Shared
<1>2. Charge(s) = {}
  BY DEF Charge, Setters, Finals
<1>3. QED BY <1>1, <1>2, SafeStep DEF Take, After

LEMMA SafeSet ==
  ASSUME NEW r \in Requests, NEW s \in Setters, NEW L \in SUBSET {Controller, Mailbox}
  PROVE  Safe(L, SetState(r, s, L), L, {r})
<1> DEFINE x == [do |-> s, takes |-> {r}, of |-> r, in |-> L]
<1>1. Proper(x)
  <2>1. x \in Steps
    BY Names DEF Steps, Subjects, Deeds, Single, Shared
  <2>2. QED BY <2>1 DEF Proper, Single, Setters, Finals, Loops
<1>2. Charge(x) = {r}
  BY DEF Charge
<1>3. QED BY <1>1, <1>2, SafeStep DEF SetState, After

LEMMA SafeDrained ==
  ASSUME NEW r \in Requests, NEW L \in SUBSET {Controller, Mailbox}
  PROVE  Safe(L, Drained(r, L), L, {})
<1>1. Safe(L, Take(Diagnostics, L), L \cup {Diagnostics}, {})
  BY SafeTake, Names DEF Later, Shared
<1>2. Safe(L \cup {Diagnostics}, Take(r, L \cup {Diagnostics}), L, {})
  BY SafeTake, Names DEF Later, Shared
<1>3. QED BY <1>1, <1>2, SafeThen DEF Drained

(* A step that decides on nothing, by its kind.                            *)
LEMMA SafeForget ==
  ASSUME NEW r \in Requests, NEW L \in SUBSET {Controller}, NEW M, M \subseteq L \cup {Controller}
  PROVE  Safe(L, Forget(r, L), M, {})
<1> DEFINE s == [do |-> "forget", takes |-> {Controller}, of |-> r, in |-> L]
<1>1. Proper(s)
  <2>1. s \in Steps
    BY Names DEF Steps, Subjects, Deeds, Shared
  <2>2. QED BY <2>1 DEF Proper, Single, Setters, Finals, Loops
<1>2. Charge(s) = {}
  BY DEF Charge, Setters, Finals
<1>3. M \subseteq After(s)
  BY Names DEF After, Shared
<1>4. QED BY <1>1, <1>2, <1>3, SafeStep DEF Forget

LEMMA SafeCancelRequest ==
  ASSUME NEW r \in Requests, NEW L \in SUBSET {Controller}
  PROVE  Safe(L, CancelRequest(r, L), L, {})
<1>1. Safe(L, Take(Mailbox, L), L \cup {Mailbox}, {})
  BY SafeTake, Names DEF Later, Shared
<1>2. Safe(L \cup {Mailbox}, One("discard", {r}, r, L \cup {Mailbox}), L, {})
  <2> DEFINE s == [do |-> "discard", takes |-> {r}, of |-> r, in |-> L \cup {Mailbox}]
  <2>1. Proper(s)
    <3>1. s \in Steps
      BY Names DEF Steps, Subjects, Deeds, Single, Shared
    <3>2. QED BY <3>1 DEF Proper, Single, Setters, Finals, Loops
  <2>2. Charge(s) = {}
    BY DEF Charge, Setters, Finals
  <2>3. QED BY <2>1, <2>2, SafeStep DEF After
<1>3. QED BY <1>1, <1>2, SafeThen DEF CancelRequest

LEMMA SafeScan == Safe({}, Scan({}), {Controller}, {})
<1> DEFINE s == [do |-> "scan", takes |-> {Controller}, of |-> Controller, in |-> {}]
<1>1. Proper(s)
  <2>1. s \in Steps
    BY Names DEF Steps, Subjects, Deeds, Shared
  <2>2. QED BY <2>1 DEF Proper, Single, Setters, Finals, Loops
<1>2. Charge(s) = {}
  BY DEF Charge, Setters, Finals
<1>3. {Controller} \subseteq After(s)
  BY Names DEF After, Shared
<1>4. QED BY <1>1, <1>2, <1>3, SafeStep DEF Scan

LEMMA SafeAdmit ==
  ASSUME NEW k \in Kinds
  PROVE  Safe({Controller}, One("admit", {}, k, {Controller}), {Controller}, {})
<1> DEFINE s == [do |-> "admit", takes |-> {}, of |-> k, in |-> {Controller}]
<1>1. Proper(s)
  <2>1. s \in Steps
    BY Names DEF Steps, Subjects, Deeds, Shared
  <2>2. QED BY <2>1 DEF Proper, Single, Setters, Finals, Loops
<1>2. Charge(s) = {}
  BY DEF Charge, Setters, Finals
<1>3. QED BY <1>1, <1>2, SafeStep DEF After

LEMMA SafeSweep ==
  ASSUME NEW K \in SUBSET Kinds, NEW L \in SUBSET {Controller}
  PROVE  Safe(L, CancelQueued(K, L), L, {})
<1> DEFINE s == [do |-> "sweep", takes |-> {Mailbox}, of |-> K, in |-> L]
<1>1. Proper(s)
  <2>1. s \in Steps
    <3>1. K \in Subjects
      BY DEF Subjects
    <3>2. "sweep" \in Deeds
      BY DEF Deeds
    <3>3. {Mailbox} \in SUBSET Locks /\ L \in SUBSET Locks
      BY Names DEF Shared
    <3>4. QED BY <3>1, <3>2, <3>3 DEF Steps
  <2>2. QED BY <2>1 DEF Proper, Single, Setters, Finals, Loops
<1>2. Charge(s) = {}
  BY DEF Charge, Setters, Finals
<1>3. QED BY <1>1, <1>2, SafeStep DEF After, CancelQueued

LEMMA SafeStop == Safe({}, RequestStop, {}, {})
<1>1. Safe({Controller}, One("stop", {}, Controller, {Controller}), {}, {})
  <2> DEFINE s == [do |-> "stop", takes |-> {}, of |-> Controller, in |-> {Controller}]
  <2>1. Proper(s)
    <3>1. s \in Steps
      BY Names DEF Steps, Subjects, Deeds, Shared
    <3>2. QED BY <3>1 DEF Proper, Single, Setters, Finals, Loops
  <2>2. Charge(s) = {}
    BY DEF Charge, Setters, Finals
  <2>3. QED BY <2>1, <2>2, SafeStep
<1>2. QED BY <1>1, SafeScan, SafeThen DEF RequestStop

LEMMA SafeSubmit == ASSUME NEW k \in Kinds PROVE Safe({}, Submit(k), {}, {})
<1>1. Safe({}, Submit(k), {Controller}, {})
  BY SafeScan, SafeAdmit, SafeThen DEF Submit
<1>2. QED BY <1>1, SafeWeaken

LEMMA SafeShutdown ==
  Safe({}, RequestShutdown, {}, {}) /\ Safe({}, ShutdownRefused, {}, {})
<1>1. Safe({}, Scan({}), {}, {})
  BY SafeScan, SafeWeaken
<1>2. Safe({}, CancelQueued(Kinds \ {"stop"}, {}), {}, {})
  BY SafeSweep
<1>3. Safe({}, Scan({}), {Controller}, {})
  BY SafeScan
<1>4. Safe({Controller}, One("admit", {}, "stop", {Controller}), {}, {})
  BY SafeAdmit, SafeWeaken DEF Kinds
<1>5. Safe({}, RequestShutdown, {}, {})
  <2>1. Safe({}, Scan({}) \o CancelQueued(Kinds \ {"stop"}, {}), {}, {})
    BY <1>1, <1>2, SafeThen
  <2>2. Safe({}, Scan({}) \o CancelQueued(Kinds \ {"stop"}, {}) \o Scan({}),
             {Controller}, {})
    BY <1>3, <2>1, SafeThen
  <2>3. QED BY <1>4, <2>2, SafeThen DEF RequestShutdown
<1>6. Safe({Controller}, Take(Diagnostics, {Controller}), {}, {})
  BY SafeTake, Names DEF Shared, Later
<1>7. QED BY <1>5, <1>6, SafeScan, SafeThen DEF ShutdownRefused

LEMMA SafeFind == Safe({}, CancelPreparation, {}, {})
<1> DEFINE s == [do |-> "find", takes |-> {Controller}, of |-> Controller, in |-> {}]
<1>1. Proper(s)
  <2>1. s \in Steps
    BY Names DEF Steps, Subjects, Deeds, Shared
  <2>2. QED BY <2>1 DEF Proper, Single, Setters, Finals, Loops
<1>2. Charge(s) = {}
  BY DEF Charge, Setters, Finals
<1>3. QED BY <1>1, <1>2, SafeStep DEF CancelPreparation

LEMMA SafeCallerTimeout ==
  ASSUME NEW r \in Requests PROVE Safe({}, CallerTimeout(r), {}, {})
<1>1. Safe({}, One("expire", {r}, r, {}), {}, {})
  <2> DEFINE s == [do |-> "expire", takes |-> {r}, of |-> r, in |-> {}]
  <2>1. Proper(s)
    <3>1. s \in Steps
      BY Names DEF Steps, Subjects, Deeds, Single
    <3>2. QED BY <3>1 DEF Proper, Single, Setters, Finals, Loops
  <2>2. Charge(s) = {}
    BY DEF Charge, Setters, Finals
  <2>3. QED BY <2>1, <2>2, SafeStep
<1>2. QED BY <1>1, SafeCancelRequest, SafeThen DEF CallerTimeout

LEMMA SafeTerminal ==
  ASSUME NEW r \in Requests PROVE Safe({}, RequestTerminal(r), {}, {})
<1>1. Safe({}, Forget(r, {}), {Controller}, {})
  BY SafeForget
<1>2. Safe({Controller}, Take(r, {Controller}), {Controller}, {})
  BY SafeTake, Names DEF Shared, Later
<1>3. Safe({Controller}, Drained(r, {Controller}), {Controller}, {})
  BY SafeDrained
<1>4. Safe({}, Forget(r, {}) \o Take(r, {Controller}), {Controller}, {})
  BY <1>1, <1>2, SafeThen
<1>5. Safe({}, RequestTerminal(r), {Controller}, {})
  BY <1>3, <1>4, SafeThen DEF RequestTerminal
<1>6. QED BY <1>5, SafeWeaken

LEMMA SafeDrain == Safe({}, Drain, {}, {})
<1> DEFINE s == [do |-> "pop", takes |-> {Mailbox}, of |-> Mailbox, in |-> {}]
<1>1. Proper(s)
  <2>1. s \in Steps
    BY Names DEF Steps, Subjects, Deeds, Shared
  <2>2. QED BY <2>1 DEF Proper, Single, Setters, Finals, Loops
<1>2. Charge(s) = {}
  BY DEF Charge, Setters, Finals
<1>3. QED BY <1>1, <1>2, SafeStep DEF Drain

LEMMA SafeLook ==
  ASSUME NEW R \in SUBSET Requests
  PROVE  Safe({Controller}, Loop("look", R, {Controller}), {Controller}, {})
<1> DEFINE s == [do |-> "look", takes |-> {}, of |-> R, in |-> {Controller}]
<1>1. Proper(s)
  <2>1. s \in Steps
    BY Names DEF Steps, Subjects, Deeds, Loops, Shared
  <2>2. QED BY <2>1 DEF Proper, Single, Setters, Finals, Loops
<1>2. Charge(s) = {}
  BY DEF Charge, Setters, Finals
<1>3. Safe({Controller}, One("look", {}, R, {Controller}), {Controller}, {})
  BY <1>1, <1>2, SafeStep DEF After
<1>4. QED BY <1>3, SafeNothing DEF Loop

LEMMA SafeCancelAll ==
  ASSUME NEW R \in SUBSET Requests, NEW L \in SUBSET {Controller, Mailbox}, Mailbox \in L
  PROVE  Safe(L, Loop("cancel", R, L), L, R)
<1> DEFINE s == [do |-> "cancel", takes |-> {}, of |-> R, in |-> L]
<1>1. Proper(s)
  <2>1. s \in Steps
    BY Names DEF Steps, Subjects, Deeds, Loops, Shared
  <2>2. QED BY <2>1 DEF Proper, Single, Setters, Finals, Loops
<1>2. Charge(s) = R
  BY DEF Charge, Setters, Finals
<1>3. Safe(L, One("cancel", {}, R, L), L, R)
  BY <1>1, <1>2, SafeStep DEF After
<1>4. QED BY <1>3, SafeNothing DEF Loop

(* The owner's steps with a request.                                       *)
LEMMA SafeOwner ==
  ASSUME NEW r \in Requests
  PROVE  /\ Safe({}, One("begin", {r}, r, {}), {}, {r})
         /\ Safe({}, Finish(r), {}, {r})
         /\ Safe({}, One("emit", {}, r, {}), {}, {})
<1>1. ASSUME NEW do \in {"begin", "judge"} PROVE Safe({}, One(do, {r}, r, {}), {}, {r})
  <2> DEFINE s == [do |-> do, takes |-> {r}, of |-> r, in |-> {}]
  <2>1. Proper(s)
    <3>1. s \in Steps
      BY Names DEF Steps, Subjects, Deeds, Single
    <3>2. QED BY <3>1 DEF Proper, Single, Setters, Finals, Loops
  <2>2. Charge(s) = {r}
    BY DEF Charge
  <2>3. QED BY <2>1, <2>2, SafeStep
<1>2. Safe({}, One("emit", {}, r, {}), {}, {})
  <2> DEFINE s == [do |-> "emit", takes |-> {}, of |-> r, in |-> {}]
  <2>1. Proper(s)
    <3>1. s \in Steps
      BY Names DEF Steps, Subjects, Deeds
    <3>2. QED BY <3>1 DEF Proper, Single, Setters, Finals, Loops
  <2>2. Charge(s) = {}
    BY DEF Charge, Setters, Finals
  <2>3. QED BY <2>1, <2>2, SafeStep
<1>3. QED BY <1>1, <1>2 DEF Finish

LEMMA SafePut ==
  ASSUME NEW r \in Requests
  PROVE  Safe({Controller}, One("put", {Mailbox}, r, {Controller}), {Controller}, {r})
<1> DEFINE s == [do |-> "put", takes |-> {Mailbox}, of |-> r, in |-> {Controller}]
<1>1. Proper(s)
  <2>1. s \in Steps
    BY Names DEF Steps, Subjects, Deeds, Shared
  <2>2. QED BY <2>1 DEF Proper, Single, Setters, Finals, Loops
<1>2. Charge(s) = {r}
  BY DEF Charge
<1>3. QED BY <1>1, <1>2, SafeStep DEF After

-----------------------------------------------------------------------------
(* Steps.                                                                  *)

LEMMA Current ==
  ASSUME Locked, NEW t \in Threads, todo[t] # <<>>
  PROVE  /\ Proper(Now(t)) /\ Held(t) = Now(t).in
         /\ Safe(After(Now(t)), Rest(t), {}, Charges(Rest(t)))
         /\ Charges(Rest(t)) \subseteq Charges(todo[t])
         /\ \A r \in Requests : r \in Charge(Now(t)) => r \in Charges(todo[t])
         /\ Now(t).do # "running" => \A r \in Charge(Now(t)) : r \notin Charges(Rest(t))
<1>1. Leads(Held(t), todo[t], {}) /\ Once(todo[t])
  BY DEF Locked, Ordered, Custody
<1>2. QED BY <1>1, SafePopped DEF Now, Rest, Held

(* A step is done in the locks its thread has and those it takes.          *)
LEMMA Entered ==
  ASSUME Locked, NEW t \in Threads, NEW what, Does(t, what)
  PROVE  /\ todo[t] # <<>> /\ Now(t).do = what
         /\ \A l \in Inside(t) : l \in Locks /\ (l \in Held(t) \/ Free(t, l))
         /\ After(Now(t)) \subseteq Inside(t)
         /\ \A r \in Requests : r \in After(Now(t)) => r \in Held(t)
<1>1. todo[t] # <<>> /\ Now(t).do = what /\ \A l \in Wanted(Now(t)) : Free(t, l)
  BY DEF Does
<1>2. Proper(Now(t)) /\ Held(t) = Now(t).in
  BY <1>1, Current
<1>3. Now(t).in \subseteq Locks /\ Now(t).takes \subseteq Locks
  BY <1>2 DEF Proper, Steps
<1>4. Now(t).takes \subseteq Wanted(Now(t))
  BY <1>2 DEF Proper, Wanted, Loops
<1>5. QED BY <1>1, <1>2, <1>3, <1>4 DEF Inside, After

(* A thread may go on with a program that is safe with the locks it has    *)
(* and with what it decides on, or takes out of the mailbox, or makes.     *)
LEMMA Goes ==
  ASSUME Locked, NEW t \in Threads, NEW K, NEW p, NEW R,
         GoOn(t, p), Safe(K, p, {}, R), TypeOK',
         \A l \in K : l \in Held(t) \/ Free(t, l),
         \A r \in Requests : r \in K => state'[r] = "timedout",
         \A r \in Requests : state'[r] # state[r] => Free(t, r) \/ state[r] = "unused",
         \A r \in R : /\ r \in Charges(todo[t]) \/ r \in mailbox \/ ~Open(r)
                      /\ r \notin mailbox' /\ Open(r)',
         mailbox' \subseteq mailbox \cup Charges(todo[t]),
         \A r \in Requests : Open(r) =>
           Open(r)' \/ (r \in Charges(todo[t]) /\ r \notin R /\ r \notin mailbox')
  PROVE  Locked'
<1> DEFINE H == IF p = <<>> THEN {} ELSE Head(p).in
<1>1. /\ todo'[t] = p /\ \A u \in Threads \ {t} : todo'[u] = todo[u]
      /\ DOMAIN todo = Threads
  BY DEF GoOn, Locked, TypeOK
<1>2. Held(t)' = H /\ \A u \in Threads \ {t} : Held(u)' = Held(u)
  BY <1>1 DEF Held, Now
<1>3. H \subseteq K /\ Leads(H, p, {})
  <2>1. CASE p = <<>>
    BY <2>1, Nothing
  <2>2. CASE p # <<>>
    <3>1. p \in Seq(Steps) /\ Head(p) = p[1]
      BY <2>2 DEF Safe, Leads
    <3>2. QED BY <2>2, <3>1 DEF Safe, Leads
  <2>3. QED BY <2>1, <2>2
<1>4. Ordered'
  BY <1>1, <1>2, <1>3 DEF Ordered, Locked
<1>5. Exclusive'
  <2>1. ASSUME NEW u \in Threads \ {t}, NEW l \in Locks, l \in H, l \in Held(u)
        PROVE  FALSE
    <3>1. l \in Held(t) \/ Free(t, l)
      BY <1>3, <2>1
    <3>2. QED BY <2>1, <3>1 DEF Locked, Exclusive, Free
  <2>2. QED BY <1>2, <2>1 DEF Locked, Exclusive
<1>6. Marked'
  <2>1. ASSUME NEW u \in Threads \ {t}, NEW r \in Requests, r \in Held(u)
        PROVE  state'[r] = "timedout"
    <3>1. state[r] = "timedout"
      BY <2>1 DEF Locked, Marked
    <3>2. QED BY <2>1, <3>1 DEF Free
  <2>2. QED BY <1>2, <1>3, <2>1 DEF Marked
<1>7. Once(p) /\ Charges(p) \subseteq R
  BY DEF Safe, Duty
<1>8. Custody'
  <2>1. \A u \in Threads : Once(todo'[u])
    BY <1>1, <1>7 DEF Locked, Custody
  <2>2. ASSUME NEW u \in Threads \ {t}, NEW r \in Charges(todo[u])
        PROVE  r \in Requests /\ r \notin Charges(todo[t]) /\ r \notin R
                 /\ r \notin mailbox' /\ Open(r)'
    <3>1. r \in Requests
      BY DEF Charges
    <3>2. r \notin Charges(todo[t]) /\ r \notin mailbox /\ Open(r)
      BY <2>2 DEF Locked, Custody
    <3>3. QED BY <3>1, <3>2
  <2>3. \A u \in Threads : \A r \in Charges(todo'[u]) : r \notin mailbox' /\ Open(r)'
    BY <1>1, <1>7, <2>2
  <2>4. \A u, v \in Threads : \A r \in Charges(todo'[u]) : r \in Charges(todo'[v]) => u = v
    <3>1. \A u, v \in Threads \ {t} : \A r \in Charges(todo[u]) :
            r \in Charges(todo[v]) => u = v
      BY DEF Locked, Custody
    <3>2. QED BY <1>1, <1>7, <2>2, <3>1
  <2>5. \A r \in mailbox' : Open(r)'
    <3> SUFFICES ASSUME NEW r \in mailbox' PROVE Open(r)'
      OBVIOUS
    <3>1. Open(r)
      BY DEF Locked, Custody
    <3>2. r \in Requests
      BY DEF TypeOK
    <3>3. QED BY <3>1, <3>2
  <2>6. Charges(todo[t])' = Charges(todo'[t]) /\ Once(todo[t])' = Once(todo'[t])
    BY DEF Charges, Once
  <2>7. QED BY <2>1, <2>3, <2>4, <2>5, <2>6 DEF Custody, Charges, Once
<1>9. QED BY <1>4, <1>5, <1>6, <1>8 DEF Locked

(* So for a step that leaves the states alone.                             *)
LEMMA Quietly ==
  ASSUME Locked, NEW t \in Threads, NEW K, NEW p, NEW R,
         GoOn(t, p), Safe(K, p, {}, R), TypeOK', UNCHANGED state,
         \A l \in K : l \in Held(t) \/ Free(t, l),
         \A r \in Requests : r \in K => r \in Held(t),
         mailbox' \subseteq mailbox,
         \A r \in R : r \in Charges(todo[t]) \/ r \in mailbox \ mailbox'
  PROVE  Locked'
<1>1. \A r : Open(r)' <=> Open(r)
  BY DEF Open
<1>2. \A r \in Requests : r \in K => state'[r] = "timedout"
  BY DEF Locked, Marked
<1>3. ASSUME NEW r \in R PROVE r \notin mailbox' /\ Open(r)'
  BY <1>1 DEF Locked, Custody
<1>4. QED BY <1>1, <1>2, <1>3, Goes

-----------------------------------------------------------------------------
(* The actions.                                                            *)

LEMMA PassThroughStep ==
  ASSUME Locked, NEW t \in Threads, PassThrough(t) PROVE Locked'
<1>1. Does(t, "take") /\ GoOn(t, Rest(t))
        /\ UNCHANGED <<state, kind, registered, mailbox, ended, armed, calls>>
  BY DEF PassThrough
<1>2. TypeOK'
  BY <1>1 DEF TypeOK, Locked, GoOn
<1>3. QED BY <1>1, <1>2, Entered, Current, Quietly

LEMMA ScanAllStep ==
  ASSUME Locked, NEW t \in Threads, ScanAll(t) PROVE Locked'
<1> DEFINE p == Loop("look", registered, Inside(t)) \o Rest(t)
<1>1. Does(t, "scan") /\ GoOn(t, p)
        /\ UNCHANGED <<state, kind, registered, mailbox, ended, armed, calls>>
  BY DEF ScanAll
<1>2. TypeOK'
  BY <1>1 DEF TypeOK, Locked, GoOn
<1>3. Now(t).in = {} /\ Now(t).takes = {Controller}
  BY <1>1, Entered, Current DEF Proper
<1>4. Inside(t) = {Controller} /\ After(Now(t)) = {Controller}
  BY <1>3, Names DEF Inside, After, Shared
<1>5. Safe({Controller}, Loop("look", registered, {Controller}), {Controller}, {})
  BY SafeLook DEF Locked, TypeOK
<1>6. Safe({Controller}, p, {}, Charges(Rest(t)))
  <2>1. Safe({Controller}, Rest(t), {}, Charges(Rest(t)))
    BY <1>1, <1>4, Entered, Current
  <2>2. QED BY <1>4, <1>5, <2>1, SafeThen
<1>7. QED BY <1>1, <1>2, <1>4, <1>6, Entered, Current, Quietly

LEMMA LookStep ==
  ASSUME Locked, NEW t \in Threads, Look(t) PROVE Locked'
<1> DEFINE R == Now(t).of \ First(Now(t).of)
           p == Loop("look", R, Now(t).in) \o Rest(t)
<1>1. Does(t, "look") /\ GoOn(t, p)
        /\ UNCHANGED <<state, kind, registered, mailbox, ended, armed, calls>>
  BY DEF Look
<1>2. TypeOK'
  BY <1>1 DEF TypeOK, Locked, GoOn
<1>3. Now(t).in = {Controller} /\ Now(t).takes = {} /\ Now(t).of \in SUBSET Requests
  BY <1>1, Entered, Current DEF Proper, Loops
<1>4. After(Now(t)) = {Controller}
  BY <1>3, Names DEF After, Shared
<1>5. R \in SUBSET Requests
  BY <1>3
<1>6. Safe({Controller}, Loop("look", R, {Controller}), {Controller}, {})
  BY <1>5, SafeLook
<1>7. Safe({Controller}, p, {}, Charges(Rest(t)))
  <2>1. Safe({Controller}, Rest(t), {}, Charges(Rest(t)))
    BY <1>1, <1>4, Entered, Current
  <2>2. QED BY <1>3, <1>6, <2>1, SafeThen
<1>8. QED BY <1>1, <1>2, <1>4, <1>7, Entered, Current, Quietly

LEMMA RefuseStep ==
  ASSUME Locked, NEW t \in Threads, Refuse(t) PROVE Locked'
<1> DEFINE p == IF Now(t).of = "stop" THEN Rest(t)
                ELSE Take(Diagnostics, Now(t).in) \o Rest(t)
<1>1. Does(t, "admit") /\ GoOn(t, p)
        /\ UNCHANGED <<state, kind, registered, mailbox, ended, armed, calls>>
  BY DEF Refuse
<1>2. TypeOK'
  BY <1>1 DEF TypeOK, Locked, GoOn
<1>3. Now(t).in = {Controller} /\ Now(t).takes = {}
  BY <1>1, Entered, Current DEF Proper
<1>4. After(Now(t)) = {Controller}
  BY <1>3, Names DEF After, Shared
<1>5. Safe({Controller}, Take(Diagnostics, {Controller}), {Controller}, {})
  BY SafeTake, Names DEF Shared, Later
<1>6. Safe({Controller}, Rest(t), {}, Charges(Rest(t)))
  BY <1>1, <1>4, Entered, Current
<1>7. Safe({Controller}, Take(Diagnostics, {Controller}) \o Rest(t), {}, Charges(Rest(t)))
  BY <1>5, <1>6, SafeThen
<1>8. Safe({Controller}, p, {}, Charges(Rest(t)))
  BY <1>3, <1>6, <1>7
<1>9. QED BY <1>1, <1>2, <1>4, <1>8, Entered, Current, Quietly

LEMMA UnregisterStep ==
  ASSUME Locked, NEW t \in Threads, Unregister(t) PROVE Locked'
<1>1. Does(t, "forget") /\ GoOn(t, Rest(t)) /\ registered' = registered \ {Now(t).of}
        /\ UNCHANGED <<state, kind, mailbox, ended, armed, calls>>
  BY DEF Unregister
<1>2. TypeOK'
  BY <1>1 DEF TypeOK, Locked, GoOn
<1>3. QED BY <1>1, <1>2, Entered, Current, Quietly

LEMMA EmitStep ==
  ASSUME Locked, NEW t \in Threads, Emit(t) PROVE Locked'
<1>1. Does(t, "emit") /\ GoOn(t, Rest(t)) /\ ended' = ended \cup {Now(t).of}
        /\ UNCHANGED <<state, kind, registered, mailbox, armed, calls>>
  BY DEF Emit
<1>2. Now(t).of \in Requests
  BY <1>1, Entered, Current DEF Proper
<1>3. TypeOK'
  BY <1>1, <1>2 DEF TypeOK, Locked, GoOn
<1>4. QED BY <1>1, <1>3, Entered, Current, Quietly

LEMMA StopStep ==
  ASSUME Locked, NEW t \in Threads, Stop(t) PROVE Locked'
<1> DEFINE L == {Controller}
<1>1. Does(t, "stop") /\ UNCHANGED <<state, kind, registered, mailbox, ended, armed, calls>>
  BY DEF Stop
<1>2. Now(t).in = L /\ Now(t).takes = {}
  BY <1>1, Entered, Current DEF Proper
<1>3. After(Now(t)) = L
  BY <1>2, Names DEF After, Shared
<1>4. ASSUME NEW p, GoOn(t, p), Safe(L, p, {}, {}) PROVE Locked'
  <2>1. TypeOK'
    BY <1>1, <1>4 DEF TypeOK, Locked, GoOn
  <2>2. QED BY <1>1, <1>3, <1>4, <2>1, Entered, Quietly
<1>5. Safe(L, Take(Diagnostics, L), {}, {})
  BY SafeTake, Names DEF Shared, Later
<1>6. ASSUME NEW r \in Requests PROVE Safe(L, Take(r, L) \o CancelRequest(r, L), {}, {})
  <2>1. Safe(L, Take(r, L), L, {})
    BY SafeTake, Names DEF Shared, Later
  <2>2. Safe(L, CancelRequest(r, L), {}, {})
    BY SafeCancelRequest, SafeWeaken
  <2>3. QED BY <2>1, <2>2, SafeThen
<1>7. Safe(L, CancelQueued(Mutations, L) \o One("admit", {}, "stop", L), {}, {})
  <2>1. Safe(L, CancelQueued(Mutations, L), L, {})
    BY SafeSweep DEF Mutations, Kinds
  <2>2. Safe(L, One("admit", {}, "stop", L), {}, {})
    BY SafeAdmit, SafeWeaken DEF Kinds
  <2>3. QED BY <2>1, <2>2, SafeThen
<1>8. \/ GoOn(t, Take(Diagnostics, L))
      \/ \E r \in Requests : GoOn(t, Take(r, L) \o CancelRequest(r, L))
      \/ GoOn(t, CancelQueued(Mutations, L) \o One("admit", {}, "stop", L))
  BY <1>2 DEF Stop
<1>9. QED BY <1>4, <1>5, <1>6, <1>7, <1>8

LEMMA FindStep ==
  ASSUME Locked, NEW t \in Threads, Find(t) PROVE Locked'
<1>1. Does(t, "find") /\ UNCHANGED <<state, kind, registered, mailbox, ended, armed, calls>>
  BY DEF Find
<1>2. ASSUME NEW p, GoOn(t, p), Safe({}, p, {}, {}) PROVE Locked'
  <2>1. TypeOK'
    BY <1>1, <1>2 DEF TypeOK, Locked, GoOn
  <2>2. QED BY <1>1, <1>2, <2>1, Quietly
<1>3. Safe({}, <<>>, {}, {}) /\ \A r \in Requests : Safe({}, CancelRequest(r, {}), {}, {})
  BY SafeNothing, SafeCancelRequest
<1>4. GoOn(t, <<>>) \/ \E r \in Requests : GoOn(t, CancelRequest(r, {}))
  BY DEF Find
<1>5. QED BY <1>2, <1>3, <1>4

LEMMA SweepStep ==
  ASSUME Locked, NEW t \in Threads, Sweep(t) PROVE Locked'
<1> DEFINE out == {r \in mailbox : kind[r] \in Now(t).of}
           L == Inside(t)
           p == Loop("cancel", out, L) \o Rest(t)
<1>1. /\ Does(t, "sweep") /\ GoOn(t, p) /\ mailbox' = mailbox \ out /\ armed' = armed \ out
      /\ UNCHANGED <<state, kind, registered, ended, calls>>
  BY DEF Sweep
<1>2. TypeOK'
  BY <1>1 DEF TypeOK, Locked, GoOn
<1>3. Now(t).in \in SUBSET {Controller} /\ Now(t).takes = {Mailbox}
  BY <1>1, Entered, Current DEF Proper
<1>4. L \in SUBSET {Controller, Mailbox} /\ Mailbox \in L /\ After(Now(t)) = L
  BY <1>3, Names DEF Inside, After, Shared
<1>5. out \in SUBSET Requests
  BY DEF Locked, TypeOK
<1>6. Safe(L, Loop("cancel", out, L), L, out)
  BY <1>4, <1>5, SafeCancelAll
<1>7. out \cap Charges(Rest(t)) = {}
  BY <1>1, Entered, Current DEF Locked, Custody
<1>8. Safe(L, p, {}, out \cup Charges(Rest(t)))
  BY <1>1, <1>4, <1>6, <1>7, Entered, Current, SafeThen
<1>9. \A r \in out \cup Charges(Rest(t)) : r \in Charges(todo[t]) \/ r \in mailbox \ mailbox'
  BY <1>1, Entered, Current
<1>10. QED BY <1>1, <1>2, <1>4, <1>8, <1>9, Entered, Quietly

LEMMA CancelStep ==
  ASSUME Locked, NEW t \in Threads, Cancel(t) PROVE Locked'
<1> DEFINE L == Now(t).in
           R == Now(t).of
<1>1. Does(t, "cancel") /\ UNCHANGED <<state, kind, registered, mailbox, ended, armed, calls>>
  BY DEF Cancel
<1>2. PICK r \in First(R) :
        GoOn(t, SetState(r, "cancelled", L) \o Drained(r, L)
                  \o Loop("cancel", R \ {r}, L) \o Rest(t))
  BY DEF Cancel
<1>3. /\ R \in SUBSET Requests /\ Now(t).takes = {}
      /\ L \in SUBSET {Controller, Mailbox} /\ Mailbox \in L
  BY <1>1, Entered, Current DEF Proper, Loops
<1>4. After(Now(t)) = L /\ r \in R /\ r \in Requests
  BY <1>2, <1>3 DEF After, First
<1>5. Charge(Now(t)) = R
  BY <1>1, Entered DEF Charge, Setters, Finals
<1>6. R \subseteq Charges(todo[t]) /\ R \cap Charges(Rest(t)) = {}
  BY <1>1, <1>3, <1>5, Entered, Current
<1> DEFINE a == SetState(r, "cancelled", L)
           b == a \o Drained(r, L)
           c == b \o Loop("cancel", R \ {r}, L)
           p == c \o Rest(t)
<1>7. Safe(L, a, L, {r})
  BY <1>3, <1>4, SafeSet DEF Setters, Finals
<1>8. Safe(L, b, L, {r})
  BY <1>3, <1>4, <1>7, SafeDrained, SafeThen
<1>9. Safe(L, c, L, R)
  <2>1. Safe(L, Loop("cancel", R \ {r}, L), L, R \ {r})
    BY <1>3, SafeCancelAll
  <2>2. Safe(L, c, L, {r} \cup (R \ {r}))
    BY <1>8, <2>1, SafeThen
  <2>3. {r} \cup (R \ {r}) = R
    BY <1>4
  <2>4. QED BY <2>2, <2>3
<1>10. Safe(L, p, {}, R \cup Charges(Rest(t)))
  BY <1>1, <1>4, <1>6, <1>9, Entered, Current, SafeThen
<1>11. TypeOK'
  BY <1>1, <1>2 DEF TypeOK, Locked, GoOn
<1>12. \A x \in R \cup Charges(Rest(t)) : x \in Charges(todo[t])
  BY <1>1, <1>6, Entered, Current
<1>13. QED BY <1>1, <1>2, <1>4, <1>10, <1>11, <1>12, Entered, Quietly

LEMMA BeginStep ==
  ASSUME Locked, NEW t \in Threads, Begin(t) PROVE Locked'
<1> DEFINE r == Now(t).of
           run == SetState(r, "running", {})
           rest == IF kind[r] = "prepare"
                   THEN Take(Controller, {}) \o Take(Controller, {}) \o Take(r, {Controller})
                   ELSE <<>>
<1>1. Does(t, "begin") /\ UNCHANGED <<state, kind, registered, mailbox, ended, armed, calls>>
  BY DEF Begin
<1>2. r \in Requests /\ r \in Charges(todo[t])
  BY <1>1, Entered, Current DEF Proper, Single, Charge
<1>3. ASSUME NEW p, GoOn(t, p), Safe({}, p, {}, {r}) PROVE Locked'
  <2>1. TypeOK'
    BY <1>1, <1>3 DEF TypeOK, Locked, GoOn
  <2>2. QED BY <1>1, <1>2, <1>3, <2>1, Quietly
<1>4. Safe({}, rest, {}, {})
  <2>1. Safe({}, Take(Controller, {}), {}, {})
    BY SafeTake, Names DEF Shared
  <2>2. Safe({}, Take(Controller, {}), {Controller}, {})
    BY SafeTake, Names DEF Shared
  <2>3. Safe({Controller}, Take(r, {Controller}), {}, {})
    BY <1>2, SafeTake, Names DEF Shared, Later
  <2>4. Safe({}, Take(Controller, {}) \o Take(Controller, {}), {Controller}, {})
    BY <2>1, <2>2, SafeThen
  <2>5. QED BY <2>3, <2>4, SafeThen, SafeNothing
<1>5. Safe({}, Finish(r), {}, {r}) /\ Safe({}, <<>>, {}, {r})
  BY <1>2, SafeOwner, SafeNothing
<1>6. Safe({}, (run \o rest) \o Finish(r), {}, {r})
  <2>1. Safe({}, run, {}, {r}) /\ \A i \in 1..Len(run) : run[i].do = "running"
    <3>1. Safe({}, run, {}, {r})
      BY <1>2, SafeSet DEF Setters
    <3>2. Len(run) = 1 /\ run[1].do = "running"
      BY DEF SetState, One
    <3>3. QED BY <3>1, <3>2
  <2>2. Safe({}, rest \o Finish(r), {}, {r})
    BY <1>4, <1>5, SafeThen
  <2>3. Safe({}, run \o (rest \o Finish(r)), {}, {r})
    BY <2>1, <2>2, SafeRun
  <2>4. run \in Seq(Steps) /\ rest \in Seq(Steps) /\ Finish(r) \in Seq(Steps)
    BY <1>4, <1>5, <2>1 DEF Safe, Leads
  <2>5. (run \o rest) \o Finish(r) = run \o (rest \o Finish(r))
    <3>1. \A a, b, c \in Seq(Steps) : (a \o b) \o c = a \o (b \o c)
      BY ConcatAssociative
    <3>2. QED BY <2>4, <3>1
  <2>6. QED BY <2>3, <2>5
<1>7. Safe({}, <<>> \o Finish(r), {}, {r}) /\ Safe({}, <<>> \o <<>>, {}, {r})
  <2>1. Safe({}, <<>>, {}, {})
    BY SafeNothing
  <2>2. QED BY <1>5, <2>1, SafeThen
<1>8. \/ GoOn(t, <<>> \o <<>>) \/ GoOn(t, <<>> \o Finish(r))
      \/ GoOn(t, (run \o rest) \o Finish(r))
  BY DEF Begin
<1>9. QED BY <1>3, <1>6, <1>7, <1>8

LEMMA JudgeStep ==
  ASSUME Locked, NEW t \in Threads, Judge(t) PROVE Locked'
<1> DEFINE r == Now(t).of
           set == SetState(r, "done", {})
           tail == One("emit", {}, r, {})
<1>1. Does(t, "judge") /\ armed' = armed \ {r}
        /\ UNCHANGED <<state, kind, registered, mailbox, ended, calls>>
  BY DEF Judge
<1>2. r \in Requests /\ r \in Charges(todo[t])
  BY <1>1, Entered, Current DEF Proper, Single, Charge
<1>3. ASSUME NEW p, GoOn(t, p), Safe({}, p, {}, {r}) PROVE Locked'
  <2>1. TypeOK'
    BY <1>1, <1>3 DEF TypeOK, Locked, GoOn
  <2>2. QED BY <1>1, <1>2, <1>3, <2>1, Quietly
<1>4. ASSUME NEW a, Safe({}, a, {}, {r}) PROVE Safe({}, a \o Drained(r, {}) \o tail, {}, {r})
  <2>1. Safe({}, a \o Drained(r, {}), {}, {r})
    BY <1>2, <1>4, SafeDrained, SafeThen
  <2>2. QED BY <1>2, <2>1, SafeOwner, SafeThen
<1>5. Safe({}, set, {}, {r}) /\ Safe({}, <<>>, {}, {r})
  BY <1>2, SafeSet, SafeNothing DEF Setters, Finals
<1>6. \/ GoOn(t, <<>> \o Drained(r, {}) \o tail) \/ GoOn(t, set \o Drained(r, {}) \o tail)
  BY DEF Judge
<1>7. QED BY <1>3, <1>4, <1>5, <1>6

LEMMA PopStep ==
  ASSUME Locked, NEW t \in Threads, Pop(t) PROVE Locked'
<1> DEFINE begin(r) == One("begin", {r}, r, {})
<1>1. Does(t, "pop") /\ UNCHANGED <<state, kind, registered, ended, armed, calls>>
  BY DEF Pop
<1>2. PICK r \in mailbox : /\ mailbox' = mailbox \ {r}
                           /\ \/ GoOn(t, <<>> \o begin(r))
                              \/ GoOn(t, Take(r, {Mailbox}) \o begin(r))
  BY DEF Pop
<1>3. r \in Requests
  BY DEF Locked, TypeOK
<1>4. Now(t).in = {} /\ Now(t).takes = {Mailbox}
  BY <1>1, Entered, Current DEF Proper
<1>5. After(Now(t)) = {Mailbox}
  BY <1>4, Names DEF After, Shared
<1>6. Safe({Mailbox}, Take(r, {Mailbox}) \o begin(r), {}, {r})
  <2>1. Safe({Mailbox}, Take(r, {Mailbox}), {}, {})
    BY <1>3, SafeTake, Names DEF Shared, Later
  <2>2. QED BY <1>3, <2>1, SafeOwner, SafeThen
<1>7. Safe({Mailbox}, <<>> \o begin(r), {}, {r})
  <2>1. Safe({}, <<>> \o begin(r), {}, {r})
    BY <1>3, SafeNothing, SafeOwner, SafeThen
  <2>2. QED BY <2>1, SafeWeaken
<1>8. ASSUME NEW p, GoOn(t, p), Safe({Mailbox}, p, {}, {r}) PROVE Locked'
  <2>1. TypeOK'
    BY <1>1, <1>2, <1>8 DEF TypeOK, Locked, GoOn
  <2>2. QED BY <1>1, <1>2, <1>5, <1>8, <2>1, Entered, Quietly
<1>9. QED BY <1>2, <1>6, <1>7, <1>8

-----------------------------------------------------------------------------
(* The actions that change what is known of a request.                     *)

LEMMA SetStep ==
  ASSUME Locked, NEW t \in Threads, Set(t)
  PROVE  /\ Locked'
         /\ \A r \in Requests : state[r] \in Finals => state'[r] = state[r]
<1> DEFINE r == Now(t).of
<1>1. PICK s \in Setters : Does(t, s) /\ state' = [state EXCEPT ![r] = s]
  BY DEF Set, Setters
<1>2. GoOn(t, Rest(t)) /\ UNCHANGED <<kind, registered, mailbox, ended, armed, calls>>
  BY DEF Set
<1>3. /\ r \in Requests /\ r \in Charges(todo[t]) /\ Now(t).takes = {r}
      /\ Now(t).in \in SUBSET {Controller, Mailbox}
  BY <1>1, Entered, Current DEF Proper, Single, Charge
<1>4. TypeOK'
  BY <1>1, <1>2, <1>3 DEF TypeOK, Locked, GoOn, States, Setters
<1>5. /\ state'[r] = s /\ \A q \in Requests : q # r => state'[q] = state[q]
      /\ \A q \in Requests : q # r => (Open(q)' <=> Open(q))
  BY <1>1, <1>3 DEF TypeOK, Locked, Open
<1>6. r \notin mailbox /\ Open(r)
  BY <1>3 DEF Locked, Custody
<1>7. Free(t, r)
  BY <1>1, <1>3 DEF Does, Wanted, Setters, Finals
<1>8. \A l \in After(Now(t)) : l \notin Requests
  BY <1>3, Names DEF After, Shared
<1>9. Charges(Rest(t)) \subseteq Charges(todo[t]) /\ Charges(todo[t]) \subseteq Requests
  BY <1>1, Entered, Current DEF Charges
<1>10. CASE s = "running"
  <2>1. \A q : q = r => Open(q)'
    BY <1>5, <1>10 DEF Open, Finals
  <2>2. \A q \in Requests : Open(q) => Open(q)'
    BY <1>5, <2>1
  <2>3. \A q \in Charges(Rest(t)) : q \in Charges(todo[t]) /\ q \notin mailbox' /\ Open(q)'
    BY <1>2, <1>9, <2>2 DEF Locked, Custody
  <2>4. Locked'
    BY <1>1, <1>2, <1>4, <1>5, <1>7, <1>8, <2>2, <2>3, Entered, Current, Goes
  <2>5. QED BY <1>5, <1>6, <2>4 DEF Open
<1>11. CASE s \in Finals
  <2>1. r \notin Charges(Rest(t))
    BY <1>1, <1>11, Entered, Current DEF Finals, Charge, Setters
  <2>2. \A q \in Charges(Rest(t)) : q \in Charges(todo[t]) /\ q \notin mailbox' /\ Open(q)'
    BY <1>2, <1>5, <1>9, <2>1 DEF Locked, Custody
  <2>3. \A q \in Requests : Open(q) =>
          Open(q)' \/ (q \in Charges(todo[t]) /\ q \notin Charges(Rest(t)) /\ q \notin mailbox')
    BY <1>2, <1>3, <1>5, <1>6, <2>1
  <2>4. Locked'
    BY <1>1, <1>2, <1>4, <1>5, <1>7, <1>8, <2>2, <2>3, Entered, Current, Goes
  <2>5. QED BY <1>5, <1>6, <2>4 DEF Open
<1>12. QED BY <1>10, <1>11 DEF Setters

LEMMA AdmitStep ==
  ASSUME Locked, NEW t \in Threads, Admit(t)
  PROVE  /\ Locked'
         /\ \A r \in Requests : state[r] \in Finals => state'[r] = state[r]
<1> DEFINE L == {Controller}
<1>1. Does(t, "admit") /\ UNCHANGED <<mailbox, ended, calls>>
  BY DEF Admit
<1>2. PICK r \in Requests :
        /\ state[r] = "unused" /\ state' = [state EXCEPT ![r] = "queued"]
        /\ kind' = [kind EXCEPT ![r] = Now(t).of]
        /\ registered' = registered \cup {r} /\ armed' = armed \cup {r}
        /\ GoOn(t, One("put", {Mailbox}, r, Now(t).in) \o Rest(t))
  BY DEF Admit
<1>3. Now(t).of \in Kinds /\ Now(t).in = L /\ Now(t).takes = {}
  BY <1>1, Entered, Current DEF Proper
<1>4. After(Now(t)) = L
  BY <1>3, Names DEF After, Shared
<1>5. TypeOK'
  BY <1>1, <1>2, <1>3 DEF TypeOK, Locked, GoOn, States
<1>6. /\ state'[r] = "queued" /\ \A q \in Requests : q # r => state'[q] = state[q]
      /\ \A q \in Requests : q # r => (Open(q)' <=> Open(q))
  BY <1>2 DEF TypeOK, Locked, Open
<1>7. Open(r)' /\ ~Open(r)
  BY <1>2, <1>6 DEF Open, Finals
<1>8. r \notin mailbox /\ r \notin Charges(todo[t])
  BY <1>7 DEF Locked, Custody
<1>9. /\ Safe(L, Rest(t), {}, Charges(Rest(t)))
      /\ Charges(Rest(t)) \subseteq Charges(todo[t])
      /\ Charges(todo[t]) \subseteq Requests
  <2>1. Charges(todo[t]) \subseteq Requests
    BY DEF Charges
  <2>2. QED BY <1>1, <1>4, <2>1, Entered, Current
<1>10. Safe(L, One("put", {Mailbox}, r, L) \o Rest(t), {}, {r} \cup Charges(Rest(t)))
  <2>1. {r} \cap Charges(Rest(t)) = {}
    BY <1>8, <1>9
  <2>2. QED BY <1>9, <2>1, SafePut, SafeThen
<1>11. \A q \in Charges(Rest(t)) : q \in Charges(todo[t]) /\ q \notin mailbox' /\ Open(q)'
  BY <1>1, <1>6, <1>8, <1>9 DEF Locked, Custody
<1>12. \A q \in {r} \cup Charges(Rest(t)) :
         (q \in Charges(todo[t]) \/ ~Open(q)) /\ q \notin mailbox' /\ Open(q)'
  BY <1>1, <1>7, <1>8, <1>11
<1>13. \A l \in L : l \notin Requests /\ l \in Held(t)
  BY <1>1, <1>3, Names, Entered, Current DEF Shared
<1>14. Locked'
  BY <1>1, <1>2, <1>3, <1>5, <1>6, <1>7, <1>10, <1>12, <1>13, Goes
<1>15. QED BY <1>2, <1>6, <1>14 DEF Finals

LEMMA PutStep ==
  ASSUME Locked, NEW t \in Threads, Put(t) PROVE Locked'
<1> DEFINE r == Now(t).of
<1>1. Does(t, "put") /\ GoOn(t, Rest(t)) /\ mailbox' = mailbox \cup {r}
        /\ UNCHANGED <<state, kind, registered, ended, armed, calls>>
  BY DEF Put
<1>2. r \in Requests /\ Now(t).takes = {Mailbox} /\ Now(t).in \in SUBSET {Controller}
  BY <1>1, Entered, Current DEF Proper
<1>3. Charge(Now(t)) = {r}
  BY <1>1, Entered DEF Charge
<1>4. r \in Charges(todo[t]) /\ r \notin Charges(Rest(t))
  BY <1>1, <1>2, <1>3, Entered, Current
<1>5. TypeOK'
  BY <1>1, <1>2 DEF TypeOK, Locked, GoOn
<1>6. \A q : Open(q)' <=> Open(q)
  BY <1>1 DEF Open
<1>7. Charges(Rest(t)) \subseteq Charges(todo[t])
  BY <1>1, Entered, Current
<1>8. \A q \in Charges(Rest(t)) : q \in Charges(todo[t]) /\ q \notin mailbox' /\ Open(q)'
  BY <1>1, <1>4, <1>6, <1>7 DEF Locked, Custody
<1>9. \A l \in After(Now(t)) : l \notin Requests
  BY <1>2, Names DEF After, Shared
<1>10. QED BY <1>1, <1>4, <1>5, <1>6, <1>8, <1>9, Entered, Current, Goes

LEMMA DiscardStep ==
  ASSUME Locked, NEW t \in Threads, Discard(t) PROVE Locked'
<1> DEFINE r == Now(t).of
           L == Now(t).in
           p == SetState(r, "cancelled", L) \o Drained(r, L) \o Forget(r, L \ {Mailbox})
<1>1. Does(t, "discard") /\ UNCHANGED <<state, kind, registered, ended, calls>>
  BY DEF Discard
<1>2. r \in Requests /\ Now(t).takes = {r} /\ L \in SUBSET {Controller, Mailbox} /\ Mailbox \in L
  BY <1>1, Entered, Current DEF Proper, Single
<1>3. After(Now(t)) = L /\ \A l \in L : l \in Held(t)
  <2>1. After(Now(t)) = L
    BY <1>2 DEF After
  <2>2. QED BY <1>1, <2>1, Entered, Current
<1>4. \A q \in Requests : q \in L => q \in Held(t)
  BY <1>3
<1>5. CASE InFifo(r)
  <2>1. mailbox' = mailbox \ {r} /\ armed' = armed \ {r} /\ GoOn(t, p) /\ r \in mailbox
    BY <1>5 DEF Discard, InFifo
  <2>2. TypeOK'
    BY <1>1, <2>1 DEF TypeOK, Locked, GoOn
  <2>3. Safe(L, SetState(r, "cancelled", L) \o Drained(r, L), L, {r})
    <3>1. Safe(L, SetState(r, "cancelled", L), L, {r})
      BY <1>2, SafeSet DEF Setters, Finals
    <3>2. QED BY <1>2, <3>1, SafeDrained, SafeThen
  <2>4. Safe(L, Forget(r, L \ {Mailbox}), {}, {})
    <3>1. L \ {Mailbox} \in SUBSET {Controller}
      BY <1>2
    <3>2. Safe(L \ {Mailbox}, Forget(r, L \ {Mailbox}), {}, {})
      BY <1>2, <3>1, SafeForget
    <3>3. QED BY <3>2, SafeWeaken
  <2>5. Safe(L, p, {}, {r})
    BY <2>3, <2>4, SafeThen
  <2>6. QED BY <1>1, <1>3, <1>4, <2>1, <2>2, <2>5, Quietly
<1>6. CASE ~InFifo(r)
  <2>1. GoOn(t, Rest(t)) /\ UNCHANGED <<mailbox, armed>>
    BY <1>6 DEF Discard
  <2>2. TypeOK'
    BY <1>1, <2>1 DEF TypeOK, Locked, GoOn
  <2>3. QED BY <1>1, <1>3, <1>4, <2>1, <2>2, Entered, Current, Quietly
<1>7. QED BY <1>5, <1>6

LEMMA ExpireStep ==
  ASSUME Locked, NEW t \in Threads, Expire(t)
  PROVE  /\ Locked'
         /\ \A r \in Requests : state[r] \in Finals => state'[r] = state[r]
<1> DEFINE r == Now(t).of
           prepare == IF kind[r] = "prepare" THEN Take(Controller, {}) ELSE <<>>
           later == IF kind[r] = "mutation" THEN RequestStop ELSE prepare
<1>1. Does(t, "expire") /\ UNCHANGED <<kind, registered, mailbox, ended, armed, calls>>
  BY DEF Expire
<1>2. r \in Requests /\ Now(t).takes = {r} /\ Free(t, r)
  BY <1>1, Entered, Current DEF Proper, Single, Does, Wanted
<1>3. Safe({}, prepare, {}, {})
  <2>1. Safe({}, Take(Controller, {}), {}, {})
    BY SafeTake, Names DEF Shared
  <2>2. QED BY <2>1, SafeNothing
<1>4. CASE state[r] = "running"
  <2>1. state' = [state EXCEPT ![r] = "timedout"] /\ GoOn(t, Take(Controller, {r}) \o later)
    BY <1>4 DEF Expire
  <2>2. TypeOK'
    BY <1>1, <1>2, <2>1 DEF TypeOK, Locked, GoOn, States
  <2>3. state'[r] = "timedout" /\ \A q \in Requests : q # r => state'[q] = state[q]
    BY <1>2, <2>1 DEF TypeOK, Locked
  <2>4. \A q \in Requests : Open(q) => Open(q)'
    BY <1>4, <2>3 DEF Open, Finals
  <2>5. Safe({r}, Take(Controller, {r}) \o later, {}, {})
    BY <1>2, <1>3, SafeTimeout, SafeStop, SafeThen
  <2>6. Locked'
    BY <1>1, <1>2, <2>1, <2>2, <2>3, <2>4, <2>5, Goes
  <2>7. QED BY <1>4, <2>3, <2>6 DEF Finals
<1>5. CASE state[r] # "running"
  <2>1. state' = state /\ GoOn(t, prepare)
    BY <1>5 DEF Expire
  <2>2. TypeOK'
    BY <1>1, <2>1 DEF TypeOK, Locked, GoOn
  <2>3. Locked'
    BY <1>1, <1>3, <2>1, <2>2, Quietly
  <2>4. QED BY <2>1, <2>3
<1>6. QED BY <1>4, <1>5

-----------------------------------------------------------------------------
(* What is taken up, and the whole.                                        *)

LEMMA Starts ==
  ASSUME Locked, NEW t \in Threads, NEW p, Start(t, p), Safe({}, p, {}, {}),
         ended' \in SUBSET Requests, armed' \in SUBSET Requests
  PROVE  Locked' /\ state' = state
<1>1. GoOn(t, p) /\ UNCHANGED <<state, kind, registered, mailbox>>
  BY DEF Start
<1>2. TypeOK'
  BY <1>1 DEF TypeOK, Locked, GoOn
<1>3. QED BY <1>1, <1>2, Quietly

LEMMA Begun ==
  ASSUME Locked,
         \/ \E t \in {Gui} \cup Clients : Call(t)
         \/ Terminal \/ Wake
         \/ \E r \in Requests : Fire(r)
  PROVE  Locked' /\ state' = state
<1>1. /\ \A k \in Kinds : Safe({}, Submit(k), {}, {})
      /\ Safe({}, HasPendingWork, {}, {}) /\ Safe({}, PendingWorkSnapshot, {}, {})
      /\ Safe({}, RequestStop, {}, {}) /\ Safe({}, RequestShutdown, {}, {})
      /\ Safe({}, ShutdownRefused, {}, {}) /\ Safe({}, CancelPreparation, {}, {})
      /\ Safe({}, Drain, {}, {})
      /\ \A r \in Requests : Safe({}, CallerTimeout(r), {}, {})
      /\ \A r \in Requests : Safe({}, RequestTerminal(r), {}, {})
  <2>1. Safe({}, HasPendingWork, {}, {})
    BY SafeScan, SafeWeaken DEF HasPendingWork
  <2>2. Safe({}, PendingWorkSnapshot, {}, {})
    BY SafeTake, Names DEF Shared, PendingWorkSnapshot
  <2>3. QED BY <2>1, <2>2, SafeSubmit, SafeStop, SafeShutdown, SafeFind, SafeDrain,
               SafeCallerTimeout, SafeTerminal
<1>2. ended \in SUBSET Requests /\ armed \in SUBSET Requests
  BY DEF Locked, TypeOK
<1>3. ASSUME NEW t \in {Gui} \cup Clients, Call(t) PROVE Locked' /\ state' = state
  <2>1. t \in Threads
    BY DEF Threads
  <2>2. ended' \in SUBSET Requests /\ armed' \in SUBSET Requests
    BY <1>2, <1>3 DEF Call
  <2>3. \E p : Start(t, p) /\ Safe({}, p, {}, {})
    <3>1. \/ \E k \in Kinds : Start(t, Submit(k))
          \/ Start(t, HasPendingWork) \/ Start(t, PendingWorkSnapshot)
          \/ Start(t, RequestStop) \/ Start(t, ShutdownRefused)
          \/ Start(t, RequestShutdown) \/ Start(t, CancelPreparation)
          \/ \E r \in Requests : Start(t, CallerTimeout(r))
      BY <1>3 DEF Call
    <3>2. QED BY <1>1, <3>1
  <2>4. QED BY <2>1, <2>2, <2>3, Starts
<1>4. ASSUME Terminal PROVE Locked' /\ state' = state
  <2>1. PICK r \in ended : Start(Gui, RequestTerminal(r)) /\ ended' = ended \ {r}
                             /\ UNCHANGED armed
    BY <1>4 DEF Terminal
  <2>2. r \in Requests /\ Gui \in Threads
    BY <1>2 DEF Threads
  <2>3. QED BY <1>1, <1>2, <2>1, <2>2, Starts
<1>5. ASSUME Wake PROVE Locked' /\ state' = state
  <2>1. Owner \in Threads /\ Start(Owner, Drain) /\ UNCHANGED <<ended, armed>>
    BY <1>5 DEF Wake, Threads
  <2>2. QED BY <1>1, <1>2, <2>1, Starts
<1>6. ASSUME NEW r \in Requests, Fire(r) PROVE Locked' /\ state' = state
  <2>1. r \in Threads /\ Start(r, CallerTimeout(r)) /\ armed' = armed \ {r} /\ UNCHANGED ended
    BY <1>6 DEF Fire, Threads
  <2>2. QED BY <1>1, <1>2, <2>1, Starts
<1>7. QED BY <1>3, <1>4, <1>5, <1>6

LEMMA Stepped ==
  ASSUME Locked, NEW t \in Threads, Step(t)
  PROVE  /\ Locked'
         /\ \A r \in Requests : state[r] \in Finals => state'[r] = state[r]
<1>1. CASE Set(t) \/ Admit(t) \/ Expire(t)
  BY <1>1, SetStep, AdmitStep, ExpireStep
<1>2. CASE PassThrough(t) \/ ScanAll(t) \/ Look(t) \/ Refuse(t) \/ Put(t) \/ Stop(t)
             \/ Find(t) \/ Sweep(t) \/ Cancel(t)
  <2>1. state' = state
    BY <1>2 DEF PassThrough, ScanAll, Look, Refuse, Put, Stop, Find, Sweep, Cancel
  <2>2. QED BY <1>2, <2>1, PassThroughStep, ScanAllStep, LookStep, RefuseStep, PutStep,
               StopStep, FindStep, SweepStep, CancelStep
<1>3. CASE Discard(t) \/ Unregister(t) \/ Pop(t) \/ Begin(t) \/ Judge(t) \/ Emit(t)
  <2>1. state' = state
    BY <1>3 DEF Discard, Unregister, Pop, Begin, Judge, Emit
  <2>2. QED BY <1>3, <2>1, DiscardStep, UnregisterStep, PopStep, BeginStep, JudgeStep, EmitStep
<1>4. QED BY <1>1, <1>2, <1>3 DEF Step

LEMMA LockedInit == Init => Locked
<1> SUFFICES ASSUME Init PROVE Locked
  OBVIOUS
<1>1. \A t \in Threads : todo[t] = <<>> /\ Held(t) = {}
  BY DEF Init, Held
<1>2. TypeOK
  BY DEF Init, TypeOK, States, Kinds
<1>3. Safe({}, <<>>, {}, {})
  BY SafeNothing
<1>4. \A t \in Threads : Once(todo[t]) /\ Charges(todo[t]) = {}
  BY <1>1, <1>3 DEF Safe, Duty
<1>5. Ordered /\ Exclusive /\ Marked
  BY <1>1, <1>3 DEF Ordered, Exclusive, Marked, Safe
<1>6. Custody
  BY <1>4 DEF Custody, Init
<1>7. QED BY <1>2, <1>5, <1>6 DEF Locked

LEMMA LockedNext ==
  ASSUME Locked, [Next]_vars
  PROVE  /\ Locked'
         /\ \A r \in Requests : state[r] \in Finals => state'[r] = state[r]
<1>1. CASE Next
  BY <1>1, Stepped, Begun DEF Next
<1>2. CASE UNCHANGED vars
  <2>1. UNCHANGED <<state, kind, registered, mailbox, ended, armed, calls, todo>>
    BY <1>2 DEF vars
  <2>2. TypeOK'
    BY <2>1 DEF TypeOK, Locked
  <2>3. Ordered' /\ Exclusive' /\ Marked'
    BY <2>1 DEF Ordered, Exclusive, Marked, Held, Now, Locked
  <2>4. Custody'
    BY <2>1 DEF Custody, Once, Charges, Open, Locked
  <2>5. QED BY <2>1, <2>2, <2>3, <2>4 DEF Locked
<1>3. QED BY <1>1, <1>2

-----------------------------------------------------------------------------
(* Who waits for whom.                                                     *)

LEMMA Upward ==
  ASSUME Locked, NEW t \in Threads, NEW m \in Shared, m \in Held(t),
         Held(t) \cap Requests = {}, NEW l \in Locks, Wants(t, l)
  PROVE  l \in Later(m)
<1> DEFINE s == Now(t)
<1>1. todo[t] # <<>> /\ l \in Wanted(s)
  BY DEF Wants
<1>2. Proper(s) /\ m \in s.in /\ s.in \cap Requests = {}
  BY <1>1, Current
<1>3. Requests \subseteq Later(m) /\ Later(Controller) = Locks
  <2>1. Later(Controller) = Locks
    BY Names DEF Later
  <2>2. CASE m = Controller
    BY <2>1, <2>2, Names
  <2>3. CASE m = Mailbox
    BY <2>3, Names DEF Later, Shared
  <2>4. CASE m = Diagnostics
    BY <2>4, Names DEF Later
  <2>5. QED BY <2>1, <2>2, <2>3, <2>4 DEF Shared
<1>4. CASE s.do = "take"
  <2>1. l = s.of
    BY <1>1, <1>2, <1>4 DEF Proper, Wanted
  <2>2. QED BY <1>2, <1>4, <2>1 DEF Proper
<1>5. CASE s.do \in Loops
  <2>1. l \in Requests
    BY <1>1, <1>2, <1>5 DEF Proper, Wanted, Loops, First
  <2>2. QED BY <1>3, <2>1
<1>6. CASE s.do \in Single
  <2>1. l \in Requests
    BY <1>1, <1>2, <1>6 DEF Proper, Wanted, Single, Setters, Finals
  <2>2. QED BY <1>3, <2>1
<1>7. CASE s.do \in {"admit", "stop"}
  BY <1>1, <1>2, <1>7 DEF Proper, Wanted
<1>8. CASE s.do \in {"put", "forget", "sweep"}
  <2>1. m = Controller
    BY <1>2, <1>8 DEF Proper
  <2>2. QED BY <1>3, <2>1
<1>9. CASE s.do \in {"scan", "find", "pop", "emit"}
  BY <1>2, <1>9 DEF Proper
<1>10. s.do \in Deeds
  BY <1>2 DEF Proper, Steps
<1>11. QED BY <1>4, <1>5, <1>6, <1>7, <1>8, <1>9, <1>10 DEF Deeds

LEMMA OnlyTimeouts == ASSUME Locked PROVE OnlyTimeoutsClose
<1> SUFFICES ASSUME NEW S \in SUBSET Blocked, CircularWait(S),
                    \A t \in S, r \in Requests :
                      ~(r \in Held(t) /\ state[r] = "timedout" /\ Wants(t, Controller))
             PROVE  FALSE
  BY DEF OnlyTimeoutsClose
<1> DEFINE Kept(l) == \E u \in S : l \in Held(u)
<1>1. S \subseteq Threads /\ S # {}
  BY DEF Blocked, CircularWait
<1>2. ASSUME NEW t \in S
      PROVE  \E l \in Locks : Wants(t, l) /\ Kept(l) /\ (l \in Held(t) => l \notin Reentrant)
  <2>1. PICK u \in S : WaitsFor(t, u)
    BY DEF CircularWait
  <2>2. PICK l \in Locks : Wants(t, l) /\ l \in Held(u) /\ (u = t => l \notin Reentrant)
    BY <2>1 DEF WaitsFor
  <2>3. l \in Held(t) => u = t
    BY <1>1, <2>2 DEF Locked, Exclusive
  <2>4. QED BY <2>2, <2>3
<1>3. \A r \in Requests : ~Kept(r)
  <2> SUFFICES ASSUME NEW r \in Requests, NEW t \in S, r \in Held(t) PROVE FALSE
    OBVIOUS
  <2>1. todo[t] # <<>>
    BY DEF Held
  <2>2. Proper(Now(t)) /\ r \in Now(t).in
    BY <1>1, <2>1, Current
  <2>3. r \notin Shared
    BY Names
  <2>4. Now(t).do \in Deeds
    BY <2>2 DEF Proper, Steps
  <2>5. Now(t).do = "take"
    BY <2>2, <2>3, <2>4 DEF Proper, Deeds, Single, Loops, Setters, Finals, Shared
  <2>6. Now(t).of = Controller /\ Now(t).takes = {Controller}
    BY <2>2, <2>3, <2>5 DEF Proper
  <2>7. Wants(t, Controller)
    BY <2>1, <2>5, <2>6 DEF Wants, Wanted
  <2>8. state[r] = "timedout"
    BY <1>1 DEF Locked, Marked
  <2>9. QED BY <2>7, <2>8
<1>4. ASSUME NEW t \in S, NEW m \in Shared, m \in Held(t)
      PROVE  \E l \in Later(m) : /\ l \in Shared /\ Kept(l)
                                 /\ l \in Held(t) => l \notin Reentrant
  <2>1. PICK l \in Locks : Wants(t, l) /\ Kept(l) /\ (l \in Held(t) => l \notin Reentrant)
    BY <1>2
  <2>2. Held(t) \cap Requests = {} /\ l \in Shared
    BY <1>3, <2>1, Names
  <2>3. l \in Later(m)
    BY <1>1, <1>4, <2>1, <2>2, Upward
  <2>4. QED BY <2>1, <2>2, <2>3
<1>5. ~Kept(Diagnostics)
  BY <1>4, Names DEF Later, Shared
<1>6. ~Kept(Mailbox)
  <2> SUFFICES ASSUME NEW t \in S, Mailbox \in Held(t) PROVE FALSE
    OBVIOUS
  <2>1. PICK l \in Later(Mailbox) : l \in Shared /\ Kept(l)
                                      /\ (l \in Held(t) => l \notin Reentrant)
    BY <1>4 DEF Shared
  <2>2. l = Mailbox
    BY <1>5, <2>1, Names DEF Later, Shared
  <2>3. QED BY <2>1, <2>2 DEF Reentrant
<1>7. ~Kept(Controller)
  <2> SUFFICES ASSUME NEW t \in S, Controller \in Held(t) PROVE FALSE
    OBVIOUS
  <2>1. PICK l \in Later(Controller) : l \in Shared /\ Kept(l)
                                         /\ (l \in Held(t) => l \notin Reentrant)
    BY <1>4 DEF Shared
  <2>2. l = Controller
    BY <1>5, <1>6, <2>1 DEF Shared
  <2>3. QED BY <2>1, <2>2 DEF Reentrant
<1>8. \A l \in Locks : ~Kept(l)
  BY <1>3, <1>5, <1>6, <1>7, Names DEF Shared
<1>9. QED BY <1>1, <1>2, <1>8

-----------------------------------------------------------------------------
(* The theorems.                                                           *)

(* Every thread goes through its locks in order, no two are in one lock,   *)
(* and one at a time decides on a request (the invariant of this module).  *)
THEOREM AlwaysLocked == Spec => []Locked
<1>1. Locked /\ [Next]_vars => Locked'
  BY LockedNext
<1>2. QED BY LockedInit, <1>1, PTL DEF Spec

(* One thread at a time decides what becomes of a request, and none while  *)
(* the request waits in the mailbox: a cancellation and the owner never    *)
(* both take a request that one of them has.                               *)
THEOREM OneDecides == Spec => []Custody
<1>1. Locked => Custody
  BY DEF Locked
<1>2. QED BY <1>1, AlwaysLocked, PTL

(* Threads can wait for each other in a circle only if one of them has     *)
(* marked a request as timed out and wants the controller's lock inside    *)
(* that of the request (_caller_timeout): without it there is no deadlock. *)
THEOREM OnlyTimeoutsAlwaysClose == Spec => []OnlyTimeoutsClose
<1>1. Locked => OnlyTimeoutsClose
  BY OnlyTimeouts
<1>2. QED BY <1>1, AlwaysLocked, PTL

(* A request that was cancelled or has ended never changes again, though   *)
(* _finish and cancel_request set its state without looking at it.         *)
THEOREM FinalAlwaysFinal == Spec => FinalIsFinal
<1>1. Locked /\ [Next]_vars =>
        [\A r \in Requests : state[r] \in Finals => state'[r] = state[r]]_vars
  BY LockedNext
<1>2. QED BY <1>1, AlwaysLocked, PTL DEF Spec, FinalIsFinal

=============================================================================
