---------------------------- MODULE Collection_proofs ----------------------------
(***************************************************************************)
(* What holds of what collects and keeps data, for any number of threads,    *)
(* processes, requests and runs: the queue of the application log (LogQueue),*)
(* the live console (LiveLog), the counters of the traffic (Traffic) and the *)
(* retention of the backups (Backups).                                      *)
(***************************************************************************)
EXTENDS LogQueue, LiveLog, Traffic, Backups, Integers, FiniteSetTheorems, WellFoundedInduction, TLAPS

-----------------------------------------------------------------------------
(* What waits in the queue.  It is what was accepted after the first n         *)
(* records, in order, with at most one sentinel somewhere between.            *)

InStep(q, a, n) ==
  /\ Len(q) = Len(a) - n
  /\ \A j \in 1..Len(q) : q[j] = a[n + j]

WithStop(q, a, n, s) ==
  /\ Len(q) = Len(a) - n + 1
  /\ s \in 1..Len(q) /\ q[s] = 0
  /\ \A j \in 1..(s - 1) : q[j] = a[n + j]
  /\ \A j \in (s + 1)..Len(q) : q[j] = a[n + j - 1]

Waiting(q, a, n) == InStep(q, a, n) \/ \E s \in Nat : WithStop(q, a, n, s)

LEMMA WaitingAppend ==
  ASSUME NEW q \in Seq(Nat), NEW a \in Seq(Nat), NEW n \in Nat, n <= Len(a),
         NEW r \in Nat, Waiting(q, a, n)
  PROVE  Waiting(Append(q, r), Append(a, r), n)
<1>1. CASE InStep(q, a, n)
  <2>1. /\ Len(Append(q, r)) = Len(q) + 1 /\ Len(Append(a, r)) = Len(a) + 1
        /\ Len(q) \in Nat /\ Len(a) \in Nat
        /\ Append(q, r)[Len(q) + 1] = r /\ Append(a, r)[Len(a) + 1] = r
        /\ \A j \in 1..Len(q) : Append(q, r)[j] = q[j]
        /\ \A j \in 1..Len(a) : Append(a, r)[j] = a[j]
    BY SMT
  <2>2. Len(q) = Len(a) - n /\ \A j \in 1..Len(q) : q[j] = a[n + j]
    BY <1>1, Zenon DEF InStep
  <2>3. Len(Append(q, r)) = Len(Append(a, r)) - n
    BY <2>1, <2>2, SMT
  <2>4. ASSUME NEW j \in 1..Len(Append(q, r))
        PROVE  Append(q, r)[j] = Append(a, r)[n + j]
    <3>1. CASE j = Len(q) + 1
      <4>1. n + j = Len(a) + 1
        BY <2>1, <2>2, <3>1, SMT
      <4>. QED  BY <2>1, <3>1, <4>1, Zenon
    <3>2. CASE j # Len(q) + 1
      <4>1. j \in 1..(Len(q) + 1)
        BY <2>1, <2>4, Zenon
      <4>2. j \in 1..Len(q) /\ n + j \in 1..Len(a)
        <5>1. Len(q) \in Nat /\ Len(a) \in Nat /\ Len(q) = Len(a) - n
          BY <2>1, <2>2, Zenon
        <5>. HIDE <1>1, <2>1, <2>2
        <5>. QED  BY <5>1, <4>1, <3>2, SMT
      <4>. QED  BY <2>1, <2>2, <4>2, Zenon
    <3>. QED  BY <3>1, <3>2, Zenon
  <2>. QED  BY <2>3, <2>4, Zenon DEF InStep, Waiting
<1>2. CASE \E s \in Nat : WithStop(q, a, n, s)
  <2>1. PICK s \in Nat : WithStop(q, a, n, s)
    BY <1>2
  <2>2. /\ Len(Append(q, r)) = Len(q) + 1 /\ Len(Append(a, r)) = Len(a) + 1
        /\ Len(q) \in Nat /\ Len(a) \in Nat
        /\ Append(q, r)[Len(q) + 1] = r /\ Append(a, r)[Len(a) + 1] = r
        /\ \A j \in 1..Len(q) : Append(q, r)[j] = q[j]
        /\ \A j \in 1..Len(a) : Append(a, r)[j] = a[j]
    BY SMT
  <2>. DEFINE p == Append(q, r)
              b == Append(a, r)
  <2>. HIDE DEF p, b
  <2>3. /\ Len(p) = Len(q) + 1 /\ Len(b) = Len(a) + 1
        /\ Len(q) \in Nat /\ Len(a) \in Nat
        /\ p[Len(q) + 1] = r /\ b[Len(a) + 1] = r
        /\ \A j \in 1..Len(q) : p[j] = q[j]
        /\ \A j \in 1..Len(a) : b[j] = a[j]
    BY <2>2, Zenon DEF p, b
  <2>4. /\ Len(p) = Len(b) - n + 1 /\ s \in 1..Len(p) /\ p[s] = 0
    BY <2>1, <2>3, SMTT(30) DEF WithStop
  <2>5. 1 <= s /\ s <= Len(q) /\ Len(q) = Len(a) - n + 1
    BY <2>1, SMT DEF WithStop
  <2>6. \A j \in 1..(s - 1) : p[j] = b[n + j]
    <3>1. SUFFICES ASSUME NEW j \in 1..(s - 1) PROVE p[j] = b[n + j]
      OBVIOUS
    <3>2. j \in 1..Len(q) /\ n + j \in 1..Len(a)
      BY <2>3, <2>5, SMTT(30)
    <3>3. q[j] = a[n + j]
      BY <2>1, Zenon DEF WithStop
    <3>. QED  BY <2>3, <3>2, <3>3, Zenon
  <2>7. \A j \in (s + 1)..Len(p) : p[j] = b[n + j - 1]
    <3>1. SUFFICES ASSUME NEW j \in (s + 1)..(Len(q) + 1) PROVE p[j] = b[n + j - 1]
      BY <2>3, Zenon
    <3>2. CASE j = Len(q) + 1
      <4>1. n + j - 1 = Len(a) + 1
        BY <2>1, <2>3, <3>2, SMT DEF WithStop
      <4>. QED  BY <2>3, <3>2, <4>1
    <3>3. CASE j # Len(q) + 1
      <4>1. /\ Len(q) \in Nat /\ Len(a) \in Nat
            /\ 1 <= s /\ s <= Len(q) /\ Len(q) = Len(a) - n + 1
        BY <2>3, <2>5, Zenon
      <4>2. j \in Nat /\ s + 1 <= j /\ j <= Len(q)
        <5>1. j \in Int /\ s + 1 <= j /\ j <= Len(q) + 1
          BY <3>1, <4>1, SMT
        <5>2. j # Len(q) + 1
          BY <3>3
        <5>. QED  BY <4>1, <5>1, <5>2, SMTT(30)
      <4>3. j \in 1..Len(q) /\ j \in (s + 1)..Len(q) /\ n + j - 1 \in 1..Len(a)
        BY <4>1, <4>2, SMT
      <4>4. q[j] = a[n + j - 1]
        BY <2>1, <4>3, Zenon DEF WithStop
      <4>. QED  BY <2>3, <4>3, <4>4, Zenon
    <3>. QED  BY <3>2, <3>3
  <2>8. WithStop(p, b, n, s)
    BY <2>4, <2>6, <2>7 DEF WithStop
  <2>9. WithStop(Append(q, r), Append(a, r), n, s)
    BY <2>8 DEF p, b
  <2>. QED  BY <2>9 DEF Waiting
<1>. QED  BY <1>1, <1>2 DEF Waiting

LEMMA WaitingStop ==
  ASSUME NEW q \in Seq(Nat), NEW a \in Seq(Nat), NEW n \in Nat,
         Stop \notin Elements(q), Waiting(q, a, n)
  PROVE  Waiting(Append(q, Stop), a, n)
<1>1. InStep(q, a, n)
  BY SMT DEF Waiting, WithStop, Elements, Stop
<1>2. WithStop(Append(q, Stop), a, n, Len(q) + 1)
  BY <1>1, SMTT(30) DEF InStep, WithStop, Stop
<1>3. Len(q) + 1 \in Nat
  BY SMT
<1>. QED  BY <1>2, <1>3 DEF Waiting

LEMMA WaitingGet ==
  ASSUME NEW q \in Seq(Nat), NEW a \in Seq(Nat), NEW n \in Nat, n <= Len(a),
         q # <<>>, Waiting(q, a, n), \A i \in 1..Len(a) : a[i] # 0
  PROVE  /\ Tail(q) \in Seq(Nat) /\ Len(Tail(q)) = Len(q) - 1 /\ Head(q) \in Nat
         /\ Head(q) = Stop => Waiting(Tail(q), a, n)
         /\ Head(q) # Stop => /\ n < Len(a) /\ a[n + 1] = Head(q)
                              /\ Waiting(Tail(q), a, n + 1)
<1>1. /\ Tail(q) \in Seq(Nat) /\ Len(Tail(q)) = Len(q) - 1 /\ Len(q) \in Nat \ {0}
      /\ Head(q) \in Nat /\ Head(q) = q[1]
      /\ \A j \in 1..(Len(q) - 1) : Tail(q)[j] = q[j + 1]
  BY SMT
<1>2. CASE InStep(q, a, n)
  <2>1. n < Len(a) /\ a[n + 1] = Head(q) /\ Head(q) # Stop
    BY <1>1, <1>2, SMT DEF InStep, Stop
  <2>2. InStep(Tail(q), a, n + 1)
    BY <1>1, <1>2, SMT DEF InStep
  <2>3. Waiting(Tail(q), a, n + 1)
    BY <2>2, Zenon DEF Waiting
  <2>. QED  BY <1>1, <2>1, <2>3, ZenonT(40)
<1>3. CASE \E s \in Nat : WithStop(q, a, n, s)
  <2>1. PICK s \in Nat : WithStop(q, a, n, s)
    BY <1>3
  <2>2. CASE s = 1
    <3>1. Head(q) = Stop
      BY <1>1, <2>1, <2>2, SMT DEF WithStop, Stop
    <3>2. InStep(Tail(q), a, n)
      BY <1>1, <2>1, <2>2, SMT DEF WithStop, InStep
    <3>. QED  BY <1>1, <3>1, <3>2 DEF Waiting
  <2>3. CASE s # 1
    <3>1. n < Len(a) /\ a[n + 1] = Head(q) /\ Head(q) # Stop
      BY <1>1, <2>1, <2>3, SMTT(30) DEF WithStop, Stop
    <3>2. WithStop(Tail(q), a, n + 1, s - 1)
      BY <1>1, <2>1, <2>3, SMTT(30) DEF WithStop
    <3>3. s - 1 \in Nat
      BY <2>1, <2>3, SMT DEF WithStop
    <3>. QED  BY <1>1, <3>1, <3>2, <3>3 DEF Waiting
  <2>. QED  BY <2>2, <2>3
<1>. QED  BY <1>2, <1>3 DEF Waiting

\* With an empty queue, nothing waits.
LEMMA WaitingEmpty ==
  ASSUME NEW a \in Seq(Nat), NEW n \in Nat, NEW q, q = <<>>, Waiting(q, a, n)
  PROVE  Len(a) = n
BY SMT DEF Waiting, InStep, WithStop

-----------------------------------------------------------------------------
(* The invariant. *)

QueueTypes ==
  /\ next \in Nat \ {0}
  /\ emitter \in [Emitters -> [at : {"idle", "put", "again"}, record : Nat]]
  /\ \A t \in Emitters : emitter[t].at = "put" => emitter[t].record # 0
  /\ queue \in Seq(Nat) /\ accepted \in Seq(Nat) /\ done \in Seq(Nat)
  /\ unfinished \in Nat
  /\ worker \in [Workers -> [at : {"none", "get", "persist", "done", "ended"}, item : Nat]]
  /\ current \in Workers \cup {NoWorker}

\* Only the current worker is alive.
OneWorker == \A w \in Workers : Alive(w) => w = current

Step == IF current = NoWorker THEN "none" ELSE worker[current].at
InHand == IF Step = "persist" THEN 1 ELSE 0
Busy == IF Step \in {"persist", "done"} THEN 1 ELSE 0

\* What has been stored, what the worker holds and what waits is what was accepted.
Aligned ==
  /\ \A i \in 1..Len(accepted) : accepted[i] # 0
  /\ Len(done) + InHand <= Len(accepted)
  /\ \A i \in 1..Len(done) : done[i] = accepted[i]
  /\ InHand = 1 => worker[current].item = accepted[Len(done) + 1]
  /\ Waiting(queue, accepted, Len(done) + InHand)

Counted == unfinished = Len(queue) + Busy

Flushed ==
  /\ flush.at \in {"idle", "waiting", "true"}
  /\ flush.seen \subseteq Elements(accepted)
  /\ flush.at = "true" => flush.seen \subseteq Elements(done)

QueueInv == QueueTypes /\ OneWorker /\ Aligned /\ Counted /\ Flushed

\* A step of the worker or of the queue is one of the worker at work.
LEMMA AtWork ==
  ASSUME QueueTypes, OneWorker, NEW w \in Workers, Alive(w)
  PROVE  current = w /\ current # NoWorker /\ Step = worker[w].at
BY QueueBounds, Zenon DEF OneWorker, Step

LEMMA InitQueue == QueueInit => QueueInv
<1>. SUFFICES ASSUME QueueInit PROVE QueueInv
  OBVIOUS
<1>1. QueueTypes
  BY SMT DEF QueueInit, QueueTypes
<1>2. OneWorker
  BY Zenon DEF QueueInit, OneWorker, Alive
<1>3. Step = "none" /\ InHand = 0 /\ Busy = 0
  BY Zenon DEF QueueInit, Step, InHand, Busy
<1>4. InStep(queue, accepted, 0)
  BY SMT DEF QueueInit, InStep
<1>5. Aligned
  BY <1>3, <1>4, SMT DEF QueueInit, Aligned, Waiting
<1>6. Counted /\ Flushed
  BY <1>3, SMT DEF QueueInit, Counted, Flushed, Elements
<1>. QED  BY <1>1, <1>2, <1>5, <1>6 DEF QueueInv

-----------------------------------------------------------------------------
(* Emitters. *)

\* The records and what is flushed stay as they are.
LEMMA Kept ==
  ASSUME QueueInv, UNCHANGED <<accepted, done, flush>>
  PROVE  Flushed'
BY Zenon DEF QueueInv, Flushed, Elements

LEMMA EmitSafe ==
  ASSUME QueueInv, NEW t \in Emitters, Emit(t)
  PROVE  QueueInv'
<1>1. UNCHANGED <<queue, unfinished, accepted, done, flush>> /\ EnsureWorker
  BY Zenon DEF Emit
<1>2. /\ Step' = Step \/ (Step \notin {"get", "persist", "done"} /\ Step' = "get")
      /\ OneWorker' /\ current' \in Workers \cup {NoWorker}
      /\ worker' \in [Workers -> [at : {"none", "get", "persist", "done", "ended"}, item : Nat]]
      /\ Step = "persist" => UNCHANGED <<worker, current>>
  <2>1. CASE ~Needed
    <3>1. UNCHANGED <<worker, current>>
      BY <1>1, <2>1, Zenon DEF EnsureWorker
    <3>. QED  BY <3>1, Zenon DEF QueueInv, QueueTypes, OneWorker, Alive, Step
  <2>2. CASE Needed
    <3>1. PICK w \in Workers : /\ worker[w].at = "none"
                               /\ worker' = [worker EXCEPT ![w] = [at |-> "get", item |-> 0]]
                               /\ current' = w
      BY <1>1, <2>2, Zenon DEF EnsureWorker
    <3>2. Step \notin {"get", "persist", "done"} /\ \A x \in Workers : ~Alive(x)
      BY <2>2, QueueBounds, Zenon DEF Needed, QueueInv, OneWorker, Alive, Step
    <3>3. w # NoWorker
      BY QueueBounds, Zenon
    <3>4. worker' \in [Workers -> [at : {"none", "get", "persist", "done", "ended"}, item : Nat]]
      BY <3>1, SMT DEF QueueInv, QueueTypes
    <3>5. /\ worker'[w].at = "get"
          /\ \A x \in Workers : x # w => worker'[x] = worker[x]
      BY <3>1, SMT DEF QueueInv, QueueTypes
    <3>6. Step' = "get"
      BY <3>1, <3>3, <3>5, Zenon DEF Step
    <3>7. OneWorker'
      BY <3>1, <3>2, <3>5, Zenon DEF OneWorker, Alive
    <3>. QED  BY <3>1, <3>2, <3>4, <3>6, <3>7, Zenon
  <2>. QED  BY <2>1, <2>2
<1>3. InHand' = InHand /\ Busy' = Busy
  BY <1>2, Zenon DEF InHand, Busy
<1>4. InHand = 1 => UNCHANGED <<worker, current>>
  <2>1. InHand = 1 => Step = "persist"
    BY SMT DEF InHand
  <2>. QED  BY <1>2, <2>1, Zenon
<1>5. Aligned' /\ Counted'
  BY <1>1, <1>3, <1>4, Zenon DEF QueueInv, Aligned, Counted
<1>6. QueueTypes'
  <2>1. next' \in Nat \ {0}
    BY SMT DEF Emit, QueueInv, QueueTypes
  <2>2. /\ emitter' \in [Emitters -> [at : {"idle", "put", "again"}, record : Nat]]
        /\ \A x \in Emitters : emitter'[x].at = "put" => emitter'[x].record # 0
    BY SMT DEF Emit, QueueInv, QueueTypes
  <2>. QED  BY <1>1, <1>2, <2>1, <2>2, Zenon DEF QueueInv, QueueTypes
<1>. QED  BY <1>1, <1>2, <1>5, <1>6, Kept DEF QueueInv

LEMMA EnqueueSafe ==
  ASSUME QueueInv, NEW t \in Emitters, Enqueue(t)
  PROVE  QueueInv'
<1>. DEFINE r == emitter[t].record
<1>1. r \in Nat /\ r # 0
  BY SMT DEF Enqueue, QueueInv, QueueTypes
<1>2. UNCHANGED <<next, worker, current, done, flush>>
  BY Zenon DEF Enqueue
<1>3. Step' = Step /\ InHand' = InHand /\ Busy' = Busy /\ OneWorker'
  BY <1>2, Zenon DEF Step, InHand, Busy, OneWorker, Alive, QueueInv
<1>4. /\ emitter' \in [Emitters -> [at : {"idle", "put", "again"}, record : Nat]]
      /\ \A x \in Emitters : emitter'[x].at = "put" => emitter'[x].record # 0
  <2>1. emitter' = [emitter EXCEPT ![t].at = "again"]
    BY Zenon DEF Enqueue
  <2>2. /\ emitter \in [Emitters -> [at : {"idle", "put", "again"}, record : Nat]]
        /\ \A x \in Emitters : emitter[x].at = "put" => emitter[x].record # 0
    BY Zenon DEF QueueInv, QueueTypes
  <2>3. emitter'[t].at = "again" /\ \A x \in Emitters : x # t => emitter'[x] = emitter[x]
    BY <2>1, <2>2, SMT
  <2>4. emitter' \in [Emitters -> [at : {"idle", "put", "again"}, record : Nat]]
    BY <2>1, <2>2, SMT
  <2>5. \A x \in Emitters : emitter'[x].at = "put" => emitter'[x].record # 0
    <3>1. "again" # "put"
      OBVIOUS
    <3>. QED  BY <2>2, <2>3, <3>1, Zenon
  <2>. QED  BY <2>4, <2>5
<1>5. CASE UNCHANGED <<queue, unfinished, accepted>>
  <2>1. QueueTypes'
    BY <1>2, <1>4, <1>5, Zenon DEF QueueInv, QueueTypes
  <2>2. Aligned' /\ Counted'
    BY <1>2, <1>3, <1>5, Zenon DEF QueueInv, Aligned, Counted
  <2>. QED  BY <1>2, <1>3, <1>5, <2>1, <2>2, Kept DEF QueueInv
<1>6. CASE /\ queue' = Append(queue, r) /\ unfinished' = unfinished + 1
           /\ accepted' = Append(accepted, r)
  <2>. DEFINE n == Len(done) + InHand
  <2>1. /\ n \in Nat /\ Len(done) \in Nat /\ n <= Len(accepted) /\ Waiting(queue, accepted, n)
        /\ queue \in Seq(Nat) /\ accepted \in Seq(Nat) /\ InHand \in {0, 1}
    BY SMT DEF QueueInv, QueueTypes, Aligned, InHand
  <2>2. Waiting(queue', accepted', n)
    BY <1>1, <1>6, <2>1, WaitingAppend
  <2>3. /\ queue' \in Seq(Nat) /\ accepted' \in Seq(Nat) /\ unfinished' \in Nat
        /\ Len(queue') = Len(queue) + 1 /\ Len(accepted') = Len(accepted) + 1
        /\ accepted'[Len(accepted) + 1] = r
        /\ \A i \in 1..Len(accepted) : accepted'[i] = accepted[i]
    BY <1>1, <1>6, SMT DEF QueueInv, QueueTypes
  <2>4. QueueTypes'
    BY <1>2, <1>4, <2>3, Zenon DEF QueueInv, QueueTypes
  <2>5. Counted'
    BY <1>3, <1>6, <2>3, SMT DEF QueueInv, Counted, Busy, QueueTypes
  <2>6. \A i \in 1..Len(accepted') : accepted'[i] # 0
    <3>1. \A i \in 1..Len(accepted') : i \in 1..Len(accepted) \/ i = Len(accepted) + 1
      BY <2>1, <2>3, SMT
    <3>. QED  BY <1>1, <2>3, <3>1, Zenon DEF QueueInv, Aligned
  <2>7. Len(done) + InHand <= Len(accepted') /\ Len(done) <= Len(accepted)
    BY <2>1, <2>3, SMT
  <2>8. \A i \in 1..Len(done) : done[i] = accepted'[i]
    <3>1. \A i \in 1..Len(done) : i \in 1..Len(accepted)
      BY <2>1, <2>7, SMT
    <3>. QED  BY <2>3, <3>1, Zenon DEF QueueInv, Aligned
  <2>9. InHand = 1 => worker[current].item = accepted'[Len(done) + 1]
    <3>1. InHand = 1 => Len(done) + 1 \in 1..Len(accepted)
      BY <2>1, SMT
    <3>. QED  BY <2>3, <3>1, Zenon DEF QueueInv, Aligned
  <2>10. Aligned'
    BY <1>2, <1>3, <2>2, <2>6, <2>7, <2>8, <2>9, Zenon DEF Aligned
  <2>11. Flushed'
    <3>1. Elements(accepted) \subseteq Elements(accepted')
      BY <2>1, <2>3, SMTT(30) DEF Elements
    <3>. QED  BY <1>2, <3>1, Zenon DEF QueueInv, Flushed
  <2>. QED  BY <1>3, <2>4, <2>5, <2>10, <2>11 DEF QueueInv
<1>. QED  BY <1>5, <1>6, Zenon DEF Enqueue

LEMMA EmitAgainSafe ==
  ASSUME QueueInv, NEW t \in Emitters, EmitAgain(t)
  PROVE  QueueInv'
<1>1. UNCHANGED <<next, queue, unfinished, worker, current, accepted, done, flush>>
  BY Zenon DEF EmitAgain
<1>2. /\ emitter \in [Emitters -> [at : {"idle", "put", "again"}, record : Nat]]
      /\ \A x \in Emitters : emitter[x].at = "put" => emitter[x].record # 0
  BY Zenon DEF QueueInv, QueueTypes
<1>3. emitter' = [emitter EXCEPT ![t].at = "idle"]
  BY Zenon DEF EmitAgain
<1>4. emitter'[t].at = "idle" /\ \A x \in Emitters : x # t => emitter'[x] = emitter[x]
  BY <1>2, <1>3, SMT
<1>5. emitter' \in [Emitters -> [at : {"idle", "put", "again"}, record : Nat]]
  BY <1>2, <1>3, SMT
<1>6. \A x \in Emitters : emitter'[x].at = "put" => emitter'[x].record # 0
  <2>1. "idle" # "put"
    OBVIOUS
  <2>. QED  BY <1>2, <1>4, <2>1, Zenon
<1>7. QueueTypes'
  BY <1>1, <1>5, <1>6, Zenon DEF QueueInv, QueueTypes
<1>8. Step' = Step /\ InHand' = InHand /\ Busy' = Busy
  BY <1>1, Zenon DEF Step, InHand, Busy
<1>9. OneWorker' /\ Aligned' /\ Counted'
  BY <1>1, <1>8, Zenon DEF QueueInv, OneWorker, Alive, Aligned, Counted
<1>. QED  BY <1>1, <1>7, <1>9, Kept DEF QueueInv

-----------------------------------------------------------------------------
(* The worker. *)

WorkerType == [at : {"none", "get", "persist", "done", "ended"}, item : Nat]

LEMMA WorkerMoves ==
  ASSUME QueueInv, NEW w \in Workers, Alive(w), NEW c \in WorkerType,
         worker' = [worker EXCEPT ![w] = c], current' = current
  PROVE  /\ worker' \in [Workers -> WorkerType] /\ OneWorker'
         /\ Step = worker[w].at /\ Step' = c.at
         /\ current = w /\ worker'[current] = c
<1>1. current = w /\ current # NoWorker /\ Step = worker[w].at
  BY AtWork DEF QueueInv
<1>2. worker \in [Workers -> WorkerType]
  BY Zenon DEF QueueInv, QueueTypes, WorkerType
<1>3. /\ worker' \in [Workers -> WorkerType] /\ worker'[w] = c
      /\ \A x \in Workers : x # w => worker'[x] = worker[x]
  BY <1>2, Zenon
<1>4. OneWorker'
  BY <1>1, <1>3, Zenon DEF QueueInv, OneWorker, Alive
<1>. QED  BY <1>1, <1>3, <1>4, Zenon DEF Step

LEMMA GetSafe ==
  ASSUME QueueInv, NEW w \in Workers, Get(w)
  PROVE  QueueInv'
<1>. DEFINE i == Head(queue)
            c == [at |-> IF i = Stop THEN "done" ELSE "persist", item |-> i]
            n == Len(done) + InHand
<1>1. /\ UNCHANGED <<next, emitter, unfinished, current, accepted, done, flush>>
      /\ worker[w].at = "get" /\ queue # <<>> /\ queue' = Tail(queue)
      /\ worker' = [worker EXCEPT ![w] = c]
  BY Zenon DEF Get
<1>2. Alive(w)
  BY <1>1, Zenon DEF Alive
<1>3. Step = "get"
  BY <1>1, <1>2, AtWork, Zenon DEF QueueInv
<1>4. InHand = 0 /\ Busy = 0
  BY <1>3, SMT DEF InHand, Busy
<1>5. /\ queue \in Seq(Nat) /\ accepted \in Seq(Nat) /\ done \in Seq(Nat)
      /\ Len(done) \in Nat /\ Len(done) <= Len(accepted)
      /\ Waiting(queue, accepted, Len(done))
      /\ \A k \in 1..Len(accepted) : accepted[k] # 0
  BY <1>4, SMT DEF QueueInv, QueueTypes, Aligned
<1>6. /\ queue' \in Seq(Nat) /\ Len(queue') = Len(queue) - 1 /\ i \in Nat
      /\ i = Stop => Waiting(queue', accepted, Len(done))
      /\ i # Stop => /\ Len(done) < Len(accepted) /\ accepted[Len(done) + 1] = i
                     /\ Waiting(queue', accepted, Len(done) + 1)
  BY <1>1, <1>5, WaitingGet
<1>7. c \in WorkerType
  BY <1>6, SMT DEF WorkerType
<1>8. /\ worker' \in [Workers -> WorkerType] /\ OneWorker' /\ Step' = c.at
      /\ worker'[current] = c
  BY <1>1, <1>2, <1>7, WorkerMoves
<1>9. Busy' = 1 /\ InHand' = IF i = Stop THEN 0 ELSE 1
  BY <1>8, SMT DEF Busy, InHand
<1>10. QueueTypes'
  BY <1>1, <1>6, <1>8, Zenon DEF QueueInv, QueueTypes, WorkerType
<1>11. Counted'
  <2>1. unfinished = Len(queue) /\ Len(queue) \in Nat
    BY <1>4, <1>5, SMT DEF QueueInv, Counted
  <2>. QED  BY <1>1, <1>6, <1>9, <2>1, SMT DEF Counted
<1>12. Aligned'
  <2>1. CASE i = Stop
    <3>1. Len(done) + InHand' = Len(done)
      BY <1>5, <1>9, <2>1, SMT
    <3>2. InHand' # 1
      BY <1>9, <2>1, SMT
    <3>. QED  BY <1>1, <1>5, <1>6, <2>1, <3>1, <3>2, Zenon DEF QueueInv, Aligned
  <2>2. CASE i # Stop
    <3>1. Len(done) + InHand' = Len(done) + 1 /\ Len(done) + 1 <= Len(accepted)
      BY <1>5, <1>6, <1>9, <2>2, SMT
    <3>2. worker'[current'].item = accepted[Len(done) + 1]
      BY <1>1, <1>6, <1>8, <2>2, SMT
    <3>. QED  BY <1>1, <1>5, <1>6, <2>2, <3>1, <3>2, Zenon DEF QueueInv, Aligned
  <2>. QED  BY <2>1, <2>2
<1>. QED  BY <1>1, <1>8, <1>10, <1>11, <1>12, Kept DEF QueueInv

LEMMA StoreSafe ==
  ASSUME QueueInv, NEW w \in Workers, Store(w)
  PROVE  QueueInv'
<1>. DEFINE c == [worker[w] EXCEPT !.at = "done"]
            i == worker[w].item
<1>1. /\ UNCHANGED <<next, emitter, queue, unfinished, current, accepted, flush>>
      /\ worker[w].at = "persist" /\ done' = Append(done, i)
      /\ worker' = [worker EXCEPT ![w].at = "done"]
  BY Zenon DEF Store
<1>2. Alive(w)
  BY <1>1, Zenon DEF Alive
<1>3. worker[w] \in WorkerType /\ worker \in [Workers -> WorkerType]
  BY Zenon DEF QueueInv, QueueTypes, WorkerType
<1>4. c \in WorkerType /\ worker' = [worker EXCEPT ![w] = c] /\ c.at = "done" /\ i \in Nat
  BY <1>1, <1>3, SMT DEF WorkerType
<1>5. /\ worker' \in [Workers -> WorkerType] /\ OneWorker' /\ Step' = "done"
      /\ Step = "persist" /\ current = w
  <2>. HIDE DEF c
  <2>. QED  BY <1>1, <1>2, <1>4, WorkerMoves
<1>6. Busy' = 1 /\ Busy = 1 /\ InHand' = 0 /\ InHand = 1
  BY <1>5, SMT DEF Busy, InHand
<1>7. /\ accepted \in Seq(Nat) /\ done \in Seq(Nat) /\ Len(done) \in Nat
      /\ Len(done) + 1 <= Len(accepted) /\ i = accepted[Len(done) + 1]
      /\ Waiting(queue, accepted, Len(done) + 1)
  BY <1>5, <1>6, SMT DEF QueueInv, QueueTypes, Aligned
<1>8. /\ done' \in Seq(Nat) /\ Len(done') = Len(done) + 1
      /\ done'[Len(done) + 1] = i /\ \A k \in 1..Len(done) : done'[k] = done[k]
  BY <1>1, <1>4, <1>7, SMT
<1>9. QueueTypes'
  BY <1>1, <1>5, <1>8, Zenon DEF QueueInv, QueueTypes, WorkerType
<1>10. Counted'
  BY <1>1, <1>6, Zenon DEF QueueInv, Counted
<1>11. Aligned'
  <2>1. Len(done') + InHand' = Len(done) + 1 /\ InHand' # 1
    BY <1>6, <1>7, <1>8, SMT
  <2>2. \A k \in 1..Len(done') : done'[k] = accepted[k]
    <3>1. \A k \in 1..Len(done') : k \in 1..Len(done) \/ k = Len(done) + 1
      BY <1>7, <1>8, SMT
    <3>. QED  BY <1>7, <1>8, <3>1, Zenon DEF QueueInv, Aligned
  <2>. QED  BY <1>1, <1>7, <2>1, <2>2, Zenon DEF QueueInv, Aligned
<1>12. Flushed'
  <2>1. Elements(done) \subseteq Elements(done')
    BY <1>7, <1>8, SMTT(30) DEF Elements
  <2>. QED  BY <1>1, <2>1, Zenon DEF QueueInv, Flushed
<1>. QED  BY <1>5, <1>9, <1>10, <1>11, <1>12 DEF QueueInv

LEMMA TaskDoneSafe ==
  ASSUME QueueInv, NEW w \in Workers, TaskDone(w)
  PROVE  QueueInv'
<1>. DEFINE c == [at |-> IF worker[w].item = Stop THEN "ended" ELSE "get", item |-> 0]
<1>1. /\ UNCHANGED <<next, emitter, queue, current, accepted, done, flush>>
      /\ worker[w].at = "done" /\ unfinished' = unfinished - 1
      /\ worker' = [worker EXCEPT ![w] = c]
  BY Zenon DEF TaskDone
<1>2. Alive(w)
  BY <1>1, Zenon DEF Alive
<1>3. c \in WorkerType
  BY SMT DEF WorkerType
<1>4. /\ worker' \in [Workers -> WorkerType] /\ OneWorker' /\ Step' = c.at
      /\ Step = "done" /\ current = w
  BY <1>1, <1>2, <1>3, WorkerMoves
<1>5. Busy' = 0 /\ Busy = 1 /\ InHand' = 0 /\ InHand = 0
  BY <1>4, SMT DEF Busy, InHand
<1>6. unfinished = Len(queue) + 1 /\ Len(queue) \in Nat
  BY <1>5, SMT DEF QueueInv, QueueTypes, Counted
<1>7. unfinished' \in Nat /\ Counted'
  BY <1>1, <1>5, <1>6, SMT DEF Counted
<1>8. QueueTypes'
  BY <1>1, <1>4, <1>7, Zenon DEF QueueInv, QueueTypes, WorkerType
<1>9. InHand' # 1
  BY <1>5, SMT
<1>10. Aligned'
  BY <1>1, <1>5, <1>9, Zenon DEF QueueInv, Aligned
<1>. QED  BY <1>1, <1>4, <1>7, <1>8, <1>10, Kept DEF QueueInv

LEMMA ShutdownSafe ==
  ASSUME QueueInv, Shutdown
  PROVE  QueueInv'
<1>1. /\ UNCHANGED <<next, emitter, worker, current, accepted, done, flush>>
      /\ Stop \notin Elements(queue)
      /\ queue' = Append(queue, Stop) /\ unfinished' = unfinished + 1
  BY Zenon DEF Shutdown
<1>2. Step' = Step /\ InHand' = InHand /\ Busy' = Busy /\ OneWorker'
  BY <1>1, Zenon DEF Step, InHand, Busy, OneWorker, Alive, QueueInv
<1>. DEFINE n == Len(done) + InHand
<1>3. /\ n \in Nat /\ Waiting(queue, accepted, n) /\ queue \in Seq(Nat)
      /\ accepted \in Seq(Nat) /\ Stop \in Nat /\ Busy \in Nat /\ Len(queue) \in Nat
  BY SMT DEF QueueInv, QueueTypes, Aligned, InHand, Busy, Stop
<1>4. Waiting(queue', accepted, n)
  BY <1>1, <1>3, WaitingStop
<1>5. queue' \in Seq(Nat) /\ Len(queue') = Len(queue) + 1
  BY <1>1, <1>3, SMT
<1>6. unfinished' \in Nat /\ Counted'
  BY <1>1, <1>2, <1>3, <1>5, SMT DEF QueueInv, Counted
<1>7. QueueTypes'
  BY <1>1, <1>5, <1>6, Zenon DEF QueueInv, QueueTypes
<1>8. Aligned'
  BY <1>1, <1>2, <1>4, Zenon DEF QueueInv, Aligned
<1>. QED  BY <1>1, <1>2, <1>6, <1>7, <1>8, Kept DEF QueueInv

-----------------------------------------------------------------------------
(* flush_async. *)

\* When nothing is unfinished, everything accepted is stored.
LEMMA QuietIsStored ==
  ASSUME QueueInv, Quiet
  PROVE  Elements(accepted) \subseteq Elements(done)
<1>1. Len(queue) = 0 /\ Busy = 0 /\ queue \in Seq(Nat)
  BY SMT DEF QueueInv, QueueTypes, Counted, Quiet, Busy
<1>2. InHand = 0
  BY <1>1, SMT DEF Busy, InHand
<1>3. /\ accepted \in Seq(Nat) /\ Len(done) \in Nat /\ queue = <<>>
      /\ Waiting(queue, accepted, Len(done))
  BY <1>1, <1>2, SMT DEF QueueInv, QueueTypes, Aligned
<1>4. Len(accepted) = Len(done)
  BY <1>3, WaitingEmpty
<1>. QED  BY <1>4, Zenon DEF QueueInv, Aligned, Elements

LEMMA FlushSafe ==
  ASSUME QueueInv, FlushStart \/ FlushEnd
  PROVE  QueueInv'
<1>1. UNCHANGED <<next, emitter, queue, unfinished, worker, current, accepted, done>>
  BY Zenon DEF FlushStart, FlushEnd
<1>2. Step' = Step /\ InHand' = InHand /\ Busy' = Busy
  BY <1>1, Zenon DEF Step, InHand, Busy
<1>3. QueueTypes' /\ OneWorker' /\ Aligned' /\ Counted'
  BY <1>1, <1>2, Zenon DEF QueueInv, QueueTypes, OneWorker, Alive, Aligned, Counted
<1>4. Elements(accepted)' = Elements(accepted) /\ Elements(done)' = Elements(done)
  BY <1>1, Zenon DEF Elements
<1>5. CASE FlushStart
  <2>1. flush' = [at |-> "waiting", seen |-> Elements(accepted)]
    BY <1>5, Zenon DEF FlushStart
  <2>2. flush'.at = "waiting" /\ flush'.seen = Elements(accepted) /\ "waiting" # "true"
    BY <2>1, SMT
  <2>. QED  BY <1>3, <1>4, <2>2, Zenon DEF QueueInv, Flushed
<1>6. CASE FlushEnd /\ ~Quiet
  <2>1. flush' = [at |-> "idle", seen |-> {}]
    BY <1>6, Zenon DEF FlushEnd
  <2>2. flush'.at = "idle" /\ flush'.seen = {} /\ "idle" # "true"
    BY <2>1, SMT
  <2>. QED  BY <1>3, <1>4, <2>2, Zenon DEF QueueInv, Flushed
<1>7. CASE FlushEnd /\ Quiet
  <2>1. flush' = [flush EXCEPT !.at = "true"]
    BY <1>7, Zenon DEF FlushEnd
  <2>2. flush'.seen = flush.seen
    BY <2>1, SMT
  <2>3. flush'.at \in {"idle", "waiting", "true"}
    BY <2>1, SMT
  <2>. QED  BY <1>3, <1>4, <1>7, <2>2, <2>3, QuietIsStored, Zenon DEF QueueInv, Flushed
<1>. QED  BY <1>5, <1>6, <1>7

-----------------------------------------------------------------------------
LEMMA QueueInvariant == QueueSpec => []QueueInv
<1>1. QueueInv /\ [QueueNext]_queueVars => QueueInv'
  <2>. SUFFICES ASSUME QueueInv, [QueueNext]_queueVars PROVE QueueInv'
    OBVIOUS
  <2>1. CASE UNCHANGED queueVars
    <3>0. UNCHANGED <<next, emitter, queue, unfinished, worker, current, accepted, done, flush>>
      BY <2>1 DEF queueVars
    <3>1. Step' = Step /\ InHand' = InHand /\ Busy' = Busy
      BY <3>0, Zenon DEF Step, InHand, Busy
    <3>2. QueueTypes'
      BY <3>0, Zenon DEF QueueInv, QueueTypes
    <3>3. OneWorker'
      BY <3>0, Zenon DEF QueueInv, OneWorker, Alive
    <3>4. Aligned' /\ Counted'
      BY <3>0, <3>1, Zenon DEF QueueInv, Aligned, Counted
    <3>5. Flushed'
      BY <3>0, Kept
    <3>. QED  BY <3>2, <3>3, <3>4, <3>5 DEF QueueInv
  <2>. QED  BY <2>1, EmitSafe, EnqueueSafe, EmitAgainSafe, GetSafe, StoreSafe, TaskDoneSafe,
               ShutdownSafe, FlushSafe, Zenon DEF QueueNext
<1>. QED  BY <1>1, InitQueue, PTL DEF QueueSpec

\* Whatever threads emit, workers end and start again and shutdowns are asked for,
\* records are stored once each and in the order the queue accepted them.
THEOREM RecordsStoredInOrder == QueueSpec => []StoredInOrder
<1>1. QueueInv => StoredInOrder
  <2>. SUFFICES ASSUME QueueInv PROVE StoredInOrder
    OBVIOUS
  <2>1. /\ accepted \in Seq(Nat) /\ done \in Seq(Nat)
        /\ Len(done) \in 0..Len(accepted)
        /\ \A i \in 1..Len(done) : done[i] = accepted[i]
    BY SMT DEF QueueInv, QueueTypes, Aligned, InHand
  <2>2. done = SubSeq(accepted, 1, Len(done))
    BY <2>1, SMT
  <2>. QED  BY <2>1, <2>2 DEF StoredInOrder
<1>. QED  BY <1>1, QueueInvariant, PTL

\* flush_async never answers True while a record accepted before it is still to be
\* stored.
THEOREM FlushMeansStored == QueueSpec => []FlushedIsStored
<1>1. QueueInv => FlushedIsStored
  BY Zenon DEF QueueInv, Flushed, FlushedIsStored
<1>. QED  BY <1>1, QueueInvariant, PTL

-----------------------------------------------------------------------------
(* LiveLog. *)

\* What the browser and the processes have.  However far numbers run ahead of the
\* clock, there is a greatest one.
NumbersBounded ==
  \E N \in Nat : ticked <= N /\ \A p \in Processes : lineOf[p] \subseteq 1 .. N

LiveTypes ==
  /\ ticked \in 0 .. Ticks /\ made \subseteq 1 .. ticked
  /\ waiting \in [Processes -> SUBSET made]
  /\ lineOf \in [Processes -> SUBSET Nat] /\ NumbersBounded
  /\ buffer \in [Processes -> SUBSET Nat] /\ \A p \in Processes : buffer[p] \subseteq lineOf[p]
  /\ stamp \in [Created -> 0 .. ticked]
  /\ persisted \subseteq {stamp[n] : n \in made} \ {0}
  /\ cursor \in Nat \cup {NoCursor} /\ since \in Nat \cup {NoCursor}
  /\ polled \subseteq Nat /\ behind \in [Processes -> SUBSET Nat]

\* The page has entries of the processes that answered and of the database.
Answered == Lines(UNION {lineOf[p] : p \in served}) \cup Events(persisted)
ShownIsThere == served \subseteq Processes /\ shown \subseteq Answered

\* The browser has a cursor from its first answer on, of an entry there was then.
CursorIsServed ==
  /\ cursor = NoCursor <=> served = {}
  /\ cursor = NoCursor <=> since = NoCursor
  /\ cursor # NoCursor => cursor = 0 \/ 2 * cursor \in polled \/ 2 * cursor + 1 \in polled

\* The cursor has passed every line that the process had when it last answered, and
\* none that came later unless it was behind already.
CursorIsPast ==
  \A p \in Processes : served = {p} =>
    /\ polled \subseteq Visible(p)
    /\ \A n \in lineOf[p] : IF 2 * n \in polled THEN n <= cursor
                            ELSE n \in behind[p] \/ n > cursor

LiveInv == LiveTypes /\ ShownIsThere /\ CursorIsServed /\ CursorIsPast /\ LiveIsComplete

\* Every set of numbers that is not empty has a least one.
LessThan == {p \in Nat \X Nat : p[1] < p[2]}

LEMMA LeastNumber ==
  ASSUME NEW T \in SUBSET Nat, T # {}
  PROVE  \E x \in T : \A y \in T : x <= y
<1>1. OpToRel(<, Nat) = LessThan
  BY Zenon DEF OpToRel, LessThan
<1>2. IsWellFoundedOn(LessThan, Nat)
  BY <1>1, NatLessThanWellFounded, Zenon
<1>3. T \subseteq Nat
  OBVIOUS
<1>4. PICK x \in T : \A y \in T : ~ (<<y, x>> \in LessThan)
  BY <1>2, <1>3, WFMin, Zenon
<1>5. \A y \in T : ~ (y < x)
  <2>. SUFFICES ASSUME NEW y \in T PROVE ~ (y < x)
    OBVIOUS
  <2>1. <<y, x>> \in Nat \X Nat /\ <<y, x>>[1] = y /\ <<y, x>>[2] = x
    BY SMT
  <2>. QED  BY <1>4, <2>1, SMT DEF LessThan
<1>. QED  BY <1>5, SMT

LEMMA LatestIsLatest ==
  ASSUME NEW N \in Nat, NEW S \in SUBSET (0 .. N)
  PROVE  Latest(S) \in 0 .. N /\ \A x \in S : x <= Latest(S)
<1>1. CASE S = {}
  BY <1>1, SMT DEF Latest
<1>2. CASE S # {}
  <2> DEFINE T == {N - x : x \in S}
  <2>1. T \in SUBSET Nat /\ T # {}
    <3>1. \A x \in S : N - x \in Nat
      BY SMT
    <3>. QED  BY <1>2, <3>1, Zenon
  <2>2. PICK t \in T : \A y \in T : t <= y
    BY <2>1, LeastNumber, Zenon
  <2>3. PICK m \in S : N - m = t
    BY <2>2, Zenon
  <2>4. \A x \in S : m >= x
    <3>. SUFFICES ASSUME NEW x \in S PROVE m >= x
      OBVIOUS
    <3>1. N - x \in T
      BY Zenon
    <3>2. N - m <= N - x
      BY <2>2, <2>3, <3>1, Zenon
    <3>. QED  BY <3>2, SMT
  <2>5. Max(S) \in S /\ \A x \in S : Max(S) >= x
    BY <2>4, Zenon DEF Max
  <2>6. Latest(S) = Max(S)
    BY <1>2, Zenon DEF Latest
  <2>8. Max(S) \in 0 .. N /\ \A x \in S : x \in Int
    <3>1. \A x \in 0 .. N : x \in Int
      BY SMT
    <3>. QED  BY <2>5, <3>1, Zenon
  <2>9. \A a \in 0 .. N, x \in Int : a >= x => x <= a
    BY SMT
  <2>. QED  BY <2>5, <2>6, <2>8, <2>9, Zenon
<1>. QED  BY <1>1, <1>2

\* What is among the newest of more entries is among the newest of fewer.
LEMMA NewestOfFewer ==
  ASSUME NEW k \in Nat, NEW T, IsFiniteSet(T), NEW S \in SUBSET T, NEW n \in S, n \in Newest(k, T)
  PROVE  n \in Newest(k, S)
<1> DEFINE A == {y \in S : y > n}
           B == {y \in T : y > n}
<1>1. IsFiniteSet(B)
  <2>1. B \in SUBSET T
    BY Zenon
  <2>. QED  BY <2>1, FS_Subset, Zenon
<1>2. A \in SUBSET B
  BY Zenon
<1>3. IsFiniteSet(A) /\ Cardinality(A) <= Cardinality(B)
  BY <1>1, <1>2, FS_Subset, Zenon
<1>4. Cardinality(A) \in Nat /\ Cardinality(B) \in Nat
  BY <1>1, <1>3, FS_CardinalityType, Zenon
<1>5. Cardinality(B) < k
  BY Zenon DEF Newest
<1> HIDE DEF A, B
<1>6. Cardinality(A) < k
  BY <1>3, <1>4, <1>5, SMT
<1>. QED  BY <1>6, Zenon DEF Newest, A

LEMMA NewestSubset == \A k, S : Newest(k, S) \subseteq S
BY Zenon DEF Newest

\* Lines have even entries and events odd ones, so that an entry is one of them.
LEMMA EntryOf ==
  ASSUME NEW S \in SUBSET Nat, NEW E \in SUBSET Nat, NEW n \in Nat
  PROVE  /\ 2 * n \in Lines(S) \cup Events(E) <=> n \in S
         /\ Lines(S) \cup Events(E) \subseteq Nat
<1>1. \A m \in Nat : /\ 2 * n # 2 * m + 1 /\ (2 * n = 2 * m => n = m)
                     /\ 2 * m \in Nat /\ 2 * m + 1 \in Nat
  BY SMT
<1>2. n \in S => 2 * n \in Lines(S)
  BY Zenon DEF Lines
<1>3. 2 * n \in Lines(S) => n \in S
  <2>. SUFFICES ASSUME 2 * n \in Lines(S) PROVE n \in S
    OBVIOUS
  <2>1. PICK m \in S : 2 * n = 2 * m
    BY Zenon DEF Lines
  <2>. QED  BY <1>1, <2>1, Zenon
<1>4. 2 * n \notin Events(E)
  BY <1>1, Zenon DEF Events
<1>5. Lines(S) \subseteq Nat /\ Events(E) \subseteq Nat
  BY <1>1, Zenon DEF Lines, Events
<1>. QED  BY <1>2, <1>3, <1>4, <1>5, Zenon

LEMMA LinesMore ==
  ASSUME NEW S, NEW T \in SUBSET S
  PROVE  Lines(T) \subseteq Lines(S)
BY Zenon DEF Lines

LEMMA HalfOf ==
  ASSUME NEW e \in Nat
  PROVE  e \div 2 \in Nat /\ (e = 2 * (e \div 2) \/ e = 2 * (e \div 2) + 1)
BY SMT

\* The numbers there are, in any state: lines S, and events E stamped by the clock t
\* for the records R.
LEMMA NumbersOf ==
  ASSUME NEW t, NEW R, NEW st, NEW E,
         /\ t \in 0 .. Ticks /\ R \subseteq 1 .. t /\ st \in [Created -> 0 .. t]
         /\ E \subseteq {st[n] : n \in R} \ {0}
  PROVE  /\ E \subseteq 1 .. t /\ t \in Nat /\ t <= Ticks /\ Ticks \in Nat /\ R \subseteq Created
<1>1. t \in Nat /\ Ticks \in Nat /\ t <= Ticks
  BY LiveBounds, SMT
<1>2. R \subseteq Created
  BY <1>1, SMT DEF Created
<1>3. \A e \in E : e \in 0 .. t /\ e # 0
  BY <1>2, Zenon
<1>. QED  BY <1>1, <1>2, <1>3, SMT

LEMMA EntriesFinite ==
  ASSUME NEW N \in Nat, NEW S \in SUBSET (1 .. N), NEW E \in SUBSET (1 .. N)
  PROVE  /\ IsFiniteSet(Lines(S) \cup Events(E)) /\ Lines(S) \cup Events(E) \subseteq Nat
         /\ \E M \in Nat : S \in SUBSET (0 .. M) /\ Lines(S) \cup Events(E) \in SUBSET (0 .. M)
<1> DEFINE M == 2 * N + 1
<1>3. /\ M \in Nat /\ 1 .. N \subseteq 0 .. M /\ 0 .. M \subseteq Nat
      /\ \A n \in 1 .. N : 2 * n \in 0 .. M /\ 2 * n + 1 \in 0 .. M
  BY SMT
<1> HIDE DEF M
<1>4. Lines(S) \cup Events(E) \subseteq 0 .. M /\ S \subseteq 0 .. M
  BY <1>3, Zenon DEF Lines, Events
<1>5. IsFiniteSet(0 .. M)
  BY <1>3, FS_Interval, SMT
<1>6. IsFiniteSet(Lines(S) \cup Events(E))
  BY <1>4, <1>5, FS_Subset, Zenon
<1>. QED  BY <1>3, <1>4, <1>6, Zenon

LEMMA PersistedNumbers ==
  ASSUME LiveTypes
  PROVE  /\ persisted \subseteq 1 .. ticked /\ ticked \in Nat /\ ticked <= Ticks /\ Ticks \in Nat
         /\ made \subseteq Created
<1>1. /\ ticked \in 0 .. Ticks /\ made \subseteq 1 .. ticked /\ stamp \in [Created -> 0 .. ticked]
      /\ persisted \subseteq {stamp[n] : n \in made} \ {0}
  BY Zenon DEF LiveTypes
<1>. QED  BY <1>1, NumbersOf, ZenonT(40)

LEMMA VisibleFinite ==
  ASSUME LiveTypes, NEW p \in Processes
  PROVE  /\ IsFiniteSet(Visible(p)) /\ Visible(p) \subseteq Nat
         /\ \E M \in Nat : lineOf[p] \in SUBSET (0 .. M) /\ Visible(p) \in SUBSET (0 .. M)
<1>1. PICK N \in Nat : ticked <= N /\ lineOf[p] \subseteq 1 .. N
  BY Zenon DEF LiveTypes, NumbersBounded
<1>2. persisted \subseteq 1 .. N
  BY <1>1, PersistedNumbers, SMT
<1>. QED  BY <1>1, <1>2, EntriesFinite, Zenon DEF Visible

LEMMA VisibleFiniteNext ==
  ASSUME LiveTypes', NEW p \in Processes
  PROVE  IsFiniteSet(Visible(p)')
<1>1. PICK N \in Nat : ticked' <= N /\ lineOf'[p] \subseteq 1 .. N
  BY Zenon DEF LiveTypes, NumbersBounded
<1>2. persisted' \subseteq 1 .. ticked' /\ ticked' \in Nat
  <2>1. /\ ticked' \in 0 .. Ticks /\ made' \subseteq 1 .. ticked' /\ stamp' \in [Created -> 0 .. ticked']
        /\ persisted' \subseteq {stamp'[n] : n \in made'} \ {0}
    BY Zenon DEF LiveTypes
  <2>2. made' \subseteq Created /\ ticked' \in Nat
    BY <2>1, LiveBounds, SMT DEF Created
  <2>3. \A e \in persisted' : e \in 0 .. ticked' /\ e # 0
    BY <2>1, <2>2, Zenon
  <2>. QED  BY <2>2, <2>3, SMT
<1>3. persisted' \subseteq 1 .. N
  BY <1>1, <1>2, SMT
<1>4. Visible(p)' = Lines(lineOf'[p]) \cup Events(persisted')
  BY Zenon DEF Visible, Lines, Events
<1>5. IsFiniteSet(Lines(lineOf'[p]) \cup Events(persisted'))
  <2>1. lineOf'[p] \in SUBSET (1 .. N) /\ persisted' \in SUBSET (1 .. N)
    BY <1>1, <1>3, Zenon
  <2>. QED  BY <2>1, EntriesFinite, Zenon
<1>. QED  BY <1>4, <1>5, Zenon

\* Newest keeps its meaning from line numbers to their entries.
LEMMA NewestLines ==
  ASSUME NEW k \in Nat, NEW T \in SUBSET Nat, IsFiniteSet(T), NEW S \in SUBSET Nat,
         Lines(S) \subseteq T, NEW n \in S, 2 * n \in Newest(k, T)
  PROVE  n \in Newest(k, S)
<1> DEFINE A == {y \in S : y > n}
           B == {y \in Lines(S) : y > 2 * n}
           f == [y \in A |-> 2 * y]
<1>1. 2 * n \in Lines(S) /\ Lines(S) \in SUBSET T
  BY Zenon DEF Lines
<1>2. 2 * n \in Newest(k, Lines(S))
  BY <1>1, NewestOfFewer, Zenon
<1>3. Cardinality(B) < k
  BY <1>2, Zenon DEF Newest
<1>4. IsFiniteSet(B)
  <2>1. B \in SUBSET T
    BY <1>1, Zenon
  <2>. QED  BY <2>1, FS_Subset, Zenon
<1>5. \A x, y \in Nat : (2 * x = 2 * y => x = y) /\ (x > y => 2 * x > 2 * y)
  BY SMT
<1>6. f \in [A -> B]
  <2>1. \A y \in A : 2 * y \in B
    <3>. SUFFICES ASSUME NEW y \in A PROVE 2 * y \in B
      OBVIOUS
    <3>1. y \in S /\ y > n /\ y \in Nat /\ n \in Nat
      BY Zenon
    <3>2. 2 * y > 2 * n
      BY <1>5, <3>1, Zenon
    <3>. QED  BY <3>1, <3>2, Zenon DEF Lines
  <2>. QED  BY <2>1, Zenon
<1>7. \A x, y \in A : f[x] = f[y] => x = y
  BY <1>5, Zenon
<1>8. f \in Injection(A, B)
  <2> HIDE DEF A, B, f
  <2>. QED  BY <1>6, <1>7, Zenon DEF Injection, IsInjective
<1>9. IsFiniteSet(A) /\ Cardinality(A) <= Cardinality(B)
  <2> HIDE DEF A, B, f
  <2>. QED  BY <1>4, <1>8, FS_Injection, Zenon
<1>10. Cardinality(A) \in Nat /\ Cardinality(B) \in Nat
  BY <1>4, <1>9, FS_CardinalityType, Zenon
<1> HIDE DEF A, B, f
<1>11. Cardinality(A) < k
  BY <1>3, <1>9, <1>10, SMT
<1>. QED  BY <1>11, Zenon DEF Newest, A

\* What an answer holds are entries, and the newest it could hold.
LEMMA AnswerIs ==
  ASSUME LiveTypes, NEW p \in Processes
  PROVE  /\ Answer(p) \subseteq Visible(p)
         /\ \A n \in buffer[p] : /\ 2 * n \in Newest(FeedLimit, Visible(p))
                                 /\ cursor = NoCursor \/ Restart(p) \/ n > cursor
                                 => 2 * n \in Answer(p)
<1> DEFINE E == Newest(BatchSize, {n \in persisted : cursor = NoCursor \/ n >= cursor})
<1>1. Snapshot(p) \subseteq buffer[p] /\ buffer[p] \subseteq lineOf[p]
  BY NewestSubset, Zenon DEF Snapshot, Newest, LiveTypes
<1>2. \A S : S \subseteq lineOf[p] => Lines(S) \subseteq Visible(p)
  BY Zenon DEF Visible, Lines
<1>3. E \subseteq persisted
  BY Zenon DEF Newest
<1>4. Lines(Snapshot(p)) \cup Events(E) \subseteq Visible(p)
  BY <1>1, <1>2, <1>3, Zenon DEF Visible, Lines, Events
<1>5. Answer(p) = Newest(FeedLimit, Lines(Snapshot(p)) \cup Events(E))
  BY Zenon DEF Answer
<1>6. Answer(p) \subseteq Visible(p)
  BY <1>4, <1>5, NewestSubset, Zenon
<1>7. FeedLimit \in Nat
  BY LiveBounds, SMT
<1>8. IsFiniteSet(Visible(p)) /\ Visible(p) \in SUBSET Nat /\ lineOf[p] \in SUBSET Nat
  BY VisibleFinite, Zenon DEF LiveTypes
<1> HIDE DEF E
<1>9. ASSUME NEW n \in buffer[p], 2 * n \in Newest(FeedLimit, Visible(p)),
             cursor = NoCursor \/ Restart(p) \/ n > cursor
      PROVE  2 * n \in Answer(p)
  <2>1. n \in Snapshot(p)
    <3>1. CASE cursor = NoCursor \/ Restart(p)
      <4>1. buffer[p] \in SUBSET Nat /\ Lines(buffer[p]) \subseteq Visible(p)
        BY <1>1, <1>2, <1>8, Zenon
      <4>2. n \in Newest(FeedLimit, buffer[p])
        BY <1>7, <1>8, <1>9, <4>1, NewestLines, Zenon
      <4>. QED  BY <3>1, <4>2, Zenon DEF Snapshot
    <3>2. CASE ~(cursor = NoCursor \/ Restart(p))
      <4> DEFINE S == {x \in buffer[p] : x > cursor}
      <4>1. n \in S /\ S \subseteq lineOf[p] /\ S \in SUBSET Nat
        BY <1>1, <1>8, <1>9, <3>2, Zenon
      <4> HIDE DEF S
      <4>2. Lines(S) \subseteq Visible(p)
        BY <1>2, <4>1, Zenon
      <4>3. n \in Newest(FeedLimit, S)
        BY <1>7, <1>8, <1>9, <4>1, <4>2, NewestLines, Zenon
      <4>. QED  BY <3>2, <4>3, Zenon DEF Snapshot, S
    <3>. QED  BY <3>1, <3>2
  <2>2. 2 * n \in Lines(Snapshot(p)) \cup Events(E)
    BY <2>1, Zenon DEF Lines
  <2>3. Lines(Snapshot(p)) \cup Events(E) \in SUBSET Visible(p)
    BY <1>4, Zenon
  <2>4. 2 * n \in Newest(FeedLimit, Lines(Snapshot(p)) \cup Events(E))
    BY <1>7, <1>8, <1>9, <2>2, <2>3, NewestOfFewer, Zenon
  <2>. QED  BY <1>5, <2>4
<1>. QED  BY <1>6, <1>9, Zenon

LEMMA LatestInside ==
  ASSUME NEW N \in Nat, NEW S \in SUBSET (0 .. N)
  PROVE  Latest(S) = 0 \/ Latest(S) \in S
<1>1. CASE S = {}
  BY <1>1, Zenon DEF Latest
<1>2. CASE S # {}
  <2>1. PICK m \in S : \A y \in S : m >= y
    <3> DEFINE T == {N - x : x \in S}
    <3>1. \A x \in S : N - x \in Nat
      BY SMT
    <3>2. T \in SUBSET Nat /\ T # {}
      BY <1>2, <3>1, Zenon
    <3>3. PICK t \in T : \A y \in T : t <= y
      BY <3>2, LeastNumber, Zenon
    <3>4. PICK m \in S : N - m = t
      BY <3>3, Zenon
    <3>5. \A x \in S : N - m <= N - x
      BY <3>3, <3>4, Zenon
    <3>6. \A x \in S : m >= x
      BY <3>5, SMT
    <3>. QED  BY <3>6, Zenon
  <2>2. Max(S) \in S
    BY <2>1, Zenon DEF Max
  <2>. QED  BY <1>2, <2>2, Zenon DEF Latest
<1>. QED  BY <1>1, <1>2

LEMMA LatestSequenceIs ==
  ASSUME LiveTypes, NEW p \in Processes
  PROVE  /\ LatestSequence(p) \in Nat /\ \A n \in lineOf[p] : n <= LatestSequence(p)
         /\ \/ LatestSequence(p) = 0 \/ 2 * LatestSequence(p) \in Visible(p)
            \/ 2 * LatestSequence(p) + 1 \in Visible(p)
<1>1. PICK M \in Nat : lineOf[p] \in SUBSET (0 .. M) /\ Visible(p) \in SUBSET (0 .. M)
  BY VisibleFinite, Zenon
<1> DEFINE Q == SequenceOf(Answer(p))
           a == Latest(lineOf[p])
           b == Latest(Q)
<1>2. \A x \in Q : x \in 0 .. M /\ (2 * x \in Visible(p) \/ 2 * x + 1 \in Visible(p))
  <2>. SUFFICES ASSUME NEW x \in Q PROVE x \in 0 .. M /\ (2 * x \in Visible(p) \/ 2 * x + 1 \in Visible(p))
    OBVIOUS
  <2>1. PICK e \in Answer(p) : x = e \div 2
    BY Zenon DEF SequenceOf
  <2>2. e \in Visible(p) /\ e \in 0 .. M
    BY <1>1, AnswerIs, Zenon
  <2>3. e \in Nat /\ e <= M
    BY <2>2, SMT
  <2>4. x \in Nat /\ (e = 2 * x \/ e = 2 * x + 1)
    BY <2>1, <2>3, HalfOf, Zenon
  <2>5. x \in 0 .. M
    BY <2>3, <2>4, SMT
  <2>. QED  BY <2>2, <2>4, <2>5, Zenon
<1>3. Q \in SUBSET (0 .. M)
  BY <1>2, Zenon
<1> HIDE DEF Q
<1>4. /\ a \in 0 .. M /\ \A n \in lineOf[p] : n <= a
      /\ b \in 0 .. M
  BY <1>1, <1>3, LatestIsLatest, Zenon
<1>5. (a = 0 \/ a \in lineOf[p]) /\ (b = 0 \/ b \in Q)
  BY <1>1, <1>3, LatestInside, Zenon
<1>6. /\ a = 0 \/ 2 * a \in Visible(p) \/ 2 * a + 1 \in Visible(p)
      /\ b = 0 \/ 2 * b \in Visible(p) \/ 2 * b + 1 \in Visible(p)
  BY <1>2, <1>5, Zenon DEF Visible, Lines
<1>7. LatestSequence(p) = Latest({a, b})
  BY Zenon DEF LatestSequence, Q
<1> HIDE DEF a, b
<1>8. {a, b} \in SUBSET (0 .. M)
  BY <1>4, Zenon
<1> DEFINE c == Latest({a, b})
<1>9. c \in 0 .. M /\ a <= c
  BY <1>1, <1>8, LatestIsLatest, Zenon
<1>10. c = 0 \/ c \in {a, b}
  BY <1>8, LatestInside, Zenon
<1> HIDE DEF c
<1>11. c = 0 \/ 2 * c \in Visible(p) \/ 2 * c + 1 \in Visible(p)
  BY <1>6, <1>10, SMT
<1>12. c \in Nat /\ \A n \in lineOf[p] : n <= c
  BY <1>1, <1>4, <1>9, SMT
<1>. QED  BY <1>7, <1>11, <1>12, Zenon DEF c

-----------------------------------------------------------------------------
\* A record that is created, and an event that is built or committed, disturb nothing.
LEMMA EntriesCome ==
  ASSUME LiveInv, LiveTypes', UNCHANGED browser, lineOf' = lineOf, buffer' = buffer,
         behind' = behind, persisted \subseteq persisted'
  PROVE  LiveInv'
<1>1. /\ cursor' = cursor /\ shown' = shown /\ since' = since /\ served' = served /\ polled' = polled
  BY Zenon DEF browser
<1>2. CursorIsServed'
  BY <1>1, Zenon DEF LiveInv, CursorIsServed
<1>3. \A p \in Processes : Visible(p) \subseteq Visible(p)'
  BY Zenon DEF Visible, Events
<1>4. CursorIsPast'
  <2>. SUFFICES ASSUME NEW p \in Processes, served = {p}
                PROVE  /\ polled \subseteq Visible(p)'
                       /\ \A n \in lineOf[p] : IF 2 * n \in polled THEN n <= cursor
                                               ELSE n \in behind[p] \/ n > cursor
    BY <1>1, Zenon DEF CursorIsPast
  <2>. QED  BY <1>3, Zenon DEF LiveInv, CursorIsPast
<1>5. ShownIsThere'
  <2>1. Answered \subseteq Answered'
    BY <1>1, Zenon DEF Answered, Events
  <2>. QED  BY <1>1, <2>1, Zenon DEF LiveInv, ShownIsThere
<1>6. LiveIsComplete'
  <2>. SUFFICES ASSUME NEW p \in Processes, served = {p}, NEW n \in buffer[p], n > since,
                       n \notin behind[p], 2 * n \in polled, 2 * n \in Newest(FeedLimit, Visible(p)')
                PROVE  2 * n \in shown
    BY <1>1, Zenon DEF LiveIsComplete
  <2>1. IsFiniteSet(Visible(p)')
    BY VisibleFiniteNext, Zenon
  <2>2. 2 * n \in Visible(p) /\ Visible(p) \in SUBSET Visible(p)'
    BY <1>3, Zenon DEF LiveInv, CursorIsPast
  <2>3. 2 * n \in Newest(FeedLimit, Visible(p))
    BY <2>1, <2>2, LiveBounds, NewestOfFewer, SMT
  <2>. QED  BY <2>3, Zenon DEF LiveInv, LiveIsComplete
<1>. QED  BY <1>2, <1>4, <1>5, <1>6, Zenon DEF LiveInv

LEMMA RecordSteps ==
  ASSUME LiveInv, NEW p \in Processes, Log(p)
  PROVE  LiveInv'
<1>1. /\ ticked < Ticks /\ ticked' = ticked + 1 /\ made' = made \cup {ticked + 1}
      /\ waiting' = [waiting EXCEPT ![p] = @ \cup {ticked + 1}]
      /\ UNCHANGED <<lineOf, buffer, stamp, persisted, browser, behind>>
  BY Zenon DEF Log
<1>2. LiveTypes /\ UNCHANGED <<cursor, shown, since, served, polled>>
  BY <1>1, Zenon DEF LiveInv, browser
<1>3. /\ ticked \in Nat /\ ticked' \in 0 .. Ticks /\ ticked' \in 1 .. ticked'
      /\ 1 .. ticked \subseteq 1 .. ticked' /\ 0 .. ticked \subseteq 0 .. ticked'
  BY <1>1, <1>2, PersistedNumbers, SMT
<1>4. made' \subseteq 1 .. ticked' /\ waiting' \in [Processes -> SUBSET made']
  BY <1>1, <1>2, <1>3, Zenon DEF LiveTypes
<1>5. NumbersBounded'
  <2>1. PICK N \in Nat : ticked <= N /\ \A x \in Processes : lineOf[x] \subseteq 1 .. N
    BY <1>2, Zenon DEF LiveTypes, NumbersBounded
  <2>2. N + 1 \in Nat /\ ticked' <= N + 1 /\ 1 .. N \subseteq 1 .. (N + 1)
    BY <1>1, <1>3, <2>1, SMT
  <2>3. \A x \in Processes : lineOf'[x] \subseteq 1 .. (N + 1)
    BY <1>1, <2>1, <2>2, Zenon
  <2>. QED  BY <2>2, <2>3, Zenon DEF NumbersBounded
<1>6. persisted' \subseteq {stamp'[n] : n \in made'} \ {0}
  BY <1>1, <1>2, Zenon DEF LiveTypes
<1>7. stamp' \in [Created -> 0 .. ticked']
  BY <1>1, <1>2, <1>3, Zenon DEF LiveTypes
<1>8. LiveTypes'
  BY <1>1, <1>2, <1>3, <1>4, <1>5, <1>6, <1>7, Zenon DEF LiveTypes
<1>. QED  BY <1>1, <1>8, EntriesCome, Zenon

LEMMA EventSteps ==
  ASSUME LiveInv, NEW r \in Created, BuildEvent(r) \/ CommitEvent(r)
  PROVE  LiveInv'
<1>1. /\ r \in made
      /\ UNCHANGED <<records, lineOf, buffer, browser, behind>>
      /\ UNCHANGED <<cursor, shown, since, served, polled, waiting, made>>
  BY Zenon DEF BuildEvent, CommitEvent, browser, records
<1>2. LiveTypes
  BY Zenon DEF LiveInv
<1>3. LiveTypes' /\ persisted \subseteq persisted'
  <2>1. CASE BuildEvent(r)
    <3>1. /\ stamp[r] = 0 /\ ticked < Ticks /\ ticked' = ticked + 1
          /\ stamp' = [stamp EXCEPT ![r] = ticked + 1] /\ persisted' = persisted
      BY <2>1, Zenon DEF BuildEvent
    <3>2. /\ ticked \in Nat /\ ticked' \in 0 .. Ticks /\ ticked + 1 \in 0 .. ticked'
          /\ 1 .. ticked \subseteq 1 .. ticked' /\ 0 .. ticked \subseteq 0 .. ticked'
      BY <1>2, <3>1, PersistedNumbers, SMT
    <3>3. stamp' \in [Created -> 0 .. ticked'] /\ \A n \in Created : n # r => stamp'[n] = stamp[n]
      BY <1>2, <3>1, <3>2, Zenon DEF LiveTypes
    <3>4. persisted' \subseteq {stamp'[n] : n \in made'} \ {0}
      <4>. SUFFICES ASSUME NEW e \in persisted PROVE e \in {stamp'[n] : n \in made} \ {0}
        BY <1>1, <3>1, Zenon
      <4>1. PICK n \in made : e = stamp[n] /\ e # 0
        BY <1>2, Zenon DEF LiveTypes
      <4>2. n # r /\ n \in Created
        BY <1>2, <3>1, <4>1, PersistedNumbers, Zenon
      <4>. QED  BY <3>3, <4>1, <4>2, Zenon
    <3>5. NumbersBounded'
      <4>1. PICK N \in Nat : ticked <= N /\ \A x \in Processes : lineOf[x] \subseteq 1 .. N
        BY <1>2, Zenon DEF LiveTypes, NumbersBounded
      <4>2. N + 1 \in Nat /\ ticked' <= N + 1 /\ 1 .. N \subseteq 1 .. (N + 1)
        BY <3>1, <3>2, <4>1, SMT
      <4>3. \A x \in Processes : lineOf'[x] \subseteq 1 .. (N + 1)
        BY <1>1, <4>1, <4>2, Zenon
      <4>. QED  BY <4>2, <4>3, Zenon DEF NumbersBounded
    <3>6. made' \subseteq 1 .. ticked'
      BY <1>1, <1>2, <3>2, Zenon DEF LiveTypes
    <3>. QED  BY <1>1, <1>2, <3>1, <3>2, <3>3, <3>4, <3>5, <3>6, Zenon DEF LiveTypes
  <2>2. CASE CommitEvent(r)
    <3>1. /\ ticked' = ticked /\ stamp' = stamp /\ stamp[r] # 0 /\ persisted' = persisted \cup {stamp[r]}
      BY <2>2, Zenon DEF CommitEvent
    <3>2. persisted' \subseteq {stamp'[n] : n \in made'} \ {0}
      BY <1>1, <1>2, <3>1, Zenon DEF LiveTypes
    <3>3. NumbersBounded'
      BY <1>1, <1>2, <3>1, Zenon DEF LiveTypes, NumbersBounded
    <3>. QED  BY <1>1, <1>2, <3>1, <3>2, <3>3, Zenon DEF LiveTypes
  <2>. QED  BY <2>1, <2>2
<1>. QED  BY <1>1, <1>3, EntriesCome, Zenon

\* The number of a new line is after the record, and greater than those of all lines
\* of its process.
LEMMA NextNumber ==
  ASSUME LiveTypes, NEW p \in Processes, NEW r \in waiting[p]
  PROVE  LET n == Latest({Latest(lineOf[p]) + 1, r})
         IN  n \in Nat /\ n >= r /\ r \in 1 .. ticked /\ \A x \in lineOf[p] : x < n
<1>1. PICK M \in Nat : lineOf[p] \in SUBSET (0 .. M)
  BY VisibleFinite, Zenon
<1> DEFINE a == Latest(lineOf[p])
<1>2. a \in 0 .. M /\ \A x \in lineOf[p] : x <= a
  BY <1>1, LatestIsLatest, Zenon
<1>3. r \in 1 .. ticked /\ ticked \in Nat
  BY PersistedNumbers, Zenon DEF LiveTypes
<1> HIDE DEF a
<1> DEFINE K == M + 1 + ticked
<1>4. K \in Nat /\ a + 1 \in 0 .. K /\ r \in 0 .. K
  BY <1>1, <1>2, <1>3, SMT
<1> HIDE DEF K
<1>5. {a + 1, r} \in SUBSET (0 .. K)
  BY <1>4, Zenon
<1> DEFINE n == Latest({a + 1, r})
<1>6. n \in 0 .. K /\ a + 1 <= n /\ r <= n
  BY <1>4, <1>5, LatestIsLatest, Zenon
<1> HIDE DEF n
<1>7. n \in Nat /\ n >= r /\ \A x \in lineOf[p] : x < n
  BY <1>1, <1>2, <1>3, <1>4, <1>6, SMT
<1>. QED  BY <1>3, <1>7, Zenon DEF n, a

LEMMA AppendStep ==
  ASSUME LiveInv, NEW p \in Processes, NEW r \in Created, AppendLine(p, r)
  PROVE  LiveInv'
<1> DEFINE n == Latest({Latest(lineOf[p]) + 1, r})
<1>1. /\ r \in waiting[p] /\ waiting' = [waiting EXCEPT ![p] = @ \ {r}]
      /\ lineOf' = [lineOf EXCEPT ![p] = @ \cup {n}]
      /\ buffer' = [buffer EXCEPT ![p] = Newest(BufferSize, @ \cup {n})]
      /\ behind' = IF \E e \in polled : e >= 2 * n
                   THEN [behind EXCEPT ![p] = @ \cup {n}] ELSE behind
      /\ UNCHANGED <<ticked, made, stamp, persisted, browser>>
  BY Zenon DEF AppendLine
<1>2. LiveTypes /\ UNCHANGED <<cursor, shown, since, served, polled>>
  BY <1>1, Zenon DEF LiveInv, browser
<1>3. n \in Nat /\ n >= r /\ r \in 1 .. ticked /\ \A x \in lineOf[p] : x < n
  BY <1>1, <1>2, NextNumber, Zenon
<1> HIDE DEF n
<1>4. n >= 1 /\ n \notin lineOf[p]
  <2>1. \A x \in lineOf[p] : x \in Nat /\ x < n
    BY <1>2, <1>3, Zenon DEF LiveTypes
  <2>2. ~(n < n) /\ n >= 1
    BY <1>2, <1>3, PersistedNumbers, SMT
  <2>. QED  BY <2>1, <2>2, Zenon
<1>5. /\ lineOf' \in [Processes -> SUBSET Nat]
      /\ \A x \in Processes : lineOf'[x] = IF x = p THEN lineOf[x] \cup {n} ELSE lineOf[x]
  BY <1>1, <1>2, <1>3, Zenon DEF LiveTypes
<1>6. /\ buffer' \in [Processes -> SUBSET Nat]
      /\ \A x \in Processes : buffer'[x] \subseteq buffer[x] \cup (IF x = p THEN {n} ELSE {})
  <2>1. Newest(BufferSize, buffer[p] \cup {n}) \subseteq buffer[p] \cup {n}
    BY NewestSubset, Zenon
  <2>2. buffer \in [Processes -> SUBSET Nat]
    BY <1>2, Zenon DEF LiveTypes
  <2>3. \A x \in Processes : buffer'[x] = IF x = p THEN Newest(BufferSize, buffer[p] \cup {n}) ELSE buffer[x]
    BY <1>1, <2>2, Zenon
  <2>4. \A x \in Processes : buffer'[x] \subseteq buffer[x] \cup (IF x = p THEN {n} ELSE {})
    BY <2>1, <2>3, Zenon
  <2>5. \A x \in Processes : buffer'[x] \in SUBSET Nat
    BY <1>3, <2>2, <2>4, Zenon
  <2>6. buffer' = [x \in Processes |-> buffer'[x]]
    BY <1>1, <2>2, Zenon
  <2>. QED  BY <2>4, <2>5, <2>6, Zenon
<1>7. \A x \in Processes : buffer'[x] \subseteq lineOf'[x]
  BY <1>2, <1>5, <1>6, Zenon DEF LiveTypes
<1>8. /\ behind' \in [Processes -> SUBSET Nat]
      /\ \A x \in Processes : behind[x] \subseteq behind'[x]
      /\ (\E e \in polled : e >= 2 * n) => n \in behind'[p]
  BY <1>1, <1>2, <1>3, Zenon DEF LiveTypes
<1>9. NumbersBounded'
  <2>1. PICK N \in Nat : ticked <= N /\ \A x \in Processes : lineOf[x] \subseteq 1 .. N
    BY <1>2, Zenon DEF LiveTypes, NumbersBounded
  <2>2. /\ N + n \in Nat /\ ticked <= N + n /\ 1 .. N \subseteq 1 .. (N + n) /\ n \in 1 .. (N + n)
    BY <1>2, <1>3, <1>4, <2>1, PersistedNumbers, SMT
  <2>3. \A x \in Processes : lineOf'[x] \subseteq 1 .. (N + n)
    BY <1>5, <2>1, <2>2, Zenon
  <2>4. ticked' <= N + n
    BY <1>1, <2>2, Zenon
  <2>. QED  BY <2>2, <2>3, <2>4, Zenon DEF NumbersBounded
<1>10. LiveTypes'
  <2>1. waiting' \in [Processes -> SUBSET made']
    BY <1>1, <1>2, Zenon DEF LiveTypes
  <2>2. /\ ticked' = ticked /\ made' = made /\ stamp' = stamp /\ persisted' = persisted
        /\ cursor' = cursor /\ since' = since /\ polled' = polled
    BY <1>1, <1>2, Zenon
  <2>3. /\ ticked' \in 0 .. Ticks /\ made' \subseteq 1 .. ticked' /\ stamp' \in [Created -> 0 .. ticked']
        /\ cursor' \in Nat \cup {NoCursor} /\ since' \in Nat \cup {NoCursor} /\ polled' \subseteq Nat
    BY <1>2, <2>2, Zenon DEF LiveTypes
  <2>4. persisted' \subseteq {stamp'[x] : x \in made'} \ {0}
    BY <1>2, <2>2, Zenon DEF LiveTypes
  <2>. QED  BY <1>5, <1>6, <1>7, <1>8, <1>9, <2>1, <2>3, <2>4, Zenon DEF LiveTypes
<1>11. \A x \in Processes : Visible(x) \subseteq Visible(x)'
  <2>1. \A x \in Processes : lineOf[x] \in SUBSET lineOf'[x]
    BY <1>5, Zenon
  <2>2. \A x \in Processes : Lines(lineOf[x]) \subseteq Lines(lineOf'[x])
    BY <2>1, LinesMore, Zenon
  <2>3. \A x \in Processes : Visible(x)' = Lines(lineOf'[x]) \cup Events(persisted')
    BY Zenon DEF Visible, Lines, Events
  <2>. QED  BY <1>1, <2>2, <2>3, Zenon DEF Visible
<1>12. ShownIsThere'
  <2>1. Answered \subseteq Answered'
    <3>1. \A x \in Processes : lineOf[x] \subseteq lineOf'[x]
      BY <1>5, Zenon
    <3>2. /\ served' = served /\ persisted' = persisted
          /\ (UNION {lineOf[x] : x \in served}) \in SUBSET (UNION {lineOf'[x] : x \in served})
      <4>1. served \subseteq Processes
        BY Zenon DEF LiveInv, ShownIsThere
      <4>. QED  BY <1>1, <1>2, <3>1, <4>1, Zenon
    <3>3. Lines(UNION {lineOf[x] : x \in served}) \subseteq Lines(UNION {lineOf'[x] : x \in served})
      BY <3>2, LinesMore, Zenon
    <3>4. Answered' = Lines(UNION {lineOf'[x] : x \in served'}) \cup Events(persisted')
      BY Zenon DEF Answered, Lines, Events
    <3>. QED  BY <3>2, <3>3, <3>4, Zenon DEF Answered
  <2>. QED  BY <1>2, <2>1, Zenon DEF LiveInv, ShownIsThere
<1>13. CursorIsServed'
  BY <1>2, Zenon DEF LiveInv, CursorIsServed
<1>14. ASSUME served = {p} PROVE 2 * n \notin polled /\ (n \in behind'[p] \/ n > cursor)
  <2>1. 2 * n \notin polled
    <3>1. polled \subseteq Visible(p)
      BY <1>14, Zenon DEF LiveInv, CursorIsPast
    <3>2. lineOf[p] \in SUBSET Nat /\ persisted \in SUBSET Nat
      BY <1>2, PersistedNumbers, SMT DEF LiveTypes
    <3>3. 2 * n \notin Visible(p)
      BY <1>3, <1>4, <3>2, EntryOf, Zenon DEF Visible
    <3>. QED  BY <3>1, <3>3, Zenon
  <2>2. n \in behind'[p] \/ n > cursor
    <3>1. cursor # NoCursor
      BY <1>14, Zenon DEF LiveInv, CursorIsServed
    <3>2. cursor \in Nat /\ (cursor = 0 \/ 2 * cursor \in polled \/ 2 * cursor + 1 \in polled)
      BY <1>2, <3>1, Zenon DEF LiveInv, LiveTypes, CursorIsServed
    <3>3. ASSUME n \notin behind'[p] PROVE n > cursor
      <4>1. ~(2 * cursor \in polled /\ 2 * cursor >= 2 * n)
        BY <1>8, <3>3, Zenon
      <4>2. ~(2 * cursor + 1 \in polled /\ 2 * cursor + 1 >= 2 * n)
        BY <1>8, <3>3, Zenon
      <4>. QED  BY <1>3, <1>4, <3>2, <4>1, <4>2, SMT
    <3>. QED  BY <3>3, Zenon
  <2>. QED  BY <2>1, <2>2, Zenon
<1>15. CursorIsPast'
  <2>. SUFFICES ASSUME NEW x \in Processes, served = {x}
                PROVE  /\ polled \subseteq Visible(x)'
                       /\ \A m \in lineOf'[x] : IF 2 * m \in polled THEN m <= cursor
                                                ELSE m \in behind'[x] \/ m > cursor
    BY <1>2, Zenon DEF CursorIsPast
  <2>1. /\ polled \subseteq Visible(x)
        /\ \A m \in lineOf[x] : IF 2 * m \in polled THEN m <= cursor ELSE m \in behind[x] \/ m > cursor
    BY Zenon DEF LiveInv, CursorIsPast
  <2>2. polled \subseteq Visible(x)'
    BY <1>11, <2>1, Zenon
  <2>3. \A m \in lineOf[x] : IF 2 * m \in polled THEN m <= cursor ELSE m \in behind'[x] \/ m > cursor
    BY <1>8, <2>1, Zenon
  <2>4. ASSUME x = p PROVE IF 2 * n \in polled THEN n <= cursor ELSE n \in behind'[x] \/ n > cursor
    BY <1>14, <2>4, Zenon
  <2>5. \A m \in lineOf'[x] : m \in lineOf[x] \/ (x = p /\ m = n)
    BY <1>5, Zenon
  <2>. QED  BY <2>2, <2>3, <2>4, <2>5, Zenon
<1>16. LiveIsComplete'
  <2>. SUFFICES ASSUME NEW x \in Processes, served = {x}, NEW m \in buffer'[x], m > since,
                       m \notin behind'[x], 2 * m \in polled, 2 * m \in Newest(FeedLimit, Visible(x)')
                PROVE  2 * m \in shown
    BY <1>2, Zenon DEF LiveIsComplete
  <2>1. m \in buffer[x]
    <3>1. m \in buffer[x] \/ (x = p /\ m = n)
      BY <1>6, Zenon
    <3>. QED  BY <1>14, <3>1, Zenon
  <2>2. IsFiniteSet(Visible(x)')
    BY <1>10, VisibleFiniteNext, Zenon
  <2>3. 2 * m \in Visible(x) /\ Visible(x) \in SUBSET Visible(x)'
    BY <1>11, Zenon DEF LiveInv, CursorIsPast
  <2>4. 2 * m \in Newest(FeedLimit, Visible(x))
    BY <2>2, <2>3, LiveBounds, NewestOfFewer, SMT
  <2>5. m \notin behind[x]
    BY <1>8, Zenon
  <2>. QED  BY <2>1, <2>4, <2>5, Zenon DEF LiveInv, LiveIsComplete
<1>. QED  BY <1>10, <1>12, <1>13, <1>15, <1>16, Zenon DEF LiveInv

LEMMA PollStep ==
  ASSUME LiveInv, NEW p \in Processes, Poll(p)
  PROVE  LiveInv'
<1> DEFINE merged == (IF Restart(p) THEN {} ELSE shown) \cup Answer(p)
<1>1. /\ shown' = Newest(FeedLimit, merged) /\ cursor' = LatestSequence(p)
      /\ since' = IF since = NoCursor THEN LatestSequence(p) ELSE since
      /\ served' = served \cup {p} /\ polled' = Visible(p)
      /\ UNCHANGED <<ticked, waiting, made, lineOf, buffer, stamp, persisted, behind>>
  BY Zenon DEF Poll, records
<1>2. /\ LiveTypes /\ ShownIsThere /\ CursorIsServed /\ LiveIsComplete
      /\ \A x \in Processes : Visible(x)' = Visible(x)
  BY <1>1, Zenon DEF LiveInv, Visible, Lines, Events
<1>3. /\ LatestSequence(p) \in Nat /\ \A n \in lineOf[p] : n <= LatestSequence(p)
      /\ \/ LatestSequence(p) = 0 \/ 2 * LatestSequence(p) \in Visible(p)
         \/ 2 * LatestSequence(p) + 1 \in Visible(p)
  BY <1>2, LatestSequenceIs, Zenon
<1>4. LatestSequence(p) # NoCursor
  BY <1>3, SMT DEF NoCursor
<1>5. Answer(p) \subseteq Visible(p) /\ Visible(p) \subseteq Nat /\ IsFiniteSet(Visible(p))
  BY <1>2, AnswerIs, VisibleFinite, Zenon
<1>6. LiveTypes'
  <2>1. NumbersBounded'
    BY <1>1, <1>2, Zenon DEF LiveTypes, NumbersBounded
  <2>. QED  BY <1>1, <1>2, <1>3, <1>5, <2>1, Zenon DEF LiveTypes
<1>7. ShownIsThere'
  <2>1. Answered \subseteq Answered' /\ Visible(p) \subseteq Answered'
    BY <1>1, Zenon DEF Answered, Visible, Lines, Events
  <2>2. merged \subseteq Answered'
    BY <1>2, <1>5, <2>1, Zenon DEF ShownIsThere
  <2> HIDE DEF merged
  <2>3. shown' \subseteq Answered' /\ served' \subseteq Processes
    BY <1>1, <1>2, <2>2, NewestSubset, Zenon DEF ShownIsThere
  <2>. QED  BY <2>3, Zenon DEF ShownIsThere
<1> HIDE DEF merged
<1>8. CursorIsServed'
  BY <1>1, <1>2, <1>3, <1>4, Zenon DEF CursorIsServed
<1>9. CursorIsPast'
  <2>. SUFFICES ASSUME NEW x \in Processes, served' = {x}
                PROVE  /\ Visible(p) \subseteq Visible(x)
                       /\ \A n \in lineOf[x] : IF 2 * n \in Visible(p) THEN n <= LatestSequence(p)
                                               ELSE n \in behind[x] \/ n > LatestSequence(p)
    BY <1>1, <1>2, Zenon DEF CursorIsPast
  <2>1. x = p
    <3>1. p \in served'
      BY <1>1, Zenon
    <3>. QED  BY <3>1, Zenon
  <2>2. \A n \in lineOf[p] : 2 * n \in Visible(p)
    BY Zenon DEF Visible, Lines
  <2>. QED  BY <1>3, <2>1, <2>2, Zenon
<1>10. LiveIsComplete'
  <2>. SUFFICES ASSUME NEW x \in Processes, served' = {x}, NEW n \in buffer[x], n > since',
                       n \notin behind[x], 2 * n \in Newest(FeedLimit, Visible(x))
                PROVE  2 * n \in shown'
    BY <1>1, <1>2, Zenon DEF LiveIsComplete
  <2>1. x = p /\ served \subseteq {p} /\ n \in buffer[p] /\ n \in lineOf[p]
    <3>1. p \in served' /\ served \subseteq served'
      BY <1>1, Zenon
    <3>2. x = p
      BY <3>1, Zenon
    <3>3. served \subseteq {p} /\ n \in buffer[p]
      BY <3>1, <3>2, Zenon
    <3>. QED  BY <1>2, <3>2, <3>3, Zenon DEF LiveTypes
  <2>2. n \in Nat /\ n <= LatestSequence(p)
    BY <1>2, <1>3, <2>1, Zenon DEF LiveTypes
  <2>3. since # NoCursor
    <3>. SUFFICES ASSUME since = NoCursor PROVE FALSE
      OBVIOUS
    <3>1. n > LatestSequence(p)
      BY <1>1, Zenon
    <3>. QED  BY <1>3, <2>2, <3>1, SMT
  <2>4. /\ cursor # NoCursor /\ served = {p} /\ since' = since
    BY <1>1, <1>2, <2>1, <2>3, Zenon DEF CursorIsServed
  <2>5. 2 * n \in merged
    <3>1. CASE Restart(p) \/ n > cursor
      BY <1>2, <2>1, <3>1, AnswerIs, Zenon DEF merged
    <3>2. CASE ~Restart(p) /\ ~(n > cursor)
      <4>1. 2 * n \in polled
        BY <2>1, <2>4, <3>2, Zenon DEF LiveInv, CursorIsPast
      <4>2. 2 * n \in shown
        BY <1>2, <2>1, <2>4, <4>1, Zenon DEF LiveIsComplete
      <4>. QED  BY <3>2, <4>2, Zenon DEF merged
    <3>. QED  BY <3>1, <3>2
  <2>6. merged \in SUBSET Visible(p)
    <3>1. Answered = Visible(p)
      <4>1. UNION {lineOf[y] : y \in served} = lineOf[p]
        BY <2>4, Zenon
      <4>. QED  BY <4>1, Zenon DEF Answered, Visible
    <3>. QED  BY <1>2, <1>5, <3>1, Zenon DEF merged, ShownIsThere
  <2>7. 2 * n \in Newest(FeedLimit, merged)
    BY <1>5, <2>1, <2>5, <2>6, LiveBounds, NewestOfFewer, SMT
  <2>. QED  BY <1>1, <2>7, Zenon
<1>. QED  BY <1>6, <1>7, <1>8, <1>9, <1>10, Zenon DEF LiveInv

LEMMA ClearStep ==
  ASSUME LiveInv, ClearView
  PROVE  LiveInv'
<1>1. /\ cursor # NoCursor /\ shown' = {} /\ since' = cursor
      /\ UNCHANGED <<ticked, waiting, made, lineOf, buffer, stamp, persisted, cursor, served, polled, behind>>
  BY Zenon DEF ClearView, records
<1>2. /\ LiveTypes /\ ShownIsThere /\ CursorIsServed /\ CursorIsPast
  BY Zenon DEF LiveInv
<1>3. /\ \A x \in Processes : Visible(x)' = Visible(x)
  BY <1>1, Zenon DEF Visible, Lines, Events
<1>4. LiveTypes'
  <2>1. NumbersBounded'
    BY <1>1, <1>2, Zenon DEF LiveTypes, NumbersBounded
  <2>. QED  BY <1>1, <1>2, <2>1, Zenon DEF LiveTypes
<1>5. ShownIsThere' /\ CursorIsServed' /\ CursorIsPast'
  BY <1>1, <1>2, <1>3, Zenon DEF ShownIsThere, CursorIsServed, CursorIsPast
<1>6. LiveIsComplete'
  <2>. SUFFICES ASSUME NEW p \in Processes, served = {p}, NEW n \in buffer[p], n > cursor,
                       2 * n \in polled
                PROVE  FALSE
    BY <1>1, Zenon DEF LiveIsComplete
  <2>1. n <= cursor /\ n \in Nat /\ cursor \in Nat
    BY <1>1, <1>2, Zenon DEF LiveTypes, CursorIsPast
  <2>. QED  BY <2>1, SMT
<1>. QED  BY <1>4, <1>5, <1>6, Zenon DEF LiveInv

LEMMA LiveInvInit == LiveInit => LiveInv
<1>. SUFFICES ASSUME LiveInit PROVE LiveInv
  OBVIOUS
<1>1. /\ ticked = 0 /\ made = {} /\ waiting = [p \in Processes |-> {}] /\ lineOf = [p \in Processes |-> {}]
      /\ buffer = [p \in Processes |-> {}] /\ stamp = [n \in Created |-> 0] /\ persisted = {}
      /\ shown = {} /\ cursor = NoCursor /\ since = NoCursor /\ served = {} /\ polled = {}
      /\ behind = [p \in Processes |-> {}]
  BY Zenon DEF LiveInit
<1>2. 0 \in 0 .. Ticks /\ 0 \in 0 .. 0 /\ 0 \in Nat /\ 0 <= 0
  BY LiveBounds, SMT
<1>3. NumbersBounded
  BY <1>1, <1>2, Zenon DEF NumbersBounded
<1>4. LiveTypes
  BY <1>1, <1>2, <1>3, Zenon DEF LiveTypes
<1>5. ShownIsThere /\ CursorIsServed /\ CursorIsPast /\ LiveIsComplete
  BY <1>1, Zenon DEF ShownIsThere, CursorIsServed, CursorIsPast, LiveIsComplete
<1>. QED  BY <1>4, <1>5, Zenon DEF LiveInv

LEMMA LiveInvariant == LiveSpec => []LiveInv
<1>1. LiveInv /\ [LiveNext]_liveVars => LiveInv'
  <2>. SUFFICES ASSUME LiveInv, [LiveNext]_liveVars PROVE LiveInv'
    OBVIOUS
  <2>1. CASE UNCHANGED liveVars
    <3>1. UNCHANGED <<ticked, waiting, made, lineOf, buffer, stamp, persisted, cursor, shown, since,
                      served, polled, behind>>
      BY <2>1, Zenon DEF liveVars
    <3>2. LiveTypes' /\ UNCHANGED browser
      BY <3>1, Zenon DEF LiveInv, LiveTypes, NumbersBounded, browser
    <3>. QED  BY <3>1, <3>2, EntriesCome, Zenon
  <2>2. CASE LiveNext
    BY <2>2, RecordSteps, AppendStep, EventSteps, PollStep, ClearStep, Zenon DEF LiveNext
  <2>. QED  BY <2>1, <2>2
<1>. QED  BY <1>1, LiveInvInit, PTL DEF LiveSpec

\* Whatever overflows, restarts and arrives late, a page whose polls one process
\* answers shows every line of that process's buffer that was there at the last
\* answer, is numbered after the first one and ahead of what an answer had seen when
\* it was appended, and is among the newest the page may show.
THEOREM ConsoleIsComplete == LiveSpec => []LiveIsComplete
<1>1. LiveInv => LiveIsComplete
  BY DEF LiveInv
<1>. QED  BY <1>1, LiveInvariant, PTL

-----------------------------------------------------------------------------
(* Traffic. *)

Tally == [Kinds -> Nat]

VisitAt == {"idle", "count", "look", "create", "save"}
VisitRow == [step : VisitAt, day : 1 .. Days, kind : Kinds,
             read : Tally, tries : 0 .. Attempts - 1]

CommandAt == {"idle", "counting", "writing", "creating", "updating"}
CommandRow == [step : CommandAt, day : 1 .. Days, left : SUBSET Kinds, counts : Tally]

TrafficTypes ==
  /\ views \in [1 .. Days -> Tally]
  /\ DOMAIN rows \subseteq 1 .. Days /\ \A d \in DOMAIN rows : rows[d] \in Tally
  /\ owner \in [1 .. Days -> Visits \cup {Unowned}]
  /\ visit \in [Visits -> VisitRow]
  /\ command \in CommandRow
  /\ today \in 1 .. Days /\ counted \in [1 .. Days -> Tally]

\* A request that is about to save has the row of its day locked, and nobody else
\* has a row locked.
LockIsHeld ==
  \A v \in Visits, d \in 1 .. Days :
    owner[d] = v <=> visit[v].step = "save" /\ visit[v].day = d

\* What it read is what the row says, until it lets go.
ReadIsFresh ==
  \A v \in Visits : visit[v].step = "save" =>
    visit[v].read = IF visit[v].day \in DOMAIN rows THEN rows[visit[v].day] ELSE NoneYet

RowIsThere == command.step = "updating" => command.day \in DOMAIN rows

TrafficInv == TrafficTypes /\ LockIsHeld /\ ReadIsFresh /\ RowIsThere /\ NoLostUpdate

LEMMA NoneYetTally == NoneYet \in Tally
BY SMT DEF NoneYet, Tally, Kinds

LEMMA RestingRow == Resting \in VisitRow /\ Resting.step = "idle"
BY NoneYetTally, TrafficAssumption, SMT DEF Resting, VisitAt, VisitRow, Kinds, Attempts

LEMMA NoCommandRow == NoCommand \in CommandRow /\ NoCommand.step = "idle"
BY NoneYetTally, TrafficAssumption, SMT DEF NoCommand, CommandAt, CommandRow, Kinds

\* What the row of a day says, or nothing.
Says(d) == IF d \in DOMAIN rows THEN rows[d] ELSE NoneYet

LEMMA SaysCounted ==
  ASSUME TrafficInv, NEW d \in 1 .. Days
  PROVE  Says(d) = counted[d] /\ Says(d) \in Tally
BY NoneYetTally, SMT DEF TrafficInv, NoLostUpdate, Says, TrafficTypes

\* A request moves on, and has no row locked afterwards.
LEMMA LetsGo ==
  ASSUME TrafficInv, NEW v \in Visits, NEW row \in VisitRow, row.step # "save",
         visit' = [visit EXCEPT ![v] = row], owner' = Release(v),
         UNCHANGED <<rows, counted, command, today>>, views' \in [1 .. Days -> Tally]
  PROVE  TrafficInv'
<1>1. /\ visit' \in [Visits -> VisitRow] /\ visit'[v] = row
      /\ \A w \in Visits : w # v => visit'[w] = visit[w]
  BY SMT DEF TrafficInv, TrafficTypes
<1>2. /\ owner' \in [1 .. Days -> Visits \cup {Unowned}]
      /\ \A d \in 1 .. Days : owner'[d] = IF owner[d] = v THEN Unowned ELSE owner[d]
  BY SMT DEF TrafficInv, TrafficTypes, Release
<1>3. TrafficTypes'
  BY <1>1, <1>2, Zenon DEF TrafficInv, TrafficTypes
<1>4. LockIsHeld'
  <2>. SUFFICES ASSUME NEW w \in Visits, NEW d \in 1 .. Days
                PROVE  owner'[d] = w <=> visit'[w].step = "save" /\ visit'[w].day = d
    BY Zenon DEF LockIsHeld
  <2>1. owner[d] = w <=> visit[w].step = "save" /\ visit[w].day = d
    BY Zenon DEF TrafficInv, LockIsHeld
  <2>. QED  BY <1>1, <1>2, <2>1, TrafficAssumption, SMT
<1>5. ReadIsFresh'
  BY <1>1, Zenon DEF TrafficInv, ReadIsFresh
<1>6. RowIsThere' /\ NoLostUpdate'
  BY Zenon DEF TrafficInv, RowIsThere, NoLostUpdate
<1>. QED  BY <1>3, <1>4, <1>5, <1>6 DEF TrafficInv

\* A request without a row has nothing to let go.
LEMMA NothingHeld ==
  ASSUME TrafficInv, NEW v \in Visits, visit[v].step # "save"
  PROVE  Release(v) = owner
<1>1. \A d \in 1 .. Days : owner[d] # v
  BY Zenon DEF TrafficInv, LockIsHeld
<1>2. owner = [d \in 1 .. Days |-> owner[d]]
  BY Zenon DEF TrafficInv, TrafficTypes
<1>. QED  BY <1>1, <1>2, Zenon DEF Release

\* A request locks the row of its day, or inserts it.
LEMMA Locks ==
  ASSUME TrafficInv, NEW v \in Visits, NEW row \in VisitRow, row.step = "save",
         visit[v].step # "save", owner[row.day] = Unowned,
         visit' = [visit EXCEPT ![v] = row], owner' = [owner EXCEPT ![row.day] = v],
         row.read = Says(row.day),
         UNCHANGED <<rows, counted, command, today, views>>
  PROVE  TrafficInv'
<1>1. /\ visit' \in [Visits -> VisitRow] /\ visit'[v] = row
      /\ \A w \in Visits : w # v => visit'[w] = visit[w]
  BY SMT DEF TrafficInv, TrafficTypes
<1>2. row.day \in 1 .. Days
  BY SMT DEF VisitRow
<1>3. /\ owner' \in [1 .. Days -> Visits \cup {Unowned}]
      /\ \A d \in 1 .. Days : owner'[d] = IF d = row.day THEN v ELSE owner[d]
  BY <1>2, SMT DEF TrafficInv, TrafficTypes
<1>4. TrafficTypes'
  BY <1>1, <1>3, Zenon DEF TrafficInv, TrafficTypes
<1>5. LockIsHeld'
  <2>. SUFFICES ASSUME NEW w \in Visits, NEW d \in 1 .. Days
                PROVE  owner'[d] = w <=> visit'[w].step = "save" /\ visit'[w].day = d
    BY Zenon DEF LockIsHeld
  <2>1. LockIsHeld
    BY Zenon DEF TrafficInv
  <2>2. owner[d] = w <=> visit[w].step = "save" /\ visit[w].day = d
    BY <2>1, SMT DEF LockIsHeld
  <2>. QED  BY <1>1, <1>3, <2>2, TrafficAssumption, SMT
<1>6. ReadIsFresh'
  <2>. SUFFICES ASSUME NEW w \in Visits, visit'[w].step = "save"
                PROVE  visit'[w].read = IF visit'[w].day \in DOMAIN rows THEN rows[visit'[w].day] ELSE NoneYet
    <3>1. rows' = rows
      BY Zenon
    <3>. QED  BY <3>1, SMT DEF ReadIsFresh
  <2>1. CASE w = v
    BY <1>1, <2>1, Zenon DEF Says
  <2>2. CASE w # v
    BY <1>1, <2>2, Zenon DEF TrafficInv, ReadIsFresh
  <2>. QED  BY <2>1, <2>2
<1>7. RowIsThere' /\ NoLostUpdate'
  BY Zenon DEF TrafficInv, RowIsThere, NoLostUpdate
<1>. QED  BY <1>4, <1>5, <1>6, <1>7 DEF TrafficInv

\* The row of a day is written while nobody else has it locked.
LEMMA Written ==
  ASSUME TrafficInv, NEW d \in 1 .. Days, NEW c \in Tally,
         rows' = WithCounters(d, c), counted' = [counted EXCEPT ![d] = c]
  PROVE  /\ DOMAIN rows' = DOMAIN rows \cup {d}
         /\ rows'[d] = c /\ \A x \in DOMAIN rows : x # d => rows'[x] = rows[x]
         /\ DOMAIN rows' \subseteq 1 .. Days /\ \A x \in DOMAIN rows' : rows'[x] \in Tally
         /\ counted' \in [1 .. Days -> Tally] /\ NoLostUpdate'
<1>1. /\ DOMAIN rows' = DOMAIN rows \cup {d}
      /\ rows'[d] = c /\ \A x \in DOMAIN rows : x # d => rows'[x] = rows[x]
  BY SMT DEF WithCounters
<1>2. /\ counted' \in [1 .. Days -> Tally] /\ counted'[d] = c
      /\ \A x \in 1 .. Days : x # d => counted'[x] = counted[x]
  BY SMT DEF TrafficInv, TrafficTypes
<1>3. DOMAIN rows' \subseteq 1 .. Days /\ \A x \in DOMAIN rows' : rows'[x] \in Tally
  BY <1>1, SMT DEF TrafficInv, TrafficTypes
<1>4. NoLostUpdate'
  <2>. SUFFICES ASSUME NEW x \in 1 .. Days
                PROVE  IF x \in DOMAIN rows' THEN rows'[x] = counted'[x] ELSE counted'[x] = NoneYet
    BY Zenon DEF NoLostUpdate
  <2>1. IF x \in DOMAIN rows THEN rows[x] = counted[x] ELSE counted[x] = NoneYet
    BY Zenon DEF TrafficInv, NoLostUpdate
  <2>. QED  BY <1>1, <1>2, <2>1, SMT
<1>. QED  BY <1>1, <1>2, <1>3, <1>4, Zenon

\* An aggregation or an import writes the row and ends.
LEMMA CommandWrites ==
  ASSUME TrafficInv, NEW d \in 1 .. Days, NEW c \in Tally, owner[d] = Unowned,
         rows' = WithCounters(d, c), counted' = [counted EXCEPT ![d] = c],
         command' = NoCommand, UNCHANGED <<views, owner, visit, today>>
  PROVE  TrafficInv'
<1>1. /\ DOMAIN rows' = DOMAIN rows \cup {d}
      /\ rows'[d] = c /\ \A x \in DOMAIN rows : x # d => rows'[x] = rows[x]
      /\ DOMAIN rows' \subseteq 1 .. Days /\ \A x \in DOMAIN rows' : rows'[x] \in Tally
      /\ counted' \in [1 .. Days -> Tally] /\ NoLostUpdate'
  BY Written, Zenon
<1>2. NoCommand \in CommandRow /\ NoCommand.step = "idle"
  BY NoCommandRow
<1>3. TrafficTypes'
  BY <1>1, <1>2, Zenon DEF TrafficInv, TrafficTypes
<1>4. LockIsHeld' /\ RowIsThere'
  BY <1>2, SMT DEF TrafficInv, LockIsHeld, RowIsThere
<1>5. ReadIsFresh'
  <2>. SUFFICES ASSUME NEW w \in Visits, visit[w].step = "save"
                PROVE  visit[w].read = IF visit[w].day \in DOMAIN rows' THEN rows'[visit[w].day] ELSE NoneYet
    BY Zenon DEF ReadIsFresh
  <2>1. visit[w].read = IF visit[w].day \in DOMAIN rows THEN rows[visit[w].day] ELSE NoneYet
    BY Zenon DEF TrafficInv, ReadIsFresh
  <2>2. visit[w].day # d
    BY TrafficAssumption, Zenon DEF TrafficInv, LockIsHeld
  <2>. QED  BY <1>1, <2>1, <2>2, SMT
<1>. QED  BY <1>1, <1>3, <1>4, <1>5 DEF TrafficInv

\* An administrative step that writes no row.
LEMMA CommandMoves ==
  ASSUME TrafficInv, command' \in CommandRow,
         command'.step = "updating" => command'.day \in DOMAIN rows,
         UNCHANGED <<rows, owner, visit, counted>>,
         views' \in [1 .. Days -> Tally], today' \in 1 .. Days
  PROVE  TrafficInv'
<1>1. TrafficTypes' /\ LockIsHeld'
  <2>1. TrafficTypes'
    BY Zenon DEF TrafficInv, TrafficTypes
  <2>2. LockIsHeld'
    BY SMT DEF TrafficInv, LockIsHeld
  <2>. QED  BY <2>1, <2>2
<1>2. ReadIsFresh'
  BY Zenon DEF TrafficInv, ReadIsFresh
<1>3. RowIsThere' /\ NoLostUpdate'
  BY Zenon DEF TrafficInv, RowIsThere, NoLostUpdate
<1>. QED  BY <1>1, <1>2, <1>3 DEF TrafficInv

\* A request adds one to its counter in the row that it has locked, and lets go.
LEMMA Saved ==
  ASSUME TrafficInv, NEW v \in Visits, Save(v)
  PROVE  TrafficInv'
<1> DEFINE d == visit[v].day
           k == visit[v].kind
           c == [visit[v].read EXCEPT ![k] = @ + 1]
<1>1. /\ visit[v].step = "save" /\ rows' = WithCounters(d, c)
      /\ counted' = [counted EXCEPT ![d][k] = @ + 1]
      /\ owner' = Release(v) /\ visit' = [visit EXCEPT ![v] = Resting]
      /\ UNCHANGED <<views, command, today>>
  BY Zenon DEF Save
<1>2. d \in 1 .. Days /\ k \in Kinds
  BY SMT DEF TrafficInv, TrafficTypes, VisitRow
<1>3. owner[d] = v
  BY <1>1, <1>2, Zenon DEF TrafficInv, LockIsHeld
<1>4. visit[v].read = counted[d] /\ counted[d] \in Tally
  <2>1. visit[v].read = Says(d)
    BY <1>1, Zenon DEF TrafficInv, ReadIsFresh, Says
  <2>. QED  BY <1>2, <2>1, SaysCounted, Zenon
<1>5. c \in Tally
  BY <1>2, <1>4, SMT DEF Tally
<1>6. counted' = [counted EXCEPT ![d] = c]
  BY <1>1, <1>4, Zenon
<1>7. /\ DOMAIN rows' = DOMAIN rows \cup {d}
      /\ rows'[d] = c /\ \A x \in DOMAIN rows : x # d => rows'[x] = rows[x]
      /\ DOMAIN rows' \subseteq 1 .. Days /\ \A x \in DOMAIN rows' : rows'[x] \in Tally
      /\ counted' \in [1 .. Days -> Tally] /\ NoLostUpdate'
  BY <1>1, <1>2, <1>5, <1>6, Written, Zenon
<1>8. Resting \in VisitRow /\ Resting.step = "idle"
  BY RestingRow
<1>9. /\ visit' \in [Visits -> VisitRow] /\ visit'[v] = Resting
      /\ \A w \in Visits : w # v => visit'[w] = visit[w]
  BY <1>1, <1>8, SMT DEF TrafficInv, TrafficTypes
<1>10. /\ owner' \in [1 .. Days -> Visits \cup {Unowned}]
       /\ \A x \in 1 .. Days : owner'[x] = IF owner[x] = v THEN Unowned ELSE owner[x]
  BY <1>1, SMT DEF TrafficInv, TrafficTypes, Release
<1>11. TrafficTypes'
  BY <1>1, <1>7, <1>9, <1>10, Zenon DEF TrafficInv, TrafficTypes
<1>12. LockIsHeld'
  <2>. SUFFICES ASSUME NEW w \in Visits, NEW x \in 1 .. Days
                PROVE  owner'[x] = w <=> visit'[w].step = "save" /\ visit'[w].day = x
    BY Zenon DEF LockIsHeld
  <2>1. LockIsHeld
    BY Zenon DEF TrafficInv
  <2>2. owner[x] = w <=> visit[w].step = "save" /\ visit[w].day = x
    BY <2>1, Zenon DEF LockIsHeld
  <2>. QED  BY <1>8, <1>9, <1>10, <2>2, TrafficAssumption, SMT
<1>13. ReadIsFresh'
  <2>. SUFFICES ASSUME NEW w \in Visits, visit'[w].step = "save"
                PROVE  visit'[w].read = IF visit'[w].day \in DOMAIN rows' THEN rows'[visit'[w].day] ELSE NoneYet
    BY Zenon DEF ReadIsFresh
  <2>1. w # v /\ visit'[w] = visit[w] /\ visit[w].step = "save"
    BY <1>8, <1>9, SMT
  <2>2. visit[w].read = IF visit[w].day \in DOMAIN rows THEN rows[visit[w].day] ELSE NoneYet
    BY <2>1, Zenon DEF TrafficInv, ReadIsFresh
  <2>3. visit[w].day # d
    <3>1. visit[w].day \in 1 .. Days
      BY SMT DEF TrafficInv, TrafficTypes, VisitRow
    <3>2. owner[visit[w].day] = w
      BY <2>1, <3>1, Zenon DEF TrafficInv, LockIsHeld
    <3>. QED  BY <1>3, <2>1, <3>2, Zenon
  <2>. QED  BY <1>7, <2>1, <2>2, <2>3, SMT
<1>14. RowIsThere'
  <2>1. command' = command /\ DOMAIN rows \subseteq DOMAIN rows'
    BY <1>1, <1>7, Zenon
  <2>. QED  BY <2>1, Zenon DEF TrafficInv, RowIsThere
<1>. QED  BY <1>7, <1>11, <1>12, <1>13, <1>14, Zenon DEF TrafficInv

\* What a request becomes.
LEMMA VisitBecomes ==
  ASSUME NEW r \in VisitRow, NEW step \in VisitAt, NEW d \in 1 .. Days, NEW kind \in Kinds,
         NEW read \in Tally, NEW tries \in 0 .. Attempts - 1
  PROVE  /\ [r EXCEPT !.step = step] \in VisitRow
         /\ [r EXCEPT !.step = step, !.kind = kind] \in VisitRow
         /\ [r EXCEPT !.step = step, !.day = d] \in VisitRow
         /\ [r EXCEPT !.step = step, !.read = read] \in VisitRow
         /\ [r EXCEPT !.step = step, !.read = read, !.tries = tries] \in VisitRow
<1>1. [r EXCEPT !.step = step] \in VisitRow
  BY Zenon DEF VisitRow
<1>2. [r EXCEPT !.step = step, !.kind = kind] \in VisitRow
  BY Zenon DEF VisitRow
<1>3. [r EXCEPT !.step = step, !.day = d] \in VisitRow
  BY Zenon DEF VisitRow
<1>4. [r EXCEPT !.step = step, !.read = read] \in VisitRow
  BY Zenon DEF VisitRow
<1>5. [r EXCEPT !.step = step, !.read = read, !.tries = tries] \in VisitRow
  BY Zenon DEF VisitRow
<1>. QED  BY <1>1, <1>2, <1>3, <1>4, <1>5

\* Every other step of a request.
LEMMA RequestSteps ==
  ASSUME TrafficInv, NEW v \in Visits,
         \/ \E kind \in Kinds : View(v, kind)
         \/ CountView(v) \/ Look(v) \/ Create(v) \/ CreateFails(v) \/ Locked(v) \/ VisitDies(v)
  PROVE  TrafficInv'
<1>0. /\ visit[v] \in VisitRow /\ today \in 1 .. Days /\ views \in [1 .. Days -> Tally]
      /\ visit \in [Visits -> VisitRow] /\ visit[v].day \in 1 .. Days
      /\ visit[v].kind \in Kinds /\ visit[v].read \in Tally
      /\ visit[v].tries \in 0 .. Attempts - 1
  BY SMT DEF TrafficInv, TrafficTypes, VisitRow
<1>a. {"count", "look", "create", "save"} \subseteq VisitAt
  BY SMT DEF VisitAt
<1>1. CASE \E kind \in Kinds : View(v, kind)
  <2>1. PICK kind \in Kinds : View(v, kind)
    BY <1>1
  <2> DEFINE row == [visit[v] EXCEPT !.step = "count", !.kind = kind]
  <2>2. row \in VisitRow /\ row.step # "save"
    <3>1. row \in VisitRow
      BY <1>0, <1>a, VisitBecomes, Zenon
    <3>2. row.step = "count"
      BY <1>0, SMT DEF VisitRow
    <3>. QED  BY <3>1, <3>2, SMT
  <2>3. visit' = [visit EXCEPT ![v] = row] /\ views' \in [1 .. Days -> Tally]
    <3>1. visit' = [visit EXCEPT ![v] = row]
      BY <2>1, Zenon DEF View
    <3>2. views[today] \in Tally /\ views' = [views EXCEPT ![today] = [views[today] EXCEPT ![kind] = @ + 1]]
      BY <1>0, <2>1, Zenon DEF View
    <3>3. [views[today] EXCEPT ![kind] = @ + 1] \in Tally
      BY <3>2, SMT DEF Tally
    <3>. QED  BY <1>0, <3>1, <3>2, <3>3, Zenon
  <2>4. owner' = Release(v)
    BY <2>1, NothingHeld, RestingRow, SMT DEF View
  <2>5. UNCHANGED <<rows, counted, command, today>>
    BY <2>1 DEF View
  <2>. QED  BY <2>2, <2>3, <2>4, <2>5, LetsGo, Zenon
<1>2. CASE CountView(v)
  <2> DEFINE row == [visit[v] EXCEPT !.step = "look", !.day = today]
  <2>2. row \in VisitRow /\ row.step # "save"
    <3>1. row \in VisitRow
      BY <1>0, <1>a, VisitBecomes, Zenon
    <3>2. row.step = "look"
      BY <1>0, SMT DEF VisitRow
    <3>. QED  BY <3>1, <3>2, SMT
  <2>3. visit' = [visit EXCEPT ![v] = row] /\ views' \in [1 .. Days -> Tally]
    BY <1>0, <1>2, Zenon DEF CountView
  <2>4. owner' = Release(v)
    BY <1>2, NothingHeld, SMT DEF CountView
  <2>5. UNCHANGED <<rows, counted, command, today>>
    BY <1>2 DEF CountView
  <2>. QED  BY <2>2, <2>3, <2>4, <2>5, LetsGo, Zenon
<1>3. CASE Look(v) /\ visit[v].day \in DOMAIN rows
  <2> DEFINE row == [visit[v] EXCEPT !.step = "save", !.read = rows[visit[v].day]]
  <2>1. row \in VisitRow /\ row.step = "save" /\ row.day = visit[v].day /\ row.read = Says(row.day)
    <3>1. rows[visit[v].day] \in Tally
      BY <1>3, Zenon DEF TrafficInv, TrafficTypes
    <3>2. row \in VisitRow
      BY <1>0, <1>a, <3>1, VisitBecomes, Zenon
    <3>3. row.step = "save" /\ row.day = visit[v].day /\ row.read = rows[visit[v].day]
      BY <1>0, SMT DEF VisitRow
    <3>. QED  BY <1>3, <3>2, <3>3, Zenon DEF Says
  <2>2. visit' = [visit EXCEPT ![v] = row] /\ owner' = [owner EXCEPT ![row.day] = v]
    BY <1>3, <2>1, Zenon DEF Look
  <2>3. visit[v].step # "save" /\ owner[row.day] = Unowned
    BY <1>3, <2>1, SMT DEF Look, MayHold
  <2>4. UNCHANGED <<rows, counted, command, today, views>>
    BY <1>3, Zenon DEF Look
  <2>. QED  BY <2>1, <2>2, <2>3, <2>4, Locks, Zenon
<1>4. CASE Look(v) /\ visit[v].day \notin DOMAIN rows
  <2> DEFINE row == [visit[v] EXCEPT !.step = "create"]
  <2>2. row \in VisitRow /\ row.step # "save"
    <3>1. row \in VisitRow
      BY <1>0, <1>a, VisitBecomes, Zenon
    <3>2. row.step = "create"
      BY <1>0, SMT DEF VisitRow
    <3>. QED  BY <3>1, <3>2, SMT
  <2>3. visit' = [visit EXCEPT ![v] = row] /\ views' \in [1 .. Days -> Tally]
    BY <1>0, <1>4, SMT DEF Look
  <2>4. owner' = Release(v)
    BY <1>4, NothingHeld, SMT DEF Look
  <2>5. UNCHANGED <<rows, counted, command, today>>
    BY <1>4, Zenon DEF Look
  <2>. QED  BY <2>2, <2>3, <2>4, <2>5, LetsGo, Zenon
<1>5. CASE Create(v)
  <2> DEFINE row == [visit[v] EXCEPT !.step = "save", !.read = NoneYet]
  <2>1. row \in VisitRow /\ row.step = "save" /\ row.day = visit[v].day /\ row.read = Says(row.day)
    <3>1. visit[v].day \notin DOMAIN rows
      BY <1>5, Zenon DEF Create
    <3>2. row \in VisitRow
      BY <1>0, <1>a, NoneYetTally, VisitBecomes, Zenon
    <3>3. row.step = "save" /\ row.day = visit[v].day /\ row.read = NoneYet
      BY <1>0, SMT DEF VisitRow
    <3>. QED  BY <3>1, <3>2, <3>3, Zenon DEF Says
  <2>2. visit' = [visit EXCEPT ![v] = row] /\ owner' = [owner EXCEPT ![row.day] = v]
    BY <1>5, <2>1, Zenon DEF Create
  <2>3. visit[v].step # "save" /\ owner[row.day] = Unowned
    BY <1>5, <2>1, SMT DEF Create, MayHold
  <2>4. UNCHANGED <<rows, counted, command, today, views>>
    BY <1>5, Zenon DEF Create
  <2>. QED  BY <2>1, <2>2, <2>3, <2>4, Locks, Zenon
<1>6. CASE CreateFails(v)
  <2>3. visit' = [visit EXCEPT ![v] = Resting] /\ UNCHANGED <<rows, counted, command, today, views>>
    BY <1>6, Zenon DEF CreateFails
  <2>4. owner' = Release(v)
    BY <1>6, NothingHeld, SMT DEF CreateFails
  <2>5. views' \in [1 .. Days -> Tally] /\ Resting.step # "save"
    BY <1>0, <2>3, RestingRow, SMT
  <2>. QED  BY <2>3, <2>4, <2>5, RestingRow, LetsGo, Zenon
<1>7. CASE Locked(v)
  <2> DEFINE row == IF visit[v].tries + 1 < Attempts
                    THEN [visit[v] EXCEPT !.step = "look", !.read = NoneYet, !.tries = @ + 1]
                    ELSE Resting
  <2>2. row \in VisitRow /\ row.step # "save"
    <3>1. CASE visit[v].tries + 1 < Attempts
      <4>1. visit[v].tries + 1 \in 0 .. Attempts - 1
        BY <1>0, <3>1, SMT DEF Attempts
      <4>2. row \in VisitRow
        BY <1>0, <1>a, <3>1, <4>1, NoneYetTally, VisitBecomes, Zenon
      <4>3. row.step = "look"
        BY <1>0, <3>1, SMT DEF VisitRow
      <4>. QED  BY <4>2, <4>3, SMT
    <3>2. CASE ~(visit[v].tries + 1 < Attempts)
      BY <3>2, RestingRow, SMT
    <3>. QED  BY <3>1, <3>2
  <2>3. visit' = [visit EXCEPT ![v] = row] /\ owner' = Release(v)
    BY <1>0, <1>7, Zenon DEF Locked
  <2>4. views' \in [1 .. Days -> Tally]
    BY <1>0, <1>7, Zenon DEF Locked
  <2>5. UNCHANGED <<rows, counted, command, today>>
    BY <1>7, Zenon DEF Locked
  <2>. QED  BY <2>2, <2>3, <2>4, <2>5, LetsGo, Zenon
<1>8. CASE VisitDies(v)
  <2>3. visit' = [visit EXCEPT ![v] = Resting] /\ owner' = Release(v)
    BY <1>8, Zenon DEF VisitDies
  <2>4. UNCHANGED <<rows, counted, command, today, views>>
    BY <1>8, Zenon DEF VisitDies
  <2>5. views' \in [1 .. Days -> Tally] /\ Resting.step # "save"
    BY <1>0, <2>4, RestingRow, SMT
  <2>. QED  BY <2>3, <2>4, <2>5, RestingRow, LetsGo, Zenon
<1>. QED  BY <1>1, <1>2, <1>3, <1>4, <1>5, <1>6, <1>7, <1>8, Zenon

\* What a command that starts, or counts, becomes.
LEMMA CommandBecomes ==
  ASSUME NEW c \in CommandRow, NEW step \in CommandAt, NEW d \in 1 .. Days,
         NEW left \in SUBSET Kinds, NEW counts \in Tally
  PROVE  /\ [c EXCEPT !.step = step, !.day = d] \in CommandRow
         /\ [c EXCEPT !.step = step, !.day = d, !.left = left] \in CommandRow
         /\ [c EXCEPT !.left = left, !.counts = counts, !.step = step] \in CommandRow
<1>1. [c EXCEPT !.step = step, !.day = d] \in CommandRow
  BY Zenon DEF CommandRow
<1>2. [c EXCEPT !.step = step, !.day = d, !.left = left] \in CommandRow
  BY Zenon DEF CommandRow
<1>3. [c EXCEPT !.left = left, !.counts = counts, !.step = step] \in CommandRow
  BY Zenon DEF CommandRow
<1>. QED  BY <1>1, <1>2, <1>3

\* Every step of the aggregation, of the import, of the pruning and of the clock.
LEMMA CommandSteps ==
  ASSUME TrafficInv,
         \/ Aggregate \/ (\E k \in Kinds : AggregateCount(k)) \/ AggregateWrite
         \/ (\E d \in 1 .. Days, overwrite \in BOOLEAN : Import(d, overwrite))
         \/ ImportCreates \/ ImportFails \/ ImportUpdates
         \/ (\E retention \in 1 .. Days : PruneViews(retention)) \/ Midnight
  PROVE  TrafficInv'
<1>0. /\ command \in CommandRow /\ today \in 1 .. Days /\ views \in [1 .. Days -> Tally]
      /\ command.day \in 1 .. Days /\ command.counts \in Tally /\ command.left \in SUBSET Kinds
      /\ counted \in [1 .. Days -> Tally]
  BY SMT DEF TrafficInv, TrafficTypes, CommandRow
<1>1. CASE Aggregate
  <2>1. command' = [NoCommand EXCEPT !.step = "counting", !.day = today - 1, !.left = Kinds]
    BY <1>1, Zenon DEF Aggregate
  <2>2. today - 1 \in 1 .. Days
    BY <1>0, <1>1, TrafficAssumption, SMT DEF Aggregate
  <2>3. command' \in CommandRow /\ command'.step = "counting"
    <3>1. Kinds \in SUBSET Kinds /\ "counting" \in CommandAt
      BY SMT DEF CommandAt
    <3>2. command' \in CommandRow
      BY <2>1, <2>2, <3>1, NoCommandRow, NoneYetTally, CommandBecomes, Zenon
    <3>3. command'.step = "counting"
      BY <2>1, NoCommandRow, SMT DEF CommandRow
    <3>. QED  BY <3>2, <3>3
  <2>4. command' \in CommandRow /\ command'.step # "updating"
    BY <2>3, SMT
  <2>5. UNCHANGED <<rows, owner, visit, counted, views, today>>
    BY <1>1, Zenon DEF Aggregate
  <2>. QED  BY <1>0, <2>4, <2>5, CommandMoves, Zenon
<1>2. CASE \E k \in Kinds : AggregateCount(k)
  <2>1. PICK k \in Kinds : AggregateCount(k)
    BY <1>2
  <2>2. views[command.day][k] \in Nat
    BY <1>0, SMT DEF Tally
  <2>3. [command.counts EXCEPT ![k] = views[command.day][k]] \in Tally
    BY <1>0, <2>2, SMT DEF Tally
  <2> DEFINE c == [command.counts EXCEPT ![k] = views[command.day][k]]
             s == IF command.left = {k} THEN "writing" ELSE command.step
  <2>6. command' = [command EXCEPT !.left = command.left \ {k}, !.counts = c, !.step = s]
    BY <2>1, Zenon DEF AggregateCount
  <2>7. s \in {"counting", "writing"} /\ command.left \ {k} \in SUBSET Kinds
    <3>1. command.step = "counting"
      BY <2>1, Zenon DEF AggregateCount
    <3>. QED  BY <1>0, <3>1, Zenon
  <2> HIDE DEF c, s
  <2>8. c \in Tally
    BY <2>3, Zenon DEF c
  <2>9. command' \in CommandRow /\ command'.step = s
    <3>1. s \in CommandAt
      BY <2>7, SMT DEF CommandAt
    <3>2. command' \in CommandRow
      BY <1>0, <2>6, <2>7, <2>8, <3>1, CommandBecomes, Zenon
    <3>3. command'.step = s
      BY <1>0, <2>6, SMT DEF CommandRow
    <3>. QED  BY <3>2, <3>3
  <2>4. command' \in CommandRow /\ command'.step # "updating"
    BY <2>7, <2>9, SMT
  <2>5. UNCHANGED <<rows, owner, visit, counted, views, today>>
    BY <2>1, Zenon DEF AggregateCount
  <2>. QED  BY <1>0, <2>4, <2>5, CommandMoves, Zenon
<1>3. CASE AggregateWrite
  <2>1. /\ owner[command.day] = Unowned /\ rows' = WithCounters(command.day, command.counts)
        /\ counted' = [counted EXCEPT ![command.day] = command.counts]
        /\ command' = NoCommand /\ UNCHANGED <<views, owner, visit, today>>
    BY <1>3, Zenon DEF AggregateWrite, Ends, MayHold
  <2>. QED  BY <1>0, <2>1, CommandWrites, Zenon
<1>4. CASE \E d \in 1 .. Days, overwrite \in BOOLEAN : Import(d, overwrite)
  <2>1. PICK d \in 1 .. Days, overwrite \in BOOLEAN : Import(d, overwrite)
    BY <1>4
  <2>2. \/ command' = [NoCommand EXCEPT !.step = "creating", !.day = d]
        \/ command' = [NoCommand EXCEPT !.step = "updating", !.day = d] /\ d \in DOMAIN rows
        \/ command' = NoCommand
    BY <2>1, Zenon DEF Import
  <2>3. command' \in CommandRow /\ (command'.step = "updating" => command'.day \in DOMAIN rows)
    <3>1. {} \in SUBSET Kinds /\ "creating" \in CommandAt /\ "updating" \in CommandAt
      BY SMT DEF CommandAt
    <3>3. CASE command' = [NoCommand EXCEPT !.step = "creating", !.day = d]
      <4>1. command' \in CommandRow
        BY <3>1, <3>3, NoCommandRow, NoneYetTally, CommandBecomes, Zenon
      <4>2. command'.step = "creating"
        BY <3>3, NoCommandRow, SMT DEF CommandRow
      <4>. QED  BY <4>1, <4>2, SMT
    <3>4. CASE command' = [NoCommand EXCEPT !.step = "updating", !.day = d] /\ d \in DOMAIN rows
      <4>1. command' \in CommandRow
        BY <3>1, <3>4, NoCommandRow, NoneYetTally, CommandBecomes, Zenon
      <4>2. command'.day = d
        BY <3>4, NoCommandRow, SMT DEF CommandRow
      <4>. QED  BY <3>4, <4>1, <4>2, Zenon
    <3>5. CASE command' = NoCommand
      BY <3>5, NoCommandRow, SMT
    <3>. QED  BY <2>2, <3>3, <3>4, <3>5, Zenon
  <2>5. UNCHANGED <<rows, owner, visit, counted, views, today>>
    BY <2>1, Zenon DEF Import
  <2>. QED  BY <1>0, <2>3, <2>5, CommandMoves, Zenon
<1>5. CASE ImportCreates
  <2> DEFINE c == [NoneYet EXCEPT !["page"] = Imported]
  <2>1. c \in Tally
    BY NoneYetTally, SMT DEF Tally, Kinds, Imported
  <2>2. /\ owner[command.day] = Unowned /\ rows' = WithCounters(command.day, c)
        /\ counted' = [counted EXCEPT ![command.day] = c]
        /\ command' = NoCommand /\ UNCHANGED <<views, owner, visit, today>>
    BY <1>5, Zenon DEF ImportCreates, Ends, MayHold
  <2>. QED  BY <1>0, <2>1, <2>2, CommandWrites, Zenon
<1>6. CASE ImportFails
  <2>1. command' = NoCommand /\ UNCHANGED <<rows, owner, visit, counted, views, today>>
    BY <1>6, Zenon DEF ImportFails, Ends
  <2>2. command' \in CommandRow /\ command'.step # "updating"
    BY <2>1, NoCommandRow, SMT
  <2>. QED  BY <1>0, <2>1, <2>2, CommandMoves, Zenon
<1>7. CASE ImportUpdates
  <2> DEFINE d == command.day
             c == [rows[d] EXCEPT !["page"] = Imported]
  <2>1. d \in DOMAIN rows /\ rows[d] = counted[d] /\ rows[d] \in Tally
    BY <1>0, <1>7, Zenon DEF ImportUpdates, TrafficInv, RowIsThere, NoLostUpdate, TrafficTypes
  <2>2. c \in Tally
    BY <2>1, SMT DEF Tally, Kinds, Imported
  <2>3. rows' = [x \in DOMAIN rows |-> IF x = d THEN c ELSE rows[x]]
    <3>1. rows' = [rows EXCEPT ![d] = c]
      BY <1>7, Zenon DEF ImportUpdates
    <3>. QED  BY <3>1, Zenon
  <2>4. DOMAIN rows = DOMAIN rows \cup {d}
    BY <2>1, Zenon
  <2>5. rows' = WithCounters(d, c)
    BY <2>3, <2>4, Zenon DEF WithCounters
  <2>6. counted' = [counted EXCEPT ![d] = c]
    BY <1>7, <2>1, Zenon DEF ImportUpdates
  <2>7. owner[d] = Unowned /\ command' = NoCommand /\ UNCHANGED <<views, owner, visit, today>>
    BY <1>7, Zenon DEF ImportUpdates, Ends, MayHold
  <2>. QED  BY <1>0, <2>2, <2>5, <2>6, <2>7, CommandWrites, Zenon
<1>8. CASE \E retention \in 1 .. Days : PruneViews(retention)
  <2>1. PICK retention \in 1 .. Days : PruneViews(retention)
    BY <1>8
  <2>2. PICK cut \in [Kinds -> 0 .. MaxHits] :
          /\ \A d \in 1 .. Days : d + retention = today => \A k \in Kinds : cut[k] <= views[d][k]
          /\ views' = [d \in 1 .. Days |-> IF d + retention < today THEN NoneYet
                         ELSE IF d + retention = today THEN [k \in Kinds |-> views[d][k] - cut[k]]
                         ELSE views[d]]
    BY <2>1, Zenon DEF PruneViews
  <2>3. views' \in [1 .. Days -> Tally]
    <3>. SUFFICES ASSUME NEW d \in 1 .. Days
                  PROVE  (IF d + retention < today THEN NoneYet
                          ELSE IF d + retention = today THEN [k \in Kinds |-> views[d][k] - cut[k]]
                          ELSE views[d]) \in Tally
      BY <2>2, Zenon
    <3>1. views[d] \in Tally
      BY <1>0, Zenon
    <3>2. ASSUME d + retention = today PROVE [k \in Kinds |-> views[d][k] - cut[k]] \in Tally
      <4>1. \A k \in Kinds : views[d][k] \in Nat /\ cut[k] \in 0 .. MaxHits /\ cut[k] <= views[d][k]
        BY <2>2, <3>1, <3>2, SMT DEF Tally
      <4>2. \A k \in Kinds : views[d][k] - cut[k] \in Nat
        BY <4>1, TrafficAssumption, SMT
      <4>. QED  BY <4>2, Zenon DEF Tally
    <3>. QED  BY <3>1, <3>2, NoneYetTally, Zenon
  <2>4. UNCHANGED <<rows, owner, visit, counted, command, today>>
    BY <2>1, Zenon DEF PruneViews
  <2>5. command' \in CommandRow /\ (command'.step = "updating" => command'.day \in DOMAIN rows)
    BY <1>0, <2>4, Zenon DEF TrafficInv, RowIsThere
  <2>. QED  BY <1>0, <2>3, <2>4, <2>5, CommandMoves, Zenon
<1>9. CASE Midnight
  <2>1. UNCHANGED <<rows, owner, visit, counted, command, views>>
    BY <1>9, Zenon DEF Midnight
  <2>2. today' \in 1 .. Days
    BY <1>0, <1>9, TrafficAssumption, SMT DEF Midnight
  <2>3. command' \in CommandRow /\ (command'.step = "updating" => command'.day \in DOMAIN rows)
    BY <1>0, <2>1, Zenon DEF TrafficInv, RowIsThere
  <2>. QED  BY <1>0, <2>1, <2>2, <2>3, CommandMoves, Zenon
<1>. QED  BY <1>1, <1>2, <1>3, <1>4, <1>5, <1>6, <1>7, <1>8, <1>9, Zenon

LEMMA TrafficInvInit == TrafficInit => TrafficInv
<1>. SUFFICES ASSUME TrafficInit PROVE TrafficInv
  OBVIOUS
<1>1. 1 \in 1 .. Days
  BY TrafficAssumption, SMT
<1>2. DOMAIN rows = {}
  BY SMT DEF TrafficInit
<1>3. TrafficTypes
  BY <1>1, <1>2, NoneYetTally, RestingRow, NoCommandRow, SMT DEF TrafficInit, TrafficTypes
<1>4. LockIsHeld /\ ReadIsFresh /\ RowIsThere
  BY RestingRow, NoCommandRow, TrafficAssumption, SMT
     DEF TrafficInit, LockIsHeld, ReadIsFresh, RowIsThere
<1>5. NoLostUpdate
  BY <1>2, SMT DEF TrafficInit, NoLostUpdate
<1>. QED  BY <1>3, <1>4, <1>5 DEF TrafficInv

LEMMA TrafficInvariant == TrafficSpec => []TrafficInv
<1>1. TrafficInv /\ [TrafficNext]_trafficVars => TrafficInv'
  <2>. SUFFICES ASSUME TrafficInv, [TrafficNext]_trafficVars PROVE TrafficInv'
    OBVIOUS
  <2>1. CASE UNCHANGED trafficVars
    <3>1. UNCHANGED <<rows, owner, visit, counted, command, today, views>>
      BY <2>1, Zenon DEF trafficVars
    <3>2. TrafficTypes'
      BY <3>1, Zenon DEF TrafficInv, TrafficTypes
    <3>3. LockIsHeld'
      BY <3>1, SMT DEF TrafficInv, LockIsHeld
    <3>4. ReadIsFresh'
      BY <3>1, Zenon DEF TrafficInv, ReadIsFresh
    <3>5. RowIsThere' /\ NoLostUpdate'
      BY <3>1, Zenon DEF TrafficInv, RowIsThere, NoLostUpdate
    <3>. QED  BY <3>2, <3>3, <3>4, <3>5 DEF TrafficInv
  <2>2. CASE TrafficNext
    BY <2>2, RequestSteps, Saved, CommandSteps, Zenon DEF TrafficNext
  <2>. QED  BY <2>1, <2>2
<1>. QED  BY <1>1, TrafficInvInit, PTL DEF TrafficSpec

\* However many requests, aggregations and imports write the row of a day at once,
\* it holds what the last of the latter wrote and every increment saved since.
THEOREM UpdatesAreKept == TrafficSpec => []NoLostUpdate
<1>1. TrafficInv => NoLostUpdate
  BY DEF TrafficInv
<1>. QED  BY <1>1, TrafficInvariant, PTL

-----------------------------------------------------------------------------
(* Backups. *)

BackupStates == {"pending", "creating", "completed", "failed"}
BackupRow == [status : BackupStates, file : Nat, at : Nat]

\* What a run read: rows with the file of each.
Lists == UNION {[D -> Nat] : D \in SUBSET Nat}
RunAt == {"idle", "begin", "write", "publish", "complete", "list", "retain"}
RunRow == [step : RunAt, row : Nat, file : Nat, old : Lists]

\* Rows are numbered as they are begun, and no two were inserted at the same time.
RowsApart(table, begun, now) ==
  /\ DOMAIN table \subseteq 1 .. begun
  /\ \A b \in DOMAIN table : table[b] \in BackupRow /\ table[b].at <= now
  /\ \A b, c \in DOMAIN table : table[b].at = table[c].at => b = c

\* No two runs have the same archive, and what a run lists for is its own row.
RunApart(rs, begun, r) ==
  rs[r].step # "idle" =>
       /\ rs[r].file \in 1 .. begun /\ rs[r].row \in {NoRow, rs[r].file}
       /\ rs[r].step \in {"list", "retain"} => rs[r].row = rs[r].file
       /\ \A q \in Runs : q # r /\ rs[q].step # "idle" => rs[q].file # rs[r].file

RunsApart(rs, begun) == rs \in [Runs -> RunRow] /\ \A r \in Runs : RunApart(rs, begun, r)

CompletedOf(table) == {b \in DOMAIN table : table[b].status = "completed"}
Retaining(rs) == {r \in Runs : rs[r].step = "retain"}

\* The settled backups, and those that some of the runs are about to settle.
Tallied(finished, late, rs, Q) == (finished \ late) \cup {b \in finished : \E q \in Q : rs[q].row = b}

\* Of any runs that apply the retention at the same time, the one that looked last
\* saw the rows of the others: what it leaves is no more than is kept.
Leaves(finished, late, rs, Q, r) ==
  Cardinality(Tallied(finished, late, rs, Q) \ DOMAIN rs[r].old) <= RetentionCount

LastLooker(finished, late, rs) ==
  \A Q \in SUBSET Retaining(rs) : Q # {} => \E r \in Q : Leaves(finished, late, rs, Q, r)

Settled(finished, late) == Cardinality(finished \ late) <= RetentionCount

BackupsInv ==
  /\ started \in Nat /\ created \in Nat
  /\ RowsApart(backups, started, created) /\ RunsApart(runs, started)
  /\ LastLooker(CompletedOf(backups), unsettled, runs)
  /\ Settled(CompletedOf(backups), unsettled)

-----------------------------------------------------------------------------
\* Of numbered things at most k have fewer than k later ones.
LEMMA FewAreRecent ==
  ASSUME NEW O, IsFiniteSet(O), NEW at \in [O -> Nat], NEW k \in Nat,
         \A b, c \in O : at[b] = at[c] => b = c
  PROVE  Cardinality({b \in O : Cardinality({x \in O : at[x] > at[b]}) < k}) <= k
<1> DEFINE After(b) == {x \in O : at[x] > at[b]}
           T == {b \in O : Cardinality(After(b)) < k}
<1>1. IsFiniteSet(T) /\ Cardinality(T) \in Nat
  BY FS_Subset, FS_CardinalityType, Zenon
<1>2. CASE T = {}
  <2>1. Cardinality(T) = 0
    BY <1>2, FS_EmptySet, Zenon
  <2> HIDE DEF T
  <2>2. Cardinality(T) <= k
    BY <2>1, SMT
  <2>. QED  BY <2>2 DEF T
<1>3. CASE T # {}
  <2> DEFINE A == {at[b] : b \in T}
  <2>1. A \in SUBSET Nat /\ A # {}
    <3>1. \A b \in T : at[b] \in Nat
      BY Zenon
    <3>2. A \in SUBSET Nat
      BY <3>1, Zenon
    <3> HIDE DEF T
    <3>3. A # {}
      BY <1>3, SMT
    <3>. QED  BY <3>2, <3>3
  <2>2. PICK n \in A : \A y \in A : n <= y
    BY <2>1, LeastNumber, Zenon
  <2>3. PICK m \in T : at[m] = n
    BY <2>2, Zenon
  <2>4. \A b \in T : b # m => at[b] > at[m]
    <3>. SUFFICES ASSUME NEW b \in T, b # m PROVE at[b] > at[m]
      OBVIOUS
    <3>1. at[b] \in A /\ at[b] \in Nat /\ at[m] \in Nat
      BY Zenon
    <3>2. at[m] <= at[b]
      BY <2>2, <2>3, <3>1, Zenon
    <3>3. at[b] # at[m]
      BY Zenon
    <3>. QED  BY <3>1, <3>2, <3>3, SMT
  <2>5. T \ {m} \subseteq After(m)
    BY <2>4, Zenon
  <2>6. IsFiniteSet(After(m)) /\ Cardinality(After(m)) \in Nat
    BY FS_Subset, FS_CardinalityType, Zenon
  <2>7. Cardinality(T \ {m}) <= Cardinality(After(m))
    BY <2>5, <2>6, FS_Subset, Zenon
  <2>8. Cardinality(T \ {m}) = Cardinality(T) - 1
    BY <1>1, FS_RemoveElement, Zenon
  <2>9. Cardinality(After(m)) < k
    BY Zenon
  <2>. QED  BY <1>1, <2>6, <2>7, <2>8, <2>9, SMT
<1>. QED  BY <1>2, <1>3

-----------------------------------------------------------------------------
(* The sets that the invariant counts. *)

LEMMA BackupsFinite ==
  ASSUME NEW table, NEW n \in Nat, DOMAIN table \subseteq 1 .. n
  PROVE  IsFiniteSet(DOMAIN table) /\ IsFiniteSet(CompletedOf(table))
<1>1. IsFiniteSet(1 .. n)
  BY FS_Interval, SMT
<1>2. IsFiniteSet(DOMAIN table)
  BY <1>1, FS_Subset, Zenon
<1>3. CompletedOf(table) \in SUBSET DOMAIN table
  BY Zenon DEF CompletedOf
<1>. QED  BY <1>2, <1>3, FS_Subset, Zenon

LEMMA Smaller ==
  ASSUME NEW S, NEW T, IsFiniteSet(T), S \subseteq T, NEW k \in Nat, Cardinality(T) <= k
  PROVE  Cardinality(S) <= k
<1>1. S \in SUBSET T
  BY Zenon
<1>2. IsFiniteSet(S) /\ Cardinality(S) <= Cardinality(T)
  BY <1>1, FS_Subset, Zenon
<1>3. Cardinality(S) \in Nat /\ Cardinality(T) \in Nat
  BY <1>2, FS_CardinalityType, Zenon
<1>. QED  BY <1>2, <1>3, SMT

LEMMA TalliedFinite ==
  ASSUME NEW finished, IsFiniteSet(finished), NEW late, NEW rs, NEW Q, NEW D
  PROVE  IsFiniteSet(Tallied(finished, late, rs, Q) \ D)
<1>1. Tallied(finished, late, rs, Q) \ D \in SUBSET finished
  BY Zenon DEF Tallied
<1>. QED  BY <1>1, FS_Subset, Zenon

\* Nothing more is settled, and the runs that apply the retention are as before.
FewerLeft(f1, l1, rs1, f2, l2, rs2) ==
  /\ f2 \ l2 \subseteq f1 \ l1
  /\ \A q \in Retaining(rs2) :
       /\ q \in Retaining(rs1) /\ rs2[q].row = rs1[q].row
       /\ rs2[q].row \in f2 => rs2[q].row \in f1
       /\ DOMAIN rs1[q].old \cap f2 \subseteq DOMAIN rs2[q].old

LEMMA FewerKept ==
  ASSUME NEW f1, NEW l1, NEW rs1, NEW f2, NEW l2, NEW rs2, IsFiniteSet(f1),
         LastLooker(f1, l1, rs1), Settled(f1, l1), FewerLeft(f1, l1, rs1, f2, l2, rs2)
  PROVE  LastLooker(f2, l2, rs2) /\ Settled(f2, l2)
<1>1. RetentionCount \in Nat
  BY BackupsAssumption, SMT
<1>2. Settled(f2, l2)
  <2>1. f2 \ l2 \subseteq f1 \ l1 /\ IsFiniteSet(f1 \ l1)
    BY FS_Difference, Zenon DEF FewerLeft
  <2>. QED  BY <1>1, <2>1, Smaller, Zenon DEF Settled
<1>3. ASSUME NEW Q \in SUBSET Retaining(rs2), Q # {}
      PROVE  \E r \in Q : Leaves(f2, l2, rs2, Q, r)
  <2>1. Q \in SUBSET Retaining(rs1)
    BY Zenon DEF FewerLeft
  <2>2. PICK r \in Q : Leaves(f1, l1, rs1, Q, r)
    BY <1>3, <2>1, Zenon DEF LastLooker
  <2>3. \A q \in Q : /\ rs2[q].row = rs1[q].row
                     /\ rs2[q].row \in f2 => rs2[q].row \in f1
    BY Zenon DEF FewerLeft
  <2>4. DOMAIN rs1[r].old \cap f2 \subseteq DOMAIN rs2[r].old
    BY Zenon DEF FewerLeft
  <2>5. Tallied(f2, l2, rs2, Q) \subseteq Tallied(f1, l1, rs1, Q) /\ Tallied(f2, l2, rs2, Q) \subseteq f2
    BY <2>3, Zenon DEF FewerLeft, Tallied
  <2>6. Tallied(f2, l2, rs2, Q) \ DOMAIN rs2[r].old \subseteq Tallied(f1, l1, rs1, Q) \ DOMAIN rs1[r].old
    BY <2>4, <2>5, Zenon
  <2>7. IsFiniteSet(Tallied(f1, l1, rs1, Q) \ DOMAIN rs1[r].old)
    BY TalliedFinite, Zenon
  <2>8. Leaves(f2, l2, rs2, Q, r)
    BY <1>1, <2>2, <2>6, <2>7, Smaller, Zenon DEF Leaves
  <2>. QED  BY <2>8
<1>4. LastLooker(f2, l2, rs2)
  BY <1>3, Zenon DEF LastLooker
<1>. QED  BY <1>2, <1>4

LEMMA BackupsKept ==
  ASSUME BackupsInv, started' \in Nat, created' \in Nat,
         RowsApart(backups', started', created'), RunsApart(runs', started'),
         FewerLeft(CompletedOf(backups), unsettled, runs, CompletedOf(backups'), unsettled', runs')
  PROVE  BackupsInv'
<1>1. IsFiniteSet(CompletedOf(backups))
  BY BackupsFinite, Zenon DEF BackupsInv, RowsApart
<1>2. /\ LastLooker(CompletedOf(backups), unsettled, runs)
      /\ Settled(CompletedOf(backups), unsettled)
  BY Zenon DEF BackupsInv
<1>3. /\ LastLooker(CompletedOf(backups'), unsettled', runs')
      /\ Settled(CompletedOf(backups'), unsettled')
  BY <1>1, <1>2, FewerKept, Zenon
<1>. QED  BY <1>3, Zenon DEF BackupsInv

-----------------------------------------------------------------------------
(* A row is inserted or overwritten, is deleted, or changes its status. *)

LEMMA RowPutDone ==
  ASSUME NEW b, NEW row
  PROVE  /\ CompletedOf(WithRow(b, row)) \subseteq CompletedOf(backups) \cup {b}
         /\ row.status # "completed" => CompletedOf(WithRow(b, row)) \subseteq CompletedOf(backups)
<1>1. /\ DOMAIN WithRow(b, row) = DOMAIN backups \cup {b} /\ WithRow(b, row)[b] = row
      /\ \A x \in DOMAIN WithRow(b, row) :
           x # b => x \in DOMAIN backups /\ WithRow(b, row)[x] = backups[x]
  BY Zenon DEF WithRow
<1>2. CompletedOf(WithRow(b, row)) \subseteq CompletedOf(backups) \cup {b}
  BY <1>1, Zenon DEF CompletedOf
<1>3. row.status # "completed" => CompletedOf(WithRow(b, row)) \subseteq CompletedOf(backups)
  BY <1>1, Zenon DEF CompletedOf
<1>. QED  BY <1>2, <1>3

LEMMA RowPut ==
  ASSUME NEW n \in Nat, NEW c \in Nat, RowsApart(backups, n, c), NEW m \in Nat, NEW e \in Nat,
         n <= m, c <= e, NEW b \in 1 .. m, NEW row \in BackupRow, row.at <= e,
         row.at > c \/ (b \in DOMAIN backups /\ row.at = backups[b].at)
  PROVE  RowsApart(WithRow(b, row), m, e)
<1> DEFINE W == WithRow(b, row)
<1>1. /\ DOMAIN W = DOMAIN backups \cup {b} /\ W[b] = row
      /\ \A x \in DOMAIN W : x # b => x \in DOMAIN backups /\ W[x] = backups[x]
  BY Zenon DEF WithRow
<1> HIDE DEF W
<1>2. /\ DOMAIN backups \subseteq 1 .. n
      /\ \A x \in DOMAIN backups : backups[x] \in BackupRow /\ backups[x].at <= c
      /\ \A x, y \in DOMAIN backups : backups[x].at = backups[y].at => x = y
  BY Zenon DEF RowsApart
<1>3. DOMAIN W \subseteq 1 .. m
  BY <1>1, <1>2, SMT
<1>4. \A x \in DOMAIN backups : backups[x].at \in Nat
  BY <1>2, SMT DEF BackupRow
<1>5. \A x \in DOMAIN W : W[x] \in BackupRow /\ W[x].at <= e
  <2>. SUFFICES ASSUME NEW x \in DOMAIN W PROVE W[x] \in BackupRow /\ W[x].at <= e
    OBVIOUS
  <2>1. CASE x = b
    BY <1>1, <2>1, Zenon
  <2>2. CASE x # b
    <3>1. W[x] = backups[x] /\ backups[x] \in BackupRow /\ backups[x].at <= c /\ backups[x].at \in Nat
      BY <1>1, <1>2, <1>4, <2>2, Zenon
    <3>. QED  BY <3>1, SMT
  <2>. QED  BY <2>1, <2>2
<1>6. row.at \in Nat
  BY SMT DEF BackupRow
<1>7. \A x \in DOMAIN backups : x # b => backups[x].at # row.at
  <2>. SUFFICES ASSUME NEW x \in DOMAIN backups, x # b, backups[x].at = row.at PROVE FALSE
    BY Zenon
  <2>1. CASE row.at > c
    BY <1>2, <1>4, <1>6, <2>1, SMT
  <2>2. CASE b \in DOMAIN backups /\ row.at = backups[b].at
    BY <1>2, <2>2, Zenon
  <2>. QED  BY <2>1, <2>2
<1>8. \A x, y \in DOMAIN W : W[x].at = W[y].at => x = y
  <2>. SUFFICES ASSUME NEW x \in DOMAIN W, NEW y \in DOMAIN W, W[x].at = W[y].at, x # y PROVE FALSE
    BY Zenon
  <2>1. CASE x = b
    BY <1>1, <1>7, <2>1, Zenon
  <2>2. CASE y = b
    BY <1>1, <1>7, <2>2, Zenon
  <2>3. CASE x # b /\ y # b
    BY <1>1, <1>2, <2>3, Zenon
  <2>. QED  BY <2>1, <2>2, <2>3
<1>9. RowsApart(W, m, e)
  BY <1>3, <1>5, <1>8, Zenon DEF RowsApart
<1>. QED  BY <1>9, Zenon DEF W

LEMMA RowGone ==
  ASSUME NEW n, NEW c, RowsApart(backups, n, c), NEW b
  PROVE  /\ RowsApart(Without(b), n, c)
         /\ CompletedOf(Without(b)) = CompletedOf(backups) \ {b}
<1>1. /\ DOMAIN Without(b) = DOMAIN backups \ {b}
      /\ \A x \in DOMAIN Without(b) : x \in DOMAIN backups /\ Without(b)[x] = backups[x]
  BY Zenon DEF Without
<1>2. RowsApart(Without(b), n, c)
  BY <1>1, Zenon DEF RowsApart
<1>3. CompletedOf(Without(b)) = CompletedOf(backups) \ {b}
  BY <1>1, Zenon DEF CompletedOf
<1>. QED  BY <1>2, <1>3

LEMMA RowStatus ==
  ASSUME NEW n, NEW c, RowsApart(backups, n, c), NEW b \in DOMAIN backups,
         NEW status \in BackupStates, status # "completed"
  PROVE  /\ RowsApart([backups EXCEPT ![b].status = status], n, c)
         /\ CompletedOf([backups EXCEPT ![b].status = status]) \subseteq CompletedOf(backups)
<1> DEFINE row == [backups[b] EXCEPT !.status = status]
           W == [backups EXCEPT ![b].status = status]
<1>1. backups[b] \in BackupRow
  BY Zenon DEF RowsApart
<1>2. row \in BackupRow
  BY <1>1, Zenon DEF BackupRow
<1>3. row.status = status /\ row.at = backups[b].at
  BY <1>1, SMT DEF BackupRow
<1>4. DOMAIN W = DOMAIN backups /\ W[b] = row /\ \A x \in DOMAIN W : x # b => W[x] = backups[x]
  BY Zenon
<1> HIDE DEF row, W
<1>5. \A x \in DOMAIN W : W[x].at = backups[x].at
  BY <1>3, <1>4, Zenon
<1>6. RowsApart(W, n, c)
  BY <1>2, <1>4, <1>5, Zenon DEF RowsApart
<1>7. CompletedOf(W) \subseteq CompletedOf(backups)
  BY <1>3, <1>4, Zenon DEF CompletedOf
<1>. QED  BY <1>6, <1>7, Zenon DEF W

-----------------------------------------------------------------------------
(* A run takes its goes step, begins, or ends. *)

LEMMA IdleRun == Idle \in RunRow /\ Idle.step = "idle" /\ Idle.row = 0 /\ Idle.old = <<>>
<1>1. <<>> \in [{} -> Nat] /\ {} \in SUBSET Nat
  BY SMT
<1>2. <<>> \in Lists
  BY <1>1, Zenon DEF Lists
<1>. QED  BY <1>2, SMT DEF Idle, RunRow, RunAt, NoRow

\* What a run may become: it ends, it goes on with its archive, or it begins the goes.
Follows(run, goes, n, m) ==
  \/ goes.step = "idle"
  \/ /\ run.step # "idle" /\ goes.file = run.file /\ goes.row \in {NoRow, run.file}
     /\ goes.step \in {"list", "retain"} => goes.row = goes.file
  \/ /\ n < m /\ goes.file = m /\ goes.row \in {NoRow, m} /\ goes.step \notin {"list", "retain"}

LEMMA RunMoves ==
  ASSUME NEW rs, NEW n \in Nat, NEW m \in Nat, n <= m, RunsApart(rs, n), NEW r \in Runs,
         NEW goes \in RunRow, Follows(rs[r], goes, n, m)
  PROVE  RunsApart([rs EXCEPT ![r] = goes], m)
<1> DEFINE R == [rs EXCEPT ![r] = goes]
<1>1. rs \in [Runs -> RunRow] /\ \A q \in Runs : RunApart(rs, n, q)
  BY Zenon DEF RunsApart
<1>2. R \in [Runs -> RunRow] /\ R[r] = goes /\ \A q \in Runs : q # r => R[q] = rs[q]
  BY <1>1, Zenon
<1> HIDE DEF R
<1>3. \A q \in Runs : rs[q].file \in Nat /\ rs[q].step \in RunAt
  BY <1>1, SMT DEF RunRow
<1>4. ASSUME NEW q \in Runs, q # r PROVE RunApart(R, m, q)
  <2>1. RunApart(rs, n, q) /\ R[q] = rs[q]
    BY <1>1, <1>2, <1>4, Zenon
  <2>2. ASSUME rs[q].step # "idle" PROVE rs[q].file \in 1 .. n /\ rs[q].file \in 1 .. m
    <3>1. rs[q].file \in 1 .. n
      BY <2>1, <2>2, Zenon DEF RunApart
    <3>. QED  BY <3>1, SMT
  <2>3. ASSUME NEW x \in Runs, x # q, R[x].step # "idle", rs[q].step # "idle"
        PROVE  R[x].file # rs[q].file
    <3>1. CASE x # r
      BY <1>2, <2>1, <2>3, <3>1, Zenon DEF RunApart
    <3>2. CASE x = r /\ rs[r].step # "idle" /\ goes.file = rs[r].file
      BY <1>2, <1>4, <2>1, <2>3, <3>2, Zenon DEF RunApart
    <3>3. CASE x = r /\ n < m /\ goes.file = m
      BY <1>2, <2>2, <2>3, <3>3, SMT
    <3>. QED  BY <1>2, <2>3, <3>1, <3>2, <3>3, Zenon DEF Follows
  <2>4. ASSUME rs[q].step # "idle"
        PROVE  /\ rs[q].row \in {NoRow, rs[q].file}
               /\ rs[q].step \in {"list", "retain"} => rs[q].row = rs[q].file
    BY <2>1, <2>4, Zenon DEF RunApart
  <2>. QED  BY <2>1, <2>2, <2>3, <2>4, Zenon DEF RunApart
<1>5. RunApart(R, m, r)
  <2>. SUFFICES ASSUME goes.step # "idle"
                PROVE  /\ goes.file \in 1 .. m /\ goes.row \in {NoRow, goes.file}
                       /\ goes.step \in {"list", "retain"} => goes.row = goes.file
                       /\ \A q \in Runs : q # r /\ R[q].step # "idle" => R[q].file # goes.file
    BY <1>2, Zenon DEF RunApart
  <2>1. CASE /\ rs[r].step # "idle" /\ goes.file = rs[r].file /\ goes.row \in {NoRow, rs[r].file}
             /\ goes.step \in {"list", "retain"} => goes.row = goes.file
    <3>1. rs[r].file \in 1 .. n /\ \A q \in Runs : q # r /\ rs[q].step # "idle" => rs[q].file # rs[r].file
      BY <1>1, <2>1, Zenon DEF RunApart
    <3>2. rs[r].file \in 1 .. m
      BY <3>1, SMT
    <3>. QED  BY <1>2, <2>1, <3>1, <3>2, Zenon
  <2>2. CASE n < m /\ goes.file = m /\ goes.row \in {NoRow, m} /\ goes.step \notin {"list", "retain"}
    <3>1. m \in 1 .. m
      BY <2>2, SMT
    <3>2. ASSUME NEW q \in Runs, q # r, R[q].step # "idle" PROVE R[q].file # m
      <4>1. R[q].file \in 1 .. n
        BY <1>1, <1>2, <3>2, Zenon DEF RunApart
      <4>. QED  BY <2>2, <4>1, SMT
    <3>. QED  BY <2>2, <3>1, <3>2, Zenon
  <2>. QED  BY <2>1, <2>2, Zenon DEF Follows
<1>6. RunsApart(R, m)
  BY <1>2, <1>4, <1>5, Zenon DEF RunsApart
<1>. QED  BY <1>6, Zenon DEF R

\* A step of one run that settles nothing and does not yet apply the retention.
LEMMA RunSteps ==
  ASSUME BackupsInv, started' \in Nat, started <= started', created' \in Nat,
         RowsApart(backups', started', created'),
         NEW r \in Runs, NEW goes \in RunRow, Follows(runs[r], goes, started, started'),
         runs' = [runs EXCEPT ![r] = goes],
         CompletedOf(backups') \ unsettled' \subseteq CompletedOf(backups) \ unsettled,
         \A q \in Retaining(runs) : q # r => (runs[q].row \in CompletedOf(backups')
                                                => runs[q].row \in CompletedOf(backups)),
         goes.step = "retain" =>
           /\ runs[r].step = "retain" /\ goes.row = runs[r].row
           /\ goes.row \in CompletedOf(backups') => goes.row \in CompletedOf(backups)
           /\ DOMAIN runs[r].old \cap CompletedOf(backups') \subseteq DOMAIN goes.old
  PROVE  BackupsInv'
<1>1. started \in Nat /\ RunsApart(runs, started)
  BY Zenon DEF BackupsInv
<1>0. RunsApart([runs EXCEPT ![r] = goes], started')
  BY <1>1, RunMoves, Zenon
<1>2. /\ RunsApart(runs', started') /\ runs'[r] = goes
      /\ \A q \in Runs : q # r => runs'[q] = runs[q]
  <2>1. runs \in [Runs -> RunRow]
    BY <1>1, Zenon DEF RunsApart
  <2>. QED  BY <1>0, <2>1, Zenon
<1>3. ASSUME NEW q \in Retaining(runs')
      PROVE  /\ q \in Retaining(runs) /\ runs'[q].row = runs[q].row
             /\ runs'[q].row \in CompletedOf(backups') => runs'[q].row \in CompletedOf(backups)
             /\ DOMAIN runs[q].old \cap CompletedOf(backups') \subseteq DOMAIN runs'[q].old
  <2>1. CASE q = r
    BY <1>2, <2>1, Zenon DEF Retaining
  <2>2. CASE q # r
    BY <1>2, <2>2, Zenon DEF Retaining
  <2>. QED  BY <2>1, <2>2
<1>4. FewerLeft(CompletedOf(backups), unsettled, runs, CompletedOf(backups'), unsettled', runs')
  BY <1>3, Zenon DEF FewerLeft
<1>. QED  BY <1>2, <1>4, BackupsKept, Zenon

\* The common case: the run neither settles nor lists.
LEMMA RunGoesOn ==
  ASSUME BackupsInv, started' \in Nat, started <= started', created' \in Nat,
         RowsApart(backups', started', created'),
         NEW r \in Runs, NEW goes \in RunRow, Follows(runs[r], goes, started, started'),
         runs' = [runs EXCEPT ![r] = goes], goes.step # "retain", unsettled' = unsettled,
         CompletedOf(backups') \subseteq CompletedOf(backups)
  PROVE  BackupsInv'
<1>1. CompletedOf(backups') \ unsettled' \subseteq CompletedOf(backups) \ unsettled
  BY Zenon
<1>2. \A q \in Retaining(runs) : q # r => (runs[q].row \in CompletedOf(backups')
                                            => runs[q].row \in CompletedOf(backups))
  BY Zenon
<1>. QED  BY <1>1, <1>2, RunSteps, Zenon

\* A step of the administrator.
LEMMA NoRunSteps ==
  ASSUME BackupsInv, UNCHANGED <<started, created, runs, unsettled>>,
         RowsApart(backups', started, created),
         CompletedOf(backups') \subseteq CompletedOf(backups)
  PROVE  BackupsInv'
<1>1. FewerLeft(CompletedOf(backups), unsettled, runs, CompletedOf(backups'), unsettled', runs')
  BY Zenon DEF FewerLeft
<1>2. started' \in Nat /\ created' \in Nat /\ RunsApart(runs', started')
  BY Zenon DEF BackupsInv
<1>. QED  BY <1>1, <1>2, BackupsKept, Zenon

-----------------------------------------------------------------------------
(* The steps of a run, until it lists. *)

LEMMA InvFacts ==
  ASSUME BackupsInv, NEW r \in Runs
  PROVE  /\ started \in Nat /\ created \in Nat /\ RowsApart(backups, started, created)
         /\ RunsApart(runs, started) /\ runs \in [Runs -> RunRow] /\ runs[r] \in RunRow
         /\ runs[r].step \in RunAt /\ runs[r].row \in Nat /\ runs[r].file \in Nat
         /\ runs[r].old \in Lists
         /\ RunApart(runs, started, r)
<1>1. /\ started \in Nat /\ created \in Nat /\ RowsApart(backups, started, created)
      /\ RunsApart(runs, started) /\ runs \in [Runs -> RunRow] /\ runs[r] \in RunRow
      /\ RunApart(runs, started, r)
  BY Zenon DEF BackupsInv, RunsApart
<1>2. /\ runs[r].step \in RunAt /\ runs[r].row \in Nat /\ runs[r].file \in Nat
      /\ runs[r].old \in Lists
  BY <1>1, SMT DEF RunRow
<1>. QED  BY <1>1, <1>2

LEMMA SomeSteps == {"begin", "write", "complete", "list", "retain"} \subseteq RunAt
BY SMT DEF RunAt

LEMMA TriggerStep ==
  ASSUME BackupsInv, NEW r \in Runs, Trigger(r)
  PROVE  BackupsInv'
<1> DEFINE goes == [Idle EXCEPT !.step = "begin", !.row = started + 1, !.file = started + 1]
           row == Row("pending", NoRow, created + 1)
<1>1. /\ started' = started + 1 /\ created' = created + 1
      /\ backups' = WithRow(started + 1, row) /\ runs' = [runs EXCEPT ![r] = goes]
      /\ unsettled' = unsettled
  BY Zenon DEF Trigger
<1>2. /\ started \in Nat /\ created \in Nat /\ RowsApart(backups, started, created)
      /\ started + 1 \in Nat /\ created + 1 \in Nat /\ started <= started + 1
      /\ created <= created + 1 /\ created + 1 > created /\ created + 1 <= created + 1
      /\ started + 1 \in 1 .. (started + 1) /\ started < started + 1
  BY InvFacts, SMT
<1>3. row \in BackupRow /\ row.at = created + 1 /\ row.status = "pending"
  BY <1>2, SMT DEF Row, BackupRow, BackupStates, NoRow
<1>4. row.status # "completed"
  BY <1>3, SMT
<1>5. goes \in RunRow
  <2>1. Idle \in RunRow /\ "begin" \in RunAt /\ started + 1 \in Nat
    BY <1>2, IdleRun, SomeSteps, Zenon
  <2>. QED  BY <2>1, Zenon DEF RunRow
<1>6. goes.step = "begin" /\ goes.row = started + 1 /\ goes.file = started + 1
  BY IdleRun, SMT DEF RunRow
<1> HIDE DEF goes, row
<1>7. /\ RowsApart(WithRow(started + 1, row), started + 1, created + 1)
      /\ CompletedOf(WithRow(started + 1, row)) \subseteq CompletedOf(backups)
  BY <1>2, <1>3, <1>4, RowPut, RowPutDone, Zenon
<1>8. Follows(runs[r], goes, started, started + 1) /\ goes.step # "retain"
  BY <1>2, <1>6, SMT DEF Follows
<1>. QED  BY <1>1, <1>2, <1>5, <1>7, <1>8, RunGoesOn, Zenon

LEMMA ScheduleStep ==
  ASSUME BackupsInv, NEW r \in Runs, Schedule(r)
  PROVE  BackupsInv'
<1> DEFINE goes == [Idle EXCEPT !.step = "begin", !.file = started + 1]
<1>1. /\ started' = started + 1 /\ created' = created /\ backups' = backups
      /\ runs' = [runs EXCEPT ![r] = goes] /\ unsettled' = unsettled
  BY Zenon DEF Schedule
<1>2. /\ started \in Nat /\ created \in Nat /\ RowsApart(backups, started, created)
      /\ started + 1 \in Nat /\ started <= started + 1 /\ started < started + 1
  BY InvFacts, SMT
<1>5. goes \in RunRow
  <2>1. Idle \in RunRow /\ "begin" \in RunAt /\ started + 1 \in Nat
    BY <1>2, IdleRun, SomeSteps, Zenon
  <2>. QED  BY <2>1, Zenon DEF RunRow
<1>6. goes.step = "begin" /\ goes.row = 0 /\ goes.file = started + 1
  BY IdleRun, SMT DEF RunRow
<1> HIDE DEF goes
<1>7. RowsApart(backups, started + 1, created)
  <2>1. DOMAIN backups \subseteq 1 .. (started + 1)
    BY <1>2, SMT DEF RowsApart
  <2>. QED  BY <1>2, <2>1, Zenon DEF RowsApart
<1>8. Follows(runs[r], goes, started, started + 1) /\ goes.step # "retain"
  BY <1>2, <1>6, SMT DEF Follows, NoRow
<1>9. CompletedOf(backups') \subseteq CompletedOf(backups)
  BY <1>1, Zenon
<1>. QED  BY <1>1, <1>2, <1>5, <1>7, <1>8, <1>9, RunGoesOn, Zenon

\* A run that ends, whatever became of the rows.
LEMMA RunEnds ==
  ASSUME BackupsInv, NEW r \in Runs, runs' = [runs EXCEPT ![r] = Idle],
         started' = started, unsettled' = unsettled, created' \in Nat,
         RowsApart(backups', started, created'), CompletedOf(backups') \subseteq CompletedOf(backups)
  PROVE  BackupsInv'
<1>1. started \in Nat /\ started <= started
  BY InvFacts, SMT
<1>2. Follows(runs[r], Idle, started, started) /\ Idle \in RunRow /\ Idle.step # "retain"
  BY IdleRun, SMT DEF Follows
<1>. QED  BY <1>1, <1>2, RunGoesOn, Zenon

\* A run that goes on with its archive.
LEMMA RunContinues ==
  ASSUME BackupsInv, NEW r \in Runs, runs[r].step # "idle", NEW step \in {"write", "complete"},
         runs' = [runs EXCEPT ![r].step = step],
         started' = started, unsettled' = unsettled, created' = created,
         RowsApart(backups', started, created), CompletedOf(backups') \subseteq CompletedOf(backups)
  PROVE  BackupsInv'
<1> DEFINE goes == [runs[r] EXCEPT !.step = step]
<1>1. started \in Nat /\ started <= started /\ created \in Nat /\ runs[r] \in RunRow
  BY InvFacts, SMT
<1>2. goes \in RunRow
  <2>1. step \in RunAt
    BY SMT DEF RunAt
  <2>. QED  BY <1>1, <2>1, Zenon DEF RunRow
<1>3. goes.step = step /\ goes.row = runs[r].row /\ goes.file = runs[r].file
  BY <1>1, SMT DEF RunRow
<1>4. runs' = [runs EXCEPT ![r] = goes]
  BY Zenon
<1> HIDE DEF goes
<1>5. runs[r].row \in {NoRow, runs[r].file}
  BY InvFacts, Zenon DEF RunApart
<1>6. Follows(runs[r], goes, started, started) /\ goes.step # "retain"
  BY <1>3, <1>5, SMT DEF Follows
<1>. QED  BY <1>1, <1>2, <1>4, <1>6, RunGoesOn, Zenon

LEMMA SaveFailedRows ==
  ASSUME BackupsInv, NEW r \in Runs, runs[r].step # "idle", runs[r].row # NoRow, SaveFailed(r)
  PROVE  /\ created' \in Nat /\ RowsApart(backups', started, created')
         /\ CompletedOf(backups') \subseteq CompletedOf(backups)
<1> DEFINE b == runs[r].row
           row == Row("failed", NoRow, created + 1)
<1>1. /\ started \in Nat /\ created \in Nat /\ RowsApart(backups, started, created)
      /\ created + 1 \in Nat /\ started <= started
      /\ created <= created + 1 /\ created + 1 > created /\ created + 1 <= created + 1
  BY InvFacts, SMT
<1>2. b \in 1 .. started
  BY InvFacts, Zenon DEF RunApart
<1>3. CASE b \in DOMAIN backups
  <2>1. backups' = [backups EXCEPT ![b].status = "failed"] /\ created' = created
    BY <1>3, Zenon DEF SaveFailed
  <2>2. "failed" \in BackupStates /\ "failed" # "completed"
    BY SMT DEF BackupStates
  <2>. QED  BY <1>1, <1>3, <2>1, <2>2, RowStatus, Zenon
<1>4. CASE b \notin DOMAIN backups
  <2>1. backups' = WithRow(b, row) /\ created' = created + 1
    BY <1>4, Zenon DEF SaveFailed
  <2>2. row \in BackupRow /\ row.at = created + 1 /\ row.status = "failed"
    BY <1>1, SMT DEF Row, BackupRow, BackupStates, NoRow
  <2>3. row.status # "completed"
    BY <2>2, SMT
  <2> HIDE DEF row
  <2>4. /\ RowsApart(WithRow(b, row), started, created + 1)
        /\ CompletedOf(WithRow(b, row)) \subseteq CompletedOf(backups)
    BY <1>1, <1>2, <2>2, <2>3, RowPut, RowPutDone, ZenonT(40)
  <2>. QED  BY <1>1, <2>1, <2>4
<1>. QED  BY <1>3, <1>4

LEMMA EarlySteps ==
  ASSUME BackupsInv, NEW r \in Runs,
         NotEnabled(r) \/ Take(r) \/ Publish(r) \/ FailArchive(r) \/ RunDies(r)
  PROVE  BackupsInv'
<1>0. /\ created \in Nat /\ RowsApart(backups, started, created)
      /\ CompletedOf(backups) \subseteq CompletedOf(backups)
  BY InvFacts, Zenon
<1>1. CASE NotEnabled(r) \/ RunDies(r)
  <2>1. runs' = [runs EXCEPT ![r] = Idle] /\ UNCHANGED <<backups, started, created, unsettled>>
    BY <1>1, Zenon DEF NotEnabled, RunDies
  <2>. QED  BY <1>0, <2>1, RunEnds, Zenon
<1>2. CASE Take(r) /\ runs[r].row \in DOMAIN backups
  <2>1. /\ runs[r].step = "begin" /\ backups' = [backups EXCEPT ![runs[r].row].status = "creating"]
        /\ runs' = [runs EXCEPT ![r].step = "write"] /\ UNCHANGED <<started, created, unsettled>>
    BY <1>2, Zenon DEF Take, To
  <2>2. /\ "creating" \in BackupStates /\ "creating" # "completed" /\ runs[r].step # "idle"
        /\ "write" \in {"write", "complete"}
    BY <2>1, SMT DEF BackupStates
  <2>3. RowsApart(backups', started, created) /\ CompletedOf(backups') \subseteq CompletedOf(backups)
    BY <1>0, <1>2, <2>1, <2>2, RowStatus, Zenon
  <2>. QED  BY <2>1, <2>2, <2>3, RunContinues, Zenon
<1>3. CASE Take(r) /\ runs[r].row \notin DOMAIN backups
  <2> DEFINE goes == [runs[r] EXCEPT !.step = "write", !.row = NoRow]
  <2>1. /\ runs[r].step = "begin" /\ backups' = backups
        /\ runs' = [runs EXCEPT ![r] = goes] /\ UNCHANGED <<started, created, unsettled>>
    BY <1>3, Zenon DEF Take
  <2>2. /\ runs[r] \in RunRow /\ started \in Nat /\ started <= started /\ NoRow \in Nat
    BY InvFacts, SMT DEF NoRow
  <2>3. goes \in RunRow
    BY <2>2, SomeSteps, Zenon DEF RunRow
  <2>4. goes.step = "write" /\ goes.row = NoRow /\ goes.file = runs[r].file
    BY <2>2, SMT DEF RunRow
  <2> HIDE DEF goes
  <2>5. Follows(runs[r], goes, started, started) /\ goes.step # "retain"
    BY <2>1, <2>4, SMT DEF Follows
  <2>. QED  BY <1>0, <2>1, <2>2, <2>3, <2>5, RunGoesOn, Zenon
<1>4. CASE Publish(r)
  <2>1. /\ runs[r].step = "write" /\ backups' = backups
        /\ runs' = [runs EXCEPT ![r].step = "complete"] /\ UNCHANGED <<started, created, unsettled>>
    BY <1>4, Zenon DEF Publish, To
  <2>2. runs[r].step # "idle" /\ "complete" \in {"write", "complete"}
    BY <2>1, SMT
  <2>. QED  BY <1>0, <2>1, <2>2, RunContinues, Zenon
<1>5. CASE FailArchive(r)
  <2>1. /\ runs[r].step = "write" /\ runs' = [runs EXCEPT ![r] = Idle]
        /\ started' = started /\ unsettled' = unsettled
        /\ IF runs[r].row = NoRow THEN backups' = backups /\ created' = created ELSE SaveFailed(r)
    BY <1>5, Zenon DEF FailArchive
  <2>2. runs[r].step # "idle"
    BY <2>1, SMT
  <2>3. /\ created' \in Nat /\ RowsApart(backups', started, created')
        /\ CompletedOf(backups') \subseteq CompletedOf(backups)
    <3>1. CASE runs[r].row = NoRow
      BY <1>0, <2>1, <3>1, Zenon
    <3>2. CASE runs[r].row # NoRow
      BY <2>1, <2>2, <3>2, SaveFailedRows, Zenon
    <3>. QED  BY <3>1, <3>2
  <2>. QED  BY <2>1, <2>3, RunEnds, Zenon
<1>. QED  BY <1>1, <1>2, <1>3, <1>4, <1>5, Zenon

LEMMA CompleteStep ==
  ASSUME BackupsInv, NEW r \in Runs, Complete(r)
  PROVE  BackupsInv'
<1> DEFINE b == runs[r].row
           f == runs[r].file
<1>0. /\ started \in Nat /\ created \in Nat /\ RowsApart(backups, started, created)
      /\ runs[r] \in RunRow /\ b \in Nat /\ f \in Nat
      /\ started <= started /\ created <= created /\ created + 1 \in Nat
      /\ created <= created + 1 /\ created + 1 > created /\ created + 1 <= created + 1
  BY InvFacts, SMT
<1>1. runs[r].step = "complete" /\ runs[r].step # "idle" /\ runs[r].step # "retain" /\ started' = started
  BY SMT DEF Complete
<1>2. f \in 1 .. started /\ b \in {NoRow, f}
  BY <1>1, InvFacts, Zenon DEF RunApart
<1>3. CASE b # NoRow /\ b \notin DOMAIN backups
  <2>1. SaveFailed(r) /\ runs' = [runs EXCEPT ![r] = Idle] /\ unsettled' = unsettled
    BY <1>3, Zenon DEF Complete
  <2>2. /\ created' \in Nat /\ RowsApart(backups', started, created')
        /\ CompletedOf(backups') \subseteq CompletedOf(backups)
    BY <1>1, <1>3, <2>1, SaveFailedRows, Zenon
  <2>. QED  BY <1>1, <2>1, <2>2, RunEnds, Zenon
<1>4. CASE ~(b # NoRow /\ b \notin DOMAIN backups)
  <2> DEFINE at == IF b = NoRow THEN created' ELSE backups[b].at
             row == Row("completed", f, at)
             goes == [runs[r] EXCEPT !.step = "list", !.row = f]
  <2>1. /\ created' = IF b = NoRow THEN created + 1 ELSE created
        /\ backups' = WithRow(f, row) /\ runs' = [runs EXCEPT ![r] = goes]
        /\ unsettled' = unsettled \cup {f}
    BY <1>4, Zenon DEF Complete
  <2>2. created' \in Nat /\ created <= created'
    BY <1>0, <2>1, SMT
  <2>3. /\ at \in Nat /\ at <= created'
        /\ at > created \/ (f \in DOMAIN backups /\ at = backups[f].at)
    <3>1. CASE b = NoRow
      BY <1>0, <2>1, <3>1, SMT
    <3>2. CASE b # NoRow
      <4>1. b = f /\ f \in DOMAIN backups
        BY <1>2, <1>4, <3>2, Zenon
      <4>2. backups[f] \in BackupRow /\ backups[f].at <= created
        BY <1>0, <4>1, Zenon DEF RowsApart
      <4>3. backups[f].at \in Nat
        BY <4>2, SMT DEF BackupRow
      <4>. QED  BY <2>1, <3>2, <4>1, <4>2, <4>3, SMT
    <3>. QED  BY <3>1, <3>2
  <2> HIDE DEF at
  <2>4. row \in BackupRow /\ row.at = at
    BY <1>0, <2>3, SMT DEF Row, BackupRow, BackupStates
  <2>5. goes \in RunRow
    BY <1>0, SomeSteps, Zenon DEF RunRow
  <2>6. goes.step = "list" /\ goes.row = f /\ goes.file = f
    BY <1>0, SMT DEF RunRow
  <2> HIDE DEF row, goes
  <2>7. RowsApart(backups', started, created')
    BY <1>0, <1>2, <2>1, <2>2, <2>3, <2>4, RowPut, Zenon
  <2>8. CompletedOf(backups') \subseteq CompletedOf(backups) \cup {f}
    BY <2>1, RowPutDone, Zenon
  <2>9. CompletedOf(backups') \ unsettled' \subseteq CompletedOf(backups) \ unsettled
    BY <2>1, <2>8, Zenon
  <2>10. Follows(runs[r], goes, started, started) /\ goes.step # "retain"
    BY <1>1, <2>6, SMT DEF Follows
  <2>11. ASSUME NEW q \in Retaining(runs), q # r PROVE runs[q].row # f
    <3>1. q \in Runs /\ runs[q].step = "retain" /\ runs[q].step # "idle"
      BY SMT DEF Retaining
    <3>2. RunApart(runs, started, q) /\ RunApart(runs, started, r)
      BY <3>1, InvFacts, Zenon
    <3>3. runs[q].row = runs[q].file /\ runs[q].file # f
      BY <1>1, <2>11, <3>1, <3>2, Zenon DEF RunApart
    <3>. QED  BY <3>3, Zenon
  <2>12. \A q \in Retaining(runs) : q # r => (runs[q].row \in CompletedOf(backups')
                                                => runs[q].row \in CompletedOf(backups))
    BY <2>8, <2>11, Zenon
  <2>. QED  BY <1>0, <1>1, <2>1, <2>2, <2>5, <2>7, <2>9, <2>10, <2>12, RunSteps, Zenon
<1>. QED  BY <1>3, <1>4

-----------------------------------------------------------------------------
(* The retention. *)

\* What a run that looks leaves to be kept: of the other rows those with fewer than
\* RetentionCount - 1 later ones, and its own.
LEMMA LooksAtFew ==
  ASSUME BackupsInv, NEW own
  PROVE  Cardinality(CompletedOf(backups) \ TooMany(own)) <= RetentionCount
<1> DEFINE O == DOMAIN backups \ {own}
           at == [x \in O |-> backups[x].at]
           k == RetentionCount - 1
           K == {b \in O : Cardinality({x \in O : at[x] > at[b]}) < k}
<1>1. /\ started \in Nat /\ RowsApart(backups, started, created) /\ RetentionCount \in Nat /\ k \in Nat
  BY BackupsAssumption, SMT DEF BackupsInv
<1>2. IsFiniteSet(DOMAIN backups) /\ IsFiniteSet(O)
  BY <1>1, BackupsFinite, FS_Difference, Zenon DEF RowsApart
<1>3. at \in [O -> Nat]
  <2>1. \A x \in O : backups[x].at \in Nat
    BY <1>1, SMT DEF RowsApart, BackupRow
  <2>. QED  BY <2>1, Zenon
<1>4. \A b, c \in O : at[b] = at[c] => b = c
  BY <1>1, Zenon DEF RowsApart
<1>5. Cardinality(K) <= k
  BY <1>1, <1>2, <1>3, <1>4, FewAreRecent, Zenon
<1>6. IsFiniteSet(K) /\ Cardinality(K) \in Nat
  BY <1>2, FS_Subset, FS_CardinalityType, Zenon
<1>7. \A b \in O : {x \in O : at[x] > at[b]} = Later(b, O)
  BY Zenon DEF Later
<1>8. \A b \in O : Cardinality(Later(b, O)) \in Nat
  <2>. SUFFICES ASSUME NEW b \in O PROVE Cardinality(Later(b, O)) \in Nat
    OBVIOUS
  <2>1. Later(b, O) \in SUBSET O
    BY Zenon DEF Later
  <2>. QED  BY <1>2, <2>1, FS_Subset, FS_CardinalityType, Zenon
<1>9. O \ TooMany(own) \subseteq K
  <2>. SUFFICES ASSUME NEW b \in O, b \notin TooMany(own) PROVE b \in K
    BY Zenon
  <2>1. ~(Cardinality(Later(b, O)) >= k)
    BY Zenon DEF TooMany, Surplus
  <2>2. Cardinality(Later(b, O)) < k
    <3>1. \A m, n \in Nat : m >= n \/ m < n
      BY SMT
    <3>. QED  BY <1>1, <1>8, <2>1, <3>1, Zenon
  <2>. QED  BY <1>7, <2>2, Zenon
<1> HIDE DEF K
<1>10. CompletedOf(backups) \ TooMany(own) \subseteq K \cup {own}
  BY <1>9, Zenon DEF CompletedOf
<1>11. IsFiniteSet(K \cup {own}) /\ Cardinality(K \cup {own}) <= RetentionCount
  <2>1. /\ IsFiniteSet(K \cup {own})
        /\ Cardinality(K \cup {own}) = IF own \in K THEN Cardinality(K) ELSE Cardinality(K) + 1
    BY <1>6, FS_AddElement, Zenon
  <2>. QED  BY <1>1, <1>5, <1>6, <2>1, SMT
<1>. QED  BY <1>1, <1>10, <1>11, Smaller, Zenon

LEMMA ListStep ==
  ASSUME BackupsInv, NEW r \in Runs, ListOld(r)
  PROVE  BackupsInv'
<1> DEFINE old == [b \in TooMany(runs[r].row) |-> backups[b].file]
           goes == [runs[r] EXCEPT !.step = "retain", !.old = old]
<1>0. /\ started \in Nat /\ created \in Nat /\ RowsApart(backups, started, created)
      /\ runs[r] \in RunRow /\ started <= started /\ runs \in [Runs -> RunRow]
      /\ RunsApart(runs, started)
  BY InvFacts, SMT
<1>1. /\ runs[r].step = "list" /\ runs' = [runs EXCEPT ![r] = goes]
      /\ UNCHANGED <<backups, started, created, unsettled>>
  BY Zenon DEF ListOld
<1>2. runs[r].step # "idle" /\ runs[r].step \in {"list", "retain"}
  BY <1>1, SMT
<1>3. runs[r].row = runs[r].file
  BY <1>2, InvFacts, Zenon DEF RunApart
<1>4. old \in Lists
  <2>1. TooMany(runs[r].row) \subseteq DOMAIN backups
    BY Zenon DEF TooMany, Surplus
  <2>2. TooMany(runs[r].row) \in SUBSET Nat
    <3>1. DOMAIN backups \subseteq Nat
      BY <1>0, SMT DEF RowsApart
    <3>. QED  BY <2>1, <3>1, Zenon
  <2>3. \A b \in TooMany(runs[r].row) : backups[b].file \in Nat
    BY <1>0, <2>1, SMT DEF RowsApart, BackupRow
  <2>4. old \in [TooMany(runs[r].row) -> Nat]
    BY <2>3, Zenon
  <2>. QED  BY <2>2, <2>4, Zenon DEF Lists
<1>5. DOMAIN old = TooMany(runs[r].row)
  BY Zenon
<1> HIDE DEF old
<1>6. goes \in RunRow
  BY <1>0, <1>4, SomeSteps, Zenon DEF RunRow
<1>7. goes.step = "retain" /\ goes.row = runs[r].row /\ goes.file = runs[r].file /\ goes.old = old
  BY <1>0, SMT DEF RunRow
<1> HIDE DEF goes
<1>8. Follows(runs[r], goes, started, started)
  BY <1>2, <1>3, <1>7, SMT DEF Follows
<1>9. RunsApart(runs', started)
  <2>1. RunsApart([runs EXCEPT ![r] = goes], started)
    BY <1>0, <1>6, <1>8, RunMoves, Zenon
  <2>. QED  BY <1>1, <2>1
<1>10. runs'[r] = goes /\ \A q \in Runs : q # r => runs'[q] = runs[q]
  BY <1>0, <1>1, Zenon
<1>11. IsFiniteSet(CompletedOf(backups)) /\ RetentionCount \in Nat
  BY <1>0, BackupsFinite, BackupsAssumption, SMT DEF RowsApart
<1>12. ASSUME NEW Q \in SUBSET Retaining(runs'), Q # {}
       PROVE  \E q \in Q : Leaves(CompletedOf(backups), unsettled, runs', Q, q)
  <2>1. CASE r \in Q
    <3>1. /\ Tallied(CompletedOf(backups), unsettled, runs', Q) \ DOMAIN runs'[r].old
               \subseteq CompletedOf(backups) \ TooMany(runs[r].row)
      BY <1>5, <1>7, <1>10, Zenon DEF Tallied
    <3>2. IsFiniteSet(CompletedOf(backups) \ TooMany(runs[r].row))
      BY <1>11, FS_Difference, Zenon
    <3>3. Cardinality(CompletedOf(backups) \ TooMany(runs[r].row)) <= RetentionCount
      BY LooksAtFew, Zenon
    <3>4. Leaves(CompletedOf(backups), unsettled, runs', Q, r)
      BY <1>11, <3>1, <3>2, <3>3, Smaller, Zenon DEF Leaves
    <3>. QED  BY <2>1, <3>4
  <2>2. CASE r \notin Q
    <3>1. \A q \in Q : q \in Runs /\ runs'[q] = runs[q]
      BY <1>10, <2>2, Zenon DEF Retaining
    <3>2. Q \in SUBSET Retaining(runs)
      BY <3>1, Zenon DEF Retaining
    <3>3. PICK q \in Q : Leaves(CompletedOf(backups), unsettled, runs, Q, q)
      BY <1>12, <3>2, Zenon DEF BackupsInv, LastLooker
    <3>4. /\ Tallied(CompletedOf(backups), unsettled, runs', Q)
               = Tallied(CompletedOf(backups), unsettled, runs, Q)
          /\ runs'[q] = runs[q]
      BY <3>1, Zenon DEF Tallied
    <3>5. Leaves(CompletedOf(backups), unsettled, runs', Q, q)
      BY <3>3, <3>4, Zenon DEF Leaves
    <3>. QED  BY <3>5
  <2>. QED  BY <2>1, <2>2
<1>13. LastLooker(CompletedOf(backups'), unsettled', runs')
  BY <1>1, <1>12, Zenon DEF LastLooker
<1>14. /\ started' \in Nat /\ created' \in Nat /\ RowsApart(backups', started', created')
       /\ RunsApart(runs', started') /\ Settled(CompletedOf(backups'), unsettled')
  BY <1>0, <1>1, <1>9, Zenon DEF BackupsInv
<1>. QED  BY <1>13, <1>14, Zenon DEF BackupsInv

LEMMA RetireStep ==
  ASSUME BackupsInv, NEW r \in Runs, NEW b, Retire(r, b)
  PROVE  BackupsInv'
<1> DEFINE D == DOMAIN runs[r].old \ {b}
           old == [x \in D |-> runs[r].old[x]]
           goes == [runs[r] EXCEPT !.old = old]
<1>0. /\ started \in Nat /\ created \in Nat /\ RowsApart(backups, started, created)
      /\ runs[r] \in RunRow /\ started <= started /\ runs[r].old \in Lists
  BY InvFacts, SMT
<1>1. /\ runs[r].step = "retain" /\ runs' = [runs EXCEPT ![r] = goes] /\ backups' = Without(b)
      /\ UNCHANGED <<started, created, unsettled>>
  BY Zenon DEF Retire
<1>2. runs[r].step # "idle" /\ runs[r].step \in {"list", "retain"}
  BY <1>1, SMT
<1>3. runs[r].row = runs[r].file
  BY <1>2, InvFacts, Zenon DEF RunApart
<1>4. old \in Lists /\ DOMAIN old = D
  <2>1. PICK S \in SUBSET Nat : runs[r].old \in [S -> Nat]
    BY <1>0, Zenon DEF Lists
  <2>2. D \in SUBSET Nat /\ \A x \in D : runs[r].old[x] \in Nat
    BY <2>1, Zenon
  <2>3. old \in [D -> Nat]
    BY <2>2, Zenon
  <2>. QED  BY <2>2, <2>3, Zenon DEF Lists
<1> HIDE DEF old
<1>5. goes \in RunRow
  BY <1>0, <1>4, Zenon DEF RunRow
<1>6. goes.step = "retain" /\ goes.row = runs[r].row /\ goes.file = runs[r].file /\ goes.old = old
  BY <1>0, <1>1, SMT DEF RunRow
<1> HIDE DEF goes
<1>7. Follows(runs[r], goes, started, started)
  BY <1>2, <1>3, <1>6, SMT DEF Follows
<1>8. RowsApart(backups', started, created) /\ CompletedOf(backups') = CompletedOf(backups) \ {b}
  BY <1>0, <1>1, RowGone, Zenon
<1>9. CompletedOf(backups') \ unsettled' \subseteq CompletedOf(backups) \ unsettled
  BY <1>1, <1>8, Zenon
<1>10. DOMAIN runs[r].old \cap CompletedOf(backups') \subseteq DOMAIN goes.old
  BY <1>4, <1>6, <1>8, Zenon
<1>11. \A q \in Retaining(runs) : q # r => (runs[q].row \in CompletedOf(backups')
                                             => runs[q].row \in CompletedOf(backups))
  BY <1>8, Zenon
<1>12. /\ runs[r].step = "retain" /\ goes.row = runs[r].row
       /\ goes.row \in CompletedOf(backups') => goes.row \in CompletedOf(backups)
  BY <1>1, <1>6, <1>8, Zenon
<1>. QED  BY <1>0, <1>1, <1>5, <1>7, <1>8, <1>9, <1>10, <1>11, <1>12, RunSteps, Zenon

\* The run whose list is empty settles its own row, and the runs that looked before
\* it are no better off than it.
LEMMA RetiredStep ==
  ASSUME BackupsInv, NEW r \in Runs, Retired(r)
  PROVE  BackupsInv'
<1> DEFINE C == CompletedOf(backups)
           own == runs[r].row
<1>0. /\ started \in Nat /\ created \in Nat /\ RowsApart(backups, started, created)
      /\ started <= started /\ runs \in [Runs -> RunRow] /\ RunsApart(runs, started)
  BY InvFacts, SMT
<1>1. /\ runs[r].step = "retain" /\ runs[r].old = <<>> /\ runs' = [runs EXCEPT ![r] = Idle]
      /\ unsettled' = unsettled \ {own} /\ UNCHANGED <<backups, started, created>>
  BY Zenon DEF Retired
<1>2. DOMAIN runs[r].old = {}
  BY <1>1, SMT
<1>3. runs'[r] = Idle /\ \A q \in Runs : q # r => runs'[q] = runs[q]
  BY <1>0, <1>1, Zenon
<1>4. RunsApart(runs', started)
  <2>1. Follows(runs[r], Idle, started, started) /\ Idle \in RunRow
    BY IdleRun, Zenon DEF Follows
  <2>2. RunsApart([runs EXCEPT ![r] = Idle], started)
    BY <1>0, <2>1, RunMoves, Zenon
  <2>. QED  BY <1>1, <2>2
<1>5. IsFiniteSet(C) /\ RetentionCount \in Nat
  BY <1>0, BackupsFinite, BackupsAssumption, SMT DEF RowsApart
<1>6. r \in Retaining(runs)
  BY <1>1, Zenon DEF Retaining
<1>7. C \ unsettled' \subseteq (C \ unsettled) \cup {x \in C : x = own}
  BY <1>1, Zenon
<1>8. Settled(C, unsettled')
  <2>1. {r} \in SUBSET Retaining(runs) /\ {r} # {}
    BY <1>6, Zenon
  <2>2. \E q \in {r} : Leaves(C, unsettled, runs, {r}, q)
    BY <2>1, Zenon DEF BackupsInv, LastLooker
  <2>3. Leaves(C, unsettled, runs, {r}, r)
    BY <2>2, Zenon
  <2>4. C \ unsettled' \subseteq Tallied(C, unsettled, runs, {r}) \ DOMAIN runs[r].old
    BY <1>2, <1>7, Zenon DEF Tallied
  <2>5. IsFiniteSet(Tallied(C, unsettled, runs, {r}) \ DOMAIN runs[r].old)
    BY <1>5, TalliedFinite, Zenon
  <2>. QED  BY <1>5, <2>3, <2>4, <2>5, Smaller, Zenon DEF Settled, Leaves
<1>9. ASSUME NEW Q \in SUBSET Retaining(runs'), Q # {}
      PROVE  \E q \in Q : Leaves(C, unsettled', runs', Q, q)
  <2>1. r \notin Q
    <3>1. r \notin Retaining(runs')
      BY <1>3, IdleRun, SMT DEF Retaining
    <3>. QED  BY <3>1, Zenon
  <2>2. \A q \in Q : q \in Runs /\ runs'[q] = runs[q]
    BY <1>3, <2>1, Zenon DEF Retaining
  <2> DEFINE P == Q \cup {r}
  <2>3. P \in SUBSET Retaining(runs) /\ P # {}
    BY <1>6, <2>2, Zenon DEF Retaining
  <2>4. PICK q \in P : Leaves(C, unsettled, runs, P, q)
    BY <2>3, Zenon DEF BackupsInv, LastLooker
  <2>5. Tallied(C, unsettled', runs', Q) \subseteq Tallied(C, unsettled, runs, P)
    BY <1>7, <2>2, Zenon DEF Tallied
  <2>6. PICK p \in Q : TRUE
    BY <1>9, Zenon
  <2>7. CASE q \in Q
    <3>1. Tallied(C, unsettled', runs', Q) \ DOMAIN runs'[q].old
            \subseteq Tallied(C, unsettled, runs, P) \ DOMAIN runs[q].old
      BY <2>2, <2>5, <2>7, Zenon
    <3>2. IsFiniteSet(Tallied(C, unsettled, runs, P) \ DOMAIN runs[q].old)
      BY <1>5, TalliedFinite, Zenon
    <3>3. Leaves(C, unsettled', runs', Q, q)
      BY <1>5, <2>4, <3>1, <3>2, Smaller, Zenon DEF Leaves
    <3>. QED  BY <2>7, <3>3
  <2>8. CASE q = r
    <3>1. Tallied(C, unsettled', runs', Q) \ DOMAIN runs'[p].old
            \subseteq Tallied(C, unsettled, runs, P) \ DOMAIN runs[r].old
      BY <1>2, <2>5, Zenon
    <3>2. IsFiniteSet(Tallied(C, unsettled, runs, P) \ DOMAIN runs[r].old)
      BY <1>5, TalliedFinite, Zenon
    <3>3. Leaves(C, unsettled, runs, P, r)
      BY <2>4, <2>8, Zenon
    <3>4. Leaves(C, unsettled', runs', Q, p)
      BY <1>5, <3>1, <3>2, <3>3, Smaller, Zenon DEF Leaves
    <3>. QED  BY <3>4
  <2>. QED  BY <2>7, <2>8
<1>10. LastLooker(C, unsettled', runs')
  BY <1>9, Zenon DEF LastLooker
<1>. QED  BY <1>0, <1>1, <1>4, <1>8, <1>10, Zenon DEF BackupsInv

-----------------------------------------------------------------------------
LEMMA OtherBackupSteps ==
  ASSUME BackupsInv,
         \/ \E r \in Runs, b \in 1 .. MaxBackups : RetireDies(r, b)
         \/ (\E b \in 1 .. MaxBackups : RemoveRead(b)) \/ RemoveDone \/ SaveConfig
  PROVE  BackupsInv'
<1>0. /\ created \in Nat /\ RowsApart(backups, started, created)
      /\ CompletedOf(backups) \subseteq CompletedOf(backups)
  BY Zenon DEF BackupsInv
<1>1. CASE \E r \in Runs, b \in 1 .. MaxBackups : RetireDies(r, b)
  <2>1. PICK r \in Runs, b \in 1 .. MaxBackups : RetireDies(r, b)
    BY <1>1
  <2>2. runs' = [runs EXCEPT ![r] = Idle] /\ UNCHANGED <<backups, started, created, unsettled>>
    BY <2>1, Zenon DEF RetireDies
  <2>. QED  BY <1>0, <2>2, RunEnds, Zenon
<1>2. CASE (\E b \in 1 .. MaxBackups : RemoveRead(b)) \/ SaveConfig
  <2>1. UNCHANGED <<backups, runs, started, created, unsettled>>
    BY <1>2, Zenon DEF RemoveRead, SaveConfig
  <2>. QED  BY <1>0, <2>1, NoRunSteps, Zenon
<1>3. CASE RemoveDone
  <2>1. backups' = Without(removal.row) /\ UNCHANGED <<runs, started, created, unsettled>>
    BY <1>3, Zenon DEF RemoveDone
  <2>2. RowsApart(backups', started, created) /\ CompletedOf(backups') \subseteq CompletedOf(backups)
    BY <1>0, <2>1, RowGone, Zenon
  <2>. QED  BY <2>1, <2>2, NoRunSteps, Zenon
<1>. QED  BY <1>1, <1>2, <1>3, Zenon

LEMMA BackupsInvInit == BackupsInit => BackupsInv
<1>. SUFFICES ASSUME BackupsInit PROVE BackupsInv
  OBVIOUS
<1>1. DOMAIN backups = {}
  BY SMT DEF BackupsInit
<1>2. started = 0 /\ created = 0 /\ unsettled = {} /\ runs = [r \in Runs |-> Idle]
  BY Zenon DEF BackupsInit
<1>3. started \in Nat /\ created \in Nat /\ RetentionCount \in Nat /\ 0 <= RetentionCount
  BY <1>2, BackupsAssumption, SMT
<1>4. RowsApart(backups, started, created) /\ CompletedOf(backups) = {}
  BY <1>1, Zenon DEF RowsApart, CompletedOf
<1>5. RunsApart(runs, started) /\ Retaining(runs) = {}
  <2>1. runs \in [Runs -> RunRow] /\ \A r \in Runs : runs[r].step = "idle"
    BY <1>2, IdleRun, Zenon
  <2>2. \A r \in Runs : runs[r].step # "retain"
    BY <2>1, SMT
  <2>. QED  BY <2>1, <2>2, Zenon DEF RunsApart, RunApart, Retaining
<1>6. LastLooker(CompletedOf(backups), unsettled, runs)
  BY <1>5, Zenon DEF LastLooker
<1>7. Settled(CompletedOf(backups), unsettled)
  <2>1. Cardinality(CompletedOf(backups) \ unsettled) = 0
    BY <1>4, FS_EmptySet, Zenon
  <2>. QED  BY <1>3, <2>1, Zenon DEF Settled
<1>. QED  BY <1>3, <1>4, <1>5, <1>6, <1>7, Zenon DEF BackupsInv

LEMMA BackupsStep == BackupsInv /\ [BackupsNext]_backupVars => BackupsInv'
<1>. SUFFICES ASSUME BackupsInv, [BackupsNext]_backupVars PROVE BackupsInv'
  OBVIOUS
<1>1. CASE UNCHANGED backupVars
  <2>1. UNCHANGED <<backups, runs, started, created, unsettled>>
    BY <1>1, Zenon DEF backupVars
  <2>2. RowsApart(backups', started, created) /\ CompletedOf(backups') \subseteq CompletedOf(backups)
    BY <2>1, Zenon DEF BackupsInv
  <2>. QED  BY <2>1, <2>2, NoRunSteps, Zenon
<1>2. CASE \E r \in Runs : \/ Trigger(r) \/ Schedule(r) \/ Complete(r) \/ ListOld(r) \/ Retired(r)
                           \/ \E b \in 1 .. MaxBackups : Retire(r, b)
  BY <1>2, TriggerStep, ScheduleStep, CompleteStep, ListStep, RetiredStep, RetireStep, Zenon
<1>3. CASE \E r \in Runs : \/ NotEnabled(r) \/ Take(r) \/ Publish(r) \/ FailArchive(r) \/ RunDies(r)
  BY <1>3, EarlySteps, Zenon
<1>4. CASE \/ \E r \in Runs, b \in 1 .. MaxBackups : RetireDies(r, b)
           \/ (\E b \in 1 .. MaxBackups : RemoveRead(b)) \/ RemoveDone \/ SaveConfig
  BY <1>4, OtherBackupSteps, Zenon
<1>. QED  BY <1>1, <1>2, <1>3, <1>4, Zenon DEF BackupsNext

\* Runs that finish together each delete what they saw beyond the retention count:
\* whatever the order of their steps, of the completed backups whose runs have
\* finished no more remain than the configuration keeps.
THEOREM RetentionHolds == BackupsSpec => []NoMoreThanKept
<1>1. BackupsInv => NoMoreThanKept
  BY Zenon DEF BackupsInv, Settled, NoMoreThanKept, Completed, CompletedOf
<1>. QED  BY <1>1, BackupsInvInit, BackupsStep, PTL DEF BackupsSpec

-----------------------------------------------------------------------------
(* Types and capacities. *)

\* The state of the queue stays within its bounds; a thread that puts a record and
\* the worker that stores one have a record, not the sentinel.
QueueWithin ==
  /\ next \in 1 .. (LogRecords + 1) /\ emitter \in [Emitters -> Emitter]
  /\ queue \in Seq(Items) /\ Len(queue) <= QueueSize
  /\ worker \in [Workers -> Worker]
  /\ accepted \in Seq(NewRecords) /\ done \in Seq(NewRecords)
  /\ flush \in Flush
  /\ \A t \in Emitters : emitter[t].at = "put" => emitter[t].record # 0
  /\ \A w \in Workers : worker[w].at = "persist" => worker[w].item # 0

LEMMA ElementsIn == \A S : \A s \in Seq(S) : Elements(s) \subseteq S
BY SMT DEF Elements

LEMMA LongerOrShorter ==
  ASSUME NEW S, NEW s \in Seq(S)
  PROVE  /\ Len(s) \in Nat
         /\ \A x \in S : Append(s, x) \in Seq(S) /\ Len(Append(s, x)) = Len(s) + 1
         /\ s # <<>> => Tail(s) \in Seq(S) /\ Len(Tail(s)) <= Len(s)
BY SMT

LEMMA QueueNumbers ==
  /\ LogRecords \in Nat /\ QueueSize \in Nat \ {0} /\ 0 \in Items /\ Stop = 0
  /\ \A r \in Items : r # 0 => r \in NewRecords
  /\ NewRecords \subseteq Items
BY QueueBounds, SMT DEF Items, NewRecords, Stop

LEMMA QueueWithinInit == QueueInit => QueueWithin
<1>. SUFFICES ASSUME QueueInit PROVE QueueWithin
  OBVIOUS
<1>1. /\ [at |-> "idle", record |-> 0] \in Emitter /\ [at |-> "none", item |-> 0] \in Worker
      /\ [at |-> "idle", seen |-> {}] \in Flush
  BY QueueNumbers, SMT DEF Emitter, Worker, Flush
<1>2. /\ emitter \in [Emitters -> Emitter] /\ worker \in [Workers -> Worker] /\ flush \in Flush
  BY <1>1, Zenon DEF QueueInit
<1>3. /\ next \in 1 .. (LogRecords + 1) /\ queue \in Seq(Items) /\ Len(queue) <= QueueSize
      /\ accepted \in Seq(NewRecords) /\ done \in Seq(NewRecords)
  BY QueueNumbers, SMT DEF QueueInit
<1>4. /\ \A t \in Emitters : emitter[t].at # "put"
      /\ \A w \in Workers : worker[w].at # "persist"
  BY SMT DEF QueueInit
<1>. QED  BY <1>2, <1>3, <1>4, Zenon DEF QueueWithin

\* Threads that log.
LEMMA EmittersWithin ==
  ASSUME QueueWithin, NEW t \in Emitters, Emit(t) \/ EmitAgain(t)
  PROVE  QueueWithin'
<1>1. UNCHANGED <<queue, accepted, done, flush>>
  BY Zenon DEF Emit, EmitAgain
<1>2. emitter \in [Emitters -> Emitter] /\ emitter[t] \in Emitter
  BY Zenon DEF QueueWithin
<1>3. next' \in 1 .. (LogRecords + 1)
  BY QueueNumbers, SMT DEF QueueWithin, Emit, EmitAgain
<1>4. PICK e \in Emitter : emitter' = [emitter EXCEPT ![t] = e] /\ (e.at = "put" => e.record # 0)
  <2>1. CASE Emit(t)
    <3>1. next \in Items /\ next # 0
      BY <2>1, QueueNumbers, SMT DEF Emit, QueueWithin, Items
    <3>2. [at |-> "put", record |-> next] \in Emitter /\ [at |-> "put", record |-> next].record # 0
      BY <3>1, SMT DEF Emitter
    <3>. QED  BY <2>1, <3>2, Zenon DEF Emit
  <2>2. CASE EmitAgain(t)
    <3>1. [emitter[t] EXCEPT !.at = "idle"] \in Emitter /\ [emitter[t] EXCEPT !.at = "idle"].at # "put"
      BY <1>2, SMT DEF Emitter
    <3>. QED  BY <2>2, <3>1, Zenon DEF EmitAgain
  <2>. QED  BY <2>1, <2>2
<1>5. /\ emitter' \in [Emitters -> Emitter]
      /\ \A x \in Emitters : emitter'[x].at = "put" => emitter'[x].record # 0
  BY <1>2, <1>4, Zenon DEF QueueWithin
<1>6. /\ worker' \in [Workers -> Worker]
      /\ \A w \in Workers : worker'[w].at = "persist" => worker'[w].item # 0
  <2>1. CASE UNCHANGED worker
    BY <2>1, Zenon DEF QueueWithin
  <2>2. CASE ~ UNCHANGED worker
    <3>1. PICK w \in Workers : worker' = [worker EXCEPT ![w] = [at |-> "get", item |-> 0]]
      BY <2>2, Zenon DEF Emit, EmitAgain, EnsureWorker
    <3>2. [at |-> "get", item |-> 0] \in Worker /\ [at |-> "get", item |-> 0].at # "persist"
      BY QueueNumbers, SMT DEF Worker
    <3>. QED  BY <3>1, <3>2, Zenon DEF QueueWithin
  <2>. QED  BY <2>1, <2>2
<1>. QED  BY <1>1, <1>3, <1>5, <1>6, Zenon DEF QueueWithin

\* put_nowait and the sentinel: what does not fit is not queued.
LEMMA PutsWithin ==
  ASSUME QueueWithin, Shutdown \/ \E t \in Emitters : Enqueue(t)
  PROVE  QueueWithin'
<1>1. UNCHANGED <<next, worker, done, flush>>
  BY Zenon DEF Shutdown, Enqueue
<1>2. /\ emitter' \in [Emitters -> Emitter]
      /\ \A x \in Emitters : emitter'[x].at = "put" => emitter'[x].record # 0
  <2>1. CASE Shutdown
    BY <2>1, Zenon DEF Shutdown, QueueWithin
  <2>2. ASSUME NEW t \in Emitters, Enqueue(t)
        PROVE  /\ emitter' \in [Emitters -> Emitter]
               /\ \A x \in Emitters : emitter'[x].at = "put" => emitter'[x].record # 0
    <3>1. emitter[t] \in Emitter
      BY Zenon DEF QueueWithin
    <3>2. [emitter[t] EXCEPT !.at = "again"] \in Emitter /\ [emitter[t] EXCEPT !.at = "again"].at # "put"
      BY <3>1, SMT DEF Emitter
    <3>3. emitter' = [emitter EXCEPT ![t] = [emitter[t] EXCEPT !.at = "again"]]
      BY <2>2, Zenon DEF Enqueue
    <3>. QED  BY <3>2, <3>3, Zenon DEF QueueWithin
  <2>. QED  BY <2>1, <2>2
<1>3. PICK r \in Items :
        /\ queue' = queue \/ (Len(queue) < QueueSize /\ queue' = Append(queue, r))
        /\ accepted' = accepted \/ (r \in NewRecords /\ accepted' = Append(accepted, r))
  <2>1. CASE Shutdown
    BY <2>1, QueueNumbers, Zenon DEF Shutdown
  <2>2. ASSUME NEW t \in Emitters, Enqueue(t)
        PROVE  \E r \in Items :
                 /\ queue' = queue \/ (Len(queue) < QueueSize /\ queue' = Append(queue, r))
                 /\ accepted' = accepted \/ (r \in NewRecords /\ accepted' = Append(accepted, r))
    <3>1. emitter[t].record \in Items /\ emitter[t].record # 0
      <4>1. emitter[t] \in Emitter /\ emitter[t].at = "put"
        BY <2>2, Zenon DEF QueueWithin, Enqueue
      <4>2. emitter[t].record \in Items
        BY <4>1, SMT DEF Emitter
      <4>. QED  BY <4>1, <4>2, Zenon DEF QueueWithin
    <3>. QED  BY <2>2, <3>1, QueueNumbers, Zenon DEF Enqueue
  <2>. QED  BY <2>1, <2>2
<1>4. queue' \in Seq(Items) /\ Len(queue') <= QueueSize
  <2>1. queue \in Seq(Items) /\ Len(queue) <= QueueSize
    BY Zenon DEF QueueWithin
  <2>2. CASE queue' = queue
    BY <2>1, <2>2, Zenon
  <2>3. CASE Len(queue) < QueueSize /\ queue' = Append(queue, r)
    <3>1. queue' \in Seq(Items) /\ Len(queue') = Len(queue) + 1 /\ Len(queue) \in Nat
      BY <2>1, <2>3, LongerOrShorter, Zenon
    <3>. QED  BY <2>3, <3>1, QueueNumbers, SMT
  <2>. QED  BY <1>3, <2>2, <2>3, Zenon
<1>5. accepted' \in Seq(NewRecords)
  <2>1. accepted \in Seq(NewRecords)
    BY Zenon DEF QueueWithin
  <2>. QED  BY <1>3, <2>1, LongerOrShorter, Zenon
<1>. QED  BY <1>1, <1>2, <1>4, <1>5, Zenon DEF QueueWithin

\* The worker.
LEMMA WorkersWithin ==
  ASSUME QueueWithin, NEW w \in Workers, Get(w) \/ Store(w) \/ TaskDone(w)
  PROVE  QueueWithin'
<1>1. UNCHANGED <<next, emitter, accepted, flush>>
  BY Zenon DEF Get, Store, TaskDone
<1>2. worker[w] \in Worker /\ queue \in Seq(Items) /\ done \in Seq(NewRecords)
  BY Zenon DEF QueueWithin
<1>3. queue' \in Seq(Items) /\ Len(queue') <= QueueSize
  <2>1. queue' = queue \/ (queue # <<>> /\ queue' = Tail(queue))
    BY Zenon DEF Get, Store, TaskDone
  <2>2. /\ Len(queue) \in Nat /\ Len(queue) <= QueueSize
        /\ queue # <<>> => Tail(queue) \in Seq(Items) /\ Len(Tail(queue)) <= Len(queue)
    BY <1>2, LongerOrShorter, Zenon DEF QueueWithin
  <2>3. queue' = queue \/ (queue' \in Seq(Items) /\ Len(queue') <= Len(queue))
    BY <2>1, <2>2, Zenon
  <2>4. CASE queue' = queue
    BY <1>2, <2>2, <2>4, Zenon
  <2>5. CASE queue' \in Seq(Items) /\ Len(queue') <= Len(queue)
    <3>1. Len(queue') \in Nat
      BY <2>5, LongerOrShorter, Zenon
    <3>. QED  BY <2>2, <2>5, <3>1, QueueNumbers, SMT
  <2>. QED  BY <2>3, <2>4, <2>5, Zenon
<1>4. PICK c \in Worker : worker' = [worker EXCEPT ![w] = c] /\ (c.at = "persist" => c.item # 0)
  <2>1. CASE Get(w)
    <3> DEFINE h == Head(queue)
               c == [at |-> IF h = Stop THEN "done" ELSE "persist", item |-> h]
    <3>1. h \in Items
      BY <1>2, <2>1, SMT DEF Get
    <3>2. worker' = [worker EXCEPT ![w] = c]
      BY <2>1, Zenon DEF Get
    <3> HIDE DEF h
    <3>3. c \in Worker /\ (c.at = "persist" => c.item # 0)
      BY <3>1, QueueNumbers, SMT DEF Worker
    <3>. QED  BY <3>2, <3>3, Zenon
  <2>2. CASE Store(w)
    <3>1. [worker[w] EXCEPT !.at = "done"] \in Worker /\ [worker[w] EXCEPT !.at = "done"].at # "persist"
      BY <1>2, SMT DEF Worker
    <3>. QED  BY <2>2, <3>1, Zenon DEF Store
  <2>3. CASE TaskDone(w)
    <3> DEFINE c == [at |-> IF worker[w].item = Stop THEN "ended" ELSE "get", item |-> 0]
    <3>1. worker' = [worker EXCEPT ![w] = c]
      BY <2>3, Zenon DEF TaskDone
    <3>2. c \in Worker /\ c.at # "persist"
      BY QueueNumbers, SMT DEF Worker
    <3>. QED  BY <3>1, <3>2, Zenon
  <2>. QED  BY <2>1, <2>2, <2>3
<1>5. /\ worker' \in [Workers -> Worker]
      /\ \A x \in Workers : worker'[x].at = "persist" => worker'[x].item # 0
  BY <1>4, Zenon DEF QueueWithin
<1>6. done' \in Seq(NewRecords)
  <2>1. CASE Store(w)
    <3>1. worker[w].item \in NewRecords /\ done' = Append(done, worker[w].item)
      <4>1. worker[w].at = "persist" /\ done' = Append(done, worker[w].item)
        BY <2>1, Zenon DEF Store
      <4>2. worker[w].item \in Items
        BY <1>2, SMT DEF Worker
      <4>. QED  BY <4>1, <4>2, QueueNumbers, Zenon DEF QueueWithin
    <3>. QED  BY <1>2, <3>1, SMT
  <2>2. CASE Get(w) \/ TaskDone(w)
    BY <1>2, <2>2, Zenon DEF Get, TaskDone
  <2>. QED  BY <2>1, <2>2
<1>. QED  BY <1>1, <1>3, <1>5, <1>6, Zenon DEF QueueWithin

LEMMA FlushWithin ==
  ASSUME QueueWithin, FlushStart \/ FlushEnd
  PROVE  QueueWithin'
<1>1. UNCHANGED <<next, emitter, queue, worker, accepted, done>>
  BY Zenon DEF FlushStart, FlushEnd
<1>2. flush' \in Flush
  <2>1. Elements(accepted) \subseteq NewRecords /\ flush \in Flush
    BY ElementsIn, Zenon DEF QueueWithin
  <2>2. /\ [at |-> "waiting", seen |-> Elements(accepted)] \in Flush
        /\ [at |-> "idle", seen |-> {}] \in Flush /\ [flush EXCEPT !.at = "true"] \in Flush
    BY <2>1, SMT DEF Flush
  <2>. QED  BY <2>2, Zenon DEF FlushStart, FlushEnd
<1>. QED  BY <1>1, <1>2, Zenon DEF QueueWithin

\* The queue never holds more than _ASYNC_QUEUE_MAXSIZE items, the sentinel included,
\* and its count of unfinished tasks never falls below zero, whatever threads log,
\* shut down and flush side by side.
THEOREM QueueTypeCorrect == QueueSpec => []QueueTypeOK
<1>1. QueueWithin /\ [QueueNext]_queueVars => QueueWithin'
  <2>. SUFFICES ASSUME QueueWithin, [QueueNext]_queueVars PROVE QueueWithin'
    OBVIOUS
  <2>1. CASE UNCHANGED queueVars
    BY <2>1, Zenon DEF queueVars, QueueWithin
  <2>. QED  BY <2>1, EmittersWithin, PutsWithin, WorkersWithin, FlushWithin, Zenon DEF QueueNext
<1>2. QueueWithin /\ QueueInv => QueueTypeOK
  BY Zenon DEF QueueWithin, QueueInv, QueueTypes, QueueTypeOK
<1>. QED  BY <1>1, <1>2, QueueWithinInit, QueueInvariant, PTL DEF QueueSpec

\* Of finitely many numbers at most k have fewer than k greater ones.
LEMMA NewestAreFew ==
  ASSUME NEW k \in Nat, NEW S \in SUBSET Nat, IsFiniteSet(S)
  PROVE  Cardinality(Newest(k, S)) <= k
<1> DEFINE at == [x \in S |-> x]
<1>1. at \in [S -> Nat] /\ \A b, c \in S : at[b] = at[c] => b = c
  BY Zenon
<1>2. Cardinality({b \in S : Cardinality({x \in S : at[x] > at[b]}) < k}) <= k
  <2> HIDE DEF at
  <2>. QED  BY <1>1, FewAreRecent, Zenon
<1>3. \A b \in S : {x \in S : at[x] > at[b]} = {x \in S : x > b}
  BY Zenon
<1>4. {b \in S : Cardinality({x \in S : at[x] > at[b]}) < k} = Newest(k, S)
  <2> HIDE DEF at
  <2>. QED  BY <1>3, Zenon DEF Newest
<1>. QED  BY <1>2, <1>4, Zenon

\* A buffer holds no more than its size.
BuffersBounded == \A p \in Processes : Cardinality(buffer[p]) <= BufferSize

LEMMA AppendWithin ==
  ASSUME LiveInv, BuffersBounded, NEW p \in Processes, NEW r \in Created, AppendLine(p, r)
  PROVE  BuffersBounded'
<1> DEFINE n == Latest({Latest(lineOf[p]) + 1, r})
<1>1. r \in waiting[p] /\ buffer' = [buffer EXCEPT ![p] = Newest(BufferSize, buffer[p] \cup {n})]
  BY Zenon DEF AppendLine
<1>2. LiveTypes
  BY Zenon DEF LiveInv
<1>3. n \in Nat
  BY <1>1, <1>2, NextNumber, Zenon
<1> HIDE DEF n
<1>4. BufferSize \in Nat
  BY LiveBounds, SMT
<1>5. IsFiniteSet(buffer[p]) /\ buffer[p] \in SUBSET Nat
  <2>1. PICK M \in Nat : lineOf[p] \in SUBSET (0 .. M)
    BY <1>2, VisibleFinite, Zenon
  <2>2. IsFiniteSet(0 .. M) /\ 0 .. M \subseteq Nat
    BY FS_Interval, SMT
  <2>3. buffer[p] \in SUBSET (0 .. M)
    BY <1>2, <2>1, Zenon DEF LiveTypes
  <2>. QED  BY <2>2, <2>3, FS_Subset, Zenon
<1>6. IsFiniteSet(buffer[p] \cup {n}) /\ buffer[p] \cup {n} \in SUBSET Nat
  BY <1>3, <1>5, FS_AddElement, Zenon
<1>7. Cardinality(Newest(BufferSize, buffer[p] \cup {n})) <= BufferSize
  BY <1>4, <1>6, NewestAreFew, Zenon
<1>8. buffer \in [Processes -> SUBSET Nat]
  BY <1>2, Zenon DEF LiveTypes
<1>. QED  BY <1>1, <1>7, <1>8, Zenon DEF BuffersBounded

\* However fast lines come, each process keeps at most BufferSize of its own; an event
\* is of a record that was created, and the page shows only lines of processes that
\* answered it and events of the database.
THEOREM LiveTypeCorrect == LiveSpec => []LiveTypeOK
<1>1. LiveInv /\ BuffersBounded /\ [LiveNext]_liveVars => BuffersBounded'
  <2>. SUFFICES ASSUME LiveInv, BuffersBounded, [LiveNext]_liveVars PROVE BuffersBounded'
    OBVIOUS
  <2>1. CASE UNCHANGED buffer
    BY <2>1, Zenon DEF BuffersBounded
  <2>2. ASSUME ~UNCHANGED buffer PROVE \E p \in Processes, r \in Created : AppendLine(p, r)
    BY <2>2, Zenon DEF LiveNext, liveVars, Log, Poll, BuildEvent, CommitEvent, ClearView
  <2>. QED  BY <2>1, <2>2, AppendWithin, Zenon
<1>2. LiveInv /\ BuffersBounded => LiveTypeOK
  BY Zenon DEF LiveInv, LiveTypes, ShownIsThere, Answered, BuffersBounded, LiveTypeOK
<1>3. LiveInit => BuffersBounded
  <2>1. Cardinality({}) <= BufferSize
    BY FS_EmptySet, LiveBounds, SMT
  <2>. QED  BY <2>1, Zenon DEF LiveInit, BuffersBounded
<1>. QED  BY <1>1, <1>2, <1>3, LiveInvariant, PTL DEF LiveSpec

\* A request that is counted never tries a row more than _increment_daily_stats does,
\* and no counter of a day falls below zero.
THEOREM TrafficTypeCorrect == TrafficSpec => []TrafficTypeOK
<1>1. TrafficInv => TrafficTypeOK
  <2>. SUFFICES ASSUME TrafficInv PROVE TrafficTypeOK
    OBVIOUS
  <2>1. TrafficTypes
    BY Zenon DEF TrafficInv
  <2>2. \A v \in Visits : /\ visit[v].step \in {"idle", "count", "look", "create", "save"}
                          /\ visit[v].tries \in 0 .. Attempts - 1
    <3>1. \A v \in Visits : visit[v] \in VisitRow
      BY <2>1, Zenon DEF TrafficTypes
    <3>2. \A r \in VisitRow : /\ r.step \in {"idle", "count", "look", "create", "save"}
                              /\ r.tries \in 0 .. Attempts - 1
      BY SMT DEF VisitRow, VisitAt
    <3>. QED  BY <3>1, <3>2, Zenon
  <2>3. command.step \in {"idle", "counting", "writing", "creating", "updating"}
    BY <2>1, SMT DEF TrafficTypes, CommandRow, CommandAt
  <2>. QED  BY <2>1, <2>2, <2>3, Zenon DEF TrafficTypes, Tally, TrafficTypeOK
<1>. QED  BY <1>1, TrafficInvariant, PTL

-----------------------------------------------------------------------------
(* The archives and rows of backups are those of runs that were begun. *)

FilesNamed(table) == \A b \in DOMAIN table : table[b].file \in {NoRow, b}

BackupsWithin ==
  /\ started \in 0 .. MaxBackups /\ removals \in 0 .. MaxRemovals /\ deaths \in 0 .. MaxDeaths
  /\ enabled \in BOOLEAN /\ FilesNamed(backups) /\ partial \subseteq Runs \X (1 .. started)
  /\ archives \subseteq 1 .. started /\ unsettled \subseteq 1 .. started

LEMMA CountsOn ==
  ASSUME NEW m \in Nat, NEW n \in 0 .. m, n < m
  PROVE  n + 1 \in 0 .. m
BY SMT

LEMMA BegunGrow ==
  ASSUME NEW m \in Nat, NEW n \in {m, m + 1}
  PROVE  1 .. m \subseteq 1 .. n
BY SMT

LEMMA NamedWithRow ==
  ASSUME FilesNamed(backups), NEW b, NEW row, row.file \in {NoRow, b}
  PROVE  FilesNamed(WithRow(b, row))
BY Zenon DEF FilesNamed, WithRow

LEMMA NamedWithout ==
  ASSUME FilesNamed(backups), NEW b
  PROVE  FilesNamed(Without(b))
BY Zenon DEF FilesNamed, Without

LEMMA NamedByStatus ==
  ASSUME BackupsInv, FilesNamed(backups), NEW b \in DOMAIN backups, NEW status
  PROVE  FilesNamed([backups EXCEPT ![b].status = status])
<1> DEFINE T == [backups EXCEPT ![b].status = status]
<1>1. ASSUME NEW x \in DOMAIN T PROVE T[x].file \in {NoRow, x}
  <2>1. x \in DOMAIN backups /\ backups[x] \in BackupRow /\ backups[x].file \in {NoRow, x}
    BY <1>1, Zenon DEF BackupsInv, RowsApart, FilesNamed
  <2>2. CASE x = b
    <3>1. T[x] = [backups[x] EXCEPT !.status = status]
      BY <2>1, <2>2, Zenon
    <3>2. [backups[x] EXCEPT !.status = status].file = backups[x].file
      BY <2>1, SMT DEF BackupRow
    <3>. QED  BY <2>1, <3>1, <3>2
  <2>3. CASE x # b
    BY <2>1, <2>3, Zenon
  <2>. QED  BY <2>2, <2>3
<1>. QED  BY <1>1, Zenon DEF FilesNamed

LEMMA NamedAsFailed ==
  ASSUME BackupsInv, FilesNamed(backups), NEW r, SaveFailed(r)
  PROVE  FilesNamed(backups')
<1>1. CASE runs[r].row \in DOMAIN backups
  <2>1. backups' = [backups EXCEPT ![runs[r].row].status = "failed"]
    BY <1>1, Zenon DEF SaveFailed
  <2>. QED  BY <1>1, <2>1, NamedByStatus, Zenon
<1>2. CASE runs[r].row \notin DOMAIN backups
  <2>1. backups' = WithRow(runs[r].row, Row("failed", NoRow, created + 1))
    BY <1>2, Zenon DEF SaveFailed
  <2>2. Row("failed", NoRow, created + 1).file \in {NoRow, runs[r].row}
    BY SMT DEF Row
  <2>3. FilesNamed(WithRow(runs[r].row, Row("failed", NoRow, created + 1)))
    BY <2>2, NamedWithRow
  <2>. QED  BY <2>1, <2>3, Zenon
<1>. QED  BY <1>1, <1>2

\* A run that is not idle works on a file that was begun.
LEMMA RunFile ==
  ASSUME BackupsInv, NEW r \in Runs, runs[r].step # "idle"
  PROVE  runs[r].file \in 1 .. started
BY InvFacts, Zenon DEF RunApart

\* The counters of a step: at most one of them grows, below its bound.
LEMMA BackupCounters ==
  ASSUME BackupsWithin,
         started' = started \/ (started < MaxBackups /\ started' = started + 1),
         removals' = removals \/ (removals < MaxRemovals /\ removals' = removals + 1),
         deaths' = deaths \/ (deaths < MaxDeaths /\ deaths' = deaths + 1)
  PROVE  /\ started' \in 0 .. MaxBackups /\ removals' \in 0 .. MaxRemovals
         /\ deaths' \in 0 .. MaxDeaths /\ 1 .. started \subseteq 1 .. started'
<1>1. /\ started \in 0 .. MaxBackups /\ removals \in 0 .. MaxRemovals /\ deaths \in 0 .. MaxDeaths
      /\ MaxBackups \in Nat /\ MaxRemovals \in Nat /\ MaxDeaths \in Nat
  BY BackupsCapped, Zenon DEF BackupsWithin
<1>2. started' \in 0 .. MaxBackups
  BY <1>1, CountsOn, Zenon
<1>3. removals' \in 0 .. MaxRemovals
  BY <1>1, CountsOn, Zenon
<1>4. deaths' \in 0 .. MaxDeaths
  BY <1>1, CountsOn, Zenon
<1>5. started \in Nat /\ started' \in {started, started + 1}
  BY <1>1, SMT
<1>. QED  BY <1>2, <1>3, <1>4, <1>5, BegunGrow, Zenon

\* A step that writes no row under a new file, and no file.
LEMMA QuietWithin ==
  ASSUME BackupsWithin, FilesNamed(backups'), enabled' \in BOOLEAN,
         started' \in 0 .. MaxBackups /\ removals' \in 0 .. MaxRemovals /\ deaths' \in 0 .. MaxDeaths,
         1 .. started \subseteq 1 .. started',
         archives' \subseteq archives, partial' \subseteq partial, unsettled' \subseteq unsettled
  PROVE  BackupsWithin'
<1>1. /\ partial \subseteq Runs \X (1 .. started) /\ archives \subseteq 1 .. started
      /\ unsettled \subseteq 1 .. started
  BY Zenon DEF BackupsWithin
<1>2. Runs \X (1 .. started) \subseteq Runs \X (1 .. started')
  BY SMT
<1>3. /\ partial' \subseteq Runs \X (1 .. started') /\ archives' \subseteq 1 .. started'
      /\ unsettled' \subseteq 1 .. started'
  BY <1>1, <1>2, Zenon
<1>4. \A b \in DOMAIN backups' : backups'[b].file \in {NoRow, b}
  BY Zenon DEF FilesNamed
<1>. QED  BY <1>3, <1>4, Zenon DEF BackupsWithin, FilesNamed

LEMMA RunsWithin ==
  ASSUME BackupsInv, BackupsWithin, NEW r \in Runs,
         \/ Trigger(r) \/ Schedule(r) \/ NotEnabled(r) \/ Take(r) \/ Publish(r)
         \/ FailArchive(r) \/ Complete(r) \/ ListOld(r) \/ Retired(r) \/ RunDies(r)
         \/ \E b \in 1 .. MaxBackups : Retire(r, b) \/ RetireDies(r, b)
  PROVE  BackupsWithin'
<1>0. /\ enabled \in BOOLEAN /\ FilesNamed(backups) /\ partial \subseteq Runs \X (1 .. started)
      /\ archives \subseteq 1 .. started /\ unsettled \subseteq 1 .. started
  BY Zenon DEF BackupsWithin
<1>1. /\ started' \in 0 .. MaxBackups /\ removals' \in 0 .. MaxRemovals /\ deaths' \in 0 .. MaxDeaths
      /\ enabled' \in BOOLEAN /\ 1 .. started \subseteq 1 .. started'
  <2>1. started' = started \/ (started < MaxBackups /\ started' = started + 1)
    BY Zenon DEF Trigger, Schedule, NotEnabled, Take, Publish, FailArchive, Complete, ListOld,
       Retired, RunDies, Retire, RetireDies
  <2>2. removals' = removals /\ enabled' = enabled
    BY Zenon DEF Trigger, Schedule, NotEnabled, Take, Publish, FailArchive, Complete, ListOld,
       Retired, RunDies, Retire, RetireDies
  <2>3. deaths' = deaths \/ (deaths < MaxDeaths /\ deaths' = deaths + 1)
    BY Zenon DEF Trigger, Schedule, NotEnabled, Take, Publish, FailArchive, Complete, ListOld,
       Retired, RunDies, Retire, RetireDies
  <2>4. /\ started' \in 0 .. MaxBackups /\ removals' \in 0 .. MaxRemovals
        /\ deaths' \in 0 .. MaxDeaths /\ 1 .. started \subseteq 1 .. started'
    BY <2>1, <2>2, <2>3, BackupCounters, Zenon
  <2>. QED  BY <1>0, <2>2, <2>4, Zenon
<1>2. CASE Trigger(r)
  <2>1. /\ backups' = WithRow(started + 1, Row("pending", NoRow, created + 1))
        /\ UNCHANGED <<archives, partial, unsettled>>
    BY <1>2, Zenon DEF Trigger
  <2>2. Row("pending", NoRow, created + 1).file \in {NoRow, started + 1}
    BY SMT DEF Row
  <2>4. FilesNamed(WithRow(started + 1, Row("pending", NoRow, created + 1)))
    BY <1>0, <2>2, NamedWithRow
  <2>3. FilesNamed(backups')
    BY <2>1, <2>4, Zenon
  <2>. QED  BY <1>1, <2>1, <2>3, QuietWithin, Zenon
<1>3. CASE Schedule(r) \/ NotEnabled(r) \/ ListOld(r) \/ Retired(r) \/ RunDies(r)
           \/ \E b \in 1 .. MaxBackups : RetireDies(r, b)
  <2>1. backups' = backups /\ partial' = partial
    BY <1>3, Zenon DEF Schedule, NotEnabled, ListOld, Retired, RunDies, RetireDies
  <2>2. archives' \subseteq archives /\ unsettled' \subseteq unsettled
    BY <1>3, Zenon DEF Schedule, NotEnabled, ListOld, Retired, RunDies, RetireDies
  <2>3. FilesNamed(backups')
    BY <1>0, <2>1, Zenon
  <2>. QED  BY <1>1, <2>1, <2>2, <2>3, QuietWithin, Zenon
<1>4. CASE Take(r)
  <2>1. /\ runs[r].step = "begin" /\ partial' = partial \cup {<<r, runs[r].file>>}
        /\ UNCHANGED <<archives, unsettled, started>>
    BY <1>4, Zenon DEF Take
  <2>2. runs[r].step # "idle"
    BY <2>1, SMT
  <2>3. runs[r].file \in 1 .. started
    BY <2>2, RunFile, Zenon
  <2>4. partial' \subseteq Runs \X (1 .. started)
    <3>1. <<r, runs[r].file>> \in Runs \X (1 .. started)
      BY <2>3, SMT
    <3>. QED  BY <1>0, <2>1, <3>1, Zenon
  <2>5. FilesNamed(backups')
    <3>1. CASE runs[r].row \in DOMAIN backups
      <4>1. backups' = [backups EXCEPT ![runs[r].row].status = "creating"]
        BY <1>4, <3>1, Zenon DEF Take
      <4>. QED  BY <1>0, <3>1, <4>1, NamedByStatus, Zenon
    <3>2. CASE runs[r].row \notin DOMAIN backups
      <4>1. backups' = backups
        BY <1>4, <3>2, Zenon DEF Take
      <4>. QED  BY <1>0, <4>1, Zenon
    <3>. QED  BY <3>1, <3>2
  <2>. QED  BY <1>0, <1>1, <2>1, <2>4, <2>5, Zenon DEF BackupsWithin, FilesNamed
<1>5. CASE Publish(r)
  <2>1. /\ runs[r].step = "write" /\ archives' = archives \cup {runs[r].file}
        /\ partial' \subseteq partial /\ UNCHANGED <<backups, unsettled, started>>
    BY <1>5, Zenon DEF Publish
  <2>2. runs[r].step # "idle"
    BY <2>1, SMT
  <2>3. runs[r].file \in 1 .. started
    BY <2>2, RunFile, Zenon
  <2>4. archives' \subseteq 1 .. started /\ partial' \subseteq Runs \X (1 .. started)
    BY <1>0, <2>1, <2>3, Zenon
  <2>. QED  BY <1>0, <1>1, <2>1, <2>4, Zenon DEF BackupsWithin, FilesNamed
<1>6. CASE FailArchive(r)
  <2>1. partial' \subseteq partial /\ UNCHANGED <<archives, unsettled>>
    BY <1>6, Zenon DEF FailArchive
  <2>2. backups' = backups \/ SaveFailed(r)
    BY <1>6, Zenon DEF FailArchive
  <2>3. FilesNamed(backups')
    BY <1>0, <2>2, NamedAsFailed, Zenon
  <2>. QED  BY <1>1, <2>1, <2>3, QuietWithin, Zenon
<1>7. CASE Complete(r)
  <2> DEFINE b == runs[r].row
             f == runs[r].file
  <2>1. runs[r].step = "complete" /\ UNCHANGED <<archives, partial, started>>
    BY <1>7, Zenon DEF Complete
  <2>2. runs[r].step # "idle"
    BY <2>1, SMT
  <2>3. f \in 1 .. started
    BY <2>2, RunFile, Zenon
  <2>4. CASE b # NoRow /\ b \notin DOMAIN backups
    <3>1. SaveFailed(r) /\ unsettled' = unsettled
      BY <1>7, <2>4, Zenon DEF Complete
    <3>2. FilesNamed(backups')
      BY <1>0, <3>1, NamedAsFailed, Zenon
    <3>. QED  BY <1>1, <2>1, <3>1, <3>2, QuietWithin, Zenon
  <2>5. CASE ~(b # NoRow /\ b \notin DOMAIN backups)
    <3>1. PICK n : backups' = WithRow(f, Row("completed", f, n)) /\ unsettled' = unsettled \cup {f}
      BY <1>7, <2>5, Zenon DEF Complete
    <3>2. Row("completed", f, n).file \in {NoRow, f}
      BY SMT DEF Row
    <3>5. FilesNamed(WithRow(f, Row("completed", f, n)))
      BY <1>0, <3>2, NamedWithRow
    <3>3. FilesNamed(backups')
      BY <3>1, <3>5, Zenon
    <3>4. unsettled' \subseteq 1 .. started
      BY <1>0, <2>3, <3>1, Zenon
    <3>. QED  BY <1>0, <1>1, <2>1, <3>3, <3>4, Zenon DEF BackupsWithin, FilesNamed
  <2>. QED  BY <2>4, <2>5, Zenon
<1>8. ASSUME NEW b \in 1 .. MaxBackups, Retire(r, b) PROVE BackupsWithin'
  <2>1. backups' = Without(b) /\ UNCHANGED <<partial, unsettled>>
    BY <1>8, Zenon DEF Retire
  <2>2. archives' \subseteq archives
    BY <1>8, Zenon DEF Retire
  <2>3. FilesNamed(backups')
    BY <1>0, <2>1, NamedWithout, Zenon
  <2>. QED  BY <1>1, <2>1, <2>2, <2>3, QuietWithin, Zenon
<1>. QED  BY <1>2, <1>3, <1>4, <1>5, <1>6, <1>7, <1>8, Zenon

LEMMA RemovalsWithin ==
  ASSUME BackupsWithin, (\E b \in 1 .. MaxBackups : RemoveRead(b)) \/ RemoveDone \/ SaveConfig
  PROVE  BackupsWithin'
<1>0. enabled \in BOOLEAN /\ FilesNamed(backups)
  BY Zenon DEF BackupsWithin
<1>1. /\ started' = started /\ deaths' = deaths
      /\ removals' = removals \/ (removals < MaxRemovals /\ removals' = removals + 1)
      /\ enabled' = enabled \/ enabled' = ~enabled
      /\ partial' = partial /\ unsettled' = unsettled
  BY Zenon DEF RemoveRead, RemoveDone, SaveConfig
<1>2. /\ started' \in 0 .. MaxBackups /\ removals' \in 0 .. MaxRemovals
      /\ deaths' \in 0 .. MaxDeaths /\ 1 .. started \subseteq 1 .. started'
  BY <1>1, BackupCounters, Zenon
<1>3. enabled' \in BOOLEAN
  BY <1>0, <1>1, Zenon
<1>4. archives' \subseteq archives /\ FilesNamed(backups')
  <2>1. \/ backups' = backups /\ archives' = archives
        \/ backups' = Without(removal.row) /\ archives' = archives \ {removal.file}
    BY Zenon DEF RemoveRead, RemoveDone, SaveConfig
  <2>2. archives' \subseteq archives
    BY <2>1, Zenon
  <2>3. FilesNamed(backups')
    BY <1>0, <2>1, NamedWithout, Zenon
  <2>. QED  BY <2>2, <2>3
<1>. QED  BY <1>1, <1>2, <1>3, <1>4, QuietWithin, Zenon

\* However runs, deletions and failures interleave: the rows, archives, temporary files
\* and unsettled rows are those of runs that were begun, and a row names its own archive
\* or none.
THEOREM BackupsTypeCorrect == BackupsSpec => []BackupsTypeOK
<1>1. BackupsInit => BackupsWithin
  <2>. SUFFICES ASSUME BackupsInit PROVE BackupsWithin
    OBVIOUS
  <2>1. started \in 0 .. MaxBackups /\ removals \in 0 .. MaxRemovals /\ deaths \in 0 .. MaxDeaths
    BY BackupsCapped, SMT DEF BackupsInit
  <2>2. DOMAIN backups = {}
    BY SMT DEF BackupsInit
  <2>3. FilesNamed(backups)
    BY <2>2, Zenon DEF FilesNamed
  <2>4. enabled \in BOOLEAN /\ partial = {} /\ archives = {} /\ unsettled = {}
    BY Zenon DEF BackupsInit
  <2>. QED  BY <2>1, <2>3, <2>4, Zenon DEF BackupsWithin
<1>2. BackupsInv /\ BackupsWithin /\ [BackupsNext]_backupVars => BackupsWithin'
  <2>. SUFFICES ASSUME BackupsInv, BackupsWithin, [BackupsNext]_backupVars PROVE BackupsWithin'
    OBVIOUS
  <2>1. CASE UNCHANGED backupVars
    BY <2>1, Zenon DEF BackupsWithin, FilesNamed, backupVars
  <2>2. CASE BackupsNext
    BY <2>2, RunsWithin, RemovalsWithin, Zenon DEF BackupsNext
  <2>. QED  BY <2>1, <2>2
<1>3. BackupsInv /\ BackupsWithin => BackupsTypeOK
  <2>. SUFFICES ASSUME BackupsInv, BackupsWithin PROVE BackupsTypeOK
    OBVIOUS
  <2>1. /\ started \in 0 .. MaxBackups /\ DOMAIN backups \subseteq 1 .. started /\ created \in Nat
        /\ runs \in [Runs -> RunRow]
        /\ \A b \in DOMAIN backups : backups[b] \in BackupRow
    BY Zenon DEF BackupsInv, BackupsWithin, RowsApart, RunsApart
  <2>3. \A b \in DOMAIN backups : /\ backups[b].status \in BackupStates
                                  /\ backups[b].file \in {NoRow, b}
    <3>1. \A b \in DOMAIN backups : backups[b].file \in {NoRow, b}
      BY Zenon DEF BackupsWithin, FilesNamed
    <3>. QED  BY <2>1, <3>1, Zenon DEF BackupRow
  <2>4. \A r \in Runs : runs[r].step \in RunAt
    BY <2>1, Zenon DEF RunRow
  <2>. QED  BY <2>1, <2>3, <2>4, Zenon DEF BackupsTypeOK, BackupStates, RunAt, BackupsWithin
<1>. QED  BY <1>1, <1>2, <1>3, BackupsInvInit, BackupsStep, PTL DEF BackupsSpec
=============================================================================
