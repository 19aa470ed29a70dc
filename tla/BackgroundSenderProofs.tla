----------------------- MODULE BackgroundSenderProofs -----------------------
(***************************************************************************)
(* Proofs about BackgroundSender, for every number of callers, every queue *)
(* and batch size and every set of offered items.                          *)
(***************************************************************************)
EXTENDS BackgroundSender, FiniteSetTheorems, TLAPS

-----------------------------------------------------------------------------
(* Counting the entries of a queue *)

(* The positions that CountOf counts. *)
Positions(q, K) == {i \in 1..Len(q) : q[i].kind \in K}

(* CountOf is a natural number: the positions it counts are finitely many.  *)
LEMMA CountIsNat ==
  ASSUME NEW q \in Seq(Items), NEW K
  PROVE  /\ IsFiniteSet(Positions(q, K))
         /\ CountOf(q, K) = Cardinality(Positions(q, K))
         /\ CountOf(q, K) \in Nat
<1>1. IsFiniteSet(1..Len(q))
  BY FS_Interval
<1>2. IsFiniteSet(Positions(q, K))
  BY <1>1, FS_Subset DEF Positions
<1>3. QED
  BY <1>2, FS_CardinalityType DEF CountOf, Positions

(* The empty queue counts nothing. *)
LEMMA CountEmpty ==
  ASSUME NEW K
  PROVE  CountOf(<<>>, K) = 0
<1>1. {i \in 1..Len(<<>>) : <<>>[i].kind \in K} = {}
  OBVIOUS
<1>2. QED
  BY <1>1, FS_EmptySet DEF CountOf

(* Appending an entry adds one to the count of its own kind only. *)
LEMMA CountAppend ==
  ASSUME NEW q \in Seq(Items), NEW item \in Items, NEW K
  PROVE  CountOf(Append(q, item), K) =
           CountOf(q, K) + (IF item.kind \in K THEN 1 ELSE 0)
<1> DEFINE S == Positions(q, K)
           T == Positions(Append(q, item), K)
           m == Len(q) + 1
<1>1. IsFiniteSet(S) /\ CountOf(q, K) = Cardinality(S) /\ CountOf(q, K) \in Nat
  BY CountIsNat
<1>2. Append(q, item) \in Seq(Items)
  OBVIOUS
<1>3. CountOf(Append(q, item), K) = Cardinality(T)
  BY <1>2, CountIsNat
<1>4. m \notin S
  BY DEF Positions
<1>5. CASE item.kind \in K
  <2>1. T = S \cup {m}
    BY <1>5 DEF Positions
  <2>2. QED
    BY <1>1, <1>3, <1>4, <1>5, <2>1, FS_AddElement
<1>6. CASE item.kind \notin K
  <2>1. T = S
    BY <1>6 DEF Positions
  <2>2. QED
    BY <1>1, <1>3, <1>6, <2>1
<1>7. QED
  BY <1>5, <1>6

(* Two finite sets without a common element. *)
LEMMA DisjointCardinality ==
  ASSUME NEW A, NEW B, IsFiniteSet(A), IsFiniteSet(B), A \cap B = {}
  PROVE  Cardinality(A \cup B) = Cardinality(A) + Cardinality(B)
<1>1. Cardinality(A) \in Nat /\ Cardinality(B) \in Nat
  BY FS_CardinalityType
<1>2. Cardinality(A \cap B) = 0
  BY FS_EmptySet
<1>3. Cardinality(A \cup B) = Cardinality(A) + Cardinality(B) - Cardinality(A \cap B)
  BY FS_Union, Zenon
<1>4. QED
  BY <1>1, <1>2, <1>3

(* Removing a head of n entries of one kind takes n off that kind's count.  *)
LEMMA CountDrop ==
  ASSUME NEW q \in Seq(Items), NEW n \in 1..Len(q), NEW kd, NEW K,
         \A i \in 1..n : q[i].kind = kd
  PROVE  CountOf(SubSeq(q, n + 1, Len(q)), K) =
           CountOf(q, K) - (IF kd \in K THEN n ELSE 0)
<1> DEFINE rest == SubSeq(q, n + 1, Len(q))
           S == Positions(q, K)
           A == {i \in 1..n : q[i].kind \in K}
           B == {i \in (n + 1)..Len(q) : q[i].kind \in K}
           T == Positions(rest, K)
<1>1. /\ rest \in Seq(Items)
      /\ Len(rest) = Len(q) - n
      /\ \A i \in 1..Len(rest) : rest[i] = q[i + n]
  OBVIOUS
<1>2. IsFiniteSet(S) /\ CountOf(q, K) = Cardinality(S) /\ CountOf(q, K) \in Nat
  BY CountIsNat
<1>3. IsFiniteSet(T) /\ CountOf(rest, K) = Cardinality(T) /\ CountOf(rest, K) \in Nat
  BY <1>1, CountIsNat
<1>4. S = A \cup B /\ A \cap B = {}
  BY DEF Positions
<1>5. IsFiniteSet(A) /\ IsFiniteSet(B)
  BY <1>2, <1>4, FS_Subset
<1>6. Cardinality(S) = Cardinality(A) + Cardinality(B)
  <2> HIDE DEF S, A, B
  <2>1. QED
    BY <1>4, <1>5, DisjointCardinality
<1>7. Cardinality(A) = IF kd \in K THEN n ELSE 0
  <2>1. CASE kd \in K
    <3>1. A = 1..n
      BY <2>1
    <3>2. n \in Nat \ {0} /\ 1 \in Int /\ n \in Int
      OBVIOUS
    <3>3. Cardinality(1..n) = n
      BY <3>2, FS_Interval
    <3> HIDE DEF A
    <3>4. QED
      BY <2>1, <3>1, <3>3
  <2>2. CASE kd \notin K
    <3>1. A = {}
      BY <2>2
    <3>2. QED
      BY <2>2, <3>1, FS_EmptySet
  <2>3. QED
    BY <2>1, <2>2
<1>8. Cardinality(B) = Cardinality(T)
  <2> DEFINE f == [j \in T |-> j + n]
  <2>1. \A j \in T : j + n \in B
    BY <1>1 DEF Positions
  <2>2. \A b \in B : b - n \in T
    BY <1>1 DEF Positions
  <2>3. f \in Bijection(T, B)
    <3>1. f \in [T -> B]
      BY <2>1
    <3>2. T \subseteq Nat /\ B \subseteq Nat
      BY DEF Positions
    <3>3. f \in Injection(T, B)
      BY <3>1, <3>2 DEF Injection, IsInjective
    <3>4. f \in Surjection(T, B)
      <4>1. ASSUME NEW b \in B PROVE \E j \in T : f[j] = b
        <5>1. b - n \in T /\ f[b - n] = b
          BY <2>2, <3>2
        <5>2. QED
          BY <5>1
      <4>2. QED
        BY <3>1, <4>1 DEF Surjection
    <3>5. QED
      BY <3>3, <3>4 DEF Bijection
  <2>4. ExistsBijection(T, B)
    BY <2>3 DEF ExistsBijection
  <2>5. QED
    BY <1>3, <2>4, FS_Bijection
<1>9. QED
  BY <1>2, <1>3, <1>6, <1>7, <1>8

-----------------------------------------------------------------------------
(* The inductive invariant.  Accounting alone is not inductive: the answer  *)
(* of a POST moves Len(group) items from the queue to a counter, so one     *)
(* needs that the group is still the head of the queue (PostedIsHead), and  *)
(* that the shadow counter it lowers is exact (DataCountExact, which also   *)
(* keeps dataCount a natural number).                                       *)
IInv == TypeOK /\ Accounting /\ DataCountExact /\ PostedIsHead

(* All entries of a request have the kind of its first entry. *)
LEMMA OneRequestOneKind ==
  ASSUME NEW q \in Seq(Items), NEW n, OneRequest(q, n)
  PROVE  \A i \in 1..n : q[i].kind = q[1].kind
BY BatchAssumption DEF OneRequest, Batchable

(* The initial state satisfies the inductive invariant. *)
LEMMA InitIInv == Init => IInv
<1> SUFFICES ASSUME Init PROVE IInv
  OBVIOUS
<1>1. TypeOK
  <2>1. /\ queue \in Seq(Items) /\ log \in Seq(Items) /\ group \in Seq(Items)
        /\ fate \in Seq({"sent", "rejected", "abandoned"})
    BY DEF Init
  <2>2. /\ recorded \in [DataKinds -> Nat]
        /\ sent \in [DataKinds -> Nat]
        /\ dropped \in [DataKinds -> Nat]
        /\ delivered \in [Runs -> [DataKinds -> Nat]]
    BY DEF Init
  <2>3. QED
    BY <2>1, <2>2 DEF Init, TypeOK
<1>2. \A K : CountOf(queue, K) = 0
  BY CountEmpty DEF Init
<1>3. Accounting /\ DataCountExact
  BY <1>2, SenderAssumption DEF Init, Accounting, DataCountExact
<1>4. PostedIsHead
  BY DEF Init, PostedIsHead
<1>5. QED
  BY <1>1, <1>3, <1>4 DEF IInv

(* Steps that leave the queue, the counters and the posted group alone.     *)
LEMMA QuietStep ==
  ASSUME IInv, UNCHANGED <<queueVars, recorded, sent, dropped, group, inFlight, stopped>>,
         pc' \in {"post", "settle"} => pc \in {"post", "settle"}
  PROVE  Accounting' /\ DataCountExact' /\ PostedIsHead'
BY DEF IInv, Accounting, DataCountExact, PostedIsHead, queueVars, CountOf

(* Waking threads keeps the types of their states. *)
LEMMA WakingTypes ==
  ASSUME TypeOK
  PROVE  /\ WokenSender \in {"none", "top", "waiting", "woken", "tick", "take", "post",
                            "settle", "retry", "backoff", "exited"}
         /\ WokenSender \in {"post", "settle"} => pc \in {"post", "settle"}
         /\ WokenCallers \in [Callers -> {"no", "blocked", "woken"}]
BY DEF TypeOK, WokenSender, WokenCallers

(* An item refused because the sender stopped or the queue is full. *)
LEMMA RefuseIInv ==
  ASSUME IInv, NEW kind, RefuseStopped(kind) \/ RefuseFull(kind)
  PROVE  IInv'
<1>1. /\ kind \in DataKinds
      /\ recorded' = Add(recorded, kind, 1)
      /\ dropped' = Add(dropped, kind, 1)
      /\ UNCHANGED <<queueVars, sent, delivered, healthVars, threadVars, callVars,
                     errors, flushNow, stopped>>
  BY DEF RefuseStopped, RefuseFull
<1>2. TypeOK
  BY DEF IInv
<1>3. /\ recorded' \in [DataKinds -> Nat] /\ dropped' \in [DataKinds -> Nat]
      /\ \A k \in DataKinds : /\ recorded'[k] = recorded[k] + (IF k = kind THEN 1 ELSE 0)
                              /\ dropped'[k] = dropped[k] + (IF k = kind THEN 1 ELSE 0)
  <2>1. recorded \in [DataKinds -> Nat] /\ dropped \in [DataKinds -> Nat]
    BY <1>2 DEF TypeOK
  <2>2. QED
    BY <1>1, <2>1 DEF Add
<1>4. TypeOK'
  <2>1. UNCHANGED <<queue, dataCount, log, fate, sent, delivered, everReached, lastFailed,
                    flushTimedOut, pc, group, outcome, inFlight, call, wait, errors,
                    flushNow, stopped>>
    BY <1>1 DEF queueVars, healthVars, threadVars, callVars
  <2>2. QED
    BY <1>2, <1>3, <2>1 DEF TypeOK
<1>5. Accounting'
  <2> SUFFICES ASSUME NEW k \in DataKinds
               PROVE  recorded'[k] = sent'[k] + dropped'[k] + CountOf(queue', {k})
    BY DEF Accounting
  <2>1. sent' = sent /\ queue' = queue
    BY <1>1 DEF queueVars
  <2>2. CountOf(queue, {k}) \in Nat
    BY <1>2, CountIsNat DEF TypeOK
  <2>3. recorded[k] = sent[k] + dropped[k] + CountOf(queue, {k})
    BY DEF IInv, Accounting
  <2>4. recorded[k] \in Nat /\ sent[k] \in Nat /\ dropped[k] \in Nat
    BY <1>2 DEF TypeOK
  <2>5. QED
    BY <1>3, <2>1, <2>2, <2>3, <2>4
<1>6. DataCountExact' /\ PostedIsHead'
  BY <1>1 DEF IInv, DataCountExact, PostedIsHead, queueVars, threadVars, CountOf
<1>7. QED
  BY <1>4, <1>5, <1>6 DEF IInv

(* An item appended to the queue. *)
LEMMA AcceptIInv ==
  ASSUME IInv, NEW kind \in Kinds, NEW run \in Runs, Accept(kind, run)
  PROVE  IInv'
<1> DEFINE item == [kind |-> kind, run |-> run, id |-> Len(log) + 1]
<1>1. TypeOK
  BY DEF IInv
<1>2. item \in Items /\ item.kind = kind
  BY <1>1 DEF TypeOK, Items
<1>3. queue' = Append(queue, item) /\ log' = Append(log, item)
  BY DEF Accept
<1> HIDE DEF item
<1>4. /\ recorded' \in [DataKinds -> Nat]
      /\ \A k \in DataKinds : recorded'[k] = recorded[k] + (IF k = kind THEN 1 ELSE 0)
  <2>1. recorded' = Add(recorded, kind, 1)
    BY DEF Accept
  <2>2. QED
    BY <1>1, <2>1 DEF TypeOK, Add
<1>5. /\ \A K : CountOf(queue', K) = CountOf(queue, K) + (IF kind \in K THEN 1 ELSE 0)
      /\ \A K : CountOf(queue, K) \in Nat
  BY <1>1, <1>2, <1>3, CountAppend, CountIsNat DEF TypeOK
<1>6. dataCount' = dataCount + (IF kind \in DataKinds THEN 1 ELSE 0)
  BY DEF Accept, Weight
<1>7. pc' \in {"post", "settle"} => pc' = pc
  BY <1>1, WakingTypes DEF Accept, WokenSender
<1>8. TypeOK'
  <2>1. queue' \in Seq(Items) /\ log' \in Seq(Items)
    BY <1>1, <1>2, <1>3 DEF TypeOK
  <2>2. dataCount' \in Nat
    BY <1>1, <1>6 DEF TypeOK
  <2>3. /\ pc' \in {"none", "top", "waiting", "woken", "tick", "take", "post",
                    "settle", "retry", "backoff", "exited"}
        /\ wait' \in [Callers -> {"no", "blocked", "woken"}]
    BY <1>1, WakingTypes DEF Accept, TypeOK
  <2>4. UNCHANGED <<fate, sent, delivered, dropped, healthVars, group, outcome,
                   inFlight, call, errors, flushNow, stopped>>
    BY DEF Accept
  <2>5. QED
    BY <1>1, <1>4, <2>1, <2>2, <2>3, <2>4 DEF TypeOK, healthVars
<1>9. Accounting'
  <2> SUFFICES ASSUME NEW k \in DataKinds
               PROVE  recorded'[k] = sent'[k] + dropped'[k] + CountOf(queue', {k})
    BY DEF Accounting
  <2>1. sent' = sent /\ dropped' = dropped
    BY DEF Accept
  <2>2. CountOf(queue', {k}) = CountOf(queue, {k}) + (IF k = kind THEN 1 ELSE 0)
    BY <1>5
  <2>3. recorded[k] = sent[k] + dropped[k] + CountOf(queue, {k})
    BY DEF IInv, Accounting
  <2>4. recorded[k] \in Nat /\ sent[k] \in Nat /\ dropped[k] \in Nat
    BY <1>1 DEF TypeOK
  <2>5. CountOf(queue, {k}) \in Nat
    BY <1>5
  <2>6. QED
    BY <1>4, <2>1, <2>2, <2>3, <2>4, <2>5
<1>10. DataCountExact'
  <2>1. dataCount = CountOf(queue, DataKinds) /\ dataCount <= MaxQueue
    BY DEF IInv, DataCountExact
  <2>2. kind \in DataKinds => dataCount < MaxQueue
    BY DEF Accept
  <2>3. dataCount' = CountOf(queue', DataKinds) /\ dataCount' <= MaxQueue
    BY <1>1, <1>5, <1>6, <2>1, <2>2, SenderAssumption DEF TypeOK
  <2>4. QED
    BY <2>3 DEF DataCountExact
<1>11. PostedIsHead'
  <2> SUFFICES ASSUME pc' \in {"post", "settle"}
               PROVE  /\ inFlight' /\ OneRequest(group', Len(group'))
                      /\ ~stopped' => /\ Len(group') <= Len(queue')
                                      /\ group' = SubSeq(queue', 1, Len(group'))
    BY DEF PostedIsHead
  <2>1. /\ inFlight /\ OneRequest(group, Len(group))
        /\ ~stopped => Len(group) <= Len(queue) /\ group = SubSeq(queue, 1, Len(group))
    BY <1>7 DEF IInv, PostedIsHead
  <2>2. inFlight' = inFlight /\ group' = group /\ stopped' = stopped
    BY DEF Accept
  <2>3. Len(group) <= Len(queue) =>
          /\ Len(group) <= Len(queue')
          /\ SubSeq(queue', 1, Len(group)) = SubSeq(queue, 1, Len(group))
    BY <1>1, <1>2, <1>3 DEF TypeOK
  <2>4. QED
    BY <2>1, <2>2, <2>3
<1>12. QED
  BY <1>8, <1>9, <1>10, <1>11 DEF IInv

(* shutdown() discards the queue and counts its data items as dropped. *)
LEMMA StopIInv ==
  ASSUME IInv, NEW c \in Callers, Stop(c)
  PROVE  IInv'
<1>1. TypeOK
  BY DEF IInv
<1>2. /\ stopped' = TRUE /\ queue' = <<>> /\ dataCount' = 0
      /\ dropped' = [k \in DataKinds |-> dropped[k] + CountOf(queue, {k})]
      /\ fate' = fate \o [i \in 1..Len(queue) |-> "abandoned"]
      /\ pc' = WokenSender /\ wait' = WokenCallers
      /\ call' = [call EXCEPT ![c] = "idle"]
      /\ UNCHANGED <<log, recorded, sent, delivered, healthVars, group, outcome,
                     inFlight, errors, flushNow>>
  BY DEF Stop, Discarded
<1>3. \A K : CountOf(queue, K) \in Nat
  BY <1>1, CountIsNat DEF TypeOK
<1>4. \A K : CountOf(queue', K) = 0
  BY <1>2, CountEmpty
<1>5. TypeOK'
  <2>1. queue' \in Seq(Items)
    BY <1>2
  <2>2. fate' \in Seq({"sent", "rejected", "abandoned"})
    <3> DEFINE F == {"sent", "rejected", "abandoned"}
               tail == [i \in 1..Len(queue) |-> "abandoned"]
    <3>1. Len(queue) \in Nat
      BY <1>1 DEF TypeOK
    <3>2. tail \in Seq(F)
      BY <3>1
    <3>3. fate \in Seq(F)
      BY <1>1 DEF TypeOK
    <3>4. fate' = fate \o tail
      BY <1>2
    <3> HIDE DEF F, tail
    <3>5. fate \o tail \in Seq(F)
      BY <3>2, <3>3
    <3>6. QED
      BY <3>4, <3>5 DEF F
  <2>3. dropped' \in [DataKinds -> Nat]
    BY <1>1, <1>2, <1>3 DEF TypeOK
  <2>4. call' \in [Callers -> {"idle", "flush", "looked", "shutdown", "stop"}]
    BY <1>1, <1>2 DEF TypeOK
  <2>5. /\ pc' \in {"none", "top", "waiting", "woken", "tick", "take", "post",
                    "settle", "retry", "backoff", "exited"}
        /\ wait' \in [Callers -> {"no", "blocked", "woken"}]
    BY <1>1, <1>2, WakingTypes
  <2>6. QED
    BY <1>1, <1>2, <2>1, <2>2, <2>3, <2>4, <2>5 DEF TypeOK, healthVars
<1>6. Accounting'
  <2> SUFFICES ASSUME NEW k \in DataKinds
               PROVE  recorded'[k] = sent'[k] + dropped'[k] + CountOf(queue', {k})
    BY DEF Accounting
  <2>1. recorded[k] = sent[k] + dropped[k] + CountOf(queue, {k})
    BY DEF IInv, Accounting
  <2>2. recorded[k] \in Nat /\ sent[k] \in Nat /\ dropped[k] \in Nat
    BY <1>1 DEF TypeOK
  <2>3. dropped'[k] = dropped[k] + CountOf(queue, {k})
    BY <1>2
  <2>4. recorded' = recorded /\ sent' = sent
    BY <1>2
  <2>5. CountOf(queue, {k}) \in Nat /\ CountOf(queue', {k}) = 0
    BY <1>3, <1>4
  <2>6. QED
    BY <2>1, <2>2, <2>3, <2>4, <2>5
<1>7. DataCountExact'
  BY <1>2, <1>4, SenderAssumption DEF DataCountExact
<1>8. PostedIsHead'
  BY <1>1, <1>2, WakingTypes DEF IInv, PostedIsHead
<1>9. QED
  BY <1>5, <1>6, <1>7, <1>8 DEF IInv

(* A group leaves for the service: it is the head of the queue. *)
LEMMA TakeGroupIInv ==
  ASSUME IInv, TakeGroup
  PROVE  IInv'
<1>1. TypeOK
  BY DEF IInv
<1>2. PICK n \in 1..Len(queue) : IsGroup(queue, n) /\ group' = SubSeq(queue, 1, n)
  BY DEF TakeGroup
<1>3. /\ inFlight' = TRUE /\ pc' = "post"
      /\ UNCHANGED <<queueVars, countVars, healthVars, outcome, callVars, errors,
                     flushNow, stopped>>
  BY DEF TakeGroup
<1>4. /\ Len(queue) \in Nat /\ queue \in Seq(Items)
      /\ group' \in Seq(Items) /\ Len(group') = n
      /\ \A i \in 1..n : group'[i] = queue[i]
  BY <1>1, <1>2 DEF TypeOK
<1>5. TypeOK'
  BY <1>1, <1>3, <1>4 DEF TypeOK, queueVars, countVars, healthVars, callVars
<1>6. OneRequest(group', Len(group'))
  BY <1>2, <1>4, BatchAssumption DEF IsGroup, OneRequest
<1>7. PostedIsHead'
  BY <1>2, <1>3, <1>4, <1>6 DEF PostedIsHead, queueVars
<1>8. Accounting' /\ DataCountExact'
  BY <1>3 DEF IInv, Accounting, DataCountExact, queueVars, countVars, CountOf
<1>9. QED
  BY <1>5, <1>7, <1>8 DEF IInv

(* The answer of a POST changes no counter of stats() yet. *)
LEMMA PostIInv ==
  ASSUME IInv, NEW answer \in Answers, Post(answer)
  PROVE  IInv'
<1>1. TypeOK
  BY DEF IInv
<1>2. outcome' \in {"none", "ok", "retry", "dropped"}
  BY DEF Post, Verdict
<1>3. errors' \in [send : Nat, internal : Nat]
  <2>1. errors \in [send : Nat, internal : Nat]
    BY <1>1 DEF TypeOK
  <2>2. \/ errors' = errors
        \/ errors' = [errors EXCEPT !.internal = errors.internal + 1]
        \/ errors' = [errors EXCEPT !.send = errors.send + 1]
    BY DEF Post
  <2>3. QED
    BY <2>1, <2>2
<1>4. /\ pc = "post" /\ pc' = "settle"
      /\ UNCHANGED <<queueVars, countVars, healthVars, group, inFlight, callVars,
                     flushNow, stopped>>
  BY DEF Post
<1>5. TypeOK'
  BY <1>1, <1>2, <1>3, <1>4 DEF TypeOK, queueVars, countVars, healthVars, callVars
<1>6. Accounting' /\ DataCountExact' /\ PostedIsHead'
  BY <1>4, QuietStep DEF countVars
<1>7. QED
  BY <1>5, <1>6 DEF IInv

(* A decided answer moves the group from the queue to "sent" or "dropped".  *)
LEMMA SettleDecidedIInv ==
  ASSUME IInv, SettleDecided
  PROVE  IInv'
<1> DEFINE kind == group[1].kind
           n == Len(group)
<1>1. TypeOK /\ pc = "settle" /\ ~stopped
  BY DEF IInv, SettleDecided, Settled, AccountedFor
<1>2. /\ n \in 1..Len(queue) /\ OneRequest(group, n) /\ group = SubSeq(queue, 1, n)
      /\ group[1] \in Items
  BY <1>1 DEF IInv, PostedIsHead, OneRequest, TypeOK
<1>3. \A i \in 1..n : queue[i].kind = kind
  <2>1. \A i \in 1..n : group[i].kind = kind
    BY <1>1, <1>2, OneRequestOneKind DEF TypeOK
  <2>2. \A i \in 1..n : group[i] = queue[i]
    BY <1>1, <1>2 DEF TypeOK
  <2>3. QED
    BY <2>1, <2>2
<1>4. queue' = SubSeq(queue, n + 1, Len(queue))
  BY DEF SettleDecided
<1>5. /\ \A K : CountOf(queue', K) = CountOf(queue, K) - (IF kind \in K THEN n ELSE 0)
      /\ \A K : CountOf(queue, K) \in Nat
      /\ \A K : CountOf(queue', K) \in Nat
  <2>1. queue \in Seq(Items) /\ queue' \in Seq(Items)
    BY <1>1, <1>2, <1>4 DEF TypeOK
  <2> HIDE DEF kind, n
  <2>2. ASSUME NEW K
        PROVE  CountOf(SubSeq(queue, n + 1, Len(queue)), K) =
                 CountOf(queue, K) - (IF kind \in K THEN n ELSE 0)
    BY <1>2, <1>3, <2>1, CountDrop
  <2>3. \A K : CountOf(queue, K) \in Nat /\ CountOf(queue', K) \in Nat
    BY <2>1, CountIsNat
  <2>4. QED
    BY <1>4, <2>2, <2>3
<1>6. dataCount' = dataCount - (IF kind \in DataKinds THEN n ELSE 0)
  BY DEF SettleDecided, Weight
<1>7. kind \in Kinds /\ group[1].run \in Runs /\ n \in Nat
  BY <1>1, <1>2 DEF Items, TypeOK
<1>8. /\ sent' = IF outcome = "ok" THEN Add(sent, kind, n) ELSE sent
      /\ dropped' = IF outcome = "ok" THEN dropped ELSE Add(dropped, kind, n)
      /\ delivered' = Credit(outcome, group[1].run, kind, n)
      /\ fate' = fate \o [i \in 1..n |-> IF outcome = "ok" THEN "sent" ELSE "rejected"]
      /\ inFlight' = FALSE /\ wait' = WokenCallers /\ group' = <<>> /\ outcome' = "none"
      /\ everReached' = TRUE /\ lastFailed' = FALSE /\ flushTimedOut' = FALSE
      /\ pc' = "take"
      /\ UNCHANGED <<recorded, log, call, errors, flushNow, stopped>>
  BY DEF SettleDecided, Settled
<1> HIDE DEF kind, n
<1>9. /\ sent' \in [DataKinds -> Nat] /\ dropped' \in [DataKinds -> Nat]
      /\ \A k \in DataKinds :
           sent'[k] + dropped'[k] = sent[k] + dropped[k] + (IF k = kind THEN n ELSE 0)
  <2>1. sent \in [DataKinds -> Nat] /\ dropped \in [DataKinds -> Nat]
    BY <1>1 DEF TypeOK
  <2>2. CASE outcome = "ok"
    <3>1. sent' = Add(sent, kind, n) /\ dropped' = dropped
      BY <1>8, <2>2
    <3>2. QED
      BY <1>7, <2>1, <3>1 DEF Add
  <2>3. CASE outcome # "ok"
    <3>1. sent' = sent /\ dropped' = Add(dropped, kind, n)
      BY <1>8, <2>3
    <3>2. QED
      BY <1>7, <2>1, <3>1 DEF Add
  <2>4. QED
    BY <2>2, <2>3
<1>10. DataCountExact'
  <2>1. dataCount = CountOf(queue, DataKinds) /\ dataCount <= MaxQueue
    BY DEF IInv, DataCountExact
  <2>2. dataCount' = CountOf(queue', DataKinds) /\ dataCount' <= MaxQueue
    BY <1>1, <1>5, <1>6, <1>7, <2>1, SenderAssumption DEF TypeOK
  <2>3. QED
    BY <2>2 DEF DataCountExact
<1>11. Accounting'
  <2> SUFFICES ASSUME NEW k \in DataKinds
               PROVE  recorded'[k] = sent'[k] + dropped'[k] + CountOf(queue', {k})
    BY DEF Accounting
  <2>1. recorded[k] = sent[k] + dropped[k] + CountOf(queue, {k})
    BY DEF IInv, Accounting
  <2>2. recorded[k] \in Nat /\ sent[k] \in Nat /\ dropped[k] \in Nat
    BY <1>1 DEF TypeOK
  <2>3. sent'[k] \in Nat /\ dropped'[k] \in Nat
    BY <1>9
  <2>4. /\ CountOf(queue', {k}) = CountOf(queue, {k}) - (IF k = kind THEN n ELSE 0)
        /\ CountOf(queue, {k}) \in Nat /\ CountOf(queue', {k}) \in Nat
    BY <1>5
  <2>5. sent'[k] + dropped'[k] = sent[k] + dropped[k] + (IF k = kind THEN n ELSE 0)
    BY <1>9
  <2>6. recorded' = recorded
    BY <1>8
  <2>7. QED
    BY <1>7, <2>1, <2>2, <2>3, <2>4, <2>5, <2>6
<1>12. TypeOK'
  <2>1. queue' \in Seq(Items) /\ group' \in Seq(Items)
    BY <1>1, <1>2, <1>4, <1>8 DEF TypeOK
  <2>2. dataCount' \in Nat
    BY <1>5, <1>10 DEF DataCountExact
  <2>3. fate' \in Seq({"sent", "rejected", "abandoned"})
    <3> DEFINE F == {"sent", "rejected", "abandoned"}
               tail == [i \in 1..n |-> IF outcome = "ok" THEN "sent" ELSE "rejected"]
    <3>1. tail \in Seq(F)
      BY <1>7
    <3>2. fate \in Seq(F)
      BY <1>1 DEF TypeOK
    <3>3. fate' = fate \o tail
      BY <1>8
    <3> HIDE DEF F, tail
    <3>4. fate \o tail \in Seq(F)
      BY <3>1, <3>2
    <3>5. QED
      BY <3>3, <3>4 DEF F
  <2>4. delivered' \in [Runs -> [DataKinds -> Nat]]
    <3>1. delivered[group[1].run] \in [DataKinds -> Nat]
      BY <1>1, <1>7 DEF TypeOK
    <3>2. Add(delivered[group[1].run], kind, n) \in [DataKinds -> Nat]
      BY <1>7, <3>1 DEF Add
    <3>3. QED
      BY <1>1, <1>7, <1>8, <3>2 DEF TypeOK, Credit
  <2>5. wait' \in [Callers -> {"no", "blocked", "woken"}]
    BY <1>1, <1>8, WakingTypes
  <2>6. QED
    BY <1>1, <1>8, <1>9, <2>1, <2>2, <2>3, <2>4, <2>5 DEF TypeOK
<1>13. PostedIsHead'
  BY <1>8 DEF PostedIsHead
<1>14. QED
  BY <1>10, <1>11, <1>12, <1>13 DEF IInv

(* The other two answers: nothing is counted, the group is forgotten. *)
LEMMA SettleOtherIInv ==
  ASSUME IInv, SettleStopped \/ SettleRetry
  PROVE  IInv'
<1>1. TypeOK
  BY DEF IInv
<1>2. /\ UNCHANGED <<queueVars, countVars, everReached, flushTimedOut, call, errors,
                     flushNow, stopped>>
      /\ inFlight' = FALSE /\ wait' = WokenCallers /\ group' = <<>> /\ outcome' = "none"
      /\ lastFailed' \in {lastFailed, TRUE} /\ pc' \in {"exited", "retry"}
  BY DEF SettleStopped, SettleRetry, Settled, queueVars, countVars, healthVars
<1>3. TypeOK'
  <2>1. wait' \in [Callers -> {"no", "blocked", "woken"}]
    BY <1>1, <1>2, WakingTypes
  <2>2. group' \in Seq(Items)
    BY <1>2
  <2>3. QED
    BY <1>1, <1>2, <2>1, <2>2 DEF TypeOK, queueVars, countVars
<1>4. Accounting' /\ DataCountExact'
  BY <1>2 DEF IInv, Accounting, DataCountExact, queueVars, countVars, CountOf
<1>5. PostedIsHead'
  BY <1>2 DEF PostedIsHead
<1>6. QED
  BY <1>3, <1>4, <1>5 DEF IInv

(* flush() and the bookkeeping of its callers. *)
LEMMA CallIInv ==
  ASSUME IInv, NEW c \in Callers,
         Flush(c) \/ Shutdown(c) \/ Recheck(c) \/ Deadline(c)
  PROVE  IInv'
<1>1. TypeOK
  BY DEF IInv
<1>2. /\ UNCHANGED <<queueVars, countVars, everReached, lastFailed, group, outcome,
                     inFlight, errors, stopped>>
      /\ pc' \in {pc, WokenSender}
  BY DEF Flush, Shutdown, StartFlush, LookStopped, Recheck, Deadline, healthVars, threadVars
<1>3. flushNow' \in BOOLEAN /\ flushTimedOut' \in BOOLEAN
  BY <1>1 DEF Flush, Shutdown, StartFlush, LookStopped, Recheck, Deadline, healthVars, TypeOK
<1>4. /\ wait' \in [Callers -> {"no", "blocked", "woken"}]
      /\ call' \in [Callers -> {"idle", "flush", "looked", "shutdown", "stop"}]
  BY <1>1, WakingTypes
     DEF Flush, Shutdown, StartFlush, LookStopped, Recheck, Deadline, Return, TypeOK
<1>5. TypeOK'
  BY <1>1, <1>2, <1>3, <1>4, WakingTypes DEF TypeOK, queueVars, countVars
<1>6. Accounting' /\ DataCountExact' /\ PostedIsHead'
  BY <1>1, <1>2, QuietStep, WakingTypes DEF countVars
<1>7. QED
  BY <1>5, <1>6 DEF IInv

(* The steps by which the sender thread only moves on. *)
LEMMA MoveIInv ==
  ASSUME IInv,
         Sleep \/ Interval \/ Start \/ Exit \/ Tick \/ NothingToTake \/ BackOff \/ BackOffOver
  PROVE  IInv'
<1>1. TypeOK
  BY DEF IInv
<1>2. /\ UNCHANGED <<queueVars, countVars, healthVars, group, outcome, inFlight, call,
                     errors, stopped>>
      /\ pc' \in {"top", "waiting", "woken", "tick", "take", "backoff", "exited"}
      /\ flushNow' \in {flushNow, FALSE}
      /\ wait' \in {wait, WokenCallers}
  BY DEF Sleep, Interval, Start, Exit, Tick, NothingToTake, BackOff, BackOffOver, callVars
<1>3. TypeOK'
  <2>1. wait' \in [Callers -> {"no", "blocked", "woken"}]
    BY <1>1, <1>2, WakingTypes DEF TypeOK
  <2>2. flushNow' \in BOOLEAN
    BY <1>1, <1>2 DEF TypeOK
  <2>3. UNCHANGED <<queue, dataCount, log, fate, recorded, sent, delivered, dropped,
                   everReached, lastFailed, flushTimedOut>>
    BY <1>2 DEF queueVars, countVars, healthVars
  <2>4. QED
    BY <1>1, <1>2, <2>1, <2>2, <2>3 DEF TypeOK
<1>4. Accounting' /\ DataCountExact' /\ PostedIsHead'
  BY <1>2, QuietStep DEF countVars
<1>5. QED
  BY <1>3, <1>4 DEF IInv

(* Every step preserves the inductive invariant. *)
LEMMA NextIInv == IInv /\ [Next]_vars => IInv'
<1> SUFFICES ASSUME IInv, [Next]_vars PROVE IInv'
  OBVIOUS
<1>1. ASSUME NEW offer \in Offered, Enqueue(offer[1], offer[2]) PROVE IInv'
  <2>1. offer[1] \in Kinds /\ offer[2] \in Runs
    BY SenderAssumption
  <2>2. QED
    BY <1>1, <2>1, RefuseIInv, AcceptIInv DEF Enqueue
<1>2. ASSUME NEW c \in Callers, Flush(c) \/ Shutdown(c) \/ Recheck(c) \/ Deadline(c)
      PROVE  IInv'
  BY <1>2, CallIInv
<1>3. ASSUME NEW c \in Callers, Stop(c) PROVE IInv'
  BY <1>3, StopIInv
<1>4. CASE SenderThread
  BY <1>4, MoveIInv, TakeGroupIInv, SettleOtherIInv, SettleDecidedIInv DEF SenderThread, Settle
<1>5. CASE Interval
  BY <1>5, MoveIInv
<1>6. ASSUME NEW answer \in Answers, Post(answer) PROVE IInv'
  BY <1>6, PostIInv
<1>7. CASE UNCHANGED vars
  <2>1. TypeOK'
    BY <1>7 DEF IInv, TypeOK, vars, queueVars, countVars, healthVars, threadVars, callVars
  <2>2. Accounting' /\ DataCountExact' /\ PostedIsHead'
    BY <1>7, QuietStep DEF vars, countVars, threadVars
  <2>3. QED
    BY <2>1, <2>2 DEF IInv
<1>8. QED
  BY <1>1, <1>2, <1>3, <1>4, <1>5, <1>6, <1>7 DEF Next

-----------------------------------------------------------------------------

(* The inductive invariant holds in every reachable state. *)
THEOREM Invariance == Spec => []IInv
BY InitIInv, NextIInv, PTL DEF Spec

(* Type correctness: no counter of the sender ever goes below zero. *)
THEOREM TypeCorrect == Spec => []TypeOK
<1>1. IInv => TypeOK
  BY DEF IInv
<1>2. QED
  BY <1>1, Invariance, PTL

(* stats() adds up: every item handed to enqueue is sent, dropped or still  *)
(* queued, whatever overflows, retries, rejections and shutdowns happen;    *)
(* the shadow counter is exact, and the queue is bounded by max_queue.      *)
THEOREM CountsHold == Spec => []CountsAreExact
<1>1. IInv => CountsAreExact
  BY DEF IInv, CountsAreExact
<1>2. QED
  BY <1>1, Invariance, PTL

(* The items of a POST stay at the head of the queue until its answer is    *)
(* settled, although the lock is free in between.                           *)
THEOREM PostedStaysHead == Spec => []PostedIsHead
<1>1. IInv => PostedIsHead
  BY DEF IInv
<1>2. QED
  BY <1>1, Invariance, PTL

-----------------------------------------------------------------------------
(* Nothing is lost, duplicated or overtaken *)

(* The elements of a part of a sequence. *)
LEMMA PartOf ==
  ASSUME NEW s \in Seq(Items), NEW f \in 0..Len(s)
  PROVE  /\ SubSeq(s, f + 1, Len(s)) \in Seq(Items)
         /\ Len(SubSeq(s, f + 1, Len(s))) = Len(s) - f
         /\ \A i \in 1..Len(SubSeq(s, f + 1, Len(s))) : SubSeq(s, f + 1, Len(s))[i] = s[i + f]
OBVIOUS

(* Extending the history of fates. *)
FateSet == {"sent", "rejected", "abandoned"}
LEMMA LongerFate ==
  ASSUME NEW s \in Seq(FateSet), NEW t \in Seq(FateSet)
  PROVE  s \o t \in Seq(FateSet) /\ Len(s \o t) = Len(s) + Len(t)
OBVIOUS

(* Removing the head of a suffix leaves a shorter suffix. *)
LEMMA SuffixOfSuffix ==
  ASSUME NEW s \in Seq(Items), NEW f \in 0..Len(s), NEW n \in 0..(Len(s) - f)
  PROVE  LET q == SubSeq(s, f + 1, Len(s))
         IN  SubSeq(q, n + 1, Len(q)) = SubSeq(s, f + n + 1, Len(s))
<1> DEFINE q == SubSeq(s, f + 1, Len(s))
           a == SubSeq(q, n + 1, Len(q))
           b == SubSeq(s, f + n + 1, Len(s))
<1>1. q \in Seq(Items) /\ Len(q) = Len(s) - f /\ \A i \in 1..Len(q) : q[i] = s[i + f]
  OBVIOUS
<1>2. b \in Seq(Items) /\ Len(b) = Len(s) - f - n /\ \A i \in 1..Len(b) : b[i] = s[i + f + n]
  OBVIOUS
<1>3. a \in Seq(Items) /\ Len(a) = Len(q) - n /\ \A i \in 1..Len(a) : a[i] = q[i + n]
  <2> HIDE DEF q
  <2>1. n \in 0..Len(q)
    BY <1>1
  <2>2. QED
    BY <1>1, <2>1, PartOf, Zenon
<1> HIDE DEF q, a, b
<1>4. Len(a) = Len(b) /\ \A i \in 1..Len(a) : a[i] = b[i]
  BY <1>1, <1>2, <1>3
<1>5. a = b
  BY <1>2, <1>3, <1>4
<1>6. QED
  BY <1>5 DEF a, b, q

(* Appending to a sequence appends to its suffixes. *)
LEMMA SuffixOfAppend ==
  ASSUME NEW s \in Seq(Items), NEW item \in Items, NEW f \in 0..Len(s)
  PROVE  SubSeq(Append(s, item), f + 1, Len(Append(s, item))) =
           Append(SubSeq(s, f + 1, Len(s)), item)
<1> DEFINE a == SubSeq(Append(s, item), f + 1, Len(s) + 1)
           b == Append(SubSeq(s, f + 1, Len(s)), item)
<1>1. Append(s, item) \in Seq(Items) /\ Len(Append(s, item)) = Len(s) + 1
  OBVIOUS
<1>2. a \in Seq(Items) /\ Len(a) = Len(s) + 1 - f /\ \A i \in 1..Len(a) : a[i] = Append(s, item)[i + f]
  <2> DEFINE t == Append(s, item)
  <2>1. t \in Seq(Items) /\ Len(t) = Len(s) + 1
    OBVIOUS
  <2> HIDE DEF t
  <2>2. /\ SubSeq(t, f + 1, Len(t)) \in Seq(Items)
        /\ Len(SubSeq(t, f + 1, Len(t))) = Len(t) - f
        /\ \A i \in 1..Len(SubSeq(t, f + 1, Len(t))) : SubSeq(t, f + 1, Len(t))[i] = t[i + f]
    <3>1. f \in 0..Len(t)
      BY <2>1
    <3>2. QED
      BY <2>1, <3>1, PartOf, Zenon
  <2>3. a = SubSeq(t, f + 1, Len(t))
    BY <2>1 DEF t
  <2> HIDE DEF a
  <2>4. a \in Seq(Items) /\ Len(a) = Len(s) + 1 - f /\ \A i \in 1..Len(a) : a[i] = t[i + f]
    BY <2>1, <2>2, <2>3
  <2>5. QED
    BY <2>4 DEF t
<1>3. b \in Seq(Items) /\ Len(b) = Len(s) + 1 - f
      /\ \A i \in 1..Len(b) : b[i] = IF i = Len(b) THEN item ELSE s[i + f]
  OBVIOUS
<1>4. \A i \in 1..(Len(s) + 1) : Append(s, item)[i] = IF i = Len(s) + 1 THEN item ELSE s[i]
  OBVIOUS
<1>5. a = b
  <2> HIDE DEF a, b
  <2>1. \A i \in 1..Len(a) : a[i] = b[i]
    BY <1>2, <1>3, <1>4
  <2>2. QED
    BY <1>2, <1>3, <2>1
<1>6. QED
  BY <1>1, <1>5

(* The history of the queue is part of an invariant with IInv: it is the    *)
(* head of the queue that a decided answer removes.                         *)
HInv == IInv /\ QueueIsUndecided

LEMMA InitHInv == Init => HInv
<1> SUFFICES ASSUME Init PROVE QueueIsUndecided
  BY InitIInv DEF HInv
<1>1. queue = <<>> /\ log = <<>> /\ fate = <<>>
  BY DEF Init
<1>2. QED
  BY <1>1 DEF QueueIsUndecided

(* The three steps that touch the queue keep it equal to the undecided part *)
(* of the log.                                                              *)
LEMMA AcceptHInv ==
  ASSUME HInv, NEW kind \in Kinds, NEW run \in Runs, Accept(kind, run)
  PROVE  QueueIsUndecided'
<1> DEFINE item == [kind |-> kind, run |-> run, id |-> Len(log) + 1]
<1>1. TypeOK /\ Len(fate) <= Len(log) /\ queue = SubSeq(log, Len(fate) + 1, Len(log))
  BY DEF HInv, IInv, QueueIsUndecided
<1>2. log \in Seq(Items) /\ Len(fate) \in 0..Len(log)
  BY <1>1 DEF TypeOK
<1>3. item \in Items
  BY <1>2 DEF Items
<1>4. queue' = Append(queue, item) /\ log' = Append(log, item) /\ fate' = fate
  BY DEF Accept
<1> HIDE DEF item
<1>5. queue' = SubSeq(log', Len(fate') + 1, Len(log'))
  BY <1>1, <1>2, <1>3, <1>4, SuffixOfAppend
<1>6. Len(fate') <= Len(log')
  BY <1>2, <1>3, <1>4
<1>7. QED
  BY <1>5, <1>6 DEF QueueIsUndecided

LEMMA StopHInv ==
  ASSUME HInv, NEW c \in Callers, Stop(c)
  PROVE  QueueIsUndecided'
<1>1. TypeOK /\ Len(fate) <= Len(log) /\ queue = SubSeq(log, Len(fate) + 1, Len(log))
  BY DEF HInv, IInv, QueueIsUndecided
<1>2. queue' = <<>> /\ log' = log /\ fate' = fate \o [i \in 1..Len(queue) |-> "abandoned"]
  BY DEF Stop
<1>3. Len(queue) = Len(log) - Len(fate) /\ Len(log) \in Nat /\ Len(fate) \in Nat
  BY <1>1 DEF TypeOK
<1>4. Len(fate') = Len(log)
  <2> DEFINE tail == [i \in 1..Len(queue) |-> "abandoned"]
  <2>1. tail \in Seq(FateSet) /\ Len(tail) = Len(queue)
    BY <1>3 DEF FateSet
  <2>2. fate \in Seq(FateSet)
    BY <1>1 DEF TypeOK, FateSet
  <2> HIDE DEF tail
  <2>3. Len(fate \o tail) = Len(fate) + Len(tail)
    BY <2>1, <2>2, LongerFate, Zenon
  <2>4. QED
    BY <1>2, <1>3, <2>1, <2>3 DEF tail
<1>5. SubSeq(log, Len(log) + 1, Len(log)) = <<>>
  BY <1>1, <1>3 DEF TypeOK
<1>6. QED
  BY <1>2, <1>3, <1>4, <1>5 DEF QueueIsUndecided

LEMMA SettleHInv ==
  ASSUME HInv, SettleDecided
  PROVE  QueueIsUndecided'
<1> DEFINE n == Len(group)
           tail == [i \in 1..n |-> IF outcome = "ok" THEN "sent" ELSE "rejected"]
<1>1. TypeOK /\ Len(fate) <= Len(log) /\ queue = SubSeq(log, Len(fate) + 1, Len(log))
  BY DEF HInv, IInv, QueueIsUndecided
<1>2. n \in 1..Len(queue)
  BY <1>1 DEF HInv, IInv, PostedIsHead, OneRequest, TypeOK, SettleDecided, Settled, AccountedFor
<1>3. queue' = SubSeq(queue, n + 1, Len(queue)) /\ log' = log /\ fate' = fate \o tail
  BY DEF SettleDecided, Settled
<1>4. /\ log \in Seq(Items) /\ Len(log) \in Nat /\ Len(fate) \in 0..Len(log)
      /\ Len(queue) = Len(log) - Len(fate)
  BY <1>1 DEF TypeOK
<1>5. tail \in Seq(FateSet) /\ Len(tail) = n
  BY <1>2, <1>4 DEF FateSet
<1> HIDE DEF tail, n
<1>6. Len(fate') = Len(fate) + n
  <2>1. fate \in Seq(FateSet)
    BY <1>1 DEF TypeOK, FateSet
  <2>2. Len(fate \o tail) = Len(fate) + Len(tail)
    BY <1>5, <2>1, LongerFate, Zenon
  <2>3. QED
    BY <1>3, <1>5, <2>2
<1>7. SubSeq(queue, n + 1, Len(queue)) = SubSeq(log, Len(fate) + n + 1, Len(log))
  BY <1>1, <1>2, <1>4, SuffixOfSuffix
<1>8. QED
  BY <1>2, <1>3, <1>4, <1>6, <1>7 DEF QueueIsUndecided

LEMMA NextHInv == HInv /\ [Next]_vars => HInv'
<1> SUFFICES ASSUME HInv, [Next]_vars PROVE QueueIsUndecided'
  BY NextIInv DEF HInv
<1>1. ASSUME UNCHANGED queueVars PROVE QueueIsUndecided'
  BY <1>1 DEF HInv, QueueIsUndecided, queueVars
<1>2. ASSUME NEW offer \in Offered, Enqueue(offer[1], offer[2]) PROVE QueueIsUndecided'
  <2>1. offer[1] \in Kinds /\ offer[2] \in Runs
    BY SenderAssumption
  <2>2. CASE RefuseStopped(offer[1]) \/ RefuseFull(offer[1])
    BY <1>1, <2>2 DEF RefuseStopped, RefuseFull
  <2>3. CASE Accept(offer[1], offer[2])
    BY <2>1, <2>3, AcceptHInv
  <2>4. QED
    BY <1>2, <2>2, <2>3 DEF Enqueue
<1>3. ASSUME NEW c \in Callers, Flush(c) \/ Shutdown(c) \/ Recheck(c) \/ Deadline(c)
      PROVE  QueueIsUndecided'
  BY <1>1, <1>3 DEF Flush, Shutdown, StartFlush, LookStopped, Recheck, Deadline
<1>4. ASSUME NEW c \in Callers, Stop(c) PROVE QueueIsUndecided'
  BY <1>4, StopHInv
<1>5. CASE SettleDecided
  BY <1>5, SettleHInv
<1>6. CASE SettleStopped \/ SettleRetry
  BY <1>1, <1>6 DEF SettleStopped, SettleRetry, Settled, queueVars
<1>7. CASE \/ Sleep \/ Start \/ Exit \/ Tick \/ TakeGroup \/ NothingToTake \/ BackOff
           \/ BackOffOver \/ Interval
  BY <1>1, <1>7 DEF Sleep, Start, Exit, Tick, TakeGroup, NothingToTake, BackOff,
                    BackOffOver, Interval
<1>8. ASSUME NEW answer \in Answers, Post(answer) PROVE QueueIsUndecided'
  BY <1>1, <1>8 DEF Post
<1>9. CASE UNCHANGED vars
  BY <1>1, <1>9 DEF vars
<1>10. QED
  BY <1>2, <1>3, <1>4, <1>5, <1>6, <1>7, <1>8, <1>9 DEF Next, SenderThread, Settle

(* The queue is at every moment the accepted items without a fate, in the   *)
(* order in which enqueue accepted them.                                    *)
THEOREM NothingLostOrOvertaken == Spec => []QueueIsUndecided
<1>1. HInv => QueueIsUndecided
  BY DEF HInv
<1>2. QED
  BY <1>1, InitHInv, NextHInv, PTL DEF Spec

-----------------------------------------------------------------------------
(* The sender implements the delivery log *)

(* The queue, read as the log's undecided items. *)
LEMMA UndecidedIsQueue == HInv => Promise!Undecided = queue
BY DEF HInv, QueueIsUndecided, Promise!Undecided

LEMMA AcceptImplementsLog ==
  ASSUME HInv, NEW kind \in Kinds, NEW run \in Runs, Accept(kind, run)
  PROVE  Promise!LogNext
<1>1. Promise!AcceptItem(kind, run)
  BY DEF Accept, Promise!AcceptItem
<1>2. QED
  BY <1>1 DEF Promise!LogNext, Promise!Kinds, Promise!DataKinds, Promise!ControlKinds,
              Kinds, DataKinds, ControlKinds

LEMMA StopImplementsLog ==
  ASSUME HInv, NEW c \in Callers, Stop(c)
  PROVE  Promise!LogNext
<1>1. Len(queue) = Len(log) - Len(fate)
  BY DEF HInv, IInv, TypeOK, QueueIsUndecided
<1>2. Promise!Close
  BY <1>1 DEF Stop, Promise!Close, Promise!Fill
<1>3. QED
  BY <1>2 DEF Promise!LogNext

(* A settled batch is a batch of the log: it is still the head of the queue.*)
LEMMA SettleImplementsLog ==
  ASSUME HInv, SettleDecided
  PROVE  Promise!LogNext
<1> DEFINE n == Len(group)
           v == IF outcome = "ok" THEN "sent" ELSE "rejected"
<1>1. /\ group \in Seq(Items) /\ queue \in Seq(Items) /\ pc = "settle" /\ ~stopped
      /\ OneRequest(group, n) /\ n <= Len(queue) /\ group = SubSeq(queue, 1, n)
      /\ Len(queue) = Len(log) - Len(fate)
  BY DEF HInv, IInv, TypeOK, PostedIsHead, QueueIsUndecided, SettleDecided, Settled, AccountedFor
<1>2. Promise!OneRequest(queue, n)
  BY <1>1, BatchAssumption DEF OneRequest, Batchable, DataKinds, Promise!OneRequest,
                               Promise!Batchable, Promise!DataKinds
<1>3. n \in 1..(Len(log) - Len(fate))
  BY <1>1 DEF OneRequest
<1>4. fate' = fate \o [i \in 1..n |-> v]
  BY DEF SettleDecided
<1>5. log' = log /\ stopped' = stopped
  BY DEF SettleDecided, Settled
<1> HIDE DEF n
<1>6. Promise!Decide(n, v)
  BY <1>1, <1>2, <1>4, <1>5, UndecidedIsQueue DEF Promise!Decide, Promise!Fill
<1>7. QED
  BY <1>3, <1>6 DEF Promise!LogNext

LEMMA NextImplementsLog == HInv /\ [Next]_vars => [Promise!LogNext]_(Promise!logVars)
<1> SUFFICES ASSUME HInv, [Next]_vars PROVE Promise!LogNext \/ UNCHANGED <<log, fate, stopped>>
  BY DEF Promise!logVars
<1>1. ASSUME NEW offer \in Offered, Enqueue(offer[1], offer[2])
      PROVE  Promise!LogNext \/ UNCHANGED <<log, fate, stopped>>
  <2>1. offer[1] \in Kinds /\ offer[2] \in Runs
    BY SenderAssumption
  <2>2. CASE RefuseStopped(offer[1]) \/ RefuseFull(offer[1])
    BY <2>2 DEF RefuseStopped, RefuseFull, queueVars
  <2>3. CASE Accept(offer[1], offer[2])
    BY <2>1, <2>3, AcceptImplementsLog
  <2>4. QED
    BY <1>1, <2>2, <2>3 DEF Enqueue
<1>2. ASSUME NEW c \in Callers, Flush(c) \/ Shutdown(c) \/ Recheck(c) \/ Deadline(c)
      PROVE  UNCHANGED <<log, fate, stopped>>
  BY <1>2 DEF Flush, Shutdown, StartFlush, LookStopped, Recheck, Deadline, queueVars
<1>3. ASSUME NEW c \in Callers, Stop(c) PROVE Promise!LogNext
  BY <1>3, StopImplementsLog
<1>4. CASE SettleDecided
  BY <1>4, SettleImplementsLog
<1>5. CASE SettleStopped \/ SettleRetry
  BY <1>5 DEF SettleStopped, SettleRetry, Settled
<1>6. CASE \/ Sleep \/ Start \/ Exit \/ Tick \/ TakeGroup \/ NothingToTake \/ BackOff
           \/ BackOffOver \/ Interval
  BY <1>6 DEF Sleep, Start, Exit, Tick, TakeGroup, NothingToTake, BackOff,
              BackOffOver, Interval, queueVars
<1>7. ASSUME NEW answer \in Answers, Post(answer) PROVE UNCHANGED <<log, fate, stopped>>
  BY <1>7 DEF Post, queueVars
<1>8. CASE UNCHANGED vars
  BY <1>8 DEF vars, queueVars
<1>9. QED
  BY <1>1, <1>2, <1>3, <1>4, <1>5, <1>6, <1>7, <1>8 DEF Next, SenderThread, Settle

(* The sender, with its threads, its lock, its retries and its shutdown,    *)
(* implements the delivery log: fates are decided in the order of           *)
(* acceptance, a request at a time, and shutdown abandons the rest.         *)
THEOREM SenderImplementsLog == Spec => DeliversInOrder
<1>1. Init => Promise!LogInit
  BY DEF Init, Promise!LogInit
<1>2. Init => HInv
  BY InitHInv
<1>3. QED
  BY <1>1, <1>2, NextHInv, NextImplementsLog, PTL DEF Spec, DeliversInOrder, Promise!LogSpec

-----------------------------------------------------------------------------
(* What delivered() counts was sent *)

(* The accepted items of one run and kind whose fate is "sent". *)
SentOf(r, k) == {i \in 1..Len(fate) : fate[i] = "sent" /\ log[i].run = r /\ log[i].kind = k}

LEMMA DeliveredAreSent ==
  DeliveredMatchesFate <=> \A r \in Runs, k \in DataKinds : delivered[r][k] = Cardinality(SentOf(r, k))
BY DEF DeliveredMatchesFate, SentOf

LEMMA DeliveredAreSentAfter ==
  (DeliveredMatchesFate <=> \A r \in Runs, k \in DataKinds : delivered[r][k] = Cardinality(SentOf(r, k)))'
BY DeliveredAreSent, PTL

LEMMA SentIsFinite ==
  ASSUME HInv, NEW r, NEW k
  PROVE  IsFiniteSet(SentOf(r, k)) /\ Cardinality(SentOf(r, k)) \in Nat
<1>1. Len(fate) \in Nat
  BY DEF HInv, IInv, TypeOK
<1>2. IsFiniteSet(1..Len(fate)) /\ SentOf(r, k) \in SUBSET (1..Len(fate))
  BY <1>1, FS_Interval DEF SentOf
<1>3. QED
  BY <1>2, FS_Subset, FS_CardinalityType

(* Fates that are not "sent" change nothing, nor does an accepted item.     *)
LEMMA NothingSent ==
  ASSUME HInv, NEW n \in Nat, NEW v \in {"rejected", "abandoned"},
         fate' = fate \o [i \in 1..n |-> v],
         \A i \in 1..Len(fate) : log'[i] = log[i],
         NEW r, NEW k
  PROVE  SentOf(r, k)' = SentOf(r, k)
<1>1. fate \in Seq(FateSet) /\ Len(fate) \in Nat
  BY DEF HInv, IInv, TypeOK, FateSet
<1>2. /\ Len(fate') = Len(fate) + n
      /\ \A i \in 1..Len(fate') : fate'[i] = IF i <= Len(fate) THEN fate[i] ELSE v
  BY <1>1
<1>3. QED
  BY <1>1, <1>2 DEF SentOf

(* A batch that was sent adds its items to the count of its run and kind,   *)
(* because it is the undecided head of the log and mixes no two of them.    *)
LEMMA BatchSent ==
  ASSUME HInv, SettleDecided, outcome = "ok", NEW r \in Runs, NEW k \in DataKinds
  PROVE  Cardinality(SentOf(r, k)') =
           Cardinality(SentOf(r, k))
             + (IF r = group[1].run /\ k = group[1].kind THEN Len(group) ELSE 0)
<1> DEFINE n == Len(group)
           f == Len(fate)
           new == (f + 1)..(f + n)
<1>1. /\ TypeOK /\ OneRequest(group, n) /\ n <= Len(queue) /\ group = SubSeq(queue, 1, n)
      /\ f <= Len(log) /\ queue = SubSeq(log, f + 1, Len(log))
  BY DEF HInv, IInv, PostedIsHead, QueueIsUndecided, SettleDecided, Settled, AccountedFor
<1>2. /\ log \in Seq(Items) /\ fate \in Seq(FateSet) /\ queue \in Seq(Items)
      /\ f \in 0..Len(log) /\ n \in 1..Len(queue) /\ Len(queue) = Len(log) - f
  BY <1>1 DEF TypeOK, OneRequest, FateSet
<1>3. \A i \in 1..n : group[i] = log[i + f]
  BY <1>1, <1>2
<1>4. \A i \in 1..n : group[i].run = group[1].run /\ group[i].kind = group[1].kind
  BY <1>1, <1>2 DEF OneRequest, Batchable
<1>5. fate' = fate \o [i \in 1..n |-> "sent"] /\ log' = log
  BY DEF SettleDecided, Settled
<1> HIDE DEF n, f
<1>6. /\ Len(fate') = f + n
      /\ \A i \in 1..(f + n) : fate'[i] = IF i <= f THEN fate[i] ELSE "sent"
  BY <1>2, <1>5 DEF f
<1>7. \A j \in new : j \notin 1..f /\ log[j].run = group[1].run /\ log[j].kind = group[1].kind
  <2>1. ASSUME NEW j \in new
        PROVE  j - f \in 1..n /\ j = (j - f) + f /\ j \notin 1..f
    BY <1>2
  <2>2. QED
    BY <1>3, <1>4, <2>1
<1>8. SentOf(r, k) = {i \in 1..f : fate[i] = "sent" /\ log[i].run = r /\ log[i].kind = k}
  BY DEF SentOf, f
<1>9. SentOf(r, k)' = {i \in 1..(f + n) : fate'[i] = "sent" /\ log[i].run = r /\ log[i].kind = k}
  BY <1>5, <1>6 DEF SentOf
<1>10. 1..(f + n) = (1..f) \cup new
  BY <1>2
<1>11. IsFiniteSet(SentOf(r, k)) /\ Cardinality(SentOf(r, k)) \in Nat
  BY SentIsFinite
<1>12. CASE r = group[1].run /\ k = group[1].kind
  <2>1. SentOf(r, k)' = SentOf(r, k) \cup new /\ SentOf(r, k) \cap new = {}
    <3>1. \A j \in new : fate'[j] = "sent"
      BY <1>2, <1>6
    <3>2. \A j \in 1..f : fate'[j] = fate[j]
      BY <1>2, <1>6
    <3> HIDE DEF new
    <3>3. QED
      BY <1>7, <1>8, <1>9, <1>10, <1>12, <3>1, <3>2
  <2>2. f + 1 \in Int /\ f + n \in Int /\ f + 1 <= f + n /\ n \in Nat
    BY <1>2
  <2>3. IsFiniteSet(new) /\ Cardinality(new) = n
    <3>1. IsFiniteSet((f + 1)..(f + n))
      BY <2>2, FS_Interval
    <3>2. Cardinality((f + 1)..(f + n)) = IF f + 1 > f + n THEN 0 ELSE (f + n) - (f + 1) + 1
      BY <2>2, FS_Interval
    <3>3. QED
      BY <1>2, <2>2, <3>1, <3>2
  <2> HIDE DEF new
  <2>4. Cardinality(SentOf(r, k) \cup new) = Cardinality(SentOf(r, k)) + Cardinality(new)
    BY <1>11, <2>1, <2>3, DisjointCardinality
  <2>5. QED
    BY <1>12, <2>1, <2>3, <2>4 DEF n
<1>13. CASE ~(r = group[1].run /\ k = group[1].kind)
  <2>1. \A j \in new : ~(log[j].run = r /\ log[j].kind = k)
    BY <1>7, <1>13
  <2>2. \A j \in 1..f : fate'[j] = fate[j]
    BY <1>2, <1>6
  <2> HIDE DEF new
  <2>3. SentOf(r, k)' = SentOf(r, k)
    BY <1>8, <1>9, <1>10, <2>1, <2>2
  <2>4. QED
    BY <1>11, <1>13, <2>3
<1>14. QED
  BY <1>12, <1>13

LEMMA SettleCounts ==
  ASSUME HInv, DeliveredMatchesFate, SettleDecided
  PROVE  DeliveredMatchesFate'
<1>1. /\ TypeOK /\ log' = log /\ Len(group) \in Nat /\ delivered \in [Runs -> [DataKinds -> Nat]]
      /\ \A r \in Runs, k \in DataKinds : delivered[r][k] = Cardinality(SentOf(r, k))
  BY DeliveredAreSent DEF HInv, IInv, TypeOK, SettleDecided, Settled
<1>2. CASE outcome = "ok"
  <2>1. delivered' = [delivered EXCEPT ![group[1].run] = Add(@, group[1].kind, Len(group))]
    BY <1>2 DEF SettleDecided, Credit
  <2>2. ASSUME NEW r \in Runs, NEW k \in DataKinds
        PROVE  delivered'[r][k] = delivered[r][k]
                 + (IF r = group[1].run /\ k = group[1].kind THEN Len(group) ELSE 0)
    <3>1. delivered[r] \in [DataKinds -> Nat]
      BY <1>1
    <3>2. delivered'[r] = IF r = group[1].run THEN Add(delivered[r], group[1].kind, Len(group)) ELSE delivered[r]
      BY <1>1, <2>1
    <3>3. QED
      BY <1>1, <3>1, <3>2 DEF Add
  <2>3. \A r \in Runs, k \in DataKinds : delivered'[r][k] = Cardinality(SentOf(r, k)')
    BY <1>1, <1>2, <2>2, BatchSent
  <2>4. QED
    BY <2>3, DeliveredAreSentAfter
<1>3. CASE outcome # "ok"
  <2>1. delivered' = delivered /\ fate' = fate \o [i \in 1..Len(group) |-> "rejected"]
    BY <1>3 DEF SettleDecided, Credit
  <2>2. \A r \in Runs, k \in DataKinds : SentOf(r, k)' = SentOf(r, k)
    BY <1>1, <2>1, NothingSent
  <2>3. QED
    BY <1>1, <2>1, <2>2, DeliveredAreSentAfter
<1>4. QED
  BY <1>2, <1>3

DInv == HInv /\ DeliveredMatchesFate

LEMMA NextDInv == DInv /\ [Next]_vars => DInv'
<1> SUFFICES ASSUME DInv, [Next]_vars PROVE DeliveredMatchesFate'
  BY NextHInv DEF DInv
<1>0. HInv /\ \A r \in Runs, k \in DataKinds : delivered[r][k] = Cardinality(SentOf(r, k))
  BY DeliveredAreSent DEF DInv
<1>1. ASSUME UNCHANGED <<log, fate, delivered>> PROVE DeliveredMatchesFate'
  BY <1>1 DEF DInv, DeliveredMatchesFate
<1>2. ASSUME NEW offer \in Offered, Enqueue(offer[1], offer[2]) PROVE DeliveredMatchesFate'
  <2>1. CASE RefuseStopped(offer[1]) \/ RefuseFull(offer[1])
    BY <1>1, <2>1 DEF RefuseStopped, RefuseFull, queueVars
  <2>2. CASE Accept(offer[1], offer[2])
    <3>1. /\ fate' = fate /\ delivered' = delivered
          /\ \E item : log' = Append(log, item)
      BY <2>2 DEF Accept
    <3>2. /\ log \in Seq(Items) /\ Len(fate) \in Nat /\ Len(fate) <= Len(log)
      BY <1>0 DEF HInv, IInv, TypeOK, QueueIsUndecided
    <3>3. \A i \in 1..Len(fate) : log'[i] = log[i]
      BY <3>1, <3>2
    <3>4. \A r, k : SentOf(r, k)' = SentOf(r, k)
      BY <3>1, <3>3 DEF SentOf
    <3>5. QED
      BY <1>0, <3>1, <3>4, DeliveredAreSentAfter
  <2>3. QED
    BY <1>2, <2>1, <2>2 DEF Enqueue
<1>3. ASSUME NEW c \in Callers, Flush(c) \/ Shutdown(c) \/ Recheck(c) \/ Deadline(c)
      PROVE  DeliveredMatchesFate'
  BY <1>1, <1>3 DEF Flush, Shutdown, StartFlush, LookStopped, Recheck, Deadline, queueVars, countVars
<1>4. ASSUME NEW c \in Callers, Stop(c) PROVE DeliveredMatchesFate'
  <2>1. /\ log' = log /\ delivered' = delivered /\ Len(queue) \in Nat
        /\ fate' = fate \o [i \in 1..Len(queue) |-> "abandoned"]
    BY <1>0, <1>4 DEF Stop, HInv, IInv, TypeOK
  <2>2. \A r \in Runs, k \in DataKinds : SentOf(r, k)' = SentOf(r, k)
    BY <1>0, <2>1, NothingSent
  <2>3. QED
    BY <1>0, <2>1, <2>2, DeliveredAreSentAfter
<1>5. CASE SettleDecided
  BY <1>0, <1>5, SettleCounts DEF DInv
<1>6. CASE SettleStopped \/ SettleRetry
  BY <1>1, <1>6 DEF SettleStopped, SettleRetry, Settled
<1>7. CASE \/ Sleep \/ Start \/ Exit \/ Tick \/ TakeGroup \/ NothingToTake \/ BackOff
           \/ BackOffOver \/ Interval
  BY <1>1, <1>7 DEF Sleep, Start, Exit, Tick, TakeGroup, NothingToTake, BackOff,
                    BackOffOver, Interval, queueVars, countVars
<1>8. ASSUME NEW answer \in Answers, Post(answer) PROVE DeliveredMatchesFate'
  BY <1>1, <1>8 DEF Post, queueVars, countVars
<1>9. CASE UNCHANGED vars
  BY <1>1, <1>9 DEF vars, queueVars, countVars
<1>10. QED
  BY <1>2, <1>3, <1>4, <1>5, <1>6, <1>7, <1>8, <1>9 DEF Next, SenderThread, Settle

(* spans_sent and its sisters count, for each run and kind, the items that  *)
(* the service has taken and no others.                                     *)
THEOREM DeliveredIsWhatWasSent == Spec => []DeliveredMatchesFate
<1>1. Init => DInv
  <2> SUFFICES ASSUME Init PROVE DeliveredMatchesFate
    BY InitHInv DEF DInv
  <2>1. \A r \in Runs, k \in DataKinds : SentOf(r, k) = {} /\ delivered[r][k] = 0
    BY DEF Init, SentOf
  <2>2. QED
    BY <2>1, DeliveredAreSent, FS_EmptySet
<1>2. DInv => DeliveredMatchesFate
  BY DEF DInv
<1>3. QED
  BY <1>1, <1>2, NextDInv, PTL DEF Spec

-----------------------------------------------------------------------------
(* No wake-up is lost *)

WInv == TypeOK /\ NoLostWakeup

(* Nobody is left blocked by a notify_all. *)
LEMMA NobodyBlocked == ASSUME NEW c \in Callers PROVE WokenCallers[c] # "blocked"
BY DEF WokenCallers

LEMMA AcceptWakes ==
  ASSUME WInv, NEW kind \in Kinds, NEW run \in Runs, Accept(kind, run)
  PROVE  NoLostWakeup'
<1> DEFINE item == [kind |-> kind, run |-> run, id |-> Len(log) + 1]
<1>1. /\ queue \in Seq(Items) /\ dataCount \in Nat /\ Len(log) \in Nat
      /\ wait \in [Callers -> {"no", "blocked", "woken"}]
  BY DEF WInv, TypeOK
<1>2. item \in Items /\ item.kind = kind
  BY <1>1 DEF Items
<1>3. /\ queue' = Append(queue, item) /\ flushNow' = flushNow /\ stopped' = stopped /\ ~stopped
      /\ pc' = IF pc = "none" THEN "top"
               ELSE IF Urgent(kind, dataCount') THEN WokenSender ELSE pc
  BY DEF Accept
<1> HIDE DEF item
<1>4. queue' # <<>>
  BY <1>1, <1>2, <1>3
<1>5. pc' = "waiting" => MaySleep'
  <2> SUFFICES ASSUME pc' = "waiting" PROVE MaySleep'
    OBVIOUS
  <2>1. pc = "waiting" /\ kind \notin ControlKinds /\ ~(dataCount' >= BatchSize)
    BY <1>3 DEF WokenSender, Urgent
  <2>2. ~ControlWaiting /\ ~flushNow
    BY <2>1 DEF WInv, NoLostWakeup, MaySleep
  <2>3. ~ControlWaiting'
    BY <1>1, <1>2, <1>3, <2>1, <2>2 DEF ControlWaiting
  <2>4. dataCount' \in Nat
    BY <1>1 DEF Accept, Weight
  <2>5. QED
    BY <1>3, <2>1, <2>2, <2>3, <2>4, BatchAssumption DEF MaySleep
<1>6. \A c \in Callers : wait'[c] = "blocked" => ~Drained'
  BY <1>4 DEF Drained
<1>7. QED
  BY <1>3, <1>5, <1>6 DEF NoLostWakeup

LEMMA StopWakes ==
  ASSUME WInv, NEW c \in Callers, Stop(c)
  PROVE  NoLostWakeup'
<1>1. pc' = WokenSender /\ wait' = WokenCallers
  BY DEF Stop
<1>2. pc' # "waiting" /\ pc' # "backoff"
  BY <1>1 DEF WokenSender
<1>3. QED
  BY <1>1, <1>2, NobodyBlocked DEF NoLostWakeup

LEMMA SettleWakes ==
  ASSUME WInv, Settle
  PROVE  NoLostWakeup'
<1>1. wait' = WokenCallers
  BY DEF Settle, SettleStopped, SettleRetry, SettleDecided, Settled
<1>2. pc' \in {"exited", "retry", "take"}
  BY DEF Settle, SettleStopped, SettleRetry, SettleDecided
<1>3. QED
  BY <1>1, <1>2, NobodyBlocked DEF NoLostWakeup

(* What a caller does between its waits. *)
LEMMA CallerWakes ==
  ASSUME WInv, NEW c \in Callers, Flush(c) \/ Shutdown(c) \/ Recheck(c) \/ Deadline(c)
  PROVE  NoLostWakeup'
<1>1. wait \in [Callers -> {"no", "blocked", "woken"}]
  BY DEF WInv, TypeOK
<1>2. ASSUME NEW operation, StartFlush(c, operation) PROVE NoLostWakeup'
  <2>1. pc' = WokenSender /\ pc' # "waiting" /\ pc' # "backoff"
    BY <1>2 DEF StartFlush, WokenSender
  <2>2. Drained' = Drained
    BY <1>2 DEF StartFlush, queueVars, Drained
  <2>3. \A d \in Callers : wait'[d] = "blocked" => ~Drained
    BY <1>1, <1>2 DEF StartFlush, WokenCallers
  <2>4. QED
    BY <2>1, <2>2, <2>3 DEF NoLostWakeup
<1>3. ASSUME LookStopped(c) PROVE NoLostWakeup'
  BY <1>3 DEF LookStopped, WInv, NoLostWakeup, MaySleep, ControlWaiting, Drained,
              queueVars, threadVars
<1>4. ASSUME Recheck(c) \/ Deadline(c) PROVE NoLostWakeup'
  <2>1. UNCHANGED <<queue, dataCount, stopped, pc, inFlight, flushNow>>
    BY <1>4 DEF Recheck, Deadline, queueVars, threadVars
  <2>2. \A d \in Callers : wait'[d] = "blocked" => wait[d] = "blocked" \/ ~Drained
    BY <1>1, <1>4 DEF Recheck, Deadline, Return
  <2>3. QED
    BY <2>1, <2>2 DEF WInv, NoLostWakeup, MaySleep, ControlWaiting, Drained
<1>5. QED
  BY <1>2, <1>3, <1>4 DEF Flush, Shutdown

(* The sender thread's own moves outside of Settle. *)
LEMMA ThreadWakes ==
  ASSUME WInv, \/ Sleep \/ Start \/ Exit \/ Tick \/ TakeGroup \/ NothingToTake
               \/ BackOff \/ BackOffOver \/ Interval
  PROVE  NoLostWakeup'
<1>1. CASE Sleep
  BY <1>1 DEF Sleep, WInv, NoLostWakeup, MaySleep, MustExit, ControlWaiting, Drained,
              queueVars, callVars
<1>2. CASE NothingToTake
  BY <1>2, NobodyBlocked DEF NothingToTake, NoLostWakeup
<1>3. CASE \/ Start \/ Exit \/ Tick \/ TakeGroup \/ BackOff \/ BackOffOver \/ Interval
  <2>1. pc' # "waiting" /\ (pc' = "backoff" => ~stopped)
    BY <1>3 DEF Start, Exit, Tick, TakeGroup, BackOff, BackOffOver, Interval
  <2>2. UNCHANGED <<queue, stopped, wait>> /\ (inFlight => inFlight')
    BY <1>3 DEF Start, Exit, Tick, TakeGroup, BackOff, BackOffOver, Interval,
                queueVars, callVars
  <2>3. QED
    BY <2>1, <2>2 DEF WInv, NoLostWakeup, Drained
<1>4. QED
  BY <1>1, <1>2, <1>3

LEMMA NextWakes == ASSUME WInv, [Next]_vars PROVE NoLostWakeup'
<1>1. ASSUME NEW offer \in Offered, Enqueue(offer[1], offer[2]) PROVE NoLostWakeup'
  <2>1. offer[1] \in Kinds /\ offer[2] \in Runs
    BY SenderAssumption
  <2>2. CASE RefuseStopped(offer[1]) \/ RefuseFull(offer[1])
    BY <2>2 DEF RefuseStopped, RefuseFull, WInv, NoLostWakeup, MaySleep, ControlWaiting,
                Drained, queueVars, threadVars, callVars
  <2>3. CASE Accept(offer[1], offer[2])
    BY <2>1, <2>3, AcceptWakes
  <2>4. QED
    BY <1>1, <2>2, <2>3 DEF Enqueue
<1>2. ASSUME NEW answer \in Answers, Post(answer) PROVE NoLostWakeup'
  BY <1>2 DEF Post, WInv, NoLostWakeup, Drained, queueVars, callVars
<1>3. CASE UNCHANGED vars
  BY <1>3 DEF vars, WInv, NoLostWakeup, MaySleep, ControlWaiting, Drained, queueVars,
              threadVars, callVars
<1>4. QED
  BY <1>1, <1>2, <1>3, StopWakes, SettleWakes, CallerWakes, ThreadWakes
  DEF Next, SenderThread

(* The thread never sleeps on work, stop or flush requests it missed, and a *)
(* flush() never waits for a queue that is already empty.                   *)
THEOREM NoWakeupIsLost == Spec => []NoLostWakeup
<1>1. Init => NoLostWakeup
  BY DEF Init, NoLostWakeup
<1>2. TypeOK /\ NoLostWakeup /\ [Next]_vars => NoLostWakeup'
  BY NextWakes DEF WInv
<1>3. QED
  BY <1>1, <1>2, TypeCorrect, PTL DEF Spec
=============================================================================
