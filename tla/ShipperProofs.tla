---------------------------- MODULE ShipperProofs ----------------------------
(***************************************************************************)
(* Proofs about Shipper, for any finite set of threads, any length of the  *)
(* queue and of the list of pending exports, and any number of calls; and  *)
(* about NodeAgent, for any number of init() calls, hooked calls and       *)
(* pending exports.  The lemmas about lists of exports serve both.         *)
(***************************************************************************)
EXTENDS Shipper, NodeAgent, FiniteSetTheorems, TLAPS

\* A call that is under way is new: nobody else has it and it is not recorded.
Busy(t) == step[t] # "idle"
CallsOK ==
  /\ recorded \subseteq 1..made
  /\ \A t \in Workers : Busy(t) => call[t] \in (1..made) \ recorded
  /\ \A t, u \in Workers : Busy(t) /\ Busy(u) /\ call[t] = call[u] => t = u

\* Only a ticker on its way to the lock has histograms of its own: a swap
\* overwrites nothing.  shutdown() ticks once.
HandsOK ==
  /\ \A k \in Tickers : pc[k] # "lock" => drained[k] = {}
  /\ stopping \/ pc["shutdown"] = "off"

\* Every thread that has seen room in the queue can still append one call.
Appending == {t \in Workers : step[t] = "append"}
RoomOK == Cardinality(queue) + Cardinality(Appending) < QueueMax + Cardinality(Workers)

IInv == ShipTypeOK /\ ShippedOnce /\ CallsOK /\ HandsOK /\ RoomOK

-----------------------------------------------------------------------------
(* Lists of exports *)

AllOf(q) == UNION {q[i] : i \in 1..Len(q)}
Apart(q) == \A i, j \in 1..Len(q) : i # j => q[i] \cap q[j] = {}

LEMMA ExportAdded ==
  ASSUME NEW C, NEW q \in Seq(SUBSET C), NEW D \in SUBSET C, Apart(q), AllOf(q) \cap D = {}
  PROVE  /\ Append(q, D) \in Seq(SUBSET C)
         /\ AllOf(Append(q, D)) = AllOf(q) \cup D /\ Apart(Append(q, D))
<1> DEFINE r == Append(q, D)
<1>1. /\ r \in Seq(SUBSET C) /\ Len(r) = Len(q) + 1 /\ Len(q) \in Nat
      /\ r[Len(q) + 1] = D /\ \A i \in 1..Len(q) : r[i] = q[i]
  OBVIOUS
<1> HIDE DEF r
<1>2. AllOf(r) = AllOf(q) \cup D
  <2>1. ASSUME NEW c \in AllOf(r) PROVE c \in AllOf(q) \cup D
    <3>1. PICK i \in 1..Len(r) : c \in r[i]
      BY DEF AllOf
    <3>2. CASE i = Len(q) + 1
      BY <1>1, <3>1, <3>2
    <3>3. CASE i # Len(q) + 1
      <4>1. i \in 1..Len(q)
        BY <1>1, <3>3
      <4> QED BY <1>1, <3>1, <4>1 DEF AllOf
    <3> QED BY <3>2, <3>3
  <2>2. ASSUME NEW c \in AllOf(q) PROVE c \in AllOf(r)
    <3>1. PICK i \in 1..Len(q) : c \in q[i]
      BY DEF AllOf
    <3>2. i \in 1..Len(r) /\ c \in r[i]
      BY <1>1, <3>1
    <3> QED BY <3>2 DEF AllOf
  <2>3. D \subseteq AllOf(r)
    <3>1. Len(q) + 1 \in 1..Len(r)
      BY <1>1
    <3> QED BY <1>1, <3>1 DEF AllOf
  <2> QED BY <2>1, <2>2, <2>3
<1>3. Apart(r)
  <2> SUFFICES ASSUME NEW i \in 1..Len(r), NEW j \in 1..Len(r), i # j PROVE r[i] \cap r[j] = {}
    BY DEF Apart
  <2>1. \A n \in 1..Len(q) : q[n] \cap D = {}
    BY DEF AllOf
  <2>2. CASE i \in 1..Len(q) /\ j \in 1..Len(q)
    BY <1>1, <2>2 DEF Apart
  <2>3. CASE i = Len(q) + 1
    <3>1. j \in 1..Len(q)
      BY <1>1, <2>3
    <3> QED BY <1>1, <2>1, <2>3, <3>1
  <2>4. CASE j = Len(q) + 1
    <3>1. i \in 1..Len(q)
      BY <1>1, <2>4
    <3> QED BY <1>1, <2>1, <2>4, <3>1
  <2>5. /\ i \in 1..Len(q) \/ i = Len(q) + 1
        /\ j \in 1..Len(q) \/ j = Len(q) + 1
    BY <1>1
  <2> QED BY <2>2, <2>3, <2>4, <2>5
<1> QED BY <1>1, <1>2, <1>3 DEF r

\* The first n exports leave the list.
LEMMA ExportsRemoved ==
  ASSUME NEW C, NEW q \in Seq(SUBSET C), NEW n \in 0..Len(q), Apart(q)
  PROVE  LET rest == SubSeq(q, n + 1, Len(q))
             cut  == UNION {q[i] : i \in 1..n}
         IN /\ rest \in Seq(SUBSET C) /\ Len(rest) = Len(q) - n
            /\ AllOf(q) = AllOf(rest) \cup cut /\ AllOf(rest) \cap cut = {}
            /\ Apart(rest)
<1> DEFINE rest == SubSeq(q, n + 1, Len(q))
           cut  == UNION {q[i] : i \in 1..n}
<1>1. /\ rest \in Seq(SUBSET C) /\ Len(rest) = Len(q) - n /\ Len(q) \in Nat /\ n \in Nat
      /\ \A i \in 1..(Len(q) - n) : rest[i] = q[n + i]
  OBVIOUS
<1> HIDE DEF rest
<1>2. \A i \in 1..Len(rest) : n + i \in 1..Len(q) /\ n + i > n /\ rest[i] = q[n + i]
  BY <1>1
<1>3. AllOf(rest) \subseteq AllOf(q) /\ AllOf(rest) \cap cut = {}
  <2> SUFFICES ASSUME NEW c \in AllOf(rest) PROVE c \in AllOf(q) /\ c \notin cut
    OBVIOUS
  <2>1. PICK i \in 1..Len(rest) : c \in rest[i]
    BY DEF AllOf
  <2>2. \A j \in 1..n : j \in 1..Len(q) /\ j # n + i
    BY <1>1, <1>2
  <2>3. \A j \in 1..n : c \notin q[j]
    BY <1>2, <2>1, <2>2 DEF Apart
  <2> QED BY <1>2, <2>1, <2>3 DEF AllOf
<1>4. cut \subseteq AllOf(q)
  <2>1. \A j \in 1..n : j \in 1..Len(q)
    BY <1>1
  <2> QED BY <2>1 DEF AllOf
<1>5. AllOf(q) \subseteq AllOf(rest) \cup cut
  <2> SUFFICES ASSUME NEW c \in AllOf(q), c \notin cut PROVE c \in AllOf(rest)
    OBVIOUS
  <2>1. PICK i \in 1..Len(q) : c \in q[i]
    BY DEF AllOf
  <2>2. i \notin 1..n
    BY <2>1
  <2>3. i - n \in 1..Len(rest) /\ n + (i - n) = i
    BY <1>1, <2>2
  <2>4. rest[i - n] = q[i]
    BY <1>2, <2>3
  <2> QED BY <2>1, <2>3, <2>4 DEF AllOf
<1>6. Apart(rest)
  <2> SUFFICES ASSUME NEW i \in 1..Len(rest), NEW j \in 1..Len(rest), i # j PROVE rest[i] \cap rest[j] = {}
    BY DEF Apart
  <2>1. n + i # n + j
    BY <1>1
  <2> QED BY <1>2, <2>1 DEF Apart
<1> QED BY <1>1, <1>3, <1>4, <1>5, <1>6 DEF rest

-----------------------------------------------------------------------------
(* The places a recorded call can be in *)

\* ShippedOnce over the places themselves.
Separate(all, a, b, c, d, e, f) ==
  /\ all = a \cup b \cup c \cup d \cup e \cup f
  /\ a \cap (b \cup c \cup d \cup e \cup f) = {}
  /\ b \cap (c \cup d \cup e \cup f) = {}
  /\ c \cap (d \cup e \cup f) = {}
  /\ d \cap (e \cup f) = {}
  /\ e \cap f = {}
Placed == Separate(recorded, queue, hists, drained["shipper"], drained["shutdown"], AllOf(pending), gone)

LEMMA ShippedOncePlaced == ShippedOnce <=> Placed /\ Apart(pending)
BY DEF ShippedOnce, Placed, Separate, Apart, AllOf, Exported

LEMMA ShippedOncePlacedAfter == (ShippedOnce <=> Placed /\ Apart(pending))'
BY ShippedOncePlaced, PTL

-----------------------------------------------------------------------------
(* Steps *)

LEMMA FiniteCalls == \A S \in SUBSET Calls : IsFiniteSet(S) /\ Cardinality(S) \in Nat
<1>1. IsFiniteSet(Calls)
  BY FS_Interval, ShipperAssumption DEF Calls
<1> QED BY <1>1, FS_Subset, FS_CardinalityType

LEMMA AppendingFinite ==
  /\ IsFiniteSet(Appending) /\ Cardinality(Appending) \in Nat
  /\ Cardinality(Workers) \in Nat /\ Cardinality(Appending) <= Cardinality(Workers)
<1>1. Appending \in SUBSET Workers
  BY DEF Appending
<1> QED BY <1>1, FS_Subset, FS_CardinalityType, ShipperAssumption

LEMMA AppendingFiniteAfter ==
  (/\ IsFiniteSet(Appending) /\ Cardinality(Appending) \in Nat
   /\ Cardinality(Workers) \in Nat /\ Cardinality(Appending) <= Cardinality(Workers))'
BY AppendingFinite, PTL

\* A hooked call begins.
LEMMA EnterKeeps ==
  ASSUME IInv, NEW t \in Workers, EnterCall(t)
  PROVE  IInv'
<1> USE DEF IInv
<1>1. /\ made' = made + 1 /\ call' = [call EXCEPT ![t] = made + 1]
      /\ UNCHANGED <<recorded, queue, hists, tickVars, stopVars>>
      /\ step[t] = "idle" /\ made < MaxCalls
      /\ step' = [step EXCEPT ![t] = "fast"] \/ step' = [step EXCEPT ![t] = "slow"]
  BY DEF EnterCall
<1>2. made \in Nat /\ made' \in Calls /\ made' = made + 1
  <2>1. made \in Calls \cup {0} /\ MaxCalls \in Nat
    BY ShipperAssumption DEF ShipTypeOK
  <2> QED BY <1>1, <2>1 DEF Calls
<1>10. call \in [Workers -> Calls \cup {0}]
       /\ step \in [Workers -> {"idle", "fast", "slow", "append", "inline"}]
  BY DEF ShipTypeOK
<1>3. ShipTypeOK'
  BY <1>1, <1>2 DEF ShipTypeOK, tickVars, stopVars
<1>4. ShippedOnce'
  BY <1>1 DEF ShippedOnce, Exported, tickVars
<1>5. CallsOK'
  <2>1. recorded' \subseteq 1..made' /\ made + 1 \notin recorded
    BY <1>1, <1>2 DEF CallsOK
  <2>2. ASSUME NEW u \in Workers, Busy(u)' PROVE call'[u] \in (1..made') \ recorded'
    <3>1. CASE u = t
      <4>1. call'[u] = made + 1 /\ recorded' = recorded
        BY <1>1, <1>10, <3>1
      <4> QED BY <1>2, <2>1, <4>1
    <3>2. CASE u # t
      <4>1. call'[u] = call[u] /\ step'[u] = step[u] /\ recorded' = recorded
        BY <1>1, <1>10, <3>2
      <4>2. call[u] \in (1..made) \ recorded
        BY <2>2, <4>1 DEF CallsOK, Busy
      <4> QED BY <1>2, <4>1, <4>2
    <3> QED BY <3>1, <3>2
  <2>3. ASSUME NEW u \in Workers, u # t, Busy(u)' PROVE Busy(u) /\ call'[u] = call[u] /\ call[u] # made + 1
    <3>1. call'[u] = call[u] /\ step'[u] = step[u]
      BY <1>1, <1>10, <2>3
    <3>2. call[u] \in 1..made
      BY <2>3, <3>1 DEF CallsOK, Busy
    <3> QED BY <1>2, <2>3, <3>1, <3>2 DEF Busy
  <2>4. call'[t] = made + 1
    BY <1>1 DEF ShipTypeOK
  <2> QED BY <2>1, <2>2, <2>3, <2>4 DEF CallsOK
<1>6. HandsOK'
  BY <1>1 DEF HandsOK, tickVars, stopVars
<1>7. Appending' = Appending
  BY <1>1 DEF Appending, ShipTypeOK
<1>8. RoomOK'
  BY <1>1, <1>7 DEF RoomOK
<1> QED BY <1>3, <1>4, <1>5, <1>6, <1>8

\* It returns: an append is decided only while the queue has room.
LEMMA LeaveKeeps ==
  ASSUME IInv, NEW t \in Workers, LeaveCall(t)
  PROVE  IInv'
<1> USE DEF IInv
<1>1. /\ UNCHANGED <<call, made, recorded, queue, hists, tickVars, stopVars>>
      /\ step[t] \in {"fast", "slow"}
      /\ \/ step' = [step EXCEPT ![t] = "append"] /\ Cardinality(queue) < QueueMax
         \/ step' = [step EXCEPT ![t] = "inline"]
         \/ step' = [step EXCEPT ![t] = "idle"]
  BY DEF LeaveCall
<1>2. ShipTypeOK'
  BY <1>1 DEF ShipTypeOK, tickVars, stopVars
<1>3. ShippedOnce' /\ HandsOK'
  BY <1>1 DEF ShippedOnce, HandsOK, Exported, tickVars, stopVars
<1>4. CallsOK'
  BY <1>1 DEF CallsOK, Busy, ShipTypeOK
<1>5. RoomOK'
  <2>1. CASE Cardinality(queue) < QueueMax
    <3>1. Cardinality(queue) \in Nat /\ queue' = queue
      BY <1>1, FiniteCalls DEF ShipTypeOK
    <3> QED BY <2>1, <3>1, AppendingFiniteAfter, ShipperAssumption DEF RoomOK
  <2>2. CASE step' = [step EXCEPT ![t] = "inline"] \/ step' = [step EXCEPT ![t] = "idle"]
    <3>1. Appending' = Appending
      BY <1>1, <2>2 DEF Appending, ShipTypeOK
    <3> QED BY <1>1, <3>1 DEF RoomOK
  <2> QED BY <1>1, <2>1, <2>2
<1> QED BY <1>2, <1>3, <1>4, <1>5

\* The call is recorded, in the queue or in the histograms.
LEMMA RecordKeeps ==
  ASSUME IInv, NEW t \in Workers, AppendCall(t) \/ RecordInline(t)
  PROVE  IInv'
<1> USE DEF IInv
<1>1. /\ step[t] # "idle" /\ step' = [step EXCEPT ![t] = "idle"]
      /\ recorded' = recorded \cup {call[t]}
      /\ UNCHANGED <<call, made, tickVars, stopVars>>
      /\ \/ step[t] = "append" /\ queue' = queue \cup {call[t]} /\ hists' = hists
         \/ step[t] = "inline" /\ hists' = hists \cup {call[t]} /\ queue' = queue
  BY DEF AppendCall, RecordInline, Recorded
<1>2. call[t] \in (1..made) \ recorded /\ call[t] \in Calls
  <2>1. made \in Calls \cup {0} /\ MaxCalls \in Nat
    BY ShipperAssumption DEF ShipTypeOK
  <2>2. call[t] \in (1..made) \ recorded
    BY <1>1 DEF CallsOK, Busy
  <2> QED BY <2>1, <2>2 DEF Calls
<1>3. ShipTypeOK'
  BY <1>1, <1>2 DEF ShipTypeOK, tickVars, stopVars
<1>4. Placed /\ Apart(pending)
  BY ShippedOncePlaced
<1>5. Placed' /\ Apart(pending)'
  <2>1. drained' = drained /\ gone' = gone /\ pending' = pending
    BY <1>1 DEF tickVars
  <2> QED BY <1>1, <1>2, <1>4, <2>1 DEF Placed, Separate
<1>6. CallsOK'
  BY <1>1, <1>2 DEF CallsOK, Busy, ShipTypeOK
<1>7. HandsOK'
  BY <1>1 DEF HandsOK, tickVars, stopVars
<1>8. RoomOK'
  <2>1. CASE step[t] = "append"
    <3>1. Appending' = Appending \ {t} /\ t \in Appending
      BY <1>1, <2>1 DEF Appending, ShipTypeOK
    <3>2. Cardinality(Appending') = Cardinality(Appending) - 1
      BY <3>1, AppendingFinite, FS_RemoveElement
    <3>3. Cardinality(queue') <= Cardinality(queue) + 1 /\ Cardinality(queue) \in Nat /\ Cardinality(queue') \in Nat
      <4>1. IsFiniteSet(queue) /\ Cardinality(queue) \in Nat /\ queue' = queue \cup {call[t]}
        BY <1>1, <2>1, FiniteCalls DEF ShipTypeOK
      <4>2. Cardinality(queue') = IF call[t] \in queue THEN Cardinality(queue) ELSE Cardinality(queue) + 1
        BY <4>1, FS_AddElement
      <4> QED BY <4>1, <4>2
    <3> QED BY <3>2, <3>3, AppendingFinite, ShipperAssumption DEF RoomOK
  <2>2. CASE step[t] # "append"
    <3>1. Appending' = Appending /\ queue' = queue
      BY <1>1, <2>2 DEF Appending, ShipTypeOK
    <3> QED BY <3>1 DEF RoomOK
  <2> QED BY <2>1, <2>2
<1> QED BY <1>3, <1>5, <1>6, <1>7, <1>8, ShippedOncePlacedAfter

-----------------------------------------------------------------------------
(* Ticks *)

\* A step of a ticker that moves calls from one place to another.
LEMMA MoveKeeps ==
  ASSUME IInv, ShipTypeOK', Placed', Apart(pending)', HandsOK', UNCHANGED callVars,
         queue' = queue \/ queue' = {}
  PROVE  IInv'
<1>1. CallsOK'
  BY DEF IInv, CallsOK, Busy, callVars
<1>2. RoomOK'
  <2>1. Appending' = Appending
    BY DEF Appending, callVars
  <2>2. Cardinality(queue) \in Nat /\ Cardinality({}) = 0
    BY FiniteCalls, FS_EmptySet DEF IInv, ShipTypeOK
  <2> QED BY <2>1, <2>2, AppendingFinite, ShipperAssumption DEF IInv, RoomOK
<1> QED BY <1>1, <1>2, ShippedOncePlacedAfter DEF IInv

\* The loop of the thread, drain(), and shutdown().
LEMMA DrainKeeps ==
  ASSUME IInv,
         \/ Aggregate \/ IntervalOver \/ ThreadEnd \/ CellCleared \/ StopShipper
         \/ \E k \in Tickers : Drain(k)
  PROVE  IInv'
<1>1. Placed /\ Apart(pending)
  BY ShippedOncePlaced DEF IInv
<1>2. /\ UNCHANGED <<callVars, drained, pending, gone>>
      /\ Fold \/ UNCHANGED <<queue, hists>>
  BY DEF Aggregate, IntervalOver, ThreadEnd, CellCleared, StopShipper, Drain, tickVars
<1>3. \/ UNCHANGED pc
      \/ \E k \in Tickers : Go(k, "swap") /\ pc[k] = "drain"
      \/ Go("shipper", "drain") /\ pc["shipper"] = "wait"
      \/ Go("shipper", "ended") /\ pc["shipper"] = "wait"
      \/ Go("shutdown", "drain") /\ ~stopping
  BY DEF Aggregate, IntervalOver, ThreadEnd, CellCleared, StopShipper, Drain, tickVars
<1>4. UNCHANGED lock /\ live' \in BOOLEAN /\ stopping' \in BOOLEAN /\ answer' = answer /\ early' \subseteq Calls
  BY DEF Aggregate, IntervalOver, ThreadEnd, CellCleared, StopShipper, Drain, tickVars, stopVars, IInv, ShipTypeOK
<1>5. pc' \in [Tickers -> {"off", "wait", "drain", "swap", "lock", "post", "ended"}]
      /\ \A k \in Tickers : pc'[k] = "lock" <=> pc[k] = "lock"
  <2>1. pc \in [Tickers -> {"off", "wait", "drain", "swap", "lock", "post", "ended"}]
    BY DEF IInv, ShipTypeOK
  <2>2. Go("shutdown", "drain") /\ ~stopping => pc["shutdown"] = "off"
    BY DEF IInv, HandsOK
  <2>3. \/ pc' = pc
        \/ \E k \in Tickers, there \in {"swap", "drain", "ended"} :
             pc[k] # "lock" /\ pc' = [pc EXCEPT ![k] = there]
    <3>1. CASE \E k \in Tickers : Go(k, "swap") /\ pc[k] = "drain"
      BY <3>1 DEF Go
    <3>2. CASE \/ Go("shipper", "drain") /\ pc["shipper"] = "wait"
               \/ Go("shipper", "ended") /\ pc["shipper"] = "wait"
               \/ Go("shutdown", "drain") /\ ~stopping
      BY <2>2, <3>2 DEF Go, Tickers
    <3> QED BY <1>3, <3>1, <3>2
  <2>4. CASE pc' = pc
    BY <2>1, <2>4
  <2>5. CASE \E k \in Tickers, there \in {"swap", "drain", "ended"} :
               pc[k] # "lock" /\ pc' = [pc EXCEPT ![k] = there]
    BY <2>1, <2>5
  <2> QED BY <2>3, <2>4, <2>5
<1>6. queue' \subseteq Calls /\ hists' \subseteq Calls
  BY <1>2 DEF Fold, IInv, ShipTypeOK
<1>7. ShipTypeOK'
  BY <1>2, <1>4, <1>5, <1>6 DEF IInv, ShipTypeOK, callVars
<1>8. Placed' /\ Apart(pending)'
  <2>1. Apart(pending)' /\ AllOf(pending)' = AllOf(pending)
    BY <1>1, <1>2 DEF Apart, AllOf
  <2>2. CASE Fold
    BY <1>1, <1>2, <2>1, <2>2 DEF Placed, Separate, Fold, callVars
  <2>3. CASE UNCHANGED <<queue, hists>>
    BY <1>1, <1>2, <2>1, <2>3 DEF Placed, callVars
  <2> QED BY <1>2, <2>1, <2>2, <2>3
<1>9. queue' = queue \/ queue' = {}
  BY <1>2 DEF Fold
<1>10. HandsOK'
  <2>1. stopping' \/ pc'["shutdown"] = "off"
    <3>1. CASE StopShipper
      BY <3>1 DEF StopShipper
    <3>2. CASE \E k \in Tickers : Drain(k)
      <4>1. PICK k \in Tickers : Go(k, "swap") /\ pc[k] = "drain" /\ UNCHANGED stopping
        BY <3>2 DEF Drain, stopVars
      <4> QED BY <4>1 DEF Go, IInv, HandsOK, ShipTypeOK, Tickers
    <3>3. CASE Aggregate \/ IntervalOver \/ ThreadEnd \/ CellCleared
      <4>1. UNCHANGED stopping /\ (UNCHANGED pc \/ Go("shipper", "drain") \/ Go("shipper", "ended"))
        BY <3>3 DEF Aggregate, IntervalOver, ThreadEnd, CellCleared, tickVars, stopVars
      <4> QED BY <4>1 DEF Go, IInv, HandsOK, ShipTypeOK, Tickers
    <3> QED BY <3>1, <3>2, <3>3
  <2> QED BY <1>2, <1>5, <2>1 DEF IInv, HandsOK
<1> QED BY <1>2, <1>7, <1>8, <1>9, <1>10, MoveKeeps

\* The swap hands the histograms to one ticker.
LEMMA SwapKeeps ==
  ASSUME IInv, NEW k \in Tickers, Swap(k)
  PROVE  IInv'
<1>1. /\ drained' = [drained EXCEPT ![k] = hists] /\ hists' = {}
      /\ UNCHANGED <<callVars, queue, lock, pending, gone, stopVars>>
      /\ pc[k] = "swap" /\ pc' = [pc EXCEPT ![k] = "lock"]
  BY DEF Swap, Go
<1>2. Placed /\ Apart(pending) /\ drained[k] = {}
  BY <1>1, ShippedOncePlaced DEF IInv, HandsOK
<1>3. ShipTypeOK'
  BY <1>1 DEF IInv, ShipTypeOK, callVars, stopVars
<1>4. Placed' /\ Apart(pending)'
  <2>1. CASE k = "shipper"
    <3>1. drained'["shipper"] = hists /\ drained'["shutdown"] = drained["shutdown"]
      BY <1>1, <2>1 DEF IInv, ShipTypeOK, Tickers
    <3> QED BY <1>1, <1>2, <2>1, <3>1 DEF Placed, Separate, callVars
  <2>2. CASE k = "shutdown"
    <3>1. drained'["shutdown"] = hists /\ drained'["shipper"] = drained["shipper"]
      BY <1>1, <2>2 DEF IInv, ShipTypeOK, Tickers
    <3> QED BY <1>1, <1>2, <2>2, <3>1 DEF Placed, Separate, callVars
  <2> QED BY <2>1, <2>2 DEF Tickers
<1>5. HandsOK'
  BY <1>1 DEF IInv, HandsOK, ShipTypeOK, Tickers, stopVars
<1> QED BY <1>1, <1>3, <1>4, <1>5, MoveKeeps

\* A ticker gives up what it drained: to the pending exports, or for good.
LEMMA HandOver ==
  ASSUME IInv, NEW k \in Tickers, Build(k) \/ BuildFails(k)
  PROVE  /\ Placed' /\ Apart(pending)' /\ HandsOK'
         /\ pending' \in Seq(SUBSET Calls) /\ Len(pending') <= MaxPending
         /\ gone' \subseteq Calls /\ drained' \in [Tickers -> SUBSET Calls]
<1> USE DEF IInv
<1> DEFINE D == drained[k]
           other == IF k = "shipper" THEN "shutdown" ELSE "shipper"
<1>1. /\ drained' = [drained EXCEPT ![k] = {}] /\ pc[k] = "lock"
      /\ UNCHANGED <<callVars, queue, hists, stopping>>
      /\ \E there \in {"post", "wait", "ended"} : pc' = [pc EXCEPT ![k] = there]
  <2>1. CASE Build(k)
    BY <2>1 DEF Build, Go, stopVars
  <2>2. CASE BuildFails(k)
    BY <2>2 DEF BuildFails, Ticked, Go
  <2> QED BY <2>1, <2>2
<1>2. /\ pending \in Seq(SUBSET Calls) /\ gone \subseteq Calls /\ D \in SUBSET Calls /\ MaxPending \in Nat
      /\ drained \in [Tickers -> SUBSET Calls] /\ Len(pending) \in Nat /\ Len(pending) <= MaxPending
  <2>1. /\ pending \in Seq(SUBSET Calls) /\ gone \subseteq Calls /\ Len(pending) <= MaxPending
        /\ drained \in [Tickers -> SUBSET Calls]
    BY DEF ShipTypeOK
  <2> QED BY <2>1, ShipperAssumption
<1>3. Placed /\ Apart(pending)
  BY ShippedOncePlaced
<1>4. drained'[k] = {} /\ drained'[other] = drained[other] /\ drained' \in [Tickers -> SUBSET Calls]
  BY <1>1, <1>2 DEF Tickers
<1>5. HandsOK'
  BY <1>1, <1>2 DEF HandsOK, ShipTypeOK, Tickers
<1>6. D \cap AllOf(pending) = {} /\ D \cap gone = {} /\ AllOf(pending) \cap gone = {}
  BY <1>3 DEF Placed, Separate, Tickers
<1>7. /\ Apart(pending)' /\ pending' \in Seq(SUBSET Calls) /\ Len(pending') <= MaxPending
      /\ AllOf(pending') \cup gone' = AllOf(pending) \cup gone \cup D
      /\ AllOf(pending') \cap gone' = {}
  <2>1. CASE BuildFails(k)
    <3>1. pending' = pending /\ gone' = gone \cup D
      BY <2>1 DEF BuildFails
    <3> QED BY <1>2, <1>3, <1>6, <3>1
  <2>2. CASE Build(k)
    <3> DEFINE all == IF D = {} THEN pending ELSE Append(pending, D)
    <3>1. pending' = Kept(all) /\ gone' = gone \cup Dropped(all)
      BY <2>2 DEF Build
    <3>2. all \in Seq(SUBSET Calls) /\ Apart(all) /\ AllOf(all) = AllOf(pending) \cup D
      <4>1. CASE D = {}
        <5>1. all = pending
          BY <4>1
        <5> HIDE DEF all
        <5> QED BY <1>2, <1>3, <4>1, <5>1
      <4>2. CASE D # {}
        <5>1. all = Append(pending, D)
          BY <4>2
        <5>2. pending \in Seq(SUBSET Calls) /\ D \in SUBSET Calls /\ Apart(pending) /\ AllOf(pending) \cap D = {}
          BY <1>2, <1>3, <1>6
        <5> HIDE DEF all, D
        <5>3. /\ Append(pending, D) \in Seq(SUBSET Calls) /\ Apart(Append(pending, D))
              /\ AllOf(Append(pending, D)) = AllOf(pending) \cup D
          BY <5>2, ExportAdded
        <5> QED BY <5>1, <5>3
      <4> QED BY <4>1, <4>2
    <3> HIDE DEF all
    <3>3. Len(all) \in Nat /\ Surplus(all) \in 0..Len(all) /\ Len(all) - Surplus(all) <= MaxPending
      BY <1>2, <3>2 DEF Surplus
    <3>4. /\ pending' \in Seq(SUBSET Calls) /\ Len(pending') = Len(all) - Surplus(all)
          /\ AllOf(all) = AllOf(pending') \cup Dropped(all) /\ AllOf(pending') \cap Dropped(all) = {}
          /\ Apart(pending')
      BY <3>1, <3>2, <3>3, ExportsRemoved DEF Kept, Dropped
    <3>5. Apart(pending)'
      BY <3>4 DEF Apart
    <3> QED BY <1>6, <3>1, <3>2, <3>3, <3>4, <3>5
  <2> QED BY <2>1, <2>2
<1>8. Placed'
  <2>1. AllOf(pending)' = AllOf(pending')
    BY DEF AllOf
  <2>2. CASE k = "shipper"
    BY <1>1, <1>3, <1>4, <1>7, <2>1, <2>2 DEF Placed, Separate, callVars
  <2>3. CASE k = "shutdown"
    BY <1>1, <1>3, <1>4, <1>7, <2>1, <2>3 DEF Placed, Separate, callVars
  <2> QED BY <2>2, <2>3 DEF Tickers
<1>9. gone' \subseteq Calls
  <2>1. AllOf(pending) \subseteq Calls
    BY <1>2 DEF AllOf
  <2> QED BY <1>2, <1>7, <2>1
<1> QED BY <1>4, <1>5, <1>7, <1>8, <1>9

LEMMA BuildKeeps ==
  ASSUME IInv, NEW k \in Tickers, Build(k) \/ BuildFails(k)
  PROVE  IInv'
<1>1. /\ pc' \in [Tickers -> {"off", "wait", "drain", "swap", "lock", "post", "ended"}]
      /\ lock' \in Tickers \cup {Nobody} /\ answer' \in {"none", "all sent", "not all sent"}
      /\ UNCHANGED <<callVars, queue, hists, live, stopping, early>>
  BY DEF Build, BuildFails, Ticked, Go, IInv, ShipTypeOK, stopVars
<1>2. ShipTypeOK'
  BY <1>1, HandOver DEF IInv, ShipTypeOK, callVars
<1> QED BY <1>1, <1>2, HandOver, MoveKeeps

\* An export leaves the list when it is answered.
LEMMA PostKeeps ==
  ASSUME IInv, NEW k \in Tickers, PostDecided(k) \/ PostFails(k) \/ TickDone(k)
  PROVE  IInv'
<1>1. Placed /\ Apart(pending)
  BY ShippedOncePlaced DEF IInv
<1>2. pending \in Seq(SUBSET Calls) /\ gone \subseteq Calls /\ Len(pending) <= MaxPending /\ MaxPending \in Nat
  BY ShipperAssumption DEF IInv, ShipTypeOK
<1>3. CASE PostDecided(k)
  <2>1. /\ pending # <<>> /\ pending' = Tail(pending) /\ gone' = gone \cup Head(pending)
        /\ UNCHANGED <<callVars, queue, hists, pc, drained, lock, stopVars>>
    BY <1>3 DEF PostDecided
  <2>2. /\ 1 \in 0..Len(pending) /\ Tail(pending) = SubSeq(pending, 1 + 1, Len(pending))
        /\ Head(pending) = pending[1]
    BY <1>2, <2>1
  <2>3. UNION {pending[i] : i \in 1..1} = pending[1]
    OBVIOUS
  <2>4. /\ pending' \in Seq(SUBSET Calls) /\ Len(pending') = Len(pending) - 1
        /\ AllOf(pending) = AllOf(pending') \cup Head(pending) /\ AllOf(pending') \cap Head(pending) = {}
        /\ Apart(pending')
    <3> DEFINE rest == SubSeq(pending, 1 + 1, Len(pending))
               cut  == UNION {pending[i] : i \in 1..1}
    <3>1. /\ rest \in Seq(SUBSET Calls) /\ Len(rest) = Len(pending) - 1
          /\ AllOf(pending) = AllOf(rest) \cup cut /\ AllOf(rest) \cap cut = {} /\ Apart(rest)
      BY <1>1, <1>2, <2>2, ExportsRemoved
    <3>2. rest = pending' /\ cut = Head(pending)
      BY <2>1, <2>2, <2>3
    <3> HIDE DEF rest, cut
    <3> QED BY <3>1, <3>2
  <2>5. Placed' /\ Apart(pending)'
    <3>1. AllOf(pending)' = AllOf(pending') /\ Apart(pending)' = Apart(pending')
      BY DEF AllOf, Apart
    <3> QED BY <1>1, <2>1, <2>4, <3>1 DEF Placed, Separate, callVars
  <2>6. Head(pending) \subseteq Calls
    BY <1>2, <2>1
  <2>7. Len(pending') <= MaxPending
    BY <1>2, <2>4
  <2>8. ShipTypeOK'
    BY <1>2, <2>1, <2>4, <2>6, <2>7 DEF IInv, ShipTypeOK, callVars, stopVars
  <2>9. HandsOK'
    BY <2>1 DEF IInv, HandsOK, stopVars
  <2> QED BY <2>1, <2>5, <2>8, <2>9, MoveKeeps
<1>4. CASE PostFails(k) \/ TickDone(k)
  <2>1. /\ UNCHANGED <<callVars, queue, hists, drained, pending, gone, live, stopping, early>>
        /\ lock' = Nobody /\ answer' \in {"none", "all sent", "not all sent"} /\ pc[k] = "post"
        /\ pc' = [pc EXCEPT ![k] = IF k = "shipper" THEN "wait" ELSE "ended"]
    BY <1>4 DEF PostFails, TickDone, Ticked, Go, IInv, ShipTypeOK
  <2>2. ShipTypeOK'
    BY <2>1 DEF IInv, ShipTypeOK, callVars
  <2>3. Placed' /\ Apart(pending)'
    BY <1>1, <2>1 DEF Placed, Apart, callVars
  <2>4. HandsOK'
    BY <2>1 DEF IInv, HandsOK, ShipTypeOK, Tickers
  <2> QED BY <2>1, <2>2, <2>3, <2>4, MoveKeeps
<1> QED BY <1>3, <1>4

-----------------------------------------------------------------------------
(* Theorems *)

\* The strengthening holds in the beginning and is kept by every step.
THEOREM Invariance == ShipSpec => []IInv
<1>1. ShipInit => IInv
  <2> SUFFICES ASSUME ShipInit PROVE IInv
    OBVIOUS
  <2>1. ShipTypeOK
    <3>1. made \in Calls \cup {0} /\ call \in [Workers -> Calls \cup {0}]
      BY DEF ShipInit
    <3>2. pending \in Seq(SUBSET Calls) /\ Len(pending) <= MaxPending
      <4>1. pending = <<>> /\ MaxPending \in Nat
        BY ShipperAssumption DEF ShipInit
      <4> QED BY <4>1
    <3>3. pc \in [Tickers -> {"off", "wait", "drain", "swap", "lock", "post", "ended"}]
      BY DEF ShipInit
    <3> QED BY <3>1, <3>2, <3>3 DEF ShipInit, ShipTypeOK
  <2>2. ShippedOnce
    BY DEF ShipInit, ShippedOnce, Exported, Tickers
  <2>3. CallsOK /\ HandsOK
    BY DEF ShipInit, CallsOK, HandsOK, Busy, Tickers
  <2>4. RoomOK
    <3>1. Appending = {} /\ queue = {}
      BY DEF ShipInit, Appending
    <3> QED BY <3>1, FS_EmptySet, AppendingFinite, ShipperAssumption DEF RoomOK
  <2> QED BY <2>1, <2>2, <2>3, <2>4 DEF IInv
<1>2. IInv /\ [ShipNext]_shipVars => IInv'
  <2> SUFFICES ASSUME IInv, [ShipNext]_shipVars PROVE IInv'
    OBVIOUS
  <2>1. CASE UNCHANGED shipVars
    <3>1. UNCHANGED <<callVars, tickVars, stopVars, queue, hists>>
      BY <2>1 DEF shipVars
    <3>2. ShipTypeOK' /\ HandsOK'
      BY <3>1 DEF IInv, ShipTypeOK, HandsOK, callVars, tickVars, stopVars
    <3>3. Placed' /\ Apart(pending)'
      BY <3>1, ShippedOncePlaced DEF IInv, Placed, Apart, callVars, tickVars
    <3> QED BY <3>1, <3>2, <3>3, MoveKeeps
  <2> QED BY <2>1, EnterKeeps, LeaveKeeps, RecordKeeps, DrainKeeps, SwapKeeps, BuildKeeps, PostKeeps DEF ShipNext, Tick
<1> QED BY <1>1, <1>2, PTL DEF ShipSpec

\* Whatever the program's threads, the shipper thread and shutdown() do, a
\* recorded call is in one place; the queue and the pending exports stay
\* within their bounds, the queue by one call for each thread more.
THEOREM HistogramsAreExact == ShipSpec => []CallsShippedOnce
<1>1. IInv => CallsShippedOnce
  <2> SUFFICES ASSUME IInv PROVE QueueBounded
    BY DEF IInv, CallsShippedOnce
  <2>1. Cardinality(queue) \in Nat
    BY FiniteCalls DEF IInv, ShipTypeOK
  <2> QED BY <2>1, AppendingFinite, ShipperAssumption DEF IInv, RoomOK, QueueBounded
<1> QED BY <1>1, Invariance, PTL

-----------------------------------------------------------------------------
(* The Node agent *)

\* The calls of some frames, those that are not finished, and that no two
\* frames have the same.
CallsIn(q)  == {q[i].call : i \in 1..Len(q)}
Live(q)     == {q[i].call : i \in {j \in 1..Len(q) : q[j].kind # "done"}}
Distinct(q) == \A i, j \in 1..Len(q) : q[i].call = q[j].call => i = j

\* The calls that are under way, by where they are.
OnStack  == CallsIn(frames)
Running  == Live(frames)
InFlight == {f.call : f \in flying}
Unended  == Running \cup InFlight \cup tagged

\* A call that is under way is in one place and recorded nowhere.
CallsLive ==
  /\ OnStack \cup Unended \subseteq 1..started
  /\ OnStack \cap InFlight = {} /\ (OnStack \cup InFlight) \cap tagged = {}
  /\ Distinct(frames)
  /\ \A f, g \in flying : f.call = g.call => f = g
  /\ \A s \in States : noted[s] \subseteq (1..started) \ Unended
  /\ IsFiniteSet(flying) /\ Len(frames) + Cardinality(flying) <= started

\* Before shutdown() no run of the shipper is, or waits to be, the last one.
NotStopped(s) == "stop" \notin chained[s] /\ busy[s] # "stop" /\ result[s] = "none"
StopOnce ==
  /\ cur <= born
  /\ \A s \in States : (timer[s] => cur = s) /\ (s > born \/ cur = s => NotStopped(s))

\* A run has something to post, and that of shutdown() has drained all that
\* was recorded before it.
RunsOK ==
  \A s \in States :
    /\ busy[s] # "no" => exports[s] # <<>>
    /\ before[s] \subseteq noted[s]
    /\ busy[s] = "stop" => before[s] \cap series[s] = {}

NodeInv == NodeTypeOK /\ NodeRecordedOnce /\ CountersBalanced /\ TrueMeansAnswered
           /\ CallsLive /\ StopOnce /\ RunsOK

\* The types of what calls change, of what nothing else depends on, and of
\* the rest.
NodeMarkTypes == sent \in [States -> SUBSET NodeCalls] /\ hasty \in BOOLEAN
NodeCallTypes ==
  /\ started \in 0..MaxNodeCalls
  /\ frames \in Seq(NodeFrames) /\ flying \subseteq NodeFrames /\ tagged \subseteq NodeCalls
  /\ depth \in [States -> 0..1] /\ inflight \in [States -> 0..MaxNodeCalls]
NodeRunTypes ==
  /\ cur \in 0..MaxNodeInits /\ born \in 0..MaxNodeInits
  /\ series \in [States -> SUBSET NodeCalls] /\ exports \in [States -> Seq(SUBSET NodeCalls)]
  /\ timer \in [States -> BOOLEAN]
  /\ busy \in [States -> {"no", "interval", "stop"}]
  /\ chained \in [States -> SUBSET {"interval", "stop"}]
  /\ result \in [States -> {"none", "true", "false"}]
  /\ noted \in [States -> SUBSET NodeCalls] /\ before \in [States -> SUBSET NodeCalls]
  /\ left \in [States -> SUBSET NodeCalls]
  /\ \A s \in States : Len(exports[s]) <= MaxNodePending

LEMMA NodeTypesSplit == NodeTypeOK <=> NodeCallTypes /\ NodeRunTypes /\ NodeMarkTypes
BY DEF NodeTypeOK, NodeCallTypes, NodeRunTypes, NodeMarkTypes

-----------------------------------------------------------------------------
(* The counters of the Node agent, as counts of frames *)

At(q, K) == {i \in 1..Len(q) : q[i] \in K}
OfState(s) == {x \in NodeFrames : x.state = s}
Pooled(s)  == {x \in NodeFrames : x.state = s /\ x.kind = "pool"}
CountersExact ==
  \A s \in States :
    /\ depth[s] = Cardinality(At(frames, OfState(s)))
    /\ inflight[s] = Cardinality(At(frames, Pooled(s))) + Cardinality(flying \cap Pooled(s))

LEMMA CountersAre ==
  frames \in Seq(NodeFrames) /\ flying \subseteq NodeFrames => (CountersBalanced <=> CountersExact)
<1> SUFFICES ASSUME frames \in Seq(NodeFrames), flying \subseteq NodeFrames
             PROVE  CountersBalanced <=> CountersExact
  OBVIOUS
<1>1. \A i \in 1..Len(frames) : frames[i] \in NodeFrames
  OBVIOUS
<1>2. ASSUME NEW s \in States
      PROVE  /\ At(frames, OfState(s)) = {i \in 1..Len(frames) : frames[i].state = s}
             /\ At(frames, Pooled(s)) = {i \in 1..Len(frames) : frames[i].state = s /\ frames[i].kind = "pool"}
             /\ flying \cap Pooled(s) = {f \in flying : f.state = s /\ f.kind = "pool"}
  BY <1>1 DEF At, OfState, Pooled
<1> QED BY <1>2 DEF CountersBalanced, CountersExact

LEMMA CountersAreAfter ==
  (frames \in Seq(NodeFrames) /\ flying \subseteq NodeFrames => (CountersBalanced <=> CountersExact))'
BY CountersAre, PTL

LEMMA AtIsFinite ==
  ASSUME NEW S, NEW q \in Seq(S), NEW K
  PROVE  /\ IsFiniteSet(At(q, K)) /\ Cardinality(At(q, K)) \in Nat
         /\ Cardinality(At(q, K)) <= Len(q)
<1>1. Len(q) \in Nat /\ 1 \in Int /\ Len(q) \in Int
  OBVIOUS
<1>2. IsFiniteSet(1..Len(q)) /\ Cardinality(1..Len(q)) = IF 1 > Len(q) THEN 0 ELSE Len(q) - 1 + 1
  BY <1>1, FS_Interval
<1>3. At(q, K) \in SUBSET (1..Len(q))
  BY DEF At
<1> QED BY <1>1, <1>2, <1>3, FS_Subset, FS_CardinalityType

\* A frame is pushed, or popped.
LEMMA AtPushed ==
  ASSUME NEW S, NEW q \in Seq(S), NEW x \in S, NEW K
  PROVE  Cardinality(At(Append(q, x), K)) = Cardinality(At(q, K)) + (IF x \in K THEN 1 ELSE 0)
<1> DEFINE r == Append(q, x)
<1>1. /\ Len(r) = Len(q) + 1 /\ Len(q) \in Nat
      /\ r[Len(q) + 1] = x /\ \A i \in 1..Len(q) : r[i] = q[i]
  OBVIOUS
<1> HIDE DEF r
<1>2. 1..Len(r) = (1..Len(q)) \cup {Len(q) + 1} /\ Len(q) + 1 \notin 1..Len(q)
  BY <1>1
<1>3. At(r, K) = IF x \in K THEN At(q, K) \cup {Len(q) + 1} ELSE At(q, K)
  BY <1>1, <1>2 DEF At
<1>4. Len(q) + 1 \notin At(q, K) /\ IsFiniteSet(At(q, K)) /\ Cardinality(At(q, K)) \in Nat
  BY <1>2, AtIsFinite DEF At
<1>5. CASE x \in K
  <2>1. Cardinality(At(q, K) \cup {Len(q) + 1}) = Cardinality(At(q, K)) + 1
    BY <1>4, FS_AddElement
  <2> QED BY <1>3, <1>5, <2>1 DEF r
<1>6. CASE x \notin K
  BY <1>3, <1>4, <1>6 DEF r
<1> QED BY <1>5, <1>6

LEMMA Popped ==
  ASSUME NEW S, NEW q \in Seq(S), q # <<>>
  PROVE  LET rest == SubSeq(q, 1, Len(q) - 1)
         IN /\ rest \in Seq(S) /\ Len(rest) = Len(q) - 1 /\ Len(q) \in Nat \ {0}
            /\ q[Len(q)] \in S /\ \A i \in 1..(Len(q) - 1) : rest[i] = q[i]
            /\ q = Append(rest, q[Len(q)])
<1> DEFINE n == Len(q)
           rest == SubSeq(q, 1, n - 1)
<1>1. n \in Nat \ {0} /\ q[n] \in S
  OBVIOUS
<1>2. rest \in Seq(S) /\ Len(rest) = n - 1 /\ \A i \in 1..(n - 1) : rest[i] = q[i]
  <2>1. n - 1 \in Int /\ 1 \in Int /\ n - 1 <= Len(q) /\ n - 1 >= 0
    BY <1>1
  <2>2. rest \in Seq(S)
    BY <1>1, <2>1
  <2>3. Len(rest) = n - 1
    <3>1. CASE n = 1
      <4>1. rest = <<>>
        BY <3>1
      <4> QED BY <3>1, <4>1
    <3>2. CASE n > 1
      BY <1>1, <3>2
    <3> QED BY <1>1, <3>1, <3>2
  <2>4. \A i \in 1..(n - 1) : rest[i] = q[i]
    BY <1>1, <2>1
  <2> QED BY <2>2, <2>3, <2>4
<1> HIDE DEF rest
<1>3. /\ Append(rest, q[n]) \in Seq(S) /\ Len(Append(rest, q[n])) = n
      /\ \A i \in 1..n : Append(rest, q[n])[i] = IF i = n THEN q[n] ELSE rest[i]
  BY <1>1, <1>2
<1>4. \A i \in 1..n : Append(rest, q[n])[i] = q[i]
  BY <1>1, <1>2, <1>3
<1>5. q = Append(rest, q[n])
  BY <1>3, <1>4
<1> QED BY <1>1, <1>2, <1>5 DEF rest

LEMMA AtPopped ==
  ASSUME NEW S, NEW q \in Seq(S), q # <<>>, NEW K
  PROVE  Cardinality(At(SubSeq(q, 1, Len(q) - 1), K)) =
           Cardinality(At(q, K)) - (IF q[Len(q)] \in K THEN 1 ELSE 0)
<1> DEFINE rest == SubSeq(q, 1, Len(q) - 1)
           x == q[Len(q)]
<1>1. rest \in Seq(S) /\ x \in S /\ q = Append(rest, x)
  BY Popped
<1> HIDE DEF rest, x
<1>2. Cardinality(At(q, K)) = Cardinality(At(rest, K)) + (IF x \in K THEN 1 ELSE 0)
  BY <1>1, AtPushed
<1>3. Cardinality(At(rest, K)) \in Nat
  BY <1>1, AtIsFinite
<1> QED BY <1>2, <1>3 DEF rest, x

\* No counter exceeds the number of calls.
LEMMA CountsBounded ==
  ASSUME NEW q \in Seq(NodeFrames), NEW F, IsFiniteSet(F), NEW n \in 0..MaxNodeCalls,
         Len(q) + Cardinality(F) <= n, NEW K
  PROVE  /\ Cardinality(At(q, K)) + Cardinality(F \cap K) \in 0..MaxNodeCalls
         /\ Cardinality(At(q, K)) \in Nat
         /\ IsFiniteSet(F \cap K) /\ Cardinality(F \cap K) \in Nat
<1>1. Cardinality(At(q, K)) \in Nat /\ Cardinality(At(q, K)) <= Len(q) /\ Len(q) \in Nat
  BY AtIsFinite
<1>2. /\ IsFiniteSet(F \cap K) /\ Cardinality(F \cap K) \in Nat /\ Cardinality(F) \in Nat
      /\ Cardinality(F \cap K) <= Cardinality(F)
  BY FS_Intersection, FS_CardinalityType
<1> QED BY <1>1, <1>2, NodeAssumption

\* The calls of the frames, and their being distinct, when one is pushed.
LEMMA CallsPushed ==
  ASSUME NEW q \in Seq(NodeFrames), NEW x \in NodeFrames
  PROVE  /\ CallsIn(Append(q, x)) = CallsIn(q) \cup {x.call}
         /\ Distinct(Append(q, x)) <=> Distinct(q) /\ x.call \notin CallsIn(q)
         /\ Live(Append(q, x)) = IF x.kind = "done" THEN Live(q) ELSE Live(q) \cup {x.call}
         /\ Live(q) \subseteq CallsIn(q)
<1> DEFINE r == Append(q, x)
<1>1. /\ Len(r) = Len(q) + 1 /\ Len(q) \in Nat
      /\ r[Len(q) + 1] = x /\ \A i \in 1..Len(q) : r[i] = q[i]
  OBVIOUS
<1> HIDE DEF r
<1>2. 1..Len(r) = (1..Len(q)) \cup {Len(q) + 1} /\ Len(q) + 1 \notin 1..Len(q)
  BY <1>1
<1>3. CallsIn(r) = CallsIn(q) \cup {x.call}
  <2>1. ASSUME NEW c \in CallsIn(r) PROVE c \in CallsIn(q) \cup {x.call}
    <3>1. PICK i \in 1..Len(r) : c = r[i].call
      BY DEF CallsIn
    <3> QED BY <1>1, <1>2, <3>1 DEF CallsIn
  <2>2. CallsIn(q) \subseteq CallsIn(r)
    <3>1. \A i \in 1..Len(q) : i \in 1..Len(r) /\ r[i] = q[i]
      BY <1>1, <1>2
    <3> QED BY <3>1 DEF CallsIn
  <2>3. x.call \in CallsIn(r)
    <3>1. Len(q) + 1 \in 1..Len(r) /\ r[Len(q) + 1] = x
      BY <1>1, <1>2
    <3> QED BY <3>1 DEF CallsIn
  <2> QED BY <2>1, <2>2, <2>3
<1>4. ASSUME Distinct(r) PROVE Distinct(q) /\ x.call \notin CallsIn(q)
  <2>1. Distinct(q)
    <3>1. \A i \in 1..Len(q) : i \in 1..Len(r) /\ r[i] = q[i]
      BY <1>1, <1>2
    <3> QED BY <1>4, <3>1 DEF Distinct
  <2>2. x.call \notin CallsIn(q)
    <3> SUFFICES ASSUME NEW i \in 1..Len(q), q[i].call = x.call PROVE FALSE
      BY DEF CallsIn
    <3>1. i \in 1..Len(r) /\ Len(q) + 1 \in 1..Len(r) /\ i # Len(q) + 1
      BY <1>2
    <3> QED BY <1>1, <1>4, <3>1 DEF Distinct
  <2> QED BY <2>1, <2>2
<1>5. ASSUME Distinct(q), x.call \notin CallsIn(q) PROVE Distinct(r)
  <2> SUFFICES ASSUME NEW i \in 1..Len(r), NEW j \in 1..Len(r), r[i].call = r[j].call PROVE i = j
    BY DEF Distinct
  <2>1. \A n \in 1..Len(q) : q[n].call # x.call
    BY <1>5 DEF CallsIn
  <2>2. CASE i \in 1..Len(q) /\ j \in 1..Len(q)
    BY <1>1, <1>5, <2>2 DEF Distinct
  <2>3. CASE i = Len(q) + 1 \/ j = Len(q) + 1
    BY <1>1, <1>2, <2>1, <2>3
  <2> QED BY <1>2, <2>2, <2>3
<1>6. Live(r) = IF x.kind = "done" THEN Live(q) ELSE Live(q) \cup {x.call}
  <2> DEFINE I(s) == {j \in 1..Len(s) : s[j].kind # "done"}
  <2>1. I(r) = IF x.kind = "done" THEN I(q) ELSE I(q) \cup {Len(q) + 1}
    BY <1>1, <1>2
  <2>2. \A i \in I(q) : r[i] = q[i]
    BY <1>1
  <2>3. Live(r) = {r[i].call : i \in I(r)} /\ Live(q) = {q[i].call : i \in I(q)}
    BY DEF Live
  <2> HIDE DEF I
  <2> QED BY <1>1, <2>1, <2>2, <2>3
<1>7. Live(q) \subseteq CallsIn(q)
  BY DEF Live, CallsIn
<1> QED BY <1>3, <1>4, <1>5, <1>6, <1>7 DEF r

-----------------------------------------------------------------------------
(* Recording a call of the Node agent *)

\* NodeRecordedOnce of one state.
Ledger(s) ==
  /\ noted[s] = series[s] \cup AllOf(exports[s]) \cup left[s]
  /\ series[s] \cap AllOf(exports[s]) = {} /\ (series[s] \cup AllOf(exports[s])) \cap left[s] = {}
  /\ Apart(exports[s])
NotedApart == \A r, s \in States : r # s => noted[r] \cap noted[s] = {}

LEMMA RecordedOnceIs == NodeRecordedOnce <=> (\A s \in States : Ledger(s)) /\ NotedApart
BY DEF NodeRecordedOnce, Ledger, NotedApart, AllOf, Apart, Waiting

LEMMA RecordedOnceIsAfter == (NodeRecordedOnce <=> (\A s \in States : Ledger(s)) /\ NotedApart)'
BY RecordedOnceIs, PTL

\* What is said of the states and their runs, calls aside.
RunInv == NodeRunTypes /\ NodeRecordedOnce /\ TrueMeansAnswered /\ StopOnce /\ RunsOK
CallInv == NodeCallTypes /\ CountersExact /\ CallsLive

LEMMA NodeInvParts == NodeInv <=> CallInv /\ RunInv /\ NodeMarkTypes
<1>1. NodeCallTypes => frames \in Seq(NodeFrames) /\ flying \subseteq NodeFrames
  BY DEF NodeCallTypes
<1> QED BY <1>1, CountersAre, NodeTypesSplit DEF NodeInv, CallInv, RunInv

LEMMA NodeInvPartsAfter == (NodeInv <=> CallInv /\ RunInv /\ NodeMarkTypes)'
BY NodeInvParts, PTL

\* A call that is recorded nowhere is recorded in state s, whatever its stage.
LEMMA RecordKeepsRuns ==
  ASSUME RunInv, NEW s \in States, NEW c \in NodeCalls, \A r \in States : c \notin noted[r],
         Record(s, c), UNCHANGED <<cur, born, timer, before, shipperVars>>
  PROVE  RunInv' /\ \A r \in States : noted'[r] = IF r = s THEN noted[r] \cup {c} ELSE noted[r]
<1> USE DEF RunInv
<1>1. /\ series \in [States -> SUBSET NodeCalls] /\ noted \in [States -> SUBSET NodeCalls]
      /\ series' = [series EXCEPT ![s] = @ \cup {c}] /\ noted' = [noted EXCEPT ![s] = @ \cup {c}]
      /\ UNCHANGED <<exports, busy, chained, result, left, cur, born, timer, before>>
  BY DEF Record, NodeRunTypes, shipperVars
<1>2. \A r \in States : /\ noted'[r] = IF r = s THEN noted[r] \cup {c} ELSE noted[r]
                        /\ series'[r] = IF r = s THEN series[r] \cup {c} ELSE series[r]
  BY <1>1
<1>3. NodeRunTypes'
  BY <1>1 DEF NodeRunTypes
<1>4. (\A r \in States : Ledger(r)) /\ NotedApart
  BY RecordedOnceIs
<1>5. ASSUME NEW r \in States PROVE Ledger(r)'
  <2>1. /\ AllOf(exports'[r]) = AllOf(exports[r]) /\ left'[r] = left[r] /\ Apart(exports[r])
        /\ c \notin series[r] /\ c \notin AllOf(exports[r]) /\ c \notin left[r]
        /\ exports'[r] = exports[r]
    BY <1>1, <1>4 DEF Ledger
  <2>2. Ledger(r)
    BY <1>4
  <2>3. (Ledger(r))' <=> /\ noted'[r] = series'[r] \cup AllOf(exports'[r]) \cup left'[r]
                         /\ series'[r] \cap AllOf(exports'[r]) = {}
                         /\ (series'[r] \cup AllOf(exports'[r])) \cap left'[r] = {}
                         /\ Apart(exports'[r])
    BY DEF Ledger, AllOf, Apart
  <2> HIDE DEF RunInv
  <2>4. CASE r = s
    <3>1. noted'[r] = noted[r] \cup {c} /\ series'[r] = series[r] \cup {c}
      BY <1>2, <2>4
    <3>2. noted'[r] = series'[r] \cup AllOf(exports'[r]) \cup left'[r]
      BY <2>1, <2>2, <3>1 DEF Ledger
    <3>3. series'[r] \cap AllOf(exports'[r]) = {}
      BY <2>1, <2>2, <3>1 DEF Ledger
    <3>4. (series'[r] \cup AllOf(exports'[r])) \cap left'[r] = {}
      BY <2>1, <2>2, <3>1 DEF Ledger
    <3> QED BY <2>1, <2>3, <3>2, <3>3, <3>4
  <2>5. CASE r # s
    BY <1>2, <2>1, <2>2, <2>3, <2>5 DEF Ledger
  <2> QED BY <2>4, <2>5
<1>6. NotedApart'
  BY <1>2, <1>4 DEF NotedApart
<1>7. TrueMeansAnswered' /\ StopOnce'
  BY <1>1 DEF TrueMeansAnswered, StopOnce, NotStopped
<1>8. RunsOK'
  BY <1>1, <1>2 DEF RunsOK
<1> QED BY <1>2, <1>3, <1>5, <1>6, <1>7, <1>8, RecordedOnceIsAfter

LEMMA NothingRecordedKeepsRuns ==
  ASSUME RunInv, UNCHANGED <<series, noted, cur, born, timer, before, shipperVars>>
  PROVE  RunInv'
<1>1. UNCHANGED <<series, noted, exports, busy, chained, result, left, cur, born, timer, before>>
  BY DEF shipperVars
<1>2. NodeRunTypes' /\ TrueMeansAnswered' /\ StopOnce' /\ RunsOK'
  BY <1>1 DEF RunInv, NodeRunTypes, TrueMeansAnswered, StopOnce, NotStopped, RunsOK
<1>3. NodeRecordedOnce'
  BY <1>1 DEF RunInv, NodeRecordedOnce, Waiting
<1> QED BY <1>2, <1>3 DEF RunInv

-----------------------------------------------------------------------------
(* Steps of the calls *)

\* Two kinds of facts that every step of a call needs.
LEMMA CallFacts ==
  ASSUME CallInv
  PROVE  /\ started \in Nat /\ started <= MaxNodeCalls /\ MaxNodeCalls \in Nat
         /\ frames \in Seq(NodeFrames) /\ Len(frames) \in Nat
         /\ IsFiniteSet(flying) /\ Cardinality(flying) \in Nat
         /\ flying \subseteq NodeFrames /\ tagged \subseteq NodeCalls
         /\ \A c \in Unended : c \in NodeCalls /\ c \in 1..started /\ \A s \in States : c \notin noted[s]
         /\ OnStack \subseteq 1..started
<1>1. started \in 0..MaxNodeCalls /\ frames \in Seq(NodeFrames) /\ IsFiniteSet(flying)
      /\ flying \subseteq NodeFrames /\ tagged \subseteq NodeCalls
  BY DEF CallInv, NodeCallTypes, CallsLive
<1>2. started \in Nat /\ started <= MaxNodeCalls /\ MaxNodeCalls \in Nat
  BY <1>1, NodeAssumption
<1>3. Len(frames) \in Nat /\ Cardinality(flying) \in Nat
  BY <1>1, FS_CardinalityType
<1>4. ASSUME NEW c \in Unended
      PROVE  c \in NodeCalls /\ c \in 1..started /\ \A s \in States : c \notin noted[s]
  BY <1>2 DEF CallInv, CallsLive, NodeCalls
<1>5. OnStack \subseteq 1..started
  BY DEF CallInv, CallsLive
<1> QED BY <1>1, <1>2, <1>3, <1>4, <1>5

\* The counters are what the frames say; that bounds the one of the pool.
LEMMA InflightBounded ==
  ASSUME frames \in Seq(NodeFrames), IsFiniteSet(flying), started \in 0..MaxNodeCalls,
         Len(frames) + Cardinality(flying) <= started, CountersExact,
         DOMAIN inflight = States, inflight = [s \in States |-> inflight[s]]
  PROVE  inflight \in [States -> 0..MaxNodeCalls]
<1> SUFFICES ASSUME NEW s \in States PROVE inflight[s] \in 0..MaxNodeCalls
  OBVIOUS
<1>1. inflight[s] = Cardinality(At(frames, Pooled(s))) + Cardinality(flying \cap Pooled(s))
  BY DEF CountersExact
<1> QED BY <1>1, CountsBounded

LEMMA InflightBoundedAfter ==
  (/\ frames \in Seq(NodeFrames) /\ IsFiniteSet(flying) /\ started \in 0..MaxNodeCalls
   /\ Len(frames) + Cardinality(flying) <= started /\ CountersExact
   /\ DOMAIN inflight = States /\ inflight = [s \in States |-> inflight[s]]
   => inflight \in [States -> 0..MaxNodeCalls])'
BY InflightBounded, PTL

\* A wrapped function is entered.
LEMMA EnterFrameKeeps ==
  ASSUME CallInv, RunInv, EnterFrame
  PROVE  CallInv'
<1>1. PICK kind \in {"sync", "pool", "async"} :
        /\ frames' = Append(frames, [call |-> started', state |-> cur, kind |-> kind])
        /\ inflight' = IF kind = "pool" THEN [inflight EXCEPT ![cur] = @ + 1] ELSE inflight
  BY DEF EnterFrame
<1>2. /\ cur # 0 /\ depth[cur] = 0 /\ started < MaxNodeCalls /\ started' = started + 1
      /\ depth' = [depth EXCEPT ![cur] = @ + 1]
      /\ flying' = flying /\ tagged' = tagged /\ noted' = noted
  BY DEF EnterFrame, Timed
<1>3. cur \in States
  BY <1>2, NodeAssumption DEF RunInv, NodeRunTypes, States
<1>4. started' \in NodeCalls /\ started' \in 0..MaxNodeCalls
  BY <1>2, CallFacts DEF NodeCalls
<1> DEFINE f == [call |-> started', state |-> cur, kind |-> kind]
<1>5. f \in NodeFrames /\ f.call = started' /\ f.state = cur /\ f.kind = kind
  BY <1>3, <1>4 DEF NodeFrames
<1>6. frames' = Append(frames, f)
  BY <1>1
<1> HIDE DEF f
<1>7. frames' \in Seq(NodeFrames) /\ Len(frames') = Len(frames) + 1
  BY <1>5, <1>6, CallFacts
<1>8. /\ depth \in [States -> 0..1] /\ inflight \in [States -> 0..MaxNodeCalls]
  BY DEF CallInv, NodeCallTypes
<1>9. CountersExact'
  <2> SUFFICES ASSUME NEW s \in States
               PROVE  /\ depth'[s] = Cardinality(At(frames', OfState(s)))
                      /\ inflight'[s] = Cardinality(At(frames', Pooled(s))) + Cardinality(flying' \cap Pooled(s))
    BY DEF CountersExact, At, OfState, Pooled
  <2>1. /\ Cardinality(At(frames', OfState(s))) = Cardinality(At(frames, OfState(s))) + (IF f \in OfState(s) THEN 1 ELSE 0)
        /\ Cardinality(At(frames', Pooled(s))) = Cardinality(At(frames, Pooled(s))) + (IF f \in Pooled(s) THEN 1 ELSE 0)
    BY <1>5, <1>6, CallFacts, AtPushed
  <2>2. (f \in OfState(s) <=> s = cur) /\ (f \in Pooled(s) <=> s = cur /\ kind = "pool")
    BY <1>5 DEF OfState, Pooled
  <2>3. /\ depth[s] = Cardinality(At(frames, OfState(s)))
        /\ inflight[s] = Cardinality(At(frames, Pooled(s))) + Cardinality(flying \cap Pooled(s))
    BY DEF CallInv, CountersExact
  <2>4. /\ Cardinality(At(frames, OfState(s))) \in Nat /\ Cardinality(At(frames, Pooled(s))) \in Nat
        /\ Cardinality(flying \cap Pooled(s)) \in Nat
    BY CallFacts, AtIsFinite, FS_Intersection, FS_CardinalityType
  <2>5. depth'[s] = depth[s] + (IF s = cur THEN 1 ELSE 0)
    BY <1>2, <1>8, <2>3, <2>4
  <2>6. inflight'[s] = inflight[s] + (IF s = cur /\ kind = "pool" THEN 1 ELSE 0)
    BY <1>1, <1>8, <2>3, <2>4
  <2> QED BY <1>2, <2>1, <2>2, <2>3, <2>4, <2>5, <2>6
<1>10. Len(frames') + Cardinality(flying') <= started' /\ IsFiniteSet(flying')
  BY <1>2, <1>7, CallFacts DEF CallInv, CallsLive
<1>11. NodeCallTypes'
  <2>1. depth' \in [States -> 0..1]
    BY <1>2, <1>3, <1>8
  <2>2. DOMAIN inflight' = States /\ inflight' = [s \in States |-> inflight'[s]]
    BY <1>1, <1>8
  <2>3. inflight' \in [States -> 0..MaxNodeCalls]
    BY <1>4, <1>7, <1>9, <1>10, <2>2, InflightBoundedAfter
  <2> QED BY <1>2, <1>4, <1>7, <2>1, <2>3, CallFacts DEF NodeCallTypes
<1>12. CallsLive'
  <2>1. OnStack' = OnStack \cup {started'} /\ Distinct(frames') /\ Running' = Running \cup {started'}
    <3>1. started' \notin CallsIn(frames)
      BY <1>2, CallFacts DEF OnStack
    <3>2. Distinct(frames) /\ f.kind # "done"
      BY <1>5 DEF CallInv, CallsLive
    <3>3. /\ CallsIn(frames') = CallsIn(frames) \cup {started'} /\ Distinct(frames')
          /\ Live(frames') = Live(frames) \cup {started'}
      BY <1>5, <1>6, <3>1, <3>2, CallFacts, CallsPushed
    <3> QED BY <3>3 DEF OnStack, Running, CallsIn, Live
  <2>2. InFlight' = InFlight
    BY <1>2 DEF InFlight
  <2>3. /\ OnStack \cap InFlight = {} /\ (OnStack \cup InFlight) \cap tagged = {}
        /\ OnStack \cup Unended \subseteq 1..started /\ \A s \in States : noted[s] \subseteq (1..started) \ Unended
        /\ \A g, h \in flying : g.call = h.call => g = h
    BY DEF CallInv, CallsLive
  <2>4. Unended' = Unended \cup {started'}
    BY <1>2, <2>1, <2>2 DEF Unended
  <2>5. started' \in 1..started' /\ started' \notin 1..started /\ 1..started \subseteq 1..started'
    BY <1>2, CallFacts
  <2>6. started' \notin InFlight /\ started' \notin tagged
    BY <2>3, <2>5 DEF Unended
  <2>7. \A s \in States : noted'[s] \subseteq (1..started') \ Unended'
    BY <1>2, <2>3, <2>4, <2>5
  <2>8. OnStack' \cup Unended' \subseteq 1..started'
    BY <2>1, <2>3, <2>4, <2>5
  <2>9. OnStack' \cap InFlight' = {} /\ (OnStack' \cup InFlight') \cap tagged' = {}
    BY <1>2, <2>1, <2>2, <2>3, <2>6
  <2> QED BY <1>2, <1>10, <2>1, <2>3, <2>7, <2>8, <2>9 DEF CallsLive
<1> QED BY <1>9, <1>11, <1>12 DEF CallInv

\* What leaving the frame on top does to the counts and to the calls.
LEMMA FrameLeft ==
  ASSUME CallInv, frames # <<>>
  PROVE  /\ Top \in NodeFrames /\ Callers \in Seq(NodeFrames) /\ Len(Callers) = Len(frames) - 1
         /\ Len(frames) \in Nat \ {0}
         /\ OnStack = CallsIn(Callers) \cup {Top.call} /\ Top.call \notin CallsIn(Callers)
         /\ Distinct(Callers) /\ Live(Callers) \subseteq CallsIn(Callers)
         /\ Running = IF Top.kind = "done" THEN Live(Callers) ELSE Live(Callers) \cup {Top.call}
         /\ \A K : /\ Cardinality(At(Callers, K)) = Cardinality(At(frames, K)) - (IF Top \in K THEN 1 ELSE 0)
                   /\ Cardinality(At(frames, K)) \in Nat /\ Cardinality(At(Callers, K)) \in Nat
<1>1. frames \in Seq(NodeFrames) /\ Top = frames[Len(frames)] /\ Callers = SubSeq(frames, 1, Len(frames) - 1)
  BY CallFacts DEF Top, Callers
<1>2. /\ Top \in NodeFrames /\ Callers \in Seq(NodeFrames) /\ Len(Callers) = Len(frames) - 1
      /\ Len(frames) \in Nat \ {0} /\ frames = Append(Callers, Top)
  BY <1>1, Popped
<1>3. Distinct(frames)
  BY DEF CallInv, CallsLive
<1>4. /\ CallsIn(frames) = CallsIn(Callers) \cup {Top.call}
      /\ Distinct(frames) <=> Distinct(Callers) /\ Top.call \notin CallsIn(Callers)
      /\ Live(frames) = IF Top.kind = "done" THEN Live(Callers) ELSE Live(Callers) \cup {Top.call}
      /\ Live(Callers) \subseteq CallsIn(Callers)
  <2>1. /\ CallsIn(Append(Callers, Top)) = CallsIn(Callers) \cup {Top.call}
        /\ Distinct(Append(Callers, Top)) <=> Distinct(Callers) /\ Top.call \notin CallsIn(Callers)
        /\ Live(Append(Callers, Top)) = IF Top.kind = "done" THEN Live(Callers) ELSE Live(Callers) \cup {Top.call}
        /\ Live(Callers) \subseteq CallsIn(Callers)
    BY <1>2, CallsPushed
  <2> QED BY <1>2, <2>1
<1>5. ASSUME NEW K
      PROVE  /\ Cardinality(At(Callers, K)) = Cardinality(At(frames, K)) - (IF Top \in K THEN 1 ELSE 0)
             /\ Cardinality(At(frames, K)) \in Nat /\ Cardinality(At(Callers, K)) \in Nat
  BY <1>1, <1>2, AtPopped, AtIsFinite
<1> QED BY <1>2, <1>3, <1>4, <1>5 DEF OnStack, Running

\* A call ends: it is recorded in a state, or nowhere.
LEMMA EndKeepsCallsLive ==
  ASSUME CallInv, NEW c \in Unended,
         \A s \in States : noted'[s] \subseteq noted[s] \cup {c},
         Unended' = Unended \ {c}, started' = started
  PROVE  Unended' \subseteq 1..started' /\ \A s \in States : noted'[s] \subseteq (1..started') \ Unended'
<1>1. /\ OnStack \cup Unended \subseteq 1..started
      /\ \A s \in States : noted[s] \subseteq (1..started) \ Unended
  BY DEF CallInv, CallsLive
<1> QED BY <1>1

\* A call is recorded in state s, or not at all.
LEMMA OutcomeKeepsRuns ==
  ASSUME CallInv, RunInv, NEW s \in States, NEW c \in Unended,
         Record(s, c) \/ UNCHANGED <<series, noted>>,
         UNCHANGED <<cur, born, timer, before, shipperVars>>
  PROVE  RunInv' /\ \A r \in States : noted'[r] \subseteq noted[r] \cup {c}
<1>1. c \in NodeCalls /\ \A r \in States : c \notin noted[r]
  BY CallFacts
<1>2. CASE Record(s, c)
  <2>1. RunInv' /\ \A r \in States : noted'[r] = IF r = s THEN noted[r] \cup {c} ELSE noted[r]
    BY <1>1, <1>2, RecordKeepsRuns
  <2> QED BY <2>1
<1>3. CASE UNCHANGED <<series, noted>>
  <2>1. UNCHANGED <<series, noted, cur, born, timer, before, shipperVars>> /\ noted' = noted
    BY <1>3
  <2> QED BY <2>1, NothingRecordedKeepsRuns
<1> QED BY <1>2, <1>3

\* The function on top returns; its call ends with it or goes on.
LEMMA LeaveFrameKeeps ==
  ASSUME CallInv, RunInv, LeaveFrame
  PROVE  CallInv' /\ RunInv'
<1>1. /\ frames # <<>> /\ frames' = Callers
      /\ depth' = [depth EXCEPT ![Top.state] = @ - 1]
      /\ UNCHANGED <<cur, born, timer, before, shipperVars>> /\ started' = started /\ tagged' = tagged
  BY DEF LeaveFrame
<1>2. \/ Top.kind # "done" /\ Finish(Top) /\ flying' = flying
      \/ Top.kind # "done" /\ flying' = flying \cup {Top} /\ UNCHANGED <<inflight, series, noted>>
      \/ Top.kind = "done" /\ UNCHANGED <<flying, inflight, series, noted>>
  BY DEF LeaveFrame
<1>3. /\ Top \in NodeFrames /\ frames' \in Seq(NodeFrames) /\ Len(frames') = Len(frames) - 1
      /\ Len(frames) \in Nat \ {0}
      /\ OnStack = OnStack' \cup {Top.call} /\ Top.call \notin OnStack' /\ Distinct(frames')
      /\ \A K : /\ Cardinality(At(frames', K)) = Cardinality(At(frames, K)) - (IF Top \in K THEN 1 ELSE 0)
                /\ Cardinality(At(frames, K)) \in Nat /\ Cardinality(At(frames', K)) \in Nat
      /\ Running = (IF Top.kind = "done" THEN Running' ELSE Running' \cup {Top.call})
      /\ Running' \subseteq OnStack'
  <2>1. /\ OnStack' = CallsIn(Callers) /\ Running' = Live(Callers)
    BY <1>1 DEF OnStack, Running, CallsIn, Live
  <2> QED BY <1>1, <2>1, FrameLeft
<1>4. Top.state \in States /\ (Top.kind # "done" => Top.call \in Unended)
  BY <1>3 DEF NodeFrames, Unended
<1>5. /\ depth \in [States -> 0..1] /\ inflight \in [States -> 0..MaxNodeCalls]
  BY DEF CallInv, NodeCallTypes
<1>6. /\ OnStack \cap InFlight = {} /\ (OnStack \cup InFlight) \cap tagged = {}
      /\ \A g, h \in flying : g.call = h.call => g = h
      /\ Len(frames) + Cardinality(flying) <= started /\ OnStack \cup Unended \subseteq 1..started
  BY DEF CallInv, CallsLive
<1>7. Top \notin flying
  BY <1>3, <1>6 DEF InFlight
<1>8. ASSUME NEW s \in States
      PROVE  /\ depth[s] = Cardinality(At(frames, OfState(s)))
             /\ inflight[s] = Cardinality(At(frames, Pooled(s))) + Cardinality(flying \cap Pooled(s))
             /\ Cardinality(flying \cap Pooled(s)) \in Nat /\ IsFiniteSet(flying \cap Pooled(s))
             /\ (Top \in OfState(s) <=> s = Top.state)
             /\ (Top \in Pooled(s) <=> s = Top.state /\ Top.kind = "pool")
  <2>1. Cardinality(flying \cap Pooled(s)) \in Nat /\ IsFiniteSet(flying \cap Pooled(s))
    BY CallFacts, FS_Intersection, FS_CardinalityType
  <2> QED BY <1>3, <2>1 DEF CallInv, CountersExact, OfState, Pooled
<1>9. ASSUME NEW s \in States
      PROVE  depth'[s] = Cardinality(At(frames', OfState(s))) /\ depth'[s] \in 0..1
  <2>1. depth'[s] = depth[s] - (IF s = Top.state THEN 1 ELSE 0)
    BY <1>1, <1>5
  <2>2. Cardinality(At(frames', OfState(s))) = Cardinality(At(frames, OfState(s))) - (IF Top \in OfState(s) THEN 1 ELSE 0)
    BY <1>3
  <2>3. Cardinality(At(frames', OfState(s))) \in Nat /\ depth[s] \in 0..1
    BY <1>3, <1>5
  <2>4. depth'[s] = Cardinality(At(frames', OfState(s)))
    <3>1. CASE s = Top.state
      <4>1. depth'[s] = depth[s] - 1
        BY <2>1, <3>1
      <4>2. Cardinality(At(frames', OfState(s))) = Cardinality(At(frames, OfState(s))) - 1
        BY <1>8, <2>2, <3>1
      <4> QED BY <1>8, <4>1, <4>2
    <3>2. CASE s # Top.state
      <4>1. depth'[s] = depth[s]
        BY <2>1, <2>3, <3>2
      <4>2. Cardinality(At(frames', OfState(s))) = Cardinality(At(frames, OfState(s)))
        <5>1. Cardinality(At(frames, OfState(s))) \in 0..1 /\ Top \notin OfState(s)
          BY <1>8, <2>3, <3>2
        <5> QED BY <2>2, <5>1
      <4> QED BY <1>8, <4>1, <4>2
    <3> QED BY <3>1, <3>2
  <2> QED BY <2>1, <2>3, <2>4
<1>10. depth' \in [States -> 0..1]
  BY <1>1, <1>5, <1>9
<1>11. ASSUME NEW s \in States
       PROVE  Cardinality(At(frames', Pooled(s))) = Cardinality(At(frames, Pooled(s))) - (IF Top \in Pooled(s) THEN 1 ELSE 0)
              /\ Cardinality(At(frames, Pooled(s))) \in Nat
  BY <1>3
<1>12. CASE Top.kind # "done" /\ Finish(Top) /\ flying' = flying
  <2>1. RunInv' /\ \A r \in States : noted'[r] \subseteq noted[r] \cup {Top.call}
    BY <1>1, <1>4, <1>12, OutcomeKeepsRuns DEF Finish
  <2>2. inflight' = IF Top.kind = "pool" THEN [inflight EXCEPT ![Top.state] = @ - 1] ELSE inflight
    BY <1>12 DEF Finish
  <2>3. CountersExact'
    <3> SUFFICES ASSUME NEW s \in States
                 PROVE  /\ depth'[s] = Cardinality(At(frames', OfState(s)))
                        /\ inflight'[s] = Cardinality(At(frames', Pooled(s))) + Cardinality(flying' \cap Pooled(s))
      BY DEF CountersExact, At, OfState, Pooled
    <3>1. inflight'[s] = inflight[s] - (IF s = Top.state /\ Top.kind = "pool" THEN 1 ELSE 0)
      BY <1>5, <2>2
    <3> QED BY <1>8, <1>9, <1>11, <1>12, <3>1
  <2>4. Len(frames') + Cardinality(flying') <= started' /\ IsFiniteSet(flying')
    BY <1>1, <1>3, <1>6, <1>12, CallFacts
  <2>5. NodeCallTypes'
    <3>1. DOMAIN inflight' = States /\ inflight' = [s \in States |-> inflight'[s]]
      BY <1>5, <2>2
    <3>2. started' \in 0..MaxNodeCalls
      BY <1>1 DEF CallInv, NodeCallTypes
    <3>3. inflight' \in [States -> 0..MaxNodeCalls]
      BY <1>3, <2>3, <2>4, <3>1, <3>2, InflightBoundedAfter
    <3> QED BY <1>1, <1>3, <1>10, <1>12, <3>2, <3>3, CallFacts DEF NodeCallTypes
  <2>6. InFlight' = InFlight /\ Top.call \notin InFlight /\ Top.call \notin tagged
    BY <1>3, <1>6, <1>12 DEF InFlight
  <2>7. Unended' = Unended \ {Top.call}
    BY <1>1, <1>3, <1>6, <1>12, <2>6 DEF Unended
  <2>8. Unended' \subseteq 1..started' /\ \A s \in States : noted'[s] \subseteq (1..started') \ Unended'
    BY <1>1, <1>4, <1>12, <2>1, <2>7, EndKeepsCallsLive
  <2>9. OnStack' \cap InFlight' = {} /\ (OnStack' \cup InFlight') \cap tagged' = {}
    BY <1>1, <1>3, <1>6, <2>6
  <2>10. CallsLive'
    BY <1>1, <1>3, <1>6, <1>12, <2>4, <2>8, <2>9 DEF CallsLive
  <2> QED BY <2>1, <2>3, <2>5, <2>10 DEF CallInv
<1>13. CASE Top.kind # "done" /\ flying' = flying \cup {Top} /\ UNCHANGED <<inflight, series, noted>>
  <2>1. RunInv' /\ noted' = noted /\ inflight' = inflight
    <3>1. UNCHANGED <<series, noted, cur, born, timer, before, shipperVars>>
      BY <1>1, <1>13
    <3> QED BY <1>13, <3>1, NothingRecordedKeepsRuns
  <2>2. Cardinality(flying') = Cardinality(flying) + 1 /\ IsFiniteSet(flying')
    BY <1>7, <1>13, CallFacts, FS_AddElement
  <2>3. CountersExact'
    <3> SUFFICES ASSUME NEW s \in States
                 PROVE  /\ depth'[s] = Cardinality(At(frames', OfState(s)))
                        /\ inflight'[s] = Cardinality(At(frames', Pooled(s))) + Cardinality(flying' \cap Pooled(s))
      BY DEF CountersExact, At, OfState, Pooled
    <3>1. CASE Top \in Pooled(s)
      <4>1. flying' \cap Pooled(s) = (flying \cap Pooled(s)) \cup {Top} /\ Top \notin flying \cap Pooled(s)
        BY <1>7, <1>13, <3>1
      <4>2. Cardinality(flying' \cap Pooled(s)) = Cardinality(flying \cap Pooled(s)) + 1
        BY <1>8, <4>1, FS_AddElement
      <4> QED BY <1>8, <1>9, <1>11, <2>1, <3>1, <4>2
    <3>2. CASE Top \notin Pooled(s)
      <4>1. flying' \cap Pooled(s) = flying \cap Pooled(s)
        BY <1>13, <3>2
      <4> QED BY <1>8, <1>9, <1>11, <2>1, <3>2, <4>1
    <3> QED BY <3>1, <3>2
  <2>4. Len(frames') + Cardinality(flying') <= started'
    BY <1>1, <1>3, <1>6, <2>2, CallFacts
  <2>5. NodeCallTypes'
    <3>1. started' \in 0..MaxNodeCalls
      BY <1>1 DEF CallInv, NodeCallTypes
    <3> QED BY <1>1, <1>3, <1>5, <1>10, <1>13, <2>1, <3>1, CallFacts DEF NodeCallTypes
  <2>6. InFlight' = InFlight \cup {Top.call} /\ Top.call \notin InFlight
    BY <1>3, <1>6, <1>13 DEF InFlight
  <2>7. Unended' = Unended
    BY <1>1, <1>3, <1>13, <2>6 DEF Unended
  <2>8. OnStack' \cap InFlight' = {} /\ (OnStack' \cup InFlight') \cap tagged' = {}
    BY <1>1, <1>3, <1>6, <2>6
  <2>9. \A g, h \in flying' : g.call = h.call => g = h
    BY <1>6, <1>13, <2>6 DEF InFlight
  <2>10. /\ Unended' \subseteq 1..started'
         /\ \A s \in States : noted'[s] \subseteq (1..started') \ Unended'
    BY <1>1, <2>1, <2>7 DEF CallInv, CallsLive
  <2>11. CallsLive'
    BY <1>1, <1>3, <1>6, <2>2, <2>4, <2>8, <2>9, <2>10 DEF CallsLive
  <2> QED BY <2>1, <2>3, <2>5, <2>11 DEF CallInv
<1>14. CASE Top.kind = "done" /\ UNCHANGED <<flying, inflight, series, noted>>
  <2>1. RunInv' /\ noted' = noted /\ inflight' = inflight /\ flying' = flying
    <3>1. UNCHANGED <<series, noted, cur, born, timer, before, shipperVars>>
      BY <1>1, <1>14
    <3> QED BY <1>14, <3>1, NothingRecordedKeepsRuns
  <2>2. CountersExact'
    <3> SUFFICES ASSUME NEW s \in States
                 PROVE  /\ depth'[s] = Cardinality(At(frames', OfState(s)))
                        /\ inflight'[s] = Cardinality(At(frames', Pooled(s))) + Cardinality(flying' \cap Pooled(s))
      BY DEF CountersExact, At, OfState, Pooled
    <3> QED BY <1>8, <1>9, <1>11, <1>14, <2>1
  <2>3. Len(frames') + Cardinality(flying') <= started' /\ IsFiniteSet(flying')
    BY <1>1, <1>3, <1>6, <2>1, CallFacts
  <2>4. NodeCallTypes'
    <3>1. started' \in 0..MaxNodeCalls
      BY <1>1 DEF CallInv, NodeCallTypes
    <3> QED BY <1>1, <1>3, <1>5, <1>10, <2>1, <3>1, CallFacts DEF NodeCallTypes
  <2>5. InFlight' = InFlight /\ Unended' = Unended
    BY <1>1, <1>3, <1>14, <2>1 DEF InFlight, Unended
  <2>6. CallsLive'
    BY <1>1, <1>3, <1>6, <2>1, <2>3, <2>5 DEF CallInv, CallsLive
  <2> QED BY <2>1, <2>2, <2>4, <2>6 DEF CallInv
<1> QED BY <1>2, <1>12, <1>13, <1>14

\* The callback of a call is called while its function is on the stack.
LEMMA CalledBackKeeps ==
  ASSUME CallInv, RunInv, CalledBack
  PROVE  CallInv' /\ RunInv'
<1> DEFINE over == [Top EXCEPT !.kind = "done"]
<1>1. /\ frames # <<>> /\ Top.kind \in {"pool", "async"} /\ frames' = Append(Callers, over) /\ Finish(Top)
      /\ UNCHANGED <<cur, born, timer, before, shipperVars>>
      /\ started' = started /\ tagged' = tagged /\ flying' = flying /\ depth' = depth
  BY DEF CalledBack
<1>2. /\ Top \in NodeFrames /\ Callers \in Seq(NodeFrames) /\ Len(Callers) = Len(frames) - 1
      /\ Len(frames) \in Nat \ {0}
      /\ OnStack = CallsIn(Callers) \cup {Top.call} /\ Top.call \notin CallsIn(Callers)
      /\ Distinct(Callers) /\ Live(Callers) \subseteq CallsIn(Callers)
      /\ Running = Live(Callers) \cup {Top.call}
      /\ \A K : /\ Cardinality(At(Callers, K)) = Cardinality(At(frames, K)) - (IF Top \in K THEN 1 ELSE 0)
                /\ Cardinality(At(frames, K)) \in Nat /\ Cardinality(At(Callers, K)) \in Nat
  BY <1>1, FrameLeft
<1>3. Top.state \in States /\ Top.call \in Unended
  BY <1>2 DEF NodeFrames, Unended
<1>4. over \in NodeFrames /\ over.call = Top.call /\ over.state = Top.state /\ over.kind = "done"
  BY <1>2 DEF NodeFrames
<1> HIDE DEF over
<1>5. /\ frames' \in Seq(NodeFrames) /\ Len(frames') = Len(frames)
      /\ OnStack' = OnStack /\ Running' = Live(Callers) /\ Distinct(frames')
  <2>1. frames' \in Seq(NodeFrames) /\ Len(frames') = Len(frames)
    BY <1>1, <1>2, <1>4
  <2>2. /\ CallsIn(frames') = CallsIn(Callers) \cup {Top.call} /\ Distinct(frames')
        /\ Live(frames') = Live(Callers)
    BY <1>1, <1>2, <1>4, CallsPushed
  <2> QED BY <1>2, <2>1, <2>2 DEF OnStack, Running, CallsIn, Live
<1>6. RunInv' /\ \A r \in States : noted'[r] \subseteq noted[r] \cup {Top.call}
  BY <1>1, <1>3, OutcomeKeepsRuns DEF Finish
<1>7. /\ depth \in [States -> 0..1] /\ inflight \in [States -> 0..MaxNodeCalls]
      /\ started \in 0..MaxNodeCalls
  BY DEF CallInv, NodeCallTypes
<1>8. inflight' = IF Top.kind = "pool" THEN [inflight EXCEPT ![Top.state] = @ - 1] ELSE inflight
  BY <1>1 DEF Finish
<1>9. /\ OnStack \cap InFlight = {} /\ (OnStack \cup InFlight) \cap tagged = {}
      /\ \A g, h \in flying : g.call = h.call => g = h
      /\ Len(frames) + Cardinality(flying) <= started /\ OnStack \cup Unended \subseteq 1..started
  BY DEF CallInv, CallsLive
<1>10. CountersExact'
  <2> SUFFICES ASSUME NEW s \in States
               PROVE  /\ depth'[s] = Cardinality(At(frames', OfState(s)))
                      /\ inflight'[s] = Cardinality(At(frames', Pooled(s))) + Cardinality(flying' \cap Pooled(s))
    BY DEF CountersExact, At, OfState, Pooled
  <2>1. /\ depth[s] = Cardinality(At(frames, OfState(s)))
        /\ inflight[s] = Cardinality(At(frames, Pooled(s))) + Cardinality(flying \cap Pooled(s))
        /\ Cardinality(flying \cap Pooled(s)) \in Nat
    BY CallFacts, FS_Intersection, FS_CardinalityType DEF CallInv, CountersExact
  <2>2. /\ Cardinality(At(frames', OfState(s))) = Cardinality(At(Callers, OfState(s))) + (IF over \in OfState(s) THEN 1 ELSE 0)
        /\ Cardinality(At(frames', Pooled(s))) = Cardinality(At(Callers, Pooled(s))) + (IF over \in Pooled(s) THEN 1 ELSE 0)
    BY <1>1, <1>2, <1>4, AtPushed
  <2>3. /\ over \in OfState(s) <=> Top \in OfState(s)
        /\ over \notin Pooled(s) /\ (Top \in Pooled(s) <=> s = Top.state /\ Top.kind = "pool")
    BY <1>2, <1>4 DEF OfState, Pooled
  <2>4. depth'[s] = Cardinality(At(frames', OfState(s)))
    BY <1>1, <1>2, <2>1, <2>2, <2>3
  <2>5. inflight'[s] = inflight[s] - (IF Top \in Pooled(s) THEN 1 ELSE 0)
    BY <1>7, <1>8, <2>1, <2>3
  <2>6. Cardinality(At(frames', Pooled(s))) = Cardinality(At(frames, Pooled(s))) - (IF Top \in Pooled(s) THEN 1 ELSE 0)
    BY <1>2, <2>2, <2>3
  <2> QED BY <1>1, <1>2, <2>1, <2>4, <2>5, <2>6
<1>11. Len(frames') + Cardinality(flying') <= started' /\ IsFiniteSet(flying')
  BY <1>1, <1>5, <1>9, CallFacts
<1>12. NodeCallTypes'
  <2>1. DOMAIN inflight' = States /\ inflight' = [s \in States |-> inflight'[s]]
    BY <1>7, <1>8
  <2>2. started' \in 0..MaxNodeCalls
    BY <1>1, <1>7
  <2>3. inflight' \in [States -> 0..MaxNodeCalls]
    BY <1>5, <1>10, <1>11, <2>1, <2>2, InflightBoundedAfter
  <2> QED BY <1>1, <1>5, <1>7, <2>2, <2>3, CallFacts DEF NodeCallTypes
<1>13. InFlight' = InFlight /\ Unended' = Unended \ {Top.call}
  BY <1>1, <1>2, <1>5, <1>9 DEF InFlight, Unended
<1>14. Unended' \subseteq 1..started' /\ \A s \in States : noted'[s] \subseteq (1..started') \ Unended'
  BY <1>1, <1>3, <1>6, <1>13, EndKeepsCallsLive
<1>15. CallsLive'
  BY <1>1, <1>5, <1>9, <1>11, <1>13, <1>14 DEF CallsLive
<1> QED BY <1>6, <1>10, <1>12, <1>15 DEF CallInv

\* The promise of a call settles, or its callback is called.
LEMMA SettledKeeps ==
  ASSUME CallInv, RunInv, NEW f \in flying, Settled(f)
  PROVE  CallInv' /\ RunInv'
<1>1. /\ flying' = flying \ {f} /\ frames' = frames /\ depth' = depth /\ tagged' = tagged
      /\ started' = started /\ UNCHANGED <<cur, born, timer, before, shipperVars>>
      /\ inflight' = IF f.kind = "pool" THEN [inflight EXCEPT ![f.state] = @ - 1] ELSE inflight
      /\ Record(f.state, f.call) \/ UNCHANGED <<series, noted>>
  BY DEF Settled, Finish
<1>2. f \in NodeFrames /\ f.state \in States /\ f.call \in InFlight /\ f.call \in Unended
  BY CallFacts DEF NodeFrames, InFlight, Unended
<1>3. RunInv' /\ \A r \in States : noted'[r] \subseteq noted[r] \cup {f.call}
  BY <1>1, <1>2, OutcomeKeepsRuns
<1>4. /\ OnStack \cap InFlight = {} /\ (OnStack \cup InFlight) \cap tagged = {}
      /\ \A g, h \in flying : g.call = h.call => g = h
      /\ Len(frames) + Cardinality(flying) <= started /\ Distinct(frames)
      /\ OnStack \cup Unended \subseteq 1..started /\ Running \subseteq OnStack
  BY DEF CallInv, CallsLive, Running, OnStack, Live, CallsIn
<1>5. Cardinality(flying') = Cardinality(flying) - 1 /\ IsFiniteSet(flying')
  BY <1>1, CallFacts, FS_RemoveElement
<1>6. Len(frames') + Cardinality(flying') <= started'
  BY <1>1, <1>4, <1>5, CallFacts
<1>7. CountersExact'
  <2> SUFFICES ASSUME NEW s \in States
               PROVE  /\ depth'[s] = Cardinality(At(frames', OfState(s)))
                      /\ inflight'[s] = Cardinality(At(frames', Pooled(s))) + Cardinality(flying' \cap Pooled(s))
    BY DEF CountersExact, At, OfState, Pooled
  <2>1. /\ depth[s] = Cardinality(At(frames, OfState(s)))
        /\ inflight[s] = Cardinality(At(frames, Pooled(s))) + Cardinality(flying \cap Pooled(s))
        /\ (f \in Pooled(s) <=> s = f.state /\ f.kind = "pool")
    BY <1>2 DEF CallInv, CountersExact, Pooled
  <2>2. /\ Cardinality(At(frames, Pooled(s))) \in Nat
        /\ Cardinality(flying \cap Pooled(s)) \in Nat /\ IsFiniteSet(flying \cap Pooled(s))
    BY CallFacts, AtIsFinite, FS_Intersection, FS_CardinalityType
  <2>3. inflight \in [States -> 0..MaxNodeCalls]
    BY DEF CallInv, NodeCallTypes
  <2>4. CASE f \in Pooled(s)
    <3>1. inflight'[s] = inflight[s] - 1
      BY <1>1, <1>2, <2>1, <2>3, <2>4
    <3>2. flying' \cap Pooled(s) = (flying \cap Pooled(s)) \ {f} /\ f \in flying \cap Pooled(s)
      BY <1>1, <2>4
    <3>3. Cardinality(flying' \cap Pooled(s)) = Cardinality(flying \cap Pooled(s)) - 1
      BY <2>2, <3>2, FS_RemoveElement
    <3> QED BY <1>1, <2>1, <2>2, <3>1, <3>3
  <2>5. CASE f \notin Pooled(s)
    <3>1. inflight'[s] = inflight[s]
      BY <1>1, <1>2, <2>1, <2>3, <2>5
    <3>2. flying' \cap Pooled(s) = flying \cap Pooled(s)
      BY <1>1, <2>5
    <3> QED BY <1>1, <2>1, <3>1, <3>2
  <2> QED BY <2>4, <2>5
<1>8. NodeCallTypes'
  <2>1. /\ depth \in [States -> 0..1] /\ inflight \in [States -> 0..MaxNodeCalls]
        /\ started \in 0..MaxNodeCalls
    BY DEF CallInv, NodeCallTypes
  <2>2. DOMAIN inflight' = States /\ inflight' = [s \in States |-> inflight'[s]]
    BY <1>1, <2>1
  <2>3. frames' \in Seq(NodeFrames) /\ started' \in 0..MaxNodeCalls
    BY <1>1, <2>1, CallFacts
  <2>4. inflight' \in [States -> 0..MaxNodeCalls]
    BY <1>5, <1>6, <1>7, <2>2, <2>3, InflightBoundedAfter
  <2> QED BY <1>1, <2>1, <2>3, <2>4, CallFacts DEF NodeCallTypes
<1>9. InFlight' = InFlight \ {f.call} /\ OnStack' = OnStack /\ Running' = Running
  <2>1. \A g \in flying : g.call = f.call => g = f
    BY <1>4
  <2> QED BY <1>1, <2>1 DEF InFlight, OnStack, CallsIn, Running, Live
<1>10. Unended' = Unended \ {f.call}
  BY <1>1, <1>2, <1>4, <1>9 DEF Unended
<1>11. Unended' \subseteq 1..started' /\ \A s \in States : noted'[s] \subseteq (1..started') \ Unended'
  BY <1>1, <1>2, <1>3, <1>10, EndKeepsCallsLive
<1>12. OnStack' \cap InFlight' = {} /\ (OnStack' \cup InFlight') \cap tagged' = {}
  BY <1>1, <1>4, <1>9
<1>13. CallsLive'
  BY <1>1, <1>4, <1>5, <1>6, <1>9, <1>11, <1>12 DEF CallsLive, Distinct
<1> QED BY <1>3, <1>7, <1>8, <1>13 DEF CallInv

\* A step of a hash object leaves the frames and the counters alone.
LEMMA TagKeeps ==
  ASSUME CallInv, UNCHANGED <<frames, flying, depth, inflight>>,
         tagged' \subseteq NodeCalls, started' \in 0..MaxNodeCalls, started' >= started,
         Unended' \subseteq 1..started', (OnStack \cup InFlight) \cap tagged' = {},
         \A s \in States : noted'[s] \subseteq (1..started') \ Unended'
  PROVE  CallInv'
<1>1. OnStack' = OnStack /\ InFlight' = InFlight /\ OnStack' \subseteq 1..started'
  <2>1. OnStack' = OnStack /\ InFlight' = InFlight
    BY DEF OnStack, InFlight, CallsIn
  <2> QED BY <2>1, CallFacts
<1>2. NodeCallTypes'
  BY DEF CallInv, NodeCallTypes
<1>3. CountersExact'
  BY DEF CallInv, CountersExact, At, OfState, Pooled
<1>4. Len(frames) + Cardinality(flying) <= started'
  BY CallFacts DEF CallInv, CallsLive
<1>5. Distinct(frames') /\ \A g, h \in flying' : g.call = h.call => g = h
  BY DEF CallInv, CallsLive, Distinct
<1>6. CallsLive'
  BY <1>1, <1>4, <1>5 DEF CallInv, CallsLive
<1> QED BY <1>2, <1>3, <1>6 DEF CallInv

\* A hash object is made.
LEMMA CreateHashKeeps ==
  ASSUME CallInv, RunInv, CreateHash
  PROVE  CallInv' /\ RunInv'
<1>1. /\ started < MaxNodeCalls /\ started' = started + 1 /\ tagged' = tagged \cup {started'}
      /\ UNCHANGED <<frames, flying, depth, inflight>> /\ noted' = noted
      /\ UNCHANGED <<series, noted, cur, born, timer, before, shipperVars>>
  BY DEF CreateHash, Timed
<1>2. RunInv'
  BY <1>1, NothingRecordedKeepsRuns
<1>3. /\ OnStack \cup Unended \subseteq 1..started /\ (OnStack \cup InFlight) \cap tagged = {}
      /\ \A s \in States : noted[s] \subseteq (1..started) \ Unended
  BY DEF CallInv, CallsLive
<1>4. started' \in 1..started' /\ started' \notin 1..started /\ 1..started \subseteq 1..started'
      /\ started' \in NodeCalls /\ started' \in 0..MaxNodeCalls /\ started' >= started
  BY <1>1, CallFacts DEF NodeCalls
<1>5. Unended' = Unended \cup {started'}
  BY <1>1 DEF Unended, Running, Live, InFlight
<1>6. tagged' \subseteq NodeCalls
  BY <1>1, <1>4, CallFacts
<1>7. Unended' \subseteq 1..started' /\ \A s \in States : noted'[s] \subseteq (1..started') \ Unended'
  BY <1>1, <1>3, <1>4, <1>5
<1>8. (OnStack \cup InFlight) \cap tagged' = {}
  BY <1>1, <1>3, <1>4 DEF Unended
<1>9. CallInv'
  BY <1>1, <1>4, <1>6, <1>7, <1>8, TagKeeps
<1> QED BY <1>2, <1>9

\* digest() is called.
LEMMA DigestKeeps ==
  ASSUME CallInv, RunInv, NEW c \in tagged, Digest(c)
  PROVE  CallInv' /\ RunInv'
<1>1. /\ tagged' = tagged \ {c} /\ started' = started /\ UNCHANGED <<frames, flying, depth, inflight>>
      /\ UNCHANGED <<cur, born, timer, before, shipperVars>>
      /\ IF cur = 0 THEN UNCHANGED <<series, noted>> ELSE Record(cur, c) \/ UNCHANGED <<series, noted>>
  BY DEF Digest
<1>2. c \in Unended
  BY DEF Unended
<1>3. RunInv' /\ \A r \in States : noted'[r] \subseteq noted[r] \cup {c}
  <2>1. CASE cur = 0
    <3>1. UNCHANGED <<series, noted, cur, born, timer, before, shipperVars>> /\ noted' = noted
      BY <1>1, <2>1
    <3> QED BY <3>1, NothingRecordedKeepsRuns
  <2>2. CASE cur # 0
    <3>1. cur \in States
      BY <2>2, NodeAssumption DEF RunInv, NodeRunTypes, States
    <3> QED BY <1>1, <1>2, <2>2, <3>1, OutcomeKeepsRuns
  <2> QED BY <2>1, <2>2
<1>4. (OnStack \cup InFlight) \cap tagged = {}
  BY DEF CallInv, CallsLive
<1>5. Unended' = Unended \ {c}
  <2>1. Running' = Running /\ InFlight' = InFlight /\ Running \subseteq OnStack
    BY <1>1 DEF Running, Live, InFlight, OnStack, CallsIn
  <2> QED BY <1>1, <1>4, <2>1 DEF Unended
<1>6. Unended' \subseteq 1..started' /\ \A s \in States : noted'[s] \subseteq (1..started') \ Unended'
  BY <1>1, <1>2, <1>3, <1>5, EndKeepsCallsLive
<1>7. started' \in 0..MaxNodeCalls /\ started' >= started /\ tagged' \subseteq NodeCalls
  BY <1>1, CallFacts, NodeAssumption
<1>8. CallInv'
  BY <1>1, <1>4, <1>6, <1>7, TagKeeps
<1> QED BY <1>3, <1>8

-----------------------------------------------------------------------------
(* Runs of the Node shipper *)

\* The exports beyond maxPendingExports are the oldest ones.
LEMMA OverflowIsOldest ==
  ASSUME NEW C, NEW q \in Seq(C)
  PROVE  LET d == Cardinality(Overflow(q))
         IN d \in 0..Len(q) /\ Overflow(q) = 1..d /\ Len(q) - d <= MaxNodePending
<1> DEFINE m == IF Len(q) > MaxNodePending THEN Len(q) - MaxNodePending ELSE 0
<1>1. Len(q) \in Nat /\ MaxNodePending \in Nat \ {0}
  BY NodeAssumption
<1>2. m \in 0..Len(q) /\ Len(q) - m <= MaxNodePending
  BY <1>1
<1>3. Overflow(q) = 1..m
  BY <1>1 DEF Overflow
<1> HIDE DEF m
<1>4. 1 \in Int /\ m \in Int
  BY <1>1, <1>2
<1>5. Cardinality(1..m) = IF 1 > m THEN 0 ELSE m - 1 + 1
  BY <1>4, FS_Interval
<1>6. Cardinality(Overflow(q)) = m
  BY <1>1, <1>2, <1>3, <1>5
<1> QED BY <1>2, <1>3, <1>6

\* What a run does to the state it is of, and nothing to another one.
RunStep(s) ==
  \A r \in States \ {s} : /\ series'[r] = series[r] /\ exports'[r] = exports[r]
                          /\ left'[r] = left[r] /\ busy'[r] = busy[r]
                          /\ chained'[r] = chained[r] /\ result'[r] = result[r]
RunTypes ==
  /\ series \in [States -> SUBSET NodeCalls] /\ exports \in [States -> Seq(SUBSET NodeCalls)]
  /\ busy \in [States -> {"no", "interval", "stop"}]
  /\ result \in [States -> {"none", "true", "false"}]
  /\ left \in [States -> SUBSET NodeCalls]

\* The synchronous beginning of a run.
LEMMA StartRunFacts ==
  ASSUME RunInv, NEW s \in States, NEW who \in {"interval", "stop"}, StartRun(s, who)
  PROVE  /\ RunTypes' /\ Len(exports'[s]) <= MaxNodePending
         /\ series'[s] = {}
         /\ AllOf(exports'[s]) \cup left'[s] = series[s] \cup AllOf(exports[s]) \cup left[s]
         /\ AllOf(exports'[s]) \cap left'[s] = {} /\ Apart(exports'[s]) /\ left[s] \subseteq left'[s]
         /\ busy'[s] \in {"no", who} /\ (busy'[s] # "no" <=> exports'[s] # <<>>)
         /\ result'[s] = IF exports'[s] = <<>> /\ who = "stop" /\ result[s] = "none" THEN "true" ELSE result[s]
         /\ \A r \in States \ {s} : /\ series'[r] = series[r] /\ exports'[r] = exports[r]
                                    /\ left'[r] = left[r] /\ busy'[r] = busy[r] /\ result'[r] = result[r]
<1> DEFINE all  == IF series[s] = {} THEN exports[s] ELSE Append(exports[s], series[s])
           d    == Cardinality(Overflow(all))
           kept == SubSeq(all, d + 1, Len(all))
           cut  == UNION {all[i] : i \in 1..d}
<1>1. /\ series \in [States -> SUBSET NodeCalls] /\ exports \in [States -> Seq(SUBSET NodeCalls)]
      /\ busy \in [States -> {"no", "interval", "stop"}]
      /\ result \in [States -> {"none", "true", "false"}]
      /\ left \in [States -> SUBSET NodeCalls]
  BY DEF RunInv, NodeRunTypes
<1>2. Ledger(s)
  BY RecordedOnceIs DEF RunInv
<1>3. /\ all \in Seq(SUBSET NodeCalls) /\ Apart(all)
      /\ AllOf(all) = series[s] \cup AllOf(exports[s])
  <2>1. CASE series[s] = {}
    BY <1>1, <1>2, <2>1 DEF Ledger
  <2>2. CASE series[s] # {}
    <3>1. /\ exports[s] \in Seq(SUBSET NodeCalls) /\ series[s] \in SUBSET NodeCalls
          /\ Apart(exports[s]) /\ AllOf(exports[s]) \cap series[s] = {}
      BY <1>1, <1>2 DEF Ledger
    <3>2. /\ Append(exports[s], series[s]) \in Seq(SUBSET NodeCalls)
          /\ AllOf(Append(exports[s], series[s])) = AllOf(exports[s]) \cup series[s]
          /\ Apart(Append(exports[s], series[s]))
      BY <3>1, ExportAdded
    <3> QED BY <2>2, <3>2
  <2> QED BY <2>1, <2>2
<1>4. /\ series' = [series EXCEPT ![s] = {}]
      /\ exports' = [exports EXCEPT ![s] = kept]
      /\ left' = [left EXCEPT ![s] = @ \cup UNION {all[i] : i \in Overflow(all)}]
      /\ busy' = [busy EXCEPT ![s] = IF kept = <<>> THEN "no" ELSE who]
      /\ result' = IF kept = <<>> /\ who = "stop" /\ result[s] = "none"
                   THEN [result EXCEPT ![s] = "true"] ELSE result
  BY DEF StartRun, Resolved
<1> HIDE DEF all
<1>5. d \in 0..Len(all) /\ Overflow(all) = 1..d /\ Len(all) - d <= MaxNodePending
  BY <1>3, OverflowIsOldest
<1>6. left' = [left EXCEPT ![s] = @ \cup cut]
  BY <1>4, <1>5
<1>7. /\ kept \in Seq(SUBSET NodeCalls) /\ Len(kept) = Len(all) - d
      /\ AllOf(all) = AllOf(kept) \cup cut /\ AllOf(kept) \cap cut = {} /\ Apart(kept)
  BY <1>3, <1>5, ExportsRemoved
<1> HIDE DEF d, kept, cut
<1>8. cut \subseteq NodeCalls
  <2>1. AllOf(all) \subseteq NodeCalls
    BY <1>1, <1>2, <1>3 DEF Ledger, RunInv, NodeRunTypes
  <2> QED BY <1>7, <2>1
<1>9. /\ series'[s] = {} /\ exports'[s] = kept /\ left'[s] = left[s] \cup cut
      /\ busy'[s] = (IF kept = <<>> THEN "no" ELSE who)
      /\ result'[s] = IF kept = <<>> /\ who = "stop" /\ result[s] = "none" THEN "true" ELSE result[s]
  BY <1>1, <1>4, <1>6
<1>10. RunTypes'
  BY <1>1, <1>4, <1>6, <1>7, <1>8 DEF RunTypes
<1>11. AllOf(kept) \cap (left[s] \cup cut) = {}
  BY <1>2, <1>3, <1>7 DEF Ledger
<1>12. \A r \in States \ {s} : /\ series'[r] = series[r] /\ exports'[r] = exports[r]
                               /\ left'[r] = left[r] /\ busy'[r] = busy[r] /\ result'[r] = result[r]
  BY <1>1, <1>4, <1>6
<1>13. AllOf(kept) \cup (left[s] \cup cut) = series[s] \cup AllOf(exports[s]) \cup left[s]
  BY <1>3, <1>7
<1> QED BY <1>5, <1>7, <1>9, <1>10, <1>11, <1>12, <1>13

\* A step of state s that moves calls between its places keeps what is said
\* of all states, when it keeps it for s.
LEMMA RunStepKeeps ==
  ASSUME RunInv, NEW s \in States, UNCHANGED noted, NodeRunTypes', RunStep(s), StopOnce',
         noted[s] = series'[s] \cup AllOf(exports'[s]) \cup left'[s],
         series'[s] \cap AllOf(exports'[s]) = {},
         (series'[s] \cup AllOf(exports'[s])) \cap left'[s] = {},
         Apart(exports'[s]),
         result'[s] = "true" => before'[s] \subseteq left'[s],
         busy'[s] # "no" => exports'[s] # <<>>,
         busy'[s] = "stop" => before'[s] \cap series'[s] = {},
         before'[s] \subseteq noted[s],
         \A r \in States \ {s} : before'[r] = before[r]
  PROVE  RunInv'
<1>1. (\A r \in States : Ledger(r)) /\ NotedApart
  BY RecordedOnceIs DEF RunInv
<1>2. ASSUME NEW r \in States PROVE Ledger(r)'
  <2>1. (Ledger(r))' <=> /\ noted'[r] = series'[r] \cup AllOf(exports'[r]) \cup left'[r]
                         /\ series'[r] \cap AllOf(exports'[r]) = {}
                         /\ (series'[r] \cup AllOf(exports'[r])) \cap left'[r] = {}
                         /\ Apart(exports'[r])
    BY DEF Ledger, AllOf, Apart
  <2>2. CASE r = s
    BY <2>1, <2>2
  <2>3. CASE r # s
    <3>1. series'[r] = series[r] /\ exports'[r] = exports[r] /\ left'[r] = left[r] /\ noted'[r] = noted[r]
      BY <2>3 DEF RunStep
    <3> QED BY <1>1, <2>1, <3>1 DEF Ledger
  <2> QED BY <2>2, <2>3
<1>3. NotedApart'
  BY <1>1 DEF NotedApart
<1>4. NodeRecordedOnce'
  BY <1>2, <1>3, RecordedOnceIsAfter
<1>5. TrueMeansAnswered'
  BY DEF RunInv, TrueMeansAnswered, RunStep
<1>6. RunsOK'
  BY DEF RunInv, RunsOK, RunStep
<1> QED BY <1>4, <1>5, <1>6 DEF RunInv

\* Neither a run nor init() and shutdown() touch the calls under way.
LEMMA CallsUntouched ==
  ASSUME CallInv, UNCHANGED <<nodeCallVars, noted>>
  PROVE  CallInv'
<1>1. UNCHANGED <<started, frames, flying, tagged, depth, inflight, noted>>
  BY DEF nodeCallVars
<1>2. NodeCallTypes' /\ CountersExact'
  BY <1>1 DEF CallInv, NodeCallTypes, CountersExact, At, OfState, Pooled
<1>3. Unended' = Unended /\ OnStack' = OnStack /\ InFlight' = InFlight /\ (Distinct(frames))' = Distinct(frames)
  BY <1>1 DEF Unended, OnStack, Running, InFlight, CallsIn, Live, Distinct
<1>4. CallsLive'
  BY <1>1, <1>3 DEF CallInv, CallsLive
<1> QED BY <1>2, <1>4 DEF CallInv

\* A run begins, and nothing but the run is about to be changed.
LEMMA BeginRunFacts ==
  ASSUME RunInv, NEW s \in States, NEW who \in {"interval", "stop"}, BeginRun(s, who)
  PROVE  /\ RunTypes' /\ Len(exports'[s]) <= MaxNodePending
         /\ series'[s] = {}
         /\ AllOf(exports'[s]) \cup left'[s] = series[s] \cup AllOf(exports[s]) \cup left[s]
         /\ AllOf(exports'[s]) \cap left'[s] = {} /\ Apart(exports'[s]) /\ left[s] \subseteq left'[s]
         /\ busy'[s] \in {"no", who} /\ (busy'[s] # "no" => exports'[s] # <<>>)
         /\ \/ result'[s] = result[s]
            \/ who = "stop" /\ result'[s] = "false"
            \/ who = "stop" /\ result'[s] = "true" /\ exports'[s] = <<>>
         /\ \A r \in States \ {s} : /\ series'[r] = series[r] /\ exports'[r] = exports[r]
                                    /\ left'[r] = left[r] /\ busy'[r] = busy[r] /\ result'[r] = result[r]
<1>1. CASE StartRun(s, who)
  BY <1>1, StartRunFacts
<1>2. CASE BuildThrows(s, who)
  <2>1. /\ series' = [series EXCEPT ![s] = {}]
        /\ left' = [left EXCEPT ![s] = @ \cup series[s]]
        /\ result' = IF who = "stop" /\ result[s] = "none" THEN [result EXCEPT ![s] = "false"] ELSE result
        /\ UNCHANGED <<exports, busy>> /\ busy[s] = "no"
    BY <1>2 DEF BeginRun, BuildThrows, Resolved
  <2>2. /\ series \in [States -> SUBSET NodeCalls] /\ exports \in [States -> Seq(SUBSET NodeCalls)]
        /\ busy \in [States -> {"no", "interval", "stop"}]
        /\ result \in [States -> {"none", "true", "false"}]
        /\ left \in [States -> SUBSET NodeCalls] /\ Len(exports[s]) <= MaxNodePending
    BY DEF RunInv, NodeRunTypes
  <2>3. Ledger(s)
    BY RecordedOnceIs DEF RunInv
  <2>4. RunTypes'
    BY <2>1, <2>2 DEF RunTypes
  <2>5. /\ series'[s] = {} /\ left'[s] = left[s] \cup series[s] /\ exports'[s] = exports[s] /\ busy'[s] = "no"
        /\ result'[s] = IF who = "stop" /\ result[s] = "none" THEN "false" ELSE result[s]
        /\ \A r \in States \ {s} : /\ series'[r] = series[r] /\ exports'[r] = exports[r]
                                   /\ left'[r] = left[r] /\ busy'[r] = busy[r] /\ result'[r] = result[r]
    BY <2>1, <2>2
  <2>6. AllOf(exports'[s]) = AllOf(exports[s]) /\ Apart(exports'[s])
    BY <2>3, <2>5 DEF Ledger
  <2>7. AllOf(exports[s]) \cap (left[s] \cup series[s]) = {}
    BY <2>3 DEF Ledger
  <2> QED BY <2>2, <2>4, <2>5, <2>6, <2>7
<1> QED BY <1>1, <1>2 DEF BeginRun

LEMMA BeginRunKeeps ==
  ASSUME RunInv, NEW s \in States, NEW who \in {"interval", "stop"}, BeginRun(s, who), noted' = noted,
         cur' \in 0..MaxNodeInits, born' \in 0..MaxNodeInits, timer' \in [States -> BOOLEAN],
         chained' \in [States -> SUBSET {"interval", "stop"}],
         before' \in [States -> SUBSET NodeCalls], before'[s] \subseteq noted[s],
         result[s] = "true" => before'[s] \subseteq left[s],
         \A r \in States \ {s} : chained'[r] = chained[r] /\ before'[r] = before[r],
         StopOnce'
  PROVE  RunInv'
<1>1. /\ RunTypes' /\ Len(exports'[s]) <= MaxNodePending
      /\ series'[s] = {}
      /\ AllOf(exports'[s]) \cup left'[s] = series[s] \cup AllOf(exports[s]) \cup left[s]
      /\ AllOf(exports'[s]) \cap left'[s] = {} /\ Apart(exports'[s]) /\ left[s] \subseteq left'[s]
      /\ busy'[s] \in {"no", who} /\ (busy'[s] # "no" => exports'[s] # <<>>)
      /\ \/ result'[s] = result[s]
         \/ who = "stop" /\ result'[s] = "false"
         \/ who = "stop" /\ result'[s] = "true" /\ exports'[s] = <<>>
      /\ \A r \in States \ {s} : /\ series'[r] = series[r] /\ exports'[r] = exports[r]
                                 /\ left'[r] = left[r] /\ busy'[r] = busy[r] /\ result'[r] = result[r]
  BY BeginRunFacts
<1>2. RunStep(s)
  BY <1>1 DEF RunStep
<1>3. NodeRunTypes'
  <2>1. noted' \in [States -> SUBSET NodeCalls]
    BY DEF RunInv, NodeRunTypes
  <2>2. \A r \in States : Len(exports'[r]) <= MaxNodePending
    BY <1>1 DEF RunInv, NodeRunTypes
  <2> QED BY <1>1, <2>1, <2>2 DEF NodeRunTypes, RunTypes
<1>4. noted[s] = series'[s] \cup AllOf(exports'[s]) \cup left'[s]
  BY <1>1, RecordedOnceIs DEF RunInv, Ledger
<1>5. result'[s] = "true" => before'[s] \subseteq left'[s]
  <2>1. exports'[s] = <<>> => AllOf(exports'[s]) = {}
    BY DEF AllOf
  <2>2. CASE exports'[s] = <<>> /\ who = "stop"
    BY <1>1, <1>4, <2>1, <2>2
  <2>3. CASE result'[s] = result[s]
    BY <1>1, <2>3
  <2> QED BY <1>1, <2>2, <2>3
<1> QED BY <1>1, <1>2, <1>3, <1>4, <1>5, RunStepKeeps

\* A step leaves the places of the calls alone.
LEMMA ScheduleKeeps ==
  ASSUME RunInv, UNCHANGED <<noted, series, exports, left, busy>>,
         cur' \in 0..MaxNodeInits, born' \in 0..MaxNodeInits, timer' \in [States -> BOOLEAN],
         chained' \in [States -> SUBSET {"interval", "stop"}],
         result' \in [States -> {"none", "true", "false"}],
         before' \in [States -> SUBSET NodeCalls],
         \A r \in States : /\ before'[r] \subseteq noted[r]
                           /\ result'[r] = "true" => before'[r] \subseteq left[r]
                           /\ busy[r] = "stop" => before'[r] = before[r],
         StopOnce'
  PROVE  RunInv'
<1>1. NodeRunTypes'
  BY DEF RunInv, NodeRunTypes
<1>2. NodeRecordedOnce'
  BY DEF RunInv, NodeRecordedOnce, Waiting
<1>3. TrueMeansAnswered' /\ RunsOK'
  BY DEF RunInv, TrueMeansAnswered, RunsOK
<1> QED BY <1>1, <1>2, <1>3 DEF RunInv

\* What holds of the run types, once and for all steps below.
LEMMA RunFacts ==
  ASSUME RunInv
  PROVE  /\ cur \in 0..MaxNodeInits /\ born \in 0..MaxNodeInits /\ MaxNodeInits \in Nat
         /\ timer \in [States -> BOOLEAN] /\ busy \in [States -> {"no", "interval", "stop"}]
         /\ chained \in [States -> SUBSET {"interval", "stop"}]
         /\ result \in [States -> {"none", "true", "false"}]
         /\ before \in [States -> SUBSET NodeCalls] /\ noted \in [States -> SUBSET NodeCalls]
         /\ \A r \in States : /\ before[r] \subseteq noted[r]
                              /\ result[r] = "true" => before[r] \subseteq left[r]
                              /\ Ledger(r)
BY NodeAssumption, RecordedOnceIs DEF RunInv, NodeRunTypes, RunsOK, TrueMeansAnswered

\* The interval comes round, or a chained tick has its turn.
LEMMA IntervalTickKeeps ==
  ASSUME RunInv, NEW s \in States, IntervalTick(s)
  PROVE  RunInv'
<1>1. /\ timer[s] /\ NodeTick(s, "interval") /\ UNCHANGED <<cur, born, noted, timer, before>>
  BY DEF IntervalTick
<1>2. cur = s /\ NotStopped(s) /\ cur <= born
  BY <1>1 DEF RunInv, StopOnce
<1>3. CASE BeginRun(s, "interval") /\ chained' = chained
  <2>1. /\ busy'[s] \in {"no", "interval"} /\ result'[s] = result[s]
        /\ \A r \in States \ {s} : busy'[r] = busy[r] /\ result'[r] = result[r]
    BY <1>3, BeginRunFacts
  <2>2. StopOnce'
    BY <1>1, <1>2, <1>3, <2>1 DEF RunInv, StopOnce, NotStopped
  <2> QED BY <1>1, <1>3, <2>2, RunFacts, BeginRunKeeps
<1>4. CASE chained' = [chained EXCEPT ![s] = @ \cup {"interval"}] /\ UNCHANGED <<series, exports, left, busy, result>>
  <2>1. /\ chained'[s] = chained[s] \cup {"interval"} /\ \A r \in States \ {s} : chained'[r] = chained[r]
        /\ chained' \in [States -> SUBSET {"interval", "stop"}]
    BY <1>4, RunFacts
  <2>2. StopOnce'
    BY <1>1, <1>2, <1>4, <2>1 DEF RunInv, StopOnce, NotStopped
  <2> QED BY <1>1, <1>4, <2>1, <2>2, RunFacts, ScheduleKeeps
<1> QED BY <1>1, <1>3, <1>4 DEF NodeTick

LEMMA NextTickKeeps ==
  ASSUME RunInv, NEW s \in States, NEW who \in chained[s], NextTick(s, who)
  PROVE  RunInv'
<1>1. /\ BeginRun(s, who) /\ chained' = [chained EXCEPT ![s] = @ \ {who}]
      /\ UNCHANGED <<cur, born, noted, timer, before>> /\ who \in {"interval", "stop"}
  BY RunFacts DEF NextTick
<1>2. /\ chained'[s] = chained[s] \ {who} /\ \A r \in States \ {s} : chained'[r] = chained[r]
      /\ chained' \in [States -> SUBSET {"interval", "stop"}]
  BY <1>1, RunFacts
<1>3. /\ busy'[s] \in {"no", who} /\ (result'[s] = result[s] \/ who = "stop")
      /\ \A r \in States \ {s} : busy'[r] = busy[r] /\ result'[r] = result[r]
  BY <1>1, BeginRunFacts
<1>4. NotStopped(s) => (NotStopped(s))'
  BY <1>2, <1>3 DEF NotStopped
<1>5. StopOnce'
  BY <1>1, <1>2, <1>3, <1>4 DEF RunInv, StopOnce, NotStopped
<1> QED BY <1>1, <1>2, <1>5, RunFacts, BeginRunKeeps

LEMMA TailOf ==
  ASSUME NEW S, NEW q \in Seq(S), q # <<>>
  PROVE  /\ Len(q) > 1 => Len(Tail(q)) > 0
         /\ Len(q) = 1 => Tail(q) = <<>>
<1>1. Tail(q) \in Seq(S) /\ Len(Tail(q)) = Len(q) - 1 /\ Len(q) \in Nat
  OBVIOUS
<1>2. \A r \in Seq(S) : Len(r) = 0 => r = <<>>
  OBVIOUS
<1> QED BY <1>1, <1>2

\* A post is answered for good, or fails; the deadline of shutdown() is over.
LEMMA RunEndKeeps ==
  ASSUME RunInv, NEW s \in States, Answered(s) \/ Failed(s)
  PROVE  RunInv'
<1>1. /\ busy[s] # "no" /\ UNCHANGED <<cur, born, series, noted, timer, before, chained>>
      /\ \/ /\ exports' = [exports EXCEPT ![s] = Tail(@)]
            /\ left' = [left EXCEPT ![s] = @ \cup Head(exports[s])]
            /\ \/ Len(exports[s]) > 1 /\ UNCHANGED <<busy, result>>
               \/ EndRun(s, IF Len(exports[s]) = 1 THEN "true" ELSE "false")
         \/ EndRun(s, "false") /\ exports' = exports /\ left' = left
  BY DEF Answered, Failed
<1>2. PICK ending \in {"true", "false"} :
        \/ Len(exports'[s]) > 0 /\ UNCHANGED <<busy, result>>
        \/ EndRun(s, ending) /\ (ending = "true" => exports'[s] = <<>>)
  <2>1. exports \in [States -> Seq(SUBSET NodeCalls)] /\ exports[s] # <<>>
    BY <1>1 DEF RunInv, NodeRunTypes, RunsOK
  <2>2. CASE exports' = [exports EXCEPT ![s] = Tail(@)]
    <3>1. exports'[s] = Tail(exports[s])
      BY <2>1, <2>2
    <3>2. /\ Len(exports[s]) > 1 => Len(Tail(exports[s])) > 0
          /\ Len(exports[s]) = 1 => Tail(exports[s]) = <<>>
      BY <2>1, TailOf
    <3>3. CASE Len(exports[s]) > 1 /\ UNCHANGED <<busy, result>>
      BY <3>1, <3>2, <3>3
    <3>4. CASE EndRun(s, IF Len(exports[s]) = 1 THEN "true" ELSE "false")
      BY <3>1, <3>2, <3>4
    <3>5. CASE EndRun(s, "false")
      BY <3>5
    <3> QED BY <1>1, <3>3, <3>4, <3>5
  <2>3. CASE EndRun(s, "false")
    BY <2>3
  <2> QED BY <1>1, <2>2, <2>3
<1>3. /\ exports[s] # <<>> /\ exports \in [States -> Seq(SUBSET NodeCalls)]
      /\ left \in [States -> SUBSET NodeCalls] /\ Ledger(s) /\ Len(exports[s]) <= MaxNodePending
  BY <1>1, RunFacts DEF RunInv, NodeRunTypes, RunsOK
<1>4. /\ exports' \in [States -> Seq(SUBSET NodeCalls)] /\ left' \in [States -> SUBSET NodeCalls]
      /\ AllOf(exports'[s]) \cup left'[s] = AllOf(exports[s]) \cup left[s]
      /\ AllOf(exports'[s]) \cap left'[s] = {} /\ Apart(exports'[s]) /\ left[s] \subseteq left'[s]
      /\ Len(exports'[s]) <= MaxNodePending
      /\ \A r \in States \ {s} : exports'[r] = exports[r] /\ left'[r] = left[r]
  <2>1. CASE exports' = exports /\ left' = left
    BY <1>3, <2>1 DEF Ledger
  <2>2. CASE /\ exports' = [exports EXCEPT ![s] = Tail(@)]
             /\ left' = [left EXCEPT ![s] = @ \cup Head(exports[s])]
    <3> DEFINE q == exports[s]
    <3>1. /\ q \in Seq(SUBSET NodeCalls) /\ q # <<>> /\ Apart(q) /\ 1 \in 0..Len(q)
          /\ Tail(q) = SubSeq(q, 1 + 1, Len(q)) /\ Head(q) = UNION {q[i] : i \in 1..1}
          /\ Head(q) \in SUBSET NodeCalls
      BY <1>3 DEF Ledger
    <3> HIDE DEF q
    <3>2. /\ Tail(q) \in Seq(SUBSET NodeCalls) /\ Len(Tail(q)) = Len(q) - 1
          /\ AllOf(q) = AllOf(Tail(q)) \cup Head(q) /\ AllOf(Tail(q)) \cap Head(q) = {}
          /\ Apart(Tail(q))
      <4>1. LET rest == SubSeq(q, 1 + 1, Len(q))
                cut  == UNION {q[i] : i \in 1..1}
            IN /\ rest \in Seq(SUBSET NodeCalls) /\ Len(rest) = Len(q) - 1
               /\ AllOf(q) = AllOf(rest) \cup cut /\ AllOf(rest) \cap cut = {}
               /\ Apart(rest)
        BY <3>1, ExportsRemoved
      <4> QED BY <3>1, <4>1
    <3>3. exports'[s] = Tail(q) /\ left'[s] = left[s] \cup Head(q)
      BY <1>3, <2>2 DEF q
    <3>4. AllOf(q) \cap left[s] = {}
      BY <1>3 DEF Ledger, q
    <3>5. AllOf(Tail(q)) \cap (left[s] \cup Head(q)) = {}
      BY <3>2, <3>4
    <3>6. exports' \in [States -> Seq(SUBSET NodeCalls)]
      BY <1>3, <2>2, <3>2 DEF q
    <3>7. left' \in [States -> SUBSET NodeCalls]
      BY <1>3, <2>2, <3>1 DEF q
    <3>8. Len(Tail(q)) <= MaxNodePending
      BY <1>3, <3>1, <3>2, NodeAssumption DEF q
    <3>9. \A r \in States \ {s} : exports'[r] = exports[r] /\ left'[r] = left[r]
      BY <1>3, <2>2
    <3>10. AllOf(exports[s]) = AllOf(q)
      BY DEF q
    <3> QED BY <3>2, <3>3, <3>5, <3>6, <3>7, <3>8, <3>9, <3>10
  <2> QED BY <1>1, <2>1, <2>2
<1>5. /\ noted[s] = series'[s] \cup AllOf(exports'[s]) \cup left'[s]
      /\ series'[s] \cap AllOf(exports'[s]) = {}
      /\ (series'[s] \cup AllOf(exports'[s])) \cap left'[s] = {}
  <2>1. series'[s] = series[s]
    BY <1>1
  <2> QED BY <1>3, <1>4, <2>1 DEF Ledger
<1>6. /\ busy'[s] # "no" => exports'[s] # <<>> /\ busy'[s] = busy[s] /\ result'[s] = result[s]
      /\ busy' \in [States -> {"no", "interval", "stop"}] /\ result' \in [States -> {"none", "true", "false"}]
      /\ result'[s] = "true" => result[s] = "true" \/ (busy[s] = "stop" /\ exports'[s] = <<>>)
      /\ result'[s] # result[s] => busy[s] = "stop"
      /\ \A r \in States \ {s} : busy'[r] = busy[r] /\ result'[r] = result[r]
      /\ busy'[s] \in {"no", busy[s]}
  <2>1. CASE Len(exports'[s]) > 0 /\ UNCHANGED <<busy, result>>
    <3>1. exports'[s] # <<>>
      BY <2>1
    <3>2. /\ busy \in [States -> {"no", "interval", "stop"}]
          /\ result \in [States -> {"none", "true", "false"}]
      BY RunFacts
    <3>3. busy' = busy /\ result' = result
      BY <2>1
    <3> HIDE DEF EndRun
    <3> QED BY <3>1, <3>2, <3>3
  <2>2. CASE EndRun(s, ending) /\ (ending = "true" => exports'[s] = <<>>)
    <3>1. /\ busy \in [States -> {"no", "interval", "stop"}]
          /\ result \in [States -> {"none", "true", "false"}]
      BY RunFacts
    <3>2. busy'[s] = "no" /\ busy' = [busy EXCEPT ![s] = "no"]
      BY <2>2, <3>1 DEF EndRun
    <3>3. \/ result' = result
          \/ busy[s] = "stop" /\ result' = [result EXCEPT ![s] = "false"]
          \/ busy[s] = "stop" /\ exports'[s] = <<>> /\ result' = [result EXCEPT ![s] = "true"]
      BY <2>2 DEF EndRun, Resolved
    <3>4. busy' \in [States -> {"no", "interval", "stop"}] /\ result' \in [States -> {"none", "true", "false"}]
      BY <3>1, <3>2, <3>3
    <3>5. \A r \in States \ {s} : busy'[r] = busy[r] /\ result'[r] = result[r]
      BY <3>1, <3>2, <3>3
    <3>6. result'[s] # result[s] => busy[s] = "stop" /\ (result'[s] = "true" => exports'[s] = <<>>)
      BY <3>1, <3>3
    <3> QED BY <3>2, <3>4, <3>5, <3>6
  <2> QED BY <1>2, <2>1, <2>2
<1>7. NodeRunTypes'
  <2>1. \A r \in States : Len(exports'[r]) <= MaxNodePending
    BY <1>4 DEF RunInv, NodeRunTypes
  <2> QED BY <1>1, <1>4, <1>6, <2>1 DEF RunInv, NodeRunTypes
<1>8. StopOnce'
  BY <1>1, <1>6 DEF RunInv, StopOnce, NotStopped
<1>9. result'[s] = "true" => before'[s] \subseteq left'[s]
  <2>1. CASE result[s] = "true"
    BY <1>1, <1>4, <2>1, RunFacts
  <2>2. CASE busy[s] = "stop" /\ exports'[s] = <<>>
    <3>1. before[s] \cap series[s] = {} /\ before[s] \subseteq noted[s]
      BY <2>2 DEF RunInv, RunsOK
    <3>2. AllOf(exports'[s]) = {}
      BY <2>2 DEF AllOf
    <3> QED BY <1>1, <1>5, <3>1, <3>2
  <2> QED BY <1>6, <2>1, <2>2
<1>10. RunStep(s)
  BY <1>1, <1>4, <1>6 DEF RunStep
<1>11. /\ busy'[s] # "no" => exports'[s] # <<>>
       /\ busy'[s] = "stop" => before'[s] \cap series'[s] = {}
       /\ before'[s] \subseteq noted[s] /\ \A r \in States \ {s} : before'[r] = before[r]
  BY <1>1, <1>6 DEF RunInv, RunsOK
<1>12. UNCHANGED noted
  BY <1>1
<1> QED BY <1>4, <1>5, <1>7, <1>8, <1>9, <1>10, <1>11, <1>12, RunStepKeeps

LEMMA DeadlineOverKeeps ==
  ASSUME RunInv, NEW s \in States, DeadlineOver(s)
  PROVE  RunInv'
<1>1. /\ s <= born /\ cur # s /\ result[s] = "none" /\ result' = [result EXCEPT ![s] = "false"]
      /\ UNCHANGED <<cur, born, series, noted, timer, before, exports, busy, chained, left>>
  BY DEF DeadlineOver, Stopping
<1>2. /\ result'[s] = "false" /\ \A r \in States \ {s} : result'[r] = result[r]
      /\ result' \in [States -> {"none", "true", "false"}]
  BY <1>1, RunFacts
<1>3. StopOnce'
  <2>1. s \in Nat /\ born \in Nat /\ ~(s > born)
    BY <1>1, RunFacts DEF States
  <2> QED BY <1>1, <1>2, <2>1 DEF RunInv, StopOnce, NotStopped
<1>4. \A r \in States : result'[r] = "true" => before'[r] \subseteq left[r]
  BY <1>1, <1>2, RunFacts
<1> QED BY <1>1, <1>2, <1>3, <1>4, RunFacts, ScheduleKeeps

\* init() makes a state that no run has been for.
LEMMA NodeStartKeeps ==
  ASSUME RunInv, NodeStart
  PROVE  RunInv'
<1>1. /\ cur = 0 /\ born < MaxNodeInits /\ born' = born + 1 /\ cur' = born'
      /\ timer' = [timer EXCEPT ![born'] = TRUE]
      /\ UNCHANGED <<series, noted, before, exports, busy, chained, result, left>>
  BY DEF NodeStart, shipperVars
<1>2. born' \in 0..MaxNodeInits /\ born' \in States /\ born' > born /\ born \in Nat
  BY <1>1, RunFacts DEF States
<1>3. timer' \in [States -> BOOLEAN] /\ \A r \in States : timer'[r] => r = born'
  <2>1. ASSUME NEW r \in States PROVE ~timer[r]
    <3>1. r # 0
      BY RunFacts DEF States
    <3> QED BY <1>1, <3>1 DEF RunInv, StopOnce
  <2> QED BY <1>1, <2>1, RunFacts
<1>4. StopOnce'
  <2>1. \A r \in States : r > born' \/ r = born' => r > born
    BY <1>1, <1>2 DEF States
  <2>2. cur' <= born'
    BY <1>1, <1>2
  <2> QED BY <1>1, <1>3, <2>1, <2>2 DEF RunInv, StopOnce, NotStopped
<1> QED BY <1>1, <1>2, <1>3, <1>4, RunFacts, ScheduleKeeps

\* shutdown() asks for the last run of its state.
LEMMA NodeShutdownKeeps ==
  ASSUME RunInv, NodeShutdown
  PROVE  RunInv'
<1>1. /\ cur # 0 /\ cur' = 0 /\ born' = born /\ noted' = noted
      /\ timer' = [timer EXCEPT ![cur] = FALSE]
      /\ before' = [before EXCEPT ![cur] = noted[cur]]
      /\ NodeTick(cur, "stop")
  BY DEF NodeShutdown
<1>2. /\ cur \in States /\ cur <= born /\ NotStopped(cur) /\ cur' \in 0..MaxNodeInits
      /\ cur \in Nat /\ born \in Nat
  BY <1>1, RunFacts DEF RunInv, StopOnce, States
<1>3. /\ timer' \in [States -> BOOLEAN] /\ \A r \in States : ~timer'[r]
      /\ before' \in [States -> SUBSET NodeCalls] /\ before'[cur] = noted[cur]
      /\ \A r \in States \ {cur} : before'[r] = before[r]
  BY <1>1, <1>2, RunFacts DEF RunInv, StopOnce
<1>4. \A r \in States : r > born \/ r = cur' => r # cur /\ r > born
  BY <1>1, <1>2 DEF States
<1>5. cur' <= born'
  BY <1>1, <1>2
<1>6. CASE BeginRun(cur, "stop") /\ chained' = chained
  <2>1. \A r \in States \ {cur} : busy'[r] = busy[r] /\ result'[r] = result[r]
    BY <1>2, <1>6, BeginRunFacts
  <2>2. StopOnce'
    BY <1>1, <1>3, <1>4, <1>5, <1>6, <2>1 DEF RunInv, StopOnce, NotStopped
  <2>3. result[cur] # "true"
    BY <1>2 DEF NotStopped
  <2> QED BY <1>1, <1>2, <1>3, <1>6, <2>2, <2>3, RunFacts, BeginRunKeeps
<1>7. CASE chained' = [chained EXCEPT ![cur] = @ \cup {"stop"}] /\ UNCHANGED <<series, exports, left, busy, result>>
  <2>1. /\ \A r \in States \ {cur} : chained'[r] = chained[r]
        /\ chained' \in [States -> SUBSET {"interval", "stop"}]
    BY <1>2, <1>7, RunFacts
  <2>2. StopOnce'
    BY <1>1, <1>3, <1>4, <1>5, <1>7, <2>1 DEF RunInv, StopOnce, NotStopped
  <2>3. busy[cur] # "stop" /\ result[cur] # "true"
    BY <1>2 DEF NotStopped
  <2>4. ASSUME NEW r \in States
        PROVE  /\ before'[r] \subseteq noted[r] /\ (result'[r] = "true" => before'[r] \subseteq left[r])
               /\ (busy[r] = "stop" => before'[r] = before[r])
    <3>1. CASE r = cur
      BY <1>3, <1>7, <2>3, <3>1
    <3>2. CASE r # cur
      BY <1>3, <1>7, <3>2, RunFacts
    <3> QED BY <3>1, <3>2
  <2> QED BY <1>1, <1>2, <1>3, <1>7, <2>1, <2>2, <2>4, RunFacts, ScheduleKeeps
<1> QED BY <1>1, <1>6, <1>7 DEF NodeTick

-----------------------------------------------------------------------------
(* Theorems about the Node agent *)

LEMMA NodeInitHolds == NodeInit => NodeInv
<1> SUFFICES ASSUME NodeInit PROVE NodeInv
  OBVIOUS
<1>1. frames = <<>> /\ Len(frames) = 0 /\ 1..Len(frames) = {} /\ flying = {} /\ tagged = {}
      /\ started = 0 /\ cur = 0 /\ born = 0
  BY DEF NodeInit
<1>2. 0 \in 0..MaxNodeCalls /\ 0 \in 0..MaxNodeInits /\ 0 <= MaxNodePending
  BY NodeAssumption
<1>3. frames \in Seq(NodeFrames) /\ <<>> \in Seq(SUBSET NodeCalls)
  BY <1>1
<1>4. NodeCallTypes /\ NodeRunTypes /\ NodeMarkTypes
  <2>1. NodeCallTypes
    BY <1>1, <1>2, <1>3 DEF NodeInit, NodeCallTypes
  <2>2. NodeRunTypes
    <3>1. \A s \in States : Len(exports[s]) <= MaxNodePending
      BY <1>2 DEF NodeInit
    <3> QED BY <1>1, <1>2, <1>3, <3>1 DEF NodeInit, NodeRunTypes
  <2>3. NodeMarkTypes
    BY DEF NodeInit, NodeMarkTypes
  <2> QED BY <2>1, <2>2, <2>3
<1>5. CountersExact
  <2> SUFFICES ASSUME NEW s \in States
               PROVE  /\ depth[s] = Cardinality(At(frames, OfState(s)))
                      /\ inflight[s] = Cardinality(At(frames, Pooled(s))) + Cardinality(flying \cap Pooled(s))
    BY DEF CountersExact
  <2>1. At(frames, OfState(s)) = {} /\ At(frames, Pooled(s)) = {} /\ flying \cap Pooled(s) = {}
    BY <1>1 DEF At
  <2>2. depth[s] = 0 /\ inflight[s] = 0
    BY DEF NodeInit
  <2> QED BY <2>1, <2>2, FS_EmptySet
<1>6. NodeRecordedOnce
  BY DEF NodeInit, NodeRecordedOnce, Waiting
<1>7. TrueMeansAnswered /\ StopOnce /\ RunsOK
  BY <1>1 DEF NodeInit, TrueMeansAnswered, StopOnce, RunsOK, NotStopped
<1>8. CallsLive
  <2>1. Unended = {} /\ OnStack = {} /\ InFlight = {} /\ Distinct(frames)
    BY <1>1 DEF Unended, OnStack, Running, InFlight, CallsIn, Live, Distinct
  <2>2. IsFiniteSet(flying) /\ Len(frames) + Cardinality(flying) <= started
    BY <1>1, FS_EmptySet
  <2> QED BY <1>1, <2>1, <2>2 DEF CallsLive, NodeInit
<1> QED BY <1>4, <1>5, <1>6, <1>7, <1>8, NodeInvParts DEF CallInv, RunInv

\* The histories that nothing else depends on keep their types.
LEMMA MarksKeepTypes ==
  ASSUME NodeMarkTypes, RunInv, [NodeNext]_nodeVars
  PROVE  NodeMarkTypes'
<1>1. ASSUME NEW s \in States, Answered(s) PROVE NodeMarkTypes'
  <2>1. /\ exports[s] \in Seq(SUBSET NodeCalls) /\ exports[s] # <<>>
    BY <1>1 DEF RunInv, NodeRunTypes, RunsOK, Answered
  <2>2. Head(exports[s]) \in SUBSET NodeCalls
    BY <2>1
  <2> QED BY <1>1, <2>2 DEF NodeMarkTypes, Answered
<1>2. CASE ShutdownAgain
  BY <1>2 DEF ShutdownAgain, NodeMarkTypes, shipperVars
<1>3. CASE UNCHANGED <<hasty, sent>>
  BY <1>3 DEF NodeMarkTypes
<1>4. ASSUME ~ShutdownAgain, \A s \in States : ~Answered(s)
      PROVE  UNCHANGED <<hasty, sent>>
  BY <1>4 DEF NodeNext, nodeVars, shipperVars, EnterFrame, CalledBack, LeaveFrame, CreateHash, Settled,
              Digest, IntervalTick, NextTick, Failed, DeadlineOver, NodeStart, NodeShutdown
<1> QED BY <1>1, <1>2, <1>3, <1>4

\* The strengthening holds in the beginning and is kept by every step.
THEOREM NodeInvariance == NodeSpec => []NodeInv
<1>1. NodeInv /\ [NodeNext]_nodeVars => NodeInv'
  <2> SUFFICES ASSUME CallInv, RunInv, [NodeNext]_nodeVars PROVE CallInv' /\ RunInv'
    BY NodeInvParts, NodeInvPartsAfter, MarksKeepTypes
  <2>1. CASE EnterFrame
    <3>1. UNCHANGED <<series, noted, cur, born, timer, before, shipperVars>>
      BY <2>1 DEF EnterFrame
    <3> QED BY <2>1, <3>1, EnterFrameKeeps, NothingRecordedKeepsRuns
  <2>2. CASE LeaveFrame
    BY <2>2, LeaveFrameKeeps
  <2>3. CASE CreateHash
    BY <2>3, CreateHashKeeps
  <2>4. CASE \E f \in flying : Settled(f)
    BY <2>4, SettledKeeps
  <2>5. CASE \E c \in tagged : Digest(c)
    BY <2>5, DigestKeeps
  <2>6. ASSUME NEW s \in States,
               \/ IntervalTick(s) \/ Answered(s) \/ Failed(s) \/ DeadlineOver(s)
               \/ \E who \in chained[s] : NextTick(s, who)
        PROVE  CallInv' /\ RunInv'
    <3>1. UNCHANGED <<nodeCallVars, noted>>
      BY <2>6 DEF IntervalTick, NextTick, Answered, Failed, DeadlineOver
    <3> QED BY <2>6, <3>1, CallsUntouched, IntervalTickKeeps, NextTickKeeps, RunEndKeeps, DeadlineOverKeeps
  <2>7. CASE NodeStart
    <3>1. UNCHANGED <<nodeCallVars, noted>>
      BY <2>7 DEF NodeStart
    <3> QED BY <2>7, <3>1, CallsUntouched, NodeStartKeeps
  <2>8. CASE NodeShutdown
    <3>1. UNCHANGED <<nodeCallVars, noted>>
      BY <2>8 DEF NodeShutdown
    <3> QED BY <2>8, <3>1, CallsUntouched, NodeShutdownKeeps
  <2>9. CASE UNCHANGED nodeVars
    <3>1. UNCHANGED <<nodeCallVars, series, noted, cur, born, timer, before, shipperVars>>
      BY <2>9 DEF nodeVars
    <3> QED BY <3>1, CallsUntouched, NothingRecordedKeepsRuns
  <2>10. CASE CalledBack
    BY <2>10, CalledBackKeeps
  <2>11. CASE ShutdownAgain
    <3>1. UNCHANGED <<nodeCallVars, series, noted, cur, born, timer, before, shipperVars>>
      BY <2>11 DEF ShutdownAgain
    <3> QED BY <3>1, CallsUntouched, NothingRecordedKeepsRuns
  <2> QED BY <2>1, <2>2, <2>3, <2>4, <2>5, <2>6, <2>7, <2>8, <2>9, <2>10, <2>11 DEF NodeNext
<1> QED BY <1>1, NodeInitHolds, PTL DEF NodeSpec

\* Whatever the order in which calls end, states come and go and posts fail:
\* a call is recorded once, in one state, and is in one place afterwards; the
\* counters of depth and of the pool are exact; and the shutdown() that
\* stopped a state resolves to true only when nothing recorded before it is
\* waiting any more - which is not that it was sent, and not what a second
\* shutdown() says (NodeTrueMeansSent).
THEOREM NodeCallsAreExact == NodeSpec => []NodeExact
<1>1. NodeInv => NodeExact
  BY DEF NodeInv, NodeExact
<1> QED BY <1>1, NodeInvariance, PTL
=============================================================================
