--------------------------- MODULE DeliveryProofs ---------------------------
(***************************************************************************)
(* Proofs about Delivery, for every number of runs and request threads,    *)
(* every batch size and every bound.                                       *)
(*                                                                         *)
(* The argument: a request is a contiguous piece of the log whose           *)
(* predecessors all have a fate.  Log, fates, rows and run rows only grow,  *)
(* so what a handler once knew of them stays true however late it goes on.  *)
(***************************************************************************)
EXTENDS Delivery, TLAPS

(* The log: an item's id is its place; nothing is abandoned before the      *)
(* shutdown.                                                                *)
LogOK ==
  /\ Len(fate) <= Len(log)
  /\ \A i \in 1..Len(log) : log[i].id = i
  /\ open => \A i \in 1..Len(fate) : fate[i] \in {"sent", "rejected"}

(* g is a request: a piece of the log, of one kind and run, a control item  *)
(* alone, that was posted when everything before it had been answered.      *)
Started(g) ==
  /\ Len(g) >= 1
  /\ g[1].id \in 1..(Len(fate) + 1)
  /\ \A n \in 1..Len(g) : g[1].id + n - 1 <= Len(log) /\ g[n] = log[g[1].id + n - 1]
  /\ \A n \in 1..Len(g) : g[n].kind = g[1].kind /\ g[n].run = g[1].run
  /\ g[1].kind \in ControlKinds => Len(g) = 1
  /\ \A j \in 1..(g[1].id - 1) : fate[j] \in {"sent", "rejected"}

(* A creation that had to be given up. *)
CreationRejected(r) ==
  \E i \in 1..Len(fate) : log[i].kind = "run" /\ log[i].run = r /\ fate[i] = "rejected"

(* Data that was let in: no completion of its run was sent before it.       *)
LetIn(h) ==
  step[h] = "write" /\ KindOf(h) \in DataKinds =>
    \A j \in 1..(request[h][1].id - 1) :
      log[j].kind = "complete" /\ log[j].run = RunOf(h) => fate[j] = "rejected"

(* What a handler answers is true. *)
Truthful(h) ==
  /\ answer[h] = "ok" => \A n \in 1..Len(request[h]) : Holds(request[h][n])
  /\ answer[h] = "conflict" /\ KindOf(h) \in ControlKinds => Holds(request[h][1])
  /\ answer[h] = "refused" /\ CreatedBefore(request[h][1]) => CreationRejected(RunOf(h))
  /\ answer[h] # "none" => step[h] = "done"

HandlerOK(h) ==
  /\ step[h] # "free" => Started(request[h])
  /\ LetIn(h)
  /\ Truthful(h)

(* The attempt under way carries the head of what has no fate.              *)
AttemptOK ==
  attempt # Nobody =>
    /\ posted = request[attempt]
    /\ step[attempt] # "free"
    /\ open => posted[1].id = Len(fate) + 1

(* A complete run: its completion is settled, or first in line.             *)
CompletionPosted ==
  \A r \in Runs : runRow[r] = "complete" =>
    \E j \in 1..Len(log) : /\ j <= Len(fate) + 1
                           /\ log[j].kind = "complete" /\ log[j].run = r

(* The rows are items of the log. *)
RowsLogged ==
  \A n \in 1..Len(rows) : rows[n].id \in 1..Len(log) /\ rows[n] = log[rows[n].id]

IInv ==
  /\ TypeOK /\ LogOK /\ RowsLogged
  /\ \A h \in Handlers : HandlerOK(h)
  /\ AttemptOK /\ CompletionPosted
  /\ SentIsStored /\ SpanOnce

-----------------------------------------------------------------------------
(* What only grows.                                                         *)

Grows ==
  /\ Len(log) <= Len(log') /\ \A i \in 1..Len(log) : log'[i] = log[i]
  /\ Len(fate) <= Len(fate') /\ \A i \in 1..Len(fate) : fate'[i] = fate[i]
  /\ Len(rows) <= Len(rows') /\ \A i \in 1..Len(rows) : rows'[i] = rows[i]
  /\ \A r \in Runs : /\ runRow[r] # "absent" => runRow'[r] # "absent"
                     /\ runRow[r] = "complete" => runRow'[r] = "complete"

(* What the service holds, it holds for ever. *)
LEMMA HoldsLater ==
  ASSUME TypeOK, TypeOK', Grows, NEW item \in Items, Holds(item)
  PROVE  Holds(item)'
<1>1. CASE item.kind \in ControlKinds
  BY <1>1 DEF Holds, Grows, Items, ControlKinds
<1>2. CASE item.kind \notin ControlKinds
  <2>1. PICK n \in 1..Len(rows) : rows[n].id = item.id
    BY <1>2 DEF Holds, Stored, ControlKinds
  <2>2. n \in 1..Len(rows') /\ rows'[n].id = item.id
    BY <2>1 DEF Grows, TypeOK
  <2>3. QED
    BY <1>2, <2>2 DEF Holds, Stored, ControlKinds
<1>3. QED
  BY <1>1, <1>2

(* A request that was posted in its turn stays one that was. *)
LEMMA StartedLater ==
  ASSUME TypeOK, TypeOK', LogOK, Grows, NEW g \in Seq(Items), Started(g)
  PROVE  Started(g)'
<1>1. /\ Len(g) >= 1 /\ g[1].id \in 1..(Len(fate) + 1) /\ g[1].id \in Nat
      /\ Len(fate) \in Nat /\ Len(fate') \in Nat /\ Len(log) \in Nat /\ Len(log') \in Nat
  <2>1. /\ log \in Seq(Items) /\ log' \in Seq(Items)
        /\ fate \in Seq(Fates) /\ fate' \in Seq(Fates)
    BY DEF TypeOK
  <2>2. Len(g) >= 1 /\ g[1].id \in 1..(Len(fate) + 1)
    BY DEF Started
  <2>3. QED
    BY <2>1, <2>2
<1>2. g[1].id \in 1..(Len(fate') + 1)
  BY <1>1 DEF Grows
<1>3. ASSUME NEW n \in 1..Len(g)
      PROVE  g[1].id + n - 1 <= Len(log') /\ g[n] = log'[g[1].id + n - 1]
  <2> DEFINE m == g[1].id + n - 1
  <2>1. m <= Len(log) /\ g[n] = log[m]
    BY DEF Started
  <2>2. m \in 1..Len(log)
    BY <1>1, <2>1
  <2> HIDE DEF m
  <2>3. m <= Len(log') /\ log'[m] = log[m]
    BY <1>1, <2>2 DEF Grows
  <2>4. QED
    BY <2>1, <2>3 DEF m
<1>4. ASSUME NEW j \in 1..(g[1].id - 1)
      PROVE  fate'[j] \in {"sent", "rejected"}
  <2>1. j \in 1..Len(fate) /\ fate[j] \in {"sent", "rejected"}
    BY <1>1 DEF Started
  <2>2. QED
    BY <2>1 DEF Grows
<1>5. QED
  BY <1>1, <1>2, <1>3, <1>4 DEF Started

(* What a handler knows stays true while it does nothing; g is its request. *)
LEMMA HandlerLater ==
  ASSUME TypeOK, TypeOK', LogOK, Grows, NEW h \in Handlers, HandlerOK(h),
         NEW g \in Seq(Items), g = request[h], request'[h] = g,
         step'[h] = step[h], answer'[h] = answer[h]
  PROVE  HandlerOK(h)'
<1>1. step[h] # "free" => Started(g)
  BY DEF HandlerOK, Started
<1>2. step'[h] # "free" => Started(request[h])'
  <2>1. step[h] # "free" => Started(g)'
    BY <1>1, StartedLater
  <2>2. QED
    BY <2>1 DEF Started
<1>3. LetIn(h)'
  <2> SUFFICES ASSUME step[h] = "write", KindOf(h) \in DataKinds,
                      NEW j \in 1..(g[1].id - 1),
                      log'[j].kind = "complete", log'[j].run = RunOf(h)
               PROVE  fate'[j] = "rejected"
    BY DEF LetIn, KindOf, RunOf
  <2>1. Len(g) >= 1 /\ g[1].id \in 1..(Len(fate) + 1)
    BY <1>1 DEF Started
  <2>2. j \in 1..Len(fate) /\ j \in 1..Len(log)
    <3>1. log \in Seq(Items) /\ fate \in Seq(Fates)
      BY DEF TypeOK
    <3>2. Len(log) \in Nat /\ Len(fate) \in Nat /\ Len(fate) <= Len(log)
      BY <3>1 DEF LogOK
    <3>3. QED
      BY <2>1, <3>2
  <2>3. log[j].kind = "complete" /\ log[j].run = RunOf(h)
    BY <2>2 DEF Grows
  <2>4. fate[j] = "rejected"
    BY <2>3 DEF HandlerOK, LetIn
  <2>5. QED
    BY <2>2, <2>4 DEF Grows
<1>4. Truthful(h)'
  <2>1. ASSUME answer[h] = "ok", NEW n \in 1..Len(g)
        PROVE  Holds(g[n])'
    <3>1. g[n] \in Items
      OBVIOUS
    <3>2. Holds(g[n])
      BY <2>1 DEF HandlerOK, Truthful
    <3>3. QED
      BY <3>1, <3>2, HoldsLater
  <2>2. ASSUME answer[h] = "conflict", KindOf(h) \in ControlKinds
        PROVE  Holds(g[1])'
    <3>1. g[1] \in Items
      BY <1>1, <2>2 DEF HandlerOK, Truthful, Started
    <3>2. Holds(g[1])
      BY <2>2 DEF HandlerOK, Truthful
    <3>3. QED
      BY <3>1, <3>2, HoldsLater
  <2>3. answer[h] = "refused" /\ CreatedBefore(g[1])' => CreationRejected(RunOf(h))'
    <3>1. ASSUME CreationRejected(RunOf(h))
          PROVE  CreationRejected(RunOf(h))'
      <4>1. PICK i \in 1..Len(fate) :
               log[i].kind = "run" /\ log[i].run = RunOf(h) /\ fate[i] = "rejected"
        BY <3>1 DEF CreationRejected
      <4>2. i \in 1..Len(fate') /\ i \in 1..Len(log)
        BY <4>1 DEF Grows, LogOK, TypeOK
      <4>3. log'[i].kind = "run" /\ log'[i].run = RunOf(h)' /\ fate'[i] = "rejected"
        BY <4>1, <4>2 DEF Grows, RunOf
      <4>4. QED
        BY <4>2, <4>3 DEF CreationRejected
    <3>2. ASSUME answer[h] = "refused", CreatedBefore(g[1])'
          PROVE  CreatedBefore(g[1])
      <4>1. PICK c \in 1..(g[1].id - 1) : log'[c].kind = "run" /\ log'[c].run = g[1].run
        BY <3>2 DEF CreatedBefore
      <4>2. g[1].id \in 1..(Len(fate) + 1) /\ Len(fate) \in Nat /\ Len(log) \in Nat
        BY <1>1, <3>2 DEF HandlerOK, Truthful, Started, TypeOK
      <4>3. c \in 1..Len(log) /\ log'[c] = log[c]
        BY <4>1, <4>2 DEF LogOK, Grows
      <4>4. QED
        BY <4>1, <4>3 DEF CreatedBefore
    <3>3. QED
      BY <3>1, <3>2 DEF HandlerOK, Truthful
  <2>4. QED
    BY <2>1, <2>2, <2>3
    DEF HandlerOK, Truthful, KindOf, RunOf, Holds, Stored, CreationRejected, CreatedBefore
<1>5. QED
  BY <1>2, <1>3, <1>4 DEF HandlerOK

-----------------------------------------------------------------------------
(* Types.                                                                   *)

(* Handing out the fate v n times over. *)
LEMMA FillFates ==
  ASSUME fate \in Seq(Fates), NEW n \in Nat, NEW v \in Fates
  PROVE  /\ fate \o Fill(n, v) \in Seq(Fates)
         /\ Len(fate \o Fill(n, v)) = Len(fate) + n
         /\ \A i \in 1..Len(fate) : (fate \o Fill(n, v))[i] = fate[i]
         /\ \A i \in (Len(fate) + 1)..(Len(fate) + n) : (fate \o Fill(n, v))[i] = v
<1> DEFINE w == Fill(n, v)
<1>1. w \in Seq(Fates) /\ Len(w) = n /\ \A i \in 1..n : w[i] = v
  BY DEF Fill
<1> HIDE DEF w
<1>2. /\ fate \o w \in Seq(Fates) /\ Len(fate \o w) = Len(fate) + n
      /\ \A i \in 1..Len(fate) : (fate \o w)[i] = fate[i]
  BY <1>1
<1>3. ASSUME NEW i \in (Len(fate) + 1)..(Len(fate) + n)
      PROVE  (fate \o w)[i] = v
  <2>1. i - Len(fate) \in 1..n
    OBVIOUS
  <2>2. (fate \o w)[i] = w[i - Len(fate)]
    BY <1>1
  <2>3. QED
    BY <1>1, <2>1, <2>2
<1>4. QED
  BY <1>2, <1>3 DEF w

(* The group that Post takes. *)
LEMMA GroupTaken ==
  ASSUME log \in Seq(Items), fate \in Seq(Fates), Len(fate) <= Len(log),
         NEW n \in 1..Len(Undecided)
  PROVE  /\ SubSeq(Undecided, 1, n) \in Seq(Items)
         /\ Len(SubSeq(Undecided, 1, n)) = n /\ n \in 1..(Len(log) - Len(fate))
         /\ \A i \in 1..n : /\ SubSeq(Undecided, 1, n)[i] = log[Len(fate) + i]
                            /\ SubSeq(Undecided, 1, n)[i] = Undecided[i]
<1>1. /\ Undecided \in Seq(Items) /\ Len(Undecided) = Len(log) - Len(fate)
      /\ \A i \in 1..Len(Undecided) : Undecided[i] = log[Len(fate) + i]
  BY DEF Undecided
<1>2. /\ SubSeq(Undecided, 1, n) \in Seq(Items) /\ Len(SubSeq(Undecided, 1, n)) = n
      /\ \A i \in 1..n : SubSeq(Undecided, 1, n)[i] = Undecided[i]
  BY <1>1
<1>3. QED
  BY <1>1, <1>2

(* What a handler does keeps its answers, steps and requests in type.       *)
LEMMA ServeType ==
  ASSUME TypeOK, LogOK, NEW h \in Handlers, Serve(h) \/ Fail(h) \/ (h # attempt /\ Forget(h)),
         UNCHANGED <<log, fate, open, attempt, posted>>
  PROVE  TypeOK'
<1>1. CASE Look(h)
  <2>1. FirstLook(KindOf(h), runRow[RunOf(h)]) \in {"go on", "refused", "conflict"}
    BY DEF FirstLook
  <2>2. QED
    BY <1>1, <2>1 DEF TypeOK, Look, Reply, Answers, dbVars
<1>2. CASE WriteRun(h)
  BY <1>2 DEF TypeOK, WriteRun, Reply, Answers, dbVars
<1>3. CASE WriteComplete(h)
  BY <1>3 DEF TypeOK, WriteComplete, Reply, Answers, dbVars
<1>4. CASE WriteData(h)
  <2>1. request[h] \in Seq(Items) /\ rows \in Seq(Items)
    BY DEF TypeOK
  <2>2. rows \o request[h] \in Seq(Items)
    BY <2>1
  <2>3. rows' \in Seq(Items)
    BY <1>4, <2>1, <2>2 DEF WriteData
  <2>4. QED
    BY <1>4, <2>3 DEF TypeOK, WriteData, Reply, Answers
<1>5. CASE Fail(h)
  BY <1>5 DEF TypeOK, Fail, Reply, Answers, dbVars
<1>6. CASE h # attempt /\ Forget(h)
  BY <1>6 DEF TypeOK, Forget, dbVars
<1>7. QED
  BY <1>1, <1>2, <1>3, <1>4, <1>5, <1>6 DEF Serve

(* Every step keeps the types. *)
LEMMA TypeStep ==
  ASSUME TypeOK, LogOK, [Next]_vars
  PROVE  TypeOK'
<1>1. ASSUME NEW kind \in Kinds, NEW run \in Runs, Enqueue(kind, run)
      PROVE  TypeOK'
  <2>1. [kind |-> kind, run |-> run, id |-> Len(log) + 1] \in Items
    BY DEF Items, TypeOK
  <2>2. QED
    BY <1>1, <2>1 DEF TypeOK, Enqueue, AcceptItem, serviceVars, senderVars
<1>2. CASE Shutdown
  <2>1. fate' \in Seq(Fates)
    <3>1. Len(log) - Len(fate) \in Nat /\ "abandoned" \in Fates
      BY DEF LogOK, TypeOK, Fates
    <3>2. QED
      BY <1>2, <3>1, FillFates DEF TypeOK, Shutdown, Close
  <2>2. QED
    BY <1>2, <2>1 DEF TypeOK, Shutdown, Close, serviceVars, senderVars
<1>3. ASSUME NEW h \in Handlers, Post(h)
      PROVE  TypeOK'
  <2>1. PICK n \in 1..Len(Undecided) : posted' = SubSeq(Undecided, 1, n)
    BY <1>3 DEF Post
  <2>2. /\ SubSeq(Undecided, 1, n) \in Seq(Items)
        /\ Len(SubSeq(Undecided, 1, n)) = n
    BY GroupTaken DEF TypeOK, LogOK
  <2>3. posted' \in Seq(Items) /\ posted' # <<>>
    BY <2>1, <2>2
  <2>4. QED
    BY <1>3, <2>3, DeliveryAssumption DEF TypeOK, Post, Receive, dbVars
<1>4. CASE Settle
  <2>1. fate' \in Seq(Fates) /\ log' = log /\ open' = open
    <3>1. ASSUME NEW v \in {"sent", "rejected"}, Decide(Len(posted), v)
          PROVE  fate' \in Seq(Fates)
      <4>1. fate \in Seq(Fates) /\ Len(posted) \in Nat /\ v \in Fates
        BY DEF TypeOK, Fates
      <4>2. fate \o Fill(Len(posted), v) \in Seq(Fates)
        BY <4>1, FillFates
      <4>3. QED
        BY <3>1, <4>2 DEF Decide
    <3>2. QED
      BY <1>4, <3>1 DEF Settle, Assigned, Decide, TypeOK
  <2>2. QED
    BY <1>4, <2>1, DeliveryAssumption DEF TypeOK, Settle, Forget, dbVars
<1>5. CASE GiveUp
  BY <1>5, DeliveryAssumption DEF TypeOK, GiveUp, serviceVars
<1>6. CASE ServiceStep
  BY <1>6, ServeType DEF ServiceStep, senderVars
<1>7. CASE UNCHANGED vars
  BY <1>7 DEF TypeOK, vars, serviceVars, senderVars
<1>8. QED
  BY <1>1, <1>2, <1>3, <1>4, <1>5, <1>6, <1>7, DeliveryAssumption DEF Next

-----------------------------------------------------------------------------
(* Nothing shrinks, and no fate changes. *)

(* One handler's step adds rows and moves its run forward, or neither.      *)
LEMMA ServeGrows ==
  ASSUME TypeOK, NEW h \in Handlers, Serve(h) \/ Fail(h) \/ (h # attempt /\ Forget(h)),
         UNCHANGED <<log, fate>>
  PROVE  Grows
<1>1. CASE UNCHANGED dbVars
  BY <1>1 DEF Grows, dbVars, TypeOK
<1>2. CASE WriteRun(h) \/ WriteComplete(h)
  <2>1. /\ UNCHANGED rows
        /\ \A r \in Runs : /\ runRow[r] # "absent" => runRow'[r] # "absent"
                           /\ runRow[r] = "complete" => runRow'[r] = "complete"
    BY <1>2 DEF WriteRun, WriteComplete, TypeOK
  <2>2. QED
    BY <2>1 DEF Grows, TypeOK
<1>3. CASE WriteData(h)
  <2>1. UNCHANGED runRow /\ (rows' = rows \/ rows' = rows \o request[h])
    BY <1>3 DEF WriteData
  <2>2. rows \in Seq(Items) /\ request[h] \in Seq(Items)
    BY DEF TypeOK
  <2>3. Len(rows) <= Len(rows') /\ \A i \in 1..Len(rows) : rows'[i] = rows[i]
    BY <2>1, <2>2
  <2>4. QED
    BY <2>1, <2>3 DEF Grows, TypeOK
<1>4. QED
  BY <1>1, <1>2, <1>3 DEF Serve, Look, Fail, Forget

(* Every step of the system. *)
LEMMA NothingShrinks ==
  ASSUME TypeOK, LogOK, [Next]_vars
  PROVE  Grows
<1> DEFINE Rest == UNCHANGED <<runRow, rows>>
<1>1. ASSUME NEW kind \in Kinds, NEW run \in Runs, Enqueue(kind, run)
      PROVE  Grows
  <2> DEFINE item == [kind |-> kind, run |-> run, id |-> Len(log) + 1]
  <2>1. log \in Seq(Items) /\ item \in Items
    BY DEF TypeOK, Items
  <2>2. log' = Append(log, item) /\ UNCHANGED fate /\ Rest
    BY <1>1 DEF Enqueue, AcceptItem, serviceVars
  <2> HIDE DEF item
  <2>3. Len(log) <= Len(log') /\ \A i \in 1..Len(log) : log'[i] = log[i]
    BY <2>1, <2>2
  <2>4. QED
    BY <2>2, <2>3 DEF Grows, TypeOK
<1>2. ASSUME NEW n \in Nat, NEW v \in Fates, fate' = fate \o Fill(n, v), UNCHANGED log, Rest
      PROVE  Grows
  <2>1. /\ Len(fate \o Fill(n, v)) = Len(fate) + n
        /\ \A i \in 1..Len(fate) : (fate \o Fill(n, v))[i] = fate[i]
    BY FillFates DEF TypeOK
  <2>2. Len(fate) <= Len(fate') /\ \A i \in 1..Len(fate) : fate'[i] = fate[i]
    BY <1>2, <2>1 DEF TypeOK
  <2>3. QED
    BY <1>2, <2>2 DEF Grows, TypeOK
<1>3. ASSUME UNCHANGED <<log, fate>>, Rest
      PROVE  Grows
  BY <1>3 DEF Grows, TypeOK
<1>4. CASE Shutdown
  <2>1. Len(log) - Len(fate) \in Nat /\ "abandoned" \in Fates
    BY DEF LogOK, TypeOK, Fates
  <2>2. QED
    BY <1>2, <1>4, <2>1 DEF Shutdown, Close, serviceVars
<1>5. CASE Settle
  <2>1. Rest
    BY <1>5 DEF Settle, Forget, dbVars
  <2>2. Len(posted) \in Nat /\ {"sent", "rejected"} \subseteq Fates
    BY DEF TypeOK, Fates
  <2>3. \/ UNCHANGED <<log, fate>>
        \/ \E v \in {"sent", "rejected"} : fate' = fate \o Fill(Len(posted), v) /\ UNCHANGED log
    BY <1>5 DEF Settle, Assigned, Decide
  <2>4. QED
    BY <1>2, <1>3, <2>1, <2>2, <2>3
<1>6. ASSUME NEW h \in Handlers, Post(h)
      PROVE  Grows
  BY <1>3, <1>6 DEF Post, Receive, dbVars
<1>7. CASE GiveUp \/ UNCHANGED vars
  BY <1>3, <1>7 DEF GiveUp, vars, serviceVars
<1>8. CASE ServiceStep
  BY <1>8, ServeGrows DEF ServiceStep
<1>9. QED
  BY <1>1, <1>4, <1>5, <1>6, <1>7, <1>8, DeliveryAssumption DEF Next

-----------------------------------------------------------------------------
(* The log. *)

(* The batch that is decided lies within the undecided part of the log.     *)
LEMMA DecideFates ==
  ASSUME TypeOK, LogOK, NEW n \in Nat, NEW v \in {"sent", "rejected"}, Decide(n, v)
  PROVE  /\ Len(fate') = Len(fate) + n /\ Len(fate') <= Len(log)
         /\ \A i \in 1..Len(fate) : fate'[i] = fate[i]
         /\ \A i \in (Len(fate) + 1)..Len(fate') : fate'[i] = v
<1>1. n <= Len(Undecided)
  BY DEF Decide, OneRequest
<1>2. Len(Undecided) = Len(log) - Len(fate)
  BY DEF Undecided, TypeOK, LogOK
<1>3. v \in Fates /\ fate \in Seq(Fates)
  BY DEF Fates, TypeOK
<1>4. /\ Len(fate \o Fill(n, v)) = Len(fate) + n
      /\ \A i \in 1..Len(fate) : (fate \o Fill(n, v))[i] = fate[i]
      /\ \A i \in (Len(fate) + 1)..(Len(fate) + n) : (fate \o Fill(n, v))[i] = v
  BY <1>3, FillFates
<1>5. QED
  BY <1>1, <1>2, <1>4 DEF Decide, TypeOK

(* Every step keeps the log in order. *)
LEMMA LogStep ==
  ASSUME TypeOK, LogOK, [Next]_vars
  PROVE  LogOK'
<1>1. ASSUME NEW kind \in Kinds, NEW run \in Runs, Enqueue(kind, run)
      PROVE  LogOK'
  <2> DEFINE item == [kind |-> kind, run |-> run, id |-> Len(log) + 1]
  <2>1. log \in Seq(Items) /\ item \in Items
    BY DEF TypeOK, Items
  <2>2. log' = Append(log, item) /\ UNCHANGED <<fate, open>>
    BY <1>1 DEF Enqueue, AcceptItem
  <2>3. item.kind = kind /\ item.run = run /\ item.id = Len(log) + 1
    OBVIOUS
  <2> HIDE DEF item
  <2>4. /\ Len(log') = Len(log) + 1 /\ log'[Len(log')] = item
        /\ \A i \in 1..Len(log) : log'[i] = log[i]
    BY <2>1, <2>2
  <2>5. ASSUME NEW i \in 1..Len(log')
        PROVE  log'[i].id = i
    BY <2>1, <2>3, <2>4 DEF LogOK
  <2>7. Len(fate') <= Len(log') /\ (open' => \A i \in 1..Len(fate') : fate'[i] \in {"sent", "rejected"})
    BY <2>1, <2>2, <2>4 DEF LogOK, TypeOK
  <2>8. QED
    BY <2>5, <2>7 DEF LogOK
<1>2. CASE Shutdown
  <2>1. Len(log) - Len(fate) \in Nat /\ "abandoned" \in Fates /\ fate \in Seq(Fates)
    BY DEF LogOK, TypeOK, Fates
  <2>2. Len(fate \o Fill(Len(log) - Len(fate), "abandoned")) = Len(log)
    <3>1. Len(fate \o Fill(Len(log) - Len(fate), "abandoned"))
            = Len(fate) + (Len(log) - Len(fate))
      BY <2>1, FillFates
    <3>2. Len(fate) \in Nat /\ Len(log) \in Nat
      BY DEF TypeOK
    <3>3. QED
      BY <3>1, <3>2
  <2>3. log' = log /\ open' = FALSE /\ Len(fate') = Len(log)
    BY <1>2, <2>2 DEF Shutdown, Close
  <2>4. Len(fate') <= Len(log')
    BY <2>3 DEF TypeOK
  <2>5. QED
    BY <2>3, <2>4 DEF LogOK
<1>3. ASSUME NEW v \in {"sent", "rejected"}, NEW n \in Nat, Decide(n, v)
      PROVE  LogOK'
  <2>1. /\ Len(fate') <= Len(log) /\ Len(fate') \in Nat
        /\ \A i \in 1..Len(fate') : fate'[i] = fate[i] \/ fate'[i] = v
    BY <1>3, DecideFates DEF TypeOK
  <2>2. /\ Len(fate') = Len(fate) + n
        /\ \A i \in 1..Len(fate) : fate'[i] = fate[i]
        /\ \A i \in (Len(fate) + 1)..Len(fate') : fate'[i] = v
    BY <1>3, DecideFates
  <2>3. ASSUME open, NEW i \in 1..Len(fate')
        PROVE  fate'[i] \in {"sent", "rejected"}
    <3>1. CASE i \in 1..Len(fate)
      BY <2>2, <2>3, <3>1 DEF LogOK
    <3>2. CASE i \notin 1..Len(fate)
      <4>1. i \in (Len(fate) + 1)..Len(fate')
        BY <2>1, <3>2 DEF TypeOK
      <4>2. QED
        BY <2>2, <4>1
    <3>3. QED
      BY <3>1, <3>2
  <2>4. QED
    BY <1>3, <2>1, <2>3 DEF Decide, LogOK
<1>4. CASE UNCHANGED <<log, fate, open>>
  BY <1>4 DEF LogOK
<1>5. CASE Settle
  <2>1. Len(posted) \in Nat
    BY DEF TypeOK
  <2>2. QED
    BY <1>3, <1>4, <1>5, <2>1 DEF Settle, Assigned
<1>6. QED
  BY <1>1, <1>2, <1>4, <1>5, DeliveryAssumption
  DEF Next, Post, GiveUp, ServiceStep, vars

-----------------------------------------------------------------------------
(* The handlers.                                                            *)

(* A handler that has answered, g being its request. *)
LEMMA HandlerAnswered ==
  ASSUME TypeOK, TypeOK', LogOK, Grows, NEW h \in Handlers,
         NEW g \in Seq(Items), Started(g), request'[h] = g, step'[h] = "done",
         answer'[h] = "ok" => \A n \in 1..Len(g) : Holds(g[n])',
         answer'[h] = "conflict" /\ g[1].kind \in ControlKinds => Holds(g[1])',
         answer'[h] = "refused" /\ CreatedBefore(g[1])' => CreationRejected(g[1].run)'
  PROVE  HandlerOK(h)'
<1>1. Started(g)'
  BY StartedLater
<1>2. (step[h] # "free" => Started(request[h]))'
  BY <1>1 DEF Started
<1>3. LetIn(h)'
  BY DEF LetIn
<1>4. Truthful(h)'
  BY DEF Truthful, KindOf, RunOf, Holds, Stored, CreationRejected, CreatedBefore
<1>5. QED
  BY <1>2, <1>3, <1>4 DEF HandlerOK

(* Data is let in while the run is open: no completion was sent before it.  *)
(* A run that is not there was given up, if its creation came earlier.      *)
LEMMA LookHandler ==
  ASSUME IInv, TypeOK', Grows, NEW h \in Handlers, Look(h), UNCHANGED <<log, fate>>,
         NEW g \in Seq(Items), g = request[h]
  PROVE  HandlerOK(h)'
<1> DEFINE seen == FirstLook(KindOf(h), runRow[RunOf(h)])
<1>1. /\ TypeOK /\ LogOK /\ HandlerOK(h) /\ SentIsStored
      /\ step[h] = "look" /\ Started(g) /\ request'[h] = g /\ answer[h] = "none"
  <2>1. TypeOK /\ LogOK /\ HandlerOK(h) /\ SentIsStored /\ step[h] = "look"
    BY DEF IInv, Look
  <2>2. request' = request
    BY DEF Look, Reply
  <2>3. QED
    BY <2>1, <2>2 DEF HandlerOK, Truthful, Started
<1>2. /\ UNCHANGED <<runRow, rows>>
      /\ seen = "go on" => step'[h] = "write" /\ answer'[h] = "none"
      /\ seen # "go on" => step'[h] = "done" /\ answer'[h] = seen
  BY <1>1 DEF Look, Reply, TypeOK, dbVars
<1>3. /\ g[1] \in Items /\ KindOf(h) = g[1].kind /\ RunOf(h) = g[1].run /\ g[1].run \in Runs
      /\ Len(g) >= 1 /\ g[1].id \in 1..(Len(fate) + 1) /\ g[1].id <= Len(log) /\ g[1] = log[g[1].id]
      /\ \A j \in 1..(g[1].id - 1) : fate[j] \in {"sent", "rejected"}
  <2>1. Len(g) >= 1
    BY <1>1 DEF Started
  <2>2. g[1] \in Items
    BY <1>1, <2>1
  <2>3. g[1].id \in 1..(Len(fate) + 1) /\ g[1].id + 1 - 1 <= Len(log) /\ g[1] = log[g[1].id + 1 - 1]
    BY <1>1, <2>1 DEF Started
  <2>4. g[1].id + 1 - 1 = g[1].id
    BY <2>2 DEF Items
  <2>5. QED
    BY <1>1, <2>1, <2>2, <2>3, <2>4 DEF Items, KindOf, RunOf, Started
<1> HIDE DEF seen
<1>4. CASE seen = "go on"
  <2>1. Started(g)'
    BY <1>1, StartedLater
  <2>2. (step[h] # "free" => Started(request[h]))'
    BY <1>1, <2>1 DEF Started
  <2>3. LetIn(h)'
    <3> SUFFICES ASSUME g[1].kind \in DataKinds, NEW j \in 1..(g[1].id - 1),
                        log[j].kind = "complete", log[j].run = g[1].run
                 PROVE  fate[j] = "rejected"
      BY <1>1 DEF LetIn, KindOf, RunOf
    <3>1. runRow[g[1].run] = "open"
      BY <1>3, <1>4 DEF seen, FirstLook, DataKinds
    <3>2. j \in 1..Len(fate) /\ fate[j] \in {"sent", "rejected"}
      BY <1>1, <1>3 DEF TypeOK
    <3>3. fate[j] # "sent"
      <4>1. fate[j] = "sent" => Holds(log[j])
        BY <1>1, <3>2 DEF SentIsStored
      <4>2. Holds(log[j]) => runRow[g[1].run] = "complete"
        BY DEF Holds
      <4>3. QED
        BY <3>1, <4>1, <4>2
    <3>4. QED
      BY <3>2, <3>3
  <2>4. Truthful(h)'
    BY <1>2, <1>4 DEF Truthful
  <2>5. QED
    BY <2>2, <2>3, <2>4 DEF HandlerOK
<1>5. CASE seen # "go on"
  <2>1. seen \in {"refused", "conflict"}
    BY <1>5 DEF seen, FirstLook
  <2>2. ASSUME seen = "conflict", g[1].kind \in ControlKinds
        PROVE  Holds(g[1])'
    <3>1. Holds(g[1])
      BY <1>1, <1>3, <2>2 DEF seen, FirstLook, Holds, ControlKinds, TypeOK
    <3>2. QED
      BY <1>1, <1>3, <3>1, HoldsLater
  <2>3. ASSUME seen = "refused", CreatedBefore(g[1])'
        PROVE  CreationRejected(g[1].run)'
    <3>1. g[1].kind # "run" /\ runRow[g[1].run] = "absent"
      BY <1>3, <2>3 DEF seen, FirstLook
    <3>2. PICK c \in 1..(g[1].id - 1) : log[c].kind = "run" /\ log[c].run = g[1].run
      BY <2>3 DEF CreatedBefore
    <3>3. c \in 1..Len(fate) /\ fate[c] \in {"sent", "rejected"}
      BY <1>1, <1>3, <3>2 DEF TypeOK
    <3>4. fate[c] # "sent"
      <4>1. fate[c] = "sent" => Holds(log[c])
        BY <1>1, <3>3 DEF SentIsStored
      <4>2. Holds(log[c]) => runRow[g[1].run] # "absent"
        BY <3>2 DEF Holds
      <4>3. QED
        BY <3>1, <4>1, <4>2
    <3>5. QED
      BY <3>2, <3>3, <3>4 DEF CreationRejected
  <2>4. QED
    BY <1>1, <1>2, <1>5, <2>1, <2>2, <2>3, HandlerAnswered
<1>6. QED
  BY <1>4, <1>5

(* A handler that writes answers the truth: what it commits is there.       *)
LEMMA WriteHandler ==
  ASSUME IInv, TypeOK', Grows, NEW h \in Handlers,
         WriteRun(h) \/ WriteComplete(h) \/ WriteData(h) \/ Fail(h), UNCHANGED <<log, fate>>,
         NEW g \in Seq(Items), g = request[h]
  PROVE  HandlerOK(h)'
<1>1. TypeOK /\ LogOK /\ HandlerOK(h) /\ step[h] # "free"
  BY DEF IInv, WriteRun, WriteComplete, WriteData, Fail
<1>2. /\ Started(g) /\ request'[h] = g /\ step'[h] = "done"
      /\ KindOf(h) = g[1].kind /\ RunOf(h) = g[1].run
  <2>1. request' = request /\ step' = [step EXCEPT ![h] = "done"]
    BY DEF WriteRun, WriteComplete, WriteData, Fail, Reply
  <2>2. QED
    BY <1>1, <2>1 DEF HandlerOK, Started, TypeOK, KindOf, RunOf
<1>3. Len(g) >= 1 /\ g[1] \in Items /\ g[1].run \in Runs
  <2>1. Len(g) >= 1
    BY <1>2 DEF Started
  <2>2. g[1] \in Items
    BY <2>1
  <2>3. QED
    BY <2>1, <2>2 DEF Items
<1>4. CASE WriteRun(h) \/ WriteComplete(h)
  <2>1. answer'[h] \in {"ok", "unavailable"} /\ g[1].kind \in ControlKinds
    BY <1>1, <1>2, <1>4 DEF WriteRun, WriteComplete, Reply, TypeOK, ControlKinds
  <2>2. Len(g) = 1
    BY <1>2, <2>1 DEF Started
  <2>3. answer'[h] = "ok" => Holds(g[1])'
    BY <1>1, <1>2, <1>3, <1>4 DEF WriteRun, WriteComplete, Reply, TypeOK, Holds
  <2>4. QED
    BY <1>1, <1>2, <2>1, <2>2, <2>3, HandlerAnswered
<1>5. CASE WriteData(h)
  <2>1. g[1].kind \in DataKinds /\ answer'[h] \in {"ok", "conflict"}
    BY <1>1, <1>2, <1>5 DEF WriteData, Reply, TypeOK
  <2>2. ASSUME answer'[h] = "ok", NEW n \in 1..Len(g)
        PROVE  Holds(g[n])'
    <3>1. rows' = rows \o g
      BY <1>1, <1>5, <2>2 DEF WriteData, Reply, TypeOK
    <3>2. rows \in Seq(Items)
      BY <1>1 DEF TypeOK
    <3>3. Len(rows) + n \in 1..Len(rows') /\ rows'[Len(rows) + n] = g[n]
      BY <3>1, <3>2
    <3>4. Stored(g[n].id)'
      BY <3>3 DEF Stored
    <3>5. g[n].kind \in DataKinds
      BY <1>2, <2>1 DEF Started
    <3>6. QED
      BY <3>4, <3>5 DEF Holds, DataKinds
  <2>3. QED
    BY <1>1, <1>2, <2>1, <2>2, HandlerAnswered DEF DataKinds, ControlKinds
<1>6. CASE Fail(h)
  <2>1. answer'[h] = "unavailable"
    BY <1>1, <1>6 DEF Fail, Reply, TypeOK
  <2>2. QED
    BY <1>1, <1>2, <2>1, HandlerAnswered
<1>7. QED
  BY <1>4, <1>5, <1>6

(* A handler that has just received a group is in turn. *)
LEMMA PostHandler ==
  ASSUME IInv, TypeOK', NEW h \in Handlers, Post(h)
  PROVE  HandlerOK(h)' /\ posted'[1].id = Len(fate) + 1
<1>1. TypeOK /\ LogOK /\ HandlerOK(h) /\ step[h] = "free" /\ open /\ UNCHANGED <<log, fate>>
  BY DEF IInv, Post, Receive
<1>2. PICK n \in 1..Len(Undecided) : IsGroup(Undecided, n) /\ posted' = SubSeq(Undecided, 1, n)
  BY DEF Post
<1>3. /\ posted' \in Seq(Items) /\ Len(posted') = n /\ n \in 1..(Len(log) - Len(fate))
      /\ \A i \in 1..n : posted'[i] = log[Len(fate) + i] /\ posted'[i] = Undecided[i]
  <2>1. log \in Seq(Items) /\ fate \in Seq(Fates) /\ Len(fate) <= Len(log)
    BY <1>1 DEF TypeOK, LogOK
  <2>2. /\ SubSeq(Undecided, 1, n) \in Seq(Items)
        /\ Len(SubSeq(Undecided, 1, n)) = n /\ n \in 1..(Len(log) - Len(fate))
        /\ \A i \in 1..n : /\ SubSeq(Undecided, 1, n)[i] = log[Len(fate) + i]
                           /\ SubSeq(Undecided, 1, n)[i] = Undecided[i]
    BY <2>1, GroupTaken
  <2>3. QED
    BY <1>2, <2>2
<1>4. /\ step'[h] = "look" /\ request'[h] = posted' /\ answer'[h] = answer[h]
  BY <1>1 DEF Post, Receive, TypeOK
<1>5. Len(fate) \in Nat /\ Len(log) \in Nat /\ n \in Nat /\ n >= 1 /\ Len(fate) + n <= Len(log)
  <2>1. Len(fate) \in Nat /\ Len(log) \in Nat
    BY <1>1 DEF TypeOK
  <2>2. QED
    BY <1>3, <2>1
<1>6. posted'[1].id = Len(fate) + 1
  <2>1. posted'[1] = log[Len(fate) + 1] /\ Len(fate) + 1 \in 1..Len(log)
    BY <1>3, <1>5
  <2>2. QED
    BY <1>1, <2>1 DEF LogOK
<1>7. Started(posted)'
  <2>1. ASSUME NEW i \in 1..Len(posted')
        PROVE  posted'[1].id + i - 1 <= Len(log') /\ posted'[i] = log'[posted'[1].id + i - 1]
    <3>1. posted'[1].id + i - 1 = Len(fate) + i
      BY <1>3, <1>5, <1>6
    <3>2. QED
      BY <1>1, <1>3, <1>5, <3>1
  <2>2. OneRequest(Undecided, n)
    BY <1>2 DEF IsGroup
  <2>3. \A i \in 2..n : Batchable(Undecided[1], Undecided[i])
    BY <2>2 DEF OneRequest
  <2>4. ASSUME NEW i \in 1..n
        PROVE  posted'[i].kind = posted'[1].kind /\ posted'[i].run = posted'[1].run
    <3>1. posted'[1] = Undecided[1] /\ posted'[i] = Undecided[i]
      BY <1>3, <1>5
    <3>2. i = 1 \/ i \in 2..n
      BY <1>5
    <3>3. QED
      BY <2>3, <3>1, <3>2 DEF Batchable
  <2>5. posted'[1].kind \in ControlKinds => n = 1
    <3>1. posted'[1] = Undecided[1] /\ (n # 1 => 2 \in 2..n)
      BY <1>3, <1>5
    <3>2. QED
      BY <2>3, <3>1 DEF Batchable, DataKinds, ControlKinds
  <2>6. \A j \in 1..(posted'[1].id - 1) : fate'[j] \in {"sent", "rejected"}
    BY <1>1, <1>5, <1>6 DEF LogOK
  <2>7. QED
    BY <1>1, <1>3, <1>5, <1>6, <2>1, <2>4, <2>5, <2>6 DEF Started
<1>8. Started(request[h])'
  BY <1>4, <1>7 DEF Started
<1>9. LetIn(h)' /\ Truthful(h)'
  <2>1. answer[h] = "none"
    BY <1>1 DEF HandlerOK, Truthful
  <2>2. QED
    BY <1>4, <2>1 DEF LetIn, Truthful
<1>10. QED
  BY <1>6, <1>8, <1>9 DEF HandlerOK

(* Every handler, after any step. *)
LEMMA HandlersStep ==
  ASSUME IInv, [Next]_vars, TypeOK', Grows, NEW h \in Handlers
  PROVE  HandlerOK(h)'
<1>1. TypeOK /\ LogOK /\ HandlerOK(h)
  BY DEF IInv
<1>2. PICK g \in Seq(Items) : g = request[h]
  BY <1>1 DEF TypeOK
<1>3. CASE request'[h] = request[h] /\ step'[h] = step[h] /\ answer'[h] = answer[h]
  BY <1>1, <1>2, <1>3, HandlerLater
<1>4. ASSUME step'[h] = "free" /\ answer'[h] = "none"
      PROVE  HandlerOK(h)'
  BY <1>4 DEF HandlerOK, LetIn, Truthful
<1>5. ASSUME NEW i \in Handlers, Forget(i)
      PROVE  HandlerOK(h)'
  <2>1. CASE i = h
    BY <1>1, <1>4, <1>5, <2>1 DEF Forget, TypeOK
  <2>2. CASE i # h
    BY <1>1, <1>3, <1>5, <2>2 DEF Forget, TypeOK
  <2>3. QED
    BY <2>1, <2>2
<1>6. ASSUME NEW i \in Handlers, Post(i)
      PROVE  HandlerOK(h)'
  <2>1. CASE i = h
    BY <1>6, <2>1, PostHandler
  <2>2. CASE i # h
    BY <1>1, <1>3, <1>6, <2>2 DEF Post, Receive, TypeOK
  <2>3. QED
    BY <2>1, <2>2
<1>7. ASSUME NEW i \in Handlers, Serve(i) \/ Fail(i), UNCHANGED <<log, fate>>
      PROVE  HandlerOK(h)'
  <2>1. CASE i = h
    BY <1>2, <1>7, <2>1, LookHandler, WriteHandler DEF Serve
  <2>2. CASE i # h
    <3>1. request' = request /\ step'[h] = step[h] /\ answer'[h] = answer[h]
      <4>1. ASSUME NEW result, Reply(i, result)
            PROVE  request' = request /\ step'[h] = step[h] /\ answer'[h] = answer[h]
        BY <1>1, <2>2, <4>1 DEF Reply, TypeOK
      <4>2. CASE Look(i)
        BY <1>1, <2>2, <4>1, <4>2 DEF Look, TypeOK
      <4>3. CASE WriteRun(i) \/ WriteComplete(i) \/ WriteData(i) \/ Fail(i)
        BY <4>1, <4>3 DEF WriteRun, WriteComplete, WriteData, Fail
      <4>4. QED
        BY <1>7, <4>2, <4>3 DEF Serve
    <3>2. QED
      BY <1>3, <3>1
  <2>3. QED
    BY <2>1, <2>2
<1>8. CASE Settle
  <2>1. attempt \in Handlers /\ Forget(attempt)
    BY <1>1, <1>8 DEF Settle, TypeOK
  <2>2. QED
    BY <1>5, <2>1
<1>9. CASE ServiceStep
  BY <1>5, <1>7, <1>9 DEF ServiceStep
<1>10. CASE UNCHANGED <<request, step, answer>>
  BY <1>3, <1>10
<1>11. QED
  BY <1>6, <1>8, <1>9, <1>10
  DEF Next, Enqueue, Shutdown, GiveUp, serviceVars, vars

-----------------------------------------------------------------------------
(* The sender, the completions, and the two properties of the rows.         *)

(* The attempt under way carries the head, until it is answered or given up. *)
LEMMA AttemptStep ==
  ASSUME IInv, [Next]_vars, TypeOK', Grows
  PROVE  AttemptOK'
<1>1. TypeOK /\ LogOK /\ AttemptOK
  BY DEF IInv
<1>2. ASSUME NEW h \in Handlers, Post(h)
      PROVE  AttemptOK'
  <2>1. posted'[1].id = Len(fate) + 1
    BY <1>2, PostHandler
  <2>2. /\ attempt' = h /\ request'[h] = posted' /\ step'[h] = "look" /\ fate' = fate
    BY <1>1, <1>2 DEF Post, Receive, TypeOK
  <2>3. QED
    BY <2>1, <2>2 DEF AttemptOK
<1>3. CASE Settle \/ GiveUp
  BY <1>3 DEF Settle, GiveUp, AttemptOK
<1>4. CASE ServiceStep
  <2>1. UNCHANGED <<fate, open, attempt, posted>>
    BY <1>4 DEF ServiceStep, senderVars
  <2>2. attempt # Nobody => request'[attempt] = request[attempt] /\ step'[attempt] # "free"
    <3>1. SUFFICES ASSUME attempt # Nobody, NEW i \in Handlers,
                          Serve(i) \/ Fail(i) \/ (i # attempt /\ Forget(i))
                   PROVE  request'[attempt] = request[attempt] /\ step'[attempt] # "free"
      BY <1>4 DEF ServiceStep
    <3>2. attempt \in Handlers /\ step[attempt] # "free"
      BY <1>1, <3>1 DEF TypeOK, AttemptOK
    <3>3. ASSUME NEW result, Reply(i, result)
          PROVE  request'[attempt] = request[attempt] /\ step'[attempt] # "free"
      BY <1>1, <3>2, <3>3 DEF Reply, TypeOK
    <3>4. CASE Look(i)
      BY <1>1, <3>2, <3>3, <3>4 DEF Look, TypeOK
    <3>5. CASE WriteRun(i) \/ WriteComplete(i) \/ WriteData(i) \/ Fail(i)
      BY <3>3, <3>5 DEF WriteRun, WriteComplete, WriteData, Fail
    <3>6. CASE i # attempt /\ Forget(i)
      BY <1>1, <3>2, <3>6 DEF Forget, TypeOK
    <3>7. QED
      BY <3>1, <3>4, <3>5, <3>6 DEF Serve
  <2>3. QED
    BY <1>1, <2>1, <2>2 DEF AttemptOK
<1>5. CASE Shutdown
  BY <1>1, <1>5 DEF Shutdown, Close, AttemptOK, serviceVars, senderVars
<1>6. CASE UNCHANGED <<fate, open, request, step, attempt, posted>>
  BY <1>1, <1>6 DEF AttemptOK
<1>7. QED
  BY <1>2, <1>3, <1>4, <1>5, <1>6, DeliveryAssumption
  DEF Next, Enqueue, AcceptItem, serviceVars, senderVars, vars

(* A completion commits only when its item was posted in its turn.          *)
LEMMA CompletionStep ==
  ASSUME IInv, [Next]_vars, TypeOK', Grows
  PROVE  CompletionPosted'
<1> SUFFICES ASSUME NEW r \in Runs, runRow'[r] = "complete"
             PROVE  \E j \in 1..Len(log') : /\ j <= Len(fate') + 1
                                            /\ log'[j].kind = "complete" /\ log'[j].run = r
  BY DEF CompletionPosted
<1>1. TypeOK /\ LogOK
  BY DEF IInv
<1>2. \E j \in 1..Len(log) : j <= Len(fate) + 1 /\ log[j].kind = "complete" /\ log[j].run = r
  <2>1. CASE runRow[r] = "complete"
    BY <2>1 DEF IInv, CompletionPosted
  <2>2. CASE runRow[r] # "complete"
    <3>1. PICK h \in Handlers : WriteComplete(h) /\ RunOf(h) = r
      <4>1. runRow' # runRow
        BY <2>2
      <4>2. PICK h \in Handlers : WriteRun(h) \/ WriteComplete(h)
        BY <4>1 DEF Next, Enqueue, Shutdown, Post, Receive, Settle, GiveUp, Forget, ServiceStep,
                    Serve, Look, WriteData, Fail, serviceVars, dbVars, vars
      <4>3. WriteComplete(h) /\ RunOf(h) = r
        BY <1>1, <2>2, <4>2 DEF WriteRun, WriteComplete, TypeOK
      <4>4. QED
        BY <4>3
    <3>2. Started(request[h]) /\ request[h] \in Seq(Items)
      BY <1>1, <3>1 DEF IInv, HandlerOK, WriteComplete, TypeOK
    <3>3. Len(request[h]) >= 1 /\ request[h][1] \in Items
      BY <3>2 DEF Started
    <3>4. request[h][1].id \in Nat /\ request[h][1].id \in 1..(Len(fate) + 1)
      BY <3>2, <3>3 DEF Started, Items
    <3>5. request[h][1].id <= Len(log) /\ request[h][1] = log[request[h][1].id]
      <4>1. /\ request[h][1].id + 1 - 1 <= Len(log)
            /\ request[h][1] = log[request[h][1].id + 1 - 1]
        BY <3>2, <3>3 DEF Started
      <4>2. request[h][1].id + 1 - 1 = request[h][1].id
        BY <3>4
      <4>3. QED
        BY <4>1, <4>2
    <3>6. request[h][1].kind = "complete" /\ request[h][1].run = r
      BY <3>1 DEF WriteComplete, KindOf, RunOf
    <3>7. QED
      BY <1>1, <3>4, <3>5, <3>6 DEF TypeOK
  <2>3. QED
    BY <2>1, <2>2
<1>3. PICK j \in 1..Len(log) : j <= Len(fate) + 1 /\ log[j].kind = "complete" /\ log[j].run = r
  BY <1>2
<1>4. j \in 1..Len(log') /\ j <= Len(fate') + 1 /\ log'[j] = log[j]
  BY <1>1, <1>3 DEF Grows, TypeOK
<1>5. QED
  BY <1>3, <1>4

(* A verdict "ok" comes from an answer that vouches for every item.         *)
LEMMA SentStep ==
  ASSUME IInv, [Next]_vars, TypeOK', Grows
  PROVE  SentIsStored'
<1>1. TypeOK /\ LogOK /\ SentIsStored /\ AttemptOK
  BY DEF IInv
<1>2. ASSUME NEW i \in 1..Len(fate), fate[i] = "sent"
      PROVE  Holds(log[i])'
  <2>1. i \in 1..Len(log) /\ Holds(log[i])
    BY <1>1, <1>2 DEF SentIsStored, LogOK, TypeOK
  <2>2. PICK item \in Items : item = log[i]
    BY <1>1, <2>1 DEF TypeOK
  <2>3. log'[i] = item
    BY <2>1, <2>2 DEF Grows
  <2>4. Holds(item)
    BY <2>1, <2>2 DEF Holds
  <2>5. Holds(item)'
    BY <1>1, <2>4, HoldsLater
  <2>6. QED
    BY <2>3, <2>5 DEF Holds
<1>3. ASSUME \A i \in 1..Len(fate') : i > Len(fate) => fate'[i] # "sent"
      PROVE  SentIsStored'
  <2> SUFFICES ASSUME NEW i \in 1..Len(fate'), fate'[i] = "sent"
               PROVE  Holds(log[i])'
    BY DEF SentIsStored
  <2>1. i \in 1..Len(fate)
    BY <1>1, <1>3 DEF TypeOK
  <2>2. fate[i] = "sent"
    BY <2>1 DEF Grows
  <2>3. QED
    BY <1>2, <2>1, <2>2
<1>4. CASE Settle /\ fate' # fate
  <2>1. PICK seen \in {answer[attempt], "exception"} :
          /\ Verdict(posted[1].kind, seen) # "retry"
          /\ Decide(Len(posted), Assigned(Verdict(posted[1].kind, seen)))
          /\ open
    BY <1>4 DEF Settle
  <2>2. CASE Verdict(posted[1].kind, seen) # "ok"
    <3>1. Decide(Len(posted), "rejected") /\ Len(posted) \in Nat
      BY <1>1, <2>1, <2>2 DEF Assigned, TypeOK
    <3>2. \A i \in (Len(fate) + 1)..Len(fate') : fate'[i] = "rejected"
      BY <1>1, <3>1, DecideFates
    <3>3. ASSUME NEW i \in 1..Len(fate'), i > Len(fate)
          PROVE  fate'[i] # "sent"
      <4>1. i \in (Len(fate) + 1)..Len(fate')
        BY <1>1, <3>3 DEF TypeOK
      <4>2. QED
        BY <3>2, <4>1
    <3>4. QED
      BY <1>3, <3>3
  <2>3. CASE Verdict(posted[1].kind, seen) = "ok"
    <3>1. Decide(Len(posted), "sent") /\ Len(posted) \in Nat
      BY <1>1, <2>1, <2>3 DEF Assigned, TypeOK
    <3>2. Len(fate') = Len(fate) + Len(posted) /\ UNCHANGED <<log, runRow, rows>>
      BY <1>1, <1>4, <3>1, DecideFates DEF Decide, Settle, Forget, dbVars
    <3>3. PICK h \in Handlers : h = attempt
      BY <1>1, <1>4 DEF Settle, TypeOK
    <3>4. /\ posted = request[h] /\ posted \in Seq(Items) /\ HandlerOK(h) /\ Started(posted)
          /\ posted[1].id = Len(fate) + 1
      <4>1. attempt # Nobody /\ step[h] = "done"
        BY <1>4, <3>3 DEF Settle
      <4>2. posted = request[h] /\ posted[1].id = Len(fate) + 1
        BY <1>1, <2>1, <3>3, <4>1 DEF AttemptOK
      <4>3. HandlerOK(h) /\ posted \in Seq(Items)
        BY DEF IInv, TypeOK
      <4>4. Started(request[h])
        BY <4>1, <4>3 DEF HandlerOK
      <4>5. QED
        BY <4>2, <4>3, <4>4 DEF Started
    <3>5. ASSUME NEW n \in 1..Len(posted)
          PROVE  Holds(posted[n])
      <4>1. answer[h] = "ok" => Holds(posted[n])
        BY <3>4 DEF HandlerOK, Truthful
      <4>2. answer[h] # "ok" => answer[h] = "conflict" /\ posted[1].kind \in ControlKinds
        BY <2>1, <2>3, <3>3 DEF Verdict
      <4>3. posted[1].kind \in ControlKinds => n = 1
        <5>1. posted[1].kind \in ControlKinds => Len(posted) = 1
          BY <3>4 DEF Started
        <5>2. QED
          BY <5>1
      <4>4. QED
        BY <3>4, <4>1, <4>2, <4>3 DEF HandlerOK, Truthful, KindOf
    <3>6. ASSUME NEW i \in 1..Len(fate'), i > Len(fate)
          PROVE  Holds(log[i])
      <4> DEFINE n == i - Len(fate)
      <4>1. n \in 1..Len(posted) /\ Len(fate) \in Nat /\ i \in Nat
        BY <1>1, <3>1, <3>2, <3>6 DEF TypeOK
      <4>2. posted[1].id + n - 1 = i
        BY <3>4, <4>1
      <4>3. posted[n] = log[i]
        BY <3>4, <4>1, <4>2 DEF Started
      <4>4. QED
        BY <3>5, <4>1, <4>3
    <3>7. ASSUME NEW i \in 1..Len(fate'), fate'[i] = "sent"
          PROVE  Holds(log[i])
      <4>1. CASE i > Len(fate)
        BY <3>6, <4>1
      <4>2. CASE ~(i > Len(fate))
        <5>1. i \in 1..Len(fate) /\ fate'[i] = fate[i]
          BY <1>1, <4>2 DEF TypeOK, Grows
        <5>2. QED
          BY <1>1, <3>7, <5>1 DEF SentIsStored
      <4>3. QED
        BY <4>1, <4>2
    <3>8. QED
      BY <3>2, <3>7 DEF SentIsStored, Holds, Stored
  <2>4. QED
    BY <2>2, <2>3
<1>5. CASE Shutdown
  <2>1. Len(log) - Len(fate) \in Nat /\ "abandoned" \in Fates /\ fate \in Seq(Fates)
    BY <1>1 DEF LogOK, TypeOK, Fates
  <2>2. fate' = fate \o Fill(Len(log) - Len(fate), "abandoned")
    BY <1>5 DEF Shutdown, Close
  <2> DEFINE n == Len(log) - Len(fate)
  <2>3. /\ Len(fate \o Fill(n, "abandoned")) = Len(fate) + n
        /\ \A i \in (Len(fate) + 1)..(Len(fate) + n) : (fate \o Fill(n, "abandoned"))[i] = "abandoned"
    BY <2>1, FillFates
  <2> HIDE DEF n
  <2>4. ASSUME NEW i \in 1..Len(fate'), i > Len(fate)
        PROVE  fate'[i] # "sent"
    <3>1. fate' = fate \o Fill(n, "abandoned") /\ n \in Nat
      BY <2>1, <2>2 DEF n
    <3>2. i \in (Len(fate) + 1)..(Len(fate) + n)
      BY <1>1, <2>3, <2>4, <3>1 DEF TypeOK
    <3>3. QED
      BY <2>3, <3>1, <3>2
  <2>5. QED
    BY <1>3, <2>4
<1>6. CASE fate' = fate
  BY <1>1, <1>3, <1>6 DEF TypeOK
<1>7. QED
  BY <1>4, <1>5, <1>6
  DEF Next, Enqueue, AcceptItem, Post, GiveUp, ServiceStep, vars

(* Rows come from requests, and requests from the log. *)
LEMMA RowsStep ==
  ASSUME IInv, [Next]_vars, TypeOK', Grows
  PROVE  RowsLogged'
<1>1. TypeOK /\ LogOK /\ RowsLogged
  BY DEF IInv
<1>2. ASSUME NEW n \in 1..Len(rows)
      PROVE  rows'[n].id \in 1..Len(log') /\ rows'[n] = log'[rows'[n].id]
  <2>1. rows[n].id \in 1..Len(log) /\ rows[n] = log[rows[n].id] /\ rows'[n] = rows[n]
    BY <1>1 DEF RowsLogged, Grows
  <2>2. QED
    BY <1>1, <2>1 DEF Grows, TypeOK
<1>3. CASE rows' = rows
  BY <1>2, <1>3 DEF RowsLogged
<1>4. CASE rows' # rows
  <2>1. PICK h \in Handlers : WriteData(h) /\ rows' = rows \o request[h]
    BY <1>4 DEF Next, Enqueue, Shutdown, Post, Receive, Settle, GiveUp, Forget, ServiceStep,
                Serve, Look, WriteRun, WriteComplete, WriteData, Fail, serviceVars, dbVars, vars
  <2>2. PICK g \in Seq(Items) : g = request[h]
    BY <1>1 DEF TypeOK
  <2>3. Started(g)
    BY <2>1, <2>2 DEF IInv, HandlerOK, WriteData, Started
  <2>4. rows \in Seq(Items) /\ Len(rows) \in Nat /\ Len(g) \in Nat
    BY <1>1 DEF TypeOK
  <2>5. /\ Len(rows') = Len(rows) + Len(g)
        /\ \A n \in 1..Len(g) : rows'[Len(rows) + n] = g[n]
    BY <2>1, <2>2, <2>4
  <2>6. ASSUME NEW n \in 1..Len(g)
        PROVE  g[n].id \in 1..Len(log') /\ g[n] = log'[g[n].id]
    <3>1. g[1].id \in Nat /\ g[1].id >= 1
      BY <1>1, <2>3 DEF Started, TypeOK
    <3>2. g[1].id + n - 1 <= Len(log) /\ g[n] = log[g[1].id + n - 1]
      BY <2>3 DEF Started
    <3>3. g[1].id + n - 1 \in 1..Len(log)
      BY <3>1, <3>2
    <3>4. g[n].id \in 1..Len(log) /\ g[n] = log[g[n].id]
      BY <1>1, <3>2, <3>3 DEF LogOK
    <3>5. QED
      BY <1>1, <3>4 DEF Grows, TypeOK
  <2>7. ASSUME NEW n \in 1..Len(rows')
        PROVE  rows'[n].id \in 1..Len(log') /\ rows'[n] = log'[rows'[n].id]
    <3>1. CASE n <= Len(rows)
      BY <1>2, <2>4, <3>1
    <3>2. CASE n > Len(rows)
      <4>1. n - Len(rows) \in 1..Len(g) /\ Len(rows) + (n - Len(rows)) = n
        BY <2>4, <2>5, <3>2
      <4>2. rows'[n] = g[n - Len(rows)]
        BY <2>5, <4>1
      <4>3. QED
        BY <2>6, <4>1, <4>2
    <3>3. QED
      BY <2>4, <3>1, <3>2
  <2>8. QED
    BY <2>7 DEF RowsLogged
<1>5. QED
  BY <1>3, <1>4

(* Spans: a batch with one that is stored is refused, the spans of a batch  *)
(* are different ones.                                                      *)
LEMMA SpanStep ==
  ASSUME IInv, [Next]_vars, TypeOK', Grows
  PROVE  SpanOnce'
<1>1. TypeOK /\ SpanOnce
  BY DEF IInv
<1>2. CASE rows' = rows
  BY <1>1, <1>2 DEF SpanOnce
<1>3. CASE rows' # rows
  <2>1. PICK h \in Handlers : WriteData(h) /\ ~Duplicate(h) /\ rows' = rows \o request[h]
    BY <1>3 DEF Next, Enqueue, Shutdown, Post, Receive, Settle, GiveUp, Forget, ServiceStep,
                Serve, Look, WriteRun, WriteComplete, WriteData, Fail, serviceVars, dbVars, vars
  <2>2. PICK g \in Seq(Items) : g = request[h]
    BY <1>1 DEF TypeOK
  <2>3. Started(g)
    BY <1>1, <2>1, <2>2 DEF IInv, HandlerOK, WriteData, Started
  <2>4. rows \in Seq(Items) /\ Len(rows) \in Nat /\ Len(g) \in Nat /\ Len(g) >= 1
    BY <1>1, <2>3 DEF TypeOK, Started
  <2>5. /\ Len(rows') = Len(rows) + Len(g)
        /\ \A n \in 1..Len(rows) : rows'[n] = rows[n]
        /\ \A n \in 1..Len(g) : rows'[Len(rows) + n] = g[n]
    BY <2>1, <2>2, <2>4
  <2>6. ASSUME NEW n \in 1..Len(g)
        PROVE  g[n].id = g[1].id + n - 1
    <3>1. g[1].id \in Nat /\ g[1].id >= 1
      BY <1>1, <2>3 DEF Started, TypeOK
    <3>2. g[1].id + n - 1 <= Len(log) /\ g[n] = log[g[1].id + n - 1]
      BY <2>3 DEF Started
    <3>3. g[1].id + n - 1 \in 1..Len(log)
      BY <3>1, <3>2
    <3>4. QED
      BY <3>2, <3>3 DEF IInv, LogOK
  <2>7. g[1].id \in Nat
    BY <1>1, <2>3 DEF Started, TypeOK
  <2>8. \A n \in 1..Len(g) : g[n].kind = "span" => ~Stored(g[n].id)
    BY <2>1, <2>2, <2>3 DEF Duplicate, KindOf, Started
  <2>9. ASSUME NEW m \in 1..Len(rows'), NEW n \in 1..Len(rows'), m < n,
               rows'[m].kind = "span", rows'[m].id = rows'[n].id
        PROVE  FALSE
    <3>1. CASE n <= Len(rows)
      BY <1>1, <2>4, <2>5, <2>9, <3>1 DEF SpanOnce
    <3>2. CASE n > Len(rows)
      <4> DEFINE k == n - Len(rows)
      <4>1. k \in 1..Len(g) /\ rows'[n] = g[k]
        BY <2>4, <2>5, <3>2
      <4>2. CASE m <= Len(rows)
        <5>1. rows'[m] = rows[m] /\ m \in 1..Len(rows)
          BY <2>4, <2>5, <4>2
        <5>2. Stored(g[k].id)
          BY <2>9, <4>1, <5>1 DEF Stored
        <5>3. rows[m] = log[rows[m].id] /\ g[k] = log[g[k].id]
          BY <2>6, <2>3, <4>1, <5>1 DEF IInv, RowsLogged, Started
        <5>4. g[k].kind = "span"
          BY <2>9, <4>1, <5>1, <5>3
        <5>5. QED
          BY <2>8, <4>1, <5>2, <5>4
      <4>3. CASE m > Len(rows)
        <5> DEFINE j == m - Len(rows)
        <5>1. j \in 1..Len(g) /\ rows'[m] = g[j] /\ j < k
          BY <2>4, <2>5, <2>9, <4>3
        <5>2. g[j].id = g[1].id + j - 1 /\ g[k].id = g[1].id + k - 1
          BY <2>6, <4>1, <5>1
        <5>3. QED
          BY <2>7, <2>9, <4>1, <5>1, <5>2
      <4>4. QED
        BY <2>4, <4>2, <4>3
    <3>3. QED
      BY <2>4, <2>5, <3>1, <3>2
  <2>10. ASSUME NEW m \in 1..Len(rows'), NEW n \in 1..Len(rows'),
                rows'[m].kind = "span", rows'[m].id = rows'[n].id
         PROVE  m = n
    <3>1. rows'[n].kind = "span"
      BY <2>10, RowsStep DEF RowsLogged
    <3>2. ~(m < n) /\ ~(n < m)
      BY <2>9, <2>10, <3>1
    <3>3. QED
      BY <3>2
  <2>11. QED
    BY <2>10 DEF SpanOnce
<1>4. QED
  BY <1>2, <1>3

-----------------------------------------------------------------------------
(* Theorems.                                                                *)

(* At the start nothing is logged, stored or under way. *)
LEMMA InitIInv == Init => IInv
<1> SUFFICES ASSUME Init
             PROVE  IInv
  OBVIOUS
<1>1. TypeOK
  BY DEF Init, LogInit, ServiceInit, TypeOK
<1>2. LogOK /\ RowsLogged /\ SentIsStored /\ SpanOnce
  BY DEF Init, LogInit, ServiceInit, LogOK, RowsLogged, SentIsStored, SpanOnce
<1>3. \A h \in Handlers : HandlerOK(h)
  BY DEF Init, ServiceInit, HandlerOK, LetIn, Truthful
<1>4. AttemptOK /\ CompletionPosted
  BY DEF Init, ServiceInit, AttemptOK, CompletionPosted
<1>5. QED
  BY <1>1, <1>2, <1>3, <1>4 DEF IInv

(* Every step keeps the strengthened invariant. *)
LEMMA NextIInv == IInv /\ [Next]_vars => IInv'
<1> SUFFICES ASSUME IInv, [Next]_vars
             PROVE  IInv'
  OBVIOUS
<1>1. TypeOK /\ LogOK
  BY DEF IInv
<1>2. TypeOK' /\ LogOK' /\ Grows
  BY <1>1, TypeStep, LogStep, NothingShrinks
<1>3. \A h \in Handlers : HandlerOK(h)'
  BY <1>2, HandlersStep
<1>4. RowsLogged' /\ AttemptOK' /\ CompletionPosted' /\ SentIsStored' /\ SpanOnce'
  BY <1>2, RowsStep, AttemptStep, CompletionStep, SentStep, SpanStep
<1>5. QED
  BY <1>2, <1>3, <1>4 DEF IInv

(* The strengthened invariant holds in every reachable state.               *)
THEOREM Invariance == Spec => []IInv
<1>1. QED
  BY InitIInv, NextIInv, PTL DEF Spec

(* Type correctness, for every number of runs and request threads.          *)
THEOREM TypeCorrect == Spec => []TypeOK
<1>1. IInv => TypeOK
  BY DEF IInv
<1>2. QED
  BY <1>1, Invariance, PTL

(* What _send reports as accepted is in the database, whatever timed out,   *)
(* was retried in another batch or was answered 409.                        *)
THEOREM SentIsInDatabase == Spec => []SentIsStored
<1>1. IInv => SentIsStored
  BY DEF IInv
<1>2. QED
  BY <1>1, Invariance, PTL

(* A span is stored once, however often and in whatever batch it was posted.*)
THEOREM SpansAreStoredOnce == Spec => []SpanOnce
<1>1. IInv => SpanOnce
  BY DEF IInv
<1>2. QED
  BY <1>1, Invariance, PTL

(* Data and completions meet a 404 only when the creation was given up.     *)
THEOREM RunIsKnown == Spec => []KnownRun
<1>1. IInv => KnownRun
  BY DEF IInv, HandlerOK, Truthful, CreationRejected, KnownRun
<1>2. QED
  BY <1>1, Invariance, PTL

(* What a completed run still receives comes from an attempt that was given *)
(* up and settled since, or overtakes a completion that was given up.       *)
THEOREM LateRowsAreLeftovers == Spec => LateRowsAreSettled
<1> DEFINE Late(n) == n > Len(rows) /\ runRow[rows'[n].run] = "complete"
           Excused(n) ==
             \/ rows'[n].id <= Len(fate)
             \/ \E i \in 1..Len(fate) : /\ log[i].kind = "complete" /\ log[i].run = rows'[n].run
                                        /\ fate[i] = "rejected"
<1>1. ASSUME IInv, IInv', [Next]_vars, NEW m \in 1..Len(rows'), Late(m)
      PROVE  Excused(m)
  <2>1. TypeOK /\ LogOK /\ CompletionPosted /\ TypeOK'
    BY <1>1 DEF IInv
  <2>2. rows' # rows
    BY <1>1, <2>1 DEF TypeOK
  <2>3. PICK h \in Handlers : WriteData(h) /\ rows' = rows \o request[h]
    BY <1>1, <2>2 DEF Next, Enqueue, Shutdown, Post, Receive, Settle, GiveUp, Forget, ServiceStep,
                Serve, Look, WriteRun, WriteComplete, WriteData, Fail, serviceVars, dbVars, vars
  <2>4. PICK g \in Seq(Items) : g = request[h]
    BY <2>1 DEF TypeOK
  <2>5. Started(g) /\ LetIn(h) /\ step[h] = "write" /\ g[1].kind \in DataKinds
    <3>1. HandlerOK(h) /\ step[h] = "write" /\ KindOf(h) \in DataKinds
      BY <1>1, <2>3 DEF IInv, WriteData
    <3>2. QED
      BY <2>4, <3>1 DEF HandlerOK, Started, KindOf
  <2>6. PICK k \in 1..Len(g) : rows'[m] = g[k]
    <3>1. rows \in Seq(Items) /\ Len(rows) \in Nat /\ Len(g) \in Nat
      BY <2>1 DEF TypeOK
    <3>2. /\ Len(rows') = Len(rows) + Len(g)
          /\ \A n \in 1..Len(g) : rows'[Len(rows) + n] = g[n]
      BY <2>3, <2>4, <3>1
    <3>3. m - Len(rows) \in 1..Len(g) /\ Len(rows) + (m - Len(rows)) = m
      BY <1>1, <3>1, <3>2
    <3>4. QED
      BY <3>2, <3>3
  <2>7. /\ g[1].id \in Nat /\ g[1].id >= 1 /\ g[1].id <= Len(fate) + 1 /\ Len(fate) \in Nat
        /\ g[k].id = g[1].id + k - 1 /\ g[k].id \in 1..Len(log) /\ g[k] = log[g[k].id]
    <3>1. g[1].id \in Nat /\ g[1].id >= 1 /\ g[1].id <= Len(fate) + 1 /\ Len(fate) \in Nat
      <4>1. Len(fate) \in Nat
        BY <2>1 DEF TypeOK
      <4>2. g[1].id \in 1..(Len(fate) + 1)
        BY <2>5 DEF Started
      <4>3. QED
        BY <4>1, <4>2
    <3>2. g[1].id + k - 1 <= Len(log) /\ g[k] = log[g[1].id + k - 1]
      BY <2>5 DEF Started
    <3>3. g[1].id + k - 1 \in 1..Len(log)
      BY <3>1, <3>2
    <3>4. QED
      BY <2>1, <3>1, <3>2, <3>3 DEF LogOK
  <2>8. g[k].run = g[1].run /\ g[k].kind = g[1].kind /\ g[k].run \in Runs
    <3>1. g[k] \in Items
      OBVIOUS
    <3>2. QED
      BY <2>5, <3>1 DEF Started, Items
  <2>9. PICK j \in 1..Len(log) :
          j <= Len(fate) + 1 /\ log[j].kind = "complete" /\ log[j].run = g[1].run
    BY <1>1, <2>1, <2>6, <2>8 DEF CompletionPosted
  <2>10. CASE j < g[1].id
    <3>1. j \in 1..(g[1].id - 1) /\ j \in 1..Len(fate)
      BY <2>7, <2>10
    <3>2. fate[j] = "rejected"
      BY <2>4, <2>5, <2>9, <3>1 DEF LetIn, KindOf, RunOf
    <3>3. QED
      BY <2>6, <2>8, <2>9, <3>1, <3>2
  <2>11. CASE g[1].id <= j /\ j < g[1].id + Len(g)
    <3>1. j - g[1].id + 1 \in 1..Len(g) /\ g[1].id + (j - g[1].id + 1) - 1 = j
      <4>1. Len(g) \in Nat /\ j \in Nat /\ g[1].id \in Nat
        BY <2>1, <2>7 DEF TypeOK
      <4>2. QED
        BY <2>11, <4>1
    <3>2. g[j - g[1].id + 1] = log[j] /\ g[j - g[1].id + 1].kind = g[1].kind
      BY <2>5, <3>1 DEF Started
    <3>3. QED
      BY <2>5, <2>9, <3>2 DEF DataKinds
  <2>12. CASE g[1].id + Len(g) <= j
    <3>1. Len(g) \in Nat /\ k <= Len(g) /\ k \in Nat /\ g[1].id \in Nat /\ j \in Nat
      BY <2>7
    <3>2. g[k].id <= Len(fate)
      BY <2>7, <2>9, <2>12, <3>1
    <3>3. QED
      BY <2>6, <3>2
  <2>13. Len(g) \in Nat /\ g[1].id \in Nat /\ j \in Nat
    BY <2>7
  <2>14. \/ j < g[1].id
         \/ g[1].id <= j /\ j < g[1].id + Len(g)
         \/ g[1].id + Len(g) <= j
    BY <2>13
  <2>15. QED
    BY <2>10, <2>11, <2>12, <2>14
<1>2. IInv /\ IInv' /\ [Next]_vars => [\A n \in 1..Len(rows') : Late(n) => Excused(n)]_vars
  BY <1>1
<1>3. QED
  BY <1>2, Invariance, PTL DEF Spec, LateRowsAreSettled
=============================================================================
