------------------------------ MODULE Delivery ------------------------------
(***************************************************************************)
(* The SDK's sender and the service together, over a connection on which   *)
(* an attempt may time out although the service goes on with it.           *)
(*                                                                         *)
(* The sender is taken as the delivery log that BackgroundSender implements*)
(* (DeliversInOrder): items get their fate in order, a request at a time.  *)
(* Here the verdict comes from the answer of a handler of IngestService.   *)
(* A request whose attempt was given up is served concurrently with the    *)
(* retry, which takes a new, perhaps longer, group from the queue.         *)
(***************************************************************************)
EXTENDS IngestService, DeliveryLog

CONSTANTS Nobody,      \* no handler
          Offered      \* the <<kind, run>> pairs the host enqueues

ASSUME DeliveryAssumption ==
  /\ Nobody \notin Handlers
  /\ Offered \subseteq Kinds \X Runs
  /\ MaxItems \in Nat /\ MaxRows \in Nat

VARIABLES attempt,     \* the handler that serves the POST under way
          posted       \* the group it carries

senderVars == <<attempt, posted>>
vars == <<log, fate, open, serviceVars, senderVars>>

Init ==
  /\ LogInit /\ ServiceInit
  /\ attempt = Nobody /\ posted = <<>>

-----------------------------------------------------------------------------
(* The host.  Each control item once, the completion after the creation;    *)
(* data also before the creation, since ProfilerClient shows (CreationFirst)*)
(* that another thread may be faster than __enter__.                        *)

Logged(kind, run) == \E i \in 1..Len(log) : log[i].kind = kind /\ log[i].run = run

Enqueue(kind, run) ==
  /\ kind = "complete" => Logged("run", run)
  /\ kind \in ControlKinds => ~Logged(kind, run)
  /\ AcceptItem(kind, run)
  /\ UNCHANGED <<serviceVars, senderVars>>

Shutdown ==
  /\ open
  /\ Close
  /\ UNCHANGED <<serviceVars, senderVars>>

-----------------------------------------------------------------------------
(* The sender thread.                                                       *)

Post(h) ==
  /\ open /\ attempt = Nobody
  /\ \E n \in 1..Len(Undecided) :
       /\ IsGroup(Undecided, n)
       /\ posted' = SubSeq(Undecided, 1, n)
  /\ Receive(h, posted')
  /\ attempt' = h
  /\ UNCHANGED <<log, fate, open>>

(* What becomes of the group when this answer arrives.                      *)
WrongAssigned(result) == IF result = "dropped" THEN "sent" ELSE "rejected"
Assigned(result) == IF result = "ok" THEN "sent" ELSE "rejected"

(* The answer came back in time; a body that breaks off half-way raises an  *)
(* exception _send does not expect.                                         *)
Settle ==
  /\ attempt # Nobody /\ step[attempt] = "done"
  /\ \E seen \in {answer[attempt], "exception"} :
       LET result == Verdict(posted[1].kind, seen) IN
       IF open /\ result # "retry"
       THEN Decide(Len(posted), Assigned(result))
       ELSE UNCHANGED <<log, fate, open>>
  /\ Forget(attempt)
  /\ attempt' = Nobody /\ posted' = <<>>

(* It did not: the head stays queued and will be posted again.              *)
GiveUp ==
  /\ attempt # Nobody
  /\ attempt' = Nobody /\ posted' = <<>>
  /\ UNCHANGED <<log, fate, open, serviceVars>>

-----------------------------------------------------------------------------

ServiceStep ==
  /\ \E h \in Handlers : Serve(h) \/ Fail(h) \/ (h # attempt /\ Forget(h))
  /\ UNCHANGED <<log, fate, open, senderVars>>

Next ==
  \/ \E offer \in Offered : Enqueue(offer[1], offer[2])
  \/ Shutdown
  \/ \E h \in Handlers : Post(h)
  \/ Settle \/ GiveUp
  \/ ServiceStep

Spec == Init /\ [][Next]_vars
-----------------------------------------------------------------------------
(* Properties.                                                              *)

(* Type invariant: the log, the database and the handlers hold what their   *)
(* types say, and a handler has a request exactly while it is not free.     *)
TypeOK ==
  /\ log \in Seq(Items) /\ fate \in Seq(Fates) /\ open \in BOOLEAN
  /\ runRow \in [Runs -> {"absent", "open", "complete"}]
  /\ rows \in Seq(Items)
  /\ step \in [Handlers -> {"free", "look", "write", "done"}]
  /\ answer \in [Handlers -> Answers \cup {"none"}]
  /\ request \in [Handlers -> Seq(Items)]
  /\ \A h \in Handlers : (request[h] = <<>>) <=> (step[h] = "free")
  /\ attempt \in Handlers \cup {Nobody} /\ posted \in Seq(Items)
  /\ (attempt = Nobody) <=> (posted = <<>>)

(* The service holds what the item stands for. *)
Holds(item) ==
  CASE item.kind = "run"      -> runRow[item.run] # "absent"
    [] item.kind = "complete" -> runRow[item.run] = "complete"
    [] OTHER                  -> Stored(item.id)

(* What the SDK counts as sent is in the service's database, whatever was   *)
(* retried, answered late or answered for another attempt (the 409 that     *)
(* _send takes for a success).                                              *)
SentIsStored == \A i \in 1..Len(fate) : fate[i] = "sent" => Holds(log[i])

(* However often a span was posted, in whatever batches, by handlers that   *)
(* overlap: it is stored once.                                              *)
SpanOnce ==
  \A m, n \in 1..Len(rows) :
    rows[m].kind = "span" /\ rows[m].id = rows[n].id => m = n

(* The creation of the item's run was accepted by enqueue() before it. *)
CreatedBefore(item) ==
  \E c \in 1..(item.id - 1) : log[c].kind = "run" /\ log[c].run = item.run

(* No handler answers 404 to a completion, or to data enqueued after the    *)
(* creation of its run, unless the SDK had to give that creation up.        *)
KnownRun ==
  \A h \in Handlers : answer[h] = "refused" /\ CreatedBefore(request[h][1]) =>
    \E i \in 1..Len(fate) :
      log[i].kind = "run" /\ log[i].run = RunOf(h) /\ fate[i] = "rejected"

(* What is stored for a run that was complete before is left over from an   *)
(* attempt that the sender gave up and has settled since: check_batch keeps *)
(* all other data out.  (A completion that was itself given up may commit   *)
(* between the look and the commit of data posted after it.)                *)
LateRowsAreSettled ==
  [][\A n \in 1..Len(rows') :
       n > Len(rows) /\ runRow[rows'[n].run] = "complete" =>
         \/ rows'[n].id <= Len(fate)
         \/ \E i \in 1..Len(fate) : /\ log[i].kind = "complete" /\ log[i].run = rows'[n].run
                                    /\ fate[i] = "rejected"]_vars

(* README: spans_sent counts what the service accepted.  So what the SDK    *)
(* counted as dropped is not in the database.                               *)
DroppedIsNotStored ==
  \A i \in 1..Len(fate) :
    fate[i] = "rejected" /\ log[i].kind = "span" => ~Stored(log[i].id)
=============================================================================
