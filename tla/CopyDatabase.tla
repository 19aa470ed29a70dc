----------------------------- MODULE CopyDatabase -----------------------------
(***************************************************************************)
(* copy_database() of profiler_service/copy_db.py: every row of one        *)
(* database into another, parents first and in one transaction of the      *)
(* target, and the count of the rows afterwards.  Nothing stops the        *)
(* service that writes the source meanwhile, and the tool may be killed    *)
(* and started again at any moment.                                        *)
(*                                                                         *)
(* Three tables stand for all: projects, of which the target is born with  *)
(* one row, the runs, and rows that refer to runs (spans, samples...).     *)
(***************************************************************************)
EXTENDS Naturals, Sequences, FiniteSets

CONSTANTS CopyRuns,      \* runs of the source
          MaxCopies      \* bound on the copies started

ASSUME CopyAssumption == MaxCopies \in Nat

VARIABLES source,     \* source[t]: its rows
          target,     \* target[t]: what is committed
          copied,     \* copied[t]: the target as its open transaction sees it
          todo,       \* the tables left of the pass under way
          tool,       \* what the tool is doing
          copies,     \* the copies started
          throughout  \* the rows that have been in the source since it started

copyVars == <<source, target, copied, todo, tool, copies, throughout>>

\* A run and its span have one name; the seed is the Default project.
CopyTables == <<"projects", "runs", "spans">>
CopyRows == [projects : SUBSET {"default", "side"}, runs : SUBSET CopyRuns, spans : SUBSET CopyRuns]
Seeded == [projects |-> {"default"}, runs |-> {}, spans |-> {}]

CopyInit ==
  /\ source \in {r \in CopyRows : "default" \in r.projects /\ r.spans \subseteq r.runs}
  /\ target = Seeded /\ copied = Seeded
  /\ todo = <<>> /\ tool = "off" /\ copies = 0
  /\ throughout = Seeded

-----------------------------------------------------------------------------
(* The service on the source *)

SourceIs(s) ==
  /\ source' = s
  /\ throughout' = [t \in DOMAIN throughout |-> throughout[t] \cap s[t]]
  /\ UNCHANGED <<target, copied, todo, tool, copies>>

SourceRun(r) == r \notin source.runs /\ SourceIs([source EXCEPT !.runs = @ \cup {r}])
SourceSpan(r) ==
  r \in source.runs \ source.spans /\ SourceIs([source EXCEPT !.spans = @ \cup {r}])
SourcePurge(r) ==
  r \in source.runs /\ SourceIs([source EXCEPT !.runs = @ \ {r}, !.spans = @ \ {r}])

-----------------------------------------------------------------------------
(* The tool *)

\* make_engine(target) has migrated it; rows but the seed are refused.
StartCopy ==
  /\ tool = "off" /\ copies < MaxCopies
  /\ copies' = copies + 1
  /\ IF target = Seeded
     THEN tool' = "copy" /\ todo' = CopyTables /\ copied' = target
     ELSE tool' = "refused" /\ UNCHANGED <<todo, copied>>
  /\ throughout' = source
  /\ UNCHANGED <<source, target>>

\* A row that is there already (but the seed, which is replaced) or a row
\* whose run is not, is refused by the target, and everything is rolled back.
Rejected(t) ==
  \/ (copied[t] \cap source[t]) \ Seeded[t] # {}
  \/ t = "spans" /\ ~(source.spans \subseteq copied.runs)

CopyTable ==
  /\ tool = "copy" /\ todo # <<>>
  /\ LET t == Head(todo)
     IN IF Rejected(t)
        THEN tool' = "failed" /\ copied' = target /\ todo' = <<>>
        ELSE copied' = [copied EXCEPT ![t] = @ \cup source[t]] /\ todo' = Tail(todo) /\ UNCHANGED tool
  /\ UNCHANGED <<source, target, copies, throughout>>

CommitCopy ==
  /\ tool = "copy" /\ todo = <<>>
  /\ target' = copied
  /\ tool' = "count" /\ todo' = CopyTables
  /\ UNCHANGED <<source, copied, copies, throughout>>

\* Of the projects the seed counts on both sides.
Expected(t) == Cardinality(IF t = "projects" THEN source[t] \cup Seeded[t] ELSE source[t])

CountTable ==
  /\ tool = "count" /\ todo # <<>>
  /\ IF Expected(Head(todo)) = Cardinality(target[Head(todo)])
     THEN todo' = Tail(todo) /\ UNCHANGED tool
     ELSE tool' = "failed" /\ todo' = <<>>
  /\ UNCHANGED <<source, target, copied, copies, throughout>>

CopyDone ==
  /\ tool = "count" /\ todo = <<>>
  /\ tool' = "done"
  /\ UNCHANGED <<source, target, copied, todo, copies, throughout>>

ToolEnds ==
  /\ tool # "off"
  /\ tool' = "off" /\ todo' = <<>> /\ copied' = target
  /\ UNCHANGED <<source, target, copies, throughout>>

CopyNext ==
  \/ \E r \in CopyRuns : SourceRun(r) \/ SourceSpan(r) \/ SourcePurge(r)
  \/ StartCopy \/ CopyTable \/ CommitCopy \/ CountTable \/ CopyDone \/ ToolEnds

CopySpec == CopyInit /\ [][CopyNext]_copyVars

-----------------------------------------------------------------------------
(* Properties *)

CopyTypeOK ==
  /\ source \in CopyRows /\ target \in CopyRows /\ copied \in CopyRows /\ throughout \in CopyRows
  /\ tool \in {"off", "copy", "count", "done", "failed", "refused"} /\ copies \in 0..MaxCopies

\* A copy that is reported as done has every row that was in the source all
\* the time, and each row of the target has its parent.
DoneMeansCopied ==
  /\ tool = "done" => \A t \in DOMAIN source : throughout[t] \subseteq target[t]
  /\ target.spans \subseteq target.runs

\* Nothing of a copy that did not come to its end stays in the target, so that
\* it can be repeated; one that ended is never written again.
CopiedAtOnce ==
  [][/\ target # Seeded => target' = target
     /\ target' # target => \A t \in DOMAIN throughout : throughout[t] \subseteq target'[t]]_copyVars

\* "row counts are checked" (README.md:63): what was done is the same as the
\* source, of which rows may come and go in equal numbers.
DoneMeansEqual == tool = "done" => \A t \in DOMAIN source : Cardinality(target[t]) = Cardinality(source[t])
=============================================================================
