----------------------------- MODULE ServiceData -----------------------------
(***************************************************************************)
(* Stored data under concurrent use: the OTLP receiver (otlp.py), trials   *)
(* saved by the Lab (lab_store.py) and the retention purge (retention.py)  *)
(* of profiler_service.                                                    *)
(*                                                                         *)
(* Each of them reads the database in some steps and writes it in one      *)
(* commit; the others commit in between.  Foreign keys are enforced: a row *)
(* about a run that is gone, and a run of an experiment that is gone, make *)
(* the commit fail, and it then writes nothing.                            *)
(***************************************************************************)
EXTENDS Naturals, Sequences, FiniteSets

CONSTANTS AppRuns, LabRuns,  \* run ids that exporters choose, and that the Lab makes
          Exps,              \* ids of Lab experiments
          Sources,           \* what may send data: [project, service] records
          LabSource,         \* the source of the Lab's runs
          Spans, Points,     \* spans, and data points of metrics
          Exports,           \* export requests: sequences of [run, row] records
          Handlers,          \* threads that serve exports
          NoRun, NoExp

ASSUME ServiceDataAssumption ==
  /\ LabSource \in Sources /\ AppRuns \cap LabRuns = {} /\ Spans \cap Points = {}
  /\ Exports \subseteq Seq([run : AppRuns \cup LabRuns, row : Spans \cup Points])
  /\ NoExp \notin Exps
  /\ NoRun \notin [from : Sources, exp : Exps \cup {NoExp}, old : BOOLEAN]

VARIABLES run,       \* run[r]: the row of run r
          exp,       \* exp[e]: the row of experiment e
          rows,      \* the spans and data points stored for runs
          tx,        \* tx[h]: the export request and the transaction of h
          purge      \* the purge of the retention thread

dataVars  == <<run, exp, rows, tx, purge>>

RunIds    == AppRuns \cup LabRuns
ProjectIds == {s.project : s \in Sources}
Row(s, e) == [from |-> s, exp |-> e, old |-> FALSE]
NoTx == [on |-> FALSE, from |-> LabSource, todo |-> <<>>, new |-> {}, used |-> {}, add |-> {}]
Idle == [at |-> "idle", runs |-> {}, exps |-> {}, project |-> LabSource.project]

DataInit ==
  /\ run = [r \in RunIds |-> NoRun] /\ exp = [e \in Exps |-> [status |-> "none", old |-> FALSE]]
  /\ rows = {} /\ tx = [h \in Handlers |-> NoTx]
  /\ purge = Idle

-----------------------------------------------------------------------------
(* The OTLP receiver: one transaction for all resources of a request *)

Export(h, from, request) ==
  /\ ~tx[h].on
  /\ tx' = [tx EXCEPT ![h] = [NoTx EXCEPT !.on = TRUE, !.from = from, !.todo = request]]
  /\ UNCHANGED <<run, exp, rows, purge>>

\* The transaction after it took the next resource: its run, made if it was
\* not there, and its row; a span that the run has already is skipped.
Added(t) ==
  LET x     == Head(t.todo)
      there == run[x.run] # NoRun
      known == x.row \in Spans /\ <<x.run, x.row>> \in rows
  IN [t EXCEPT !.todo = Tail(t.todo),
               !.new  = IF there THEN t.new ELSE t.new \cup {x.run},
               !.used = t.used \cup {x.run},
               !.add  = IF known THEN t.add ELSE t.add \cup {<<x.run, x.row>>}]

\* _resolve_run.  A run of another project or service, or a project that may
\* not be written, rejects the resource and leaves the others.
Resolve(h) ==
  LET t == tx[h]
      r == Head(t.todo).run
      taken == run[r] # NoRun /\ run[r].from # t.from
  IN /\ t.on /\ t.todo # <<>>
     /\ \/ ~taken /\ tx' = [tx EXCEPT ![h] = Added(t)]
        \/ /\ taken \/ (run[r] = NoRun /\ r \notin t.new)
           /\ tx' = [tx EXCEPT ![h] = [t EXCEPT !.todo = Tail(t.todo)]]
     /\ UNCHANGED <<run, exp, rows, purge>>

\* uq_span_per_run, the primary key of runs and the foreign keys decide.
WrongCommitExport(h) ==   \* foreign keys are not enforced
  LET t == tx[h]
  IN /\ t.on /\ t.todo = <<>>
     /\ \A r \in t.new : run[r] = NoRun
     /\ \A x \in t.add : x[2] \in Spans => x \notin rows
     /\ run' = [r \in RunIds |-> IF r \in t.new THEN Row(t.from, NoExp) ELSE run[r]]
     /\ rows' = rows \cup t.add
     /\ tx' = [tx EXCEPT ![h] = NoTx]
     /\ UNCHANGED <<exp, purge>>

CommitExport(h) ==
  LET t == tx[h]
  IN /\ t.on /\ t.todo = <<>>
     /\ \A r \in t.used : r \in t.new <=> run[r] = NoRun
     /\ \A x \in t.add : x[2] \in Spans => x \notin rows
     /\ run' = [r \in RunIds |-> IF r \in t.new THEN Row(t.from, NoExp) ELSE run[r]]
     /\ rows' = rows \cup t.add
     /\ tx' = [tx EXCEPT ![h] = NoTx]
     /\ UNCHANGED <<exp, purge>>

\* A constraint is violated, or the request dies before the commit; the
\* exporter sees an error or a timeout and may send the same again.
ExportFails(h) ==
  /\ tx[h].on
  /\ tx' = [tx EXCEPT ![h] = NoTx]
  /\ UNCHANGED <<run, exp, rows, purge>>

-----------------------------------------------------------------------------
(* The Lab's rows, as runner.py writes them *)

StartExperiment(e) ==
  /\ exp[e].status = "none"
  /\ exp' = [exp EXCEPT ![e].status = "running"]
  /\ UNCHANGED <<run, rows, tx, purge>>

\* save_trial: the run and its rows in one commit.
SaveTrial(e, r) ==
  /\ exp[e].status = "running" /\ run[r] = NoRun
  /\ run' = [run EXCEPT ![r] = Row(LabSource, e)]
  /\ rows' = rows \cup ({r} \X Points)
  /\ UNCHANGED <<exp, tx, purge>>

\* It becomes complete, failed or cancelled.
EndExperiment(e) ==
  /\ exp[e].status = "running"
  /\ exp' = [exp EXCEPT ![e].status = "settled"]
  /\ UNCHANGED <<run, rows, tx, purge>>

\* Time passes; an experiment is older than its trials.
Ages ==
  /\ \/ \E r \in RunIds :
          /\ run[r] # NoRun
          /\ run[r].exp \in {NoExp} \cup {e \in Exps : exp[e].old}
          /\ run' = [run EXCEPT ![r].old = TRUE] /\ UNCHANGED exp
     \/ \E e \in Exps : /\ exp[e].status # "none"
                        /\ exp' = [exp EXCEPT ![e].old = TRUE] /\ UNCHANGED run
  /\ UNCHANGED <<rows, tx, purge>>

-----------------------------------------------------------------------------
(* purge(), for one project after the other, in the retention thread *)

RunsOf(p)   == {r \in RunIds : run[r] # NoRun /\ run[r].from.project = p}
TrialsOf(e) == {r \in RunIds : run[r] # NoRun /\ run[r].exp = e}

ChooseRuns(p) ==
  /\ purge.at = "idle"
  /\ purge' = [at |-> "runs", runs |-> {r \in RunsOf(p) : run[r].old}, exps |-> {}, project |-> p]
  /\ UNCHANGED <<run, exp, rows, tx>>

\* The experiments that will be empty.  A dry run ends here.
ChooseExps ==
  /\ purge.at = "runs"
  /\ \/ purge' = [purge EXCEPT !.at = "rows", !.exps =
                    {e \in Exps : /\ purge.project = LabSource.project
                                  /\ exp[e].status = "settled" /\ exp[e].old
                                  /\ TrialsOf(e) \subseteq purge.runs}]
     \/ purge' = Idle
  /\ UNCHANGED <<run, exp, rows, tx>>

\* All deletions and the record of the purge are one commit.
CommitPurge ==
  /\ purge.at = "rows"
  /\ \A e \in purge.exps : TrialsOf(e) \subseteq purge.runs
  /\ rows' = {x \in rows : x[1] \notin purge.runs}
  /\ run' = [r \in RunIds |-> IF r \in purge.runs THEN NoRun ELSE run[r]]
  /\ exp' = [e \in Exps |-> IF e \in purge.exps THEN [status |-> "none", old |-> FALSE] ELSE exp[e]]
  /\ purge' = Idle
  /\ UNCHANGED tx

PurgeFails ==
  /\ purge.at = "rows"
  /\ purge' = Idle
  /\ UNCHANGED <<run, exp, rows, tx>>

-----------------------------------------------------------------------------
DataNext ==
  \/ \E h \in Handlers :
       \/ \E s \in Sources \ {LabSource}, x \in Exports : Export(h, s, x)
       \/ Resolve(h) \/ CommitExport(h) \/ ExportFails(h)
  \/ \E e \in Exps : \/ StartExperiment(e) \/ EndExperiment(e)
                     \/ \E r \in LabRuns : SaveTrial(e, r)
  \/ Ages
  \/ \E p \in ProjectIds : ChooseRuns(p)
  \/ ChooseExps \/ CommitPurge \/ PurgeFails

DataSpec == DataInit /\ [][DataNext]_dataVars

-----------------------------------------------------------------------------
(* Properties *)

DataTypeOK ==
  /\ run \in [RunIds -> {NoRun} \cup [from : Sources, exp : Exps \cup {NoExp}, old : BOOLEAN]]
  /\ exp \in [Exps -> [status : {"none", "running", "settled"}, old : BOOLEAN]]
  /\ rows \subseteq RunIds \X (Spans \cup Points)
  /\ tx \in [Handlers -> [on : BOOLEAN, from : Sources,
                          todo : Seq([run : RunIds, row : Spans \cup Points]),
                          new : SUBSET RunIds, used : SUBSET RunIds,
                          add : SUBSET (RunIds \X (Spans \cup Points))]]
  /\ \A h \in Handlers : /\ tx[h].new \subseteq tx[h].used
                         /\ \A x \in tx[h].add : x[1] \in tx[h].used
  /\ purge \in [at : {"idle", "runs", "rows"}, runs : SUBSET RunIds, exps : SUBSET Exps,
               project : ProjectIds]

\* No row outlives its run and no trial its experiment, although runs disappear
\* between the steps of a request that found them, and trials and exports arrive
\* between the steps of a purge.
RowsHaveTheirRun ==
  /\ \A x \in rows : run[x[1]] # NoRun
  /\ \A r \in RunIds : run[r] # NoRun /\ run[r].exp # NoExp => exp[run[r].exp].status # "none"

\* A purge deletes old rows only, and an experiment with the last of its runs
\* and after its end: what it chose is still what it deletes.
PurgeTakesOldOnly ==
  [][/\ \A r \in RunIds : run[r] # NoRun /\ run'[r] = NoRun => run[r].old
     /\ \A e \in Exps : exp[e].status # "none" /\ exp'[e].status = "none" =>
          exp[e].status = "settled" /\ exp[e].old /\ TrialsOf(e)' = {}]_<<run, exp>>

\* What the service promises of the rows it keeps.
DataIsKept == [](DataTypeOK /\ RowsHaveTheirRun) /\ PurgeTakesOldOnly

\* README.md:124 "Experiments still running are never touched".
RunningNotTouched ==
  [][\A r \in RunIds : run[r] # NoRun /\ run'[r] = NoRun /\ run[r].exp # NoExp =>
       exp[run[r].exp].status # "running"]_run
=============================================================================
