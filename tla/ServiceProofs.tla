---------------------------- MODULE ServiceProofs ----------------------------
(***************************************************************************)
(* Proofs about what the service stores, shares, copies and compares:      *)
(* ServiceData for any runs, experiments, exporters and requests, Shares   *)
(* for any links, ids and viewers and without a bound on time,             *)
(* CopyDatabase for any tables and rows, VariantComparison for any         *)
(* variants and any number of trials with any medians, Latency for any     *)
(* durations, calls and rows.                                              *)
(***************************************************************************)
EXTENDS ServiceData, Shares, CopyDatabase, VariantComparison, Latency,
        FiniteSetTheorems, WellFoundedInduction, TLAPS

-----------------------------------------------------------------------------
(* Share links *)

\* A link that names something is of a project that exists.
LinksOK == \A l \in Links : link[l].targets # {} => link[l].project \in Homes

ShareInv == SharesTypeOK /\ LinksOK /\ SharedStaysInProject

LinkRows == [targets : SUBSET Ids, project : Homes \cup {NoHome}, live : BOOLEAN, views : 0..MaxViews]

\* What a step may do to the row of a link that is there.
Continued(l) ==
  link[l] # NoLink => /\ link'[l].live => link[l].live
                      /\ link'[l].targets = link[l].targets /\ link'[l].project = link[l].project

LEMMA LinkStep ==
  ASSUME ShareInv, SharesTypeOK', LinksOK', \A l \in Links : Continued(l), shown' = shown
  PROVE  ShareInv'
<1> SUFFICES ASSUME NEW v \in Viewers, NEW x \in shown[v]
             PROVE  x.project = link'[x.link].project /\ x.id \in link'[x.link].targets
  BY DEF ShareInv, SharedStaysInProject
<1>1. x.link \in Links /\ x.project = link[x.link].project /\ x.id \in link[x.link].targets
  BY DEF ShareInv, SharesTypeOK, SharedStaysInProject
<1>2. link[x.link] # NoLink
  BY <1>1 DEF NoLink
<1> QED BY <1>1, <1>2 DEF Continued

LEMMA CreateKeeps ==
  ASSUME ShareInv, NEW l \in Links, NEW targets \in SUBSET Ids, NEW p \in Homes,
         CreateShare(l, targets, p)
  PROVE  ShareInv' /\ \A m \in Links : Continued(m)
<1> DEFINE new == [targets |-> targets, project |-> p, live |-> TRUE, views |-> 0]
<1>1. /\ link' = [link EXCEPT ![l] = new] /\ link[l] = NoLink /\ targets # {}
      /\ UNCHANGED <<home, view, shown>>
  BY DEF CreateShare
<1>2. new \in LinkRows /\ new.targets = targets /\ new.project = p
  BY SharesAssumption DEF LinkRows
<1>3. link \in [Links -> LinkRows]
  BY DEF ShareInv, SharesTypeOK, LinkRows
<1> HIDE DEF new
<1>4. link' \in [Links -> LinkRows] /\ link'[l] = new /\ \A m \in Links \ {l} : link'[m] = link[m]
  BY <1>1, <1>2, <1>3
<1>5. SharesTypeOK'
  BY <1>1, <1>4 DEF ShareInv, SharesTypeOK, LinkRows
<1>6. LinksOK'
  BY <1>1, <1>2, <1>4 DEF ShareInv, LinksOK
<1>7. \A m \in Links : Continued(m)
  BY <1>1, <1>4 DEF Continued
<1> QED BY <1>1, <1>5, <1>6, <1>7, LinkStep

\* A change of one field of a row that is there.
LEMMA RowKeeps ==
  ASSUME ShareInv,
         \/ \E l \in Links : LinkOver(l)
         \/ \E v \in Viewers : CountView(v)
  PROVE  ShareInv' /\ \A m \in Links : Continued(m)
<1>1. link \in [Links -> LinkRows] /\ view \in [Viewers -> [at : Steps, links : SUBSET Links, views : 0..MaxViews]]
  BY DEF ShareInv, SharesTypeOK, LinkRows
<1>2. ASSUME NEW l \in Links, LinkOver(l) PROVE ShareInv' /\ \A m \in Links : Continued(m)
  <2>1. link' = [link EXCEPT ![l] = [link[l] EXCEPT !.live = FALSE]] /\ link[l].live
        /\ UNCHANGED <<home, view, shown>>
    BY <1>2 DEF LinkOver
  <2>2. [link[l] EXCEPT !.live = FALSE] \in LinkRows
    BY <1>1 DEF LinkRows
  <2>3. link' \in [Links -> LinkRows]
    BY <1>1, <2>1, <2>2
  <2>4. SharesTypeOK'
    BY <2>1, <2>3 DEF ShareInv, SharesTypeOK, LinkRows
  <2>5. \A m \in Links : /\ link'[m].targets = link[m].targets /\ link'[m].project = link[m].project
                         /\ link'[m].live => link[m].live
    BY <1>1, <2>1 DEF LinkRows
  <2>7. LinksOK'
    BY <2>5 DEF ShareInv, LinksOK
  <2> QED BY <2>1, <2>4, <2>5, <2>7, LinkStep DEF Continued
<1>3. ASSUME NEW v \in Viewers, CountView(v) PROVE ShareInv' /\ \A m \in Links : Continued(m)
  <2>1. PICK l \in view[v].links : link' = [link EXCEPT ![l] = [link[l] EXCEPT !.views = view[v].views + 1]]
    BY <1>3 DEF CountView
  <2>2. l \in Links /\ view[v].views + 1 \in 0..MaxViews
    BY <1>1, <1>3, SharesAssumption DEF CountView
  <2>3. view' = [view EXCEPT ![v] = [view[v] EXCEPT !.at = "comparing"]] /\ UNCHANGED <<home, shown>>
        /\ view[v].at = "counting"
    BY <1>3 DEF CountView
  <2>4. link' \in [Links -> LinkRows]
    <3>1. [link[l] EXCEPT !.views = view[v].views + 1] \in LinkRows
      BY <1>1, <2>2 DEF LinkRows
    <3> QED BY <1>1, <2>1, <2>2, <3>1
  <2>5. view' \in [Viewers -> [at : Steps, links : SUBSET Links, views : 0..MaxViews]]
    BY <1>1, <2>3 DEF Steps
  <2>6. SharesTypeOK'
    BY <2>3, <2>4, <2>5 DEF ShareInv, SharesTypeOK, LinkRows
  <2>7. \A m \in Links : /\ link'[m].targets = link[m].targets /\ link'[m].project = link[m].project
                         /\ link'[m].live = link[m].live
    BY <1>1, <2>1, <2>2 DEF LinkRows
  <2>9. LinksOK'
    BY <2>7 DEF ShareInv, LinksOK
  <2> QED BY <2>3, <2>6, <2>7, <2>9, LinkStep DEF Continued
<1> QED BY <1>2, <1>3

\* Data comes and goes, links are opened: no row of a link changes.
LEMMA OtherKeeps ==
  ASSUME ShareInv,
         \/ \E i \in Ids : Purged(i) \/ \E p \in Homes : Arrives(i, p)
         \/ \E v \in Viewers : SkipCount(v) \/ \E l \in Links : Open(v, l)
  PROVE  ShareInv' /\ \A m \in Links : Continued(m)
<1>1. link' = link /\ shown' = shown
  BY DEF Purged, Arrives, SkipCount, Open
<1>2. /\ link \in [Links -> LinkRows] /\ view \in [Viewers -> [at : Steps, links : SUBSET Links, views : 0..MaxViews]]
      /\ home \in [Ids -> Homes \cup {NoHome}]
  BY DEF ShareInv, SharesTypeOK, LinkRows
<1>3. home' \in [Ids -> Homes \cup {NoHome}]
  BY <1>2 DEF Purged, Arrives, SkipCount, Open
<1>4. view' \in [Viewers -> [at : Steps, links : SUBSET Links, views : 0..MaxViews]]
  <2>1. CASE UNCHANGED view
    BY <1>2, <2>1
  <2>2. CASE \E v \in Viewers : SkipCount(v)
    <3>1. PICK v \in Viewers : view' = [view EXCEPT ![v] = [view[v] EXCEPT !.at = "comparing"]]
      BY <2>2 DEF SkipCount
    <3>2. [view[v] EXCEPT !.at = "comparing"] \in [at : Steps, links : SUBSET Links, views : 0..MaxViews]
      BY <1>2 DEF Steps
    <3> QED BY <1>2, <3>1, <3>2
  <2>3. CASE \E v \in Viewers, l \in Links : Open(v, l)
    <3>1. PICK v \in Viewers, l \in Links :
            view' = [view EXCEPT ![v] = [at |-> "counting", links |-> {l}, views |-> link[l].views]]
      BY <2>3 DEF Open
    <3>2. link[l].views \in 0..MaxViews
      BY <1>2 DEF LinkRows
    <3>3. [at |-> "counting", links |-> {l}, views |-> link[l].views]
            \in [at : Steps, links : SUBSET Links, views : 0..MaxViews]
      BY <3>2 DEF Steps
    <3> QED BY <1>2, <3>1, <3>3
  <2> QED BY <2>1, <2>2, <2>3 DEF Purged, Arrives
<1>5. SharesTypeOK' /\ LinksOK'
  BY <1>1, <1>3, <1>4 DEF ShareInv, SharesTypeOK, LinksOK
<1> QED BY <1>1, <1>5, LinkStep DEF Continued

\* The comparison shows what is, at this moment, in the link's project.
LEMMA CompareKeeps ==
  ASSUME ShareInv, NEW v \in Viewers, CompareShared(v)
  PROVE  ShareInv' /\ \A m \in Links : Continued(m)
<1>1. PICK l \in view[v].links :
        shown' = [shown EXCEPT ![v] = {[link |-> l, id |-> i, project |-> home[i]] : i \in Loaded(l)}]
  BY DEF CompareShared
<1>2. /\ link' = link /\ home' = home
      /\ view' = [view EXCEPT ![v] = [at |-> "idle", links |-> {}, views |-> 0]]
  BY DEF CompareShared
<1>3. /\ link \in [Links -> LinkRows] /\ l \in Links
      /\ view \in [Viewers -> [at : Steps, links : SUBSET Links, views : 0..MaxViews]]
      /\ shown \in [Viewers -> SUBSET [link : Links, id : Ids, project : Homes]]
  BY DEF ShareInv, SharesTypeOK, LinkRows
<1>4. \A i \in Loaded(l) : i \in link[l].targets /\ home[i] = link[l].project /\ i \in Ids /\ home[i] \in Homes
  BY <1>3 DEF Loaded, LinkRows, ShareInv, LinksOK
<1> DEFINE new == {[link |-> l, id |-> i, project |-> home[i]] : i \in Loaded(l)}
<1>5. /\ new \in SUBSET [link : Links, id : Ids, project : Homes]
      /\ \A x \in new : x.link = l /\ x.project = link[l].project /\ x.id \in link[l].targets
  BY <1>3, <1>4
<1> HIDE DEF new
<1>6. shown' = [shown EXCEPT ![v] = new]
  BY <1>1 DEF new
<1>7. shown' \in [Viewers -> SUBSET [link : Links, id : Ids, project : Homes]]
  BY <1>3, <1>5, <1>6
<1>8. view' \in [Viewers -> [at : Steps, links : SUBSET Links, views : 0..MaxViews]]
  <2>1. [at |-> "idle", links |-> {}, views |-> 0] \in [at : Steps, links : SUBSET Links, views : 0..MaxViews]
    BY SharesAssumption DEF Steps
  <2> QED BY <1>2, <1>3, <2>1
<1>9. SharedStaysInProject'
  <2> SUFFICES ASSUME NEW u \in Viewers, NEW x \in shown'[u]
               PROVE  x.project = link[x.link].project /\ x.id \in link[x.link].targets
    BY <1>2 DEF SharedStaysInProject
  <2>1. CASE u = v
    BY <1>3, <1>5, <1>6, <2>1
  <2>2. CASE u # v
    BY <1>3, <1>6, <2>2 DEF ShareInv, SharedStaysInProject
  <2> QED BY <2>1, <2>2
<1>10. SharesTypeOK' /\ LinksOK'
  BY <1>2, <1>7, <1>8 DEF ShareInv, SharesTypeOK, LinksOK
<1> QED BY <1>2, <1>9, <1>10 DEF ShareInv, Continued

LEMMA SharesKept == ShareInv /\ [SharesNext]_shareVars => ShareInv' /\ \A l \in Links : Continued(l)
<1> SUFFICES ASSUME ShareInv, [SharesNext]_shareVars PROVE ShareInv' /\ \A l \in Links : Continued(l)
  OBVIOUS
<1>1. CASE UNCHANGED shareVars
  BY <1>1 DEF shareVars, ShareInv, SharesTypeOK, LinksOK, SharedStaysInProject, Continued
<1>2. CASE SharesNext
  <2>1. ASSUME NEW l \in Links, NEW x \in SUBSET Ids, NEW p \in Homes, CreateShare(l, x, p)
        PROVE  ShareInv' /\ \A m \in Links : Continued(m)
    BY <2>1, CreateKeeps
  <2>2. ASSUME NEW v \in Viewers, CompareShared(v) PROVE ShareInv' /\ \A m \in Links : Continued(m)
    BY <2>2, CompareKeeps
  <2>3. CASE (\E l \in Links : LinkOver(l)) \/ (\E v \in Viewers : CountView(v))
    BY <2>3, RowKeeps
  <2>4. CASE \/ \E i \in Ids : Purged(i) \/ \E p \in Homes : Arrives(i, p)
             \/ \E v \in Viewers : SkipCount(v) \/ \E l \in Links : Open(v, l)
    BY <2>4, OtherKeeps
  <2> QED BY <1>2, <2>1, <2>2, <2>3, <2>4 DEF SharesNext
<1> QED BY <1>1, <1>2

\* What a link shows is named by the link and of its project, however data was
\* purged and came back; a revoked link is never opened up again.
THEOREM SharesAreSafe == SharesSpec => LinksAreSafe
<1>1. SharesInit => ShareInv
  BY SharesAssumption DEF SharesInit, ShareInv, SharesTypeOK, LinksOK, SharedStaysInProject, NoLink, Steps
<1>2. SharesSpec => []ShareInv
  BY <1>1, SharesKept, PTL DEF SharesSpec
<1>3. ShareInv => SharesTypeOK /\ SharedStaysInProject
  BY DEF ShareInv
<1>4. ShareInv /\ [SharesNext]_shareVars =>
        [\A l \in Links : link[l] # NoLink =>
           /\ link'[l].live => link[l].live
           /\ link'[l].targets = link[l].targets /\ link'[l].project = link[l].project]_link
  BY SharesKept DEF Continued
<1> QED BY <1>2, <1>3, <1>4, PTL DEF SharesSpec, LinksAreSafe, LinksEndForGood

-----------------------------------------------------------------------------
(* Stored data *)

RunRows == [from : Sources, exp : Exps \cup {NoExp}, old : BOOLEAN]
ExpRows == [status : {"none", "running", "settled"}, old : BOOLEAN]
Items   == [run : RunIds, row : Spans \cup Points]
Bodies  == Seq(Items)
TxRows  == [on : BOOLEAN, from : Sources, todo : Bodies, new : SUBSET RunIds, used : SUBSET RunIds,
            add : SUBSET (RunIds \X (Spans \cup Points))]

\* What a purge has chosen is still there and still as it was: only a purge
\* makes it go away, and there is one at a time.
ChosenOK ==
  /\ \A r \in purge.runs : run[r] # NoRun /\ run[r].old
  /\ \A e \in purge.exps : exp[e].status = "settled" /\ exp[e].old

DataInv == DataTypeOK /\ RowsHaveTheirRun /\ ChosenOK

\* The types, one variable at a time.
LEMMA DataTypes ==
  DataTypeOK <=>
    /\ run \in [RunIds -> {NoRun} \cup RunRows] /\ exp \in [Exps -> ExpRows]
    /\ rows \subseteq RunIds \X (Spans \cup Points)
    /\ tx \in [Handlers -> TxRows]
    /\ \A h \in Handlers : tx[h].new \subseteq tx[h].used /\ \A x \in tx[h].add : x[1] \in tx[h].used
    /\ purge \in [at : {"idle", "runs", "rows"}, runs : SUBSET RunIds, exps : SUBSET Exps,
                  project : ProjectIds]
BY DEF DataTypeOK, RunRows, ExpRows, TxRows, Bodies, Items

LEMMA DataTypesAfter ==
  (DataTypeOK <=>
    /\ run \in [RunIds -> {NoRun} \cup RunRows] /\ exp \in [Exps -> ExpRows]
    /\ rows \subseteq RunIds \X (Spans \cup Points)
    /\ tx \in [Handlers -> TxRows]
    /\ \A h \in Handlers : tx[h].new \subseteq tx[h].used /\ \A x \in tx[h].add : x[1] \in tx[h].used
    /\ purge \in [at : {"idle", "runs", "rows"}, runs : SUBSET RunIds, exps : SUBSET Exps,
                  project : ProjectIds])'
BY DataTypes, PTL

LEMMA NoRunIsNoRow == \A x \in RunRows : x # NoRun
BY ServiceDataAssumption DEF RunRows

\* What a step must not do: take away what is recent or not settled.
OldOnly ==
  /\ \A r \in RunIds : run[r] # NoRun /\ run'[r] = NoRun => run[r].old
  /\ \A e \in Exps : exp[e].status # "none" /\ exp'[e].status = "none" =>
       exp[e].status = "settled" /\ exp[e].old /\ TrialsOf(e)' = {}

\* A step of a transaction that writes nothing yet.
LEMMA TxKeeps ==
  ASSUME DataInv, NEW h \in Handlers,
         \/ \E s \in Sources \ {LabSource}, x \in Exports : Export(h, s, x)
         \/ Resolve(h) \/ ExportFails(h)
  PROVE  DataInv' /\ OldOnly
<1>1. UNCHANGED <<run, exp, rows, purge>>
  BY DEF Export, Resolve, ExportFails
<1>2. /\ tx \in [Handlers -> TxRows]
      /\ \A g \in Handlers : tx[g].new \subseteq tx[g].used /\ \A x \in tx[g].add : x[1] \in tx[g].used
  BY DataTypes DEF DataInv
<1> DEFINE Good(t) == t \in TxRows /\ t.new \subseteq t.used /\ \A x \in t.add : x[1] \in t.used
<1>3. LabSource \in Sources /\ <<>> \in Bodies
  BY ServiceDataAssumption DEF Bodies
<1>4. Good(NoTx)
  BY <1>3 DEF NoTx, TxRows
<1>5. \E t : Good(t) /\ tx' = [tx EXCEPT ![h] = t]
  <2>1. CASE \E s \in Sources \ {LabSource}, x \in Exports : Export(h, s, x)
    <3>1. PICK s \in Sources, x \in Exports :
            tx' = [tx EXCEPT ![h] = [NoTx EXCEPT !.on = TRUE, !.from = s, !.todo = x]]
      BY <2>1 DEF Export
    <3>2. x \in Bodies
      BY ServiceDataAssumption DEF Bodies, Items, RunIds
    <3>3. Good([NoTx EXCEPT !.on = TRUE, !.from = s, !.todo = x])
      BY <1>4, <3>2 DEF NoTx, TxRows
    <3> QED BY <3>1, <3>3
  <2>2. CASE Resolve(h)
    <3> DEFINE t == tx[h]
               x == Head(t.todo)
               there == run[x.run] # NoRun
               known == x.row \in Spans /\ <<x.run, x.row>> \in rows
               more == Added(t)
               less == [t EXCEPT !.todo = Tail(t.todo)]
    <3>1. t \in TxRows /\ t.new \subseteq t.used /\ \A y \in t.add : y[1] \in t.used
      BY <1>2
    <3>2. t.todo \in Bodies /\ t.todo # <<>>
      BY <2>2, <3>1 DEF Resolve, TxRows
    <3>3. Tail(t.todo) \in Bodies /\ x \in [run : RunIds, row : Spans \cup Points]
      <4>1. Tail(t.todo) \in Bodies /\ x \in Items
        BY <3>2 DEF Bodies
      <4> QED BY <4>1 DEF Items
    <3>4. Good(less)
      BY <3>1, <3>3 DEF TxRows
    <3>5. Good(more)
      <4>1. <<x.run, x.row>> \in RunIds \X (Spans \cup Points) /\ <<x.run, x.row>>[1] = x.run /\ x.run \in RunIds
        BY <3>3
      <4>2. /\ more.on = t.on /\ more.from = t.from /\ more.todo = Tail(t.todo)
            /\ more.new = IF there THEN t.new ELSE t.new \cup {x.run}
            /\ more.used = t.used \cup {x.run}
            /\ more.add = IF known THEN t.add ELSE t.add \cup {<<x.run, x.row>>}
            /\ more = [t EXCEPT !.todo = more.todo, !.new = more.new, !.used = more.used, !.add = more.add]
        BY <3>1 DEF TxRows, Added
      <4> HIDE DEF x, there, known, more
      <4>3. more \in TxRows
        BY <3>1, <3>3, <4>1, <4>2 DEF TxRows
      <4>4. more.new \subseteq more.used /\ \A y \in more.add : y[1] \in more.used
        BY <3>1, <4>1, <4>2
      <4> QED BY <4>3, <4>4
    <3>6. tx' = [tx EXCEPT ![h] = more] \/ tx' = [tx EXCEPT ![h] = less]
      BY <2>2 DEF Resolve
    <3> QED BY <3>4, <3>5, <3>6
  <2>3. CASE ExportFails(h)
    BY <1>4, <2>3 DEF ExportFails
  <2> QED BY <2>1, <2>2, <2>3
<1>6. /\ tx' \in [Handlers -> TxRows]
      /\ \A g \in Handlers : tx'[g].new \subseteq tx'[g].used /\ \A x \in tx'[g].add : x[1] \in tx'[g].used
  BY <1>2, <1>5
<1>7. DataTypeOK'
  BY <1>1, <1>6, DataTypes, DataTypesAfter DEF DataInv
<1> QED BY <1>1, <1>7 DEF DataInv, RowsHaveTheirRun, ChosenOK, OldOnly

\* The commit of an export: what the transaction saw of its runs still holds.
LEMMA CommitKeeps ==
  ASSUME DataInv, NEW h \in Handlers, CommitExport(h)
  PROVE  DataInv' /\ OldOnly
<1> DEFINE t == tx[h]
<1>1. /\ \A r \in t.used : r \in t.new <=> run[r] = NoRun
      /\ run' = [r \in RunIds |-> IF r \in t.new THEN Row(t.from, NoExp) ELSE run[r]]
      /\ rows' = rows \cup t.add
      /\ tx' = [tx EXCEPT ![h] = NoTx] /\ exp' = exp /\ purge' = purge
  BY DEF CommitExport
<1>2. /\ tx \in [Handlers -> TxRows] /\ t \in TxRows
      /\ t.new \subseteq t.used /\ \A x \in t.add : x[1] \in t.used
  BY DataTypes DEF DataInv
<1>3. /\ run \in [RunIds -> {NoRun} \cup RunRows] /\ rows \subseteq RunIds \X (Spans \cup Points)
      /\ purge.runs \subseteq RunIds /\ purge.exps \subseteq Exps
  BY DataTypes DEF DataInv
<1>4. t.from \in Sources /\ t.used \subseteq RunIds /\ t.add \subseteq RunIds \X (Spans \cup Points)
  BY <1>2 DEF TxRows
<1> HIDE DEF t
<1>5. Row(t.from, NoExp) \in RunRows /\ Row(t.from, NoExp).exp = NoExp
  BY <1>4 DEF Row, RunRows
<1> DEFINE new == Row(t.from, NoExp)
<1> HIDE DEF new
<1>6. \A r \in RunIds : /\ run[r] # NoRun => run'[r] = run[r]
                        /\ run[r] = NoRun => run'[r] = NoRun \/ run'[r] = new
                        /\ r \in t.used => run'[r] # NoRun
  <2>1. new # NoRun
    BY <1>5, NoRunIsNoRow DEF new
  <2> QED BY <1>1, <1>2, <2>1 DEF new
<1>7. run' \in [RunIds -> {NoRun} \cup RunRows]
  BY <1>1, <1>3, <1>5
<1>8. LabSource \in Sources /\ <<>> \in Bodies
  BY ServiceDataAssumption DEF Bodies
<1>9. NoTx \in TxRows /\ NoTx.new = {} /\ NoTx.add = {}
  BY <1>8 DEF NoTx, TxRows
<1>10. tx' \in [Handlers -> TxRows]
       /\ \A g \in Handlers : tx'[g].new \subseteq tx'[g].used /\ \A x \in tx'[g].add : x[1] \in tx'[g].used
  <2>1. \A g \in Handlers : tx[g].new \subseteq tx[g].used /\ \A x \in tx[g].add : x[1] \in tx[g].used
    BY DataTypes DEF DataInv
  <2> QED BY <1>1, <1>2, <1>9, <2>1
<1>11. DataTypeOK'
  BY <1>1, <1>3, <1>4, <1>7, <1>10, DataTypes, DataTypesAfter DEF DataInv
<1>12. RowsHaveTheirRun'
  <2>1. ASSUME NEW x \in rows' PROVE run'[x[1]] # NoRun
    <3>1. CASE x \in rows
      <4>1. run[x[1]] # NoRun /\ x[1] \in RunIds
        BY <1>3, <3>1 DEF DataInv, RowsHaveTheirRun
      <4> QED BY <1>6, <4>1
    <3>2. CASE x \in t.add
      BY <1>2, <1>4, <1>6, <3>2 DEF t
    <3> QED BY <1>1, <3>1, <3>2
  <2>2. ASSUME NEW r \in RunIds, run'[r] # NoRun, run'[r].exp # NoExp PROVE exp'[run'[r].exp].status # "none"
    <3>1. run'[r] = run[r] /\ run[r] # NoRun
      BY <1>5, <1>6, <2>2 DEF new
    <3> QED BY <1>1, <2>2, <3>1 DEF DataInv, RowsHaveTheirRun
  <2> QED BY <2>1, <2>2 DEF RowsHaveTheirRun
<1>13. ChosenOK'
  BY <1>1, <1>3, <1>6 DEF DataInv, ChosenOK
<1>14. OldOnly
  BY <1>1, <1>6 DEF OldOnly
<1> QED BY <1>11, <1>12, <1>13, <1>14 DEF DataInv

\* The Lab, and time.
LEMMA LabKeeps ==
  ASSUME DataInv,
         \/ \E e \in Exps : StartExperiment(e) \/ EndExperiment(e) \/ \E r \in LabRuns : SaveTrial(e, r)
         \/ Ages
  PROVE  DataInv' /\ OldOnly
<1>1. /\ run \in [RunIds -> {NoRun} \cup RunRows] /\ exp \in [Exps -> ExpRows]
      /\ rows \subseteq RunIds \X (Spans \cup Points)
      /\ purge.runs \subseteq RunIds /\ purge.exps \subseteq Exps
  BY DataTypes DEF DataInv
<1>2. UNCHANGED <<tx, purge>>
  BY DEF StartExperiment, EndExperiment, SaveTrial, Ages
<1>3. CASE \E e \in Exps : StartExperiment(e) \/ EndExperiment(e)
  <2>1. PICK e \in Exps, s \in {"running", "settled"} :
          /\ exp' = [exp EXCEPT ![e] = [exp[e] EXCEPT !.status = s]]
          /\ exp[e].status # "settled"
    BY <1>3 DEF StartExperiment, EndExperiment
  <2>2. run' = run /\ rows' = rows
    BY <1>3 DEF StartExperiment, EndExperiment
  <2>3. exp' \in [Exps -> ExpRows]
    BY <1>1, <2>1 DEF ExpRows
  <2>4. \A x \in Exps : /\ exp'[x].status # "none" \/ exp'[x] = exp[x]
                        /\ exp[x].status = "settled" => exp'[x] = exp[x]
    BY <1>1, <2>1 DEF ExpRows
  <2>5. DataTypeOK'
    BY <1>1, <1>2, <2>2, <2>3, DataTypes, DataTypesAfter DEF DataInv
  <2>6. RowsHaveTheirRun'
    <3>1. \A r \in RunIds : run[r] # NoRun => run[r].exp \in Exps \cup {NoExp}
      BY <1>1 DEF RunRows
    <3> QED BY <2>2, <2>4, <3>1 DEF DataInv, RowsHaveTheirRun
  <2>7. ChosenOK'
    BY <1>1, <1>2, <2>2, <2>4 DEF DataInv, ChosenOK
  <2> QED BY <2>2, <2>4, <2>5, <2>6, <2>7 DEF DataInv, OldOnly
<1>4. CASE \E e \in Exps, r \in LabRuns : SaveTrial(e, r)
  <2>1. PICK e \in Exps, r \in LabRuns :
          /\ exp[e].status = "running" /\ run[r] = NoRun /\ exp' = exp
          /\ run' = [run EXCEPT ![r] = Row(LabSource, e)]
          /\ rows' = rows \cup ({r} \X Points)
    BY <1>4 DEF SaveTrial
  <2> DEFINE new == Row(LabSource, e)
  <2>2. r \in RunIds /\ new \in RunRows /\ new # NoRun /\ new.exp = e
    BY NoRunIsNoRow, ServiceDataAssumption DEF RunIds, Row, RunRows
  <2> HIDE DEF new
  <2>3. run' = [run EXCEPT ![r] = new]
    BY <2>1 DEF new
  <2>4. run' \in [RunIds -> {NoRun} \cup RunRows] /\ \A x \in RunIds : run'[x] = IF x = r THEN new ELSE run[x]
    BY <1>1, <2>2, <2>3
  <2>5. DataTypeOK'
    BY <1>1, <1>2, <2>1, <2>2, <2>4, DataTypes, DataTypesAfter DEF DataInv
  <2>6. RowsHaveTheirRun'
    <3>1. ASSUME NEW x \in rows' PROVE run'[x[1]] # NoRun
      <4>1. x \in rows => x[1] \in RunIds /\ run[x[1]] # NoRun
        BY <1>1 DEF DataInv, RowsHaveTheirRun
      <4>2. x \notin rows => x[1] = r
        BY <2>1, <3>1
      <4> QED BY <2>2, <2>4, <4>1, <4>2
    <3>2. ASSUME NEW x \in RunIds, run'[x] # NoRun, run'[x].exp # NoExp PROVE exp'[run'[x].exp].status # "none"
      <4>1. CASE x = r
        BY <2>1, <2>2, <2>4, <4>1
      <4>2. CASE x # r
        BY <2>1, <2>4, <3>2, <4>2 DEF DataInv, RowsHaveTheirRun
      <4> QED BY <4>1, <4>2
    <3> QED BY <3>1, <3>2 DEF RowsHaveTheirRun
  <2>7. ChosenOK'
    BY <1>1, <1>2, <2>1, <2>4 DEF DataInv, ChosenOK
  <2>8. OldOnly
    BY <2>1, <2>2, <2>4 DEF OldOnly
  <2> QED BY <2>5, <2>6, <2>7, <2>8 DEF DataInv
<1>5. CASE Ages
  <2>1. /\ run' \in [RunIds -> {NoRun} \cup RunRows]
        /\ \A r \in RunIds : /\ run'[r] # NoRun <=> run[r] # NoRun
                             /\ run[r] # NoRun => run'[r].exp = run[r].exp /\ (run[r].old => run'[r].old)
    <3>1. CASE run' = run
      BY <1>1, <3>1
    <3>2. CASE run' # run
      <4>1. PICK r \in RunIds : run[r] # NoRun /\ run' = [run EXCEPT ![r] = [run[r] EXCEPT !.old = TRUE]]
        BY <1>5, <3>2 DEF Ages
      <4> DEFINE new == [run[r] EXCEPT !.old = TRUE]
      <4>2. new \in RunRows /\ new.exp = run[r].exp /\ new.old
        BY <1>1, <4>1 DEF RunRows
      <4>3. new # NoRun
        BY <4>2, NoRunIsNoRow
      <4> HIDE DEF new
      <4>4. run' = [run EXCEPT ![r] = new]
        BY <4>1 DEF new
      <4> QED BY <1>1, <4>1, <4>2, <4>3, <4>4
    <3> QED BY <3>1, <3>2
  <2>2. /\ exp' \in [Exps -> ExpRows]
        /\ \A e \in Exps : exp'[e].status = exp[e].status /\ (exp[e].old => exp'[e].old)
    <3>1. CASE exp' = exp
      BY <1>1, <3>1
    <3>2. CASE exp' # exp
      <4>1. PICK e \in Exps : exp' = [exp EXCEPT ![e] = [exp[e] EXCEPT !.old = TRUE]]
        BY <1>5, <3>2 DEF Ages
      <4> QED BY <1>1, <4>1 DEF ExpRows
    <3> QED BY <3>1, <3>2
  <2>3. rows' = rows
    BY <1>5 DEF Ages
  <2>4. DataTypeOK'
    BY <1>1, <1>2, <2>1, <2>2, <2>3, DataTypes, DataTypesAfter DEF DataInv
  <2>5. RowsHaveTheirRun'
    <3>1. \A r \in RunIds : run[r] # NoRun => run[r].exp \in Exps \cup {NoExp}
      BY <1>1 DEF RunRows
    <3>2. \A x \in rows : x[1] \in RunIds
      BY <1>1
    <3> QED BY <2>1, <2>2, <2>3, <3>1, <3>2 DEF DataInv, RowsHaveTheirRun
  <2>6. ChosenOK'
    BY <1>1, <1>2, <2>1, <2>2 DEF DataInv, ChosenOK
  <2>7. OldOnly
    BY <2>1, <2>2 DEF OldOnly
  <2> QED BY <2>4, <2>5, <2>6, <2>7 DEF DataInv
<1> QED BY <1>3, <1>4, <1>5

\* The purge before its commit, or instead of it.
LEMMA ChoiceKeeps ==
  ASSUME DataInv, ChooseExps \/ PurgeFails \/ \E p \in ProjectIds : ChooseRuns(p)
  PROVE  DataInv' /\ OldOnly
<1> DEFINE PurgeRows == [at : {"idle", "runs", "rows"}, runs : SUBSET RunIds, exps : SUBSET Exps,
                         project : ProjectIds]
           Chosen(w) == /\ \A r \in w.runs : run[r] # NoRun /\ run[r].old
                        /\ \A e \in w.exps : exp[e].status = "settled" /\ exp[e].old
<1>1. UNCHANGED <<run, exp, rows, tx>>
  BY DEF ChooseExps, PurgeFails, ChooseRuns
<1>2. purge \in PurgeRows /\ Chosen(purge)
  BY DataTypes DEF DataInv, ChosenOK
<1>3. Idle \in PurgeRows /\ Chosen(Idle)
  BY ServiceDataAssumption DEF Idle, ProjectIds
<1>4. purge' \in PurgeRows /\ Chosen(purge')
  <2>1. ASSUME NEW p \in ProjectIds, ChooseRuns(p) PROVE purge' \in PurgeRows /\ Chosen(purge')
    <3>1. RunsOf(p) \subseteq RunIds /\ \A r \in RunsOf(p) : run[r] # NoRun
      BY DEF RunsOf
    <3> QED BY <2>1, <3>1 DEF ChooseRuns
  <2>2. CASE PurgeFails
    BY <1>3, <2>2 DEF PurgeFails
  <2>3. CASE ChooseExps
    <3>1. CASE purge' = Idle
      BY <1>3, <3>1
    <3>2. CASE purge' # Idle
      <4> DEFINE X == {e \in Exps : /\ purge.project = LabSource.project
                                    /\ exp[e].status = "settled" /\ exp[e].old
                                    /\ TrialsOf(e) \subseteq purge.runs}
      <4>1. purge' = [purge EXCEPT !.at = "rows", !.exps = X]
        BY <2>3, <3>2 DEF ChooseExps
      <4>2. X \subseteq Exps /\ \A e \in X : exp[e].status = "settled" /\ exp[e].old
        OBVIOUS
      <4> HIDE DEF X
      <4> QED BY <1>2, <4>1, <4>2
    <3> QED BY <3>1, <3>2
  <2> QED BY <2>1, <2>2, <2>3
<1>5. DataTypeOK' /\ ChosenOK'
  BY <1>1, <1>4, DataTypes, DataTypesAfter DEF DataInv, ChosenOK
<1> QED BY <1>1, <1>5 DEF DataInv, RowsHaveTheirRun, OldOnly

\* The commit of the purge.
LEMMA PurgeKeeps ==
  ASSUME DataInv, CommitPurge
  PROVE  DataInv' /\ OldOnly
<1>1. /\ rows' = {x \in rows : x[1] \notin purge.runs}
      /\ run' = [r \in RunIds |-> IF r \in purge.runs THEN NoRun ELSE run[r]]
      /\ exp' = [e \in Exps |-> IF e \in purge.exps THEN [status |-> "none", old |-> FALSE] ELSE exp[e]]
      /\ purge' = Idle /\ tx' = tx
      /\ \A e \in purge.exps : TrialsOf(e) \subseteq purge.runs
  BY DEF CommitPurge
<1>2. /\ run \in [RunIds -> {NoRun} \cup RunRows] /\ exp \in [Exps -> ExpRows]
      /\ rows \subseteq RunIds \X (Spans \cup Points)
      /\ purge.runs \subseteq RunIds /\ purge.exps \subseteq Exps
  BY DataTypes DEF DataInv
<1>3. [status |-> "none", old |-> FALSE] \in ExpRows
  BY DEF ExpRows
<1>4. run' \in [RunIds -> {NoRun} \cup RunRows] /\ exp' \in [Exps -> ExpRows]
  BY <1>1, <1>2, <1>3
<1>5. purge' \in [at : {"idle", "runs", "rows"}, runs : SUBSET RunIds, exps : SUBSET Exps,
                 project : ProjectIds] /\ purge'.runs = {} /\ purge'.exps = {}
  BY <1>1, ServiceDataAssumption DEF Idle, ProjectIds
<1>6. DataTypeOK'
  BY <1>1, <1>2, <1>4, <1>5, DataTypes, DataTypesAfter DEF DataInv
<1>7. \A r \in RunIds : run'[r] # NoRun => r \notin purge.runs /\ run'[r] = run[r]
  BY <1>1
<1>8. \A r \in RunIds : run'[r] # NoRun => run'[r].exp \in Exps \cup {NoExp} /\ run'[r].exp \notin purge.exps
  <2> SUFFICES ASSUME NEW r \in RunIds, run'[r] # NoRun
               PROVE  run[r].exp \in Exps \cup {NoExp} /\ run[r].exp \notin purge.exps
    BY <1>7
  <2>1. run[r] \in RunRows
    BY <1>2, <1>7
  <2>2. run[r].exp \in purge.exps => r \in TrialsOf(run[r].exp)
    BY <1>7 DEF TrialsOf
  <2> QED BY <1>1, <1>7, <2>1, <2>2 DEF RunRows
<1>9. RowsHaveTheirRun'
  <2>1. ASSUME NEW x \in rows' PROVE run'[x[1]] # NoRun
    <3>1. x \in rows /\ x[1] \notin purge.runs /\ x[1] \in RunIds
      BY <1>1, <1>2
    <3> QED BY <1>1, <3>1 DEF DataInv, RowsHaveTheirRun
  <2>2. ASSUME NEW r \in RunIds, run'[r] # NoRun, run'[r].exp # NoExp PROVE exp'[run'[r].exp].status # "none"
    BY <1>1, <1>7, <1>8, <2>2 DEF DataInv, RowsHaveTheirRun
  <2> QED BY <2>1, <2>2 DEF RowsHaveTheirRun
<1>10. ChosenOK'
  BY <1>5 DEF ChosenOK
<1>11. OldOnly
  <2>1. ASSUME NEW r \in RunIds, run[r] # NoRun, run'[r] = NoRun PROVE run[r].old
    BY <1>1, <2>1 DEF DataInv, ChosenOK
  <2>2. ASSUME NEW e \in Exps, exp[e].status # "none", exp'[e].status = "none"
        PROVE  exp[e].status = "settled" /\ exp[e].old /\ TrialsOf(e)' = {}
    <3>1. e \in purge.exps
      BY <1>1, <2>2
    <3>2. TrialsOf(e)' = {}
      BY <1>8, <3>1 DEF TrialsOf
    <3> QED BY <3>1, <3>2 DEF DataInv, ChosenOK
  <2> QED BY <2>1, <2>2 DEF OldOnly
<1> QED BY <1>6, <1>9, <1>10, <1>11 DEF DataInv

LEMMA DataKept == DataInv /\ [DataNext]_dataVars => DataInv' /\ (OldOnly \/ UNCHANGED <<run, exp>>)
<1> SUFFICES ASSUME DataInv, [DataNext]_dataVars PROVE DataInv' /\ (OldOnly \/ UNCHANGED <<run, exp>>)
  OBVIOUS
<1>1. CASE UNCHANGED dataVars
  <2>1. UNCHANGED <<run, exp, rows, tx, purge>>
    BY <1>1 DEF dataVars
  <2>2. DataTypeOK'
    BY <2>1 DEF DataInv, DataTypeOK
  <2> QED BY <2>1, <2>2 DEF DataInv, RowsHaveTheirRun, ChosenOK
<1>2. CASE DataNext
  <2>1. ASSUME NEW h \in Handlers, CommitExport(h) PROVE DataInv' /\ OldOnly
    BY <2>1, CommitKeeps
  <2>2. ASSUME NEW h \in Handlers,
               \/ \E s \in Sources \ {LabSource}, x \in Exports : Export(h, s, x)
               \/ Resolve(h) \/ ExportFails(h)
        PROVE  DataInv' /\ OldOnly
    BY <2>2, TxKeeps
  <2> QED BY <1>2, <2>1, <2>2, LabKeeps, ChoiceKeeps, PurgeKeeps DEF DataNext
<1> QED BY <1>1, <1>2

\* Whatever exports, trials and purges overlap, no row is left without its run,
\* no trial without its experiment, and only what is old and settled goes.
THEOREM StoredDataIsKept == DataSpec => DataIsKept
<1>1. DataInit => DataInv
  <2> SUFFICES ASSUME DataInit PROVE DataInv
    OBVIOUS
  <2>1. LabSource \in Sources /\ <<>> \in Bodies
    BY ServiceDataAssumption DEF Bodies
  <2>2. NoTx \in TxRows /\ NoTx.new = {} /\ NoTx.add = {}
    BY <2>1 DEF NoTx, TxRows
  <2>3. Idle \in [at : {"idle", "runs", "rows"}, runs : SUBSET RunIds, exps : SUBSET Exps, project : ProjectIds]
        /\ Idle.runs = {} /\ Idle.exps = {}
    BY <2>1 DEF Idle, ProjectIds
  <2>4. DataTypeOK
    BY <2>2, <2>3, DataTypes DEF DataInit, ExpRows
  <2> QED BY <2>3, <2>4 DEF DataInit, DataInv, RowsHaveTheirRun, ChosenOK
<1>2. DataSpec => []DataInv
  BY <1>1, DataKept, PTL DEF DataSpec
<1>3. DataInv => DataTypeOK /\ RowsHaveTheirRun
  BY DEF DataInv
<1>4. DataInv /\ [DataNext]_dataVars =>
        [/\ \A r \in RunIds : run[r] # NoRun /\ run'[r] = NoRun => run[r].old
         /\ \A e \in Exps : exp[e].status # "none" /\ exp'[e].status = "none" =>
              exp[e].status = "settled" /\ exp[e].old /\ TrialsOf(e)' = {}]_<<run, exp>>
  BY DataKept DEF OldOnly
<1> QED BY <1>2, <1>3, <1>4, PTL DEF DataSpec, DataIsKept, PurgeTakesOldOnly

-----------------------------------------------------------------------------
(* The copy of a database *)

CopyParts == {"projects", "runs", "spans"}

\* The tables the pass of the copy still has to read, in their order.
PassesLeft == {CopyTables, <<"runs", "spans">>, <<"spans">>, <<>>}
Unread(t) == \E i \in 1..Len(todo) : todo[i] = t

\* What the open transaction has of the tables read so far, each with all
\* that has stayed in the source since; and what the target has by then.
CopyOK ==
  /\ \A t \in CopyParts : throughout[t] \subseteq source[t]
  /\ tool = "copy" => /\ target = Seeded /\ todo \in PassesLeft
                      /\ \A t \in CopyParts : Unread(t) \/ throughout[t] \subseteq copied[t]
                      /\ Unread("spans") => copied.spans = {}
  /\ tool \in {"count", "done"} => \A t \in CopyParts : throughout[t] \subseteq target[t]
  /\ target.spans \subseteq target.runs /\ copied.spans \subseteq copied.runs

CopyInv == CopyTypeOK /\ CopyOK

\* A copy commits all it has read, and only into what is as it was made.
CommitsAtOnce ==
  /\ target # Seeded => target' = target
  /\ target' # target => \A t \in CopyParts : throughout[t] \subseteq target'[t]

LEMMA CopyRowsAre ==
  /\ Seeded \in CopyRows
  /\ \A r \in CopyRows : /\ DOMAIN r = CopyParts
                         /\ r["projects"] = r.projects /\ r["runs"] = r.runs /\ r["spans"] = r.spans
                         /\ r.projects \subseteq {"default", "side"}
                         /\ r.runs \subseteq CopyRuns /\ r.spans \subseteq CopyRuns
BY DEF CopyRows, Seeded, CopyParts

\* The service writes the source: only rows that stay are in `throughout`.
LEMMA SourceKeeps ==
  ASSUME CopyInv, NEW r \in CopyRuns, SourceRun(r) \/ SourceSpan(r) \/ SourcePurge(r)
  PROVE  CopyInv' /\ CommitsAtOnce
<1>1. PICK s \in CopyRows : SourceIs(s)
  <2>1. source \in CopyRows
    BY DEF CopyInv, CopyTypeOK
  <2>2. /\ [source EXCEPT !.runs = @ \cup {r}] \in CopyRows
        /\ (r \in source.runs => [source EXCEPT !.spans = @ \cup {r}] \in CopyRows)
        /\ [source EXCEPT !.runs = @ \ {r}, !.spans = @ \ {r}] \in CopyRows
    BY <2>1 DEF CopyRows
  <2> QED BY <2>2 DEF SourceRun, SourceSpan, SourcePurge
<1>2. /\ source' = s /\ throughout' = [t \in DOMAIN throughout |-> throughout[t] \cap s[t]]
      /\ UNCHANGED <<target, copied, todo, tool, copies>>
  BY <1>1 DEF SourceIs
<1>3. throughout \in CopyRows /\ DOMAIN throughout = CopyParts
  BY CopyRowsAre DEF CopyInv, CopyTypeOK
<1>4. \A t \in CopyParts : throughout'[t] = throughout[t] \cap s[t]
  BY <1>2, <1>3
<1>5. throughout' \in CopyRows
  BY <1>2, <1>3, <1>4, CopyRowsAre DEF CopyRows, CopyParts
<1>6. CopyTypeOK'
  BY <1>2, <1>5 DEF CopyInv, CopyTypeOK
<1>7. CopyOK'
  BY <1>2, <1>4 DEF CopyInv, CopyOK, Unread
<1> QED BY <1>2, <1>6, <1>7 DEF CopyInv, CommitsAtOnce

LEMMA StartCopyKeeps ==
  ASSUME CopyInv, StartCopy
  PROVE  CopyInv' /\ CommitsAtOnce
<1>1. /\ copies < MaxCopies /\ copies' = copies + 1 /\ throughout' = source
      /\ UNCHANGED <<source, target>>
      /\ \/ target = Seeded /\ tool' = "copy" /\ todo' = CopyTables /\ copied' = target
         \/ tool' = "refused" /\ UNCHANGED <<todo, copied>>
  BY DEF StartCopy
<1>2. CopyTypeOK'
  <2>1. copies' \in 0..MaxCopies
    BY <1>1, CopyAssumption DEF CopyInv, CopyTypeOK
  <2> QED BY <1>1, <2>1 DEF CopyInv, CopyTypeOK
<1>3. CASE tool' = "copy"
  <2>1. target' = Seeded /\ copied' = Seeded /\ todo' = CopyTables
    BY <1>1, <1>3
  <2>2. \A t \in CopyParts : Unread(t)'
    <3>1. Len(CopyTables) = 3 /\ CopyTables[1] = "projects" /\ CopyTables[2] = "runs" /\ CopyTables[3] = "spans"
      BY DEF CopyTables
    <3>2. 1 \in 1..3 /\ 2 \in 1..3 /\ 3 \in 1..3
      OBVIOUS
    <3> QED BY <2>1, <3>1, <3>2 DEF Unread, CopyParts
  <2>3. CopyOK'
    BY <1>1, <1>3, <2>1, <2>2 DEF CopyOK, CopyInv, PassesLeft, Seeded
  <2> QED BY <1>1, <1>2, <2>3 DEF CopyInv, CommitsAtOnce
<1>4. CASE tool' = "refused"
  <2>1. CopyOK'
    BY <1>1, <1>4 DEF CopyOK, CopyInv
  <2> QED BY <1>1, <1>2, <2>1 DEF CopyInv, CommitsAtOnce
<1> QED BY <1>1, <1>3, <1>4

\* The tables that a pass has left, taken apart.
LEMMA PassTaken ==
  ASSUME todo \in PassesLeft, todo # <<>>
  PROVE  /\ Head(todo) \in CopyParts /\ Tail(todo) \in PassesLeft
         /\ \A t \in CopyParts : Unread(t) => t = Head(todo) \/ \E i \in 1..Len(Tail(todo)) : Tail(todo)[i] = t
         /\ (\E i \in 1..Len(Tail(todo)) : Tail(todo)[i] = "spans") <=> Head(todo) # "spans"
         /\ Unread("spans")
<1>1. CASE todo = <<"projects", "runs", "spans">>
  <2>1. /\ Head(todo) = "projects" /\ Tail(todo) = <<"runs", "spans">>
        /\ Len(todo) = 3 /\ todo[3] = "spans" /\ todo[2] = "runs" /\ todo[1] = "projects"
    BY <1>1
  <2> DEFINE rest == <<"runs", "spans">>
  <2>2. Len(rest) = 2 /\ rest[1] = "runs" /\ rest[2] = "spans" /\ 1 \in 1..2 /\ 2 \in 1..2 /\ 3 \in 1..3
    OBVIOUS
  <2> HIDE DEF rest
  <2>3. Tail(todo) = rest /\ rest \in PassesLeft
    BY <2>1 DEF rest, PassesLeft
  <2> QED BY <2>1, <2>2, <2>3 DEF CopyParts, Unread
<1>2. CASE todo = <<"runs", "spans">>
  <2>1. /\ Head(todo) = "runs" /\ Tail(todo) = <<"spans">>
        /\ Len(todo) = 2 /\ todo[2] = "spans" /\ todo[1] = "runs"
    BY <1>2
  <2> DEFINE rest == <<"spans">>
  <2>2. Len(rest) = 1 /\ rest[1] = "spans" /\ 1 \in 1..1 /\ 2 \in 1..2 /\ \A i \in 1..2 : i = 1 \/ i = 2
    OBVIOUS
  <2> HIDE DEF rest
  <2>3. Tail(todo) = rest /\ rest \in PassesLeft
    BY <2>1 DEF rest, PassesLeft
  <2> QED BY <2>1, <2>2, <2>3 DEF CopyParts, Unread
<1>3. CASE todo = <<"spans">>
  <2>1. Head(todo) = "spans" /\ Tail(todo) = <<>> /\ Len(todo) = 1 /\ todo[1] = "spans" /\ Len(<<>>) = 0
    BY <1>3
  <2>2. 1..0 = {} /\ 1 \in 1..1 /\ \A i \in 1..1 : i = 1
    OBVIOUS
  <2>3. Tail(todo) \in PassesLeft
    BY <2>1 DEF PassesLeft
  <2> QED BY <2>1, <2>2, <2>3 DEF CopyParts, Unread
<1> QED BY <1>1, <1>2, <1>3 DEF PassesLeft, CopyTables

LEMMA CopyTableKeeps ==
  ASSUME CopyInv, CopyTable
  PROVE  CopyInv' /\ CommitsAtOnce
<1> DEFINE t == Head(todo)
<1>1. /\ tool = "copy" /\ todo # <<>> /\ UNCHANGED <<source, target, copies, throughout>>
      /\ \/ Rejected(t) /\ tool' = "failed" /\ copied' = target
         \/ ~Rejected(t) /\ copied' = [copied EXCEPT ![t] = @ \cup source[t]] /\ todo' = Tail(todo) /\ tool' = tool
  BY DEF CopyTable
<1>2. CommitsAtOnce
  BY <1>1 DEF CommitsAtOnce
<1>3. CASE tool' = "failed" /\ copied' = target
  <2>1. CopyTypeOK'
    BY <1>1, <1>3 DEF CopyInv, CopyTypeOK
  <2>2. CopyOK'
    BY <1>1, <1>3 DEF CopyInv, CopyOK
  <2> QED BY <1>2, <2>1, <2>2 DEF CopyInv
<1>4. CASE ~Rejected(t) /\ copied' = [copied EXCEPT ![t] = @ \cup source[t]] /\ todo' = Tail(todo) /\ tool' = tool
  <2>1. /\ t \in CopyParts /\ Tail(todo) \in PassesLeft
        /\ \A u \in CopyParts : Unread(u) => u = t \/ Unread(u)'
        /\ Unread("spans")' <=> t # "spans"
        /\ Unread("spans")
    <3>1. todo \in PassesLeft
      BY <1>1 DEF CopyInv, CopyOK
    <3>2. (\A u \in CopyParts : Unread(u)' <=> \E i \in 1..Len(Tail(todo)) : Tail(todo)[i] = u)
      BY <1>4 DEF Unread
    <3>3. "spans" \in CopyParts
      BY DEF CopyParts
    <3> QED BY <1>1, <3>1, <3>2, <3>3, PassTaken
  <2> HIDE DEF t
  <2>2. copied \in CopyRows /\ source \in CopyRows /\ throughout \in CopyRows /\ DOMAIN copied = CopyParts
    BY CopyRowsAre DEF CopyInv, CopyTypeOK
  <2>3. \A u \in CopyParts : copied'[u] = IF u = t THEN copied[u] \cup source[u] ELSE copied[u]
    BY <1>4, <2>1, <2>2
  <2>4. copied' \in CopyRows
    <3>1. CASE t = "projects"
      BY <1>4, <2>2, <3>1 DEF CopyRows
    <3>2. CASE t = "runs"
      BY <1>4, <2>2, <3>2 DEF CopyRows
    <3>3. CASE t = "spans"
      BY <1>4, <2>2, <3>3 DEF CopyRows
    <3> QED BY <2>1, <3>1, <3>2, <3>3 DEF CopyParts
  <2>5. CopyTypeOK'
    BY <1>1, <1>4, <2>4 DEF CopyInv, CopyTypeOK
  <2>6. /\ target = Seeded /\ (\A u \in CopyParts : throughout[u] \subseteq source[u])
        /\ \A u \in CopyParts : Unread(u) \/ throughout[u] \subseteq copied[u]
        /\ copied.spans = {} /\ target.spans \subseteq target.runs
    BY <1>1, <2>1 DEF CopyInv, CopyOK
  <2>7. \A u \in CopyParts : Unread(u)' \/ throughout'[u] \subseteq copied'[u]
    BY <1>1, <2>1, <2>3, <2>6
  <2>8. /\ copied'.spans = IF t = "spans" THEN source.spans ELSE {}
        /\ t = "spans" => copied'.runs = copied.runs /\ source.spans \subseteq copied.runs
    <3>1. "spans" \in CopyParts /\ "runs" \in CopyParts
      BY DEF CopyParts
    <3>2. copied'.spans = copied'["spans"] /\ copied'.runs = copied'["runs"]
          /\ copied.spans = copied["spans"] /\ copied.runs = copied["runs"] /\ source.spans = source["spans"]
      BY <2>2, <2>4, CopyRowsAre
    <3> QED BY <1>4, <2>3, <2>6, <3>1, <3>2 DEF Rejected
  <2>9. CopyOK'
    BY <1>1, <1>4, <2>1, <2>6, <2>7, <2>8 DEF CopyOK
  <2> QED BY <1>2, <2>5, <2>9 DEF CopyInv
<1> QED BY <1>1, <1>3, <1>4

\* The tables read are committed; the pass that counts changes nothing.
LEMMA CommitCopyKeeps ==
  ASSUME CopyInv, CommitCopy
  PROVE  CopyInv' /\ CommitsAtOnce
<1>1. /\ tool = "copy" /\ todo = <<>> /\ target' = copied /\ tool' = "count"
      /\ UNCHANGED <<source, copied, copies, throughout>>
  BY DEF CommitCopy
<1>2. /\ target = Seeded /\ (\A t \in CopyParts : throughout[t] \subseteq source[t])
      /\ (\A t \in CopyParts : throughout[t] \subseteq copied[t])
      /\ copied.spans \subseteq copied.runs
  <2>1. \A t \in CopyParts : ~Unread(t)
    BY <1>1 DEF Unread
  <2> QED BY <1>1, <2>1 DEF CopyInv, CopyOK
<1>3. CopyTypeOK'
  BY <1>1 DEF CopyInv, CopyTypeOK
<1>4. CopyOK'
  BY <1>1, <1>2 DEF CopyOK
<1> QED BY <1>1, <1>2, <1>3, <1>4 DEF CopyInv, CommitsAtOnce

LEMMA CountKeeps ==
  ASSUME CopyInv, CountTable \/ CopyDone \/ ToolEnds
  PROVE  CopyInv' /\ CommitsAtOnce
<1>1. /\ UNCHANGED <<source, target, copies, throughout>> /\ copied' \in {copied, target}
      /\ \/ tool = "count" /\ tool' \in {"count", "done", "failed"}
         \/ tool' = "off"
  BY DEF CountTable, CopyDone, ToolEnds
<1>2. CopyTypeOK'
  BY <1>1 DEF CopyInv, CopyTypeOK
<1>3. CopyOK'
  BY <1>1 DEF CopyInv, CopyOK
<1> QED BY <1>1, <1>2, <1>3 DEF CopyInv, CommitsAtOnce

\* Whatever the service writes meanwhile and wherever the tool is killed: a
\* copy reported as done has every row that stayed in the source, with its
\* parents; and the target is written once, with all of them.
THEOREM CopyIsWhole == CopySpec => [](CopyTypeOK /\ DoneMeansCopied) /\ CopiedAtOnce
<1>1. CopyInit => CopyInv
  <2> SUFFICES ASSUME CopyInit PROVE CopyInv
    OBVIOUS
  <2>1. source \in CopyRows /\ "default" \in source.projects
        /\ target = Seeded /\ copied = Seeded /\ throughout = Seeded /\ tool = "off" /\ copies = 0
    BY DEF CopyInit
  <2>2. CopyTypeOK
    BY <2>1, CopyRowsAre, CopyAssumption DEF CopyTypeOK
  <2>3. \A t \in CopyParts : throughout[t] \subseteq source[t]
    BY <2>1, CopyRowsAre DEF CopyParts, Seeded
  <2>4. CopyOK
    BY <2>1, <2>3 DEF CopyOK, Seeded
  <2> QED BY <2>2, <2>4 DEF CopyInv
<1>2. CopyInv /\ [CopyNext]_copyVars => CopyInv' /\ (CommitsAtOnce \/ UNCHANGED copyVars)
  <2> SUFFICES ASSUME CopyInv, [CopyNext]_copyVars PROVE CopyInv' /\ (CommitsAtOnce \/ UNCHANGED copyVars)
    OBVIOUS
  <2>1. CASE UNCHANGED copyVars
    <3>1. UNCHANGED <<source, target, copied, todo, tool, copies, throughout>>
      BY <2>1 DEF copyVars
    <3> QED BY <2>1, <3>1 DEF CopyInv, CopyTypeOK, CopyOK, Unread
  <2> QED BY <2>1, SourceKeeps, StartCopyKeeps, CopyTableKeeps, CommitCopyKeeps, CountKeeps DEF CopyNext
<1>3. CopyInv => CopyTypeOK /\ DoneMeansCopied
  <2>1. CopyInv => DOMAIN source = CopyParts
    BY CopyRowsAre DEF CopyInv, CopyTypeOK
  <2> QED BY <2>1 DEF CopyInv, CopyOK, DoneMeansCopied
<1>4. CopyInv /\ (CommitsAtOnce \/ UNCHANGED copyVars) =>
        [/\ target # Seeded => target' = target
         /\ target' # target => \A t \in DOMAIN throughout : throughout[t] \subseteq target'[t]]_copyVars
  <2>1. CopyInv => DOMAIN throughout = CopyParts
    BY CopyRowsAre DEF CopyInv, CopyTypeOK
  <2> QED BY <2>1 DEF CommitsAtOnce
<1> QED BY <1>1, <1>2, <1>3, <1>4, PTL DEF CopySpec, CopiedAtOnce

-----------------------------------------------------------------------------
(* The verdict on two variants *)

\* A set of natural numbers has a least one, and a list of them a bound.
LEMMA LeastOf ==
  ASSUME NEW T \in SUBSET Nat, T # {}
  PROVE  \E x \in T : \A y \in T : x <= y
<1>1. PICK x \in T : \A y \in T : ~ (<<y, x>> \in OpToRel(<, Nat))
  BY NatLessThanWellFounded, WFMin
<1>2. \A y \in T : ~ (y < x)
  BY <1>1 DEF OpToRel
<1>3. \A y \in T : y \in Nat /\ x \in Nat
  OBVIOUS
<1> QED BY <1>2, <1>3

LEMMA BoundOf ==
  ASSUME NEW q \in Seq(Nat \cup {None})
  PROVE  \E b \in Nat : \A i \in 1..Len(q) : q[i] <= b
<1> DEFINE Bounded(k) == \E b \in Nat : \A i \in 1..k : q[i] <= b
           T == {k \in 0..Len(q) : ~Bounded(k)}
<1>1. Len(q) \in Nat /\ T \in SUBSET Nat /\ \A k \in T : k \in 0..Len(q) /\ ~Bounded(k)
  OBVIOUS
<1>2. ASSUME NEW k \in 0..Len(q), k = 0 PROVE Bounded(k)
  <2>1. 0 \in Nat /\ \A i \in 1..k : q[i] <= 0
    BY <1>2
  <2> QED BY <2>1
<1>3. ASSUME NEW k \in 1..Len(q), Bounded(k - 1) PROVE Bounded(k)
  <2>1. PICK b \in Nat : \A i \in 1..(k - 1) : q[i] <= b
    BY <1>3
  <2>3. q[k] \in Nat \cup {None}
    BY <1>1
  <2>4. PICK c \in Nat : b <= c /\ q[k] <= c
    <3>1. CASE q[k] \in Nat /\ q[k] > b
      BY <3>1
    <3>2. CASE q[k] \in Nat /\ q[k] <= b
      BY <3>2
    <3>3. CASE q[k] = None
      BY <3>3 DEF None
    <3> QED BY <2>3, <3>1, <3>2, <3>3
  <2>5. ASSUME NEW i \in 1..k PROVE q[i] <= c
    <3>1. CASE i = k
      BY <2>4, <3>1
    <3>2. CASE i # k
      <4>1. i \in 1..(k - 1) /\ i \in 1..Len(q)
        BY <1>1, <3>2
      <4>2. q[i] \in Nat \cup {None} /\ q[i] <= b
        BY <2>1, <4>1
      <4> QED BY <2>4, <4>2 DEF None
    <3> QED BY <3>1, <3>2
  <2> QED BY <2>5
<1> HIDE DEF Bounded
<1>4. T = {}
  <2> SUFFICES ASSUME T # {} PROVE FALSE
    OBVIOUS
  <2>1. PICK k \in T : \A y \in T : k <= y
    BY <1>1, LeastOf
  <2>2. k \in 0..Len(q) /\ ~Bounded(k) /\ k # 0
    BY <1>1, <1>2, <2>1
  <2>3. k \in 1..Len(q) /\ k - 1 \in 0..Len(q) /\ ~(k <= k - 1)
    BY <1>1, <2>2
  <2>4. Bounded(k - 1)
    BY <2>1, <2>3
  <2> QED BY <1>3, <2>2, <2>3, <2>4
<1>5. Bounded(Len(q))
  BY <1>1, <1>4
<1> QED BY <1>5 DEF Bounded

VariantsOK == trials \in [Variants -> Seq(Medians \cup {None})] /\ \A v \in Variants : Len(trials[v]) <= MaxTrials

LEMMA UsableIs ==
  ASSUME VariantsOK, NEW v \in Variants
  PROVE  /\ trials[v] \in Seq(Nat \cup {None}) /\ DOMAIN trials[v] = 1..Len(trials[v])
         /\ TrialMedians(v) \subseteq Nat
         /\ IsFiniteSet(Usable(v)) /\ Cardinality(Usable(v)) \in Nat
         /\ \A x : UpToMedian(v, x) \in Nat
         /\ Cardinality(Usable(v)) = 0 <=> TrialMedians(v) = {}
<1>1. trials[v] \in Seq(Medians \cup {None}) /\ Medians \cup {None} \subseteq Nat \cup {None}
  BY VariantAssumption DEF VariantsOK
<1>2. trials[v] \in Seq(Nat \cup {None}) /\ DOMAIN trials[v] = 1..Len(trials[v]) /\ Len(trials[v]) \in Nat
  BY <1>1
<1>3. TrialMedians(v) \subseteq Nat
  <2>1. \A i \in Usable(v) : trials[v][i] \in Nat
    BY <1>2 DEF Usable
  <2> QED BY <2>1 DEF TrialMedians
<1>4. IsFiniteSet(1..Len(trials[v]))
  <2>1. 1 \in Int /\ Len(trials[v]) \in Int
    BY <1>2
  <2> QED BY <2>1, FS_Interval
<1>5. IsFiniteSet(Usable(v)) /\ Cardinality(Usable(v)) \in Nat
  BY <1>2, <1>4, FS_Subset, FS_CardinalityType DEF Usable
<1>6. ASSUME NEW x PROVE UpToMedian(v, x) \in Nat
  BY <1>5, FS_Subset, FS_CardinalityType DEF UpToMedian
<1>7. Cardinality(Usable(v)) = 0 <=> TrialMedians(v) = {}
  BY <1>5, FS_EmptySet DEF TrialMedians
<1> QED BY <1>2, <1>3, <1>5, <1>6, <1>7

\* There is a k-th trial median for each k up to their number.
LEMMA RankedIsThere ==
  ASSUME VariantsOK, NEW v \in Variants, NEW k \in Nat, k <= Cardinality(Usable(v)),
         TrialMedians(v) # {}
  PROVE  Ranked(v, k) \in TrialMedians(v)
<1> DEFINE T == {x \in TrialMedians(v) : UpToMedian(v, x) >= k}
           U == {b \in Nat : \A i \in Usable(v) : trials[v][i] <= b}
<1>1. /\ TrialMedians(v) \subseteq Nat /\ Cardinality(Usable(v)) \in Nat
      /\ trials[v] \in Seq(Nat \cup {None}) /\ \A x : UpToMedian(v, x) \in Nat
      /\ DOMAIN trials[v] = 1..Len(trials[v])
  BY UsableIs
<1>2. \A i \in Usable(v) : trials[v][i] \in TrialMedians(v) /\ trials[v][i] \in Nat
  BY <1>1 DEF TrialMedians
<1>3. PICK b \in U : \A c \in U : b <= c
  <2>1. PICK b \in Nat : \A i \in 1..Len(trials[v]) : trials[v][i] <= b
    BY <1>1, BoundOf
  <2>2. b \in U
    BY <1>1, <2>1 DEF Usable
  <2>3. U \in SUBSET Nat /\ U # {}
    BY <2>2
  <2> QED BY <2>3, LeastOf
<1>4. b \in TrialMedians(v)
  <2> SUFFICES ASSUME b \notin TrialMedians(v) PROVE FALSE
    OBVIOUS
  <2>1. \A i \in Usable(v) : trials[v][i] < b
    BY <1>2, <1>3
  <2>2. PICK i \in Usable(v) : TRUE
    BY DEF TrialMedians
  <2>3. b - 1 \in Nat
    BY <1>2, <1>3, <2>1, <2>2
  <2>4. \A j \in Usable(v) : trials[v][j] <= b - 1
    BY <1>2, <1>3, <2>1
  <2>5. b - 1 \in U /\ ~(b <= b - 1)
    BY <1>3, <2>3, <2>4
  <2> QED BY <1>3, <2>5
<1>5. b \in T
  <2>1. {i \in Usable(v) : trials[v][i] <= b} = Usable(v)
    BY <1>3
  <2>2. UpToMedian(v, b) = Cardinality(Usable(v))
    BY <2>1 DEF UpToMedian
  <2> QED BY <1>1, <1>4, <2>2
<1>6. PICK x \in T : \A y \in T : x <= y
  <2>1. T \in SUBSET Nat /\ T # {}
    BY <1>1, <1>5
  <2> QED BY <2>1, LeastOf
<1>7. /\ x \in TrialMedians(v) /\ UpToMedian(v, x) >= k
      /\ \A y \in TrialMedians(v) : y < x => UpToMedian(v, y) < k
  <2>1. ASSUME NEW y \in TrialMedians(v), y < x PROVE UpToMedian(v, y) < k
    <3>1. y \notin T
      BY <1>1, <1>6, <2>1
    <3> QED BY <1>1, <2>1, <3>1
  <2> QED BY <1>6, <2>1
<1> QED BY <1>7 DEF Ranked

\* The median is the middle of two of the trial medians.
LEMMA MedianIsWithin ==
  ASSUME VariantsOK, NEW v \in Variants
  PROVE  /\ TrialMedians(v) = {} => MedianOf(v) = None
         /\ TrialMedians(v) # {} =>
              \E a, b \in TrialMedians(v) : MedianOf(v) = a + b /\ a \in Nat /\ b \in Nat
<1> DEFINE n == Cardinality(Usable(v))
<1>1. TrialMedians(v) \subseteq Nat /\ n \in Nat /\ (n = 0 <=> TrialMedians(v) = {})
  BY UsableIs
<1>2. CASE n = 0
  BY <1>1, <1>2 DEF MedianOf
<1>3. CASE n # 0
  <2>1. /\ (n + 1) \div 2 \in Nat /\ (n + 1) \div 2 <= n
        /\ (n + 2) \div 2 \in Nat /\ (n + 2) \div 2 <= n
    BY <1>1, <1>3
  <2>2. Ranked(v, (n + 1) \div 2) \in TrialMedians(v) /\ Ranked(v, (n + 2) \div 2) \in TrialMedians(v)
    BY <1>1, <1>3, <2>1, RankedIsThere
  <2>3. MedianOf(v) = Ranked(v, (n + 1) \div 2) + Ranked(v, (n + 2) \div 2)
    BY <1>3 DEF MedianOf
  <2> QED BY <1>1, <1>3, <2>2, <2>3
<1> QED BY <1>2, <1>3

\* What a sentence says of the trials.
LEMMA SlowerMeans ==
  ASSUME VariantsOK, NEW v \in Variants, NEW ref \in Variants
  PROVE  /\ Sentence(v, ref) = "slower" =>
              TrialMedians(v) # {} /\ TrialMedians(ref) # {} /\ Apart(ref, v)
         /\ Sentence(v, ref) = "faster" =>
              TrialMedians(v) # {} /\ TrialMedians(ref) # {} /\ Apart(v, ref)
         /\ Sentence(v, ref) = "slower" <=> Sentence(ref, v) = "faster"
<1>1. \A u \in Variants : TrialMedians(u) \subseteq Nat
  BY UsableIs
<1>2. ASSUME NEW x \in Variants, NEW y \in Variants, Apart(x, y),
             TrialMedians(x) # {}, TrialMedians(y) # {}
      PROVE  MedianOf(x) < MedianOf(y) /\ MedianOf(x) \in Nat /\ MedianOf(y) \in Nat
  <2>1. PICK a, b \in TrialMedians(x) : MedianOf(x) = a + b /\ a \in Nat /\ b \in Nat
    BY <1>2, MedianIsWithin
  <2>2. PICK c, d \in TrialMedians(y) : MedianOf(y) = c + d /\ c \in Nat /\ d \in Nat
    BY <1>2, MedianIsWithin
  <2>3. a < c /\ b < d
    BY <1>2, <2>1, <2>2 DEF Apart
  <2> QED BY <2>1, <2>2, <2>3
<1>3. ASSUME NEW x \in Variants, NEW y \in Variants, HasRatio(x, y)
      PROVE  TrialMedians(x) # {} /\ TrialMedians(y) # {}
  BY <1>3, MedianIsWithin DEF HasRatio, None
<1>4. ASSUME NEW x \in Variants, NEW y \in Variants, HasRatio(x, y)
      PROVE  /\ Apart(x, y) \/ Apart(y, x) => Significant(x, y) = "yes"
             /\ ~(Apart(x, y) \/ Apart(y, x)) => Significant(x, y) = "no"
  BY <1>3, <1>4 DEF Significant
<1>5. ASSUME NEW x \in Variants, NEW y \in Variants
      PROVE  /\ Sentence(x, y) = "slower" <=> HasRatio(x, y) /\ Apart(y, x)
             /\ Sentence(x, y) = "faster" <=> HasRatio(x, y) /\ Apart(x, y)
  <2>1. CASE ~HasRatio(x, y)
    BY <2>1 DEF Sentence
  <2>2. CASE HasRatio(x, y) /\ Apart(x, y)
    <3>1. MedianOf(x) < MedianOf(y) /\ MedianOf(x) \in Nat /\ MedianOf(y) \in Nat
      BY <1>2, <1>3, <2>2
    <3>2. ~Apart(y, x)
      <4>1. Apart(y, x) => MedianOf(y) < MedianOf(x)
        BY <1>2, <1>3, <2>2
      <4> QED BY <3>1, <4>1
    <3>3. Sentence(x, y) = "faster"
      <4>1. Significant(x, y) = "yes" /\ ~(MedianOf(x) > MedianOf(y))
        BY <1>4, <2>2, <3>1
      <4> QED BY <2>2, <4>1 DEF Sentence
    <3> QED BY <2>2, <3>2, <3>3
  <2>3. CASE HasRatio(x, y) /\ Apart(y, x)
    <3>1. MedianOf(y) < MedianOf(x) /\ MedianOf(x) \in Nat /\ MedianOf(y) \in Nat
      BY <1>2, <1>3, <2>3
    <3>2. ~Apart(x, y)
      <4>1. Apart(x, y) => MedianOf(x) < MedianOf(y)
        BY <1>2, <1>3, <2>3
      <4> QED BY <3>1, <4>1
    <3>3. Sentence(x, y) = "slower"
      <4>1. Significant(x, y) = "yes" /\ MedianOf(x) > MedianOf(y)
        BY <1>4, <2>3, <3>1
      <4> QED BY <2>3, <4>1 DEF Sentence
    <3> QED BY <2>3, <3>2, <3>3
  <2>4. CASE HasRatio(x, y) /\ ~Apart(x, y) /\ ~Apart(y, x)
    <3>1. Significant(x, y) = "no"
      BY <1>4, <2>4
    <3> QED BY <2>4, <3>1 DEF Sentence
  <2> QED BY <2>1, <2>2, <2>3, <2>4
<1>6. HasRatio(v, ref) <=> HasRatio(ref, v)
  BY DEF HasRatio
<1> QED BY <1>3, <1>5, <1>6

LEMMA SlowerMeansAfter ==
  (VariantsOK => \A v, ref \in Variants :
     /\ Sentence(v, ref) = "slower" =>
          TrialMedians(v) # {} /\ TrialMedians(ref) # {} /\ Apart(ref, v)
     /\ Sentence(v, ref) = "faster" =>
          TrialMedians(v) # {} /\ TrialMedians(ref) # {} /\ Apart(v, ref))'
<1>1. VariantsOK => \A v, ref \in Variants :
     /\ Sentence(v, ref) = "slower" =>
          TrialMedians(v) # {} /\ TrialMedians(ref) # {} /\ Apart(ref, v)
     /\ Sentence(v, ref) = "faster" =>
          TrialMedians(v) # {} /\ TrialMedians(ref) # {} /\ Apart(v, ref)
  BY SlowerMeans
<1> QED BY <1>1, PTL

\* Trials are only added.
LEMMA MedianStored ==
  ASSUME VariantsOK, [VariantsNext]_trials
  PROVE  VariantsOK' /\ \A v \in Variants : TrialMedians(v) \subseteq TrialMedians(v)'
<1>1. CASE UNCHANGED trials
  BY <1>1 DEF VariantsOK, TrialMedians, Usable
<1>2. ASSUME NEW u \in Variants, StoreTrial(u)
      PROVE  VariantsOK' /\ \A v \in Variants : TrialMedians(v) \subseteq TrialMedians(v)'
  <2>1. PICK m \in Medians \cup {None} : trials' = [trials EXCEPT ![u] = Append(@, m)]
    BY <1>2 DEF StoreTrial
  <2>2. trials[u] \in Seq(Medians \cup {None}) /\ Len(trials[u]) < MaxTrials /\ MaxTrials \in Nat
    BY <1>2, VariantAssumption DEF StoreTrial, VariantsOK
  <2> DEFINE q == Append(trials[u], m)
  <2>3. /\ q \in Seq(Medians \cup {None}) /\ Len(q) = Len(trials[u]) + 1
        /\ \A i \in DOMAIN trials[u] : i \in DOMAIN q /\ q[i] = trials[u][i]
    BY <2>2
  <2>4. trials'[u] = q /\ \A v \in Variants \ {u} : trials'[v] = trials[v]
    BY <2>1 DEF VariantsOK
  <2>5. trials' \in [Variants -> Seq(Medians \cup {None})]
    BY <2>1, <2>3 DEF VariantsOK
  <2> HIDE DEF q
  <2>6. ASSUME NEW v \in Variants
        PROVE  Len(trials'[v]) <= MaxTrials /\ TrialMedians(v) \subseteq TrialMedians(v)'
    <3>1. CASE v # u
      BY <2>4, <3>1 DEF VariantsOK, TrialMedians, Usable
    <3>2. CASE v = u
      <4>1. Len(trials'[v]) <= MaxTrials
        BY <2>2, <2>3, <2>4, <3>2
      <4>2. ASSUME NEW i \in Usable(v) PROVE trials[v][i] \in TrialMedians(v)'
        <5>1. i \in DOMAIN trials'[v] /\ trials'[v][i] = trials[v][i] /\ trials[v][i] # None
          BY <2>3, <2>4, <3>2 DEF Usable
        <5> QED BY <5>1 DEF TrialMedians, Usable
      <4> QED BY <4>1, <4>2 DEF TrialMedians
    <3> QED BY <3>1, <3>2
  <2> QED BY <2>5, <2>6 DEF VariantsOK
<1> QED BY <1>1, <1>2 DEF VariantsNext

\* However many trials are stored and whichever variant is the reference: what
\* is said of two variants is the same from both sides and true of every trial
\* of theirs; "not significant" stays, and a difference never turns round.
THEOREM VerdictsAreConservative ==
  VariantsSpec => [](VariantsTypeOK /\ VerdictIsSymmetric) /\ NeverTurnsRound
<1>1. VariantsInit => VariantsOK
  BY VariantAssumption DEF VariantsInit, VariantsOK
<1>2. VariantsOK /\ [VariantsNext]_trials => VariantsOK'
  BY MedianStored
<1>3. VariantsOK => VariantsTypeOK
  BY DEF VariantsOK, VariantsTypeOK
<1>4. VariantsOK => VerdictIsSymmetric
  <2> SUFFICES ASSUME VariantsOK, NEW v \in Variants, NEW ref \in Variants
               PROVE  /\ Sentence(v, ref) = "slower" <=> Sentence(ref, v) = "faster"
                      /\ Sentence(v, ref) = "slower" =>
                           \A x \in TrialMedians(v), y \in TrialMedians(ref) : x > y
    BY DEF VerdictIsSymmetric
  <2>1. Apart(ref, v) => \A x \in TrialMedians(v), y \in TrialMedians(ref) : x > y
    <3>1. TrialMedians(v) \subseteq Nat /\ TrialMedians(ref) \subseteq Nat
      BY UsableIs
    <3> QED BY <3>1 DEF Apart
  <2> QED BY <2>1, SlowerMeans
<1>5. VariantsOK /\ [VariantsNext]_trials =>
        [\A v, ref \in Variants :
           /\ Significant(v, ref) = "no" => Significant(v, ref)' = "no"
           /\ Sentence(v, ref) = "slower" => Sentence(v, ref)' # "faster"]_trials
  <2> SUFFICES ASSUME VariantsOK, [VariantsNext]_trials, NEW v \in Variants, NEW ref \in Variants
               PROVE  /\ Significant(v, ref) = "no" => Significant(v, ref)' = "no"
                      /\ Sentence(v, ref) = "slower" => Sentence(v, ref)' # "faster"
    OBVIOUS
  <2>1. VariantsOK' /\ \A u \in Variants : TrialMedians(u) \subseteq TrialMedians(u)'
    BY MedianStored
  <2>2. ASSUME NEW x \in Variants, NEW y \in Variants, ~Apart(x, y) PROVE ~Apart(x, y)'
    BY <2>1, <2>2 DEF Apart
  <2>3. ASSUME Significant(v, ref) = "no" PROVE Significant(v, ref)' = "no"
    <3>1. TrialMedians(v) # {} /\ TrialMedians(ref) # {} /\ ~Apart(ref, v) /\ ~Apart(v, ref)
      BY <2>3 DEF Significant
    <3>2. TrialMedians(v)' # {} /\ TrialMedians(ref)' # {} /\ ~Apart(ref, v)' /\ ~Apart(v, ref)'
      BY <2>1, <2>2, <3>1
    <3> QED BY <3>2 DEF Significant
  <2>4. ASSUME Sentence(v, ref) = "slower" PROVE Sentence(v, ref)' # "faster"
    <3>1. PICK x \in TrialMedians(v), y \in TrialMedians(ref) : y < x
      BY <2>4, SlowerMeans DEF Apart
    <3>2. x \in Nat /\ y \in Nat
      BY UsableIs
    <3>3. ~Apart(v, ref)'
      BY <2>1, <3>1, <3>2 DEF Apart
    <3> QED BY <2>1, <3>3, SlowerMeansAfter
  <2> QED BY <2>3, <2>4
<1> QED BY <1>1, <1>2, <1>3, <1>4, <1>5, PTL DEF VariantsSpec, NeverTurnsRound

-----------------------------------------------------------------------------
(* The latency of an operation: its buckets *)

LEMMA PowerStep == \A n \in Nat : 2^(n + 1) = 2 * 2^n /\ 2^n \in Nat
<1> SUFFICES ASSUME NEW n \in Nat PROVE 2^(n + 1) = 2 * 2^n /\ 2^n \in Nat
  OBVIOUS
<1> DEFINE S == 1..n   T == 1..(n + 1)
<1>0. PICK A, B : A = SUBSET S /\ B = SUBSET T
  OBVIOUS
<1> DEFINE Fresh == {x \cup {n + 1} : x \in A}
<1>1. /\ IsFiniteSet(A) /\ Cardinality(A) = 2^n
      /\ IsFiniteSet(B) /\ Cardinality(B) = 2^(n + 1)
  <2>1. IsFiniteSet(S) /\ Cardinality(S) = n /\ IsFiniteSet(T) /\ Cardinality(T) = n + 1
    BY FS_Interval
  <2> QED BY <1>0, <2>1, FS_SUBSET
<1>2. T = S \cup {n + 1} /\ n + 1 \notin S
  OBVIOUS
<1> HIDE DEF S, T
<1>3. IsFiniteSet(Fresh) /\ Cardinality(Fresh) = Cardinality(A)
  <2> DEFINE f == [x \in A |-> x \cup {n + 1}]
  <2>1. f \in Bijection(A, Fresh)
    <3>1. \A x, y \in A : f[x] = f[y] => x = y
      <4>1. \A x \in A : x = f[x] \ {n + 1}
        BY <1>0, <1>2
      <4> HIDE DEF f
      <4> QED BY <4>1
    <3>2. f \in [A -> Fresh] /\ \A t \in Fresh : \E x \in A : f[x] = t
      OBVIOUS
    <3> HIDE DEF f
    <3> QED BY <3>1, <3>2 DEF Bijection, Injection, Surjection, IsInjective
  <2> QED BY <2>1, <1>1, FS_Bijection DEF ExistsBijection
<1>4. B = A \cup Fresh /\ A \cap Fresh = {}
  <2>1. \A x \in B : x \in A \/ x \in Fresh
    <3> SUFFICES ASSUME NEW x \in B, x \notin A PROVE x \in Fresh
      OBVIOUS
    <3>1. x = (x \ {n + 1}) \cup {n + 1} /\ x \ {n + 1} \in A
      BY <1>0, <1>2
    <3> QED BY <3>1
  <2>2. A \subseteq B /\ Fresh \subseteq B /\ \A x \in Fresh : x \notin A
    BY <1>0, <1>2
  <2> HIDE DEF Fresh
  <2> QED BY <2>1, <2>2
<1>5. Cardinality({}) = 0 /\ Cardinality(A) \in Nat
  BY <1>1, FS_EmptySet, FS_CardinalityType
<1>6. Cardinality(B) = Cardinality(A) + Cardinality(Fresh) - 0
  <2> HIDE DEF Fresh
  <2> QED BY <1>1, <1>3, <1>4, <1>5, FS_Union
<1> QED BY <1>1, <1>3, <1>5, <1>6

\* Induction, by the least number that would be an exception.
LEMMA PowersGrow == \A n \in Nat : n < 2^n /\ \A k \in 0..n : 2^k <= 2^n
<1> DEFINE Grows(n) == n < 2^n /\ \A k \in 0..n : 2^k <= 2^n
           T == {n \in Nat : ~Grows(n)}
<1>1. Grows(0)
  BY 2^0 = 1
<1>2. ASSUME NEW n \in Nat, Grows(n) PROVE Grows(n + 1)
  <2>1. 2^(n + 1) = 2 * 2^n /\ 2^n \in Nat
    BY PowerStep
  <2>2. n + 1 < 2^(n + 1)
    BY <1>2, <2>1
  <2>3. ASSUME NEW k \in 0..(n + 1) PROVE 2^k <= 2^(n + 1)
    <3>1. CASE k = n + 1
      BY <2>1, <3>1
    <3>2. CASE k \in 0..n
      <4>1. 2^k <= 2^n /\ 2^k \in Nat
        BY <1>2, <3>2, PowerStep
      <4> QED BY <4>1, <2>1
    <3> QED BY <3>1, <3>2
  <2> QED BY <2>2, <2>3
<1> HIDE DEF Grows
<1>3. ASSUME T # {} PROVE FALSE
  <2>1. PICK n \in T : \A m \in T : n <= m
    BY <1>3, LeastOf
  <2>2. n \in Nat /\ ~Grows(n) /\ n # 0
    BY <1>1
  <2>3. n - 1 \in Nat /\ Grows(n - 1)
    BY <2>1, <2>2
  <2>4. Grows((n - 1) + 1)
    BY <2>3, <1>2
  <2> QED BY <2>2, <2>4
<1>4. \A n \in Nat : Grows(n)
  BY <1>3
<1> QED BY <1>4 DEF Grows

\* int.bit_length().
LEMMA BitLengthIs ==
  ASSUME NEW ns \in Nat, ns >= 8
  PROVE  LET b == BitLength(ns)
         IN /\ b \in Nat /\ b >= 4
            /\ 2^(b - 4) \in Nat \ {0}
            /\ 8 * 2^(b - 4) <= ns /\ ns < 16 * 2^(b - 4)
            /\ 2^(b - 1) <= ns /\ ns < 2^b
<1> DEFINE T == {b \in Nat : ns < 2^b}
<1>1. ns \in T
  BY PowersGrow
<1>2. PICK c \in T : \A y \in T : c <= y
  BY <1>1, LeastOf
<1>3. c \in 0..ns /\ ns < 2^c /\ (c = 0 \/ 2^(c - 1) <= ns)
  <2>1. CASE c = 0
    BY <2>1, <1>1, <1>2
  <2>2. CASE c # 0
    <3>1. c - 1 \in Nat /\ c - 1 \notin T
      BY <1>2, <2>2
    <3>2. 2^(c - 1) \in Nat
      BY <3>1, PowerStep
    <3> QED BY <1>1, <1>2, <3>1, <3>2
  <2> QED BY <2>1, <2>2
<1> DEFINE b == BitLength(ns)
<1>4. b \in 0..ns /\ ns < 2^b /\ (b = 0 \/ 2^(b - 1) <= ns)
  BY <1>3 DEF BitLength
<1> HIDE DEF b
<1>5. b >= 4
  <2> SUFFICES ASSUME b \in 0..3 PROVE FALSE
    BY <1>4
  <2>1. PICK n \in Nat : n = 3
    OBVIOUS
  <2>2. 2^3 = 8
    OBVIOUS
  <2>3. 2^n = 8
    BY <2>1, <2>2, Zenon
  <2>4. 2^b <= 2^n /\ 2^b \in Nat
    <3>1. b \in 0..n /\ b \in Nat
      BY <2>1
    <3> HIDE DEF b
    <3> QED BY <3>1, PowersGrow, PowerStep, Zenon
  <2> QED BY <1>4, <2>3, <2>4
<1> DEFINE k == b - 4
<1>6. k \in Nat
  BY <1>4, <1>5
<1>7. /\ 2^(k + 1) = 2 * 2^k /\ 2^(k + 1 + 1) = 2 * 2^(k + 1)
      /\ 2^(k + 2 + 1) = 2 * 2^(k + 2) /\ 2^(k + 3 + 1) = 2 * 2^(k + 3) /\ 2^k \in Nat /\ k < 2^k
  BY <1>6, PowerStep, PowersGrow, k + 1 \in Nat, k + 2 \in Nat, k + 3 \in Nat
<1>8. k + 1 + 1 = k + 2 /\ k + 2 + 1 = k + 3 /\ k + 3 + 1 = b /\ k + 3 = b - 1
  BY <1>6, <1>4
<1>9. 2^b = 16 * 2^k /\ 2^(b - 1) = 8 * 2^k
  BY <1>7, <1>8
<1> QED BY <1>4, <1>5, <1>6, <1>7, <1>9 DEF b

\* The bucket of 8 ns or more: an eighth of the octave p..2p, eightfold.
LEMMA BucketIs ==
  ASSUME NEW ns \in Nat, ns >= 8
  PROVE  LET b == BitLength(ns)   p == 2^(b - 4)   sub == (ns \div p) % 8
         IN /\ sub \in 0..7 /\ 8 + sub = ns \div p
            /\ BucketIndex(ns) = 8 + 8 * (b - 4) + sub /\ BucketIndex(ns) \in Nat
            /\ BucketBounds(BucketIndex(ns)) = <<(ns \div p) * p, (ns \div p + 1) * p>>
<1> DEFINE b == BitLength(ns)   p == 2^(b - 4)   sub == (ns \div p) % 8   i == BucketIndex(ns)
<1>1. b \in Nat /\ b >= 4 /\ p \in Nat \ {0} /\ 8 * p <= ns /\ ns < 16 * p
  BY BitLengthIs
<1>2. i = 8 + 8 * (b - 4) + sub
  BY DEF BucketIndex
<1> HIDE DEF b, p, i
<1>3. ns \div p \in Nat /\ (ns \div p) * p <= ns /\ ns < (ns \div p) * p + p
  BY <1>1
<1>4. 8 <= ns \div p /\ ns \div p < 16
  BY <1>1, <1>3
<1>5. sub \in 0..7 /\ 8 + sub = ns \div p
  BY <1>3, <1>4
<1> HIDE DEF sub
<1>6. i \in Nat /\ i >= 8 /\ (i - 8) \div 8 = b - 4 /\ (i - 8) % 8 = sub
  BY <1>1, <1>2, <1>5
<1>7. BucketBounds(i) = <<(8 + sub) * p, (9 + sub) * p>>
  BY <1>6 DEF BucketBounds, p
<1>8. 9 + sub = ns \div p + 1
  BY <1>3, <1>5
<1> QED BY <1>2, <1>5, <1>6, <1>7, <1>8 DEF b, p, sub, i

LEMMA IndexType == \A ns \in Nat : BucketIndex(ns) \in Nat /\ (ns < 8 <=> BucketIndex(ns) < 8)
                                   /\ (ns < 8 => BucketIndex(ns) = ns)
<1> SUFFICES ASSUME NEW ns \in Nat
             PROVE  BucketIndex(ns) \in Nat /\ (ns < 8 <=> BucketIndex(ns) < 8)
                    /\ (ns < 8 => BucketIndex(ns) = ns)
  OBVIOUS
<1>1. CASE ns < 8
  <2>1. Max({0, ns}) = ns
    BY DEF Max
  <2> QED BY <1>1, <2>1 DEF BucketIndex
<1>2. CASE ns >= 8
  <2> DEFINE b == BitLength(ns)   sub == (ns \div 2^(b - 4)) % 8
  <2>1. b \in Nat /\ b >= 4 /\ sub \in 0..7 /\ BucketIndex(ns) = 8 + 8 * (b - 4) + sub
    BY <1>2, BitLengthIs, BucketIs
  <2> HIDE DEF b, sub
  <2> QED BY <1>2, <2>1
<1> QED BY <1>1, <1>2

\* The midpoint percentile() reads from a bucket.
Midpoint(i) == (BucketBounds(i)[1] + BucketBounds(i)[2] - 1) \div 2

\* For every duration: it lies within the bounds of its bucket, and what is
\* read from the bucket is within a sixteenth of it ("at most 12.5% wide and a
\* percentile read from the bucket midpoint is within about 6.25%").
THEOREM BucketsArePrecise ==
  \A ns \in Nat : /\ BucketBounds(BucketIndex(ns))[1] <= ns
                  /\ ns < BucketBounds(BucketIndex(ns))[2]
                  /\ Midpoint(BucketIndex(ns)) \in Nat
                  /\ 16 * AbsDiff(Midpoint(BucketIndex(ns)), ns) <= ns
<1> SUFFICES ASSUME NEW ns \in Nat
             PROVE  /\ BucketBounds(BucketIndex(ns))[1] <= ns
                    /\ ns < BucketBounds(BucketIndex(ns))[2]
                    /\ Midpoint(BucketIndex(ns)) \in Nat
                    /\ 16 * AbsDiff(Midpoint(BucketIndex(ns)), ns) <= ns
  OBVIOUS
<1>1. CASE ns < 8
  <2>1. BucketBounds(BucketIndex(ns)) = <<ns, ns + 1>>
    BY <1>1, IndexType DEF BucketBounds
  <2> QED BY <2>1 DEF Midpoint, AbsDiff
<1>2. CASE ns >= 8
  <2> DEFINE p == 2^(BitLength(ns) - 4)   lo == (ns \div p) * p
  <2>1. p \in Nat \ {0} /\ 8 * p <= ns /\ ns < 16 * p
    BY <1>2, BitLengthIs
  <2>2. BucketBounds(BucketIndex(ns)) = <<(ns \div p) * p, (ns \div p + 1) * p>> /\ ns \div p >= 8
    <3>1. 8 + ((ns \div p) % 8) = ns \div p /\ (ns \div p) % 8 \in 0..7
      BY <1>2, BucketIs
    <3> QED BY <3>1, <1>2, BucketIs
  <2> HIDE DEF p
  <2>3. ns \div p \in Nat /\ lo \in Nat /\ (ns \div p + 1) * p = lo + p
    BY <2>1
  <2>4. lo <= ns /\ ns < lo + p /\ 8 * p <= lo
    BY <2>1, <2>2, <2>3
  <2>5. Midpoint(BucketIndex(ns)) = (lo + (lo + p) - 1) \div 2
    BY <2>2, <2>3 DEF Midpoint
  <2> HIDE DEF lo
  <2>6. 16 * AbsDiff((lo + (lo + p) - 1) \div 2, ns) <= ns /\ (lo + (lo + p) - 1) \div 2 \in Nat
    BY <2>1, <2>3, <2>4 DEF AbsDiff
  <2> QED BY <2>2, <2>3, <2>4, <2>5, <2>6 DEF lo
<1> QED BY <1>1, <1>2

LEMMA IndexGrows == \A x, y \in Nat : x <= y => BucketIndex(x) <= BucketIndex(y)
<1> SUFFICES ASSUME NEW x \in Nat, NEW y \in Nat, x <= y
             PROVE  BucketIndex(x) <= BucketIndex(y)
  OBVIOUS
<1>1. CASE x < 8
  BY <1>1, IndexType
<1>2. CASE x >= 8
  <2> DEFINE b == BitLength(x)   s == (x \div 2^(b - 4)) % 8
             c == BitLength(y)   t == (y \div 2^(c - 4)) % 8
  <2>1. /\ b \in Nat /\ b >= 4 /\ 2^(b - 4) \in Nat \ {0} /\ 2^(b - 1) <= x
        /\ s \in 0..7 /\ 8 + s = x \div 2^(b - 4) /\ BucketIndex(x) = 8 + 8 * (b - 4) + s
    BY <1>2, BitLengthIs, BucketIs
  <2>2. y >= 8
    BY <1>2
  <2>3. /\ c \in Nat /\ c >= 4 /\ y < 2^c
        /\ t \in 0..7 /\ 8 + t = y \div 2^(c - 4) /\ BucketIndex(y) = 8 + 8 * (c - 4) + t
    BY <2>2, BitLengthIs, BucketIs
  <2> HIDE DEF b, c, s, t
  <2>4. CASE b < c
    BY <2>1, <2>3, <2>4
  <2>5. CASE b = c
    <3>1. x \div 2^(b - 4) <= y \div 2^(b - 4)
      <4>1. PICK p \in Nat \ {0} : p = 2^(b - 4)
        BY <2>1
      <4>2. x \div p <= y \div p
        OBVIOUS
      <4> QED BY <4>1, <4>2
    <3>2. s <= t
      BY <2>1, <2>3, <2>5, <3>1
    <3> QED BY <2>1, <2>3, <2>5, <3>2
  <2>6. CASE c < b
    <3>1. b - 1 \in Nat /\ c \in 0..(b - 1)
      BY <2>1, <2>3, <2>6
    <3>2. 2^c <= 2^(b - 1) /\ 2^c \in Nat /\ 2^(b - 1) \in Nat
      BY <3>1, <2>3, PowersGrow, PowerStep
    <3> QED BY <2>1, <2>3, <3>2
  <2> QED BY <2>1, <2>3, <2>4, <2>5, <2>6
<1> QED BY <1>1, <1>2

-----------------------------------------------------------------------------
(* The latency of an operation: its histogram *)

\* A finite bag of numbers, of which some may have no copies.
Tally(bag) == IsFiniteSet(DOMAIN bag) /\ DOMAIN bag \subseteq Nat /\ bag \in [DOMAIN bag -> Nat]

IsCount(bag) == Tally(bag) /\ \A x \in DOMAIN bag : bag[x] # 0

CopiesOf(bag, P) == {c \in Copies(bag) : c[1] \in P}
CountIn(bag, P) == Cardinality(CopiesOf(bag, P))

LEMMA CopiesAre ==
  ASSUME NEW bag, Tally(bag)
  PROVE  /\ \A c : c \in Copies(bag) <=> \E x \in DOMAIN bag : \E k \in 1..bag[x] : c = <<x, k>>
         /\ IsFiniteSet(Copies(bag))
         /\ \A P : IsFiniteSet(CopiesOf(bag, P)) /\ CountIn(bag, P) \in Nat
<1> DEFINE Of(x) == {x} \X (1..bag[x])   Parts == {Of(x) : x \in DOMAIN bag}
<1>1. \A c : c \in Copies(bag) <=> \E x \in DOMAIN bag : \E k \in 1..bag[x] : c = <<x, k>>
  BY DEF Copies, BagToSet
<1>2. IsFiniteSet(Parts)
  <2> DEFINE f == [x \in DOMAIN bag |-> Of(x)]
  <2>1. f \in Surjection(DOMAIN bag, Parts)
    BY DEF Surjection
  <2> QED BY <2>1, FS_Surjection DEF Tally
<1>3. \A x \in DOMAIN bag : IsFiniteSet(Of(x))
  <2> SUFFICES ASSUME NEW x \in DOMAIN bag PROVE IsFiniteSet(Of(x))
    OBVIOUS
  <2>1. IsFiniteSet({x})
    BY FS_Singleton
  <2>2. IsFiniteSet(1..bag[x])
    <3>1. bag[x] \in Int
      BY DEF Tally
    <3> QED BY <3>1, FS_Interval
  <2> QED BY <2>1, <2>2, FS_Product
<1>4. Copies(bag) = UNION Parts
  BY DEF Copies, BagToSet
<1>5. IsFiniteSet(Copies(bag))
  BY <1>2, <1>3, <1>4, FS_UNION
<1>6. \A P : IsFiniteSet(CopiesOf(bag, P)) /\ CountIn(bag, P) \in Nat
  BY <1>5, FS_Subset, FS_CardinalityType DEF CopiesOf, CountIn
<1> QED BY <1>1, <1>5, <1>6

\* The copies of two bags in their sum.
LEMMA CountsAdd ==
  ASSUME NEW B, Tally(B), NEW C, Tally(C)
  PROVE  /\ Tally(B (+) C) /\ (IsCount(B) /\ IsCount(C) => IsCount(B (+) C))
         /\ DOMAIN (B (+) C) = DOMAIN B \cup DOMAIN C
         /\ \A P : CountIn(B (+) C, P) = CountIn(B, P) + CountIn(C, P)
<1> DEFINE D == B (+) C
           before(x) == IF x \in DOMAIN B THEN B[x] ELSE 0
           after(x) == IF x \in DOMAIN C THEN C[x] ELSE 0
<1>1. DOMAIN D = DOMAIN B \cup DOMAIN C /\ \A x \in DOMAIN D : D[x] = before(x) + after(x)
  BY DEF (+)
<1>2. D = [x \in DOMAIN D |-> before(x) + after(x)]
  BY DEF (+)
<1>3. \A x : before(x) \in Nat /\ after(x) \in Nat /\ before(x) + after(x) \in Nat
  BY DEF Tally
<1>6. IsCount(B) /\ IsCount(C) => \A x \in DOMAIN D : D[x] # 0
  BY <1>1, <1>3 DEF IsCount, Tally
<1> HIDE DEF D, before, after
<1>4. Tally(D)
  <2>1. IsFiniteSet(DOMAIN D) /\ DOMAIN D \subseteq Nat
    BY <1>1, FS_Union DEF Tally
  <2>2. D \in [DOMAIN D -> Nat]
    BY <1>2, <1>3
  <2> QED BY <2>1, <2>2 DEF Tally
<1>5. ASSUME NEW P PROVE CountIn(D, P) = CountIn(B, P) + CountIn(C, P)
  <2> DEFINE X == CopiesOf(B, P)   Y == CopiesOf(C, P)   Z == CopiesOf(D, P)
             f == [c \in Y |-> <<c[1], c[2] + before(c[1])>>]
  <2>1. \A c : c \in X <=> \E x \in DOMAIN B \cap P : \E k \in 1..before(x) : c = <<x, k>>
    BY CopiesAre DEF CopiesOf, before
  <2>2. \A c : c \in Y <=> \E x \in DOMAIN C \cap P : \E k \in 1..after(x) : c = <<x, k>>
    BY CopiesAre DEF CopiesOf, after
  <2>3. \A c : c \in Z <=> \E x \in DOMAIN D \cap P : \E k \in 1..(before(x) + after(x)) : c = <<x, k>>
    BY <1>1, <1>4, CopiesAre DEF CopiesOf
  <2>4. IsFiniteSet(X) /\ IsFiniteSet(Y) /\ IsFiniteSet(Z)
    BY <1>4, CopiesAre
  <2> HIDE DEF X, Y, Z
  <2>5. X \subseteq Z
    <3> SUFFICES ASSUME NEW c \in X PROVE c \in Z
      OBVIOUS
    <3>1. PICK x \in DOMAIN B \cap P, k \in Int : k \in 1..before(x) /\ c = <<x, k>>
      BY <2>1
    <3>2. x \in DOMAIN D \cap P /\ k \in 1..(before(x) + after(x))
      BY <3>1, <1>1, <1>3
    <3> QED BY <3>1, <3>2, <2>3
  <2>6. \A c \in Y : f[c] \in Z \ X
    <3> SUFFICES ASSUME NEW c \in Y PROVE f[c] \in Z /\ f[c] \notin X
      OBVIOUS
    <3>1. PICK x \in DOMAIN C \cap P, k \in Int : k \in 1..after(x) /\ c = <<x, k>>
      BY <2>2
    <3>2. f[c] = <<x, k + before(x)>>
      BY <3>1
    <3>3. x \in DOMAIN D \cap P /\ k + before(x) \in 1..(before(x) + after(x)) /\ k + before(x) \notin 1..before(x)
      BY <3>1, <1>1, <1>3
    <3> HIDE DEF f
    <3>4. f[c] \in Z
      BY <3>2, <3>3, <2>3
    <3>5. f[c] \notin X
      BY <3>2, <3>3, <2>1
    <3> QED BY <3>4, <3>5
  <2>7. \A d \in Z \ X : \E c \in Y : f[c] = d
    <3> SUFFICES ASSUME NEW d \in Z, d \notin X PROVE \E c \in Y : f[c] = d
      OBVIOUS
    <3>1. PICK x \in DOMAIN D \cap P, k \in Int : k \in 1..(before(x) + after(x)) /\ d = <<x, k>>
      BY <2>3
    <3>2. k \notin 1..before(x)
      <4>1. x \notin DOMAIN B => before(x) = 0
        BY DEF before
      <4> QED BY <3>1, <4>1, <2>1
    <3>3. k - before(x) \in 1..after(x) /\ k - before(x) + before(x) = k
      BY <3>1, <3>2, <1>3
    <3>4. x \in DOMAIN C
      BY <3>3 DEF after
    <3>5. <<x, k - before(x)>> \in Y
      BY <3>1, <3>3, <3>4, <2>2
    <3>6. f[<<x, k - before(x)>>] = <<x, k - before(x) + before(x)>>
      BY <3>5
    <3> QED BY <3>1, <3>3, <3>5, <3>6
  <2>8. \A c, d \in Y : f[c] = f[d] => c = d
    <3> SUFFICES ASSUME NEW c \in Y, NEW d \in Y, f[c] = f[d] PROVE c = d
      OBVIOUS
    <3>1. PICK x \in DOMAIN C \cap P, k \in Int : k \in 1..after(x) /\ c = <<x, k>>
      BY <2>2
    <3>2. PICK y \in DOMAIN C \cap P, l \in Int : l \in 1..after(y) /\ d = <<y, l>>
      BY <2>2
    <3>3. <<x, k + before(x)>> = <<y, l + before(y)>>
      BY <3>1, <3>2
    <3>4. x = y /\ k + before(x) = l + before(y) /\ before(x) \in Nat /\ k \in Int /\ l \in Int
      BY <3>3, <1>3, <3>1, <3>2
    <3>5. k = l
      BY <3>4
    <3> QED BY <3>1, <3>2, <3>4, <3>5
  <2>9. f \in Bijection(Y, Z \ X)
    <3>1. f \in [Y -> Z \ X]
      BY <2>6
    <3> HIDE DEF f
    <3> QED BY <3>1, <2>7, <2>8 DEF Bijection, Injection, Surjection, IsInjective
  <2>10. IsFiniteSet(Z \ X) /\ Cardinality(Z \ X) = Cardinality(Y)
    BY <2>4, <2>9, FS_Bijection DEF ExistsBijection
  <2>11. Cardinality(X \cup (Z \ X)) = Cardinality(X) + Cardinality(Z \ X) - Cardinality(X \cap (Z \ X))
    BY <2>4, <2>10, FS_Union
  <2>12. X \cup (Z \ X) = Z /\ X \cap (Z \ X) = {}
    BY <2>5
  <2>13. Cardinality({}) = 0 /\ Cardinality(X) \in Nat /\ Cardinality(Y) \in Nat
    BY <2>4, FS_EmptySet, FS_CardinalityType
  <2>14. Cardinality(Z) = Cardinality(X) + Cardinality(Y)
    <3>1. Cardinality(Z) = Cardinality(X) + Cardinality(Z \ X) - 0
      BY <2>11, <2>12, <2>13, Zenon
    <3> QED BY <3>1, <2>10, <2>13
  <2> QED BY <2>14 DEF CountIn, X, Y, Z
<1> QED BY <1>1, <1>4, <1>5, <1>6 DEF D, IsCount

LEMMA CountOfMany ==
  ASSUME NEW x \in Nat, NEW n \in Nat \ {0}
  PROVE  LET many == [y \in {x} |-> n]
         IN IsCount(many) /\ \A P : CountIn(many, P) = IF x \in P THEN n ELSE 0
<1> DEFINE many == [y \in {x} |-> n]
<1>1. DOMAIN many = {x} /\ many[x] = n /\ many \in [{x} -> Nat]
  OBVIOUS
<1> HIDE DEF many
<1>2. IsCount(many)
  <2>1. IsFiniteSet(DOMAIN many)
    <3>1. IsFiniteSet({x})
      BY FS_Singleton
    <3> QED BY <1>1, <3>1
  <2>2. many \in [DOMAIN many -> Nat] /\ DOMAIN many \subseteq Nat /\ \A y \in DOMAIN many : many[y] # 0
    BY <1>1
  <2> QED BY <2>1, <2>2 DEF IsCount, Tally
<1>3. Copies(many) = {x} \X (1..n)
  BY <1>1 DEF Copies, BagToSet
<1>4. Cardinality(Copies(many)) = n
  <2>1. IsFiniteSet(1..n) /\ Cardinality(1..n) = n
    BY FS_Interval
  <2>2. IsFiniteSet({x}) /\ Cardinality({x}) = 1
    BY FS_Singleton
  <2>3. Cardinality({x} \X (1..n)) = 1 * n
    BY <2>1, <2>2, FS_Product
  <2> QED BY <1>3, <2>3
<1>5. \A P : CopiesOf(many, P) = IF x \in P THEN Copies(many) ELSE {}
  BY <1>3 DEF CopiesOf
<1> QED BY <1>2, <1>4, <1>5, FS_EmptySet DEF CountIn, many

LEMMA CountOfOne ==
  ASSUME NEW x \in Nat
  PROVE  /\ IsCount(One(x)) /\ DOMAIN One(x) = {x}
         /\ \A P : CountIn(One(x), P) = IF x \in P THEN 1 ELSE 0
<1>1. One(x) = [y \in {x} |-> 1]
  BY DEF One, SetToBag
<1>2. 1 \in Nat \ {0} /\ DOMAIN One(x) = {x}
  BY <1>1
<1>3. IsCount([y \in {x} |-> 1]) /\ \A P : CountIn([y \in {x} |-> 1], P) = IF x \in P THEN 1 ELSE 0
  BY <1>2, CountOfMany
<1> QED BY <1>1, <1>2, <1>3

LEMMA CountGrows ==
  ASSUME NEW bag, IsCount(bag), NEW P, NEW Q, \A x \in DOMAIN bag : x \in P => x \in Q
  PROVE  CountIn(bag, P) <= CountIn(bag, Q) /\ CountIn(bag, P) \in Nat /\ CountIn(bag, Q) \in Nat
<1>1. CopiesOf(bag, P) \subseteq CopiesOf(bag, Q)
  BY CopiesAre DEF CopiesOf, IsCount
<1> QED BY <1>1, CopiesAre, FS_Subset DEF IsCount, CountIn

LEMMA SizeIs ==
  ASSUME NEW bag, IsCount(bag)
  PROVE  /\ Size(bag) = CountIn(bag, Nat) /\ Size(bag) \in Nat
         /\ Size(bag) = 0 <=> DOMAIN bag = {}
<1> USE DEF IsCount
<1>1. CopiesOf(bag, Nat) = Copies(bag)
  BY CopiesAre DEF CopiesOf, Tally
<1>2. Size(bag) = CountIn(bag, Nat) /\ Size(bag) \in Nat
  BY <1>1, CopiesAre DEF Size, CountIn
<1>3. Size(bag) = 0 <=> Copies(bag) = {}
  BY CopiesAre, FS_EmptySet DEF Size
<1>4. Copies(bag) = {} <=> DOMAIN bag = {}
  <2>1. ASSUME NEW x \in DOMAIN bag PROVE <<x, 1>> \in Copies(bag)
    <3>1. 1 \in 1..bag[x]
      BY DEF Tally
    <3> QED BY <3>1, CopiesAre
  <2>2. DOMAIN bag = {} => Copies(bag) = {}
    BY CopiesAre
  <2> QED BY <2>1, <2>2
<1> QED BY <1>2, <1>3, <1>4


Low(j) == {x \in Nat : x <= j}
Under(j) == {x \in Nat : BucketIndex(x) <= j}

\* A duration below 16 ns may have come one bucket too low.
Up(loose, j) == IF loose /\ j < 15 THEN j + 1 ELSE j

\* A bag of buckets is that of a bag of durations.
Image(loose, buckets, bag) ==
  /\ IsCount(buckets) /\ IsCount(bag) /\ Size(buckets) = Size(bag)
  /\ \A j \in Nat : /\ CountIn(bag, Under(j)) <= CountIn(buckets, Low(j))
                    /\ CountIn(buckets, Low(j)) <= CountIn(bag, Under(Up(loose, j)))

Extremes(h, bag) ==
  DOMAIN bag # {} => /\ h.min \in DOMAIN bag /\ h.max \in DOMAIN bag
                     /\ \A x \in DOMAIN bag : h.min <= x /\ x <= h.max

\* A histogram is that of a bag of durations.
Stands(loose, h, bag) == /\ Image(loose, h.buckets, bag) /\ Extremes(h, bag)
                         /\ h.count = Size(bag) /\ h.sum = SumOf(bag)

LEMMA SumsAdd ==
  ASSUME NEW B, Tally(B), NEW C, Tally(C)
  PROVE  SumOf(B (+) C) = SumOf(B) + SumOf(C)
<1> DEFINE D == B (+) C
<1>1. \A bag : Tally(bag) => Tally(Weighted(bag)) /\ Size(Weighted(bag)) = CountIn(Weighted(bag), Nat)
  <2> SUFFICES ASSUME NEW bag, Tally(bag)
               PROVE  Tally(Weighted(bag)) /\ Size(Weighted(bag)) = CountIn(Weighted(bag), Nat)
    OBVIOUS
  <2>1. Tally(Weighted(bag))
    BY DEF Tally, Weighted, BagToSet
  <2>2. CopiesOf(Weighted(bag), Nat) = Copies(Weighted(bag))
    BY <2>1, CopiesAre DEF CopiesOf, Tally
  <2> QED BY <2>1, <2>2 DEF Size, CountIn
<1>2. Tally(D) /\ DOMAIN D = DOMAIN B \cup DOMAIN C
  BY CountsAdd
<1>3. Weighted(D) = Weighted(B) (+) Weighted(C)
  <2> DEFINE b(x) == IF x \in DOMAIN B THEN B[x] ELSE 0
             c(x) == IF x \in DOMAIN C THEN C[x] ELSE 0
  <2>1. \A x \in DOMAIN D : D[x] = b(x) + c(x)
    BY DEF (+)
  <2>2. Weighted(B) (+) Weighted(C) = [x \in DOMAIN D |-> (IF x \in DOMAIN B THEN x * B[x] ELSE 0)
                                                        + (IF x \in DOMAIN C THEN x * C[x] ELSE 0)]
    BY <1>2 DEF (+), Weighted, BagToSet
  <2>3. ASSUME NEW x \in DOMAIN D
        PROVE  x * D[x] = (IF x \in DOMAIN B THEN x * B[x] ELSE 0) + (IF x \in DOMAIN C THEN x * C[x] ELSE 0)
    <3>1. x \in Nat /\ b(x) \in Nat /\ c(x) \in Nat
      BY <1>2 DEF Tally
    <3>2. x * (b(x) + c(x)) = x * b(x) + x * c(x)
      <4> HIDE DEF b, c
      <4> QED BY <3>1
    <3>3. x * b(x) = (IF x \in DOMAIN B THEN x * B[x] ELSE 0) /\ x * c(x) = (IF x \in DOMAIN C THEN x * C[x] ELSE 0)
      BY <3>1
    <3> HIDE DEF b, c
    <3> QED BY <2>1, <3>2, <3>3
  <2> HIDE DEF D
  <2>4. Weighted(D) = [x \in DOMAIN D |-> x * D[x]]
    BY DEF Weighted, BagToSet
  <2> QED BY <2>2, <2>3, <2>4
<1>4. CountIn(Weighted(D), Nat) = CountIn(Weighted(B), Nat) + CountIn(Weighted(C), Nat)
  <2>1. Tally(Weighted(B)) /\ Tally(Weighted(C))
    BY <1>1
  <2>2. \A P : CountIn(Weighted(B) (+) Weighted(C), P) = CountIn(Weighted(B), P) + CountIn(Weighted(C), P)
    BY <2>1, CountsAdd
  <2> QED BY <1>3, <2>2
<1> QED BY <1>1, <1>2, <1>4 DEF SumOf

LEMMA SumOfOne == \A ns \in Nat : SumOf(One(ns)) = ns
<1> SUFFICES ASSUME NEW ns \in Nat PROVE SumOf(One(ns)) = ns
  OBVIOUS
<1>1. DOMAIN One(ns) = {ns} /\ One(ns)[ns] = 1
  BY DEF One, SetToBag
<1>2. DOMAIN Weighted(One(ns)) = {ns} /\ Weighted(One(ns))[ns] = ns
  BY <1>1 DEF Weighted, BagToSet
<1>3. Copies(Weighted(One(ns))) = {ns} \X (1..ns)
  BY <1>2 DEF Copies, BagToSet
<1>4. IsFiniteSet({ns}) /\ Cardinality({ns}) = 1 /\ IsFiniteSet(1..ns) /\ Cardinality(1..ns) = ns
  <2>1. IsFiniteSet(1..ns) /\ Cardinality(1..ns) = ns
    BY FS_Interval
  <2> QED BY <2>1, FS_Singleton
<1>5. Cardinality({ns} \X (1..ns)) = 1 * ns
  BY <1>4, FS_Product
<1> QED BY <1>3, <1>5 DEF SumOf, Size

LEMMA ImagesAdd ==
  ASSUME NEW loose \in BOOLEAN, NEW B, NEW b, Image(loose, B, b), NEW C, NEW c, Image(loose, C, c)
  PROVE  Image(loose, B (+) C, b (+) c)
<1>0. /\ IsCount(B) /\ IsCount(C) /\ Tally(B) /\ Tally(C)
      /\ IsCount(b) /\ IsCount(c) /\ Tally(b) /\ Tally(c)
  BY DEF Image, IsCount
<1>1. IsCount(B (+) C) /\ \A P : CountIn(B (+) C, P) = CountIn(B, P) + CountIn(C, P)
  BY <1>0, CountsAdd
<1>2. IsCount(b (+) c) /\ \A P : CountIn(b (+) c, P) = CountIn(b, P) + CountIn(c, P)
  BY <1>0, CountsAdd
<1>3. \A P : /\ CountIn(B, P) \in Nat /\ CountIn(C, P) \in Nat
            /\ CountIn(b, P) \in Nat /\ CountIn(c, P) \in Nat
  BY <1>0, CopiesAre
<1>4. Size(B (+) C) = Size(b (+) c)
  <2>1. Size(B (+) C) = CountIn(B (+) C, Nat) /\ Size(b (+) c) = CountIn(b (+) c, Nat)
    BY <1>1, <1>2, SizeIs
  <2>2. /\ Size(B) = CountIn(B, Nat) /\ Size(C) = CountIn(C, Nat)
        /\ Size(b) = CountIn(b, Nat) /\ Size(c) = CountIn(c, Nat)
    BY <1>0, SizeIs
  <2> QED BY <1>1, <1>2, <2>1, <2>2 DEF Image
<1>5. ASSUME NEW j \in Nat
      PROVE  /\ CountIn(b (+) c, Under(j)) <= CountIn(B (+) C, Low(j))
             /\ CountIn(B (+) C, Low(j)) <= CountIn(b (+) c, Under(Up(loose, j)))
  <2>1. /\ CountIn(b, Under(j)) <= CountIn(B, Low(j)) /\ CountIn(c, Under(j)) <= CountIn(C, Low(j))
        /\ CountIn(B, Low(j)) <= CountIn(b, Under(Up(loose, j)))
        /\ CountIn(C, Low(j)) <= CountIn(c, Under(Up(loose, j)))
    BY DEF Image
  <2> QED BY <1>1, <1>2, <1>3, <2>1
<1> QED BY <1>1, <1>2, <1>4, <1>5 DEF Image

LEMMA ImageOfOne == \A loose \in BOOLEAN, ns \in Nat : Image(loose, One(BucketIndex(ns)), One(ns))
<1> SUFFICES ASSUME NEW loose \in BOOLEAN, NEW ns \in Nat
             PROVE  Image(loose, One(BucketIndex(ns)), One(ns))
  OBVIOUS
<1>1. BucketIndex(ns) \in Nat
  BY IndexType
<1>2. IsCount(One(BucketIndex(ns))) /\ \A P : CountIn(One(BucketIndex(ns)), P) = IF BucketIndex(ns) \in P THEN 1 ELSE 0
  BY <1>1, CountOfOne
<1>3. IsCount(One(ns)) /\ \A P : CountIn(One(ns), P) = IF ns \in P THEN 1 ELSE 0
  BY CountOfOne
<1>4. Size(One(BucketIndex(ns))) = Size(One(ns))
  BY <1>1, <1>2, <1>3, SizeIs
<1>5. ASSUME NEW j \in Nat
      PROVE  /\ CountIn(One(ns), Under(j)) <= CountIn(One(BucketIndex(ns)), Low(j))
             /\ CountIn(One(BucketIndex(ns)), Low(j)) <= CountIn(One(ns), Under(Up(loose, j)))
  <2>1. ns \in Under(j) <=> BucketIndex(ns) \in Low(j)
    BY <1>1 DEF Under, Low
  <2>2. BucketIndex(ns) \in Low(j) => ns \in Under(Up(loose, j))
    BY <1>1 DEF Under, Low, Up
  <2> QED BY <1>2, <1>3, <2>1, <2>2
<1> QED BY <1>2, <1>3, <1>4, <1>5 DEF Image

LEMMA MinMaxOfTwo ==
  ASSUME NEW a \in Int, NEW b \in Int
  PROVE  /\ Min({a, b}) = IF a <= b THEN a ELSE b
         /\ Max({a, b}) = IF a >= b THEN a ELSE b
BY DEF Min, Max

\* Recording a duration, and merging, of histograms is that of bags.
LEMMA EmptyStands == \A loose \in BOOLEAN : Stands(loose, Empty, EmptyBag)
<1> SUFFICES ASSUME NEW loose \in BOOLEAN PROVE Stands(loose, Empty, EmptyBag)
  OBVIOUS
<1>1. DOMAIN EmptyBag = {} /\ EmptyBag \in [{} -> Nat]
  BY DEF EmptyBag, SetToBag
<1>2. IsCount(EmptyBag)
  BY <1>1, FS_EmptySet DEF IsCount, Tally
<1>3. Copies(EmptyBag) = {}
  BY <1>1, <1>2, CopiesAre DEF IsCount
<1>4. Size(EmptyBag) = 0 /\ \A P : CountIn(EmptyBag, P) = 0
  BY <1>3, FS_EmptySet DEF Size, CountIn, CopiesOf
<1>5. SumOf(EmptyBag) = 0
  <2>1. Copies(Weighted(EmptyBag)) = {}
    BY <1>1 DEF Copies, Weighted, BagToSet
  <2> QED BY <2>1, FS_EmptySet DEF SumOf, Size
<1> QED BY <1>1, <1>2, <1>4, <1>5 DEF Stands, Image, Extremes, Empty

LEMMA RecordingStands ==
  ASSUME NEW loose \in BOOLEAN, NEW h, NEW bag, Stands(loose, h, bag), NEW ns \in Nat
  PROVE  Stands(loose, Recording(h, ns), bag (+) One(ns))
<1> DEFINE g == Recording(h, ns)
<1>1. /\ g.count = h.count + 1 /\ g.sum = h.sum + ns /\ g.buckets = h.buckets (+) One(BucketIndex(ns))
      /\ g.min = (IF h.count = 0 THEN ns ELSE Min({h.min, ns}))
      /\ g.max = (IF h.count = 0 THEN ns ELSE Max({h.max, ns}))
  BY DEF Recording
<1>2. Image(loose, g.buckets, bag (+) One(ns))
  BY <1>1, ImagesAdd, ImageOfOne DEF Stands
<1>3. /\ IsCount(bag (+) One(ns)) /\ DOMAIN (bag (+) One(ns)) = DOMAIN bag \cup {ns}
      /\ CountIn(bag (+) One(ns), Nat) = CountIn(bag, Nat) + 1
  <2>1. IsCount(bag) /\ IsCount(One(ns)) /\ Tally(bag) /\ Tally(One(ns)) /\ DOMAIN One(ns) = {ns} /\ CountIn(One(ns), Nat) = 1
    BY CountOfOne DEF Stands, Image, IsCount
  <2>2. /\ IsCount(bag (+) One(ns)) /\ DOMAIN (bag (+) One(ns)) = DOMAIN bag \cup DOMAIN One(ns)
        /\ \A P : CountIn(bag (+) One(ns), P) = CountIn(bag, P) + CountIn(One(ns), P)
    BY <2>1, CountsAdd
  <2> QED BY <2>1, <2>2
<1>4. g.count = Size(bag (+) One(ns))
  BY <1>1, <1>3, SizeIs DEF Stands, Image
<1>5. Extremes(g, bag (+) One(ns))
  <2>1. CASE h.count = 0
    <3>1. DOMAIN bag = {}
      BY <2>1, SizeIs DEF Stands, Image
    <3> QED BY <1>1, <1>3, <2>1, <3>1 DEF Extremes
  <2>2. CASE h.count # 0
    <3>1. DOMAIN bag # {} /\ DOMAIN bag \subseteq Nat
      BY <2>2, SizeIs DEF Stands, Image, IsCount, Tally
    <3>2. h.min \in DOMAIN bag /\ h.max \in DOMAIN bag /\ \A x \in DOMAIN bag : h.min <= x /\ x <= h.max
      BY <3>1 DEF Stands, Extremes
    <3>3. g.min = (IF h.min <= ns THEN h.min ELSE ns) /\ g.max = (IF h.max >= ns THEN h.max ELSE ns)
      <4>1. h.min \in Int /\ h.max \in Int /\ ns \in Int
        BY <3>1, <3>2
      <4> QED BY <1>1, <2>2, <4>1, MinMaxOfTwo
    <3> HIDE DEF g
    <3> QED BY <1>3, <3>1, <3>2, <3>3 DEF Extremes
  <2> QED BY <2>1, <2>2
<1>6. g.sum = SumOf(bag (+) One(ns))
  <2>1. Tally(bag) /\ Tally(One(ns)) /\ h.sum = SumOf(bag)
    BY CountOfOne DEF Stands, Image, IsCount
  <2> QED BY <1>1, <2>1, SumsAdd, SumOfOne
<1> QED BY <1>2, <1>4, <1>5, <1>6 DEF Stands

LEMMA MergedStands ==
  ASSUME NEW loose \in BOOLEAN, NEW h, NEW bag, Stands(loose, h, bag),
         NEW other, NEW more, Stands(loose, other, more), other.count > 0
  PROVE  Stands(loose, Merged(h, other), bag (+) more)
<1> DEFINE g == Merged(h, other)
<1>1. /\ g.count = h.count + other.count /\ g.sum = h.sum + other.sum
      /\ g.buckets = h.buckets (+) other.buckets
      /\ g.min = (IF h.count = 0 THEN other.min ELSE Min({h.min, other.min}))
      /\ g.max = (IF h.count = 0 THEN other.max ELSE Max({h.max, other.max}))
  <2>1. other.count # 0
    BY SizeIs DEF Stands, Image
  <2> QED BY <2>1 DEF Merged
<1>2. Image(loose, g.buckets, bag (+) more)
  BY <1>1, ImagesAdd DEF Stands
<1>3. /\ IsCount(bag (+) more) /\ DOMAIN (bag (+) more) = DOMAIN bag \cup DOMAIN more
      /\ CountIn(bag (+) more, Nat) = CountIn(bag, Nat) + CountIn(more, Nat)
  <2>1. IsCount(bag) /\ IsCount(more) /\ Tally(bag) /\ Tally(more)
    BY DEF Stands, Image, IsCount
  <2> QED BY <2>1, CountsAdd
<1>4. g.count = Size(bag (+) more)
  BY <1>1, <1>3, SizeIs DEF Stands, Image
<1>5. Extremes(g, bag (+) more)
  <2>1. DOMAIN more # {} /\ DOMAIN more \subseteq Nat
    <3>1. IsCount(more) /\ Size(more) # 0
      BY SizeIs DEF Stands, Image
    <3> QED BY <3>1, SizeIs DEF IsCount, Tally
  <2>2. /\ other.min \in DOMAIN more /\ other.max \in DOMAIN more
        /\ \A x \in DOMAIN more : other.min <= x /\ x <= other.max
    BY <2>1 DEF Stands, Extremes
  <2>3. CASE h.count = 0
    <3>1. DOMAIN bag = {}
      BY <2>3, SizeIs DEF Stands, Image
    <3> QED BY <1>1, <1>3, <2>2, <2>3, <3>1 DEF Extremes
  <2>4. CASE h.count # 0
    <3>1. DOMAIN bag # {} /\ DOMAIN bag \subseteq Nat
      BY <2>4, SizeIs DEF Stands, Image, IsCount, Tally
    <3>2. h.min \in DOMAIN bag /\ h.max \in DOMAIN bag /\ \A x \in DOMAIN bag : h.min <= x /\ x <= h.max
      BY <3>1 DEF Stands, Extremes
    <3>3. /\ g.min = (IF h.min <= other.min THEN h.min ELSE other.min)
          /\ g.max = (IF h.max >= other.max THEN h.max ELSE other.max)
      <4>1. h.min \in Int /\ h.max \in Int /\ other.min \in Int /\ other.max \in Int
        BY <2>1, <2>2, <3>1, <3>2
      <4> QED BY <1>1, <2>4, <4>1, MinMaxOfTwo
    <3> HIDE DEF g
    <3> QED BY <1>3, <2>1, <2>2, <3>1, <3>2, <3>3 DEF Extremes
  <2> QED BY <2>3, <2>4
<1>6. g.sum = SumOf(bag (+) more)
  <2>1. Tally(bag) /\ Tally(more) /\ h.sum = SumOf(bag) /\ other.sum = SumOf(more)
    BY DEF Stands, Image, IsCount
  <2> QED BY <1>1, <2>1, SumsAdd
<1> QED BY <1>2, <1>4, <1>5, <1>6 DEF Stands

\* What stands exactly stands loosely.
LEMMA StandsAnyhow ==
  ASSUME NEW h, NEW bag, Stands(FALSE, h, bag), NEW loose \in BOOLEAN
  PROVE  Stands(loose, h, bag)
<1>1. ASSUME NEW j \in Nat PROVE CountIn(bag, Under(Up(FALSE, j))) <= CountIn(bag, Under(Up(loose, j)))
  <2>1. \A x \in Nat : x \in Under(Up(FALSE, j)) => x \in Under(Up(loose, j))
    BY IndexType DEF Under, Up
  <2>2. IsCount(bag) /\ DOMAIN bag \subseteq Nat
    BY DEF Stands, Image, IsCount, Tally
  <2> QED BY <2>1, <2>2, CountGrows
<1>2. \A P : CountIn(bag, P) \in Nat /\ CountIn(h.buckets, P) \in Nat
  BY CopiesAre DEF Stands, Image, IsCount
<1>3. ASSUME NEW j \in Nat
      PROVE  /\ CountIn(bag, Under(j)) <= CountIn(h.buckets, Low(j))
             /\ CountIn(h.buckets, Low(j)) <= CountIn(bag, Under(Up(loose, j)))
  <2>1. /\ CountIn(bag, Under(j)) <= CountIn(h.buckets, Low(j))
        /\ CountIn(h.buckets, Low(j)) <= CountIn(bag, Under(Up(FALSE, j)))
    BY DEF Stands, Image
  <2>2. CountIn(bag, Under(Up(FALSE, j))) <= CountIn(bag, Under(Up(loose, j)))
    BY <1>1
  <2> DEFINE x == CountIn(h.buckets, Low(j))   y == CountIn(bag, Under(Up(FALSE, j)))
             z == CountIn(bag, Under(Up(loose, j)))
  <2>3. x \in Nat /\ y \in Nat /\ z \in Nat
    BY <1>2
  <2>4. x <= y /\ y <= z
    BY <2>1, <2>2
  <2> HIDE DEF x, y, z
  <2>5. x <= z
    BY <2>3, <2>4
  <2> QED BY <2>1, <2>5 DEF x, z
<1> QED BY <1>3 DEF Stands, Image


\* What is at a rank, where there is something.
IsAtRank(bag, rank, d) == /\ d \in DOMAIN bag /\ UpTo(bag, d) >= rank
                          /\ \A x \in DOMAIN bag : UpTo(bag, x) >= rank => d <= x

LEMMA RankIs ==
  ASSUME NEW bag, IsCount(bag), NEW rank, NEW d, IsAtRank(bag, rank, d)
  PROVE  AtRank(bag, rank) = d
<1> DEFINE T == {i \in BagToSet(bag) : UpTo(bag, i) >= rank}
<1>1. d \in T /\ \A x \in T : d <= x
  BY DEF IsAtRank, BagToSet
<1>2. T \subseteq Nat
  BY DEF IsCount, Tally, BagToSet
<1> HIDE DEF T
<1>3. \A c \in T : (\A x \in T : c <= x) => c = d
  BY <1>1, <1>2
<1>4. Min(T) = d
  BY <1>1, <1>3 DEF Min
<1> QED BY <1>4 DEF AtRank, T

LEMMA UpToIs ==
  ASSUME NEW bag, IsCount(bag), NEW i \in Nat
  PROVE  UpTo(bag, i) = CountIn(bag, Low(i)) /\ UpTo(bag, i) \in Nat
<1>1. {c \in Copies(bag) : c[1] <= i} = CopiesOf(bag, Low(i))
  <2>1. \A c \in Copies(bag) : c[1] \in Nat
    BY CopiesAre DEF IsCount, Tally
  <2> QED BY <2>1 DEF CopiesOf, Low
<1> QED BY <1>1, CopiesAre DEF IsCount, UpTo, CountIn

\* Where a bag has so many up to some number, it has one at that rank.
LEMMA RankExists ==
  ASSUME NEW bag, IsCount(bag), NEW rank \in Nat, rank >= 1,
         NEW top \in Nat, CountIn(bag, Low(top)) >= rank
  PROVE  \E d \in DOMAIN bag : IsAtRank(bag, rank, d) /\ d <= top
<1> DEFINE T == {i \in Nat : CountIn(bag, Low(i)) >= rank}
<1>1. DOMAIN bag \subseteq Nat /\ \A P : CountIn(bag, P) \in Nat
  BY CopiesAre DEF IsCount, Tally
<1>2. PICK d \in T : \A x \in T : d <= x
  <2>1. T \in SUBSET Nat /\ T # {}
    OBVIOUS
  <2> HIDE DEF T
  <2> QED BY <2>1, LeastOf
<1>3. d \in DOMAIN bag
  <2> SUFFICES ASSUME d \notin DOMAIN bag PROVE FALSE
    OBVIOUS
  <2>1. CASE d = 0
    <3>1. CopiesOf(bag, Low(0)) = {}
      BY <1>1, <2>1, CopiesAre DEF CopiesOf, Low, IsCount
    <3>2. CountIn(bag, Low(0)) = 0
      BY <3>1, FS_EmptySet DEF CountIn
    <3> QED BY <1>2, <2>1, <3>2
  <2>2. CASE d # 0
    <3>1. d - 1 \in Nat /\ \A x \in DOMAIN bag : x \in Low(d) => x \in Low(d - 1)
      BY <1>1, <1>2, <2>2 DEF Low
    <3>2. CountIn(bag, Low(d)) <= CountIn(bag, Low(d - 1))
      BY <3>1, CountGrows
    <3>3. d - 1 \in T
      BY <1>1, <1>2, <3>1, <3>2
    <3> QED BY <1>2, <3>3
  <2> QED BY <2>1, <2>2
<1>4. \A x \in DOMAIN bag : UpTo(bag, x) = CountIn(bag, Low(x))
  BY <1>1, UpToIs
<1> QED BY <1>1, <1>2, <1>3, <1>4 DEF IsAtRank

\* The bucket at a rank is the one of the duration at that rank, or near it.
LEMMA SameRank ==
  ASSUME NEW loose \in BOOLEAN, NEW buckets, NEW bag, Image(loose, buckets, bag),
         NEW rank \in Nat, rank >= 1, NEW d, IsAtRank(bag, rank, d)
  PROVE  \E j \in Nat : /\ IsAtRank(buckets, rank, j)
                       /\ j <= BucketIndex(d) /\ BucketIndex(d) <= Up(loose, j)
<1> DEFINE i == BucketIndex(d)
<1>1. /\ IsCount(bag) /\ IsCount(buckets) /\ DOMAIN bag \subseteq Nat /\ DOMAIN buckets \subseteq Nat
      /\ \A P : CountIn(bag, P) \in Nat /\ CountIn(buckets, P) \in Nat
  BY CopiesAre DEF Image, IsCount, Tally
<1>2. d \in Nat /\ i \in Nat /\ CountIn(bag, Low(d)) >= rank
  <2>1. d \in DOMAIN bag /\ d \in Nat /\ UpTo(bag, d) >= rank
    BY <1>1 DEF IsAtRank
  <2> QED BY <1>1, <2>1, UpToIs, IndexType
<1>3. CountIn(buckets, Low(i)) >= rank
  <2>1. \A x \in Nat : x \in Low(d) => x \in Under(i)
    BY <1>2, IndexGrows DEF Low, Under
  <2>2. CountIn(bag, Low(d)) <= CountIn(bag, Under(i))
    BY <1>1, <2>1, CountGrows
  <2>3. CountIn(bag, Under(i)) <= CountIn(buckets, Low(i))
    BY <1>2 DEF Image
  <2> QED BY <1>1, <1>2, <2>2, <2>3
<1>4. PICK j \in DOMAIN buckets : IsAtRank(buckets, rank, j) /\ j <= i
  BY <1>1, <1>2, <1>3, RankExists
<1>5. j \in Nat /\ Up(loose, j) \in Nat /\ CountIn(bag, Under(Up(loose, j))) >= rank
  <2>1. j \in Nat /\ CountIn(buckets, Low(j)) >= rank
    BY <1>1, <1>4, UpToIs DEF IsAtRank
  <2>2. CountIn(buckets, Low(j)) <= CountIn(bag, Under(Up(loose, j)))
    BY <2>1 DEF Image
  <2> QED BY <1>1, <2>1, <2>2 DEF Up
<1>6. ASSUME Up(loose, j) < i PROVE FALSE
  <2>1. \A x \in Nat : x \in Under(Up(loose, j)) => x < d
    <3> SUFFICES ASSUME NEW x \in Nat, BucketIndex(x) <= Up(loose, j), d <= x PROVE FALSE
      BY <1>2 DEF Under
    <3>1. i <= BucketIndex(x) /\ BucketIndex(x) \in Nat
      BY <1>2, IndexGrows, IndexType
    <3> QED BY <1>2, <1>5, <1>6, <3>1
  <2>2. CASE d = 0
    <3>1. CopiesOf(bag, Under(Up(loose, j))) = {}
      BY <1>1, <2>1, <2>2, CopiesAre DEF CopiesOf, IsCount
    <3>2. CountIn(bag, Under(Up(loose, j))) = 0
      BY <3>1, FS_EmptySet DEF CountIn
    <3> QED BY <1>5, <3>2
  <2>3. CASE d # 0
    <3>1. d - 1 \in Nat /\ \A x \in Nat : x \in Under(Up(loose, j)) => x \in Low(d - 1)
      BY <1>2, <2>1, <2>3 DEF Low
    <3>2. CountIn(bag, Under(Up(loose, j))) <= CountIn(bag, Low(d - 1))
      BY <1>1, <3>1, CountGrows
    <3>3. CountIn(bag, Low(d - 1)) >= rank
      BY <1>1, <1>5, <3>2
    <3>4. PICK e \in DOMAIN bag : IsAtRank(bag, rank, e) /\ e <= d - 1
      BY <1>1, <3>1, <3>3, RankExists
    <3> QED BY <1>1, <1>2, <3>4 DEF IsAtRank
  <2> QED BY <2>2, <2>3
<1> QED BY <1>2, <1>4, <1>5, <1>6

LEMMA RankType ==
  ASSUME NEW q \in Quantiles, NEW n \in Nat, n > 0
  PROVE  Rank(q, n) \in Nat /\ Rank(q, n) >= 1 /\ Rank(q, n) <= n
<1> DEFINE k == (q * n + 99) \div 100
<1>1. q \in {50, 95, 99}
  BY DEF Quantiles
<1>2. k \in Nat /\ k <= n
  BY <1>1
<1> HIDE DEF k
<1>3. Rank(q, n) = IF 1 >= k THEN 1 ELSE k
  <2>1. Rank(q, n) = Max({1, k})
    BY DEF Rank, k
  <2> QED BY <2>1, <1>2, MinMaxOfTwo
<1> QED BY <1>2, <1>3

LEMMA SmallBuckets == \A i \in 0..15 : BucketBounds(i) = <<i, i + 1>> /\ Midpoint(i) = i
<1> SUFFICES ASSUME NEW i \in 0..15 PROVE BucketBounds(i) = <<i, i + 1>> /\ Midpoint(i) = i
  OBVIOUS
<1>1. BucketBounds(i) = <<i, i + 1>>
  <2>1. CASE i < 8
    BY <2>1 DEF BucketBounds
  <2>2. CASE i >= 8
    <3>1. (i - 8) \div 8 = 0 /\ (i - 8) % 8 = i - 8 /\ 2^0 = 1
      BY <2>2
    <3>2. BucketBounds(i) = <<(8 + ((i - 8) % 8)) * 2^((i - 8) \div 8), (9 + ((i - 8) % 8)) * 2^((i - 8) \div 8)>>
      BY <2>2 DEF BucketBounds
    <3>3. BucketBounds(i) = <<(8 + (i - 8)) * 1, (9 + (i - 8)) * 1>>
      BY <3>1, <3>2
    <3> QED BY <3>3
  <2> QED BY <2>1, <2>2
<1> QED BY <1>1 DEF Midpoint

\* For any durations: a percentile read from the histogram of them is that of
\* the durations themselves to within a sixteenth; of one that may be a bucket
\* too low below 16 ns, to within a nanosecond if that is more.
THEOREM PercentilesArePrecise ==
  ASSUME NEW loose \in BOOLEAN, NEW h, NEW bag, Stands(loose, h, bag), h.count > 0, NEW q \in Quantiles
  PROVE  /\ 16 * Error(h, bag, q) <= Exact(bag, q) \/ (loose /\ Error(h, bag, q) <= 1)
         /\ Percentile(h, q) \in Nat /\ Exact(bag, q) \in Nat
<1> DEFINE r == Rank(q, h.count)
<1>1. IsCount(bag) /\ IsCount(h.buckets) /\ h.count = Size(bag) /\ h.count \in Nat /\ DOMAIN bag # {}
  <2>1. IsCount(bag) /\ IsCount(h.buckets) /\ h.count = Size(bag)
    BY DEF Stands, Image
  <2>2. Size(bag) \in Nat /\ (Size(bag) = 0 <=> DOMAIN bag = {})
    BY <2>1, SizeIs
  <2>3. Size(bag) # 0
    BY <2>1, <2>2
  <2> QED BY <2>1, <2>2, <2>3, Zenon
<1>2. /\ DOMAIN bag \subseteq Nat /\ h.min \in DOMAIN bag /\ h.max \in DOMAIN bag
      /\ \A x \in DOMAIN bag : h.min <= x /\ x <= h.max
  BY <1>1 DEF Stands, Extremes, IsCount, Tally
<1>3. r \in Nat /\ r >= 1 /\ r <= Size(bag)
  BY <1>1, RankType
<1> HIDE DEF r
<1>4. PICK d \in DOMAIN bag : IsAtRank(bag, r, d)
  <2>1. h.max \in Nat /\ \A x \in DOMAIN bag : x \in Nat => x \in Low(h.max)
    BY <1>2 DEF Low
  <2>2. CountIn(bag, Nat) <= CountIn(bag, Low(h.max)) /\ CountIn(bag, Low(h.max)) \in Nat
    BY <1>1, <2>1, CountGrows
  <2>3. CountIn(bag, Low(h.max)) >= r
    BY <1>1, <1>3, <2>2, SizeIs
  <2> QED BY <1>1, <1>3, <2>1, <2>3, RankExists
<1>5. d \in Nat /\ AtRank(bag, r) = d
  BY <1>1, <1>2, <1>4, RankIs
<1>6. PICK j \in Nat : /\ AtRank(h.buckets, r) = j
                       /\ j <= BucketIndex(d) /\ BucketIndex(d) <= Up(loose, j)
  <2>1. PICK j \in Nat : /\ IsAtRank(h.buckets, r, j)
                         /\ j <= BucketIndex(d) /\ BucketIndex(d) <= Up(loose, j)
    BY <1>3, <1>4, SameRank DEF Stands
  <2> QED BY <1>1, <2>1, RankIs
<1>7. Exact(bag, q) = d
  BY <1>1, <1>5 DEF Exact, r
<1> DEFINE m == Midpoint(j)
<1>8. m \in Nat /\ (16 * AbsDiff(m, d) <= d \/ (loose /\ AbsDiff(m, d) <= 1))
  <2>1. CASE j = BucketIndex(d)
    <3>1. Midpoint(BucketIndex(d)) \in Nat /\ 16 * AbsDiff(Midpoint(BucketIndex(d)), d) <= d
      BY <1>5, BucketsArePrecise
    <3> QED BY <2>1, <3>1
  <2>2. CASE j # BucketIndex(d)
    <3>1. loose /\ j < 15 /\ BucketIndex(d) = j + 1
      BY <1>5, <1>6, <2>2, IndexType DEF Up
    <3>2. m = j
      BY <3>1, SmallBuckets
    <3>3. d = j + 1
      <4>1. BucketBounds(j + 1) = <<j + 1, j + 2>>
        <5>1. j + 1 \in 0..15 /\ (j + 1) + 1 = j + 2
          BY <3>1
        <5> QED BY <5>1, SmallBuckets
      <4>2. j + 1 <= d /\ d < j + 2
        BY <1>5, <3>1, <4>1, BucketsArePrecise
      <4> QED BY <1>5, <4>2
    <3> QED BY <3>1, <3>2, <3>3 DEF AbsDiff
  <2> QED BY <2>1, <2>2
<1>9. Percentile(h, q) = Min({h.max, Max({h.min, m})})
  BY <1>6 DEF Percentile, Midpoint, r
<1> HIDE DEF m
<1>10. h.min \in Nat /\ h.max \in Nat /\ h.min <= d /\ d <= h.max
  BY <1>2
<1> DEFINE top == IF h.min >= m THEN h.min ELSE m
<1>11. top \in Nat /\ Max({h.min, m}) = top
  <2>1. h.min \in Int /\ m \in Int
    BY <1>8, <1>10
  <2>2. Max({h.min, m}) = top
    BY <2>1, MinMaxOfTwo
  <2> QED BY <2>2, <1>8, <1>10
<1>12. Percentile(h, q) = IF h.max <= top THEN h.max ELSE top
  <2>1. Percentile(h, q) = Min({h.max, top})
    BY <1>9, <1>11
  <2> HIDE DEF top
  <2>2. h.max \in Int /\ top \in Int
    BY <1>10, <1>11
  <2> QED BY <2>1, <2>2, MinMaxOfTwo
<1>13. Percentile(h, q) \in Nat /\ AbsDiff(Percentile(h, q), d) <= AbsDiff(m, d)
  BY <1>5, <1>8, <1>10, <1>11, <1>12 DEF AbsDiff
<1>14. AbsDiff(m, d) \in Nat /\ AbsDiff(Percentile(h, q), d) \in Nat
  BY <1>5, <1>8, <1>13 DEF AbsDiff
<1>15. Error(h, bag, q) = AbsDiff(Percentile(h, q), d)
  BY <1>7 DEF Error
<1> QED BY <1>5, <1>7, <1>8, <1>13, <1>14, <1>15
-----------------------------------------------------------------------------
(* The latency of an operation: over OTLP *)

LEMMA InBucket ==
  ASSUME NEW i \in Nat
  PROVE  LET lo == BucketBounds(i)[1]   hi == BucketBounds(i)[2]
         IN /\ lo \in Nat /\ hi \in Nat /\ i <= lo /\ lo < hi
            /\ i > 15 => lo + 2 <= hi
            /\ \A x \in Nat : lo <= x /\ x < hi => BucketIndex(x) = i
<1>1. CASE i < 8
  <2>1. BucketBounds(i) = <<i, i + 1>>
    BY <1>1, SmallBuckets
  <2> QED BY <1>1, <2>1, IndexType
<1>2. CASE i >= 8
  <2> DEFINE k == (i - 8) \div 8   s == (i - 8) % 8   p == 2^k
  <2>1. k \in Nat /\ s \in 0..7 /\ i = 8 + 8 * k + s
    BY <1>2
  <2>2. p \in Nat /\ p > k
    BY <2>1, PowerStep, PowersGrow
  <2>3. BucketBounds(i) = <<(8 + s) * p, (9 + s) * p>>
    BY <1>2 DEF BucketBounds
  <2> HIDE DEF k, s
  <2>4. i > 15 => p >= 2
    <3> SUFFICES ASSUME i > 15 PROVE p >= 2
      OBVIOUS
    <3>1. k >= 1
      BY <2>1
    <3> QED BY <2>1, <2>2, <3>1
  <2>5. ASSUME NEW x \in Nat, (8 + s) * p <= x, x < (9 + s) * p
        PROVE  BucketIndex(x) = i
    <3> DEFINE b == BitLength(x)   q == 2^(b - 4)
    <3>1. 8 * p <= x /\ x < 16 * p /\ x \div p = 8 + s /\ x >= 8
      <4> HIDE DEF p
      <4>1. 8 * p <= x /\ x < 16 * p
        BY <2>1, <2>2, <2>5
      <4>2. x \div p = 8 + s
        <5>1. (9 + s) * p = (8 + s) * p + p
          BY <2>1, <2>2
        <5> QED BY <2>1, <2>2, <2>5, <5>1
      <4>3. p >= 1
        BY <2>1, <2>2
      <4> QED BY <2>2, <4>1, <4>2, <4>3
    <3>2. b \in Nat /\ b >= 4 /\ q \in Nat /\ 8 * q <= x /\ x < 16 * q
      BY <3>1, BitLengthIs
    <3> HIDE DEF b
    <3>3. b - 4 = k
      <4> DEFINE c == b - 4
      <4>1. c \in Nat /\ 2^c = q /\ 2^(c + 1) = 2 * q /\ 2^(k + 1) = 2 * p
        BY <3>2, <2>1, PowerStep
      <4> HIDE DEF p, q, c
      <4>2. ~(c < k)
        <5> SUFFICES ASSUME c < k PROVE FALSE
          OBVIOUS
        <5>1. c + 1 \in 0..k /\ k \in Nat
          BY <2>1, <4>1
        <5>2. 2^(c + 1) <= 2^k
          BY <5>1, PowersGrow
        <5>3. 2 * q <= p
          BY <4>1, <5>2 DEF p
        <5> QED BY <2>2, <3>1, <3>2, <5>3
      <4>3. ~(k < c)
        <5> SUFFICES ASSUME k < c PROVE FALSE
          OBVIOUS
        <5>1. k + 1 \in 0..c /\ c \in Nat
          BY <2>1, <4>1
        <5>2. 2^(k + 1) <= 2^c
          BY <5>1, PowersGrow
        <5>3. 2 * p <= q
          BY <4>1, <5>2
        <5> QED BY <2>2, <3>1, <3>2, <5>3
      <4> QED BY <2>1, <4>1, <4>2, <4>3 DEF c
    <3>4. BucketIndex(x) = 8 + 8 * (b - 4) + ((x \div 2^(b - 4)) % 8)
      BY <3>1 DEF BucketIndex, b
    <3>5. BucketIndex(x) = 8 + 8 * k + ((x \div p) % 8)
      BY <3>3, <3>4
    <3>6. (x \div p) % 8 = s
      <4>1. (8 + s) % 8 = s
        BY <2>1
      <4> QED BY <3>1, <4>1
    <3> HIDE DEF p
    <3> QED BY <2>1, <3>5, <3>6
  <2> HIDE DEF p
  <2>6. (8 + s) * p \in Nat /\ (9 + s) * p = (8 + s) * p + p
    BY <2>1, <2>2
  <2>7. i <= (8 + s) * p
    <3>1. 8 + 8 * k + s <= (8 + s) * (k + 1)
      BY <2>1
    <3>2. (8 + s) * (k + 1) <= (8 + s) * p
      BY <2>1, <2>2
    <3> QED BY <2>1, <2>6, <3>1, <3>2
  <2> QED BY <2>1, <2>2, <2>3, <2>4, <2>5, <2>6, <2>7
<1> QED BY <1>1, <1>2

\* Where what the bucket holds is put by the receiver.
Landed(i) == BucketIndex(HalfEven((BucketBounds(i)[1] - 1) + (BucketBounds(i)[2] - 1)))

LEMMA LandsNear ==
  ASSUME NEW i \in Nat
  PROVE  Landed(i) \in Nat /\ Landed(i) <= i /\ i <= Up(TRUE, Landed(i))
<1> DEFINE lo == BucketBounds(i)[1]   hi == BucketBounds(i)[2]   n == (lo - 1) + (hi - 1)
<1>1. /\ lo \in Nat /\ hi \in Nat /\ lo < hi /\ (i > 15 => lo + 2 <= hi)
      /\ \A x \in Nat : lo <= x /\ x < hi => BucketIndex(x) = i
  BY InBucket
<1>2. i <= 15 => lo = i /\ hi = i + 1
  BY SmallBuckets
<1>3. Landed(i) = BucketIndex(HalfEven(n))
  BY DEF Landed
<1> HIDE DEF lo, hi
<1>4. HalfEven(n) = n \div 2 \/ HalfEven(n) = n \div 2 + 1
  BY DEF HalfEven
<1>5. CASE i > 15
  <2>1. HalfEven(n) \in Nat /\ lo <= HalfEven(n) /\ HalfEven(n) < hi
    BY <1>1, <1>4, <1>5
  <2> QED BY <1>1, <1>3, <2>1 DEF Up
<1>6. CASE i \in 1..15
  <2>1. HalfEven(n) = i - 1 \/ HalfEven(n) = i
    BY <1>2, <1>4, <1>6
  <2>2. BucketIndex(i) = i
    BY <1>1, <1>2, <1>6
  <2>3. BucketIndex(i - 1) = i - 1
    <3>1. i - 1 \in 0..15 /\ i - 1 \in Nat
      BY <1>6
    <3>2. BucketBounds(i - 1)[1] = i - 1 /\ BucketBounds(i - 1)[2] = (i - 1) + 1
      BY <3>1, SmallBuckets
    <3> QED BY <3>1, <3>2, InBucket
  <2>4. Landed(i) = i - 1 \/ Landed(i) = i
    BY <1>3, <2>1, <2>2, <2>3
  <2> QED BY <1>6, <2>4 DEF Up
<1>7. CASE i = 0
  <2>1. HalfEven(n) = 0
    BY <1>2, <1>7 DEF HalfEven
  <2> QED BY <1>3, <1>7, <2>1, IndexType DEF Up
<1>8. i > 15 \/ i \in 1..15 \/ i = 0
  OBVIOUS
<1> QED BY <1>5, <1>6, <1>7, <1>8, Zenon

LEMMA BoundsGrow == \A i, j \in Nat : i < j => BucketBounds(i)[2] <= BucketBounds(j)[1]
<1> SUFFICES ASSUME NEW i \in Nat, NEW j \in Nat, i < j PROVE BucketBounds(i)[2] <= BucketBounds(j)[1]
  OBVIOUS
<1> DEFINE last == BucketBounds(i)[2] - 1   first == BucketBounds(j)[1]
<1>1. last \in Nat /\ BucketIndex(last) = i
  <2>1. /\ BucketBounds(i)[1] \in Nat /\ BucketBounds(i)[2] \in Nat /\ BucketBounds(i)[1] < BucketBounds(i)[2]
        /\ \A x \in Nat : BucketBounds(i)[1] <= x /\ x < BucketBounds(i)[2] => BucketIndex(x) = i
    BY InBucket
  <2>2. last \in Nat /\ BucketBounds(i)[1] <= last /\ last < BucketBounds(i)[2]
    BY <2>1
  <2> QED BY <2>1, <2>2
<1>2. first \in Nat /\ BucketIndex(first) = j
  BY InBucket
<1>3. BucketBounds(i)[2] \in Nat
  BY InBucket
<1>4. last < first
  <2> HIDE DEF last, first
  <2> SUFFICES ASSUME first <= last PROVE FALSE
    BY <1>1, <1>2
  <2>1. BucketIndex(first) <= BucketIndex(last)
    BY <1>1, <1>2, IndexGrows
  <2> QED BY <1>1, <1>2, <2>1
<1> QED BY <1>2, <1>3, <1>4

\* sorted() of any finite set of numbers.
LEMMA OrderedIs ==
  ASSUME NEW S \in SUBSET Nat, IsFiniteSet(S)
  PROVE  LET order == Ordered(S)
         IN /\ Len(order) = Cardinality(S) /\ Len(order) \in Nat
            /\ \A k \in 1..Len(order) : order[k] \in S
            /\ \A k, l \in 1..Len(order) : k < l => order[k] < order[l]
            /\ \A x \in S : \E k \in 1..Len(order) : x = order[k]
<1> DEFINE order == Ordered(S)   n == Cardinality(S)
           below(x) == {y \in S : y < x}   r(x) == Cardinality(below(x))
<1>1. n \in Nat /\ Len(order) = n
  <2>1. n \in Nat
    BY FS_CardinalityType
  <2> QED BY <2>1 DEF Ordered
<1>2. \A x : IsFiniteSet(below(x)) /\ r(x) \in Nat
  BY FS_Subset, FS_CardinalityType
<1>3. \A x, y \in S : x < y => r(x) < r(y)
  <2> SUFFICES ASSUME NEW x \in S, NEW y \in S, x < y PROVE r(x) < r(y)
    OBVIOUS
  <2>1. below(x) \subseteq below(y) /\ x \in below(y) /\ x \notin below(x)
    <3>1. x \in Nat /\ y \in Nat /\ \A z \in S : z \in Nat
      OBVIOUS
    <3>2. \A z \in S : z < x => z < y
      BY <3>1
    <3>3. \A z \in below(x) : z \in below(y)
      BY <3>2
    <3>4. x \in below(y) /\ x \notin below(x)
      BY <3>1
    <3> HIDE DEF below
    <3> QED BY <3>3, <3>4
  <2>2. r(x) <= r(y) /\ (r(x) = r(y) => below(x) = below(y))
    BY <1>2, <2>1, FS_Subset
  <2> HIDE DEF below
  <2> QED BY <1>2, <2>1, <2>2
<1>4. \A x \in S : r(x) \in 0..(n - 1)
  <2> SUFFICES ASSUME NEW x \in S PROVE r(x) \in 0..(n - 1)
    OBVIOUS
  <2>1. below(x) \subseteq S /\ x \notin below(x)
    OBVIOUS
  <2>2. r(x) <= n /\ (r(x) = n => below(x) = S)
    BY <2>1, FS_Subset
  <2> HIDE DEF below
  <2> QED BY <1>1, <1>2, <2>1, <2>2
<1> HIDE DEF r
<1>5. \A m \in 0..(n - 1) : \E x \in S : r(x) = m
  <2> DEFINE R == {r(x) : x \in S}   f == [x \in S |-> r(x)]
  <2>1. f \in Bijection(S, R)
    <3>1. \A x, y \in S : f[x] = f[y] => x = y
      <4> SUFFICES ASSUME NEW x \in S, NEW y \in S, r(x) = r(y) PROVE x = y
        OBVIOUS
      <4>1. x \in Nat /\ y \in Nat /\ r(x) \in Nat /\ r(y) \in Nat
        BY <1>2
      <4> QED BY <4>1, <1>3
    <3>2. f \in [S -> R] /\ \A t \in R : \E x \in S : f[x] = t
      OBVIOUS
    <3> HIDE DEF f
    <3> QED BY <3>1, <3>2 DEF Bijection, Injection, Surjection, IsInjective
  <2>2. IsFiniteSet(R) /\ Cardinality(R) = n
    BY <2>1, FS_Bijection DEF ExistsBijection
  <2>3. IsFiniteSet(0..(n - 1)) /\ Cardinality(0..(n - 1)) = n
    <3>1. 0 \in Int /\ n - 1 \in Int
      BY <1>1
    <3>2. IsFiniteSet(0..(n - 1)) /\ Cardinality(0..(n - 1)) = IF 0 > n - 1 THEN 0 ELSE (n - 1) - 0 + 1
      BY <3>1, FS_Interval
    <3> QED BY <1>1, <3>2
  <2>4. R \subseteq 0..(n - 1)
    BY <1>4
  <2>5. R = 0..(n - 1)
    BY <2>2, <2>3, <2>4, FS_Subset
  <2> QED BY <2>5
<1>6. \A k \in 1..n : order[k] \in S /\ r(order[k]) = k - 1
  <2> SUFFICES ASSUME NEW k \in 1..n PROVE order[k] \in S /\ r(order[k]) = k - 1
    OBVIOUS
  <2>1. \E x \in S : r(x) = k - 1
    BY <1>1, <1>5
  <2>2. order[k] = CHOOSE x \in S : r(x) = k - 1
    BY DEF Ordered, r
  <2> QED BY <2>1, <2>2
<1> HIDE DEF order
<1>7. \A k, l \in 1..n : k < l => order[k] < order[l]
  <2> SUFFICES ASSUME NEW k \in 1..n, NEW l \in 1..n, k < l PROVE order[k] < order[l]
    OBVIOUS
  <2>1. /\ order[k] \in S /\ order[l] \in S /\ order[k] \in Nat /\ order[l] \in Nat
        /\ r(order[k]) = k - 1 /\ r(order[l]) = l - 1
    BY <1>6
  <2>2. order[l] < order[k] => r(order[l]) < r(order[k])
    BY <1>3, <2>1
  <2>3. order[l] # order[k]
    BY <1>1, <2>1
  <2> QED BY <1>1, <2>1, <2>2, <2>3
<1>8. \A x \in S : \E k \in 1..n : x = order[k]
  <2> SUFFICES ASSUME NEW x \in S PROVE \E k \in 1..n : x = order[k]
    OBVIOUS
  <2>1. r(x) + 1 \in 1..n /\ (r(x) + 1) - 1 = r(x)
    BY <1>1, <1>2, <1>4
  <2>2. order[r(x) + 1] \in S /\ r(order[r(x) + 1]) = r(x)
    BY <1>6, <2>1
  <2>3. order[r(x) + 1] = x
    <3>1. x \in Nat /\ order[r(x) + 1] \in Nat
      BY <2>2
    <3>2. x < order[r(x) + 1] => r(x) < r(order[r(x) + 1])
      BY <1>3, <2>2
    <3>3. order[r(x) + 1] < x => r(order[r(x) + 1]) < r(x)
      BY <1>3, <2>2
    <3>4. r(x) \in Nat
      BY <1>2
    <3>5. ~(x < order[r(x) + 1]) /\ ~(order[r(x) + 1] < x)
      BY <2>2, <3>2, <3>3, <3>4
    <3> QED BY <3>1, <3>5
  <2> QED BY <2>1, <2>3
<1> QED BY <1>1, <1>6, <1>7, <1>8 DEF order

\* What a bag has of one number more.
LEMMA CountWithOneMore ==
  ASSUME NEW bag, IsCount(bag), NEW i \in DOMAIN bag, NEW P, i \notin P
  PROVE  CountIn(bag, P \cup {i}) = CountIn(bag, P) + bag[i] /\ bag[i] \in Nat \ {0}
<1> DEFINE X == CopiesOf(bag, P)   Y == {i} \X (1..bag[i])
<1>1. bag[i] \in Nat \ {0}
  BY DEF IsCount, Tally
<1>2. IsFiniteSet(Y) /\ Cardinality(Y) = bag[i]
  <2>1. IsFiniteSet(1..bag[i]) /\ Cardinality(1..bag[i]) = bag[i]
    BY <1>1, FS_Interval
  <2>2. IsFiniteSet({i}) /\ Cardinality({i}) = 1
    BY FS_Singleton
  <2>3. IsFiniteSet(Y) /\ Cardinality(Y) = 1 * bag[i]
    <3>1. PICK A, B : A = {i} /\ B = 1..bag[i]
      OBVIOUS
    <3>2. IsFiniteSet(A \X B) /\ Cardinality(A \X B) = Cardinality(A) * Cardinality(B)
      BY <2>1, <2>2, <3>1, FS_Product
    <3> QED BY <2>1, <2>2, <3>1, <3>2
  <2> HIDE DEF Y
  <2> QED BY <1>1, <2>3
<1>3. CopiesOf(bag, P \cup {i}) = X \cup Y
  BY CopiesAre DEF CopiesOf, IsCount
<1>4. X \cap Y = {}
  BY DEF CopiesOf
<1>5. IsFiniteSet(X) /\ Cardinality(X) \in Nat
  BY CopiesAre DEF IsCount, CountIn
<1> HIDE DEF X, Y
<1>6. Cardinality(X \cup Y) = Cardinality(X) + Cardinality(Y) - 0
  BY <1>2, <1>4, <1>5, FS_Union, FS_EmptySet
<1>7. CountIn(bag, P \cup {i}) = Cardinality(X \cup Y) /\ CountIn(bag, P) = Cardinality(X)
  BY <1>3 DEF CountIn, X
<1> QED BY <1>1, <1>2, <1>5, <1>6, <1>7

\* The loop of explicit_buckets() and that of the receiver are what their
\* recursive definitions say.
LEMMA PairsAre ==
  ASSUME NEW h, NEW order, order = Ordered(BagToSet(h.buckets)), Len(order) \in Nat
  PROVE  \E f : /\ \A k \in 0..Len(order) : f[k] = IF k = 0 THEN <<>> ELSE WithBucket(h, f[k - 1], order[k])
               /\ ExplicitBuckets(h) = f[Len(order)]
<1> DEFINE Loop(f, n) == f = [k \in 0..n |-> IF k = 0 THEN <<>> ELSE WithBucket(h, f[k - 1], order[k])]
           T == {n \in Nat : ~\E f : Loop(f, n)}
<1>1. \E f : Loop(f, 0)
  <2> DEFINE f == [k \in 0..0 |-> <<>>]
  <2>1. f = [k \in 0..0 |-> IF k = 0 THEN <<>> ELSE WithBucket(h, f[k - 1], order[k])]
    OBVIOUS
  <2> QED BY <2>1
<1>2. ASSUME NEW n \in Nat, NEW f, Loop(f, n) PROVE \E g : Loop(g, n + 1)
  <2> DEFINE g == [k \in 0..(n + 1) |-> IF k = n + 1 THEN WithBucket(h, f[n], order[n + 1]) ELSE f[k]]
             next == [k \in 0..(n + 1) |-> IF k = 0 THEN <<>> ELSE WithBucket(h, g[k - 1], order[k])]
  <2>1. ASSUME NEW k \in 0..(n + 1) PROVE g[k] = next[k]
    <3>1. CASE k = n + 1
      <4>1. g[n] = f[n] /\ n + 1 # 0 /\ k - 1 = n
        BY <3>1
      <4> QED BY <3>1, <4>1
    <3>2. CASE k \in 0..n
      <4>1. f[k] = IF k = 0 THEN <<>> ELSE WithBucket(h, f[k - 1], order[k])
        BY <1>2, <3>2
      <4>2. k # 0 => g[k - 1] = f[k - 1]
        BY <3>2
      <4>3. g[k] = f[k]
        BY <3>2
      <4> QED BY <4>1, <4>2, <4>3
    <3> QED BY <3>1, <3>2
  <2>2. g = next
    <3>1. g = [k \in 0..(n + 1) |-> g[k]] /\ next = [k \in 0..(n + 1) |-> next[k]]
      OBVIOUS
    <3> HIDE DEF g, next
    <3> QED BY <2>1, <3>1
  <2>3. Loop(g, n + 1)
    BY <2>2
  <2> QED BY <2>3
<1> HIDE DEF Loop
<1>3. T = {}
  <2> SUFFICES ASSUME T # {} PROVE FALSE
    OBVIOUS
  <2>1. PICK n \in T : \A m \in T : n <= m
    BY LeastOf
  <2>2. n \in Nat /\ n # 0 /\ ~\E f : Loop(f, n)
    BY <1>1
  <2>3. n - 1 \in Nat /\ \E f : Loop(f, n - 1)
    BY <2>1, <2>2
  <2>4. \E g : Loop(g, (n - 1) + 1)
    BY <2>3, <1>2
  <2>5. (n - 1) + 1 = n
    BY <2>2
  <2> QED BY <2>2, <2>4, <2>5
<1>4. PICK f : f = CHOOSE g : Loop(g, Len(order))
  OBVIOUS
<1>5. Loop(f, Len(order))
  BY <1>3, <1>4
<1>6. f = [k \in 0..Len(order) |-> IF k = 0 THEN <<>> ELSE WithBucket(h, f[k - 1], order[k])]
  BY <1>5 DEF Loop
<1>7. ExplicitBuckets(h) = f[Len(order)]
  BY <1>4 DEF ExplicitBuckets, Loop
<1> QED BY <1>6, <1>7

LEMMA LandingsAre ==
  ASSUME NEW pairs, Len(pairs) \in Nat
  PROVE  \E f : /\ \A k \in 0..Len(pairs) : f[k] = IF k = 0 THEN EmptyBag ELSE f[k - 1] (+) Landing(pairs, k)
               /\ Received(pairs) = f[Len(pairs)]
<1> DEFINE Loop(f, n) == f = [k \in 0..n |-> IF k = 0 THEN EmptyBag ELSE f[k - 1] (+) Landing(pairs, k)]
           T == {n \in Nat : ~\E f : Loop(f, n)}
<1>1. \E f : Loop(f, 0)
  <2> DEFINE f == [k \in 0..0 |-> EmptyBag]
  <2>1. f = [k \in 0..0 |-> IF k = 0 THEN EmptyBag ELSE f[k - 1] (+) Landing(pairs, k)]
    OBVIOUS
  <2> QED BY <2>1
<1>2. ASSUME NEW n \in Nat, NEW f, Loop(f, n) PROVE \E g : Loop(g, n + 1)
  <2> DEFINE g == [k \in 0..(n + 1) |-> IF k = n + 1 THEN f[n] (+) Landing(pairs, n + 1) ELSE f[k]]
             next == [k \in 0..(n + 1) |-> IF k = 0 THEN EmptyBag ELSE g[k - 1] (+) Landing(pairs, k)]
  <2>1. ASSUME NEW k \in 0..(n + 1) PROVE g[k] = next[k]
    <3>1. CASE k = n + 1
      <4>1. g[n] = f[n] /\ n + 1 # 0 /\ k - 1 = n
        BY <3>1
      <4> QED BY <3>1, <4>1
    <3>2. CASE k \in 0..n
      <4>1. f[k] = IF k = 0 THEN EmptyBag ELSE f[k - 1] (+) Landing(pairs, k)
        BY <1>2, <3>2
      <4>2. k # 0 => g[k - 1] = f[k - 1]
        BY <3>2
      <4>3. g[k] = f[k]
        BY <3>2
      <4> QED BY <4>1, <4>2, <4>3
    <3> QED BY <3>1, <3>2
  <2>2. g = next
    <3>1. g = [k \in 0..(n + 1) |-> g[k]] /\ next = [k \in 0..(n + 1) |-> next[k]]
      OBVIOUS
    <3> HIDE DEF g, next
    <3> QED BY <2>1, <3>1
  <2>3. Loop(g, n + 1)
    BY <2>2
  <2> QED BY <2>3
<1> HIDE DEF Loop
<1>3. T = {}
  <2> SUFFICES ASSUME T # {} PROVE FALSE
    OBVIOUS
  <2>1. PICK n \in T : \A m \in T : n <= m
    BY LeastOf
  <2>2. n \in Nat /\ n # 0 /\ ~\E f : Loop(f, n)
    BY <1>1
  <2>3. n - 1 \in Nat /\ \E f : Loop(f, n - 1)
    BY <2>1, <2>2
  <2>4. \E g : Loop(g, (n - 1) + 1)
    BY <2>3, <1>2
  <2>5. (n - 1) + 1 = n
    BY <2>2
  <2> QED BY <2>2, <2>4, <2>5
<1>4. PICK f : f = CHOOSE g : Loop(g, Len(pairs))
  OBVIOUS
<1>5. Loop(f, Len(pairs))
  BY <1>3, <1>4
<1>6. f = [k \in 0..Len(pairs) |-> IF k = 0 THEN EmptyBag ELSE f[k - 1] (+) Landing(pairs, k)]
  BY <1>5 DEF Loop
<1>7. Received(pairs) = f[Len(pairs)]
  BY <1>4 DEF Received, Loop
<1> QED BY <1>6, <1>7

Pairs == Seq([bound : Int, n : Nat])

\* A pair more in the data point.
LEMMA ReceivedGrows ==
  ASSUME NEW pairs \in Pairs, NEW p \in [bound : Int, n : Nat], pairs # <<>> => pairs[1].n = 0
  PROVE  Received(Append(pairs, p)) = Received(pairs) (+) Landing(Append(pairs, p), Len(pairs) + 1)
<1> DEFINE more == Append(pairs, p)   n == Len(pairs)
<1>1. /\ n \in Nat /\ Len(more) = n + 1 /\ more \in Pairs
      /\ \A k \in 1..n : more[k] = pairs[k]
  BY DEF Pairs
<1> HIDE DEF more
<1>2. PICK f : /\ \A k \in 0..n : f[k] = IF k = 0 THEN EmptyBag ELSE f[k - 1] (+) Landing(pairs, k)
               /\ Received(pairs) = f[n]
  BY <1>1, LandingsAre
<1>3. PICK g : /\ \A k \in 0..(n + 1) : g[k] = IF k = 0 THEN EmptyBag ELSE g[k - 1] (+) Landing(more, k)
               /\ Received(more) = g[n + 1]
  <2>1. Len(more) \in Nat
    BY <1>1
  <2> QED BY <1>1, <2>1, LandingsAre
<1>4. \A k \in 1..n : Landing(more, k) = Landing(pairs, k)
  <2> SUFFICES ASSUME NEW k \in 1..n PROVE Landing(more, k) = Landing(pairs, k)
    OBVIOUS
  <2>1. more[k] = pairs[k]
    BY <1>1
  <2>2. CASE k = 1
    <3>1. pairs # <<>>
      BY <1>1
    <3>2. pairs[k].n = 0
      BY <2>2, <3>1
    <3> QED BY <2>1, <3>2 DEF Landing
  <2>3. CASE k # 1
    <3>1. more[k - 1] = pairs[k - 1]
      BY <1>1, <2>3
    <3> QED BY <2>1, <3>1 DEF Landing
  <2> QED BY <2>2, <2>3
<1>5. \A k \in 0..n : f[k] = g[k]
  <2> DEFINE T == {k \in 0..n : f[k] # g[k]}
  <2> SUFFICES ASSUME T # {} PROVE FALSE
    OBVIOUS
  <2>1. PICK k \in T : \A m \in T : k <= m
    <3>1. T \in SUBSET Nat
      BY <1>1
    <3> HIDE DEF T
    <3> QED BY <3>1, LeastOf
  <2>2. k \in 0..n /\ f[k] # g[k]
    OBVIOUS
  <2>3. k # 0
    BY <1>1, <1>2, <1>3, <2>2
  <2>4. k - 1 \in 0..n /\ f[k - 1] = g[k - 1]
    BY <1>1, <2>1, <2>2, <2>3
  <2>5. f[k] = f[k - 1] (+) Landing(pairs, k) /\ g[k] = g[k - 1] (+) Landing(more, k)
    BY <1>1, <1>2, <1>3, <2>2, <2>3
  <2> QED BY <1>1, <1>4, <2>2, <2>3, <2>4, <2>5
<1>6. g[n + 1] = g[n] (+) Landing(more, n + 1)
  BY <1>1, <1>3
<1> QED BY <1>1, <1>2, <1>3, <1>5, <1>6 DEF more

LEMMA EmptyCounts == IsCount(EmptyBag) /\ \A P : CountIn(EmptyBag, P) = 0
<1>1. IsCount(EmptyBag) /\ DOMAIN EmptyBag = {}
  BY EmptyStands DEF Stands, Image, EmptyBag, SetToBag
<1>2. \A P : CopiesOf(EmptyBag, P) = {}
  BY <1>1, CopiesAre DEF CopiesOf, IsCount
<1> QED BY <1>1, <1>2, FS_EmptySet DEF CountIn

\* A bucket more: the gap before it holds nothing.
LEMMA WithBucketLands ==
  ASSUME NEW h, NEW i \in Nat, h.buckets[i] \in Nat \ {0},
         NEW pairs \in Pairs, IsCount(Received(pairs)),
         pairs # <<>> => pairs[1].n = 0 /\ pairs[Len(pairs)].bound <= BucketBounds(i)[1] - 1
  PROVE  LET more == WithBucket(h, pairs, i)
         IN /\ more \in Pairs /\ more # <<>> /\ more[1].n = 0
            /\ more[Len(more)].bound = BucketBounds(i)[2] - 1
            /\ IsCount(Received(more))
            /\ \A P : CountIn(Received(more), P)
                        = CountIn(Received(pairs), P) + IF Landed(i) \in P THEN h.buckets[i] ELSE 0
<1> DEFINE lo == BucketBounds(i)[1]   hi == BucketBounds(i)[2]
           g == [bound |-> lo - 1, n |-> 0]   p == [bound |-> hi - 1, n |-> h.buckets[i]]
           Pair == [bound : Int, n : Nat]
           qs == IF pairs = <<>> \/ pairs[Len(pairs)].bound < lo - 1 THEN Append(pairs, g) ELSE pairs
           more == WithBucket(h, pairs, i)
<1>1. lo \in Nat /\ hi \in Nat
  BY InBucket
<1>2. g \in Pair /\ g.n = 0 /\ g.bound = lo - 1 /\ p \in Pair /\ p.bound = hi - 1 /\ p.n = h.buckets[i]
  BY <1>1
<1>3. more = pairs \o (IF pairs = <<>> \/ pairs[Len(pairs)].bound < lo - 1 THEN <<g>> ELSE <<>>) \o <<p>>
  BY DEF WithBucket, Last
<1> HIDE DEF g, p, lo, hi
<1>4. pairs \in Seq(Pair)
  BY DEF Pairs
<1>5. more = Append(qs, p)
  <2>1. pairs \o <<g>> \o <<p>> = Append(Append(pairs, g), p) /\ pairs \o <<>> \o <<p>> = Append(pairs, p)
    <3>1. pairs \o <<g>> = Append(pairs, g) /\ pairs \o <<>> = pairs /\ Append(pairs, g) \in Seq(Pair)
      BY <1>2, <1>4
    <3> HIDE DEF Pair
    <3>2. Append(pairs, g) \o <<p>> = Append(Append(pairs, g), p) /\ pairs \o <<p>> = Append(pairs, p)
      BY <1>2, <1>4, <3>1
    <3> QED BY <3>1, <3>2
  <2> QED BY <1>3, <2>1
<1>6. /\ qs \in Seq(Pair) /\ qs # <<>> /\ Len(qs) \in Nat /\ Len(qs) > 0 /\ qs[1].n = 0
      /\ qs[Len(qs)].bound = lo - 1
      /\ IsCount(Received(qs)) /\ \A P : CountIn(Received(qs), P) = CountIn(Received(pairs), P)
  <2>1. CASE pairs = <<>> \/ pairs[Len(pairs)].bound < lo - 1
    <3>1. qs = Append(pairs, g)
      BY <2>1
    <3>2. /\ qs \in Seq(Pair) /\ Len(qs) = Len(pairs) + 1 /\ Len(pairs) \in Nat /\ qs[Len(pairs) + 1] = g
          /\ (pairs # <<>> => qs[1] = pairs[1]) /\ (pairs = <<>> => Len(pairs) = 0)
      <4> HIDE DEF Pair, qs
      <4> QED BY <3>1, <1>2, <1>4
    <3>3. Received(qs) = Received(pairs) (+) EmptyBag
      <4>1. Landing(qs, Len(pairs) + 1) = EmptyBag
        BY <3>2, <1>2 DEF Landing
      <4> QED BY <3>1, <4>1, <1>2, ReceivedGrows
    <3>4. IsCount(Received(qs)) /\ \A P : CountIn(Received(qs), P) = CountIn(Received(pairs), P)
      <4>1. \A P : CountIn(Received(pairs), P) \in Nat
        BY CopiesAre DEF IsCount
      <4>2. Tally(Received(pairs)) /\ Tally(EmptyBag) /\ IsCount(EmptyBag) /\ \A P : CountIn(EmptyBag, P) = 0
        BY EmptyCounts DEF IsCount
      <4>3. /\ IsCount(Received(qs))
            /\ \A P : CountIn(Received(qs), P) = CountIn(Received(pairs), P) + CountIn(EmptyBag, P)
        <5>1. /\ IsCount(Received(pairs) (+) EmptyBag)
              /\ \A P : CountIn(Received(pairs) (+) EmptyBag, P) = CountIn(Received(pairs), P) + CountIn(EmptyBag, P)
          BY <4>2, CountsAdd
        <5> HIDE DEF qs
        <5> QED BY <3>3, <5>1
      <4> QED BY <4>1, <4>2, <4>3
    <3>5. qs # <<>> /\ Len(qs) > 0 /\ qs[Len(qs)].bound = lo - 1 /\ qs[1].n = 0
      BY <3>2, <1>2
    <3> QED BY <3>2, <3>4, <3>5
  <2>2. CASE ~(pairs = <<>> \/ pairs[Len(pairs)].bound < lo - 1)
    <3>1. qs = pairs /\ Len(pairs) \in Nat /\ Len(pairs) > 0
      BY <2>2, <1>4
    <3>2. pairs[Len(pairs)].bound \in Int
      <4>1. pairs[Len(pairs)] \in Pair
        <5> HIDE DEF Pair
        <5> QED BY <3>1, <1>4
      <4> QED BY <4>1
    <3>3. pairs[Len(pairs)].bound = lo - 1
      BY <2>2, <3>2, <1>1 DEF lo
    <3> QED BY <2>2, <3>1, <3>3, <1>4
  <2> QED BY <2>1, <2>2
<1> HIDE DEF qs, more
<1>7. /\ more \in Seq(Pair) /\ Len(more) = Len(qs) + 1
      /\ \A k \in 1..Len(qs) : more[k] = qs[k]
      /\ more[Len(qs) + 1] = p
  BY <1>2, <1>5, <1>6
<1>8. Landing(more, Len(qs) + 1) = [y \in {Landed(i)} |-> h.buckets[i]]
  <2>1. more[Len(qs) + 1].n = h.buckets[i] /\ more[Len(qs) + 1].bound = hi - 1 /\ h.buckets[i] # 0
    BY <1>2, <1>7
  <2>2. more[(Len(qs) + 1) - 1].bound = lo - 1
    <3>1. Len(qs) \in Nat /\ Len(qs) > 0 /\ qs[Len(qs)].bound = lo - 1
      BY <1>6
    <3>2. (Len(qs) + 1) - 1 = Len(qs) /\ Len(qs) \in 1..Len(qs)
      BY <3>1
    <3>3. \A k \in 1..Len(qs) : more[k] = qs[k]
      BY <1>7
    <3> QED BY <3>1, <3>2, <3>3
  <2>3. Landed(i) = BucketIndex(HalfEven((lo - 1) + (hi - 1)))
    BY DEF Landed, lo, hi
  <2> QED BY <2>1, <2>2, <2>3 DEF Landing
<1>9. Received(more) = Received(qs) (+) [y \in {Landed(i)} |-> h.buckets[i]]
  <2>1. qs \in Pairs /\ p \in [bound : Int, n : Nat]
    BY <1>2, <1>6 DEF Pairs
  <2> QED BY <1>5, <1>6, <1>8, <2>1, ReceivedGrows
<1>10. /\ IsCount(Received(more))
       /\ \A P : CountIn(Received(more), P)
                   = CountIn(Received(pairs), P) + IF Landed(i) \in P THEN h.buckets[i] ELSE 0
  <2> DEFINE many == [y \in {Landed(i)} |-> h.buckets[i]]
  <2>1. IsCount(many) /\ \A P : CountIn(many, P) = IF Landed(i) \in P THEN h.buckets[i] ELSE 0
    <3>1. Landed(i) \in Nat
      BY LandsNear
    <3> QED BY <3>1, CountOfMany
  <2> HIDE DEF many
  <2>2. Tally(many) /\ Tally(Received(qs))
    BY <2>1, <1>6 DEF IsCount
  <2>3. /\ IsCount(Received(qs) (+) many)
        /\ \A P : CountIn(Received(qs) (+) many, P) = CountIn(Received(qs), P) + CountIn(many, P)
    <3>1. IsCount(Received(qs))
      BY <1>6
    <3> QED BY <2>1, <2>2, <3>1, CountsAdd
  <2>4. Received(more) = Received(qs) (+) many
    BY <1>9 DEF many
  <2> QED BY <1>6, <2>1, <2>3, <2>4
<1>11. more # <<>> /\ more[1].n = 0 /\ more[Len(more)].bound = hi - 1
  <2>1. more[1] = qs[1] /\ more[Len(more)] = p /\ Len(more) # 0
    BY <1>6, <1>7
  <2> HIDE DEF Pair
  <2> QED BY <1>2, <1>6, <1>7, <2>1
<1> QED BY <1>7, <1>10, <1>11 DEF more, hi, Pairs

\* A histogram after OTLP: the exact figures are those of the durations, and
\* what is below 16 ns may be a bucket too low.
LEMMA OverOTLPStands ==
  ASSUME NEW h, NEW bag, Stands(FALSE, h, bag)
  PROVE  Stands(TRUE, OverOTLP(h), bag)
<1> DEFINE B == h.buckets   order == Ordered(BagToSet(B))   n == Len(order)
           Seen(k) == {order[m] : m \in 1..k}
<1>1. IsCount(B) /\ Tally(B) /\ DOMAIN B \in SUBSET Nat /\ IsFiniteSet(DOMAIN B) /\ BagToSet(B) = DOMAIN B
  BY DEF Stands, Image, IsCount, Tally, BagToSet
<1>2. /\ n \in Nat
      /\ \A k \in 1..n : order[k] \in DOMAIN B
      /\ \A k, l \in 1..n : k < l => order[k] < order[l]
      /\ \A x \in DOMAIN B : \E k \in 1..n : x = order[k]
  BY <1>1, OrderedIs
<1>3. PICK f : /\ \A k \in 0..n : f[k] = IF k = 0 THEN <<>> ELSE WithBucket(h, f[k - 1], order[k])
               /\ ExplicitBuckets(h) = f[n]
  BY <1>2, PairsAre
<1> HIDE DEF order
<1>4. \A P : CountIn(B, P) \in Nat
  BY <1>1, CopiesAre
<1> HIDE DEF B
<1> DEFINE OK(k) ==
      /\ f[k] \in Pairs /\ (k = 0 => f[k] = <<>>)
      /\ k # 0 => f[k] # <<>> /\ f[k][1].n = 0 /\ f[k][Len(f[k])].bound = BucketBounds(order[k])[2] - 1
      /\ IsCount(Received(f[k]))
      /\ CountIn(Received(f[k]), Nat) = CountIn(B, Seen(k))
      /\ \A j \in Nat : /\ CountIn(B, Seen(k) \cap Low(j)) <= CountIn(Received(f[k]), Low(j))
                        /\ CountIn(Received(f[k]), Low(j)) <= CountIn(B, Seen(k) \cap Low(Up(TRUE, j)))
<1>5. OK(0)
  <2>1. f[0] = <<>> /\ <<>> \in Pairs
    BY <1>2, <1>3 DEF Pairs
  <2>2. Received(<<>>) = EmptyBag
    <3>1. Len(<<>>) = 0
      OBVIOUS
    <3>2. PICK e : /\ \A k \in 0..0 : e[k] = IF k = 0 THEN EmptyBag ELSE e[k - 1] (+) Landing(<<>>, k)
                   /\ Received(<<>>) = e[0]
      BY <3>1, LandingsAre
    <3> QED BY <3>2
  <2>3. Seen(0) = {} /\ \A P : Seen(0) \cap P = {}
    OBVIOUS
  <2>4. CountIn(B, {}) = 0
    <3>1. CopiesOf(B, {}) = {}
      BY DEF CopiesOf
    <3> QED BY <3>1, FS_EmptySet DEF CountIn
  <2>5. IsCount(EmptyBag) /\ \A P : CountIn(EmptyBag, P) = 0
    BY EmptyCounts
  <2> HIDE DEF Seen
  <2>6. Received(f[0]) = EmptyBag
    BY <2>1, <2>2
  <2>7. \A P : CountIn(B, Seen(0) \cap P) = 0
    BY <2>3, <2>4
  <2>8. CountIn(B, Seen(0)) = 0
    BY <2>3, <2>4
  <2>9. \A j \in Nat : /\ CountIn(B, Seen(0) \cap Low(j)) <= CountIn(Received(f[0]), Low(j))
                      /\ CountIn(Received(f[0]), Low(j)) <= CountIn(B, Seen(0) \cap Low(Up(TRUE, j)))
    <3> SUFFICES ASSUME NEW j \in Nat
                 PROVE  /\ CountIn(B, Seen(0) \cap Low(j)) <= CountIn(Received(f[0]), Low(j))
                        /\ CountIn(Received(f[0]), Low(j)) <= CountIn(B, Seen(0) \cap Low(Up(TRUE, j)))
      OBVIOUS
    <3>1. CountIn(B, Seen(0) \cap Low(j)) = 0 /\ CountIn(B, Seen(0) \cap Low(Up(TRUE, j))) = 0
      BY <2>7
    <3>2. CountIn(Received(f[0]), Low(j)) = 0
      BY <2>5, <2>6
    <3> QED BY <3>1, <3>2
  <2> QED BY <2>1, <2>5, <2>6, <2>8, <2>9
<1>6. ASSUME NEW k \in 1..n, OK(k - 1) PROVE OK(k)
  <2> DEFINE i == order[k]
  <2>1. i \in Nat /\ i \in DOMAIN B /\ i \notin Seen(k - 1) /\ Seen(k) = Seen(k - 1) \cup {i}
    <3>1. \A l \in 1..(k - 1) : l \in 1..n /\ order[l] < order[k] /\ order[l] \in Nat
      BY <1>1, <1>2
    <3>2. i \in Nat /\ i \in DOMAIN B
      BY <1>1, <1>2
    <3>3. 1..k = 1..(k - 1) \cup {k}
      BY <1>2
    <3> QED BY <3>1, <3>2, <3>3
  <2>2. \A Q : CountIn(B, Seen(k) \cap Q) = CountIn(B, Seen(k - 1) \cap Q) + IF i \in Q THEN B[i] ELSE 0
    <3> SUFFICES ASSUME NEW Q
                 PROVE  CountIn(B, Seen(k) \cap Q) = CountIn(B, Seen(k - 1) \cap Q) + IF i \in Q THEN B[i] ELSE 0
      OBVIOUS
    <3>1. CASE i \in Q
      <4>1. Seen(k) \cap Q = (Seen(k - 1) \cap Q) \cup {i} /\ i \notin Seen(k - 1) \cap Q
        BY <2>1, <3>1
      <4> QED BY <1>1, <2>1, <3>1, <4>1, CountWithOneMore
    <3>2. CASE i \notin Q
      <4>1. Seen(k) \cap Q = Seen(k - 1) \cap Q
        BY <2>1, <3>2
      <4>2. CountIn(B, Seen(k - 1) \cap Q) \in Nat
        BY <1>4
      <4> HIDE DEF Seen, i
      <4>3. CountIn(B, Seen(k) \cap Q) = CountIn(B, Seen(k - 1) \cap Q)
        BY <4>1
      <4> QED BY <3>2, <4>2, <4>3
    <3> QED BY <3>1, <3>2
  <2>3. B[i] \in Nat \ {0}
    BY <1>1, <2>1 DEF IsCount, Tally
  <2>4. k - 1 # 0 => f[k - 1][Len(f[k - 1])].bound <= BucketBounds(i)[1] - 1
    <3> SUFFICES ASSUME k - 1 # 0 PROVE BucketBounds(order[k - 1])[2] - 1 <= BucketBounds(i)[1] - 1
      BY <1>6
    <3>1. order[k - 1] \in Nat /\ order[k - 1] < i
      <4>1. k - 1 \in 1..n /\ k - 1 < k
        BY <1>2
      <4> QED BY <1>1, <1>2, <4>1
    <3>2. BucketBounds(order[k - 1])[2] <= BucketBounds(i)[1]
      BY <2>1, <3>1, BoundsGrow
    <3>3. BucketBounds(order[k - 1])[2] \in Nat /\ BucketBounds(i)[1] \in Nat
      BY <2>1, <3>1, InBucket
    <3> QED BY <3>2, <3>3
  <2>5. f[k] = WithBucket(h, f[k - 1], i)
    BY <1>2, <1>3
  <2>6. /\ f[k] \in Pairs /\ f[k] # <<>> /\ f[k][1].n = 0
        /\ f[k][Len(f[k])].bound = BucketBounds(i)[2] - 1
        /\ IsCount(Received(f[k]))
        /\ \A P : CountIn(Received(f[k]), P) = CountIn(Received(f[k - 1]), P) + IF Landed(i) \in P THEN B[i] ELSE 0
    <3>1. f[k - 1] # <<>> => k - 1 # 0
      BY <1>6
    <3>2. f[k - 1] \in Pairs /\ IsCount(Received(f[k - 1])) /\ (k - 1 # 0 => f[k - 1][1].n = 0)
      BY <1>6
    <3>3. h.buckets[i] \in Nat \ {0}
      BY <2>3 DEF B
    <3> HIDE DEF Seen, i
    <3>4. f[k - 1] # <<>> => /\ f[k - 1][1].n = 0
                             /\ f[k - 1][Len(f[k - 1])].bound <= BucketBounds(i)[1] - 1
      BY <2>4, <3>1, <3>2
    <3>5. LET more == WithBucket(h, f[k - 1], i)
          IN /\ more \in Pairs /\ more # <<>> /\ more[1].n = 0
             /\ more[Len(more)].bound = BucketBounds(i)[2] - 1
             /\ IsCount(Received(more))
             /\ \A P : CountIn(Received(more), P)
                         = CountIn(Received(f[k - 1]), P) + IF Landed(i) \in P THEN h.buckets[i] ELSE 0
      BY <2>1, <3>2, <3>3, <3>4, WithBucketLands
    <3> QED BY <2>5, <3>5 DEF B
  <2>7. Landed(i) \in Nat /\ Landed(i) <= i /\ i <= Up(TRUE, Landed(i))
    BY <2>1, LandsNear
  <2>8. \A P : CountIn(Received(f[k - 1]), P) \in Nat
    BY <1>6, CopiesAre DEF IsCount
  <2> HIDE DEF i
  <2>9. CountIn(Received(f[k]), Nat) = CountIn(B, Seen(k))
    <3>1. Seen(k) \cap Nat = Seen(k) /\ Seen(k - 1) \cap Nat = Seen(k - 1)
      <4>1. \A l \in 1..n : order[l] \in Nat
        BY <1>1, <1>2
      <4> QED BY <1>2, <4>1
    <3> HIDE DEF Seen
    <3>2. CountIn(B, Seen(k)) = CountIn(B, Seen(k - 1)) + B[i]
      BY <2>1, <2>2, <3>1
    <3>3. CountIn(Received(f[k]), Nat) = CountIn(Received(f[k - 1]), Nat) + B[i]
      BY <2>6, <2>7
    <3> QED BY <1>6, <3>2, <3>3
  <2>10. ASSUME NEW j \in Nat
         PROVE  /\ CountIn(B, Seen(k) \cap Low(j)) <= CountIn(Received(f[k]), Low(j))
                /\ CountIn(Received(f[k]), Low(j)) <= CountIn(B, Seen(k) \cap Low(Up(TRUE, j)))
    <3>1. i \in Low(j) => Landed(i) \in Low(j)
      BY <2>1, <2>7 DEF Low
    <3>2. Landed(i) \in Low(j) => i \in Low(Up(TRUE, j))
      BY <2>1, <2>7 DEF Low, Up
    <3> HIDE DEF Seen
    <3> DEFINE a == CountIn(B, Seen(k - 1) \cap Low(j))   c == CountIn(Received(f[k - 1]), Low(j))
               e == CountIn(B, Seen(k - 1) \cap Low(Up(TRUE, j)))
    <3>3. a \in Nat /\ c \in Nat /\ e \in Nat /\ a <= c /\ c <= e
      BY <1>4, <1>6, <2>8
    <3>4. /\ CountIn(B, Seen(k) \cap Low(j)) = a + IF i \in Low(j) THEN B[i] ELSE 0
          /\ CountIn(Received(f[k]), Low(j)) = c + IF Landed(i) \in Low(j) THEN B[i] ELSE 0
          /\ CountIn(B, Seen(k) \cap Low(Up(TRUE, j))) = e + IF i \in Low(Up(TRUE, j)) THEN B[i] ELSE 0
      BY <2>2, <2>6
    <3> HIDE DEF a, c, e
    <3>5. B[i] \in Nat
      BY <2>3
    <3> DEFINE x == IF i \in Low(j) THEN B[i] ELSE 0   y == IF Landed(i) \in Low(j) THEN B[i] ELSE 0
               z == IF i \in Low(Up(TRUE, j)) THEN B[i] ELSE 0
    <3>6. x \in Nat /\ y \in Nat /\ z \in Nat /\ x <= y /\ y <= z
      <4>1. CASE i \in Low(j)
        BY <3>1, <3>2, <3>5, <4>1
      <4>2. CASE i \notin Low(j) /\ Landed(i) \in Low(j)
        BY <3>2, <3>5, <4>2
      <4>3. CASE i \notin Low(j) /\ Landed(i) \notin Low(j)
        <5>1. x = 0 /\ y = 0 /\ (z = 0 \/ z = B[i])
          BY <4>3
        <5> HIDE DEF x, y, z
        <5> QED BY <3>5, <5>1
      <4> QED BY <4>1, <4>2, <4>3
    <3> HIDE DEF x, y, z
    <3>7. a + x <= c + y /\ c + y <= e + z
      BY <3>3, <3>6
    <3> QED BY <3>4, <3>7 DEF x, y, z
  <2> HIDE DEF Seen
  <2>11. k # 0 /\ BucketBounds(order[k])[2] = BucketBounds(i)[2]
    BY <1>2 DEF i
  <2> QED BY <2>6, <2>9, <2>10, <2>11
<1>7. OK(n)
  <2> DEFINE T == {k \in 0..n : ~OK(k)}
  <2> HIDE DEF OK
  <2>1. T = {}
    <3> SUFFICES ASSUME T # {} PROVE FALSE
      OBVIOUS
    <3>1. PICK k \in T : \A m \in T : k <= m
      <4>1. T \in SUBSET Nat
        BY <1>2
      <4> HIDE DEF T
      <4> QED BY <4>1, LeastOf
    <3>2. k \in 1..n /\ ~OK(k)
      BY <1>2, <1>5
    <3>3. k - 1 \in 0..n /\ OK(k - 1)
      BY <1>2, <3>1, <3>2
    <3> QED BY <1>6, <3>2, <3>3
  <2> QED BY <1>2, <2>1
<1> DEFINE R == Received(ExplicitBuckets(h))
<1>8. /\ IsCount(R) /\ CountIn(R, Nat) = CountIn(B, Nat)
      /\ \A j \in Nat : /\ CountIn(B, Low(j)) <= CountIn(R, Low(j))
                        /\ CountIn(R, Low(j)) <= CountIn(B, Low(Up(TRUE, j)))
  <2>1. \A P : CountIn(B, Seen(n) \cap P) = CountIn(B, P)
    <3>1. Seen(n) = DOMAIN B
      BY <1>2
    <3>2. \A P : CopiesOf(B, DOMAIN B \cap P) = CopiesOf(B, P)
      BY <1>1, CopiesAre DEF CopiesOf
    <3> QED BY <3>1, <3>2 DEF CountIn
  <2>2. Seen(n) = Seen(n) \cap Nat
    BY <1>1, <1>2
  <2> HIDE DEF Seen
  <2> QED BY <1>3, <1>7, <2>1, <2>2
<1> HIDE DEF R, OK
<1>9. Size(R) = Size(B)
  BY <1>1, <1>8, SizeIs
<1>10. ASSUME NEW j \in Nat
       PROVE  /\ CountIn(bag, Under(j)) <= CountIn(R, Low(j))
              /\ CountIn(R, Low(j)) <= CountIn(bag, Under(Up(TRUE, j)))
  <2>1. Up(TRUE, j) \in Nat /\ \A m : Up(FALSE, m) = m
    BY DEF Up
  <2>2. /\ CountIn(bag, Under(j)) <= CountIn(B, Low(j))
        /\ CountIn(B, Low(Up(TRUE, j))) <= CountIn(bag, Under(Up(TRUE, j)))
    BY <2>1 DEF Stands, Image, B
  <2>3. /\ CountIn(B, Low(j)) <= CountIn(R, Low(j))
        /\ CountIn(R, Low(j)) <= CountIn(B, Low(Up(TRUE, j)))
    BY <1>8
  <2> DEFINE a == CountIn(bag, Under(j))   b == CountIn(B, Low(j))   c == CountIn(R, Low(j))
             d == CountIn(B, Low(Up(TRUE, j)))   e == CountIn(bag, Under(Up(TRUE, j)))
  <2>4. a \in Nat /\ b \in Nat /\ c \in Nat /\ d \in Nat /\ e \in Nat
    <3>1. \A P : CountIn(R, P) \in Nat /\ CountIn(bag, P) \in Nat
      BY <1>8, CopiesAre DEF Stands, Image, IsCount
    <3> QED BY <1>4, <3>1
  <2>5. a <= b /\ b <= c /\ c <= d /\ d <= e
    BY <2>2, <2>3
  <2> HIDE DEF a, b, c, d, e
  <2>6. a <= c /\ c <= e
    BY <2>4, <2>5
  <2> QED BY <2>6 DEF a, c, e
<1>11. /\ OverOTLP(h).buckets = R /\ OverOTLP(h).count = Size(R) /\ OverOTLP(h).sum = h.sum
       /\ OverOTLP(h).min = h.min /\ OverOTLP(h).max = h.max
  BY DEF OverOTLP, R
<1>12. h.count = Size(bag) /\ h.sum = SumOf(bag) /\ IsCount(bag) /\ Size(B) = Size(bag) /\ Extremes(h, bag)
  BY DEF Stands, Image, B
<1>13. Extremes(OverOTLP(h), bag)
  BY <1>11, <1>12 DEF Extremes
<1> QED BY <1>8, <1>9, <1>10, <1>11, <1>12, <1>13 DEF Stands, Image

-----------------------------------------------------------------------------
(* The latency of an operation: what is stored and judged *)

StoredUpTo(k) == IF k = 0 THEN EmptyBag ELSE stored[k]

\* Of a row: what it adds to those before it.
RowOK(k) == \E bag : /\ Stands(converted, opStats[k], bag) /\ opStats[k].count > 0
                     /\ stored[k] = StoredUpTo(k - 1) (+) bag

LatencyInv ==
  /\ Stands(FALSE, hist, held)
  /\ opStats \in Seq(Range(opStats)) /\ stored \in Seq(Range(stored))
  /\ Len(stored) = Len(opStats) /\ converted \in BOOLEAN
  /\ \A k \in 1..Len(opStats) : RowOK(k)

\* The loop of _histograms() is what its recursive definition says.
LEMMA MergingIs ==
  ASSUME Len(opStats) \in Nat
  PROVE  \A k \in 0..Len(opStats) : Merging[k] = IF k = 0 THEN Empty ELSE Merged(Merging[k - 1], opStats[k])
<1> DEFINE Loop(f, n) == f = [k \in 0..n |-> IF k = 0 THEN Empty ELSE Merged(f[k - 1], opStats[k])]
           T == {n \in Nat : ~\E f : Loop(f, n)}
<1>1. \E f : Loop(f, 0)
  <2> DEFINE f == [k \in 0..0 |-> Empty]
  <2>1. f = [k \in 0..0 |-> IF k = 0 THEN Empty ELSE Merged(f[k - 1], opStats[k])]
    OBVIOUS
  <2> QED BY <2>1
<1>2. ASSUME NEW n \in Nat, NEW f, Loop(f, n) PROVE \E g : Loop(g, n + 1)
  <2> DEFINE g == [k \in 0..(n + 1) |-> IF k = n + 1 THEN Merged(f[n], opStats[n + 1]) ELSE f[k]]
             next == [k \in 0..(n + 1) |-> IF k = 0 THEN Empty ELSE Merged(g[k - 1], opStats[k])]
  <2>1. ASSUME NEW k \in 0..(n + 1) PROVE g[k] = next[k]
    <3>1. CASE k = n + 1
      <4>1. g[n] = f[n] /\ n + 1 # 0 /\ k - 1 = n
        BY <3>1
      <4> QED BY <3>1, <4>1
    <3>2. CASE k \in 0..n
      <4>1. f[k] = IF k = 0 THEN Empty ELSE Merged(f[k - 1], opStats[k])
        BY <1>2, <3>2
      <4>2. k # 0 => g[k - 1] = f[k - 1]
        BY <3>2
      <4>3. g[k] = f[k]
        BY <3>2
      <4> QED BY <4>1, <4>2, <4>3
    <3> QED BY <3>1, <3>2
  <2>2. g = next
    <3> DEFINE G(k) == IF k = n + 1 THEN Merged(f[n], opStats[n + 1]) ELSE f[k]
               N(k) == IF k = 0 THEN Empty ELSE Merged(g[k - 1], opStats[k])
    <3>1. g = [k \in 0..(n + 1) |-> g[k]] /\ next = [k \in 0..(n + 1) |-> next[k]]
      OBVIOUS
    <3> HIDE DEF g, next
    <3> QED BY <2>1, <3>1
  <2>3. Loop(g, n + 1)
    BY <2>2
  <2> QED BY <2>3
<1> HIDE DEF Loop
<1>3. T = {}
  <2> SUFFICES ASSUME T # {} PROVE FALSE
    OBVIOUS
  <2>1. PICK n \in T : \A m \in T : n <= m
    BY LeastOf
  <2>2. n \in Nat /\ n # 0 /\ ~\E f : Loop(f, n)
    BY <1>1
  <2>3. n - 1 \in Nat /\ \E f : Loop(f, n - 1)
    BY <2>1, <2>2
  <2>4. \E g : Loop(g, (n - 1) + 1)
    BY <2>3, <1>2
  <2>5. (n - 1) + 1 = n
    BY <2>2
  <2> QED BY <2>2, <2>4, <2>5
<1>4. \E f : Loop(f, Len(opStats))
  BY <1>3
<1>5. Merging = CHOOSE f : Loop(f, Len(opStats))
  BY DEF Merging, Loop
<1>6. Loop(Merging, Len(opStats))
  BY <1>4, <1>5
<1>7. Merging = [k \in 0..Len(opStats) |-> IF k = 0 THEN Empty ELSE Merged(Merging[k - 1], opStats[k])]
  BY <1>6 DEF Loop
<1> QED BY <1>7

\* The rows merged are the histogram of all the durations behind them.
LEMMA JudgedStands ==
  ASSUME LatencyInv
  PROVE  Stands(converted, Judged, Stored) /\ (opStats # <<>> => Judged.count > 0)
<1> DEFINE n == Len(opStats)
           OK(k) == Stands(converted, Merging[k], StoredUpTo(k)) /\ (k # 0 => Merging[k].count > 0)
           T == {k \in 0..n : ~OK(k)}
<1>1. n \in Nat /\ converted \in BOOLEAN /\ \A k \in 1..n : RowOK(k)
  BY DEF LatencyInv
<1>2. \A k \in 0..n : Merging[k] = IF k = 0 THEN Empty ELSE Merged(Merging[k - 1], opStats[k])
  BY <1>1, MergingIs
<1>3. OK(0)
  <2>1. Merging[0] = Empty
    BY <1>1, <1>2
  <2> QED BY <1>1, <2>1, EmptyStands DEF StoredUpTo
<1>4. ASSUME NEW k \in 1..n, OK(k - 1) PROVE OK(k)
  <2>1. PICK bag : /\ Stands(converted, opStats[k], bag) /\ opStats[k].count > 0
                   /\ stored[k] = StoredUpTo(k - 1) (+) bag
    BY <1>1 DEF RowOK
  <2>2. Merging[k] = Merged(Merging[k - 1], opStats[k]) /\ StoredUpTo(k) = StoredUpTo(k - 1) (+) bag
    BY <1>1, <1>2, <2>1 DEF StoredUpTo
  <2>3. Stands(converted, Merging[k], StoredUpTo(k))
    BY <1>1, <1>4, <2>1, <2>2, MergedStands
  <2>4. Merging[k].count > 0
    <3>1. Merging[k - 1].count \in Nat /\ opStats[k].count \in Nat
      <4>1. /\ IsCount(StoredUpTo(k - 1)) /\ Merging[k - 1].count = Size(StoredUpTo(k - 1))
            /\ IsCount(bag) /\ opStats[k].count = Size(bag)
        BY <1>4, <2>1 DEF Stands, Image
      <4> QED BY <4>1, SizeIs
    <3>2. Merging[k].count = Merging[k - 1].count + opStats[k].count
      BY <2>1, <2>2, <3>1 DEF Merged
    <3> QED BY <2>1, <3>1, <3>2
  <2> QED BY <2>3, <2>4
<1> HIDE DEF OK
<1>5. T = {}
  <2> SUFFICES ASSUME T # {} PROVE FALSE
    OBVIOUS
  <2>1. PICK k \in T : \A m \in T : k <= m
    <3>1. T \in SUBSET Nat
      BY <1>1
    <3> HIDE DEF T
    <3> QED BY <3>1, LeastOf
  <2>2. k \in 1..n /\ ~OK(k)
    BY <1>1, <1>3
  <2>3. k - 1 \in 0..n /\ OK(k - 1)
    BY <1>1, <2>1, <2>2
  <2> QED BY <2>2, <2>3, <1>4
<1>6. OK(n)
  BY <1>1, <1>5
<1>7. Judged = Merging[n] /\ Stored = StoredUpTo(n) /\ (opStats # <<>> => n # 0)
  BY <1>1 DEF Judged, Stored, StoredUpTo, LatencyInv
<1> QED BY <1>6, <1>7 DEF OK

LEMMA LatencyBegins == LatencyInit => LatencyInv
<1> SUFFICES ASSUME LatencyInit PROVE LatencyInv
  OBVIOUS
<1>1. hist = Empty /\ held = EmptyBag /\ opStats = <<>> /\ stored = <<>> /\ converted = FALSE
  BY DEF LatencyInit
<1>2. Stands(FALSE, hist, held)
  BY <1>1, EmptyStands
<1>3. opStats \in Seq(Range(opStats)) /\ stored \in Seq(Range(stored)) /\ Len(opStats) = 0 /\ Len(stored) = 0
  BY <1>1
<1>4. \A k \in 1..Len(opStats) : RowOK(k)
  BY <1>3
<1>5. converted \in BOOLEAN /\ Len(stored) = Len(opStats)
  BY <1>1, <1>3
<1> QED BY <1>2, <1>3, <1>4, <1>5 DEF LatencyInv

LEMMA Appended ==
  ASSUME NEW s, s \in Seq(Range(s)), NEW x
  PROVE  LET t == Append(s, x)
         IN /\ t \in Seq(Range(t)) /\ Len(t) = Len(s) + 1 /\ Len(s) \in Nat
            /\ \A k \in 1..Len(s) : t[k] = s[k]
            /\ t[Len(s) + 1] = x
<1> DEFINE t == Append(s, x)   S == Range(s) \cup {x}
<1>1. s \in Seq(S) /\ x \in S
  OBVIOUS
<1> HIDE DEF S
<1>2. t \in Seq(S) /\ Len(t) = Len(s) + 1 /\ Len(s) \in Nat
      /\ (\A k \in 1..Len(s) : t[k] = s[k]) /\ t[Len(s) + 1] = x
  BY <1>1
<1> HIDE DEF t
<1>3. t \in Seq(Range(t))
  <2>1. \A k \in 1..Len(t) : t[k] \in Range(t)
    BY <1>2 DEF Range
  <2>2. t = [k \in 1..Len(t) |-> t[k]]
    BY <1>2
  <2> QED BY <1>2, <2>1, <2>2
<1> QED BY <1>2, <1>3 DEF t

\* A row more, as it is or over OTLP.
LEMMA ShipKeeps ==
  ASSUME LatencyInv, NEW row, Ship(row), converted' \in BOOLEAN, converted => converted',
         Stands(converted', row, held)
  PROVE  LatencyInv'
<1>1. /\ hist.count > 0 /\ opStats' = Append(opStats, row) /\ stored' = Append(stored, Stored (+) held)
      /\ hist' = Empty /\ held' = EmptyBag
  BY DEF Ship
<1>2. /\ opStats \in Seq(Range(opStats)) /\ stored \in Seq(Range(stored)) /\ Len(stored) = Len(opStats)
      /\ converted \in BOOLEAN /\ Stands(FALSE, hist, held)
  BY DEF LatencyInv
<1>3. /\ opStats' \in Seq(Range(opStats')) /\ Len(opStats') = Len(opStats) + 1 /\ Len(opStats) \in Nat
      /\ \A k \in 1..Len(opStats) : opStats'[k] = opStats[k]
      /\ opStats'[Len(opStats) + 1] = row
  BY <1>1, <1>2, Appended
<1>4. /\ stored' \in Seq(Range(stored')) /\ Len(stored') = Len(stored) + 1
      /\ \A k \in 1..Len(stored) : stored'[k] = stored[k]
      /\ stored'[Len(stored) + 1] = Stored (+) held
  BY <1>1, <1>2, Appended
<1>5. Stands(FALSE, hist', held')
  BY <1>1, EmptyStands
<1>6. ASSUME NEW k \in 1..Len(opStats') PROVE RowOK(k)'
  <2>1. CASE k = Len(opStats) + 1
    <3>1. Stored = StoredUpTo(k - 1)'
      <4>1. k - 1 = Len(opStats)
        BY <2>1, <1>3
      <4>2. (stored = <<>>) <=> (Len(stored) = 0)
        BY <1>2
      <4>3. CASE Len(opStats) = 0
        BY <4>1, <4>2, <4>3, <1>2 DEF Stored, StoredUpTo
      <4>4. CASE Len(opStats) # 0
        <5>1. stored'[k - 1] = stored[k - 1]
          BY <4>1, <4>4, <1>2, <1>3, <1>4
        <5> QED BY <4>1, <4>2, <4>4, <5>1, <1>2 DEF Stored, StoredUpTo
      <4> QED BY <4>3, <4>4
    <3>2. opStats'[k] = row /\ stored'[k] = Stored (+) held
      BY <2>1, <1>2, <1>3, <1>4
    <3>3. row.count > 0
      BY <1>1, <1>2 DEF Stands
    <3> QED BY <3>1, <3>2, <3>3 DEF RowOK
  <2>2. CASE k \in 1..Len(opStats)
    <3>1. PICK bag : /\ Stands(converted, opStats[k], bag) /\ opStats[k].count > 0
                     /\ stored[k] = StoredUpTo(k - 1) (+) bag
      BY <2>2 DEF LatencyInv, RowOK
    <3>2. opStats'[k] = opStats[k] /\ stored'[k] = stored[k]
      BY <2>2, <1>2, <1>3, <1>4
    <3>3. StoredUpTo(k - 1)' = StoredUpTo(k - 1)
      <4>1. k - 1 # 0 => stored'[k - 1] = stored[k - 1]
        BY <2>2, <1>2, <1>3, <1>4
      <4> QED BY <4>1 DEF StoredUpTo
    <3>4. Stands(converted', opStats[k], bag)
      <4>1. CASE converted
        <5>1. converted' = converted
          BY <4>1, <1>2
        <5> QED BY <3>1, <5>1
      <4>2. CASE ~converted
        <5>1. Stands(FALSE, opStats[k], bag)
          BY <3>1, <4>2, <1>2
        <5> QED BY <5>1, StandsAnyhow
      <4> QED BY <4>1, <4>2
    <3> QED BY <3>1, <3>2, <3>3, <3>4 DEF RowOK
  <2> QED BY <1>3, <2>1, <2>2
<1> QED BY <1>1, <1>2, <1>3, <1>4, <1>5, <1>6 DEF LatencyInv

LEMMA ShipJSONKeeps ==
  ASSUME LatencyInv, ShipJSON
  PROVE  LatencyInv'
<1>1. Ship(hist) /\ converted' = converted /\ converted \in BOOLEAN /\ Stands(FALSE, hist, held)
  BY DEF ShipJSON, LatencyInv
<1>2. Stands(converted', hist, held) /\ converted' \in BOOLEAN
  BY <1>1, StandsAnyhow
<1> QED BY <1>1, <1>2, ShipKeeps

LEMMA ShipOTLPKeeps ==
  ASSUME LatencyInv, ShipOTLP
  PROVE  LatencyInv'
<1>1. Ship(OverOTLP(hist)) /\ converted' = TRUE /\ Stands(FALSE, hist, held)
  BY DEF ShipOTLP, LatencyInv
<1>2. Stands(converted', OverOTLP(hist), held)
  BY <1>1, OverOTLPStands
<1> QED BY <1>1, <1>2, ShipKeeps

LEMMA RecordCallKeeps ==
  ASSUME LatencyInv, NEW ns \in Durations, RecordCall(ns)
  PROVE  LatencyInv'
<1>1. Stands(FALSE, hist', held')
  <2>1. ns \in Nat
    BY LatencyAssumption
  <2>2. hist' = Recording(hist, ns) /\ held' = held (+) One(ns)
    BY DEF RecordCall
  <2> QED BY <2>1, <2>2, RecordingStands DEF LatencyInv
<1>2. opStats' = opStats /\ stored' = stored /\ converted' = converted
  BY DEF RecordCall
<1>3. \A k : RowOK(k)' <=> RowOK(k)
  BY <1>2 DEF RowOK, StoredUpTo
<1> QED BY <1>1, <1>2, <1>3 DEF LatencyInv

LEMMA LatencyStutters ==
  ASSUME LatencyInv, UNCHANGED latencyVars
  PROVE  LatencyInv'
<1>1. hist' = hist /\ opStats' = opStats /\ held' = held /\ stored' = stored /\ converted' = converted
  BY DEF latencyVars
<1>2. \A k : RowOK(k)' <=> RowOK(k)
  BY <1>1 DEF RowOK, StoredUpTo
<1> QED BY <1>1, <1>2 DEF LatencyInv

LEMMA FiguresStand ==
  ASSUME NEW loose \in BOOLEAN, NEW h, NEW bag, Stands(loose, h, bag)
  PROVE  FiguresExact(h, bag)
<1>1. IsCount(bag) /\ h.count = Size(bag) /\ h.sum = SumOf(bag)
  BY DEF Stands, Image
<1>2. Size(h.buckets) = Size(bag)
  BY DEF Stands, Image
<1>3. ASSUME h.count > 0 PROVE h.min = Min(BagToSet(bag)) /\ h.max = Max(BagToSet(bag))
  <2>1. DOMAIN bag # {} /\ DOMAIN bag \subseteq Nat
    <3>1. Size(bag) # 0
      BY <1>1, <1>3, SizeIs
    <3> QED BY <3>1, <1>1, SizeIs DEF IsCount, Tally
  <2>2. /\ h.min \in DOMAIN bag /\ h.max \in DOMAIN bag
        /\ \A x \in DOMAIN bag : h.min <= x /\ x <= h.max
    BY <2>1 DEF Stands, Extremes
  <2>3. \A c \in DOMAIN bag : /\ (\A x \in DOMAIN bag : c <= x) => c = h.min
                              /\ (\A x \in DOMAIN bag : c >= x) => c = h.max
    BY <2>1, <2>2
  <2> QED BY <2>2, <2>3 DEF Min, Max, BagToSet
<1> QED BY <1>1, <1>2, <1>3 DEF FiguresExact

\* A verdict that the precision may have turned is marked, or turned by the
\* nanosecond that OTLP may cost.
LEMMA GateHolds ==
  ASSUME LatencyInv
  PROVE  GateIsHonest
<1> SUFFICES ASSUME opStats # <<>>, NEW rule \in PercentileRules, Turned(rule)
             PROVE  \/ NearLimit(Judged, rule)
                    \/ converted /\ AbsDiff(Figure(Judged, rule.stat)[1], rule.limit) <= 1
  BY DEF GateIsHonest
<1> DEFINE q == QuantileOf(rule.stat)   e == Exact(Stored, q)   p == Percentile(Judged, q)
           limit == rule.limit   op == rule.op
<1>1. /\ rule.stat \in {"p50", "p95", "p99"} /\ op \in Operators /\ limit \in Nat
      /\ q \in Quantiles
  BY LatencyAssumption DEF PercentileRules, QuantileOf, Quantiles
<1>2. e \in Nat /\ p \in Nat /\ (16 * AbsDiff(p, e) <= e \/ (converted /\ AbsDiff(p, e) <= 1))
  <2>1. Stands(converted, Judged, Stored) /\ Judged.count > 0 /\ converted \in BOOLEAN
    BY JudgedStands DEF LatencyInv
  <2> QED BY <1>1, <2>1, PercentilesArePrecise DEF Error
<1>3. Figure(Judged, rule.stat) = <<p, 1>>
  BY <1>1 DEF Figure
<1>4. Holds(<<e, 1>>, op, limit) # Holds(<<p, 1>>, op, limit)
  BY <1>3 DEF Turned
<1> HIDE DEF p, e, limit, op
<1>5. \/ e <= limit /\ limit <= p
      \/ p <= limit /\ limit <= e
  BY <1>1, <1>2, <1>4 DEF Holds, Operators
<1>6. CASE 16 * AbsDiff(p, e) <= e
  <2>1. limit > 0
    <3> SUFFICES ASSUME limit = 0 PROVE FALSE
      BY <1>1
    <3>1. e = 0 <=> p = 0
      BY <1>2, <1>6 DEF AbsDiff
    <3> QED BY <1>1, <1>2, <1>4, <3>1 DEF Holds, Operators
  <2>2. 16 * AbsDiff(p, limit) <= limit
    BY <1>1, <1>2, <1>5, <1>6 DEF AbsDiff
  <2>3. Figure(Judged, rule.stat)[1] = p
    BY <1>3
  <2> QED BY <1>1, <2>1, <2>2, <2>3 DEF NearLimit, limit
<1>7. CASE converted /\ AbsDiff(p, e) <= 1
  <2>1. AbsDiff(p, limit) <= 1
    BY <1>1, <1>2, <1>5, <1>7 DEF AbsDiff
  <2> QED BY <1>3, <1>7, <2>1 DEF limit
<1> QED BY <1>2, <1>6, <1>7

\* For any durations, any number of calls and of rows, sent either way: count,
\* sum, minimum and maximum are exact, percentiles are within the precision
\* that is documented (within a nanosecond below 16 ns, after OTLP), and a
\* gate's verdict is that of the calls themselves, or is marked, or was turned
\* by that nanosecond (EveryHairMarked does not hold).
THEOREM GateVerdictsAreHonest == LatencySpec => []LatencyExact
<1>1. LatencyInv /\ [LatencyNext]_latencyVars => LatencyInv'
  BY RecordCallKeeps, ShipJSONKeeps, ShipOTLPKeeps, LatencyStutters DEF LatencyNext
<1>2. LatencyInv => LatencyExact
  <2> SUFFICES ASSUME LatencyInv PROVE LatencyExact
    OBVIOUS
  <2>1. Stands(FALSE, hist, held) /\ converted \in BOOLEAN
    BY DEF LatencyInv
  <2>2. Stands(converted, Judged, Stored) /\ (opStats # <<>> => Judged.count > 0)
    BY JudgedStands
  <2>3. LatencyTypeOK
    BY <2>1, <2>2, FiguresStand DEF LatencyTypeOK
  <2>4. hist.count > 0 => Precise(hist, held)
    BY <2>1, PercentilesArePrecise DEF Precise
  <2>5. opStats # <<>> /\ ~converted => Precise(Judged, Stored)
    BY <2>1, <2>2, PercentilesArePrecise DEF Precise
  <2>6. ConvertedPrecise
    BY <2>1, <2>2, PercentilesArePrecise DEF ConvertedPrecise
  <2> QED BY <2>3, <2>4, <2>5, <2>6, GateHolds DEF LatencyExact, LatencyFaithful, PercentilePrecise
<1> QED BY LatencyBegins, <1>1, <1>2, PTL DEF LatencySpec
=============================================================================
