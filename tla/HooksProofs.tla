----------------------------- MODULE HooksProofs -----------------------------
(***************************************************************************)
(* Proofs about Hooks, for any set of threads and of hooked functions and  *)
(* any number of calls of init().                                          *)
(***************************************************************************)
EXTENDS Hooks, TLAPS

\* Only a manager whose finder is in place, or that is being installed, waits
\* for imports: after uninstall() a late import finds nothing to patch.
FindersOK == \A g \in Managers : phase[g] \in {"none", "removing", "gone"} => finder[g] = {}

IInv == HooksTypeOK /\ PatchedExactly /\ NestedRecordedOnce /\ FindersOK

-----------------------------------------------------------------------------
(* Managers and modules *)

\* What a step of a manager or of an import must keep of the invariant.
Reports == {"not imported", "not available", "installed"}
ManagersTypeOK ==
  /\ cell \in 0..MaxInits /\ inits \in 0..MaxInits
  /\ phase \in [Managers -> Phases]
  /\ todo \in [Managers -> SUBSET Hooks] /\ finder \in [Managers -> SUBSET Hooks]
  /\ patched \in [Managers -> SUBSET Hooks]
  /\ status \in [Managers -> [Hooks -> Reports]]
  /\ import \in [Hooks -> {"no", "running", "done"}]
  /\ told \in [Hooks -> SUBSET Managers]
  /\ attr \in [Hooks -> {"absent", "original", "wrapper"}]
  /\ kept \subseteq Hooks
ManagersOK == ManagersTypeOK /\ PatchedExactly /\ FindersOK

\* The frames of the threads, the other half of the types.
Frames == [hook : Hooks, timed : BOOLEAN]
FramesOK == stack \in [Threads -> Seq(Frames)] /\ inside \subseteq Threads

LEMMA TypesSplit == HooksTypeOK <=> ManagersTypeOK /\ FramesOK
BY DEF HooksTypeOK, ManagersTypeOK, FramesOK, Frames, Reports

LEMMA TypesSplitAfter == (HooksTypeOK <=> ManagersTypeOK /\ FramesOK)'
BY TypesSplit, PTL

\* What PatchedExactly says of one function.
Once(h) ==
  /\ attr[h] = "wrapper" <=> \E g \in Managers : h \in patched[g]
  /\ \A f, g \in Managers : h \in patched[f] /\ h \in patched[g] => f = g
  /\ \A g \in Managers : h \in patched[g] => phase[g] \notin {"none", "gone"}

LEMMA PatchedOnce ==
  patched \in [Managers -> SUBSET Hooks] => (PatchedExactly <=> \A h \in Hooks : Once(h))
<1> SUFFICES ASSUME patched \in [Managers -> SUBSET Hooks]
             PROVE  PatchedExactly <=> \A h \in Hooks : Once(h)
  OBVIOUS
<1>1. ASSUME PatchedExactly, NEW h \in Hooks PROVE Once(h)
  <2>1. \A g \in Managers : h \in patched[g] => phase[g] \notin {"none", "gone"}
    BY <1>1 DEF PatchedExactly
  <2>2. \A f, g \in Managers : h \in patched[f] /\ h \in patched[g] => f = g
    BY <1>1 DEF PatchedExactly
  <2>3. attr[h] = "wrapper" <=> \E g \in Managers : h \in patched[g]
    BY <1>1 DEF PatchedExactly
  <2> QED BY <2>1, <2>2, <2>3 DEF Once
<1>2. ASSUME \A h \in Hooks : Once(h) PROVE PatchedExactly
  <2>1. \A f, g \in Managers : f # g => patched[f] \cap patched[g] = {}
    BY <1>2 DEF Once
  <2>2. \A g \in Managers : phase[g] \in {"none", "gone"} => patched[g] = {}
    BY <1>2 DEF Once
  <2> QED BY <1>2, <2>1, <2>2 DEF PatchedExactly, Once
<1> QED BY <1>1, <1>2

LEMMA PatchedOnceAfter ==
  (patched \in [Managers -> SUBSET Hooks] => (PatchedExactly <=> \A h \in Hooks : Once(h)))'
BY PatchedOnce, PTL

\* _install, by a manager whose uninstall() has not begun, patches a function
\* at most once.
LEMMA InstallKeeps ==
  ASSUME ManagersOK, NEW g \in Managers, NEW h \in Hooks, Install(g, h),
         phase[g] \notin {"none", "gone"}, UNCHANGED <<phase, inside, stack>>
  PROVE  /\ status' \in [Managers -> [Hooks -> Reports]]
         /\ attr' \in [Hooks -> {"absent", "original", "wrapper"}]
         /\ patched' \in [Managers -> SUBSET Hooks] /\ kept' \subseteq Hooks
         /\ PatchedExactly'
<1>1. status' \in [Managers -> [Hooks -> Reports]]
  <2>1. status[g] \in [Hooks -> Reports]
    BY DEF ManagersOK, ManagersTypeOK
  <2>2. PICK n \in Reports : status' = [status EXCEPT ![g] = [status[g] EXCEPT ![h] = n]]
    BY DEF Install, Reports
  <2>3. [status[g] EXCEPT ![h] = n] \in [Hooks -> Reports]
    BY <2>1
  <2> QED BY <2>2, <2>3 DEF ManagersOK, ManagersTypeOK
<1>2. /\ attr \in [Hooks -> {"absent", "original", "wrapper"}]
      /\ patched \in [Managers -> SUBSET Hooks] /\ kept \subseteq Hooks
  BY DEF ManagersOK, ManagersTypeOK
<1>3. \A x \in Hooks : Once(x)
  BY <1>2, PatchedOnce DEF ManagersOK
<1>4. CASE attr[h] = "original"
  <2>1. /\ attr' = [attr EXCEPT ![h] = "wrapper"]
        /\ patched' = [patched EXCEPT ![g] = @ \cup {h}]
        /\ kept' = kept \cup {h}
    BY <1>4 DEF Install
  <2>2. /\ attr' \in [Hooks -> {"absent", "original", "wrapper"}]
        /\ patched' \in [Managers -> SUBSET Hooks] /\ kept' \subseteq Hooks
    BY <1>2, <2>1
  <2>3. \A f \in Managers : h \notin patched[f]
    BY <1>3, <1>4 DEF Once
  <2>4. ASSUME NEW x \in Hooks PROVE Once(x)'
    BY <1>2, <1>3, <2>1, <2>3 DEF Once
  <2>5. PatchedExactly'
    BY <2>2, <2>4, PatchedOnceAfter
  <2> QED BY <1>1, <2>2, <2>5
<1>5. CASE attr[h] # "original"
  <2>1. UNCHANGED <<attr, patched, kept>>
    BY <1>5 DEF Install
  <2>2. PatchedExactly'
    BY <2>1 DEF ManagersOK, PatchedExactly
  <2> QED BY <1>1, <1>2, <2>1, <2>2
<1> QED BY <1>4, <1>5

\* init() and the scan of install().
LEMMA InstallationKeeps ==
  ASSUME ManagersOK,
         \/ StartInit
         \/ \E g \in Managers : InitDone(g) \/ ClearCell(g) \/ \E h \in Hooks : Scan(g, h)
  PROVE  ManagersOK' /\ UNCHANGED frameVars
<1> USE DEF ManagersOK
<1>1. CASE StartInit
  <2>1. inits' = inits + 1 /\ inits' \in Managers /\ inits' \in 0..MaxInits
    BY <1>1, HooksAssumption DEF StartInit, ManagersTypeOK, Managers
  <2>2. ManagersTypeOK'
    BY <1>1, <2>1 DEF StartInit, ManagersTypeOK, moduleVars, frameVars, Phases
  <2> QED BY <1>1, <2>1, <2>2 DEF StartInit, ManagersTypeOK, PatchedExactly, FindersOK, moduleVars, frameVars
<1>2. ASSUME NEW g \in Managers, InitDone(g) \/ ClearCell(g) PROVE ManagersOK' /\ UNCHANGED frameVars
  <2>1. ManagersTypeOK'
    <3>1. g \in 0..MaxInits /\ 0 \in 0..MaxInits
      BY HooksAssumption DEF Managers
    <3> QED BY <1>2, <3>1 DEF InitDone, ClearCell, ManagersTypeOK, moduleVars, frameVars, Phases
  <2>2. /\ UNCHANGED <<finder, patched, attr, frameVars>>
        /\ phase' = [phase EXCEPT ![g] = "active"] \/ phase' = [phase EXCEPT ![g] = "retired"]
    BY <1>2 DEF InitDone, ClearCell, moduleVars, frameVars
  <2>3. phase[g] \notin {"none", "gone"}
    BY <1>2 DEF InitDone, ClearCell
  <2>4. PatchedExactly'
    BY <2>2, <2>3 DEF PatchedExactly, ManagersTypeOK
  <2>5. FindersOK'
    BY <2>2, <2>3 DEF FindersOK, ManagersTypeOK
  <2> QED BY <2>1, <2>2, <2>4, <2>5
<1>3. ASSUME NEW g \in Managers, NEW h \in Hooks, Scan(g, h) PROVE ManagersOK' /\ UNCHANGED frameVars
  <2>1. CASE import[h] = "no"
    <3>1. ManagersTypeOK'
      BY <1>3, <2>1 DEF Scan, ManagersTypeOK, frameVars
    <3> QED BY <1>3, <2>1, <3>1 DEF Scan, ManagersTypeOK, PatchedExactly, FindersOK, frameVars
  <2>2. CASE import[h] # "no"
    <3>1. Install(g, h) /\ phase[g] = "scanning" /\ UNCHANGED <<cell, inits, phase, finder, import, told, frameVars>>
      BY <1>3, <2>2 DEF Scan
    <3>2. todo' \in [Managers -> SUBSET Hooks]
      BY <1>3 DEF Scan, ManagersTypeOK
    <3>3. FindersOK'
      BY <3>1 DEF FindersOK
    <3> QED BY <3>1, <3>2, <3>3, InstallKeeps DEF ManagersTypeOK, frameVars
  <2> QED BY <2>1, <2>2
<1> QED BY <1>1, <1>2, <1>3

\* uninstall().
LEMMA UninstallKeeps ==
  ASSUME ManagersOK, NEW g \in Managers,
         RemoveFinder(g) \/ Uninstalled(g) \/ \E h \in Hooks : Restore(g, h)
  PROVE  ManagersOK' /\ UNCHANGED frameVars
<1> USE DEF ManagersOK
<1>1. CASE RemoveFinder(g) \/ Uninstalled(g)
  <2>1. ManagersTypeOK'
    BY <1>1 DEF RemoveFinder, Uninstalled, ManagersTypeOK, moduleVars, frameVars, Phases
  <2>2. UNCHANGED <<patched, attr, frameVars>>
    BY <1>1 DEF RemoveFinder, Uninstalled, moduleVars, frameVars
  <2>3. PatchedExactly'
    <3>1. CASE RemoveFinder(g)
      BY <2>2, <3>1 DEF RemoveFinder, ManagersTypeOK, PatchedExactly
    <3>2. CASE Uninstalled(g)
      <4>1. phase' = [phase EXCEPT ![g] = "gone"] /\ patched[g] = {}
        BY <3>2 DEF Uninstalled
      <4>2. \A f \in Managers : phase'[f] \in {"none", "gone"} => patched'[f] = {}
        BY <2>2, <4>1 DEF ManagersTypeOK, PatchedExactly
      <4> QED BY <2>2, <4>2 DEF PatchedExactly
    <3> QED BY <1>1, <3>1, <3>2
  <2>4. FindersOK'
    BY <1>1 DEF RemoveFinder, Uninstalled, ManagersTypeOK, FindersOK
  <2> QED BY <2>1, <2>2, <2>3, <2>4
<1>2. ASSUME NEW h \in Hooks, Restore(g, h) PROVE ManagersOK' /\ UNCHANGED frameVars
  <2>1. ManagersTypeOK'
    BY <1>2 DEF Restore, ManagersTypeOK, frameVars
  <2>2. \A f \in Managers : h \in patched[f] => f = g
    BY <1>2 DEF Restore, PatchedExactly
  <2>3. ASSUME NEW x \in Hooks PROVE Once(x)'
    <3>1. Once(x) /\ attr \in [Hooks -> {"absent", "original", "wrapper"}] /\ patched \in [Managers -> SUBSET Hooks]
      BY PatchedOnce DEF ManagersTypeOK
    <3>2. /\ attr' = [attr EXCEPT ![h] = "original"]
          /\ patched' = [patched EXCEPT ![g] = @ \ {h}] /\ phase' = phase
      BY <1>2 DEF Restore
    <3> QED BY <2>2, <3>1, <3>2 DEF Once
  <2>4. PatchedExactly'
    BY <2>1, <2>3, PatchedOnceAfter DEF ManagersTypeOK
  <2> QED BY <1>2, <2>1, <2>4 DEF Restore, FindersOK, frameVars
<1> QED BY <1>1, <1>2

\* Imports by the program.
LEMMA ImportKeeps ==
  ASSUME ManagersOK, NEW h \in Hooks,
         \/ StartImport(h) \/ Define(h) \/ FinishImport(h)
         \/ \E g \in Managers : Notify(h, g)
  PROVE  ManagersOK' /\ UNCHANGED frameVars
<1> USE DEF ManagersOK
<1>1. CASE StartImport(h) \/ FinishImport(h)
  <2>1. ManagersTypeOK'
    <3>1. Listening(h) \subseteq Managers
      BY DEF Listening
    <3>2. import' \in [Hooks -> {"no", "running", "done"}] /\ told' \in [Hooks -> SUBSET Managers]
      <4>1. CASE StartImport(h)
        <5>1. /\ import' = [import EXCEPT ![h] = "running"]
              /\ told' = [told EXCEPT ![h] = Listening(h)]
          BY <4>1 DEF StartImport
        <5> QED BY <3>1, <5>1 DEF ManagersTypeOK
      <4>2. CASE FinishImport(h)
        BY <4>2 DEF FinishImport, ManagersTypeOK, managerVars
      <4> QED BY <1>1, <4>1, <4>2
    <3> QED BY <1>1, <3>2 DEF StartImport, FinishImport, ManagersTypeOK, managerVars, frameVars
  <2> QED BY <1>1, <2>1 DEF StartImport, FinishImport, PatchedExactly, FindersOK, managerVars, frameVars
<1>2. CASE Define(h)
  <2>1. ManagersTypeOK'
    BY <1>2 DEF Define, ManagersTypeOK, managerVars, frameVars
  <2>2. \A g \in Managers : h \notin patched[g]
    BY <1>2 DEF Define, PatchedExactly
  <2>3. PatchedExactly'
    BY <1>2, <2>2 DEF Define, PatchedExactly, ManagersTypeOK, managerVars
  <2> QED BY <1>2, <2>1, <2>3 DEF Define, FindersOK, managerVars, frameVars
<1>3. ASSUME NEW g \in Managers, Notify(h, g) PROVE ManagersOK' /\ UNCHANGED frameVars
  <2>1. told' \in [Hooks -> SUBSET Managers] /\ UNCHANGED <<cell, inits, phase, todo, finder, import, frameVars>>
    BY <1>3 DEF Notify, ManagersTypeOK
  <2>2. FindersOK'
    BY <2>1 DEF FindersOK
  <2>3. CASE h \in finder[g] /\ status[g][h] = "not imported"
    <3>1. Install(g, h)
      BY <1>3, <2>3 DEF Notify
    <3>2. phase[g] \notin {"none", "gone"}
      BY <2>3 DEF FindersOK
    <3> QED BY <2>1, <2>2, <3>1, <3>2, InstallKeeps DEF ManagersTypeOK, frameVars
  <2>4. CASE ~(h \in finder[g] /\ status[g][h] = "not imported")
    <3>1. UNCHANGED <<attr, patched, status, kept>>
      BY <1>3, <2>4 DEF Notify
    <3> QED BY <2>1, <2>2, <3>1 DEF ManagersTypeOK, PatchedExactly, frameVars
  <2> QED BY <2>3, <2>4
<1> QED BY <1>1, <1>2, <1>3

-----------------------------------------------------------------------------
(* Hooked calls *)

\* A wrapper times its call only if no outer call of the thread is timed.
LEMMA EnterKeeps ==
  ASSUME FramesOK, NestedRecordedOnce, NEW t \in Threads, NEW h \in Hooks, EnterWrapper(t, h)
  PROVE  FramesOK' /\ NestedRecordedOnce'
<1> DEFINE timed == cell # 0 /\ t \notin inside
           f == [hook |-> h, timed |-> timed]
<1>1. /\ stack' = [stack EXCEPT ![t] = Append(stack[t], f)]
      /\ inside' = IF timed /\ h \in Outer THEN inside \cup {t} ELSE inside
  BY DEF EnterWrapper
<1>2. f \in Frames /\ f.hook = h /\ f.timed = timed
  BY DEF Frames
<1> HIDE DEF f
<1>3. stack[t] \in Seq(Frames)
  BY DEF FramesOK
<1>4. /\ Append(stack[t], f) \in Seq(Frames)
      /\ Len(Append(stack[t], f)) = Len(stack[t]) + 1
      /\ \A i \in 1..Len(stack[t]) : Append(stack[t], f)[i] = stack[t][i]
      /\ Append(stack[t], f)[Len(stack[t]) + 1] = f
      /\ Len(stack[t]) \in Nat
  BY <1>2, <1>3
<1>5. FramesOK'
  BY <1>1, <1>4 DEF FramesOK
<1>6. \A i \in 1..Len(stack[t]) : stack[t][i].hook \in Outer
  BY <1>3 DEF EnterWrapper
<1>7. timed => \A i \in 1..Len(stack[t]) : ~stack[t][i].timed
  BY <1>6 DEF NestedRecordedOnce
<1>8. stack'[t] = Append(stack[t], f) /\ \A u \in Threads \ {t} : stack'[u] = stack[u]
  BY <1>1 DEF FramesOK
<1>9. Len(stack'[t]) = Len(stack[t]) + 1 /\ stack'[t][Len(stack[t]) + 1] = f
      /\ \A i \in 1..Len(stack[t]) : stack'[t][i] = stack[t][i]
  BY <1>4, <1>8
<1>10. ASSUME NEW i \in 1..Len(stack'[t]), NEW j \in 1..Len(stack'[t]), stack'[t][i].timed, stack'[t][j].timed
       PROVE  i = j
  <2>1. CASE timed
    <3>1. \A k \in 1..Len(stack[t]) : ~stack'[t][k].timed
      BY <1>7, <1>9, <2>1
    <3> QED BY <1>4, <1>9, <1>10, <3>1
  <2>2. CASE ~timed
    <3>1. ~stack'[t][Len(stack[t]) + 1].timed
      BY <1>2, <1>9, <2>2
    <3>2. i \in 1..Len(stack[t]) /\ j \in 1..Len(stack[t])
      BY <1>4, <1>9, <1>10, <3>1
    <3> QED BY <1>9, <1>10, <3>2 DEF NestedRecordedOnce
  <2> QED BY <2>1, <2>2
<1>11. t \in inside' <=> \E i \in 1..Len(stack'[t]) : stack'[t][i].timed /\ stack'[t][i].hook \in Outer
  <2>1. CASE timed /\ h \in Outer
    <3>1. t \in inside' /\ f.timed /\ f.hook \in Outer
      BY <1>1, <1>2, <2>1
    <3> QED BY <1>4, <1>9, <3>1
  <2>2. CASE ~(timed /\ h \in Outer)
    <3>1. t \in inside' <=> t \in inside
      BY <1>1, <2>2
    <3>2. t \in inside <=> \E i \in 1..Len(stack[t]) : stack[t][i].timed /\ stack[t][i].hook \in Outer
      BY DEF NestedRecordedOnce
    <3>3. ~(f.timed /\ f.hook \in Outer)
      BY <1>2, <2>2
    <3> HIDE DEF timed
    <3>4. ASSUME NEW i \in 1..Len(stack'[t]), stack'[t][i].timed, stack'[t][i].hook \in Outer
          PROVE  i \in 1..Len(stack[t]) /\ stack'[t][i] = stack[t][i]
      <4>1. i # Len(stack[t]) + 1
        BY <1>9, <3>3, <3>4
      <4>2. i \in 1..Len(stack[t])
        BY <1>4, <1>9, <4>1
      <4> QED BY <1>9, <4>2
    <3>5. ASSUME NEW i \in 1..Len(stack[t])
          PROVE  i \in 1..Len(stack'[t]) /\ stack'[t][i] = stack[t][i]
      <4>1. i \in 1..Len(stack'[t])
        BY <1>4, <1>9
      <4> QED BY <1>9, <4>1
    <3> QED BY <3>1, <3>2, <3>4, <3>5
  <2> QED BY <2>1, <2>2
<1>12. ASSUME NEW u \in Threads, u # t PROVE stack'[u] = stack[u] /\ (u \in inside' <=> u \in inside)
  BY <1>1, <1>8, <1>12
<1>13. NestedRecordedOnce'
  BY <1>10, <1>11, <1>12 DEF NestedRecordedOnce
<1> QED BY <1>5, <1>13

\* A wrapper that leaves takes the mark with it only if it set it.
LEMMA LeaveKeeps ==
  ASSUME FramesOK, NestedRecordedOnce, NEW t \in Threads, LeaveWrapper(t)
  PROVE  FramesOK' /\ NestedRecordedOnce'
<1> DEFINE n == Len(stack[t])
           rest == SubSeq(stack[t], 1, n - 1)
           marked == stack[t][n].timed /\ stack[t][n].hook \in Outer
<1>1. /\ stack' = [stack EXCEPT ![t] = rest]
      /\ inside' = IF marked THEN inside \ {t} ELSE inside
      /\ stack[t] # <<>>
  BY DEF LeaveWrapper
<1>2. stack[t] \in Seq(Frames)
  BY DEF FramesOK
<1>3. n \in Nat \ {0}
  BY <1>1, <1>2
<1>4. rest \in Seq(Frames) /\ Len(rest) = n - 1 /\ \A i \in 1..(n - 1) : rest[i] = stack[t][i]
  BY <1>2, <1>3
<1> HIDE DEF rest
<1>5. FramesOK'
  BY <1>1, <1>4 DEF FramesOK
<1>6. stack'[t] = rest /\ \A u \in Threads \ {t} : stack'[u] = stack[u]
  BY <1>1 DEF FramesOK
<1>7. Len(stack'[t]) = n - 1 /\ \A i \in 1..(n - 1) : stack'[t][i] = stack[t][i]
  BY <1>4, <1>6
<1>8. \A i, j \in 1..Len(stack'[t]) : stack'[t][i].timed /\ stack'[t][j].timed => i = j
  BY <1>3, <1>7 DEF NestedRecordedOnce
<1>9. t \in inside' <=> \E i \in 1..Len(stack'[t]) : stack'[t][i].timed /\ stack'[t][i].hook \in Outer
  <2>1. CASE marked
    <3>1. \A i \in 1..(n - 1) : ~stack[t][i].timed
      BY <1>3, <2>1 DEF NestedRecordedOnce
    <3> QED BY <1>1, <1>7, <2>1, <3>1
  <2>2. CASE ~marked
    <3>1. t \in inside' <=> \E i \in 1..n : stack[t][i].timed /\ stack[t][i].hook \in Outer
      BY <1>1, <2>2 DEF NestedRecordedOnce
    <3> QED BY <1>3, <1>7, <2>2, <3>1
  <2> QED BY <2>1, <2>2
<1>10. ASSUME NEW u \in Threads, u # t PROVE stack'[u] = stack[u] /\ (u \in inside' <=> u \in inside)
  BY <1>1, <1>6, <1>10
<1>11. NestedRecordedOnce'
  BY <1>8, <1>9, <1>10 DEF NestedRecordedOnce
<1> QED BY <1>5, <1>11

-----------------------------------------------------------------------------
(* Theorems *)

\* The strengthening holds in the beginning and is kept by every step.
THEOREM Invariance == HooksSpec => []IInv
<1>1. HooksInit => IInv
  <2> SUFFICES ASSUME HooksInit PROVE IInv
    OBVIOUS
  <2>1. ManagersTypeOK
    <3>1. cell \in 0..MaxInits /\ inits \in 0..MaxInits
      <4>1. MaxInits \in Nat /\ cell = 0 /\ inits = 0
        BY HooksAssumption DEF HooksInit
      <4> QED BY <4>1
    <3>2. import \in [Hooks -> {"no", "running", "done"}] /\ attr \in [Hooks -> {"absent", "original", "wrapper"}]
      BY DEF HooksInit
    <3>3. \A h \in Hooks : [x \in Hooks |-> "not imported"] \in [Hooks -> Reports]
      BY DEF Reports
    <3>4. status \in [Managers -> [Hooks -> Reports]]
      BY <3>3 DEF HooksInit, Reports
    <3> QED BY <3>1, <3>2, <3>4 DEF HooksInit, ManagersTypeOK, Phases
  <2>2. PatchedExactly /\ FindersOK
    BY DEF HooksInit, PatchedExactly, FindersOK
  <2>3. FramesOK /\ \A t \in Threads : 1..Len(stack[t]) = {} /\ t \notin inside
    <3>1. <<>> \in Seq(Frames) /\ 1..Len(<<>>) = {}
      OBVIOUS
    <3> QED BY <3>1 DEF HooksInit, FramesOK
  <2>4. NestedRecordedOnce
    BY <2>3 DEF NestedRecordedOnce
  <2> QED BY <2>1, <2>2, <2>3, <2>4, TypesSplit DEF IInv
<1>2. IInv /\ [HooksNext]_hooksVars => IInv'
  <2> SUFFICES ASSUME IInv, [HooksNext]_hooksVars PROVE IInv'
    OBVIOUS
  <2>1. ManagersOK /\ FramesOK
    BY TypesSplit DEF IInv, ManagersOK
  <2>2. CASE UNCHANGED hooksVars
    <3>1. HooksTypeOK' /\ PatchedExactly' /\ FindersOK'
      BY <2>2 DEF IInv, HooksTypeOK, PatchedExactly, FindersOK, hooksVars, managerVars, moduleVars, frameVars
    <3>2. NestedRecordedOnce'
      BY <2>2 DEF IInv, NestedRecordedOnce, hooksVars, frameVars
    <3> QED BY <3>1, <3>2 DEF IInv
  <2>3. ASSUME ManagersOK', UNCHANGED frameVars PROVE IInv'
    <3>1. NestedRecordedOnce' /\ FramesOK'
      BY <2>1, <2>3 DEF IInv, NestedRecordedOnce, FramesOK, frameVars
    <3> QED BY <2>3, <3>1, TypesSplitAfter DEF IInv, ManagersOK
  <2>4. ASSUME NEW t \in Threads, LeaveWrapper(t) \/ \E h \in Hooks : EnterWrapper(t, h) PROVE IInv'
    <3>2. FramesOK' /\ NestedRecordedOnce'
      BY <2>1, <2>4, LeaveKeeps, EnterKeeps DEF IInv
    <3>3. UNCHANGED <<cell, managerVars, moduleVars>>
      BY <2>4 DEF LeaveWrapper, EnterWrapper
    <3>4. ManagersTypeOK'
      BY <2>1, <3>3 DEF ManagersOK, ManagersTypeOK, managerVars, moduleVars
    <3>5. PatchedExactly' /\ FindersOK'
      BY <3>3 DEF IInv, PatchedExactly, FindersOK, managerVars, moduleVars
    <3> QED BY <3>2, <3>4, <3>5, TypesSplitAfter DEF IInv
  <2> QED BY <2>1, <2>2, <2>3, <2>4, InstallationKeeps, UninstallKeeps, ImportKeeps DEF HooksNext
<1> QED BY <1>1, <1>2, PTL DEF HooksSpec

\* However init(), shutdown(), imports and calls interleave, a function is
\* wrapped exactly while one manager remembers to restore it, and of nested
\* hooked calls one is timed.
THEOREM HooksAreExact == HooksSpec => []HooksExact
<1>1. IInv => HooksExact
  BY DEF IInv, HooksExact
<1> QED BY <1>1, Invariance, PTL
=============================================================================
