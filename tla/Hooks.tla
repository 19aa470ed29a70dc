-------------------------------- MODULE Hooks --------------------------------
(***************************************************************************)
(* The crypto hooks of the Python agent: HookManager, the post-import      *)
(* finder and the call wrappers of vayunx/_hooks.py, under init() and      *)
(* shutdown() of vayunx/_core.py.                                          *)
(*                                                                         *)
(* Each init() makes a state and a manager of its own; both are numbered.  *)
(* All wrappers ever made read the same cell, which holds the number of    *)
(* the active state, or 0.  Threads of the program import modules and make *)
(* hooked calls, nested ones too, at any time, and init() may overlap the  *)
(* uninstall of the previous manager, which shutdown() does without _lock. *)
(***************************************************************************)
EXTENDS Naturals, Sequences

CONSTANTS Threads,    \* threads of the program
          Hooks,      \* the hooked functions (SPECS)
          Outer,      \* those that may call other hooked functions
          Early,      \* those of modules that are always imported first
          MaxInits    \* bound on calls of init()

ASSUME HooksAssumption == Outer \subseteq Hooks /\ Early \subseteq Hooks /\ MaxInits \in Nat

VARIABLES cell,      \* _cell[0]
          inits,     \* how many states were made
          phase,     \* phase[g]: what becomes of manager g
          todo,      \* todo[g]: the hooks install() has not come to yet
          finder,    \* finder[g]: the hooks whose import it waits for
          patched,   \* patched[g]: HookManager._patched
          status,    \* status[g][h]: HookManager.status
          import,    \* import[h]: the module of hook h is imported
          told,      \* told[h]: the managers whose loader wraps that import
          attr,      \* attr[h]: what the module's attribute holds
          kept,      \* wrappers the program may have bound to other names
          stack,     \* stack[t]: the hooked calls thread t is in
          inside     \* _inside

managerVars == <<inits, phase, todo, finder, patched, status>>
moduleVars  == <<import, told, attr, kept>>
frameVars   == <<stack, inside>>
hooksVars   == <<cell, managerVars, moduleVars, frameVars>>

Managers == 1..MaxInits
Phases   == {"none", "scanning", "active", "retired", "removing", "gone"}

HooksInit ==
  /\ cell = 0 /\ inits = 0
  /\ phase = [g \in Managers |-> "none"]
  /\ todo = [g \in Managers |-> {}] /\ finder = [g \in Managers |-> {}]
  /\ patched = [g \in Managers |-> {}]
  /\ status = [g \in Managers |-> [h \in Hooks |-> "not imported"]]
  /\ import = [h \in Hooks |-> IF h \in Early THEN "done" ELSE "no"]
  /\ told = [h \in Hooks |-> {}]
  /\ attr = [h \in Hooks |-> IF h \in Early THEN "original" ELSE "absent"]
  /\ kept = {}
  /\ stack = [t \in Threads |-> <<>>] /\ inside = {}

-----------------------------------------------------------------------------
(* HookManager *)

\* _install: a function that is wrapped already is left to whoever wrapped it.
WrongInstall(g, h) ==   \* a wrapped function is wrapped again
  /\ status' = [status EXCEPT ![g][h] =
                  IF attr[h] = "absent" THEN "not available" ELSE "installed"]
  /\ IF attr[h] # "absent"
     THEN /\ attr' = [attr EXCEPT ![h] = "wrapper"]
          /\ patched' = [patched EXCEPT ![g] = @ \cup {h}]
          /\ kept' = kept \cup {h}
     ELSE UNCHANGED <<attr, patched, kept>>

Install(g, h) ==
  /\ status' = [status EXCEPT ![g][h] =
                  IF attr[h] = "absent" THEN "not available" ELSE "installed"]
  /\ IF attr[h] = "original"
     THEN /\ attr' = [attr EXCEPT ![h] = "wrapper"]
          /\ patched' = [patched EXCEPT ![g] = @ \cup {h}]
          /\ kept' = kept \cup {h}
     ELSE UNCHANGED <<attr, patched, kept>>

\* init() holds _lock from here to InitDone.
StartInit ==
  /\ cell = 0 /\ inits < MaxInits
  /\ \A g \in Managers : phase[g] # "scanning"
  /\ inits' = inits + 1
  /\ phase' = [phase EXCEPT ![inits'] = "scanning"]
  /\ todo' = [todo EXCEPT ![inits'] = Hooks]
  /\ UNCHANGED <<cell, finder, patched, status, moduleVars, frameVars>>

\* install() comes to hook h: patch it now, or wait for its module.
Scan(g, h) ==
  /\ phase[g] = "scanning" /\ h \in todo[g]
  /\ todo' = [todo EXCEPT ![g] = @ \ {h}]
  /\ IF import[h] = "no"
     THEN /\ finder' = [finder EXCEPT ![g] = @ \cup {h}]
          /\ UNCHANGED <<patched, status, attr, kept>>
     ELSE Install(g, h) /\ UNCHANGED finder
  /\ UNCHANGED <<cell, inits, phase, import, told, frameVars>>

\* The finder goes in front of sys.meta_path, then the cell is set.
InitDone(g) ==
  /\ phase[g] = "scanning" /\ todo[g] = {}
  /\ phase' = [phase EXCEPT ![g] = "active"]
  /\ cell' = g
  /\ UNCHANGED <<inits, todo, finder, patched, status, moduleVars, frameVars>>

ClearCell(g) ==
  /\ phase[g] = "active"
  /\ phase' = [phase EXCEPT ![g] = "retired"]
  /\ cell' = 0
  /\ UNCHANGED <<inits, todo, finder, patched, status, moduleVars, frameVars>>

\* uninstall() under the manager's own lock: the finder first, then each hook.
RemoveFinder(g) ==
  /\ phase[g] = "retired"
  /\ phase' = [phase EXCEPT ![g] = "removing"]
  /\ finder' = [finder EXCEPT ![g] = {}]
  /\ UNCHANGED <<cell, inits, todo, patched, status, moduleVars, frameVars>>

Restore(g, h) ==
  /\ phase[g] = "removing" /\ h \in patched[g]
  /\ attr' = [attr EXCEPT ![h] = "original"]
  /\ patched' = [patched EXCEPT ![g] = @ \ {h}]
  /\ UNCHANGED <<cell, inits, phase, todo, finder, status, import, told, kept, frameVars>>

Uninstalled(g) ==
  /\ phase[g] = "removing" /\ patched[g] = {}
  /\ phase' = [phase EXCEPT ![g] = "gone"]
  /\ UNCHANGED <<cell, inits, todo, finder, patched, status, moduleVars, frameVars>>

-----------------------------------------------------------------------------
(* Imports by the program: find_spec of each finder in place that waits for *)
(* the module wraps its loader.                                             *)

Listening(h) == {g \in Managers : phase[g] \in {"active", "retired"} /\ h \in finder[g]}

StartImport(h) ==
  /\ import[h] = "no"
  /\ import' = [import EXCEPT ![h] = "running"]
  /\ told' = [told EXCEPT ![h] = Listening(h)]
  /\ UNCHANGED <<cell, managerVars, attr, kept, frameVars>>

\* The module body defines the function.
Define(h) ==
  /\ import[h] = "running" /\ attr[h] = "absent"
  /\ attr' = [attr EXCEPT ![h] = "original"]
  /\ UNCHANGED <<cell, managerVars, import, told, kept, frameVars>>

\* _on_import, innermost loader first; it waits while uninstall() has the lock.
Notify(h, g) ==
  /\ import[h] = "running" /\ attr[h] # "absent"
  /\ g \in told[h] /\ \A f \in told[h] : g <= f
  /\ phase[g] # "removing"
  /\ told' = [told EXCEPT ![h] = @ \ {g}]
  /\ IF h \in finder[g] /\ status[g][h] = "not imported"
     THEN Install(g, h)
     ELSE UNCHANGED <<attr, patched, status, kept>>
  /\ UNCHANGED <<cell, inits, phase, todo, finder, import, frameVars>>

FinishImport(h) ==
  /\ import[h] = "running" /\ attr[h] # "absent" /\ told[h] = {}
  /\ import' = [import EXCEPT ![h] = "done"]
  /\ UNCHANGED <<cell, managerVars, told, attr, kept, frameVars>>

-----------------------------------------------------------------------------
(* Hooked calls, through the module or through a name bound earlier *)

\* A frame is timed if its wrapper saw an active state and no outer call of
\* the thread; only the hooks that can contain others mark the thread.
EnterWrapper(t, h) ==
  /\ h \in kept
  /\ \/ stack[t] = <<>>
     \/ Len(stack[t]) = 1 /\ stack[t][1].hook \in Outer
  /\ LET timed == cell # 0 /\ t \notin inside
     IN /\ stack' = [stack EXCEPT ![t] = Append(@, [hook |-> h, timed |-> timed])]
        /\ inside' = IF timed /\ h \in Outer THEN inside \cup {t} ELSE inside
  /\ UNCHANGED <<cell, managerVars, moduleVars>>

LeaveWrapper(t) ==
  /\ stack[t] # <<>>
  /\ LET f == stack[t][Len(stack[t])]
     IN /\ stack' = [stack EXCEPT ![t] = SubSeq(@, 1, Len(@) - 1)]
        /\ inside' = IF f.timed /\ f.hook \in Outer THEN inside \ {t} ELSE inside
  /\ UNCHANGED <<cell, managerVars, moduleVars>>

HooksNext ==
  \/ StartInit
  \/ \E g \in Managers :
       \/ \E h \in Hooks : Scan(g, h) \/ Restore(g, h) \/ Notify(h, g)
       \/ InitDone(g) \/ ClearCell(g) \/ RemoveFinder(g) \/ Uninstalled(g)
  \/ \E h \in Hooks : StartImport(h) \/ Define(h) \/ FinishImport(h)
  \/ \E t \in Threads : LeaveWrapper(t) \/ \E h \in Hooks : EnterWrapper(t, h)

HooksSpec == HooksInit /\ [][HooksNext]_hooksVars

-----------------------------------------------------------------------------
(* Properties *)

HooksTypeOK ==
  /\ cell \in 0..MaxInits /\ inits \in 0..MaxInits
  /\ phase \in [Managers -> Phases]
  /\ todo \in [Managers -> SUBSET Hooks] /\ finder \in [Managers -> SUBSET Hooks]
  /\ patched \in [Managers -> SUBSET Hooks]
  /\ status \in [Managers -> [Hooks -> {"not imported", "not available", "installed"}]]
  /\ import \in [Hooks -> {"no", "running", "done"}]
  /\ told \in [Hooks -> SUBSET Managers]
  /\ attr \in [Hooks -> {"absent", "original", "wrapper"}]
  /\ kept \subseteq Hooks /\ inside \subseteq Threads
  /\ stack \in [Threads -> Seq([hook : Hooks, timed : BOOLEAN])]

\* A function is wrapped exactly while one manager, and only one, remembers
\* that it has to put the original back: nothing is wrapped twice, and after
\* shutdown() nothing stays wrapped ("Restore every patched function",
\* vayunx/_core.py:143), however init() and imports overlap with uninstall().
PatchedExactly ==
  /\ \A h \in Hooks : attr[h] = "wrapper" <=> \E g \in Managers : h \in patched[g]
  /\ \A f, g \in Managers : f # g => patched[f] \cap patched[g] = {}
  /\ \A g \in Managers : phase[g] \in {"none", "gone"} => patched[g] = {}

\* "Nested hooked calls are recorded once, as the outer call"
\* (vayunx/_hooks.py:8), also when init() or shutdown() happens while they are
\* under way; and the mark of a thread goes away with the call that set it.
NestedRecordedOnce ==
  \A t \in Threads :
    /\ \A i, j \in 1..Len(stack[t]) : stack[t][i].timed /\ stack[t][j].timed => i = j
    /\ t \in inside <=> \E i \in 1..Len(stack[t]) : stack[t][i].timed /\ stack[t][i].hook \in Outer

\* Functions are wrapped once and restored; nested calls are recorded once.
HooksExact == HooksTypeOK /\ PatchedExactly /\ NestedRecordedOnce

\* status() (vayunx/_core.py:173) reports as installed what really is wrapped.
InstalledIsHooked ==
  \A g \in Managers, h \in Hooks :
    phase[g] = "active" /\ status[g][h] = "installed" => attr[h] = "wrapper"
=============================================================================
