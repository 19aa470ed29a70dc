---------------------------- MODULE SpanComparison ----------------------------
(***************************************************************************)
(* How profiler_service/comparison.py lays the spans of two runs over each *)
(* other: build_tree merges the spans of a run with the same path of names *)
(* into one node, _walk_pair pairs the nodes of both runs.                 *)
(*                                                                         *)
(* Spans are stored as they come, in any order and never all of them for   *)
(* certain: a parent may be missing, come later, or be an id that makes a  *)
(* cycle.  What is compared is whatever is there.                          *)
(***************************************************************************)
EXTENDS Naturals, Sequences, FiniteSets, FiniteSetsExt

CONSTANTS SpanIds,    \* span ids, the same in both runs
          Names,      \* span names
          NoParent,   \* parent_span_id of a root
          MaxSpans    \* bound on the spans stored for both runs

ASSUME SpanAssumption == NoParent \notin SpanIds /\ MaxSpans \in Nat

VARIABLE spans   \* spans[run]: the stored spans, by id

Sides == {"baseline", "remediated"}

SpansInit == spans = [run \in Sides |-> << >>]

\* ingest_spans: an id is stored once in a run.
Ingest(run, id, parent, name) ==
  /\ Cardinality(DOMAIN spans["baseline"]) + Cardinality(DOMAIN spans["remediated"]) < MaxSpans
  /\ id \notin DOMAIN spans[run]
  /\ spans' = [spans EXCEPT ![run] =
       [i \in DOMAIN @ \cup {id} |-> IF i = id THEN [parent |-> parent, name |-> name] ELSE @[i]]]

SpansNext ==
  \E run \in Sides, id \in SpanIds, parent \in SpanIds \cup {NoParent}, name \in Names :
    Ingest(run, id, parent, name)

SpansSpec == SpansInit /\ [][SpansNext]_spans

-----------------------------------------------------------------------------
(* build_tree *)

\* A span whose parent was never received is shown as a root.
WrongRoots(S) == {i \in DOMAIN S : S[i].parent = NoParent}
Roots(S) == {i \in DOMAIN S : S[i].parent \notin DOMAIN S}

Children(S, group) == {i \in DOMAIN S : S[i].parent \in group}

\* _merge: the spans of a group with the same name are one node, its children
\* are merged from the children of all of them.
RECURSIVE Merge(_, _, _)
Merge(S, group, path) ==
  {LET of == {i \in group : S[i].name = name}
       here == Append(path, name)
   IN [name |-> name, path |-> here, of |-> of, children |-> Merge(S, Children(S, of), here)]
     : name \in {S[i].name : i \in group}}

Tree(S) == Merge(S, Roots(S), <<>>)

\* How many spans the warning about parent cycles counts.
RECURSIVE ReachedFrom(_, _)
ReachedFrom(S, group) ==
  IF Children(S, group) \subseteq group THEN group
  ELSE ReachedFrom(S, group \cup Children(S, group))

Unreachable(S) == DOMAIN S \ ReachedFrom(S, Roots(S))

-----------------------------------------------------------------------------
(* _walk_pair: nodes of the two runs under the same path and with the same  *)
(* name are one row.                                                        *)

Named(nodes, name) == {n \in nodes : n.name = name}
Below(nodes) == UNION {n.children : n \in nodes}

RECURSIVE WalkPair(_, _)
WalkPair(b, r) ==
  UNION {LET x == Named(b, name)   y == Named(r, name)
         IN {[path |-> (CHOOSE n \in x \cup y : TRUE).path,
              status |-> IF x = {} THEN "remediated_only" ELSE IF y = {} THEN "baseline_only" ELSE "matched",
              baseline |-> UNION {n.of : n \in x}, remediated |-> UNION {n.of : n \in y}]}
            \cup WalkPair(Below(x), Below(y))
          : name \in {n.name : n \in b \cup r}}

Rows == WalkPair(Tree(spans["baseline"]), Tree(spans["remediated"]))

-----------------------------------------------------------------------------
(* Properties *)

SpansTypeOK ==
  \A run \in Sides :
    /\ DOMAIN spans[run] \subseteq SpanIds
    /\ \A i \in DOMAIN spans[run] : spans[run][i].parent \in SpanIds \cup {NoParent}

\* The reference the merge is held against: chains of spans in which each one's
\* parent is its predecessor and the first one's parent is not in the run.
Chains(S, n) ==
  {c \in [1..n -> DOMAIN S] :
     S[c[1]].parent \notin DOMAIN S /\ \A k \in 2..n : S[c[k]].parent = c[k - 1]}
OnPath(S, path) ==
  {c[Len(path)] : c \in {c \in Chains(S, Len(path)) : [k \in DOMAIN c |-> S[c[k]].name] = path}}
Rooted(S) == UNION {{c[n] : c \in Chains(S, n)} : n \in 1..Cardinality(DOMAIN S)}

\* Each span is counted in exactly one row, that of its own path, or reported
\* as unreachable; and a row is "matched" exactly when both runs have spans on
\* that path, whatever is missing, cyclic or ordered differently in one of them.
EverySpanOnItsRow ==
  /\ \A run \in Sides :
       LET S == spans[run]
       IN /\ \A row \in Rows : row[run] = OnPath(S, row.path)
          /\ UNION {row[run] : row \in Rows} = Rooted(S)
          /\ Unreachable(S) = DOMAIN S \ Rooted(S)
          /\ \A x, y \in Rows : x # y => x[run] \cap y[run] = {}
  /\ \A row \in Rows :
       (row.status = "matched") <=> (row.baseline # {} /\ row.remediated # {})
=============================================================================
