-------------------------------- MODULE Shares --------------------------------
(***************************************************************************)
(* Share links: profiler_service/shares.py.  What a link names, runs or an *)
(* experiment with its runs, is a set of ids; ids come and go as data is   *)
(* received and purged (ServiceData), and an id that an exporter chose can *)
(* come back in another project.                                           *)
(*                                                                         *)
(* Opening a link reads its row and looks for its data, then counts the    *)
(* view in a commit, then loads the data again for the comparison.         *)
(***************************************************************************)
EXTENDS Naturals, FiniteSets

CONSTANTS Ids,         \* ids of runs and experiments
          Homes,       \* projects
          Links, Viewers, NoHome,
          MaxViews     \* bound on the counted views of a link

ASSUME SharesAssumption == NoHome \notin Homes /\ MaxViews \in Nat

VARIABLES home,      \* home[i]: the project of what has id i
          link,      \* link[l]: the row of link l
          view,      \* view[v]: viewer v on the way through a link
          shown      \* history: shown[v]: what v was shown last

shareVars == <<home, link, view, shown>>

Steps  == {"idle", "counting", "comparing"}
NoLink == [targets |-> {}, project |-> NoHome, live |-> FALSE, views |-> 0]

SharesInit ==
  /\ home = [i \in Ids |-> NoHome]
  /\ link = [l \in Links |-> NoLink]
  /\ view = [v \in Viewers |-> [at |-> "idle", links |-> {}, views |-> 0]]
  /\ shown = [v \in Viewers |-> {}]

\* Data arrives, or is purged.
Arrives(i, p) ==
  home[i] = NoHome /\ home' = [home EXCEPT ![i] = p] /\ UNCHANGED <<link, view, shown>>
Purged(i) ==
  home[i] # NoHome /\ home' = [home EXCEPT ![i] = NoHome] /\ UNCHANGED <<link, view, shown>>

\* create_share: by someone who sees the project; a link covers one project.
CreateShare(l, targets, p) ==
  /\ link[l] = NoLink /\ targets # {} /\ \A i \in targets : home[i] = p
  /\ link' = [link EXCEPT ![l] = [targets |-> targets, project |-> p, live |-> TRUE, views |-> 0]]
  /\ UNCHANGED <<home, view, shown>>

\* revoke_share, or the link expires.
LinkOver(l) ==
  /\ link[l].live
  /\ link' = [link EXCEPT ![l].live = FALSE]
  /\ UNCHANGED <<home, view, shown>>

\* _open, up to the check that the data is there.
Open(v, l) ==
  /\ view[v].at = "idle" /\ link[l].live
  /\ \A i \in link[l].targets : home[i] # NoHome
  /\ view' = [view EXCEPT ![v] = [at |-> "counting", links |-> {l}, views |-> link[l].views]]
  /\ UNCHANGED <<home, link, shown>>

\* views += 1 writes the number that was read, plus one, and no other column.
CountView(v) ==
  /\ view[v].at = "counting" /\ view[v].views < MaxViews
  /\ \E l \in view[v].links : link' = [link EXCEPT ![l].views = view[v].views + 1]
  /\ view' = [view EXCEPT ![v].at = "comparing"]
  /\ UNCHANGED <<home, shown>>

\* Exports and time series are not counted.
SkipCount(v) ==
  /\ view[v].at = "counting"
  /\ view' = [view EXCEPT ![v].at = "comparing"]
  /\ UNCHANGED <<home, link, shown>>

\* The comparison is made as a viewer of the link's project and of no other;
\* what is not there for such a viewer makes it fail.
WrongLoaded(l) ==   \* as somebody who sees everything
  LET there == {i \in link[l].targets : home[i] # NoHome}
  IN IF there = link[l].targets THEN there ELSE {}

Loaded(l) ==
  LET mine == {i \in link[l].targets : home[i] = link[l].project}
  IN IF mine = link[l].targets THEN mine ELSE {}

CompareShared(v) ==
  /\ view[v].at = "comparing"
  /\ \E l \in view[v].links :
       shown' = [shown EXCEPT ![v] = {[link |-> l, id |-> i, project |-> home[i]] : i \in Loaded(l)}]
  /\ view' = [view EXCEPT ![v] = [at |-> "idle", links |-> {}, views |-> 0]]
  /\ UNCHANGED <<home, link>>

SharesNext ==
  \/ \E i \in Ids : Purged(i) \/ \E p \in Homes : Arrives(i, p)
  \/ \E l \in Links : LinkOver(l) \/ \E x \in SUBSET Ids, p \in Homes : CreateShare(l, x, p)
  \/ \E v \in Viewers : \/ CountView(v) \/ SkipCount(v) \/ CompareShared(v)
                        \/ \E l \in Links : Open(v, l)

SharesSpec == SharesInit /\ [][SharesNext]_shareVars

-----------------------------------------------------------------------------
(* Properties *)

SharesTypeOK ==
  /\ home \in [Ids -> Homes \cup {NoHome}]
  /\ link \in [Links -> [targets : SUBSET Ids, project : Homes \cup {NoHome},
                         live : BOOLEAN, views : 0..MaxViews]]
  /\ view \in [Viewers -> [at : Steps, links : SUBSET Links, views : 0..MaxViews]]
  /\ shown \in [Viewers -> SUBSET [link : Links, id : Ids, project : Homes]]

\* A link shows data that it names and that is of its own project, also when
\* that data was purged and its id came back in another project, before the
\* link was opened or while it was.
SharedStaysInProject ==
  \A v \in Viewers : \A x \in shown[v] :
    x.project = link[x.link].project /\ x.id \in link[x.link].targets

\* A revoked or expired link stays so, although a view that was opened before
\* writes the row afterwards; and no row is made into another link.
LinksEndForGood ==
  [][\A l \in Links : link[l] # NoLink =>
       /\ link'[l].live => link[l].live
       /\ link'[l].targets = link[l].targets /\ link'[l].project = link[l].project]_link

\* A link shows data of its own project only, and a revoked one nothing more.
LinksAreSafe == [](SharesTypeOK /\ SharedStaysInProject) /\ LinksEndForGood
=============================================================================
