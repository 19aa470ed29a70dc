-------------------------------- MODULE Access --------------------------------
(***************************************************************************)
(* Sign-in, API tokens, projects, teams and roles: profiler_service/auth.py*)
(* and access.py, with sign-in switched on.                                *)
(*                                                                         *)
(* A request reads the database three times: the middleware identifies the *)
(* caller, the handler derives what the caller may do and decides, and the *)
(* commit writes.  Other requests commit in between.  What a caller may do *)
(* is a set of permissions: <<p, n>> for the role of rank n on project p   *)
(* (each role includes the ones before it), and Everything.                *)
(***************************************************************************)
EXTENDS Naturals, FiniteSets

CONSTANTS Users, Projects, Teams, Tokens,
          Default,      \* DEFAULT_PROJECT_ID
          Requests,     \* request threads
          NoProject, NoToken, NoUser,
          Given,        \* the ranks that requests give to teams and projects
          MaxDecided,   \* bound on the requests between decision and commit
          MaxChanges    \* bound on the commits

ASSUME AccessAssumption ==
  /\ Default \in Projects /\ {NoProject, "everything"} \cap Projects = {}
  /\ NoToken \notin Tokens \cup Users /\ "everything" # NoProject
  /\ Given \subseteq 1..3 /\ MaxDecided \in Nat /\ MaxChanges \in Nat

VARIABLES exists,    \* the projects there are
          base,      \* base[p]: default_role, as a rank
          teams,     \* the teams there are
          members,   \* members[t]: the users in team t
          grant,     \* grant[p][t]: rank of the team's role on the project
          admin,     \* users whose is_admin was set at their last sign-in
          signedIn,  \* users with a session that is neither revoked nor expired
          token,     \* token[k]: an API token
          at,        \* at[r]: where request r is
          who,       \* who[r]: the identity the middleware found
          op,        \* op[r]: what the handler is about to commit
          could,     \* history: what the caller could do when the database was read
          changes    \* commits so far

roleVars    == <<exists, base, teams, members, grant>>
personVars  == <<admin, signedIn, token>>
requestVars == <<at, who, op, could>>
accessVars  == <<roleVars, personVars, requestVars, changes>>

Viewer == 1
Editor == 2
Admin  == 3
Ranks  == Viewer..Admin      \* RANK; 0 stands for no role

Everything == <<"everything", Admin>>
OnProjects == Projects \X Ranks
Permissions == OnProjects \cup {Everything}

Identities == [user : Users, admin : BOOLEAN, token : Tokens \cup {NoToken}]
Nobody     == [user |-> NoUser, admin |-> FALSE, token |-> NoToken]
Unused     == [owner |-> NoToken, project |-> NoProject, live |-> FALSE]
TokenRows  == [owner : Users, project : Projects \cup {NoProject}, live : BOOLEAN]

Ops == [kind : {"project", "default role"}, project : Projects, rank : 0..Editor]
       \cup [kind : {"grant"}, project : Projects, team : Teams, rank : Ranks, row : BOOLEAN]
       \cup [kind : {"ungrant"}, project : Projects, team : Teams]
       \cup [kind : {"team"}, team : Teams]
       \cup [kind : {"member", "unmember"}, team : Teams, user : Users]
       \cup [kind : {"token"}, token : Tokens, project : Projects \cup {NoProject}]
       \cup [kind : {"revoke"}, token : Tokens]
       \cup [kind : {"data"}, project : Projects]
NoOp == [kind |-> "none"]

\* A new service, or one whose administrators have let teams administer the
\* projects other than Default, and whose users have made tokens.
AccessInit ==
  /\ \/ exists = {Default} /\ teams = {} /\ members = [t \in Teams |-> {}]
     \/ exists = Projects /\ teams = Teams /\ members \in [Teams -> SUBSET Users]
  /\ base = [p \in Projects |-> IF p = Default THEN Editor ELSE 0]
  /\ grant = [p \in Projects |-> [t \in Teams |->
                IF p \in exists \ {Default} /\ t \in teams THEN Admin ELSE 0]]
  /\ admin = {}
  /\ signedIn = {}
  /\ token \in [Tokens -> {Unused} \cup
                  [owner : Users, project : exists \ {Default}, live : {TRUE}]]
  /\ at = [r \in Requests |-> "idle"] /\ who = [r \in Requests |-> Nobody]
  /\ op = [r \in Requests |-> NoOp] /\ could = [r \in Requests |-> {}]
  /\ changes = 0

-----------------------------------------------------------------------------
(* What a caller may do *)

\* The roles a user has without being an administrator: the default role of
\* every project, and the roles of the user's teams where they are higher.
RolesOf(u) ==
  {x \in OnProjects : /\ x[1] \in exists
                      /\ \/ base[x[1]] >= x[2]
                         \/ \E t \in Teams : u \in members[t] /\ grant[x[1]][t] >= x[2]}

\* access_for
WrongAccessFor(w) ==   \* the token's project adds to its owner's, and does not narrow
  LET bound == IF w.token = NoToken THEN NoProject ELSE token[w.token].project
      seen  == {p \in Projects : <<p, Viewer>> \in RolesOf(w.user)}
  IN IF w.admin /\ bound = NoProject THEN Permissions
     ELSE IF w.admin THEN (seen \cup ({bound} \ {NoProject})) \X Ranks ELSE RolesOf(w.user)

AccessFor(w) ==
  LET bound == IF w.token = NoToken THEN NoProject ELSE token[w.token].project
      seen  == {p \in Projects : <<p, Viewer>> \in RolesOf(w.user)}
      roles == IF w.admin THEN (seen \cup ({bound} \ {NoProject})) \X Ranks ELSE RolesOf(w.user)
  IN IF w.admin /\ bound = NoProject THEN Permissions
     ELSE IF bound = NoProject THEN roles
     ELSE {x \in roles : x[1] = bound}

\* The same as a statement about the database: the rights of a user, or of the
\* user's token k.
Rights(u, k) ==
  LET bound == IF k = NoToken THEN NoProject ELSE token[k].project
  IN {x \in IF u \in admin THEN Permissions ELSE RolesOf(u) : bound \in {NoProject, x[1]}}

-----------------------------------------------------------------------------
(* Sign-in, sign-out, and the middleware *)

\* callback(): the configured list of administrators decides at every sign-in.
SignIn(u) ==
  /\ \E listed \in BOOLEAN : admin' = IF listed THEN admin \cup {u} ELSE admin \ {u}
  /\ signedIn' = signedIn \cup {u}
  /\ UNCHANGED <<roleVars, token, requestVars, changes>>

\* logout(), or the session expires.
SessionOver(u) ==
  /\ u \in signedIn
  /\ signedIn' = signedIn \ {u}
  /\ UNCHANGED <<roleVars, admin, token, requestVars, changes>>

Identified(r, u, k) ==
  /\ at[r] = "idle"
  /\ at' = [at EXCEPT ![r] = "known"]
  /\ who' = [who EXCEPT ![r] = [user |-> u, admin |-> u \in admin, token |-> k]]
  /\ could' = [could EXCEPT ![r] = Rights(u, k)]
  /\ UNCHANGED <<roleVars, personVars, op, changes>>

\* identify: by the session cookie, or by a token that is not revoked.
BySession(r, u) == u \in signedIn /\ Identified(r, u, NoToken)
ByToken(r, k)   == token[k] # Unused /\ token[k].live /\ Identified(r, token[k].owner, k)

-----------------------------------------------------------------------------
(* The handlers, up to the commit; a refusal is an answer and ends the request *)

Decide(r, o) ==
  /\ Cardinality({q \in Requests : at[q] = "decided"}) < MaxDecided
  /\ at' = [at EXCEPT ![r] = "decided"]
  /\ op' = [op EXCEPT ![r] = o]
  /\ could' = [could EXCEPT ![r] = @ \cup Rights(who[r].user, who[r].token)]
  /\ UNCHANGED <<roleVars, personVars, who, changes>>

Can(r, p, n)    == at[r] = "known" /\ <<p, n>> \in AccessFor(who[r])
CanAll(r)       == at[r] = "known" /\ Everything \in AccessFor(who[r])
Person(r)       == at[r] = "known" /\ who[r].token = NoToken
Administers(r, p) == p \in exists /\ Can(r, p, Viewer) /\ Can(r, p, Admin)

Answered(r) ==
  /\ at' = [at EXCEPT ![r] = "idle"] /\ who' = [who EXCEPT ![r] = Nobody]
  /\ op' = [op EXCEPT ![r] = NoOp] /\ could' = [could EXCEPT ![r] = {}]

Refuse(r) == at[r] = "known" /\ Answered(r) /\ UNCHANGED <<roleVars, personVars, changes>>

CreateProject(r, p, n) ==
  CanAll(r) /\ p \notin exists /\ Decide(r, [kind |-> "project", project |-> p, rank |-> n])

UpdateProject(r, p, n) ==
  Administers(r, p) /\ Decide(r, [kind |-> "default role", project |-> p, rank |-> n])

\* The row is looked up now: the commit will insert it or update it.
WrongPutGrant(r, p, t, n) ==   \* an editor may grant
  /\ p \in exists /\ Can(r, p, Editor) /\ t \in teams
  /\ Decide(r, [kind |-> "grant", project |-> p, team |-> t, rank |-> n, row |-> grant[p][t] # 0])

PutGrant(r, p, t, n) ==
  /\ Administers(r, p) /\ t \in teams
  /\ Decide(r, [kind |-> "grant", project |-> p, team |-> t, rank |-> n, row |-> grant[p][t] # 0])

DeleteGrant(r, p, t) ==
  /\ Administers(r, p) /\ grant[p][t] # 0
  /\ Decide(r, [kind |-> "ungrant", project |-> p, team |-> t])

CreateTeam(r, t) == CanAll(r) /\ t \notin teams /\ Decide(r, [kind |-> "team", team |-> t])

AddMember(r, t, u) ==
  /\ CanAll(r) /\ t \in teams /\ u \notin members[t]
  /\ Decide(r, [kind |-> "member", team |-> t, user |-> u])

RemoveMember(r, t, u) ==
  CanAll(r) /\ u \in members[t] /\ Decide(r, [kind |-> "unmember", team |-> t, user |-> u])

\* Tokens are managed by people, not by tokens.
CreateToken(r, k, p) ==
  /\ Person(r) /\ token[k] = Unused
  /\ p = NoProject \/ (p \in exists /\ Can(r, p, Viewer))
  /\ Decide(r, [kind |-> "token", token |-> k, project |-> p])

RevokeToken(r, k) ==
  /\ Person(r) /\ token[k] # Unused /\ token[k].live
  /\ token[k].owner = who[r].user \/ who[r].admin
  /\ Decide(r, [kind |-> "revoke", token |-> k])

\* write_project: new data goes to the project asked for, else to the token's,
\* else to Default; a token's project and another one asked for do not mix.
WriteData(r, asked) ==
  LET bound == IF who[r].token = NoToken THEN NoProject ELSE token[who[r].token].project
      p     == CHOOSE q \in Projects : \/ q = asked
                                       \/ asked = NoProject /\ q = bound
                                       \/ asked = NoProject /\ bound = NoProject /\ q = Default
  IN /\ asked = NoProject \/ bound \in {NoProject, asked}
     /\ p \in exists /\ Can(r, p, Viewer) /\ Can(r, p, Editor)
     /\ Decide(r, [kind |-> "data", project |-> p])

-----------------------------------------------------------------------------
(* The commit; it fails, and writes nothing, when a row that was looked up is *)
(* there or gone by now, or when the database fails                          *)

Ended(r) ==
  /\ at[r] = "decided"
  /\ Answered(r) /\ UNCHANGED <<admin, signedIn>>

Committed(r, kinds) ==
  /\ op[r].kind \in kinds /\ changes < MaxChanges
  /\ changes' = changes + 1
  /\ Ended(r)

CommitProject(r) ==
  /\ Committed(r, {"project", "default role"})
  /\ op[r].kind = "project" => op[r].project \notin exists
  /\ exists' = exists \cup {op[r].project}
  /\ base' = [base EXCEPT ![op[r].project] = op[r].rank]
  /\ UNCHANGED <<teams, members, grant, token>>

CommitGrant(r) ==
  /\ Committed(r, {"grant", "ungrant"})
  /\ op[r].kind = "grant" => op[r].row = (grant[op[r].project][op[r].team] # 0)
  /\ grant' = [grant EXCEPT ![op[r].project][op[r].team] =
                 IF op[r].kind = "grant" THEN op[r].rank ELSE 0]
  /\ UNCHANGED <<exists, base, teams, members, token>>

CommitTeam(r) ==
  /\ Committed(r, {"team"}) /\ op[r].team \notin teams
  /\ teams' = teams \cup {op[r].team}
  /\ UNCHANGED <<exists, base, members, grant, token>>

CommitMember(r) ==
  /\ Committed(r, {"member", "unmember"})
  /\ members' = [members EXCEPT ![op[r].team] =
                   IF op[r].kind = "member" THEN @ \cup {op[r].user} ELSE @ \ {op[r].user}]
  /\ UNCHANGED <<exists, base, teams, grant, token>>

\* Token ids are random: two requests never make the same one.
CommitToken(r) ==
  /\ Committed(r, {"token", "revoke"})
  /\ op[r].kind = "token" => token[op[r].token] = Unused
  /\ token' = [token EXCEPT ![op[r].token] =
                 IF op[r].kind = "token"
                 THEN [owner |-> who[r].user, project |-> op[r].project, live |-> TRUE]
                 ELSE [@ EXCEPT !.live = FALSE]]
  /\ UNCHANGED roleVars

\* The data itself is ServiceData's.
CommitData(r) == op[r].kind = "data" /\ Ended(r) /\ UNCHANGED <<roleVars, token, changes>>

CommitFails(r) == Ended(r) /\ UNCHANGED <<roleVars, token, changes>>

AccessNext ==
  \/ \E u \in Users : SignIn(u) \/ SessionOver(u)
  \/ \E r \in Requests :
       \/ \E u \in Users : BySession(r, u)
       \/ \E k \in Tokens : ByToken(r, k)
       \/ Refuse(r)
       \/ \E p \in Projects, n \in (Given \cup {0}) \cap 0..Editor : CreateProject(r, p, n) \/ UpdateProject(r, p, n)
       \/ \E p \in Projects, t \in Teams :
            DeleteGrant(r, p, t) \/ \E n \in Given : PutGrant(r, p, t, n)
       \/ \E t \in Teams : CreateTeam(r, t)
       \/ \E t \in Teams, u \in Users : AddMember(r, t, u) \/ RemoveMember(r, t, u)
       \/ \E k \in Tokens : RevokeToken(r, k)
       \/ \E p \in Projects \cup {NoProject} :
            WriteData(r, p) \/ \E k \in Tokens : CreateToken(r, k, p)
       \/ CommitProject(r) \/ CommitGrant(r) \/ CommitTeam(r) \/ CommitMember(r)
       \/ CommitToken(r) \/ CommitData(r) \/ CommitFails(r)

AccessSpec == AccessInit /\ [][AccessNext]_accessVars

-----------------------------------------------------------------------------
(* Properties *)

AccessTypeOK ==
  /\ exists \subseteq Projects /\ base \in [Projects -> 0..Editor]
  /\ teams \subseteq Teams /\ members \in [Teams -> SUBSET Users]
  /\ grant \in [Projects -> [Teams -> 0..Admin]]
  /\ admin \subseteq Users /\ signedIn \subseteq Users
  /\ token \in [Tokens -> TokenRows \cup {Unused}]
  /\ at \in [Requests -> {"idle", "known", "decided"}]
  /\ who \in [Requests -> Identities \cup {Nobody}] /\ op \in [Requests -> Ops \cup {NoOp}]
  /\ could \in [Requests -> SUBSET Permissions] /\ changes \in 0..MaxChanges

\* The permission an operation takes; managing tokens takes none.
Needs(o) ==
  CASE o.kind \in {"project", "team", "member", "unmember"} -> {Everything}
    [] o.kind \in {"default role", "grant", "ungrant"} -> {<<o.project, Admin>>}
    [] o.kind = "data" -> {<<o.project, Editor>>}
    [] o.kind = "token" -> {<<o.project, Viewer>>} \cap OnProjects
    [] OTHER -> {}

\* Nothing is written for a caller who lacked the permission at every moment
\* of the request: the identity read by the middleware and the roles read later
\* are of different moments, an administrator's token is raised and narrowed,
\* and yet the decision is one that the database justified at one of the two.
WriteWasAllowed == \A r \in Requests : at[r] = "decided" => Needs(op[r]) \subseteq could[r]

\* A user's role on a project rises only at a sign-in of that user as an
\* administrator, or by a request of someone who administered that project:
\* nobody gives away, through teams, default roles or new projects, a role on
\* a project that is not theirs.
RolesRiseByAdmins ==
  [][\/ UNCHANGED <<roleVars, admin>>
     \/ \A u \in Users : \A x \in Rights(u, NoToken)' \ Rights(u, NoToken) :
          \/ u \in admin' \ admin
          \/ \E r \in Requests : /\ at[r] = "decided" /\ at'[r] = "idle"
                                 /\ {<<x[1], Admin>>, Everything} \cap could[r] # {}]_<<roleVars, admin>>

\* Nobody gets a role, on any project, but by somebody who administers it.
RolesAreEarned == []AccessTypeOK /\ RolesRiseByAdmins
=============================================================================
