---------------------------- MODULE AccessProofs ----------------------------
(***************************************************************************)
(* Proofs about Access, for any users, projects, teams, tokens, request    *)
(* threads and bounds: types, and that no write is decided for a caller    *)
(* the database gave no right to it during the request.                    *)
(***************************************************************************)
EXTENDS Access, TLAPS

\* The project a caller's token is made for, or NoProject.
Bound(w) == IF w.token = NoToken THEN NoProject ELSE token[w.token].project

\* What the middleware saw is still what the request rests on: the token's row
\* is the same, and an administrator's rights were those of that moment.
KnownIsJustified ==
  \A r \in Requests : at[r] # "idle" =>
    /\ who[r] \in Identities
    /\ who[r].token # NoToken => token[who[r].token] # Unused
    /\ who[r].admin => {x \in Permissions : Bound(who[r]) \in {NoProject, x[1]}} \subseteq could[r]

\* A token that is being revoked was made.
RevokesMade ==
  \A r \in Requests : at[r] = "decided" /\ op[r].kind = "revoke" => token[op[r].token] # Unused

IInv == AccessTypeOK /\ KnownIsJustified /\ RevokesMade /\ WriteWasAllowed

\* The rows that are no request's.
DatabaseTypeOK ==
  /\ exists \subseteq Projects /\ base \in [Projects -> 0..Editor]
  /\ teams \subseteq Teams /\ members \in [Teams -> SUBSET Users]
  /\ grant \in [Projects -> [Teams -> 0..Admin]]
  /\ admin \subseteq Users /\ signedIn \subseteq Users
  /\ token \in [Tokens -> TokenRows \cup {Unused}]
  /\ changes \in 0..MaxChanges

\* A token that was made keeps its project.
TokensStay ==
  \A k \in Tokens : token[k] # Unused =>
    token'[k] # Unused /\ token'[k].project = token[k].project

-----------------------------------------------------------------------------
(* Facts about the operators *)

\* A caller's rights are permissions.
LEMMA RightsAreIn ==
  ASSUME NEW u, NEW k PROVE Rights(u, k) \subseteq Permissions
<1>1. RolesOf(u) \subseteq OnProjects
  BY DEF RolesOf
<1> QED BY <1>1 DEF Rights, Permissions

\* The row of a token that was made.
LEMMA MadeToken ==
  ASSUME AccessTypeOK, NEW k \in Tokens, token[k] # Unused
  PROVE  token[k] \in TokenRows
  BY DEF AccessTypeOK

\* What access_for gives a known caller is covered by the rights the database
\* gave at the two moments of the request: an administrator's identity by the
\* first, everyone else's roles by the second.
LEMMA AccessIsCovered ==
  ASSUME AccessTypeOK, KnownIsJustified, NEW r \in Requests, at[r] = "known"
  PROVE  AccessFor(who[r]) \subseteq could[r] \cup Rights(who[r].user, who[r].token)
<1> DEFINE w == who[r]
           b == Bound(w)
<1>1. /\ w \in Identities
      /\ w.token # NoToken => token[w.token] # Unused
      /\ w.admin => {x \in Permissions : b \in {NoProject, x[1]}} \subseteq could[r]
  BY DEF KnownIsJustified
<1>2. b \in Projects \cup {NoProject}
  BY <1>1, MadeToken DEF Bound, Identities, TokenRows
<1>3. RolesOf(w.user) \subseteq OnProjects
  BY DEF RolesOf
<1>4. CASE w.admin /\ b = NoProject
  <2>1. AccessFor(w) = Permissions
    BY <1>4 DEF AccessFor, Bound
  <2> QED BY <2>1, <1>1, <1>4
<1>5. CASE w.admin /\ b # NoProject
  <2>1. \A x \in AccessFor(w) : x \in OnProjects /\ x[1] = b
    BY <1>2, <1>5 DEF AccessFor, Bound, OnProjects
  <2> QED BY <2>1, <1>1, <1>5 DEF Permissions
<1>6. CASE ~w.admin
  <2>1. AccessFor(w) = {x \in RolesOf(w.user) : b \in {NoProject, x[1]}}
    BY <1>6 DEF AccessFor, Bound
  <2>2. AccessFor(w) \subseteq Rights(w.user, w.token)
    BY <2>1, <1>3 DEF Rights, Bound, Permissions
  <2> QED BY <2>2
<1> QED BY <1>4, <1>5, <1>6

\* The fields of each kind of operation.
LEMMA OpParts ==
  ASSUME NEW o \in Ops \cup {NoOp}
  PROVE  /\ o.kind \in {"project", "default role"} => o.project \in Projects /\ o.rank \in 0..Editor
         /\ o.kind \in {"grant", "ungrant"} => o.project \in Projects /\ o.team \in Teams
         /\ o.kind = "grant" => o.rank \in Ranks
         /\ o.kind = "team" => o.team \in Teams
         /\ o.kind \in {"member", "unmember"} => o.team \in Teams /\ o.user \in Users
         /\ o.kind \in {"token", "revoke"} => o.token \in Tokens
         /\ o.kind = "token" => o.project \in Projects \cup {NoProject}
<1>1. CASE o \in [kind : {"project", "default role"}, project : Projects, rank : 0..Editor]
  BY <1>1
<1>2. CASE o \in [kind : {"grant"}, project : Projects, team : Teams, rank : Ranks, row : BOOLEAN]
  BY <1>2
<1>3. CASE o \in [kind : {"ungrant"}, project : Projects, team : Teams]
  BY <1>3
<1>4. CASE o \in [kind : {"team"}, team : Teams]
  BY <1>4
<1>5. CASE o \in [kind : {"member", "unmember"}, team : Teams, user : Users]
  BY <1>5
<1>6. CASE o \in [kind : {"token"}, token : Tokens, project : Projects \cup {NoProject}]
  BY <1>6
<1>7. CASE o \in [kind : {"revoke"}, token : Tokens]
  BY <1>7
<1>8. CASE o \in [kind : {"data"}, project : Projects]
  BY <1>8
<1>9. CASE o = NoOp
  BY <1>9 DEF NoOp
<1> QED BY <1>1, <1>2, <1>3, <1>4, <1>5, <1>6, <1>7, <1>8, <1>9 DEF Ops

-----------------------------------------------------------------------------
(* The two ways a handler ends: with a decision, or with an answer *)

\* A decision that access_for supports is one the database justified.
LEMMA DecideKeeps ==
  ASSUME IInv, NEW r \in Requests, NEW o \in Ops, at[r] = "known",
         Needs(o) \subseteq AccessFor(who[r]), o.kind = "revoke" => token[o.token] # Unused,
         Decide(r, o)
  PROVE  IInv'
<1> USE DEF IInv
<1>1. Rights(who[r].user, who[r].token) \subseteq Permissions
  BY RightsAreIn
<1>2. /\ at' = [at EXCEPT ![r] = "decided"]
      /\ op' = [op EXCEPT ![r] = o]
      /\ could' = [could EXCEPT ![r] = @ \cup Rights(who[r].user, who[r].token)]
      /\ UNCHANGED <<exists, base, teams, members, grant, admin, signedIn, token, who, changes>>
  BY DEF Decide, roleVars, personVars
<1>3. AccessTypeOK'
  BY <1>1, <1>2 DEF AccessTypeOK
<1>4. KnownIsJustified'
  <2> SUFFICES ASSUME NEW q \in Requests, at'[q] # "idle"
               PROVE  /\ who[q] \in Identities
                      /\ who[q].token # NoToken => token[who[q].token] # Unused
                      /\ who[q].admin => {x \in Permissions : Bound(who[q]) \in {NoProject, x[1]}} \subseteq could'[q]
    BY <1>2 DEF KnownIsJustified, Bound
  <2>1. at[q] # "idle" /\ could[q] \subseteq could'[q]
    BY <1>2 DEF AccessTypeOK
  <2> QED BY <2>1 DEF KnownIsJustified
<1>5. WriteWasAllowed'
  <2> SUFFICES ASSUME NEW q \in Requests, at'[q] = "decided"
               PROVE  Needs(op'[q]) \subseteq could'[q]
    BY DEF WriteWasAllowed, Needs
  <2>1. CASE q = r
    <3>1. op'[q] = o /\ could'[q] = could[r] \cup Rights(who[r].user, who[r].token)
      BY <1>2, <2>1 DEF AccessTypeOK
    <3> QED BY <3>1, AccessIsCovered
  <2>2. CASE q # r
    <3>1. at[q] = "decided" /\ op'[q] = op[q] /\ could'[q] = could[q]
      BY <1>2, <2>2 DEF AccessTypeOK
    <3> QED BY <3>1 DEF WriteWasAllowed
  <2> QED BY <2>1, <2>2
<1>6. RevokesMade'
  BY <1>2 DEF RevokesMade, AccessTypeOK
<1> QED BY <1>3, <1>4, <1>5, <1>6

\* A step that answers r, or no request at all, and keeps the tokens' projects.
LEMMA AnsweredKeeps ==
  ASSUME IInv, NEW r \in Requests, Answered(r) \/ UNCHANGED requestVars,
         DatabaseTypeOK', TokensStay
  PROVE  IInv'
<1> USE DEF IInv
<1>1. /\ at' \in [Requests -> {"idle", "known", "decided"}]
      /\ who' \in [Requests -> Identities \cup {Nobody}]
      /\ op' \in [Requests -> Ops \cup {NoOp}]
      /\ could' \in [Requests -> SUBSET Permissions]
  BY DEF AccessTypeOK, Answered, requestVars
<1>2. \A q \in Requests : at'[q] # "idle" =>
        at'[q] = at[q] /\ who'[q] = who[q] /\ op'[q] = op[q] /\ could'[q] = could[q]
  BY DEF AccessTypeOK, Answered, requestVars
<1>3. AccessTypeOK'
  BY <1>1 DEF AccessTypeOK, DatabaseTypeOK
<1>4. KnownIsJustified'
  <2> SUFFICES ASSUME NEW q \in Requests, at'[q] # "idle"
               PROVE  /\ who'[q] \in Identities
                      /\ who'[q].token # NoToken => token'[who'[q].token] # Unused
                      /\ who'[q].admin => {x \in Permissions : Bound(who[q])' \in {NoProject, x[1]}} \subseteq could'[q]
    BY DEF KnownIsJustified, Bound
  <2>1. /\ who[q] \in Identities
        /\ who[q].token # NoToken => token[who[q].token] # Unused
        /\ who[q].admin => {x \in Permissions : Bound(who[q]) \in {NoProject, x[1]}} \subseteq could[q]
    BY <1>2 DEF KnownIsJustified
  <2>2. who[q].token # NoToken =>
          token'[who[q].token] # Unused /\ token'[who[q].token].project = token[who[q].token].project
    BY <2>1 DEF TokensStay, Identities
  <2>3. Bound(who[q])' = Bound(who[q])
    BY <1>2, <2>2 DEF Bound
  <2> QED BY <1>2, <2>1, <2>2, <2>3
<1>5. WriteWasAllowed'
  BY <1>2 DEF WriteWasAllowed
<1>6. RevokesMade'
  <2> SUFFICES ASSUME NEW q \in Requests, at'[q] = "decided", op'[q].kind = "revoke"
               PROVE  token'[op'[q].token] # Unused
    BY DEF RevokesMade
  <2>1. at[q] = "decided" /\ op'[q] = op[q] /\ op[q] \in Ops \cup {NoOp}
    BY <1>2 DEF AccessTypeOK
  <2>2. op[q].token \in Tokens /\ token[op[q].token] # Unused
    BY <2>1, OpParts DEF RevokesMade
  <2> QED BY <2>1, <2>2 DEF TokensStay
<1> QED BY <1>3, <1>4, <1>5, <1>6

-----------------------------------------------------------------------------
(* The steps *)

\* A handler's decision needs no more than access_for gives its caller.
LEMMA HandlersKeep ==
  ASSUME IInv, NEW r \in Requests,
         \/ \E p \in Projects, m \in 0..Editor : CreateProject(r, p, m) \/ UpdateProject(r, p, m)
         \/ \E p \in Projects, t \in Teams :
              DeleteGrant(r, p, t) \/ \E n \in Ranks : PutGrant(r, p, t, n)
         \/ \E t \in Teams : CreateTeam(r, t)
         \/ \E t \in Teams, u \in Users : AddMember(r, t, u) \/ RemoveMember(r, t, u)
         \/ \E k \in Tokens : RevokeToken(r, k)
         \/ \E asked \in Projects \cup {NoProject} :
              WriteData(r, asked) \/ \E k \in Tokens : CreateToken(r, k, asked)
  PROVE  IInv'
<1>1. ASSUME NEW o \in Ops, at[r] = "known", Decide(r, o), Needs(o) \subseteq AccessFor(who[r]),
             o.kind = "revoke" => token[o.token] # Unused
      PROVE  IInv'
  BY <1>1, DecideKeeps
<1>2. ASSUME NEW p \in Projects, NEW m \in 0..Editor, CreateProject(r, p, m)
      PROVE  IInv'
  <2> DEFINE o == [kind |-> "project", project |-> p, rank |-> m]
  <2>1. o \in Ops
    BY DEF Ops
  <2>2. Needs(o) = {Everything}
    BY DEF Needs
  <2> QED BY <1>1, <1>2, <2>1, <2>2 DEF CreateProject, CanAll
<1>3. ASSUME NEW p \in Projects, NEW m \in 0..Editor, UpdateProject(r, p, m)
      PROVE  IInv'
  <2> DEFINE o == [kind |-> "default role", project |-> p, rank |-> m]
  <2>1. o \in Ops
    BY DEF Ops
  <2>2. Needs(o) = {<<p, Admin>>}
    BY DEF Needs
  <2> QED BY <1>1, <1>3, <2>1, <2>2 DEF UpdateProject, Administers, Can
<1>4. ASSUME NEW p \in Projects, NEW t \in Teams, NEW n \in Ranks, PutGrant(r, p, t, n)
      PROVE  IInv'
  <2> DEFINE o == [kind |-> "grant", project |-> p, team |-> t, rank |-> n, row |-> grant[p][t] # 0]
  <2>1. o \in Ops
    BY DEF Ops
  <2>2. Needs(o) = {<<p, Admin>>}
    BY DEF Needs
  <2> QED BY <1>1, <1>4, <2>1, <2>2 DEF PutGrant, Administers, Can
<1>5. ASSUME NEW p \in Projects, NEW t \in Teams, DeleteGrant(r, p, t)
      PROVE  IInv'
  <2> DEFINE o == [kind |-> "ungrant", project |-> p, team |-> t]
  <2>1. o \in Ops
    BY DEF Ops
  <2>2. Needs(o) = {<<p, Admin>>}
    BY DEF Needs
  <2> QED BY <1>1, <1>5, <2>1, <2>2 DEF DeleteGrant, Administers, Can
<1>6. ASSUME NEW t \in Teams, CreateTeam(r, t)
      PROVE  IInv'
  <2> DEFINE o == [kind |-> "team", team |-> t]
  <2>1. o \in Ops
    BY DEF Ops
  <2>2. Needs(o) = {Everything}
    BY DEF Needs
  <2> QED BY <1>1, <1>6, <2>1, <2>2 DEF CreateTeam, CanAll
<1>7. ASSUME NEW t \in Teams, NEW u \in Users, AddMember(r, t, u)
      PROVE  IInv'
  <2> DEFINE o == [kind |-> "member", team |-> t, user |-> u]
  <2>1. o \in Ops
    BY DEF Ops
  <2>2. Needs(o) = {Everything}
    BY DEF Needs
  <2> QED BY <1>1, <1>7, <2>1, <2>2 DEF AddMember, CanAll
<1>8. ASSUME NEW t \in Teams, NEW u \in Users, RemoveMember(r, t, u)
      PROVE  IInv'
  <2> DEFINE o == [kind |-> "unmember", team |-> t, user |-> u]
  <2>1. o \in Ops
    BY DEF Ops
  <2>2. Needs(o) = {Everything}
    BY DEF Needs
  <2> QED BY <1>1, <1>8, <2>1, <2>2 DEF RemoveMember, CanAll
<1>9. ASSUME NEW k \in Tokens, NEW asked \in Projects \cup {NoProject}, CreateToken(r, k, asked)
      PROVE  IInv'
  <2> DEFINE o == [kind |-> "token", token |-> k, project |-> asked]
  <2>1. o \in Ops
    BY DEF Ops
  <2>2. Needs(o) = {<<asked, Viewer>>} \cap OnProjects
    BY DEF Needs
  <2>3. asked = NoProject => Needs(o) = {}
    BY <2>2, AccessAssumption DEF OnProjects
  <2> QED BY <1>1, <1>9, <2>1, <2>2, <2>3 DEF CreateToken, Person, Can
<1>10. ASSUME NEW k \in Tokens, RevokeToken(r, k)
      PROVE  IInv'
  <2> DEFINE o == [kind |-> "revoke", token |-> k]
  <2>1. o \in Ops
    BY DEF Ops
  <2>2. Needs(o) = {}
    BY DEF Needs
  <2> QED BY <1>1, <1>10, <2>1, <2>2 DEF RevokeToken, Person
<1>11. ASSUME NEW asked \in Projects \cup {NoProject}, WriteData(r, asked)
      PROVE  IInv'
  <2>1. PICK q \in Projects : Can(r, q, Editor) /\ Decide(r, [kind |-> "data", project |-> q])
    BY <1>11 DEF WriteData, IInv, AccessTypeOK
  <2> DEFINE o == [kind |-> "data", project |-> q]
  <2>2. o \in Ops
    BY DEF Ops
  <2>3. Needs(o) = {<<q, Editor>>}
    BY DEF Needs
  <2> QED BY <1>1, <2>1, <2>2, <2>3 DEF Can
<1> QED BY <1>2, <1>3, <1>4, <1>5, <1>6, <1>7, <1>8, <1>9, <1>10, <1>11

\* The middleware's read: the rights of that moment justify the identity.
LEMMA IdentifiedKeeps ==
  ASSUME IInv, NEW r \in Requests, NEW u \in Users, NEW k \in Tokens \cup {NoToken},
         k # NoToken => token[k] # Unused, Identified(r, u, k)
  PROVE  IInv'
<1> USE DEF IInv
<1>1. /\ at' = [at EXCEPT ![r] = "known"]
      /\ who' = [who EXCEPT ![r] = [user |-> u, admin |-> u \in admin, token |-> k]]
      /\ could' = [could EXCEPT ![r] = Rights(u, k)]
      /\ UNCHANGED <<exists, base, teams, members, grant, admin, signedIn, token, op, changes>>
  BY DEF Identified, roleVars, personVars
<1>2. [user |-> u, admin |-> u \in admin, token |-> k] \in Identities
  BY DEF Identities
<1>3. AccessTypeOK'
  BY <1>1, <1>2, RightsAreIn DEF AccessTypeOK
<1>4. KnownIsJustified'
  <2> SUFFICES ASSUME NEW q \in Requests, at'[q] # "idle"
               PROVE  /\ who'[q] \in Identities
                      /\ who'[q].token # NoToken => token[who'[q].token] # Unused
                      /\ who'[q].admin => {x \in Permissions : Bound(who'[q]) \in {NoProject, x[1]}} \subseteq could'[q]
    BY <1>1 DEF KnownIsJustified, Bound
  <2>1. CASE q = r
    <3>1. /\ who'[q] = [user |-> u, admin |-> u \in admin, token |-> k]
          /\ could'[q] = Rights(u, k)
      BY <1>1, <2>1 DEF AccessTypeOK
    <3>2. who'[q].user = u /\ who'[q].token = k
      BY <3>1
    <3>3. who'[q].admin <=> u \in admin
      <4>1. CASE u \in admin
        <5>1. (u \in admin) = TRUE
          BY <4>1, Zenon
        <5>2. who'[q] = [user |-> u, admin |-> TRUE, token |-> k]
          BY <3>1, <5>1, Zenon
        <5> QED BY <4>1, <5>2
      <4>2. CASE u \notin admin
        <5>1. (u \in admin) = FALSE
          BY <4>2, SMT
        <5>2. who'[q] = [user |-> u, admin |-> FALSE, token |-> k]
          BY <3>1, <5>1, Zenon
        <5> QED BY <4>2, <5>2
      <4> QED BY <4>1, <4>2
    <3>4. u \in admin => {x \in Permissions : Bound(who'[q]) \in {NoProject, x[1]}} \subseteq Rights(u, k)
      BY <3>2 DEF Rights, Bound
    <3> QED BY <3>1, <3>2, <3>3, <3>4, <1>2
  <2>2. CASE q # r
    <3>1. at[q] = at'[q] /\ who'[q] = who[q] /\ could'[q] = could[q]
      BY <1>1, <2>2 DEF AccessTypeOK
    <3> QED BY <3>1 DEF KnownIsJustified
  <2> QED BY <2>1, <2>2
<1>5. WriteWasAllowed' /\ RevokesMade'
  BY <1>1 DEF WriteWasAllowed, RevokesMade, AccessTypeOK
<1> QED BY <1>3, <1>4, <1>5

\* The commits keep the rows well-typed, and a token its project.
LEMMA CommitsKeep ==
  ASSUME IInv, NEW r \in Requests,
         \/ CommitProject(r) \/ CommitGrant(r) \/ CommitTeam(r) \/ CommitMember(r)
         \/ CommitToken(r) \/ CommitData(r) \/ CommitFails(r)
  PROVE  IInv'
<1> USE DEF IInv, Ended, roleVars
<1>1. Answered(r)
  BY DEF CommitProject, CommitGrant, CommitTeam, CommitMember, CommitToken, CommitData, CommitFails, Committed
<1>2. op[r] \in Ops \cup {NoOp} /\ at[r] = "decided"
  BY DEF AccessTypeOK, CommitProject, CommitGrant, CommitTeam, CommitMember, CommitToken, CommitData, CommitFails, Committed
<1>3. ASSUME NEW kinds, Committed(r, kinds)
      PROVE  op[r].kind \in kinds /\ changes' \in 0..MaxChanges /\ UNCHANGED <<admin, signedIn>>
  BY <1>3, AccessAssumption DEF Committed, AccessTypeOK
<1>4. CASE CommitProject(r)
  <2>1. op[r].project \in Projects /\ op[r].rank \in 0..Editor
    BY <1>2, <1>4, OpParts DEF CommitProject, Committed
  <2>2. DatabaseTypeOK'
    BY <1>3, <1>4, <2>1 DEF CommitProject, AccessTypeOK, DatabaseTypeOK
  <2>3. TokensStay
    BY <1>4 DEF CommitProject, TokensStay
  <2> QED BY <1>1, <2>2, <2>3, AnsweredKeeps
<1>5. CASE CommitGrant(r)
  <2>1. op[r].project \in Projects /\ op[r].team \in Teams /\ (op[r].kind = "grant" => op[r].rank \in Ranks)
    BY <1>2, <1>5, OpParts DEF CommitGrant, Committed
  <2>2. grant' \in [Projects -> [Teams -> 0..Admin]]
    <3> DEFINE value == IF op[r].kind = "grant" THEN op[r].rank ELSE 0
    <3>1. value \in 0..Admin
      BY <2>1 DEF Ranks, Viewer, Admin
    <3>2. grant' = [grant EXCEPT ![op[r].project] = [@ EXCEPT ![op[r].team] = value]]
      BY <1>5 DEF CommitGrant
    <3> QED BY <2>1, <3>1, <3>2 DEF AccessTypeOK
  <2>3. DatabaseTypeOK'
    BY <1>3, <1>5, <2>2 DEF CommitGrant, AccessTypeOK, DatabaseTypeOK
  <2>4. TokensStay
    BY <1>5 DEF CommitGrant, TokensStay
  <2> QED BY <1>1, <2>3, <2>4, AnsweredKeeps
<1>6. CASE CommitTeam(r)
  <2>1. op[r].team \in Teams
    BY <1>2, <1>6, OpParts DEF CommitTeam, Committed
  <2>2. DatabaseTypeOK'
    BY <1>3, <1>6, <2>1 DEF CommitTeam, AccessTypeOK, DatabaseTypeOK
  <2>3. TokensStay
    BY <1>6 DEF CommitTeam, TokensStay
  <2> QED BY <1>1, <2>2, <2>3, AnsweredKeeps
<1>7. CASE CommitMember(r)
  <2>1. op[r].team \in Teams /\ op[r].user \in Users
    BY <1>2, <1>7, OpParts DEF CommitMember, Committed
  <2>2. DatabaseTypeOK'
    BY <1>3, <1>7, <2>1 DEF CommitMember, AccessTypeOK, DatabaseTypeOK
  <2>3. TokensStay
    BY <1>7 DEF CommitMember, TokensStay
  <2> QED BY <1>1, <2>2, <2>3, AnsweredKeeps
<1>8. CASE CommitToken(r)
  <2> DEFINE k == op[r].token
  <2>1. k \in Tokens /\ (op[r].kind = "token" => op[r].project \in Projects \cup {NoProject})
    BY <1>2, <1>8, OpParts DEF CommitToken, Committed
  <2>2. who[r].user \in Users
    BY <1>2 DEF KnownIsJustified, Identities
  <2>3. /\ token' \in [Tokens -> TokenRows \cup {Unused}]
        /\ TokensStay
    <3>1. CASE op[r].kind = "token"
      <4> DEFINE row == [owner |-> who[r].user, project |-> op[r].project, live |-> TRUE]
      <4>1. token' = [token EXCEPT ![k] = row] /\ token[k] = Unused
        BY <1>8, <3>1 DEF CommitToken
      <4>2. row \in TokenRows
        BY <2>1, <2>2, <3>1 DEF TokenRows
      <4> QED BY <2>1, <4>1, <4>2 DEF AccessTypeOK, TokensStay
    <3>2. CASE op[r].kind # "token"
      <4> DEFINE row == [token[k] EXCEPT !.live = FALSE]
      <4>1. token' = [token EXCEPT ![k] = row]
        BY <1>8, <3>2 DEF CommitToken
      <4>2. token[k] \in TokenRows
        <5>1. op[r].kind = "revoke"
          BY <1>8, <3>2 DEF CommitToken, Committed
        <5>2. token[k] # Unused
          BY <1>2, <5>1 DEF RevokesMade
        <5> QED BY <2>1, <5>2, MadeToken
      <4>3. row \in TokenRows /\ row.project = token[k].project /\ row.owner \in Users
        BY <4>2 DEF TokenRows
      <4>4. row # Unused
        BY <4>3, AccessAssumption DEF Unused
      <4> QED BY <2>1, <4>1, <4>3, <4>4 DEF AccessTypeOK, TokensStay
    <3> QED BY <3>1, <3>2
  <2>4. DatabaseTypeOK'
    BY <1>3, <1>8, <2>3 DEF CommitToken, AccessTypeOK, DatabaseTypeOK
  <2> QED BY <1>1, <2>3, <2>4, AnsweredKeeps
<1>9. CASE CommitData(r) \/ CommitFails(r)
  <2>1. UNCHANGED <<exists, base, teams, members, grant, admin, signedIn, token, changes>>
    BY <1>9 DEF CommitData, CommitFails
  <2>2. DatabaseTypeOK' /\ TokensStay
    BY <2>1 DEF AccessTypeOK, DatabaseTypeOK, TokensStay
  <2> QED BY <1>1, <2>2, AnsweredKeeps
<1> QED BY <1>4, <1>5, <1>6, <1>7, <1>8, <1>9

-----------------------------------------------------------------------------
(* Theorems *)

\* The strengthening holds in the beginning and is kept by every step.
THEOREM Invariance == AccessSpec => []IInv
<1>1. AccessInit => IInv
  <2> SUFFICES ASSUME AccessInit PROVE IInv
    OBVIOUS
  <2>1. AccessTypeOK
    <3>1. /\ exists \subseteq Projects /\ teams \subseteq Teams /\ members \in [Teams -> SUBSET Users]
          /\ base \in [Projects -> 0..Editor]
          /\ grant \in [Projects -> [Teams -> 0..Admin]]
      BY AccessAssumption DEF AccessInit, Editor, Admin
    <3>2. token \in [Tokens -> TokenRows \cup {Unused}]
      <4>1. [owner : Users, project : exists \ {Default}, live : {TRUE}] \subseteq TokenRows
        BY <3>1 DEF TokenRows
      <4> QED BY <4>1 DEF AccessInit
    <3>3. changes \in 0..MaxChanges /\ admin \subseteq Users /\ signedIn \subseteq Users
      BY AccessAssumption DEF AccessInit
    <3>4. /\ at \in [Requests -> {"idle", "known", "decided"}]
          /\ who \in [Requests -> Identities \cup {Nobody}] /\ op \in [Requests -> Ops \cup {NoOp}]
          /\ could \in [Requests -> SUBSET Permissions]
      BY DEF AccessInit
    <3> QED BY <3>1, <3>2, <3>3, <3>4 DEF AccessTypeOK
  <2>2. KnownIsJustified /\ RevokesMade /\ WriteWasAllowed
    BY DEF AccessInit, KnownIsJustified, RevokesMade, WriteWasAllowed
  <2> QED BY <2>1, <2>2 DEF IInv
<1>2. IInv /\ [AccessNext]_accessVars => IInv'
  <2> SUFFICES ASSUME IInv, [AccessNext]_accessVars PROVE IInv'
    OBVIOUS
  <2>1. CASE UNCHANGED accessVars
    BY <2>1 DEF IInv, AccessTypeOK, KnownIsJustified, RevokesMade, WriteWasAllowed, Needs, Bound,
                accessVars, roleVars, personVars, requestVars
  <2>2. ASSUME NEW u \in Users, SignIn(u) \/ SessionOver(u) PROVE IInv'
    <3>1. DatabaseTypeOK' /\ TokensStay /\ UNCHANGED requestVars
      BY <2>2 DEF SignIn, SessionOver, IInv, AccessTypeOK, DatabaseTypeOK, TokensStay, roleVars
    <3>2. CASE Requests = {}
      BY <3>1, <3>2 DEF IInv, AccessTypeOK, DatabaseTypeOK, KnownIsJustified, RevokesMade, WriteWasAllowed, requestVars
    <3>3. CASE Requests # {}
      BY <3>1, <3>3, AnsweredKeeps
    <3> QED BY <3>2, <3>3
  <2>3. ASSUME NEW r \in Requests, NEW u \in Users, BySession(r, u) PROVE IInv'
    BY <2>3, IdentifiedKeeps DEF BySession
  <2>4. ASSUME NEW r \in Requests, NEW k \in Tokens, ByToken(r, k) PROVE IInv'
    <3>1. token[k] # Unused /\ Identified(r, token[k].owner, k)
      BY <2>4 DEF ByToken
    <3>2. token[k].owner \in Users
      BY <3>1, MadeToken DEF IInv, TokenRows
    <3> QED BY <3>1, <3>2, IdentifiedKeeps
  <2>5. ASSUME NEW r \in Requests, Refuse(r) PROVE IInv'
    <3>1. DatabaseTypeOK' /\ TokensStay /\ Answered(r)
      BY <2>5 DEF Refuse, IInv, AccessTypeOK, DatabaseTypeOK, TokensStay, roleVars, personVars
    <3> QED BY <3>1, AnsweredKeeps
  <2>6. ASSUME NEW r \in Requests, NEW p \in Projects, NEW n \in (Given \cup {0}) \cap 0..Editor,
               CreateProject(r, p, n) \/ UpdateProject(r, p, n)
        PROVE  IInv'
    BY <2>6, HandlersKeep
  <2>7. Given \subseteq Ranks
    BY AccessAssumption DEF Ranks, Viewer, Admin
  <2> QED BY <2>1, <2>2, <2>3, <2>4, <2>5, <2>6, <2>7, HandlersKeep, CommitsKeep DEF AccessNext
<1> QED BY <1>1, <1>2, PTL DEF AccessSpec

\* Types: every reachable state is well-typed.
THEOREM TypeCorrect == AccessSpec => []AccessTypeOK
<1>1. IInv => AccessTypeOK
  BY DEF IInv
<1> QED BY <1>1, Invariance, PTL

\* Every write of projects, roles, teams, members, tokens or data that the
\* service decides on is one that the caller had the right to, either when the
\* middleware identified the caller or when the handler read the roles: for
\* every number of concurrent requests and every order of their three steps.
THEOREM WritesAreAllowed == AccessSpec => []WriteWasAllowed
<1>1. IInv => WriteWasAllowed
  BY DEF IInv
<1> QED BY <1>1, Invariance, PTL

-----------------------------------------------------------------------------
(* Where roles come from *)

RolesUnchanged == UNCHANGED <<roleVars, admin>>

\* What request r could do when it decided includes administering p.
Administered(r, p) == {<<p, Admin>>, Everything} \cap could[r] # {}

RolesRise ==
  \A u \in Users : \A x \in Rights(u, NoToken)' \ Rights(u, NoToken) :
    \/ u \in admin' \ admin
    \/ \E r \in Requests : at[r] = "decided" /\ at'[r] = "idle" /\ Administered(r, x[1])

\* A user's roles, if no administrator's, rise on project p only when the
\* row of p or the memberships change.
LEMMA RolesOfRise ==
  ASSUME AccessTypeOK, NEW u \in Users, NEW r \in Requests,
         UNCHANGED admin, at[r] = "decided", at'[r] = "idle",
         NEW x \in Rights(u, NoToken)' \ Rights(u, NoToken),
         \/ Everything \in could[r]
         \/ \E p \in Projects : /\ <<p, Admin>> \in could[r]
                                /\ UNCHANGED members
                                /\ \A q \in Projects \ {p} :
                                     (q \in exists' => q \in exists) /\ base'[q] = base[q] /\ grant'[q] = grant[q]
  PROVE  Administered(r, x[1])
<1>1. CASE Everything \in could[r]
  BY <1>1 DEF Administered
<1>2. CASE \E p \in Projects : /\ <<p, Admin>> \in could[r]
                               /\ UNCHANGED members
                               /\ \A q \in Projects \ {p} :
                                    (q \in exists' => q \in exists) /\ base'[q] = base[q] /\ grant'[q] = grant[q]
  <2>1. PICK p \in Projects : /\ <<p, Admin>> \in could[r]
                              /\ UNCHANGED members
                              /\ \A q \in Projects \ {p} :
                                   (q \in exists' => q \in exists) /\ base'[q] = base[q] /\ grant'[q] = grant[q]
    BY <1>2
  <2>2. u \notin admin
    <3> SUFFICES ASSUME u \in admin PROVE FALSE
      OBVIOUS
    <3>1. Rights(u, NoToken)' = Rights(u, NoToken)
      BY DEF Rights
    <3> QED BY <3>1
  <2>3. x \in RolesOf(u)' /\ x \notin RolesOf(u) /\ x \in OnProjects
    BY <2>2 DEF Rights, RolesOf
  <2>4. x[1] = p
    <3> SUFFICES ASSUME x[1] # p PROVE FALSE
      OBVIOUS
    <3>1. x[1] \in Projects \ {p}
      BY <2>3 DEF OnProjects
    <3> QED BY <2>1, <2>3, <3>1 DEF RolesOf
  <2> QED BY <2>1, <2>4 DEF Administered
<1> QED BY <1>1, <1>2

\* Every step that touches roles is a sign-in or the commit of an allowed write.
LEMMA StepsEarn ==
  ASSUME IInv, AccessNext PROVE RolesUnchanged \/ RolesRise
<1> USE DEF IInv
<1>1. ASSUME NEW u \in Users, SignIn(u) PROVE RolesRise
  <2> SUFFICES ASSUME NEW v \in Users, NEW x \in Rights(v, NoToken)' \ Rights(v, NoToken)
               PROVE  v \in admin' \ admin
    BY DEF RolesRise
  <2>1. UNCHANGED <<exists, base, members, grant>>
    BY <1>1 DEF SignIn, roleVars
  <2>2. RolesOf(v)' = RolesOf(v)
    BY <2>1 DEF RolesOf
  <2>3. v \notin admin
    <3> SUFFICES ASSUME v \in admin PROVE FALSE
      OBVIOUS
    <3>1. RolesOf(v) \subseteq Permissions
      BY DEF RolesOf, Permissions
    <3> QED BY <2>2, <3>1 DEF Rights
  <2> QED BY <2>2, <2>3 DEF Rights
<1>2. ASSUME NEW r \in Requests, CommitProject(r) PROVE RolesRise
  <2>1. /\ at[r] = "decided" /\ at'[r] = "idle" /\ UNCHANGED admin /\ op[r] \in Ops \cup {NoOp}
        /\ op[r].kind \in {"project", "default role"}
    BY <1>2 DEF CommitProject, Committed, Ended, Answered, AccessTypeOK
  <2>2. Needs(op[r]) \subseteq could[r] /\ op[r].project \in Projects
    BY <2>1, OpParts DEF WriteWasAllowed
  <2>3. /\ \A q \in Projects \ {op[r].project} :
             (q \in exists' => q \in exists) /\ base'[q] = base[q] /\ grant'[q] = grant[q]
        /\ UNCHANGED members
    BY <1>2, <2>2 DEF CommitProject, AccessTypeOK
  <2>4. Everything \in could[r] \/ <<op[r].project, Admin>> \in could[r]
    BY <2>1, <2>2 DEF Needs
  <2> QED BY <2>1, <2>2, <2>3, <2>4, RolesOfRise DEF RolesRise
<1>3. ASSUME NEW r \in Requests, CommitGrant(r) PROVE RolesRise
  <2>1. /\ at[r] = "decided" /\ at'[r] = "idle" /\ UNCHANGED admin /\ op[r] \in Ops \cup {NoOp}
        /\ op[r].kind \in {"grant", "ungrant"}
    BY <1>3 DEF CommitGrant, Committed, Ended, Answered, AccessTypeOK
  <2>2. Needs(op[r]) \subseteq could[r] /\ op[r].project \in Projects
    BY <2>1, OpParts DEF WriteWasAllowed
  <2>3. /\ \A q \in Projects \ {op[r].project} :
             (q \in exists' => q \in exists) /\ base'[q] = base[q] /\ grant'[q] = grant[q]
        /\ UNCHANGED members
    BY <1>3, <2>2 DEF CommitGrant, AccessTypeOK
  <2>4. <<op[r].project, Admin>> \in could[r]
    BY <2>1, <2>2 DEF Needs
  <2> QED BY <2>1, <2>2, <2>3, <2>4, RolesOfRise DEF RolesRise
<1>4. ASSUME NEW r \in Requests, CommitTeam(r) \/ CommitMember(r) PROVE RolesRise
  <2>1. /\ at[r] = "decided" /\ at'[r] = "idle" /\ UNCHANGED admin
        /\ op[r].kind \in {"team", "member", "unmember"}
    BY <1>4 DEF CommitTeam, CommitMember, Committed, Ended, Answered, AccessTypeOK
  <2>2. Everything \in could[r]
    BY <2>1 DEF WriteWasAllowed, Needs
  <2> QED BY <2>1, <2>2, RolesOfRise DEF RolesRise
<1>5. ASSUME NEW r \in Requests, CommitToken(r) \/ CommitData(r) \/ CommitFails(r) PROVE RolesUnchanged
  BY <1>5 DEF CommitToken, CommitData, CommitFails, Committed, Ended, RolesUnchanged
<1>6. ASSUME NEW u \in Users, SessionOver(u) PROVE RolesUnchanged
  BY <1>6 DEF SessionOver, RolesUnchanged
<1>7. ASSUME NEW r \in Requests, NEW u, NEW k, Identified(r, u, k) PROVE RolesUnchanged
  BY <1>7 DEF Identified, personVars, RolesUnchanged
<1>8. ASSUME NEW r \in Requests, NEW o, Decide(r, o) PROVE RolesUnchanged
  BY <1>8 DEF Decide, personVars, RolesUnchanged
<1>9. ASSUME NEW r \in Requests, Refuse(r) PROVE RolesUnchanged
  BY <1>9 DEF Refuse, personVars, RolesUnchanged
<1> QED BY <1>1, <1>2, <1>3, <1>4, <1>5, <1>6, <1>7, <1>8, <1>9
     DEF AccessNext, BySession, ByToken, CreateProject, UpdateProject, PutGrant, DeleteGrant,
         CreateTeam, AddMember, RemoveMember, CreateToken, RevokeToken, WriteData

\* A role on a project is given only by a request whose caller administered
\* that project, or by signing in as an administrator: no order of overlapping
\* requests lets a person or a token hand out more.
THEOREM RolesAreEarnedByAll == AccessSpec => RolesAreEarned
<1>1. IInv /\ [AccessNext]_accessVars =>
        [\/ UNCHANGED <<roleVars, admin>>
         \/ \A u \in Users : \A x \in Rights(u, NoToken)' \ Rights(u, NoToken) :
              \/ u \in admin' \ admin
              \/ \E r \in Requests : /\ at[r] = "decided" /\ at'[r] = "idle"
                                     /\ {<<x[1], Admin>>, Everything} \cap could[r] # {}]_<<roleVars, admin>>
  BY StepsEarn DEF RolesUnchanged, RolesRise, Administered, accessVars, personVars
<1>2. IInv => AccessTypeOK
  BY DEF IInv
<1> QED BY <1>1, <1>2, Invariance, PTL DEF AccessSpec, RolesAreEarned, RolesRiseByAdmins
=============================================================================
