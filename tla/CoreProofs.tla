----------------------------- MODULE CoreProofs -----------------------------
(***************************************************************************)
(* Proofs, for every value of the constants, about the components of       *)
(* app/core that the services share: membership, settings and invoice      *)
(* numbers (Organisation), the realtime broker and its streams (Realtime)  *)
(* and the rate limiter (RateLimit).  The three share no state; each has an *)
(* inductive invariant of its own.                                         *)
(***************************************************************************)
EXTENDS RateLimit, Realtime, Organisation, FiniteSetTheorems, TLAPS

-----------------------------------------------------------------------------
(***************************************************************************)
(* ORGANISATION.  The audit events are counted: what each change that took *)
(* effect, and was neither cut off nor repeated, gave and took balances with *)
(* the role its target has.                                                *)
(***************************************************************************)

Request ==
  [at : {"new", "in", "allowed", "read", "numbered", "committed", "done",
         "unaudited", "failed"},
   op : {"none", "create", "add", "change", "remove", "settings", "invoice"},
   user : Users \cup {None}, target : Users \cup {None},
   role : Roles \cup {"none"}, old : Roles \cup {"none"},
   repeated : BOOLEAN, seen : 0..MaxNumber, number : 0..MaxNumber]

\* Somebody owns the organisation, or a change or removal has committed.
OwnedOrChanged ==
  \/ \E u \in Users : role[u] = "owner"
  \/ \E r \in Requests : Committed(r) /\ req[r].op \in {"change", "remove"}

\* Without an organisation there are no members and nobody is past the role gate.
OrgInv ==
  /\ org => OwnedOrChanged
  /\ ~org => /\ \A u \in Users : role[u] = "none"
             /\ \A r \in Requests : req[r].at \in {"new", "in", "failed"}

\* A request under way has a user, only one that has committed has a target, a change
\* of role has one, and the counter gives no zero.
RequestInv ==
  \A r \in Requests :
    /\ UnderWay(r) => req[r].user \in Users
    /\ req[r].at = "numbered" => req[r].number # 0 /\ req[r].op = "invoice"
    /\ Committed(r) /\ req[r].op = "change" => req[r].target \in Users
    /\ req[r].target # None => Committed(r)

\* Until the counter is set back, no number is above it.
NumberInv == ~lowered => \A r \in Requests : req[r].number <= counter

\* The changes of u's membership that took effect: those of certain kinds, those that
\* gave u a role, and those that took it from a role.
Changes(u, ops) == {r \in Requests : req[r].target = u /\ req[r].op \in ops}
GaveRole(u, x) == {r \in Changes(u, {"create", "add", "change"}) : req[r].role = x}
LeftRole(u, x) == {r \in Changes(u, {"change"}) : req[r].old = x}

\* None of u's changes was cut off before its event, or repeated.
Undisturbed(u) ==
  \A r \in Requests : req[r].target = u =>
    req[r].at \in {"committed", "done"} /\ ~req[r].repeated

Holds(b) == IF b THEN 1 ELSE 0

\* The changes lead from no membership to the role u has.
Balanced(u) ==
  /\ \A x \in Roles :
       Cardinality(LeftRole(u, x)) + Holds(role[u] = x) <= Cardinality(GaveRole(u, x))
  /\ Cardinality(Changes(u, {"create", "add"})) =
       Cardinality(Changes(u, {"remove"})) + Holds(role[u] # "none")

AuditInv ==
  /\ IsFiniteSet({r \in Requests : req[r].target # None})
  /\ \A u \in Users : Undisturbed(u) => Balanced(u)

\* The inductive invariant.
OrganisationIInv ==
  /\ OrganisationTypeOK
  /\ ProvisionedHaveRows
  /\ OrgInv
  /\ RequestInv
  /\ NumberInv
  /\ AuditInv

-----------------------------------------------------------------------------
(***************************************************************************)
(* Requests.                                                               *)
(***************************************************************************)

\* The types of the parts of a request that the invariants speak of.
LEMMA RequestTypes ==
  ASSUME OrganisationTypeOK, NEW r \in Requests
  PROVE  /\ req \in [Requests -> Request] /\ req[r] \in Request
         /\ req[r].number \in Nat /\ req[r].number <= MaxNumber
         /\ req[r].user \in Users \cup {None} /\ req[r].target \in Users \cup {None}
         /\ counter \in Nat /\ counter <= MaxNumber
         /\ role \in [Users -> Roles \cup {"none"}]
  <1>1. req \in [Requests -> Request]
    BY DEF OrganisationTypeOK, Request
  <1>2. req[r] \in Request
    BY <1>1
  <1>3. counter \in 0..MaxNumber /\ role \in [Users -> Roles \cup {"none"}]
    BY DEF OrganisationTypeOK
  <1> QED  BY <1>1, <1>2, <1>3, OrganisationAssumption DEF Request

\* One request becomes q, the others stay as they are.
LEMMA OneRequest ==
  ASSUME OrganisationTypeOK, NEW r \in Requests, NEW q \in Request,
         req' = [req EXCEPT ![r] = q]
  PROVE  /\ req' \in [Requests -> Request]
         /\ req'[r] = q
         /\ \A s \in Requests : s # r => req'[s] = req[s]
  BY RequestTypes

-----------------------------------------------------------------------------
(***************************************************************************)
(* Counting changes.                                                       *)
(***************************************************************************)

\* A finite set with or without one element more.
LEMMA CountWith ==
  ASSUME NEW S, IsFiniteSet(S), NEW e, e \notin S, NEW b \in BOOLEAN
  PROVE  /\ Cardinality(S) \in Nat
         /\ Cardinality(IF b THEN S \cup {e} ELSE S) = Cardinality(S) + Holds(b)
  <1>1. Cardinality(S) \in Nat
    BY FS_CardinalityType
  <1>2. CASE b = TRUE
    <2>1. Cardinality(S \cup {e}) = Cardinality(S) + 1
      BY FS_AddElement
    <2> QED  BY <1>1, <1>2, <2>1 DEF Holds
  <1>3. CASE b = FALSE
    BY <1>1, <1>3 DEF Holds
  <1> QED  BY <1>2, <1>3

\* The changes of a user are finitely many.
LEMMA FiniteChanges ==
  ASSUME AuditInv, OrganisationTypeOK, NEW u \in Users
  PROVE  /\ \A ops : IsFiniteSet(Changes(u, ops))
         /\ \A x : IsFiniteSet(GaveRole(u, x)) /\ IsFiniteSet(LeftRole(u, x))
  <1> DEFINE T == {r \in Requests : req[r].target # None}
  <1>1. IsFiniteSet(T)
    BY DEF AuditInv
  <1>2. u # None
    BY OrganisationAssumption
  <1>3. ASSUME NEW ops PROVE IsFiniteSet(Changes(u, ops))
    <2>1. Changes(u, ops) \subseteq T
      BY <1>2 DEF Changes
    <2> QED  BY <1>1, <2>1, FS_Subset
  <1>4. ASSUME NEW x PROVE IsFiniteSet(GaveRole(u, x)) /\ IsFiniteSet(LeftRole(u, x))
    <2>1. GaveRole(u, x) \subseteq T /\ LeftRole(u, x) \subseteq T
      BY <1>2 DEF GaveRole, LeftRole, Changes
    <2> QED  BY <1>1, <2>1, FS_Subset
  <1> QED  BY <1>3, <1>4

\* What a step leaves alone of u's membership and of the changes of it stays balanced.
LEMMA SameChanges ==
  ASSUME NEW u \in Users, Undisturbed(u) => Balanced(u), Undisturbed(u)',
         role'[u] = role[u],
         \A s \in Requests : req'[s].target = u <=> req[s].target = u,
         \A s \in Requests : req[s].target = u =>
           /\ req'[s].op = req[s].op /\ req'[s].role = req[s].role
           /\ req'[s].old = req[s].old /\ req'[s].repeated = req[s].repeated
           /\ req'[s].at \in {"committed", "done"} => req[s].at \in {"committed", "done"}
  PROVE  Balanced(u)'
  <1>1. Undisturbed(u)
    BY DEF Undisturbed
  <1>2. ASSUME NEW ops PROVE Changes(u, ops)' = Changes(u, ops)
    BY DEF Changes
  <1>3. ASSUME NEW x PROVE GaveRole(u, x)' = GaveRole(u, x) /\ LeftRole(u, x)' = LeftRole(u, x)
    BY DEF GaveRole, LeftRole, Changes
  <1> QED  BY <1>1, <1>2, <1>3 DEF Balanced

\* A step after which every request has the target it had, and what it did to it.
LEMMA QuietStep ==
  ASSUME OrganisationIInv, role' = role,
         \A s \in Requests : req'[s].target = req[s].target,
         \A s \in Requests : req[s].target # None =>
           /\ req'[s].op = req[s].op /\ req'[s].role = req[s].role
           /\ req'[s].old = req[s].old /\ req'[s].repeated = req[s].repeated
           /\ req'[s].at \in {"committed", "done"} => req[s].at \in {"committed", "done"}
  PROVE  AuditInv'
  <1>1. IsFiniteSet({r \in Requests : req'[r].target # None})
    <2>1. {r \in Requests : req'[r].target # None} = {r \in Requests : req[r].target # None}
      OBVIOUS
    <2> QED  BY <2>1 DEF OrganisationIInv, AuditInv
  <1>2. ASSUME NEW u \in Users, Undisturbed(u)' PROVE Balanced(u)'
    <2>1. u # None
      BY OrganisationAssumption
    <2> QED  BY <1>2, <2>1, SameChanges DEF OrganisationIInv, AuditInv
  <1> QED  BY <1>1, <1>2 DEF AuditInv

\* A request that had no target commits a change of t's membership: the counts.
LEMMA CommitCounts ==
  ASSUME OrganisationIInv, NEW r \in Requests, NEW t \in Users, req[r].target = None,
         req'[r].target = t,
         \A s \in Requests : s # r => req'[s] = req[s]
  PROVE  /\ IsFiniteSet({s \in Requests : req'[s].target # None})
         /\ \A ops : /\ Cardinality(Changes(t, ops)) \in Nat
                     /\ Cardinality(Changes(t, ops)') =
                          Cardinality(Changes(t, ops)) + Holds(req'[r].op \in ops)
         /\ \A x : /\ Cardinality(GaveRole(t, x)) \in Nat
                   /\ Cardinality(GaveRole(t, x)') = Cardinality(GaveRole(t, x)) +
                        Holds(req'[r].op \in {"create", "add", "change"} /\ req'[r].role = x)
                   /\ Cardinality(LeftRole(t, x)) \in Nat
                   /\ Cardinality(LeftRole(t, x)') = Cardinality(LeftRole(t, x)) +
                        Holds(req'[r].op = "change" /\ req'[r].old = x)
  <1>0. t # None
    BY OrganisationAssumption
  <1>1. IsFiniteSet({s \in Requests : req'[s].target # None})
    <2>1. {s \in Requests : req'[s].target # None} =
            {s \in Requests : req[s].target # None} \cup {r}
      BY <1>0
    <2>2. IsFiniteSet({s \in Requests : req[s].target # None})
      BY DEF OrganisationIInv, AuditInv
    <2> QED  BY <2>1, <2>2, FS_AddElement
  <1>2. /\ \A ops : IsFiniteSet(Changes(t, ops)) /\ r \notin Changes(t, ops)
        /\ \A x : /\ IsFiniteSet(GaveRole(t, x)) /\ r \notin GaveRole(t, x)
                  /\ IsFiniteSet(LeftRole(t, x)) /\ r \notin LeftRole(t, x)
    BY <1>0, FiniteChanges DEF OrganisationIInv, Changes, GaveRole, LeftRole
  <1>3. ASSUME NEW ops
        PROVE  /\ Cardinality(Changes(t, ops)) \in Nat
               /\ Cardinality(Changes(t, ops)') =
                    Cardinality(Changes(t, ops)) + Holds(req'[r].op \in ops)
    <2> DEFINE b == req'[r].op \in ops
    <2>1. Changes(t, ops)' = IF b THEN Changes(t, ops) \cup {r} ELSE Changes(t, ops)
      BY <1>0 DEF Changes
    <2>2. b \in BOOLEAN
      OBVIOUS
    <2> HIDE DEF b
    <2>3. Cardinality(Changes(t, ops)') = Cardinality(Changes(t, ops)) + Holds(b)
      BY <1>2, <2>1, <2>2, CountWith, ZenonT(40)
    <2>4. Cardinality(Changes(t, ops)) \in Nat
      BY <1>2, FS_CardinalityType
    <2> QED  BY <2>3, <2>4 DEF b
  <1>4. ASSUME NEW x
        PROVE  /\ Cardinality(GaveRole(t, x)) \in Nat
               /\ Cardinality(GaveRole(t, x)') = Cardinality(GaveRole(t, x)) +
                    Holds(req'[r].op \in {"create", "add", "change"} /\ req'[r].role = x)
    <2> DEFINE b == req'[r].op \in {"create", "add", "change"} /\ req'[r].role = x
    <2>1. GaveRole(t, x)' = IF b THEN GaveRole(t, x) \cup {r} ELSE GaveRole(t, x)
      BY <1>0 DEF GaveRole, Changes
    <2>2. b \in BOOLEAN
      OBVIOUS
    <2> HIDE DEF b
    <2>3. Cardinality(GaveRole(t, x)') = Cardinality(GaveRole(t, x)) + Holds(b)
      BY <1>2, <2>1, <2>2, CountWith, ZenonT(40)
    <2>4. Cardinality(GaveRole(t, x)) \in Nat
      BY <1>2, FS_CardinalityType
    <2> QED  BY <2>3, <2>4 DEF b
  <1>5. ASSUME NEW x
        PROVE  /\ Cardinality(LeftRole(t, x)) \in Nat
               /\ Cardinality(LeftRole(t, x)') = Cardinality(LeftRole(t, x)) +
                    Holds(req'[r].op = "change" /\ req'[r].old = x)
    <2> DEFINE b == req'[r].op = "change" /\ req'[r].old = x
    <2>1. LeftRole(t, x)' = IF b THEN LeftRole(t, x) \cup {r} ELSE LeftRole(t, x)
      BY <1>0 DEF LeftRole, Changes
    <2>2. b \in BOOLEAN
      OBVIOUS
    <2> HIDE DEF b
    <2>3. Cardinality(LeftRole(t, x)') = Cardinality(LeftRole(t, x)) + Holds(b)
      BY <1>2, <2>1, <2>2, CountWith, ZenonT(40)
    <2>4. Cardinality(LeftRole(t, x)) \in Nat
      BY <1>2, FS_CardinalityType
    <2> QED  BY <2>3, <2>4 DEF b
  <1> QED  BY <1>1, <1>3, <1>4, <1>5

-----------------------------------------------------------------------------
(***************************************************************************)
(* Steps.                                                                  *)
(***************************************************************************)

\* What a request that was p may be after a step that changes no membership.
Follows(p, q) ==
  /\ q.target = p.target
  /\ p.target # None =>
       /\ q.op = p.op /\ q.role = p.role /\ q.old = p.old /\ q.repeated = p.repeated
       /\ q.at \in {"committed", "done"} => p.at \in {"committed", "done"}
  /\ p.at \in {"committed", "done", "unaudited"} =>
       q.at \in {"committed", "done", "unaudited"} /\ q.op = p.op
  /\ q.at \in {"in", "allowed", "read", "numbered", "committed"} => q.user \in Users
  /\ q.at = "numbered" => q.number # 0 /\ q.op = "invoice"
  /\ q.at \in {"committed", "done", "unaudited"} /\ q.op = "change" => q.target \in Users
  /\ ~org => q.at \in {"new", "in", "failed"}

\* A request that a step leaves alone.
LEMMA FollowsItself ==
  ASSUME OrganisationIInv, NEW r \in Requests
  PROVE  Follows(req[r], req[r])
  BY DEF OrganisationIInv, OrgInv, RequestInv, UnderWay, Committed, Follows

\* A step that changes no membership preserves the invariant.
LEMMA QuietIInv ==
  ASSUME OrganisationIInv, UNCHANGED <<org, role>>,
         req' \in [Requests -> Request],
         \A s \in Requests : Follows(req[s], req'[s]),
         ~lowered' => \A s \in Requests : req'[s].number <= counter',
         users' \subseteq Users, provisioned' \subseteq users',
         counter' \in 0..MaxNumber, invoices' \subseteq 1..MaxNumber, lowered' \in BOOLEAN
  PROVE  OrganisationIInv'
  <1>1. OrganisationTypeOK'
    <2>1. org' \in BOOLEAN
      BY Zenon DEF OrganisationIInv, OrganisationTypeOK
    <2>2. role' \in [Users -> Roles \cup {"none"}] /\ provisioned' \subseteq Users
      BY DEF OrganisationIInv, OrganisationTypeOK
    <2> QED  BY <2>1, <2>2, Zenon DEF OrganisationTypeOK, Request
  <1>2. OrgInv'
    <2>1. OwnedOrChanged => OwnedOrChanged'
      BY DEF OwnedOrChanged, Committed, Follows
    <2>2. ~org => \A r \in Requests : req'[r].at \in {"new", "in", "failed"}
      BY DEF Follows
    <2> QED  BY <2>1, <2>2 DEF OrganisationIInv, OrgInv
  <1>3. RequestInv'
    <2> SUFFICES ASSUME NEW r \in Requests
                 PROVE  /\ UnderWay(r)' => req'[r].user \in Users
                        /\ req'[r].at = "numbered" =>
                             req'[r].number # 0 /\ req'[r].op = "invoice"
                        /\ Committed(r)' /\ req'[r].op = "change" => req'[r].target \in Users
                        /\ req'[r].target # None => Committed(r)'
      BY DEF RequestInv
    <2>1. Follows(req[r], req'[r])
      OBVIOUS
    <2>2. req[r].target # None => Committed(r)
      BY DEF OrganisationIInv, RequestInv
    <2> QED  BY <2>1, <2>2 DEF Follows, UnderWay, Committed
  <1>4. AuditInv'
    BY QuietStep DEF Follows
  <1> QED  BY <1>1, <1>2, <1>3, <1>4 DEF OrganisationIInv, ProvisionedHaveRows, NumberInv

\* The same for a step of one request.
LEMMA QuietRequest ==
  ASSUME OrganisationIInv, UNCHANGED <<org, role>>,
         NEW r \in Requests, NEW q \in Request, req' = [req EXCEPT ![r] = q],
         Follows(req[r], q),
         ~lowered' => ~lowered /\ counter <= counter' /\ q.number <= counter',
         users' \subseteq Users, provisioned' \subseteq users',
         counter' \in 0..MaxNumber, invoices' \subseteq 1..MaxNumber, lowered' \in BOOLEAN
  PROVE  OrganisationIInv'
  <1>1. /\ req' \in [Requests -> Request] /\ req'[r] = q
        /\ \A s \in Requests : s # r => req'[s] = req[s]
    BY OneRequest DEF OrganisationIInv
  <1>2. \A s \in Requests : Follows(req[s], req'[s])
    BY <1>1, FollowsItself
  <1>3. ASSUME ~lowered', NEW s \in Requests PROVE req'[s].number <= counter'
    <2>1. CASE s = r
      BY <1>1, <1>3, <2>1
    <2>2. CASE s # r
      <3>1. req'[s] = req[s] /\ req[s].number <= counter /\ counter <= counter'
        BY <1>1, <1>3, <2>2 DEF OrganisationIInv, NumberInv
      <3>2. req[s].number \in Nat /\ counter \in Nat
        BY RequestTypes DEF OrganisationIInv
      <3>3. counter' \in Nat
        BY OrganisationAssumption
      <3> QED  BY <3>1, <3>2, <3>3
    <2> QED  BY <2>1, <2>2
  <1> QED  BY <1>1, <1>2, <1>3, QuietIInv

\* The same for one that leaves the counter and the request's number alone.
LEMMA QuietUnnumbered ==
  ASSUME OrganisationIInv, UNCHANGED <<org, role, counter, lowered>>,
         NEW r \in Requests, NEW q \in Request, req' = [req EXCEPT ![r] = q],
         Follows(req[r], q), q.number = req[r].number,
         users' \subseteq Users, provisioned' \subseteq users', invoices' \subseteq 1..MaxNumber
  PROVE  OrganisationIInv'
  <1>1. req[r].number \in Nat /\ counter \in Nat /\ (~lowered => req[r].number <= counter)
    BY RequestTypes DEF OrganisationIInv, NumberInv
  <1>2. counter <= counter' /\ (~lowered => q.number <= counter')
    BY <1>1
  <1>3. lowered' \in BOOLEAN
    BY Zenon DEF OrganisationIInv, OrganisationTypeOK
  <1>4. counter' \in 0..MaxNumber
    BY DEF OrganisationIInv, OrganisationTypeOK
  <1>5. ~lowered' => ~lowered /\ counter <= counter' /\ q.number <= counter'
    BY <1>2, Zenon
  <1> QED  BY <1>3, <1>4, <1>5, QuietRequest

\* A change of t's membership that takes effect.
LEMMA CommitIInv ==
  ASSUME OrganisationIInv, UNCHANGED <<users, provisioned, counter, invoices, lowered>>,
         NEW r \in Requests, NEW op \in {"create", "add", "change", "remove"},
         NEW t \in Users, NEW old \in Roles \cup {"none"}, NEW new \in Roles \cup {"none"},
         Commits(r, op, t, old, new), req[r].at \in {"in", "allowed"},
         org' = TRUE, org \/ (op = "create" /\ new = "owner"),
         op \in {"create", "add"} => role[t] = "none" /\ new \in Roles,
         op = "change" => role[t] \in Roles /\ old = role[t] /\ new \in Roles,
         op = "remove" => role[t] # "none" /\ new = "none"
  PROVE  OrganisationIInv'
  <1> DEFINE q == [req[r] EXCEPT !.at = "committed", !.op = op, !.target = t,
                                 !.old = old, !.role = new]
  <1>0. t # None /\ "none" \notin Roles /\ "owner" \in Roles
    BY OrganisationAssumption
  <1>1. req[r] \in Request /\ role \in [Users -> Roles \cup {"none"}]
    BY RequestTypes DEF OrganisationIInv
  <1>2. q \in Request
    BY <1>1 DEF Request
  <1>3. req' = [req EXCEPT ![r] = q] /\ role' = [role EXCEPT ![t] = new]
    BY DEF Commits
  <1>4. /\ req' \in [Requests -> Request] /\ req'[r] = q
        /\ \A s \in Requests : s # r => req'[s] = req[s]
    BY <1>2, <1>3, OneRequest DEF OrganisationIInv
  <1>5. /\ q.at = "committed" /\ q.op = op /\ q.target = t /\ q.old = old /\ q.role = new
        /\ q.user = req[r].user /\ q.number = req[r].number
    BY <1>1 DEF Request
  <1>6. role'[t] = new /\ \A u \in Users : u # t => role'[u] = role[u]
    BY <1>1, <1>3
  <1>7. req[r].target = None
    BY DEF OrganisationIInv, RequestInv, Committed
  <1> HIDE DEF q
  <1>8. OrganisationTypeOK'
    <2>1. role' \in [Users -> Roles \cup {"none"}]
      BY <1>1, <1>3
    <2>2. org' \in BOOLEAN
      BY Zenon
    <2>3. lowered' \in BOOLEAN
      BY Zenon DEF OrganisationIInv, OrganisationTypeOK
    <2>4. /\ users' \subseteq Users /\ provisioned' \subseteq Users
          /\ counter' \in 0..MaxNumber /\ invoices' \subseteq 1..MaxNumber
      BY Zenon DEF OrganisationIInv, OrganisationTypeOK
    <2> QED  BY <1>4, <2>1, <2>2, <2>3, <2>4, Zenon DEF OrganisationTypeOK, Request
  <1>9. OrgInv'
    <2>1. OwnedOrChanged'
      <3>1. CASE op = "create" /\ new = "owner"
        BY <1>6, <3>1 DEF OwnedOrChanged
      <3>2. CASE op \in {"change", "remove"}
        BY <1>4, <1>5, <3>2 DEF OwnedOrChanged, Committed
      <3>3. CASE op \in {"create", "add"} /\ org
        <4>1. OwnedOrChanged /\ role[t] = "none"
          BY <3>3 DEF OrganisationIInv, OrgInv
        <4>2. CASE \E u \in Users : role[u] = "owner"
          <5>1. PICK u \in Users : role[u] = "owner"
            BY <4>2
          <5>2. u # t
            BY <4>1, <5>1
          <5> QED  BY <1>6, <5>1, <5>2 DEF OwnedOrChanged
        <4>3. CASE \E s \in Requests : Committed(s) /\ req[s].op \in {"change", "remove"}
          <5>1. PICK s \in Requests : Committed(s) /\ req[s].op \in {"change", "remove"}
            BY <4>3
          <5>2. s # r
            BY <5>1 DEF Committed
          <5> QED  BY <1>4, <5>1, <5>2 DEF OwnedOrChanged, Committed
        <4> QED  BY <4>1, <4>2, <4>3 DEF OwnedOrChanged
      <3> QED  BY <3>1, <3>2, <3>3
    <2> QED  BY <2>1 DEF OrgInv
  <1>10. RequestInv'
    <2>1. req[r].user \in Users
      BY DEF OrganisationIInv, RequestInv, UnderWay
    <2> QED  BY <1>4, <1>5, <2>1 DEF OrganisationIInv, RequestInv, UnderWay, Committed
  <1>11. NumberInv'
    BY <1>4, <1>5 DEF OrganisationIInv, NumberInv
  <1>12. /\ IsFiniteSet({s \in Requests : req'[s].target # None})
         /\ \A ops : /\ Cardinality(Changes(t, ops)) \in Nat
                     /\ Cardinality(Changes(t, ops)') =
                          Cardinality(Changes(t, ops)) + Holds(req'[r].op \in ops)
         /\ \A x : /\ Cardinality(GaveRole(t, x)) \in Nat
                   /\ Cardinality(GaveRole(t, x)') = Cardinality(GaveRole(t, x)) +
                        Holds(req'[r].op \in {"create", "add", "change"} /\ req'[r].role = x)
                   /\ Cardinality(LeftRole(t, x)) \in Nat
                   /\ Cardinality(LeftRole(t, x)') = Cardinality(LeftRole(t, x)) +
                        Holds(req'[r].op = "change" /\ req'[r].old = x)
    <2>1. req'[r].target = t
      BY <1>4, <1>5
    <2> QED  BY <1>4, <1>7, <2>1, CommitCounts, Zenon
  <1>13. ASSUME Undisturbed(t)' PROVE Balanced(t)'
    <2>1. Undisturbed(t)
      BY <1>0, <1>4, <1>7, <1>13 DEF Undisturbed
    <2>2. Balanced(t)
      BY <2>1 DEF OrganisationIInv, AuditInv
    <2>0. req'[r].op = op /\ req'[r].role = new /\ req'[r].old = old
      BY <1>4, <1>5
    <2>3. ASSUME NEW x \in Roles
          PROVE  Cardinality(LeftRole(t, x)') + Holds(role'[t] = x)
                   <= Cardinality(GaveRole(t, x)')
      <3> DEFINE a == Cardinality(LeftRole(t, x))
                 g == Cardinality(GaveRole(t, x))
      <3>1. a \in Nat /\ g \in Nat /\ a + Holds(role[t] = x) <= g
        BY <1>12, <2>2 DEF Balanced
      <3>2. /\ Cardinality(LeftRole(t, x)') = a + Holds(req'[r].op = "change" /\ req'[r].old = x)
            /\ Cardinality(GaveRole(t, x)') =
                 g + Holds(req'[r].op \in {"create", "add", "change"} /\ req'[r].role = x)
        BY <1>12
      <3>3. x # "none"
        BY <1>0
      <3> HIDE DEF a, g
      <3>4. CASE op \in {"create", "add"}
        BY <1>6, <2>0, <3>1, <3>2, <3>3, <3>4 DEF Holds
      <3>5. CASE op = "change"
        BY <1>6, <2>0, <3>1, <3>2, <3>3, <3>5 DEF Holds
      <3>6. CASE op = "remove"
        BY <1>6, <2>0, <3>1, <3>2, <3>3, <3>6 DEF Holds
      <3> QED  BY <3>4, <3>5, <3>6
    <2>4. Cardinality(Changes(t, {"create", "add"})') =
            Cardinality(Changes(t, {"remove"})') + Holds(role'[t] # "none")
      <3> DEFINE a == Cardinality(Changes(t, {"create", "add"}))
                 g == Cardinality(Changes(t, {"remove"}))
      <3>1. a \in Nat /\ g \in Nat /\ a = g + Holds(role[t] # "none")
        BY <1>12, <2>2 DEF Balanced
      <3>2. /\ Cardinality(Changes(t, {"create", "add"})') =
                 a + Holds(req'[r].op \in {"create", "add"})
            /\ Cardinality(Changes(t, {"remove"})') = g + Holds(req'[r].op \in {"remove"})
        BY <1>12
      <3> HIDE DEF a, g
      <3>4. CASE op \in {"create", "add"}
        BY <1>0, <1>6, <2>0, <3>1, <3>2, <3>4 DEF Holds
      <3>5. CASE op = "change"
        BY <1>0, <1>6, <2>0, <3>1, <3>2, <3>5 DEF Holds
      <3>6. CASE op = "remove"
        BY <1>0, <1>6, <2>0, <3>1, <3>2, <3>6 DEF Holds
      <3> QED  BY <3>4, <3>5, <3>6
    <2> QED  BY <2>3, <2>4 DEF Balanced
  <1>14. ASSUME NEW u \in Users, u # t, Undisturbed(u)' PROVE Balanced(u)'
    <2>1. u # None
      BY OrganisationAssumption
    <2>2. /\ \A s \in Requests : req'[s].target = u <=> req[s].target = u
          /\ \A s \in Requests : req[s].target = u => req'[s] = req[s]
      BY <1>4, <1>5, <1>7, <1>14, <2>1
    <2>3. role'[u] = role[u]
      BY <1>6, <1>14
    <2> QED  BY <1>14, <2>2, <2>3, SameChanges DEF OrganisationIInv, AuditInv
  <1>15. AuditInv'
    BY <1>12, <1>13, <1>14 DEF AuditInv
  <1>16. ProvisionedHaveRows'
    BY DEF OrganisationIInv, ProvisionedHaveRows
  <1> QED  BY <1>8, <1>9, <1>10, <1>11, <1>15, <1>16 DEF OrganisationIInv

\* A request that ends early.
LEMMA InterruptedFollows ==
  ASSUME OrganisationIInv, NEW r \in Requests, UnderWay(r)
  PROVE  /\ Interrupted(req[r]) \in Request
         /\ Interrupted(req[r]).number = req[r].number
         /\ Follows(req[r], Interrupted(req[r]))
  <1>1. req[r] \in Request /\ 0 \in 0..MaxNumber
    BY RequestTypes, OrganisationAssumption DEF OrganisationIInv
  <1>2. /\ req[r].at # "committed" => req[r].target = None
        /\ ~org => req[r].at \in {"new", "in", "failed"}
    BY DEF OrganisationIInv, RequestInv, OrgInv, Committed, UnderWay
  <1>3. CASE req[r].at = "committed"
    <2>1. Follows(req[r], req[r])
      BY FollowsItself
    <2> QED  BY <1>1, <1>2, <1>3, <2>1 DEF Interrupted, Request, Follows
  <1>4. CASE req[r].at # "committed"
    BY <1>1, <1>2, <1>4 DEF Interrupted, Blank, Request, Follows, UnderWay
  <1> QED  BY <1>3, <1>4

\* A repeated update disturbs the target's history; the others' changes it leaves alone.
LEMMA RepeatIInv ==
  ASSUME OrganisationIInv, NEW r \in Requests, RepeatUpdate(r)
  PROVE  OrganisationIInv'
  <1> DEFINE t == req[r].target
             q == [req[r] EXCEPT !.old = role[t], !.repeated = TRUE]
  <1>1. /\ req[r] \in Request /\ t \in Users \cup {None}
        /\ role \in [Users -> Roles \cup {"none"}]
    BY RequestTypes DEF OrganisationIInv
  <1>2. /\ req[r].at = "committed" /\ req[r].op = "change" /\ role[t] # "none"
        /\ role' = [role EXCEPT ![t] = req[r].role] /\ req' = [req EXCEPT ![r] = q]
        /\ UNCHANGED <<users, provisioned, org, counter, invoices, lowered>>
    BY DEF RepeatUpdate
  <1>3. role' \in [Users -> Roles \cup {"none"}]
    BY <1>1, <1>2 DEF Request
  <1>4. t \in Users /\ t # None
    BY <1>2, OrganisationAssumption DEF OrganisationIInv, RequestInv, Committed
  <1>5. q \in Request
    BY <1>1, <1>4 DEF Request
  <1>6. /\ req' \in [Requests -> Request] /\ req'[r] = q
        /\ \A s \in Requests : s # r => req'[s] = req[s]
    BY <1>2, <1>5, OneRequest DEF OrganisationIInv
  <1>7. /\ q.at = "committed" /\ q.op = "change" /\ q.target = t /\ q.repeated = TRUE
        /\ q.user = req[r].user /\ q.number = req[r].number
    BY <1>1, <1>2 DEF Request
  <1>8. \A u \in Users : u # t => role'[u] = role[u]
    BY <1>1, <1>2
  <1> HIDE DEF q
  <1>9. OrganisationTypeOK'
    <2>1. org' \in BOOLEAN /\ lowered' \in BOOLEAN
      BY <1>2, Zenon DEF OrganisationIInv, OrganisationTypeOK
    <2>2. /\ users' \subseteq Users /\ provisioned' \subseteq Users
          /\ counter' \in 0..MaxNumber /\ invoices' \subseteq 1..MaxNumber
      BY <1>2, Zenon DEF OrganisationIInv, OrganisationTypeOK
    <2> QED  BY <1>3, <1>6, <2>1, <2>2, Zenon DEF OrganisationTypeOK, Request
  <1>10. OrgInv'
    <2>1. org
      BY <1>2 DEF OrganisationIInv, OrgInv
    <2>2. OwnedOrChanged'
      BY <1>6, <1>7 DEF OwnedOrChanged, Committed
    <2> QED  BY <1>2, <2>1, <2>2 DEF OrgInv
  <1>11. RequestInv'
    <2>1. req[r].user \in Users
      BY <1>2 DEF OrganisationIInv, RequestInv, UnderWay
    <2> QED  BY <1>4, <1>6, <1>7, <2>1 DEF OrganisationIInv, RequestInv, UnderWay, Committed
  <1>12. NumberInv' /\ ProvisionedHaveRows'
    BY <1>2, <1>6, <1>7 DEF OrganisationIInv, NumberInv, ProvisionedHaveRows
  <1>13. AuditInv'
    <2>1. IsFiniteSet({s \in Requests : req'[s].target # None})
      <3>1. {s \in Requests : req'[s].target # None} = {s \in Requests : req[s].target # None}
        BY <1>6, <1>7
      <3> QED  BY <3>1 DEF OrganisationIInv, AuditInv
    <2>2. ASSUME NEW u \in Users, Undisturbed(u)' PROVE Balanced(u)'
      <3>1. u # t
        BY <1>6, <1>7, <2>2 DEF Undisturbed
      <3>2. /\ \A s \in Requests : req'[s].target = u <=> req[s].target = u
            /\ \A s \in Requests : req[s].target = u => req'[s] = req[s]
        BY <1>6, <1>7, <3>1
      <3>3. role'[u] = role[u]
        BY <1>8, <3>1
      <3> QED  BY <2>2, <3>2, <3>3, SameChanges DEF OrganisationIInv, AuditInv
    <2> QED  BY <2>1, <2>2 DEF AuditInv
  <1> QED  BY <1>9, <1>10, <1>11, <1>12, <1>13 DEF OrganisationIInv

\* Every step of a request preserves the invariant, and so does a crash.
LEMMA RequestSteps ==
  ASSUME OrganisationIInv, NEW r \in Requests
  PROVE  /\ \A u \in Users, email \in BOOLEAN : current_user(r, u, email) => OrganisationIInv'
         /\ \A u \in Users : ProvisioningRaises(r, u) => OrganisationIInv'
         /\ RequireAdmin(r) => OrganisationIInv'
         /\ \A n \in 0..MaxNumber : set_org_settings(r, n) => OrganisationIInv'
         /\ create_invoice(r) => OrganisationIInv'
         /\ log_audit(r) => OrganisationIInv'
         /\ Raises(r) => OrganisationIInv'
  <1>1. /\ req[r] \in Request /\ req \in [Requests -> Request]
        /\ req[r].number \in Nat /\ req[r].number <= MaxNumber
        /\ counter \in Nat /\ counter <= MaxNumber
    BY RequestTypes DEF OrganisationIInv
  <1>2. /\ users \subseteq Users /\ provisioned \subseteq users
        /\ counter \in 0..MaxNumber /\ invoices \subseteq 1..MaxNumber
    BY DEF OrganisationIInv, OrganisationTypeOK, ProvisionedHaveRows
  <1>3. lowered \in BOOLEAN
    BY Zenon DEF OrganisationIInv, OrganisationTypeOK
  <1>4. ~lowered => req[r].number <= counter
    BY DEF OrganisationIInv, NumberInv
  <1>5. Follows(req[r], req[r])
    BY FollowsItself
  <1>6. req[r].at \in {"new", "in", "allowed", "read", "numbered", "failed"} =>
          req[r].target = None
    BY DEF OrganisationIInv, RequestInv, Committed
  <1>7. ~org => \A u \in Users : role[u] = "none"
    BY DEF OrganisationIInv, OrgInv
  <1>8. "none" \notin AdminRoles
    BY DEF AdminRoles
  <1>9. ASSUME NEW u \in Users, NEW email \in BOOLEAN, current_user(r, u, email)
        PROVE  OrganisationIInv'
    <2> DEFINE q == [req[r] EXCEPT !.at = "in", !.user = u]
    <2>1. q \in Request /\ req' = [req EXCEPT ![r] = q]
      BY <1>1, <1>9 DEF current_user, Request
    <2>2. Follows(req[r], q)
      BY <1>1, <1>6, <1>9 DEF current_user, Follows, Request
    <2>3. q.number = req[r].number
      BY <1>1 DEF Request
    <2>4. UNCHANGED <<org, role, counter, invoices, lowered>>
      BY <1>9 DEF current_user
    <2>5. users' \subseteq Users /\ provisioned' \subseteq users'
      BY <1>2, <1>9 DEF current_user
    <2> HIDE DEF q
    <2> QED  BY <1>2, <2>1, <2>2, <2>3, <2>4, <2>5, QuietUnnumbered
  <1>10. ASSUME NEW u \in Users, ProvisioningRaises(r, u) PROVE OrganisationIInv'
    <2> DEFINE q == [req[r] EXCEPT !.at = "failed"]
    <2>1. q \in Request /\ req' = [req EXCEPT ![r] = q]
      BY <1>1, <1>10 DEF ProvisioningRaises, Request
    <2>2. Follows(req[r], q)
      BY <1>1, <1>6, <1>10 DEF ProvisioningRaises, Follows, Request
    <2>3. q.number = req[r].number
      BY <1>1 DEF Request
    <2>4. UNCHANGED <<org, role, counter, invoices, lowered>>
      BY <1>10 DEF ProvisioningRaises
    <2>5. users' \subseteq Users /\ provisioned' \subseteq users'
      BY <1>2, <1>10 DEF ProvisioningRaises
    <2> HIDE DEF q
    <2> QED  BY <1>2, <2>1, <2>2, <2>3, <2>4, <2>5, QuietUnnumbered
  <1>11. ASSUME RequireAdmin(r) PROVE OrganisationIInv'
    <2> DEFINE q == [req[r] EXCEPT !.at = "allowed"]
    <2>1. q \in Request /\ req' = [req EXCEPT ![r] = q]
      BY <1>1, <1>11 DEF RequireAdmin, Request
    <2>2. Follows(req[r], q)
      <3>1. req[r].user \in Users
        BY <1>11 DEF RequireAdmin, OrganisationIInv, RequestInv, UnderWay
      <3>2. org
        BY <1>7, <1>8, <1>11, <3>1 DEF RequireAdmin
      <3> QED  BY <1>1, <1>6, <1>11, <3>1, <3>2 DEF RequireAdmin, Follows, Request
    <2>3. q.number = req[r].number
      BY <1>1 DEF Request
    <2>4. UNCHANGED <<users, provisioned, org, role, counter, invoices, lowered>>
      BY <1>11 DEF RequireAdmin
    <2> HIDE DEF q
    <2> QED  BY <1>2, <2>1, <2>2, <2>3, <2>4, QuietUnnumbered
  <1>12. ASSUME NEW n \in 0..MaxNumber, set_org_settings(r, n) PROVE OrganisationIInv'
    <2> DEFINE q == [req[r] EXCEPT !.at = "committed", !.op = "settings"]
    <2>1. q \in Request /\ req' = [req EXCEPT ![r] = q]
      BY <1>1, <1>12 DEF set_org_settings, Request
    <2>2. Follows(req[r], q)
      BY <1>1, <1>5, <1>6, <1>12 DEF set_org_settings, Follows, Request
    <2>3. q.number = req[r].number
      BY <1>1 DEF Request
    <2>4. UNCHANGED <<users, provisioned, org, role, invoices>> /\ counter' = n
      BY <1>12 DEF set_org_settings
    <2>5. lowered' = (lowered \/ n < counter)
      BY <1>12, Zenon DEF set_org_settings
    <2>6. lowered' \in BOOLEAN
      BY <2>5, Zenon
    <2> HIDE DEF q
    <2>7. ~lowered' => ~lowered /\ counter <= counter' /\ q.number <= counter'
      <3>1. ~lowered' => ~lowered /\ ~(n < counter)
        BY <2>5, Zenon
      <3>2. n \in Nat
        BY OrganisationAssumption
      <3> QED  BY <1>1, <1>4, <2>3, <2>4, <3>1, <3>2
    <2> QED  BY <1>2, <2>1, <2>2, <2>4, <2>6, <2>7, QuietRequest
  <1>13. ASSUME get_org_settings(r) PROVE OrganisationIInv'
    <2> DEFINE q == [req[r] EXCEPT !.at = "read", !.seen = counter]
    <2>1. q \in Request /\ req' = [req EXCEPT ![r] = q]
      BY <1>1, <1>2, <1>13 DEF get_org_settings, Request
    <2>2. Follows(req[r], q)
      BY <1>1, <1>5, <1>6, <1>13 DEF get_org_settings, Follows, Request
    <2>3. q.number = req[r].number
      BY <1>1 DEF Request
    <2>4. UNCHANGED <<users, provisioned, org, role, counter, invoices, lowered>>
      BY <1>13 DEF get_org_settings
    <2> HIDE DEF q
    <2> QED  BY <1>2, <2>1, <2>2, <2>3, <2>4, QuietUnnumbered
  <1>14. ASSUME NEW k \in Attempts, get_next_invoice_number(r, k) PROVE OrganisationIInv'
    <2> DEFINE q == [req[r] EXCEPT !.at = "numbered", !.op = "invoice",
                                   !.number = counter', !.seen = 0]
    <2>1. /\ counter' = counter + k /\ counter + k <= MaxNumber /\ k \in Nat /\ k > 0
          /\ req[r].at = "read" /\ UNCHANGED <<users, provisioned, org, role, invoices, lowered>>
      BY <1>14 DEF get_next_invoice_number, Attempts
    <2>2. counter' \in 0..MaxNumber /\ counter <= counter' /\ counter' # 0 /\ 0 \in 0..MaxNumber
      BY <1>1, <2>1, OrganisationAssumption
    <2>3. q \in Request /\ req' = [req EXCEPT ![r] = q]
      BY <1>1, <1>14, <2>2 DEF get_next_invoice_number, Request
    <2>4. Follows(req[r], q)
      BY <1>1, <1>5, <1>6, <2>1, <2>2 DEF Follows, Request
    <2>5. q.number = counter'
      BY <1>1 DEF Request
    <2> HIDE DEF q
    <2>6. q.number <= counter'
      BY <1>1, <2>1, <2>5
    <2> QED  BY <1>2, <1>3, <2>1, <2>2, <2>3, <2>4, <2>6, QuietRequest
  <1>15. ASSUME InsertInvoice(r) PROVE OrganisationIInv'
    <2> DEFINE q == [req[r] EXCEPT !.at = "committed"]
    <2>1. q \in Request /\ req' = [req EXCEPT ![r] = q]
      BY <1>1, <1>15 DEF InsertInvoice, Request
    <2>2. Follows(req[r], q)
      BY <1>1, <1>5, <1>6, <1>15 DEF InsertInvoice, Follows, Request
    <2>3. q.number = req[r].number
      BY <1>1 DEF Request
    <2>4. UNCHANGED <<users, provisioned, org, role, counter, lowered>>
      BY <1>15 DEF InsertInvoice
    <2>5. invoices' \subseteq 1..MaxNumber
      <3>1. req[r].number # 0
        BY <1>15 DEF InsertInvoice, OrganisationIInv, RequestInv
      <3>2. req[r].number \in 1..MaxNumber
        BY <1>1, <3>1, OrganisationAssumption
      <3> QED  BY <1>2, <1>15, <3>2 DEF InsertInvoice
    <2> HIDE DEF q
    <2> QED  BY <1>2, <2>1, <2>2, <2>3, <2>4, <2>5, QuietUnnumbered
  <1>16. ASSUME log_audit(r) PROVE OrganisationIInv'
    <2> DEFINE q == [req[r] EXCEPT !.at = "done"]
    <2>1. q \in Request /\ req' = [req EXCEPT ![r] = q]
      BY <1>1, <1>16 DEF log_audit, Request
    <2>2. Follows(req[r], q)
      BY <1>1, <1>5, <1>16 DEF log_audit, Follows, Request
    <2>3. q.number = req[r].number
      BY <1>1 DEF Request
    <2>4. UNCHANGED <<users, provisioned, org, role, counter, invoices, lowered>>
      BY <1>16 DEF log_audit
    <2> HIDE DEF q
    <2> QED  BY <1>2, <2>1, <2>2, <2>3, <2>4, QuietUnnumbered
  <1>17. ASSUME Raises(r) PROVE OrganisationIInv'
    <2> DEFINE q == Interrupted(req[r])
    <2>1. /\ q \in Request /\ q.number = req[r].number /\ Follows(req[r], q)
      BY <1>17, InterruptedFollows DEF Raises
    <2>2. req' = [req EXCEPT ![r] = q]
      BY <1>17 DEF Raises
    <2>3. UNCHANGED <<users, provisioned, org, role, counter, invoices, lowered>>
      BY <1>17 DEF Raises
    <2> HIDE DEF q
    <2> QED  BY <1>2, <2>1, <2>2, <2>3, QuietUnnumbered
  <1> QED  BY <1>9, <1>10, <1>11, <1>12, <1>13, <1>14, <1>15, <1>16, <1>17
           DEF create_invoice

\* The same for the steps that change a membership.
LEMMA MembershipSteps ==
  ASSUME OrganisationIInv, NEW r \in Requests
  PROVE  /\ create_org(r) => OrganisationIInv'
         /\ \A t \in Users, new \in Roles :
              add_member(r, t, new) \/ change_role(r, t, new) => OrganisationIInv'
         /\ RepeatUpdate(r) => OrganisationIInv'
         /\ \A t \in Users : remove_member(r, t) => OrganisationIInv'
  <1>1. /\ req[r] \in Request /\ req \in [Requests -> Request]
        /\ role \in [Users -> Roles \cup {"none"}]
    BY RequestTypes DEF OrganisationIInv
  <1>2. "none" \notin Roles /\ "owner" \in Roles
    BY OrganisationAssumption
  <1>3. /\ ~org => \A u \in Users : role[u] = "none"
        /\ ~org => req[r].at \in {"new", "in", "failed"}
    BY DEF OrganisationIInv, OrgInv
  <1>4. org \in BOOLEAN
    BY Zenon DEF OrganisationIInv, OrganisationTypeOK
  <1>5. ASSUME create_org(r) PROVE OrganisationIInv'
    <2>1. /\ req[r].at = "in" /\ ~org /\ org' = TRUE
          /\ Commits(r, "create", req[r].user, "none", "owner")
          /\ UNCHANGED <<users, provisioned, counter, invoices, lowered>>
      BY <1>5, Zenon DEF create_org
    <2>2. req[r].user \in Users
      BY <2>1 DEF OrganisationIInv, RequestInv, UnderWay
    <2>3. role[req[r].user] = "none"
      BY <1>3, <2>1, <2>2
    <2> QED  BY <1>2, <2>1, <2>2, <2>3, CommitIInv
  <1>6. ASSUME NEW t \in Users, NEW new \in Roles, add_member(r, t, new)
        PROVE  OrganisationIInv'
    <2>1. /\ req[r].at = "allowed" /\ role[t] = "none" /\ org' = org
          /\ Commits(r, "add", t, "none", new)
          /\ UNCHANGED <<users, provisioned, counter, invoices, lowered>>
      BY <1>6, Zenon DEF add_member
    <2>2. org' = TRUE /\ org
      BY <1>3, <1>4, <2>1
    <2> QED  BY <1>2, <2>1, <2>2, CommitIInv
  <1>7. ASSUME NEW t \in Users, NEW new \in Roles, change_role(r, t, new)
        PROVE  OrganisationIInv'
    <2>1. /\ req[r].at = "in" /\ role[t] # "none" /\ org' = org
          /\ Commits(r, "change", t, role[t], new)
          /\ UNCHANGED <<users, provisioned, counter, invoices, lowered>>
      BY <1>7, Zenon DEF change_role
    <2>2. org' = TRUE /\ org
      BY <1>3, <1>4, <2>1
    <2>3. role[t] \in Roles
      BY <1>1, <2>1
    <2> QED  BY <1>2, <2>1, <2>2, <2>3, CommitIInv
  <1>8. ASSUME NEW t \in Users, remove_member(r, t) PROVE OrganisationIInv'
    <2>1. /\ req[r].at = "in" /\ role[t] # "none" /\ org' = org
          /\ Commits(r, "remove", t, "none", "none")
          /\ UNCHANGED <<users, provisioned, counter, invoices, lowered>>
      BY <1>8, Zenon DEF remove_member
    <2>2. org' = TRUE /\ org
      BY <1>3, <1>4, <2>1
    <2> QED  BY <1>2, <2>1, <2>2, CommitIInv
  <1>9. ASSUME RepeatUpdate(r) PROVE OrganisationIInv'
    BY <1>9, RepeatIInv
  <1> QED  BY <1>5, <1>6, <1>7, <1>8, <1>9

\* A crash interrupts every request under way.
LEMMA CrashIInv ==
  ASSUME OrganisationIInv, Crash
  PROVE  OrganisationIInv'
  <1>1. /\ provisioned' = {} /\ UNCHANGED <<users, org, role, counter, invoices, lowered>>
        /\ req' = [r \in Requests |-> IF UnderWay(r) THEN Interrupted(req[r]) ELSE req[r]]
    BY DEF Crash
  <1>2. ASSUME NEW r \in Requests
        PROVE  /\ req'[r] \in Request /\ req'[r].number = req[r].number
               /\ Follows(req[r], req'[r])
    <2>1. req[r] \in Request
      BY RequestTypes DEF OrganisationIInv
    <2>2. CASE UnderWay(r)
      BY <1>1, <2>2, InterruptedFollows
    <2>3. CASE ~UnderWay(r)
      BY <1>1, <2>1, <2>3, FollowsItself
    <2> QED  BY <2>2, <2>3
  <1>3. req' \in [Requests -> Request]
    BY <1>1, <1>2
  <1>4. ~lowered' => \A s \in Requests : req'[s].number <= counter'
    BY <1>1, <1>2 DEF OrganisationIInv, NumberInv
  <1>5. lowered' \in BOOLEAN
    BY <1>1, Zenon DEF OrganisationIInv, OrganisationTypeOK
  <1>6. /\ users' \subseteq Users /\ provisioned' \subseteq users'
        /\ counter' \in 0..MaxNumber /\ invoices' \subseteq 1..MaxNumber
    BY <1>1 DEF OrganisationIInv, OrganisationTypeOK
  <1> QED  BY <1>1, <1>2, <1>3, <1>4, <1>5, <1>6, QuietIInv

\* Initially nobody is a member and nothing has been asked for.
LEMMA OrganisationInitIInv == OrganisationInit => OrganisationIInv
  <1> SUFFICES ASSUME OrganisationInit PROVE OrganisationIInv
    OBVIOUS
  <1>1. 0 \in 0..MaxNumber
    BY OrganisationAssumption
  <1>2. Blank \in Request
    BY <1>1 DEF Blank, Request
  <1>3. req \in [Requests -> Request] /\ \A r \in Requests : req[r] = Blank
    BY <1>2 DEF OrganisationInit
  <1>4. OrganisationTypeOK
    <2>1. org \in BOOLEAN /\ lowered \in BOOLEAN
      BY Zenon DEF OrganisationInit
    <2>2. /\ users \subseteq Users /\ provisioned \subseteq Users
          /\ counter \in 0..MaxNumber /\ invoices \subseteq 1..MaxNumber
          /\ role \in [Users -> Roles \cup {"none"}]
      BY <1>1 DEF OrganisationInit
    <2> QED  BY <1>3, <2>1, <2>2, Zenon DEF OrganisationTypeOK, Request
  <1>5. ProvisionedHaveRows /\ OrgInv /\ RequestInv /\ NumberInv
    BY <1>3 DEF OrganisationInit, ProvisionedHaveRows, OrgInv, RequestInv, NumberInv, Blank,
                UnderWay, Committed
  <1>6. IsFiniteSet({r \in Requests : req[r].target # None})
    <2>1. {r \in Requests : req[r].target # None} = {}
      BY <1>3 DEF Blank
    <2> QED  BY <2>1, FS_EmptySet
  <1>7. ASSUME NEW u \in Users PROVE Balanced(u)
    <2>1. u # None
      BY OrganisationAssumption
    <2>2. \A ops : Changes(u, ops) = {}
      BY <1>3, <2>1 DEF Changes, Blank
    <2>3. \A x : GaveRole(u, x) = {} /\ LeftRole(u, x) = {}
      BY <2>2 DEF GaveRole, LeftRole
    <2>4. Cardinality({}) = 0
      BY FS_EmptySet
    <2>5. role[u] = "none" /\ \A x \in Roles : role[u] # x
      BY OrganisationAssumption DEF OrganisationInit
    <2>6. ASSUME NEW x \in Roles
          PROVE  Cardinality(LeftRole(u, x)) + Holds(role[u] = x) <= Cardinality(GaveRole(u, x))
      BY <2>3, <2>4, <2>5 DEF Holds
    <2>7. Cardinality(Changes(u, {"create", "add"})) =
            Cardinality(Changes(u, {"remove"})) + Holds(role[u] # "none")
      BY <2>2, <2>4, <2>5 DEF Holds
    <2> QED  BY <2>6, <2>7 DEF Balanced
  <1> QED  BY <1>4, <1>5, <1>6, <1>7 DEF OrganisationIInv, AuditInv

\* Every step preserves the invariant.
LEMMA OrganisationNextIInv ==
  OrganisationIInv /\ [OrganisationNext]_organisationVars => OrganisationIInv'
  <1> SUFFICES ASSUME OrganisationIInv, [OrganisationNext]_organisationVars
               PROVE  OrganisationIInv'
    OBVIOUS
  <1>1. CASE OrganisationNext
    BY <1>1, RequestSteps, MembershipSteps, CrashIInv, Zenon DEF OrganisationNext
  <1>2. CASE UNCHANGED organisationVars
    <2>1. /\ UNCHANGED <<users, provisioned, org, role, counter, invoices, req, lowered>>
      BY <1>2 DEF organisationVars
    <2>2. lowered' \in BOOLEAN
      BY <2>1, Zenon DEF OrganisationIInv, OrganisationTypeOK
    <2>3. /\ users' \subseteq Users /\ provisioned' \subseteq users'
          /\ counter' \in 0..MaxNumber /\ invoices' \subseteq 1..MaxNumber
      BY <2>1 DEF OrganisationIInv, OrganisationTypeOK, ProvisionedHaveRows
    <2>4. req' \in [Requests -> Request]
      BY <2>1 DEF OrganisationIInv, OrganisationTypeOK, Request
    <2>5. ~lowered' => \A s \in Requests : req'[s].number <= counter'
      BY <2>1 DEF OrganisationIInv, NumberInv
    <2> QED  BY <2>1, <2>2, <2>3, <2>4, <2>5, FollowsItself, QuietIInv
  <1> QED  BY <1>1, <1>2

\* Only get_next_invoice_number gives a request another number.
LEMMA OnlyTheCounterNumbers ==
  ASSUME OrganisationIInv, OrganisationNext, NEW r \in Requests,
         req'[r].number \notin {0, req[r].number}
  PROVE  \E k \in Attempts : get_next_invoice_number(r, k)
  <1> SUFFICES ASSUME \A k \in Attempts : ~get_next_invoice_number(r, k)
               PROVE  req'[r].number = req[r].number
    OBVIOUS
  <1>1. \A s \in Requests : req[s] \in Request /\ Interrupted(req[s]).number = req[s].number
    BY RequestTypes DEF OrganisationIInv, Interrupted, Blank, Request
  <1>2. req \in [Requests -> Request]
    BY RequestTypes DEF OrganisationIInv
  <1>3. CASE Crash
    BY <1>1, <1>3 DEF Crash
  <1>4. ASSUME NEW s \in Requests,
               \/ \E u \in Users, email \in BOOLEAN : current_user(s, u, email)
               \/ \E u \in Users : ProvisioningRaises(s, u)
               \/ RequireAdmin(s) \/ log_audit(s) \/ get_org_settings(s) \/ InsertInvoice(s)
               \/ RepeatUpdate(s)
               \/ \E n \in 0..MaxNumber : set_org_settings(s, n)
        PROVE  req'[r].number = req[r].number
    <2>1. CASE \/ \E u \in Users, email \in BOOLEAN : current_user(s, u, email)
               \/ \E u \in Users : ProvisioningRaises(s, u)
      BY <1>1, <1>2, <2>1 DEF current_user, ProvisioningRaises, Request
    <2>2. CASE RequireAdmin(s) \/ log_audit(s) \/ get_org_settings(s) \/ InsertInvoice(s)
      BY <1>1, <1>2, <2>2 DEF RequireAdmin, log_audit, get_org_settings, InsertInvoice, Request
    <2>3. CASE RepeatUpdate(s)
      BY <1>1, <1>2, <2>3 DEF RepeatUpdate, Request
    <2>4. CASE \E n \in 0..MaxNumber : set_org_settings(s, n)
      BY <1>1, <1>2, <2>4 DEF set_org_settings, Request
    <2> QED  BY <1>4, <2>1, <2>2, <2>3, <2>4
  <1>5. ASSUME NEW s \in Requests,
               \/ create_org(s)
               \/ \E t \in Users, new \in Roles : add_member(s, t, new) \/ change_role(s, t, new)
               \/ \E t \in Users : remove_member(s, t)
        PROVE  req'[r].number = req[r].number
    <2>1. ASSUME NEW op, NEW t, NEW old, NEW new, Commits(s, op, t, old, new)
          PROVE  req'[r].number = req[r].number
      BY <1>1, <1>2, <2>1 DEF Commits, Request
    <2>2. \E op, t, old, new : Commits(s, op, t, old, new)
      BY <1>5, Zenon DEF create_org, add_member, change_role, remove_member
    <2> QED  BY <2>1, <2>2
  <1>6. ASSUME NEW s \in Requests, Raises(s) PROVE req'[r].number = req[r].number
    BY <1>1, <1>2, <1>6 DEF Raises
  <1>7. ASSUME NEW s \in Requests, NEW k \in Attempts, get_next_invoice_number(s, k)
        PROVE  req'[r].number = req[r].number
    BY <1>1, <1>2, <1>7 DEF get_next_invoice_number, Request
  <1> QED  BY <1>3, <1>4, <1>5, <1>6, <1>7, Zenon DEF OrganisationNext, create_invoice

\* The invariant holds in every behaviour.
THEOREM OrganisationSpecIInv == OrganisationSpec => []OrganisationIInv
  BY OrganisationInitIInv, OrganisationNextIInv, PTL DEF OrganisationSpec

\* Rows and requests have the types the code gives them.
THEOREM OrganisationSpecTypeOK == OrganisationSpec => []OrganisationTypeOK
  <1>1. OrganisationIInv => OrganisationTypeOK
    BY DEF OrganisationIInv
  <1> QED  BY <1>1, OrganisationSpecIInv, PTL

\* The process remembers only users whose row is there (dependencies.py:43-45), for any
\* number of users, requests, failures and restarts.
THEOREM SpecProvisionedHaveRows == OrganisationSpec => []ProvisionedHaveRows
  <1>1. OrganisationIInv => ProvisionedHaveRows
    BY DEF OrganisationIInv
  <1> QED  BY <1>1, OrganisationSpecIInv, PTL

\* create_org leaves no organisation without an owner, and only change_role and
\* remove_member can take the last one.
THEOREM SpecOwnedFromTheStart == OrganisationSpec => []OwnedFromTheStart
  <1>1. OrganisationIInv => OwnedFromTheStart
    BY DEF OrganisationIInv, OrgInv, OwnedOrChanged, OwnedFromTheStart
  <1> QED  BY <1>1, OrganisationSpecIInv, PTL

\* The audit events of an undisturbed user lead to the role the user has, however many
\* changes were made and however they interleaved (membership.py:185-296).
THEOREM SpecAuditReplaysMembership == OrganisationSpec => []AuditReplaysMembership
  <1>1. OrganisationIInv => AuditReplaysMembership
    <2> SUFFICES ASSUME OrganisationIInv, NEW u \in Users,
                        \A r \in Requests :
                          req[r].target = u => req[r].at = "done" /\ ~req[r].repeated
                 PROVE  LET Events(ops) == {r \in Requests : /\ req[r].at = "done"
                                                             /\ req[r].target = u
                                                             /\ req[r].op \in ops}
                            Given(x) == {r \in Events({"create", "add", "change"}) :
                                           req[r].role = x}
                            Left(x)  == {r \in Events({"change"}) : req[r].old = x}
                            One(b)   == IF b THEN 1 ELSE 0
                        IN  /\ \A x \in Roles :
                                 Cardinality(Left(x)) + One(role[u] = x)
                                   <= Cardinality(Given(x))
                            /\ Cardinality(Events({"create", "add"})) =
                                 Cardinality(Events({"remove"})) + One(role[u] # "none")
      BY DEF AuditReplaysMembership
    <2> DEFINE Events(ops) == {r \in Requests : /\ req[r].at = "done" /\ req[r].target = u
                                                /\ req[r].op \in ops}
    <2>1. Balanced(u)
      BY DEF OrganisationIInv, AuditInv, Undisturbed
    <2>2. \A ops : Events(ops) = Changes(u, ops)
      BY DEF Changes
    <2>3. \A x : /\ {r \in Events({"create", "add", "change"}) : req[r].role = x}
                      = GaveRole(u, x)
                 /\ {r \in Events({"change"}) : req[r].old = x} = LeftRole(u, x)
      BY <2>2 DEF GaveRole, LeftRole
    <2>4. ASSUME NEW x \in Roles
          PROVE  Cardinality({r \in Events({"change"}) : req[r].old = x})
                     + (IF role[u] = x THEN 1 ELSE 0)
                   <= Cardinality({r \in Events({"create", "add", "change"}) : req[r].role = x})
      BY <2>1, <2>3, Zenon DEF Balanced, Holds
    <2>5. Cardinality(Events({"create", "add"})) =
            Cardinality(Events({"remove"})) + (IF role[u] # "none" THEN 1 ELSE 0)
      BY <2>1, <2>2, Zenon DEF Balanced, Holds
    <2> QED  BY <2>4, <2>5
  <1> QED  BY <1>1, OrganisationSpecIInv, PTL

\* A number that get_next_invoice_number takes is above all numbers taken before, until
\* an admin sets the counter back, for any number of requests and attempts.
THEOREM SpecNumbersRise == OrganisationSpec => NumbersRise
  <1>1. OrganisationIInv /\ [OrganisationNext]_organisationVars =>
          [\A r, s \in Requests :
             req'[r].number \notin {0, req[r].number} /\ ~lowered =>
               req'[r].number > req[s].number]_organisationVars
    <2> SUFFICES ASSUME OrganisationIInv, OrganisationNext,
                        NEW r \in Requests, NEW s \in Requests,
                        req'[r].number \notin {0, req[r].number}, ~lowered
                 PROVE  req'[r].number > req[s].number
      OBVIOUS
    <2>1. PICK k \in Attempts : get_next_invoice_number(r, k)
      BY OnlyTheCounterNumbers
    <2>2. req'[r].number = counter + k /\ k > 0 /\ k \in Nat
      <3>1. req[r] \in Request /\ req \in [Requests -> Request]
        BY RequestTypes DEF OrganisationIInv
      <3> QED  BY <2>1, <3>1 DEF get_next_invoice_number, Attempts, Request
    <2>3. req[s].number <= counter /\ req[s].number \in Nat /\ counter \in Nat
      BY RequestTypes DEF OrganisationIInv, NumberInv
    <2> QED  BY <2>2, <2>3
  <1> QED  BY <1>1, OrganisationSpecIInv, PTL DEF OrganisationSpec, NumbersRise

-----------------------------------------------------------------------------
(***************************************************************************)
(* REALTIME.  A live stream has been fed in order with the updates meant   *)
(* for it; what it missed was the head of a full queue.                    *)
(***************************************************************************)

Increasing(q) == \A m, n \in 1..Len(q) : m < n => q[m] < q[n]

\* What was relayed (a) and is queued (q) of the updates in M: updates of M in order, the
\* queued ones the newest, and those missed overtaken by MaxSize newer ones.
Fed(M, a, q) ==
  /\ \A n \in 1..Len(a) : a[n] \in M
  /\ \A n \in 1..Len(q) : q[n] \in M
  /\ Increasing(a) /\ Increasing(q)
  /\ \A m \in 1..Len(a), n \in 1..Len(q) : a[m] < q[n]
  /\ \A u \in M, n \in 1..Len(q) : u > q[n] => \E m \in 1..Len(q) : u = q[m]
  /\ \A u \in M \ (Elements(a) \cup Elements(q)) : Cardinality({v \in M : v > u}) >= MaxSize

\* A stream subscribed before now, and has nothing until it has.
StreamInv ==
  /\ Len(published) <= MaxUpdates
  /\ \A s \in Streams :
       /\ since[s] <= Len(published)
       /\ loop[s] = "new" => sent[s] = <<>> /\ inbox[s] = <<>>

FedInv == \A s \in Streams : Live(s) => Fed(Meant(s), sent[s], inbox[s])

\* The inductive invariant.
RealtimeIInv ==
  /\ RealtimeTypeOK
  /\ RegistryExact
  /\ StreamInv
  /\ FedInv

-----------------------------------------------------------------------------
(***************************************************************************)
(* Queues.                                                                 *)
(***************************************************************************)

\* A full queue gives up its head for what is put into it.
LEMMA PutFacts ==
  ASSUME NEW S, NEW q \in Seq(S), Len(q) <= MaxSize, NEW k \in S
  PROVE  LET p == PutDroppingOldest(q, k)
             d == IF Len(q) < MaxSize THEN 0 ELSE 1
         IN  /\ p \in Seq(S) /\ Len(p) = Len(q) - d + 1 /\ Len(p) <= MaxSize
             /\ p[Len(p)] = k
             /\ \A i \in 1..(Len(q) - d) : p[i] = q[i + d]
             /\ d = 1 => Len(q) = MaxSize
  <1>0. MaxSize \in Nat /\ MaxSize > 0 /\ Len(q) \in Nat
    BY RealtimeAssumption
  <1>1. CASE Len(q) < MaxSize
    <2>1. PutDroppingOldest(q, k) = Append(q, k)
      BY <1>1 DEF PutDroppingOldest
    <2> QED  BY <1>0, <1>1, <2>1
  <1>2. CASE ~(Len(q) < MaxSize)
    <2>1. PutDroppingOldest(q, k) = Append(Tail(q), k)
      BY <1>2 DEF PutDroppingOldest
    <2>2. q # <<>> /\ Len(q) = MaxSize
      BY <1>0, <1>2
    <2>3. /\ Tail(q) \in Seq(S) /\ Len(Tail(q)) = Len(q) - 1
          /\ \A i \in 1..(Len(q) - 1) : Tail(q)[i] = q[i + 1]
      BY <1>0, <2>2
    <2> QED  BY <1>0, <1>2, <2>1, <2>2, <2>3
  <1> QED  BY <1>1, <1>2

\* A queue that is put into keeps its type and its bound.
LEMMA PutTypes ==
  ASSUME NEW S, NEW q \in Seq(S), Len(q) <= MaxSize, NEW k \in S
  PROVE  PutDroppingOldest(q, k) \in Seq(S) /\ Len(PutDroppingOldest(q, k)) <= MaxSize
  BY PutFacts

\* The head of a queue goes to the end of what was relayed.
LEMMA RelayTypes ==
  ASSUME NEW S, NEW a \in Seq(S), NEW q \in Seq(S), q # <<>>, Len(q) <= MaxSize
  PROVE  /\ Append(a, Head(q)) \in Seq(S)
         /\ Tail(q) \in Seq(S) /\ Len(Tail(q)) <= MaxSize
  <1>1. Len(q) \in Nat /\ Len(Tail(q)) = Len(q) - 1 /\ MaxSize \in Nat
    BY RealtimeAssumption
  <1>2. Len(Tail(q)) <= MaxSize
    BY <1>1
  <1>3. Head(q) \in S /\ Tail(q) \in Seq(S)
    OBVIOUS
  <1> QED  BY <1>2, <1>3

\* An increasing sequence of n elements of a finite set.
LEMMA IncreasingCounts ==
  ASSUME NEW p \in Seq(Nat), Increasing(p), NEW T, IsFiniteSet(T),
         \A i \in 1..Len(p) : p[i] \in T
  PROVE  Len(p) <= Cardinality(T)
  <1> DEFINE n == Len(p)
             f == [i \in 1..n |-> p[i]]
  <1>1. n \in Nat /\ \A i \in 1..n : p[i] \in Nat
    OBVIOUS
  <1>2. f \in Injection(1..n, T)
    <2>1. f \in [1..n -> T]
      OBVIOUS
    <2>2. ASSUME NEW i \in 1..n, NEW j \in 1..n, f[i] = f[j] PROVE i = j
      <3>1. ~(i < j) /\ ~(j < i)
        BY <1>1, <2>2 DEF Increasing
      <3> QED  BY <1>1, <3>1
    <2> HIDE DEF f
    <2>3. IsInjective(f)
      BY <2>1, <2>2 DEF IsInjective
    <2> QED  BY <2>1, <2>3, Zenon DEF Injection
  <1>3. Cardinality(1..n) = n
    <2>1. n \in Int /\ 1 \in Int
      BY <1>1
    <2>2. Cardinality(1..n) = IF 1 > n THEN 0 ELSE n - 1 + 1
      BY <2>1, FS_Interval
    <2> QED  BY <1>1, <2>2
  <1> HIDE DEF f, n
  <1>4. Cardinality(1..n) <= Cardinality(T)
    BY <1>2, FS_Injection
  <1> QED  BY <1>3, <1>4 DEF n

\* More updates to come do not let an update be less far behind.
LEMMA MoreNewer ==
  ASSUME NEW M, NEW N, M \subseteq N, IsFiniteSet(N), NEW u,
         Cardinality({v \in M : v > u}) >= MaxSize
  PROVE  Cardinality({v \in N : v > u}) >= MaxSize
  <1> DEFINE A == {v \in M : v > u}
             B == {v \in N : v > u}
  <1>1. A \subseteq B /\ B \subseteq N
    OBVIOUS
  <1>2. IsFiniteSet(B)
    BY <1>1, FS_Subset
  <1>3. IsFiniteSet(A) /\ Cardinality(A) <= Cardinality(B)
    BY <1>1, <1>2, FS_Subset
  <1>4. Cardinality(A) \in Nat /\ Cardinality(B) \in Nat
    BY <1>2, <1>3, FS_CardinalityType
  <1>5. MaxSize \in Nat
    BY RealtimeAssumption
  <1> HIDE DEF A, B
  <1>6. Cardinality(A) >= MaxSize
    BY DEF A
  <1>7. Cardinality(B) >= MaxSize
    BY <1>3, <1>4, <1>5, <1>6
  <1> QED  BY <1>7 DEF B

\* A newer update is published and put into the queue.
LEMMA FedPut ==
  ASSUME NEW M \in SUBSET Nat, IsFiniteSet(M), NEW a \in Seq(Nat), NEW q \in Seq(Nat),
         Len(q) <= MaxSize, Fed(M, a, q), NEW k \in Nat, \A u \in M : u < k
  PROVE  Fed(M \cup {k}, a, PutDroppingOldest(q, k))
  <1> DEFINE p == PutDroppingOldest(q, k)
             d == IF Len(q) < MaxSize THEN 0 ELSE 1
             N == M \cup {k}
  <1>1. /\ p \in Seq(Nat) /\ Len(p) = Len(q) - d + 1 /\ Len(p) <= MaxSize
        /\ p[Len(p)] = k
        /\ \A i \in 1..(Len(q) - d) : p[i] = q[i + d]
        /\ d = 1 => Len(q) = MaxSize
    BY PutFacts
  <1>2. /\ d \in 0..1 /\ Len(q) \in Nat /\ Len(p) \in Nat /\ Len(a) \in Nat
        /\ Len(q) - d \in Nat /\ MaxSize \in Nat
    <2>1. Len(q) \in Nat /\ Len(a) \in Nat /\ MaxSize \in Nat /\ MaxSize > 0
      BY RealtimeAssumption
    <2> QED  BY <1>1, <2>1
  <1> HIDE DEF p, d
  <1>3. \A i \in 1..Len(p) : \/ i = Len(p) /\ p[i] = k
                             \/ i \in 1..(Len(q) - d) /\ i + d \in 1..Len(q) /\ p[i] = q[i + d]
    <2> SUFFICES ASSUME NEW i \in 1..Len(p), i # Len(p)
                 PROVE  i \in 1..(Len(q) - d) /\ i + d \in 1..Len(q) /\ p[i] = q[i + d]
      BY <1>1
    <2>1. Len(p) = Len(q) - d + 1
      BY <1>1
    <2>2. i \in 1..(Len(q) - d) /\ i + d \in 1..Len(q)
      BY <1>2, <2>1
    <2> QED  BY <1>1, <2>2
  <1>4. IsFiniteSet(N)
    BY FS_AddElement
  <1>5. /\ \A n \in 1..Len(a) : a[n] \in M /\ a[n] \in Nat /\ a[n] < k
        /\ \A n \in 1..Len(q) : q[n] \in M /\ q[n] \in Nat /\ q[n] < k
    BY DEF Fed
  <1>6. \A n \in 1..Len(p) : p[n] \in N
    BY <1>3, <1>5
  <1>7. Increasing(p)
    <2> SUFFICES ASSUME NEW m \in 1..Len(p), NEW n \in 1..Len(p), m < n PROVE p[m] < p[n]
      BY DEF Increasing
    <2>1. m \in 1..(Len(q) - d) /\ m + d \in 1..Len(q) /\ p[m] = q[m + d]
      BY <1>1, <1>2, <1>3, SMTT(30)
    <2>2. CASE p[n] = k
      BY <1>5, <2>1, <2>2
    <2>3. CASE n + d \in 1..Len(q) /\ p[n] = q[n + d]
      <3>1. m + d < n + d
        BY <1>2
      <3> QED  BY <2>1, <2>3, <3>1 DEF Fed, Increasing
    <2> QED  BY <1>3, <2>2, <2>3
  <1>8. ASSUME NEW m \in 1..Len(a), NEW n \in 1..Len(p) PROVE a[m] < p[n]
    BY <1>3, <1>5 DEF Fed
  <1>9. ASSUME NEW u \in N, NEW n \in 1..Len(p), u > p[n]
        PROVE  \E m \in 1..Len(p) : u = p[m]
    <2>1. CASE u = k
      <3>1. Len(p) \in 1..Len(p)
        BY <1>1, <1>2
      <3> QED  BY <1>1, <2>1, <3>1
    <2>2. CASE u \in M
      <3>1. u \in Nat /\ u < k
        BY <2>2
      <3>2. n \in 1..(Len(q) - d) /\ n + d \in 1..Len(q) /\ p[n] = q[n + d]
        BY <1>3, <1>9, <3>1
      <3>3. PICK m \in 1..Len(q) : u = q[m]
        BY <1>9, <2>2, <3>2 DEF Fed
      <3>4. ~(m < n + d) /\ m # n + d
        BY <1>5, <1>9, <3>2, <3>3, SMTT(30) DEF Fed, Increasing
      <3>5. m - d \in 1..(Len(q) - d) /\ m - d \in 1..Len(p) /\ (m - d) + d = m
        BY <1>1, <1>2, <3>2, <3>4
      <3>6. p[m - d] = q[m]
        BY <1>1, <3>5
      <3> QED  BY <3>3, <3>5, <3>6
    <2> QED  BY <2>1, <2>2
  <1>10. ASSUME NEW u \in N \ (Elements(a) \cup Elements(p))
         PROVE  Cardinality({v \in N : v > u}) >= MaxSize
    <2>1. u \in M
      <3>1. k \in Elements(p)
        BY <1>1, <1>2 DEF Elements
      <3> QED  BY <3>1
    <2>2. CASE u \notin Elements(q)
      <3>1. Cardinality({v \in M : v > u}) >= MaxSize
        BY <2>1, <2>2 DEF Fed
      <3>2. M \subseteq N
        OBVIOUS
      <3> HIDE DEF N
      <3> QED  BY <1>4, <3>1, <3>2, MoreNewer
    <2>3. CASE u \in Elements(q)
      <3>1. PICK m \in 1..Len(q) : u = q[m]
        BY <2>3 DEF Elements
      <3>2. m <= d
        <4>1. SUFFICES ASSUME m > d PROVE FALSE
          BY <1>2
        <4>2. m - d \in 1..(Len(q) - d) /\ m - d \in 1..Len(p) /\ (m - d) + d = m
          BY <1>1, <1>2, <4>1
        <4>3. p[m - d] = u
          BY <1>1, <3>1, <4>2
        <4> QED  BY <4>2, <4>3 DEF Elements
      <3>3. d = 1 /\ m = 1 /\ Len(p) = MaxSize
        BY <1>1, <1>2, <3>2
      <3>4. ASSUME NEW i \in 1..Len(p) PROVE p[i] \in {v \in N : v > u}
        <4>1. CASE p[i] = k
          BY <1>5, <3>1, <4>1
        <4>2. CASE i + d \in 1..Len(q) /\ p[i] = q[i + d]
          <5>1. m < i + d
            BY <3>3
          <5>2. q[m] < q[i + d]
            BY <4>2, <5>1 DEF Fed, Increasing
          <5> QED  BY <1>5, <1>6, <3>1, <4>2, <5>2
        <4> QED  BY <1>3, <4>1, <4>2
      <3>5. IsFiniteSet({v \in N : v > u})
        BY <1>4, FS_Subset
      <3>6. Len(p) <= Cardinality({v \in N : v > u})
        BY <1>1, <1>7, <3>4, <3>5, IncreasingCounts
      <3>7. Cardinality({v \in N : v > u}) \in Nat
        BY <3>5, FS_CardinalityType
      <3> QED  BY <1>2, <3>3, <3>6, <3>7
    <2> QED  BY <2>2, <2>3
  <1>11. (\A n \in 1..Len(a) : a[n] \in N) /\ Increasing(a)
    BY <1>5 DEF Fed
  <1>12. Fed(N, a, p)
    BY <1>6, <1>7, <1>8, <1>9, <1>10, <1>11 DEF Fed
  <1> QED  BY <1>12 DEF p

\* The head of the queue is relayed.
LEMMA FedRelay ==
  ASSUME NEW M \in SUBSET Nat, NEW a \in Seq(Nat), NEW q \in Seq(Nat), q # <<>>, Fed(M, a, q)
  PROVE  Fed(M, Append(a, Head(q)), Tail(q))
  <1> DEFINE b == Append(a, Head(q))
             p == Tail(q)
  <1>1. /\ Len(a) \in Nat /\ Len(q) \in Nat /\ Len(q) > 0
        /\ b \in Seq(Nat) /\ Len(b) = Len(a) + 1 /\ b[Len(a) + 1] = q[1]
        /\ \A i \in 1..Len(a) : b[i] = a[i]
        /\ p \in Seq(Nat) /\ Len(p) = Len(q) - 1
        /\ \A i \in 1..Len(p) : p[i] = q[i + 1]
    OBVIOUS
  <1> HIDE DEF b, p
  <1>2. \A i \in 1..Len(b) : \/ i \in 1..Len(a) /\ b[i] = a[i]
                             \/ i = Len(a) + 1 /\ b[i] = q[1]
    <2>1. Len(a) \in Nat /\ Len(b) = Len(a) + 1
      BY <1>1
    <2>2. \A i \in 1..Len(b) : i \in 1..Len(a) \/ i = Len(a) + 1
      BY <2>1
    <2> QED  BY <1>1, <2>2
  <1>3. \A i \in 1..Len(p) : i + 1 \in 1..Len(q) /\ p[i] = q[i + 1]
    <2>1. Len(q) \in Nat /\ Len(p) = Len(q) - 1
      BY <1>1
    <2>2. \A i \in 1..Len(p) : i + 1 \in 1..Len(q)
      BY <2>1
    <2> QED  BY <1>1, <2>2
  <1>4. /\ \A n \in 1..Len(a) : a[n] \in M /\ a[n] \in Nat
        /\ \A n \in 1..Len(q) : q[n] \in M /\ q[n] \in Nat
        /\ 1 \in 1..Len(q)
    BY <1>1, SMTT(30) DEF Fed
  <1>5. (\A n \in 1..Len(b) : b[n] \in M) /\ (\A n \in 1..Len(p) : p[n] \in M)
    BY <1>2, <1>3, <1>4
  <1>6. Increasing(b)
    <2> SUFFICES ASSUME NEW m \in 1..Len(b), NEW n \in 1..Len(b), m < n PROVE b[m] < b[n]
      BY DEF Increasing
    <2>1. m \in 1..Len(a)
      <3>1. Len(a) \in Nat /\ Len(b) = Len(a) + 1
        BY <1>1
      <3> QED  BY <3>1
    <2>2. b[m] = a[m]
      BY <1>1, <2>1
    <2> QED  BY <1>2, <1>4, <2>1, <2>2 DEF Fed, Increasing
  <1>7. Increasing(p)
    <2> SUFFICES ASSUME NEW m \in 1..Len(p), NEW n \in 1..Len(p), m < n PROVE p[m] < p[n]
      BY DEF Increasing
    <2>1. m + 1 < n + 1
      BY <1>1
    <2> QED  BY <1>3, <2>1 DEF Fed, Increasing
  <1>8. ASSUME NEW m \in 1..Len(b), NEW n \in 1..Len(p) PROVE b[m] < p[n]
    <2>1. 1 < n + 1
      BY <1>1
    <2>2. q[1] < q[n + 1]
      BY <1>3, <1>4, <2>1 DEF Fed, Increasing
    <2> QED  BY <1>2, <1>3, <2>2 DEF Fed
  <1>9. ASSUME NEW u \in M, NEW n \in 1..Len(p), u > p[n]
        PROVE  \E m \in 1..Len(p) : u = p[m]
    <2>1. PICK m \in 1..Len(q) : u = q[m]
      BY <1>3, <1>9 DEF Fed
    <2>2. n + 1 \in 1..Len(q) /\ q[m] > q[n + 1] /\ q[m] \in Nat /\ q[n + 1] \in Nat
      BY <1>3, <1>4, <1>9, <2>1
    <2>3. m < n + 1 => q[m] < q[n + 1]
      BY <2>2 DEF Fed, Increasing
    <2>4. ~(m < n + 1) /\ m # n + 1
      BY <2>2, <2>3
    <2>5. m - 1 \in 1..Len(p) /\ (m - 1) + 1 = m
      BY <1>1, <2>4
    <2> QED  BY <1>1, <2>1, <2>5
  <1>10. ASSUME NEW u \in M \ (Elements(b) \cup Elements(p))
         PROVE  Cardinality({v \in M : v > u}) >= MaxSize
    <2>1. u \notin Elements(a)
      <3>1. \A i \in 1..Len(a) : i \in 1..Len(b)
        BY <1>1
      <3> QED  BY <1>1, <3>1, SMTT(30) DEF Elements
    <2>2. u \notin Elements(q)
      <3> SUFFICES ASSUME NEW m \in 1..Len(q), u = q[m] PROVE FALSE
        BY DEF Elements
      <3>1. CASE m = 1
        <4>1. Len(a) + 1 \in 1..Len(b)
          BY <1>1
        <4> QED  BY <1>1, <3>1, <4>1 DEF Elements
      <3>2. CASE m # 1
        <4>1. m - 1 \in 1..Len(p) /\ (m - 1) + 1 = m
          BY <1>1, <3>2
        <4>2. p[m - 1] = u
          BY <1>1, <4>1
        <4> QED  BY <4>1, <4>2 DEF Elements
      <3> QED  BY <3>1, <3>2
    <2> QED  BY <2>1, <2>2 DEF Fed
  <1>11. Fed(M, b, p)
    BY <1>5, <1>6, <1>7, <1>8, <1>9, <1>10 DEF Fed
  <1> QED  BY <1>11 DEF b, p

\* A new stream has missed nothing.
LEMMA FedNothing == Fed({}, <<>>, <<>>)
  BY DEF Fed, Increasing

\* What is relayed and queued, in one sequence.
LEMMA FedFeed ==
  ASSUME NEW M \in SUBSET Nat, NEW a \in Seq(Nat), NEW q \in Seq(Nat), Fed(M, a, q)
  PROVE  /\ Elements(a \o q) \subseteq M
         /\ \A m, n \in 1..Len(a \o q) : m < n => (a \o q)[m] < (a \o q)[n]
         /\ \A u \in M, n \in 1..Len(q) : u > q[n] => u \in Elements(q)
  <1> DEFINE f == a \o q
  <1>1. Len(a) \in Nat /\ Len(q) \in Nat /\ Len(f) = Len(a) + Len(q)
    OBVIOUS
  <1>2. ASSUME NEW i \in 1..Len(f)
        PROVE  \/ i \in 1..Len(a) /\ f[i] = a[i]
               \/ i > Len(a) /\ i - Len(a) \in 1..Len(q) /\ f[i] = q[i - Len(a)]
    <2>1. CASE i <= Len(a)
      BY <1>1, <2>1
    <2>2. CASE i > Len(a)
      BY <1>1, <2>2
    <2> QED  BY <1>1, <2>1, <2>2, SMTT(30)
  <1> HIDE DEF f
  <1>3. Elements(f) \subseteq M
    <2>1. ASSUME NEW i \in 1..Len(f) PROVE f[i] \in M
      <3>1. CASE i \in 1..Len(a) /\ f[i] = a[i]
        BY <3>1 DEF Fed
      <3>2. CASE i - Len(a) \in 1..Len(q) /\ f[i] = q[i - Len(a)]
        BY <3>2 DEF Fed
      <3> QED  BY <1>2, <3>1, <3>2
    <2> QED  BY <2>1, Zenon DEF Elements
  <1>4. ASSUME NEW m \in 1..Len(f), NEW n \in 1..Len(f), m < n PROVE f[m] < f[n]
    <2>1. CASE m \in 1..Len(a) /\ f[m] = a[m] /\ n \in 1..Len(a) /\ f[n] = a[n]
      BY <1>4, <2>1 DEF Fed, Increasing
    <2>2. CASE m \in 1..Len(a) /\ f[m] = a[m] /\ n - Len(a) \in 1..Len(q) /\ f[n] = q[n - Len(a)]
      BY <2>2 DEF Fed
    <2>3. CASE /\ m - Len(a) \in 1..Len(q) /\ f[m] = q[m - Len(a)]
               /\ n - Len(a) \in 1..Len(q) /\ f[n] = q[n - Len(a)]
      <3>1. m - Len(a) < n - Len(a)
        BY <1>1, <1>4
      <3> QED  BY <2>3, <3>1 DEF Fed, Increasing
    <2>4. ~(m > Len(a) /\ n \in 1..Len(a))
      BY <1>1, <1>4
    <2> QED  BY <1>2, <2>1, <2>2, <2>3, <2>4
  <1>5. \A u \in M, n \in 1..Len(q) : u > q[n] => u \in Elements(q)
    BY DEF Fed, Elements
  <1> QED  BY <1>3, <1>4, <1>5 DEF f

-----------------------------------------------------------------------------
(***************************************************************************)
(* Steps.                                                                  *)
(***************************************************************************)

\* The types of what a stream has.
LEMMA StreamTypes ==
  ASSUME RealtimeTypeOK, StreamInv, NEW s \in Streams
  PROVE  /\ sent[s] \in Seq(Nat) /\ inbox[s] \in Seq(Nat) /\ Len(inbox[s]) <= MaxSize
         /\ sent[s] \in Seq(1..MaxUpdates) /\ inbox[s] \in Seq(1..MaxUpdates)
         /\ since[s] \in Nat /\ since[s] <= Len(published) /\ Len(published) \in Nat
         /\ Meant(s) \in SUBSET Nat /\ IsFiniteSet(Meant(s))
         /\ \A u \in Meant(s) : u <= Len(published)
  <1>1. /\ sent[s] \in Seq(1..MaxUpdates) /\ inbox[s] \in Seq(1..MaxUpdates)
        /\ Len(inbox[s]) <= MaxSize
        /\ since[s] \in Nat /\ since[s] <= Len(published) /\ Len(published) \in Nat
    BY RealtimeAssumption DEF RealtimeTypeOK, StreamInv
  <1>2. \A q \in Seq(1..MaxUpdates) : q \in Seq(Nat)
    BY RealtimeAssumption
  <1>3. Meant(s) \in SUBSET Nat /\ \A u \in Meant(s) : u <= Len(published)
    BY <1>1 DEF Meant
  <1>4. IsFiniteSet(Meant(s))
    BY <1>1, <1>3, FS_BoundedSetOfNaturals
  <1> QED  BY <1>1, <1>2, <1>3, <1>4

\* Initially nobody is subscribed.
LEMMA RealtimeInitIInv == RealtimeInit => RealtimeIInv
  <1> SUFFICES ASSUME RealtimeInit PROVE RealtimeIInv
    OBVIOUS
  <1>1. RealtimeTypeOK
    BY RealtimeAssumption DEF RealtimeInit, RealtimeTypeOK
  <1>2. RegistryExact
    BY DEF RealtimeInit, RegistryExact, QueuesOf, Live
  <1>3. StreamInv /\ FedInv
    BY RealtimeAssumption DEF RealtimeInit, StreamInv, FedInv, Live
  <1> QED  BY <1>1, <1>2, <1>3 DEF RealtimeIInv

\* publish_update reaches the queues of the channel's live streams and no others.
LEMMA PublishIInv ==
  ASSUME RealtimeIInv, NEW c \in Channels, PublishUpdate(c)
  PROVE  RealtimeIInv'
  <1> DEFINE k == Len(published) + 1
  <1>1. /\ Len(published) < MaxUpdates /\ published' = Append(published, c)
        /\ inbox' = [s \in Streams |-> IF s \in QueuesOf(c)
                                         THEN PutDroppingOldest(inbox[s], Len(published'))
                                         ELSE inbox[s]]
        /\ UNCHANGED <<subscribers, loop, sent, since>>
    BY DEF PublishUpdate
  <1>2. published \in Seq(Channels) /\ MaxUpdates \in Nat /\ Len(published) \in Nat
    BY RealtimeAssumption DEF RealtimeIInv, RealtimeTypeOK
  <1>3. /\ Len(published') = k /\ k \in 1..MaxUpdates /\ k \in Nat /\ published'[k] = c
        /\ \A u \in 1..Len(published) : published'[u] = published[u]
        /\ published' \in Seq(Channels)
    BY <1>1, <1>2
  <1>4. QueuesOf(c) = {s \in Streams : Live(s) /\ c \in ChannelsOf[s]}
    BY DEF RealtimeIInv, RegistryExact
  <1> HIDE DEF k
  <1>5. ASSUME NEW s \in Streams
        PROVE  /\ inbox'[s] \in Seq(1..MaxUpdates) /\ Len(inbox'[s]) <= MaxSize
               /\ s \in QueuesOf(c) => inbox'[s] = PutDroppingOldest(inbox[s], k)
               /\ s \notin QueuesOf(c) => inbox'[s] = inbox[s]
    <2>1. inbox[s] \in Seq(1..MaxUpdates) /\ Len(inbox[s]) <= MaxSize
      BY StreamTypes DEF RealtimeIInv
    <2>2. CASE s \in QueuesOf(c)
      <3>1. inbox'[s] = PutDroppingOldest(inbox[s], k)
        BY <1>1, <1>3, <2>2
      <3>2. /\ PutDroppingOldest(inbox[s], k) \in Seq(1..MaxUpdates)
            /\ Len(PutDroppingOldest(inbox[s], k)) <= MaxSize
        BY <1>3, <2>1, PutTypes
      <3> QED  BY <2>2, <3>1, <3>2
    <2>3. CASE s \notin QueuesOf(c)
      BY <1>1, <2>1, <2>3
    <2> QED  BY <2>2, <2>3
  <1>6. RealtimeTypeOK'
    <2>1. inbox' \in [Streams -> Seq(1..MaxUpdates)]
      <3>1. inbox' = [s \in Streams |-> inbox'[s]]
        BY <1>1
      <3> QED  BY <1>5, <3>1
    <2> QED  BY <1>1, <1>3, <1>5, <2>1 DEF RealtimeIInv, RealtimeTypeOK
  <1>7. RegistryExact'
    BY <1>1 DEF RealtimeIInv, RegistryExact, QueuesOf, Live
  <1>8. StreamInv'
    <2>1. Len(published') <= MaxUpdates
      BY <1>2, <1>3
    <2>2. ASSUME NEW s \in Streams PROVE since'[s] <= Len(published')
      <3>1. since[s] \in Nat /\ since[s] <= Len(published)
        BY StreamTypes DEF RealtimeIInv
      <3> QED  BY <1>1, <1>2, <1>3, <3>1 DEF k
    <2>3. ASSUME NEW s \in Streams, loop'[s] = "new"
          PROVE  sent'[s] = <<>> /\ inbox'[s] = <<>>
      <3>1. s \notin QueuesOf(c) /\ loop[s] = "new"
        BY <1>1, <1>4, <2>3 DEF Live
      <3> QED  BY <1>1, <1>5, <3>1 DEF RealtimeIInv, StreamInv
    <2> QED  BY <2>1, <2>2, <2>3 DEF StreamInv
  <1>9. ASSUME NEW s \in Streams, Live(s)'
        PROVE  Fed(Meant(s)', sent'[s], inbox'[s])
    <2>1. Live(s) /\ Fed(Meant(s), sent[s], inbox[s])
      BY <1>1, <1>9 DEF RealtimeIInv, FedInv, Live
    <2>2. /\ sent[s] \in Seq(Nat) /\ inbox[s] \in Seq(Nat) /\ Len(inbox[s]) <= MaxSize
          /\ since[s] \in Nat /\ since[s] <= Len(published)
          /\ Meant(s) \in SUBSET Nat /\ IsFiniteSet(Meant(s))
          /\ \A u \in Meant(s) : u <= Len(published)
      BY StreamTypes DEF RealtimeIInv
    <2>3. Meant(s)' = {u \in since[s] + 1 .. k : published'[u] \in ChannelsOf[s]}
      BY <1>1, <1>3 DEF Meant
    <2>4. \A u \in since[s] + 1 .. k : u = k \/ u \in since[s] + 1 .. Len(published)
      BY <1>2, <2>2 DEF k
    <2>5. \A u \in since[s] + 1 .. Len(published) :
            u \in since[s] + 1 .. k /\ published'[u] = published[u] /\ u # k
      BY <1>2, <1>3, <2>2 DEF k
    <2>6. k \in since[s] + 1 .. k
      BY <1>2, <2>2 DEF k
    <2>7. CASE c \in ChannelsOf[s]
      <3>1. Meant(s)' = Meant(s) \cup {k}
        BY <1>3, <2>3, <2>4, <2>5, <2>6, <2>7 DEF Meant
      <3>2. inbox'[s] = PutDroppingOldest(inbox[s], k)
        BY <1>4, <1>5, <2>1, <2>7
      <3>3. \A u \in Meant(s) : u < k
        BY <1>2, <2>2 DEF k
      <3>4. Fed(Meant(s) \cup {k}, sent[s], PutDroppingOldest(inbox[s], k))
        BY <1>3, <2>1, <2>2, <3>3, FedPut
      <3> QED  BY <1>1, <3>1, <3>2, <3>4
    <2>8. CASE c \notin ChannelsOf[s]
      <3>1. Meant(s)' = Meant(s)
        BY <1>3, <2>3, <2>4, <2>5, <2>8 DEF Meant
      <3>2. inbox'[s] = inbox[s]
        BY <1>4, <1>5, <2>8
      <3> QED  BY <1>1, <2>1, <3>1, <3>2
    <2> QED  BY <2>7, <2>8
  <1> QED  BY <1>6, <1>7, <1>8, <1>9 DEF RealtimeIInv, FedInv

\* A new stream: its queue is under its channels.
LEMMA SubscribeIInv ==
  ASSUME RealtimeIInv, NEW s \in Streams, Subscribe(s)
  PROVE  RealtimeIInv'
  <1>1. /\ loop[s] = "new" /\ loop' = [loop EXCEPT ![s] = "yielded"]
        /\ subscribers' = [c \in DOMAIN subscribers \cup ChannelsOf[s] |->
                             QueuesOf(c) \cup {t \in {s} : c \in ChannelsOf[t]}]
        /\ since' = [since EXCEPT ![s] = Len(published)]
        /\ UNCHANGED <<inbox, sent, published>>
    BY DEF Subscribe
  <1>2. /\ loop \in [Streams -> {"new", "tick", "waiting", "yielded", "closed"}]
        /\ since \in [Streams -> 0..MaxUpdates]
        /\ DOMAIN subscribers \subseteq Channels
        /\ \A c \in DOMAIN subscribers : subscribers[c] \subseteq Streams
        /\ ChannelsOf[s] \subseteq Channels
    BY RealtimeAssumption DEF RealtimeIInv, RealtimeTypeOK
  <1>3. Len(published) \in 0..MaxUpdates /\ Len(published) \in Nat
    BY RealtimeAssumption DEF RealtimeIInv, RealtimeTypeOK, StreamInv
  <1>4. /\ loop'[s] = "yielded" /\ since'[s] = Len(published)
        /\ \A t \in Streams : t # s => loop'[t] = loop[t] /\ since'[t] = since[t]
    BY <1>1, <1>2
  <1>5. RealtimeTypeOK'
    <2>1. /\ DOMAIN subscribers' \subseteq Channels
          /\ \A c \in DOMAIN subscribers' : subscribers'[c] \subseteq Streams
      BY <1>1, <1>2 DEF QueuesOf
    <2>2. /\ loop' \in [Streams -> {"new", "tick", "waiting", "yielded", "closed"}]
          /\ since' \in [Streams -> 0..MaxUpdates]
      BY <1>1, <1>2, <1>3
    <2> QED  BY <1>1, <2>1, <2>2 DEF RealtimeIInv, RealtimeTypeOK
  <1>6. RegistryExact'
    <2>1. ASSUME NEW c \in Channels
          PROVE  QueuesOf(c)' = {t \in Streams : Live(t)' /\ c \in ChannelsOf[t]}
      <3>1. QueuesOf(c) = {t \in Streams : Live(t) /\ c \in ChannelsOf[t]}
        BY DEF RealtimeIInv, RegistryExact
      <3>2. QueuesOf(c)' = QueuesOf(c) \cup {t \in {s} : c \in ChannelsOf[t]}
        BY <1>1 DEF QueuesOf
      <3> QED  BY <1>1, <1>4, <3>1, <3>2 DEF Live
    <2>2. ASSUME NEW c \in DOMAIN subscribers' PROVE subscribers'[c] # {}
      <3>1. subscribers'[c] = QueuesOf(c) \cup {t \in {s} : c \in ChannelsOf[t]}
        BY <1>1, <2>2
      <3>2. CASE c \in DOMAIN subscribers
        BY <3>1, <3>2 DEF RealtimeIInv, RegistryExact, QueuesOf
      <3>3. CASE c \in ChannelsOf[s]
        BY <3>1, <3>3
      <3> QED  BY <1>1, <3>2, <3>3
    <2> QED  BY <2>1, <2>2 DEF RegistryExact
  <1>7. StreamInv'
    BY <1>1, <1>3, <1>4 DEF RealtimeIInv, StreamInv
  <1>8. ASSUME NEW t \in Streams, Live(t)'
        PROVE  Fed(Meant(t)', sent'[t], inbox'[t])
    <2>1. CASE t = s
      <3>1. Meant(s)' = {}
        BY <1>1, <1>3, <1>4 DEF Meant
      <3>2. sent'[s] = <<>> /\ inbox'[s] = <<>>
        BY <1>1 DEF RealtimeIInv, StreamInv
      <3> QED  BY <2>1, <3>1, <3>2, FedNothing
    <2>2. CASE t # s
      <3>1. Live(t) /\ Meant(t)' = Meant(t)
        BY <1>1, <1>4, <1>8, <2>2 DEF Live, Meant
      <3> QED  BY <1>1, <3>1 DEF RealtimeIInv, FedInv
    <2> QED  BY <2>1, <2>2
  <1> QED  BY <1>5, <1>6, <1>7, <1>8 DEF RealtimeIInv, FedInv

\* A stream ends: its queue leaves every channel.
LEMMA CloseIInv ==
  ASSUME RealtimeIInv, NEW s \in Streams, Close(s)
  PROVE  RealtimeIInv'
  <1>1. /\ Live(s) /\ loop' = [loop EXCEPT ![s] = "closed"]
        /\ subscribers' = [c \in {e \in DOMAIN subscribers : subscribers[e] # {s}} |->
                             subscribers[c] \ {s}]
        /\ UNCHANGED <<inbox, sent, published, since>>
    BY DEF Close, Unsubscribe
  <1>2. /\ loop \in [Streams -> {"new", "tick", "waiting", "yielded", "closed"}]
        /\ DOMAIN subscribers \subseteq Channels
        /\ \A c \in DOMAIN subscribers : subscribers[c] \subseteq Streams
    BY DEF RealtimeIInv, RealtimeTypeOK
  <1>3. /\ loop'[s] = "closed"
        /\ \A t \in Streams : t # s => loop'[t] = loop[t]
    BY <1>1, <1>2
  <1>4. RealtimeTypeOK'
    <2>1. /\ DOMAIN subscribers' \subseteq Channels
          /\ \A c \in DOMAIN subscribers' : subscribers'[c] \subseteq Streams
      BY <1>1, <1>2
    <2>2. loop' \in [Streams -> {"new", "tick", "waiting", "yielded", "closed"}]
      BY <1>1, <1>2
    <2> QED  BY <1>1, <2>1, <2>2 DEF RealtimeIInv, RealtimeTypeOK
  <1>5. RegistryExact'
    <2>1. ASSUME NEW c \in Channels
          PROVE  QueuesOf(c)' = {t \in Streams : Live(t)' /\ c \in ChannelsOf[t]}
      <3>1. QueuesOf(c) = {t \in Streams : Live(t) /\ c \in ChannelsOf[t]}
        BY DEF RealtimeIInv, RegistryExact
      <3>2. QueuesOf(c)' = QueuesOf(c) \ {s}
        BY <1>1 DEF QueuesOf
      <3> QED  BY <1>3, <3>1, <3>2 DEF Live
    <2>2. \A c \in DOMAIN subscribers' : subscribers'[c] # {}
      BY <1>1 DEF RealtimeIInv, RegistryExact
    <2> QED  BY <2>1, <2>2 DEF RegistryExact
  <1>6. StreamInv'
    BY <1>1, <1>3 DEF RealtimeIInv, StreamInv
  <1>7. FedInv'
    BY <1>1, <1>3 DEF RealtimeIInv, FedInv, Live, Meant
  <1> QED  BY <1>4, <1>5, <1>6, <1>7 DEF RealtimeIInv

\* A live stream relays the head of its queue, goes to wait, comes back or resumes.
LEMMA StreamIInv ==
  ASSUME RealtimeIInv, NEW s \in Streams, stream_events(s) \/ Resume(s)
  PROVE  RealtimeIInv'
  <1>1. UNCHANGED <<subscribers, published, since>> /\ Live(s)
    BY DEF stream_events, Resume, Round, Woken, Heartbeat, Live
  <1>2. /\ loop \in [Streams -> {"new", "tick", "waiting", "yielded", "closed"}]
        /\ inbox \in [Streams -> Seq(1..MaxUpdates)] /\ sent \in [Streams -> Seq(1..MaxUpdates)]
    BY DEF RealtimeIInv, RealtimeTypeOK
  <1>3. PICK at \in {"tick", "waiting", "yielded"} : loop' = [loop EXCEPT ![s] = at]
    BY DEF stream_events, Resume, Round, Woken, Heartbeat, Relay
  <1>4. /\ loop'[s] = at /\ \A t \in Streams : t # s => loop'[t] = loop[t]
        /\ loop' \in [Streams -> {"new", "tick", "waiting", "yielded", "closed"}]
        /\ \A t \in Streams : Live(t)' <=> Live(t)
    BY <1>1, <1>2, <1>3 DEF Live
  <1>5. RegistryExact'
    BY <1>1, <1>4 DEF RealtimeIInv, RegistryExact, QueuesOf
  <1>6. \A t \in Streams : Meant(t)' = Meant(t)
    BY <1>1 DEF Meant
  <1>7. CASE UNCHANGED <<inbox, sent>>
    <2>1. RealtimeTypeOK' /\ StreamInv'
      BY <1>1, <1>4, <1>7 DEF RealtimeIInv, RealtimeTypeOK, StreamInv, Live
    <2>2. FedInv'
      BY <1>4, <1>6, <1>7 DEF RealtimeIInv, FedInv
    <2> QED  BY <1>5, <2>1, <2>2 DEF RealtimeIInv
  <1>8. CASE inbox[s] # <<>> /\ Relay(s)
    <2>1. /\ sent' = [sent EXCEPT ![s] = Append(sent[s], Head(inbox[s]))]
          /\ inbox' = [inbox EXCEPT ![s] = Tail(inbox[s])] /\ inbox[s] # <<>>
      BY <1>8 DEF Relay
    <2>2. /\ sent[s] \in Seq(1..MaxUpdates) /\ inbox[s] \in Seq(1..MaxUpdates)
          /\ sent[s] \in Seq(Nat) /\ inbox[s] \in Seq(Nat) /\ Len(inbox[s]) <= MaxSize
          /\ Meant(s) \in SUBSET Nat
      BY StreamTypes DEF RealtimeIInv
    <2>3. /\ Append(sent[s], Head(inbox[s])) \in Seq(1..MaxUpdates)
          /\ Tail(inbox[s]) \in Seq(1..MaxUpdates) /\ Len(Tail(inbox[s])) <= MaxSize
      BY <2>1, <2>2, RelayTypes
    <2>4. /\ sent'[s] = Append(sent[s], Head(inbox[s])) /\ inbox'[s] = Tail(inbox[s])
          /\ \A t \in Streams : t # s => sent'[t] = sent[t] /\ inbox'[t] = inbox[t]
      BY <1>2, <2>1
    <2>5. RealtimeTypeOK'
      <3>1. /\ sent' \in [Streams -> Seq(1..MaxUpdates)]
            /\ inbox' \in [Streams -> Seq(1..MaxUpdates)]
        BY <1>2, <2>1, <2>3
      <3>2. ASSUME NEW t \in Streams PROVE Len(inbox'[t]) <= MaxSize
        <4>1. CASE t = s
          BY <2>3, <2>4, <4>1
        <4>2. CASE t # s
          BY <2>4, <4>2 DEF RealtimeIInv, RealtimeTypeOK
        <4> QED  BY <4>1, <4>2
      <3> QED  BY <1>1, <1>4, <3>1, <3>2 DEF RealtimeIInv, RealtimeTypeOK
    <2>6. StreamInv'
      BY <1>1, <1>4, <2>4 DEF RealtimeIInv, StreamInv, Live
    <2>7. ASSUME NEW t \in Streams, Live(t)' PROVE Fed(Meant(t)', sent'[t], inbox'[t])
      <3>1. Fed(Meant(t), sent[t], inbox[t])
        BY <1>4, <2>7 DEF RealtimeIInv, FedInv
      <3>2. CASE t = s
        BY <1>6, <2>1, <2>2, <2>4, <3>1, <3>2, FedRelay
      <3>3. CASE t # s
        BY <1>6, <2>4, <3>1, <3>3
      <3> QED  BY <3>2, <3>3
    <2> QED  BY <1>5, <2>5, <2>6, <2>7 DEF RealtimeIInv, FedInv
  <1> QED  BY <1>7, <1>8 DEF stream_events, Resume, Round, Woken, Heartbeat

\* Every step preserves the invariant.
LEMMA RealtimeNextIInv == RealtimeIInv /\ [RealtimeNext]_realtimeVars => RealtimeIInv'
  <1> SUFFICES ASSUME RealtimeIInv, [RealtimeNext]_realtimeVars PROVE RealtimeIInv'
    OBVIOUS
  <1>1. CASE RealtimeNext
    BY <1>1, PublishIInv, SubscribeIInv, StreamIInv, CloseIInv DEF RealtimeNext
  <1>2. CASE UNCHANGED realtimeVars
    <2>1. UNCHANGED <<subscribers, loop, inbox, sent, published, since>>
      BY <1>2 DEF realtimeVars
    <2> QED  BY <2>1 DEF RealtimeIInv, RealtimeTypeOK, RegistryExact, QueuesOf, Live, StreamInv,
                         FedInv, Meant
  <1> QED  BY <1>1, <1>2

\* The invariant holds in every behaviour.
THEOREM RealtimeSpecIInv == RealtimeSpec => []RealtimeIInv
  BY RealtimeInitIInv, RealtimeNextIInv, PTL DEF RealtimeSpec

\* A queue never holds more than MaxSize updates.
THEOREM RealtimeSpecTypeOK == RealtimeSpec => []RealtimeTypeOK
  <1>1. RealtimeIInv => RealtimeTypeOK
    BY DEF RealtimeIInv
  <1> QED  BY <1>1, RealtimeSpecIInv, PTL

\* _subscribers holds the queues of the live streams under their channels and nothing else.
THEOREM SpecRegistryExact == RealtimeSpec => []RegistryExact
  <1>1. RealtimeIInv => RegistryExact
    BY DEF RealtimeIInv
  <1> QED  BY <1>1, RealtimeSpecIInv, PTL

\* A stream relays updates meant for it in the order of publication, and its queue holds
\* the newest, for queues of any size and any number of streams and updates.
THEOREM SpecFeedInOrder == RealtimeSpec => []FeedInOrder
  <1>1. RealtimeIInv => FeedInOrder
    <2> SUFFICES ASSUME RealtimeIInv, NEW s \in Streams, Live(s)
                 PROVE  /\ Elements(sent[s] \o inbox[s]) \subseteq Meant(s)
                        /\ \A m, n \in 1..Len(sent[s] \o inbox[s]) :
                             m < n => (sent[s] \o inbox[s])[m] < (sent[s] \o inbox[s])[n]
                        /\ \A u \in Meant(s), n \in 1..Len(inbox[s]) :
                             u > inbox[s][n] => u \in Elements(inbox[s])
      BY DEF FeedInOrder
    <2>1. Fed(Meant(s), sent[s], inbox[s])
      BY DEF RealtimeIInv, FedInv
    <2>2. sent[s] \in Seq(Nat) /\ inbox[s] \in Seq(Nat) /\ Meant(s) \in SUBSET Nat
      BY StreamTypes DEF RealtimeIInv
    <2> QED  BY <2>1, <2>2, FedFeed
  <1> QED  BY <1>1, RealtimeSpecIInv, PTL

\* A live stream misses an update only when MaxSize newer ones were published, whatever
\* the size of the queue.
THEOREM SpecLostOnlyWhenBehind == RealtimeSpec => []LostOnlyWhenBehind
  <1>1. RealtimeIInv => LostOnlyWhenBehind
    BY DEF RealtimeIInv, RealtimeTypeOK, FedInv, Fed, LostOnlyWhenBehind, Lost
  <1> QED  BY <1>1, RealtimeSpecIInv, PTL

-----------------------------------------------------------------------------
(***************************************************************************)
(* RATE LIMIT.  The deque is the tail of the log, and what it has lost is  *)
(* at least a window old.                                                  *)
(***************************************************************************)

\* The log is in order of time and ends now at the latest.
LogInv ==
  /\ \A i \in 1..Len(log) : log[i] <= now
  /\ \A i, j \in 1..Len(log) : i <= j => log[i] <= log[j]

\* Calls whose entries have been evicted.
Gone == Len(log) - Len(dq)

TailInv ==
  /\ Gone >= 0
  /\ \A i \in 1..Len(dq) : dq[i] = log[Gone + i]
  /\ \A i \in 1..Gone : log[i] <= now - Window

\* retry_after is how long the oldest call in the window stays in it, rounded up to
\* whole seconds.
RetryInv ==
  rejected.after > 0 =>
    LET stays == log[Len(log) - Limit + 1] + Window - rejected.at
    IN  /\ stays <= rejected.after * TicksPerSecond
        /\ stays > (rejected.after - 1) * TicksPerSecond
        /\ stays <= Window

\* The inductive invariant.
RateLimitIInv ==
  /\ TypeOK
  /\ LogInv
  /\ TailInv
  /\ WindowBound
  /\ NoFalseRejection
  /\ RetryInv

USE RateLimitAssumption

\* The window is a positive number of ticks.
LEMMA WindowNat == Window \in Nat
  BY DEF Window

\* What is at least as large as a larger number is larger.
LEMMA GreaterTrans ==
  ASSUME NEW a \in Int, NEW b \in Int, NEW c \in Int, a > c, a <= b
  PROVE  b > c
  OBVIOUS

\* Division by the length of a second rounds down.
LEMMA WholeSeconds ==
  ASSUME NEW n \in Nat
  PROVE  LET q == n \div TicksPerSecond
         IN  /\ q \in Nat
             /\ q * TicksPerSecond \in Nat
             /\ q * TicksPerSecond <= n
             /\ n < q * TicksPerSecond + TicksPerSecond
             /\ (q - 1) * TicksPerSecond = q * TicksPerSecond - TicksPerSecond
  OBVIOUS

\* Fewer ticks are fewer seconds.
LEMMA FewerSeconds ==
  ASSUME NEW a \in Int, NEW b \in Int, a * TicksPerSecond < b * TicksPerSecond
  PROVE  a < b
  OBVIOUS

\* retry_after is the rest of the window, rounded up.
LEMMA RetryAfterRounds ==
  ASSUME NEW first \in Nat, now \in Nat, first > now - Window
  PROVE  LET a == RetryAfter(first)
         IN  /\ a \in Nat
             /\ first + Window - now <= a * TicksPerSecond
             /\ first + Window - now > (a - 1) * TicksPerSecond
  <1> DEFINE n == first + Window - now + TicksPerSecond - 1
             q == n \div TicksPerSecond
  <1>1. n \in Nat /\ n >= TicksPerSecond
    BY WindowNat
  <1> HIDE DEF n
  <1>2. /\ q \in Nat /\ q * TicksPerSecond \in Nat
        /\ q * TicksPerSecond <= n /\ n < q * TicksPerSecond + TicksPerSecond
        /\ (q - 1) * TicksPerSecond = q * TicksPerSecond - TicksPerSecond
    BY <1>1, WholeSeconds
  <1>3. q # 0
    <2>1. q * TicksPerSecond > 0
      BY <1>1, <1>2
    <2> QED  BY <2>1
  <1>4. RetryAfter(first) = q
    BY <1>2, <1>3 DEF RetryAfter, n
  <1>5. first + Window - now = n - TicksPerSecond + 1
    BY WindowNat DEF n
  <1> HIDE DEF q
  <1> QED  BY <1>1, <1>2, <1>4, <1>5

\* The initial state satisfies the invariant.
LEMMA RateLimitInitIInv == Init => RateLimitIInv
  BY DEF Init, RateLimitIInv, TypeOK, LogInv, TailInv, Gone, WindowBound, NoFalseRejection, RetryInv,
         NoRejection

\* The entries SubSeq keeps.
LEMMA KeptEntries ==
  ASSUME NEW q \in Seq(Nat), NEW k \in 0..Len(q)
  PROVE  /\ SubSeq(q, k + 1, Len(q)) \in Seq(Nat)
         /\ Len(SubSeq(q, k + 1, Len(q))) = Len(q) - k
         /\ \A i \in 1..(Len(q) - k) : SubSeq(q, k + 1, Len(q))[i] = q[k + i]
  <1>1. Len(q) \in Nat /\ k \in Nat
    OBVIOUS
  <1>2. SubSeq(q, k + 1, Len(q)) \in Seq(Nat)
    BY <1>1
  <1>3. Len(SubSeq(q, k + 1, Len(q))) = Len(q) - k
    BY <1>1
  <1>4. ASSUME NEW i \in 1..(Len(q) - k) PROVE SubSeq(q, k + 1, Len(q))[i] = q[k + i]
    BY <1>1
  <1> QED  BY <1>2, <1>3, <1>4

(***************************************************************************)
(* What is left of the deque after the eviction loop: a tail of the log,   *)
(* with everything in it younger than a window and everything before it at *)
(* least a window old.                                                     *)
(***************************************************************************)
LEMMA Evicted ==
  ASSUME RateLimitIInv, NEW k \in 0..Len(dq), Expired(k),
         NEW kept \in Seq(Nat), Len(kept) = Len(dq) - k,
         \A i \in 1..(Len(dq) - k) : kept[i] = dq[k + i]
  PROVE  /\ \A i \in 1..Len(kept) : kept[i] = log[Len(log) - Len(kept) + i]
         /\ \A i \in 1..(Len(log) - Len(kept)) : log[i] <= now - Window
         /\ \A i \in 1..Len(kept) : kept[i] > now - Window
  <1> USE WindowNat
  <1>1. /\ Len(dq) \in Nat /\ Len(log) \in Nat /\ now \in Nat /\ Len(kept) \in Nat
        /\ Len(kept) <= Len(dq) /\ Len(dq) <= Len(log) /\ log \in Seq(Nat)
        /\ \A i \in 1..Len(kept) : kept[i] \in Nat
    <2>1. /\ dq \in Seq(Nat) /\ log \in Seq(Nat) /\ now \in Nat /\ Len(log) - Len(dq) >= 0
      BY DEF RateLimitIInv, TypeOK, TailInv, Gone
    <2>2. Len(dq) \in Nat /\ Len(log) \in Nat /\ Len(kept) \in Nat
      BY <2>1
    <2>3. \A i \in 1..Len(kept) : kept[i] \in Nat
      OBVIOUS
    <2> QED  BY <2>1, <2>2, <2>3
  <1>2. ASSUME NEW i \in 1..Len(kept) PROVE kept[i] = log[Len(log) - Len(kept) + i]
    <2>1. k + i \in 1..Len(dq) /\ Gone + (k + i) = Len(log) - Len(kept) + i
      BY <1>1 DEF Gone
    <2>2. dq[k + i] = log[Gone + (k + i)]
      BY <2>1 DEF RateLimitIInv, TailInv
    <2> QED  BY <2>1, <2>2
  <1>3. ASSUME NEW i \in 1..(Len(log) - Len(kept)) PROVE log[i] <= now - Window
    <2>1. CASE i <= Gone
      <3>1. i \in 1..Gone
        BY <1>1, <2>1 DEF Gone
      <3> QED  BY <3>1 DEF RateLimitIInv, TailInv
    <2>2. CASE i > Gone
      <3>1. i - Gone \in 1..k /\ i - Gone \in 1..Len(dq) /\ Gone + (i - Gone) = i
        BY <1>1, <2>2 DEF Gone
      <3>2. dq[i - Gone] = log[Gone + (i - Gone)]
        BY <3>1 DEF RateLimitIInv, TailInv
      <3>3. dq[i - Gone] <= now - Window
        BY <3>1 DEF Expired
      <3> QED  BY <3>1, <3>2, <3>3
    <2> QED  BY <1>1, <2>1, <2>2 DEF Gone
  <1>4. ASSUME NEW i \in 1..Len(kept) PROVE kept[i] > now - Window
    <2>1. kept[1] > now - Window
      <3>1. k < Len(dq) /\ 1 \in 1..(Len(dq) - k)
        BY <1>1
      <3>2. kept[1] = dq[k + 1]
        BY <3>1
      <3> QED  BY <3>1, <3>2 DEF Expired
    <2>2. /\ Len(log) - Len(kept) + 1 \in 1..Len(log) /\ Len(log) - Len(kept) + i \in 1..Len(log)
          /\ Len(log) - Len(kept) + 1 <= Len(log) - Len(kept) + i /\ 1 \in 1..Len(kept)
      BY <1>1
    <2>3. log[Len(log) - Len(kept) + 1] <= log[Len(log) - Len(kept) + i]
      BY <2>2 DEF RateLimitIInv, LogInv
    <2>4. kept[1] <= kept[i]
      BY <1>2, <2>2, <2>3
    <2>5. kept[1] \in Nat /\ kept[i] \in Nat
      BY <1>1, <2>2
    <2>6. now - Window \in Int
      BY <1>1
    <2> QED  BY <2>1, <2>4, <2>5, <2>6, GreaterTrans
  <1> QED  BY <1>2, <1>3, <1>4

(***************************************************************************)
(* Every step preserves the invariant.                                     *)
(***************************************************************************)
LEMMA RateLimitNextIInv == RateLimitIInv /\ [Next]_vars => RateLimitIInv'
  <1> SUFFICES ASSUME RateLimitIInv, [Next]_vars PROVE RateLimitIInv'
    OBVIOUS
  <1> USE WindowNat
  <1>1. ASSUME NEW k \in 0..Len(dq), Expired(k), Admit(k) PROVE RateLimitIInv'
    <2>1. PICK kept : kept = SubSeq(dq, k + 1, Len(dq))
      OBVIOUS
    <2>2. /\ kept \in Seq(Nat) /\ Len(kept) = Len(dq) - k
          /\ \A i \in 1..Len(kept) : kept[i] = log[Len(log) - Len(kept) + i]
          /\ \A i \in 1..(Len(log) - Len(kept)) : log[i] <= now - Window
      <3>1. /\ kept \in Seq(Nat) /\ Len(kept) = Len(dq) - k
            /\ \A i \in 1..(Len(dq) - k) : kept[i] = dq[k + i]
        BY <2>1, KeptEntries DEF RateLimitIInv, TypeOK
      <3> QED  BY <1>1, <3>1, Evicted
    <2>3. /\ Len(kept) < Limit /\ dq' = Append(kept, now) /\ log' = Append(log, now)
          /\ rejected' = NoRejection /\ now' = now
      BY <1>1, <2>1 DEF Admit
    <2>4. /\ log \in Seq(Nat) /\ now \in Nat /\ Len(log) \in Nat /\ Len(kept) \in Nat
          /\ Len(kept) <= Len(log)
      BY <2>2 DEF RateLimitIInv, TypeOK, TailInv, Gone
    <2>5. /\ Len(log') = Len(log) + 1 /\ Len(dq') = Len(kept) + 1
          /\ \A i \in 1..Len(log) : log'[i] = log[i]
          /\ \A i \in 1..Len(kept) : dq'[i] = kept[i]
          /\ log'[Len(log) + 1] = now /\ dq'[Len(kept) + 1] = now
          /\ log' \in Seq(Nat) /\ dq' \in Seq(Nat)
      BY <2>2, <2>3, <2>4
    <2>6. TypeOK'
      BY <2>3, <2>4, <2>5 DEF TypeOK, NoRejection
    <2>7. LogInv'
      <3>1. LogInv
        BY DEF RateLimitIInv
      <3> QED  BY <2>3, <2>4, <2>5, <3>1, SMTT(30) DEF LogInv
    <2>8. TailInv'
      <3>1. Gone' = Len(log) - Len(kept)
        BY <2>4, <2>5 DEF Gone
      <3>2. ASSUME NEW i \in 1..Len(dq') PROVE dq'[i] = log'[Gone' + i]
        <4>1. CASE i \in 1..Len(kept)
          <5>1. Len(log) - Len(kept) + i \in 1..Len(log)
            BY <2>4, <4>1
          <5> QED  BY <2>2, <2>5, <3>1, <4>1, <5>1
        <4>2. CASE i = Len(kept) + 1
          <5>1. Gone' + i = Len(log) + 1
            BY <2>4, <3>1, <4>2
          <5> QED  BY <2>5, <4>2, <5>1
        <4> QED  BY <2>4, <2>5, <4>1, <4>2
      <3>3. ASSUME NEW i \in 1..Gone' PROVE log'[i] <= now - Window
        <4>1. i \in 1..(Len(log) - Len(kept)) /\ i \in 1..Len(log)
          BY <2>4, <3>1
        <4> QED  BY <2>2, <2>5, <4>1
      <3>4. Gone' >= 0
        BY <2>4, <3>1
      <3> QED  BY <2>3, <3>2, <3>3, <3>4, Window' = Window DEF TailInv
    <2>9. WindowBound'
      <3> SUFFICES ASSUME NEW i \in 1..(Len(log') - Limit)
                   PROVE  log'[i + Limit] - log'[i] >= Window
        BY DEF WindowBound, Window
      <3>1. CASE i <= Len(log) - Limit
        <4>1. i + Limit \in 1..Len(log) /\ i \in 1..Len(log)
          BY <2>4, <3>1
        <4> QED  BY <2>4, <2>5, <3>1, <4>1 DEF RateLimitIInv, WindowBound
      <3>2. CASE i = Len(log) + 1 - Limit
        <4>1. i \in 1..(Len(log) - Len(kept)) /\ i \in 1..Len(log) /\ i + Limit = Len(log) + 1
          BY <2>3, <2>4, <3>2
        <4>2. log[i] \in Nat
          BY <2>4, <4>1
        <4>3. log'[i + Limit] = now /\ log'[i] = log[i] /\ log[i] <= now - Window
          BY <2>2, <2>5, <4>1
        <4> QED  BY <2>4, <4>2, <4>3
      <3>3. i <= Len(log) - Limit \/ i = Len(log) + 1 - Limit
        <4>1. i \in 1..(Len(log) + 1 - Limit)
          BY <2>5
        <4> QED  BY <2>4, <4>1
      <3> QED  BY <3>1, <3>2, <3>3
    <2>10. NoFalseRejection' /\ RetryInv'
      BY <2>3 DEF NoFalseRejection, RetryInv, NoRejection
    <2> QED  BY <2>6, <2>7, <2>8, <2>9, <2>10 DEF RateLimitIInv
  <1>2. ASSUME NEW k \in 0..Len(dq), Expired(k), Reject(k) PROVE RateLimitIInv'
    <2>1. PICK kept : kept = SubSeq(dq, k + 1, Len(dq))
      OBVIOUS
    <2>2. /\ kept \in Seq(Nat) /\ Len(kept) = Len(dq) - k
          /\ \A i \in 1..Len(kept) : kept[i] = log[Len(log) - Len(kept) + i]
          /\ \A i \in 1..(Len(log) - Len(kept)) : log[i] <= now - Window
          /\ \A i \in 1..Len(kept) : kept[i] > now - Window
      <3>1. /\ kept \in Seq(Nat) /\ Len(kept) = Len(dq) - k
            /\ \A i \in 1..(Len(dq) - k) : kept[i] = dq[k + i]
        BY <2>1, KeptEntries DEF RateLimitIInv, TypeOK
      <3> QED  BY <1>2, <3>1, Evicted
    <2>3. /\ Len(kept) >= Limit /\ dq' = kept /\ log' = log /\ now' = now
          /\ rejected' = [at |-> now, after |-> RetryAfter(kept[1])]
      BY <1>2, <2>1 DEF Reject
    <2>4. /\ log \in Seq(Nat) /\ now \in Nat /\ Len(log) \in Nat /\ Len(kept) \in Nat
          /\ Len(kept) <= Len(log) /\ Len(kept) = Limit /\ kept[1] \in Nat
      <3>1. Len(dq) <= Limit /\ Len(dq) <= Len(log) /\ log \in Seq(Nat) /\ now \in Nat
        BY DEF RateLimitIInv, TypeOK, TailInv, Gone
      <3>2. Len(kept) = Limit /\ Len(kept) \in Nat /\ Len(log) \in Nat /\ Len(dq) \in Nat
        BY <2>2, <2>3, <3>1 DEF RateLimitIInv, TypeOK
      <3> QED  BY <2>2, <3>1, <3>2, SMTT(30)
    <2>5. /\ kept[1] > now - Window /\ kept[1] <= now
          /\ kept[1] = log[Len(log) - Limit + 1]
      <3>1. 1 \in 1..Len(kept) /\ Len(log) - Limit + 1 \in 1..Len(log)
        BY <2>4
      <3> QED  BY <2>2, <2>4, <3>1 DEF RateLimitIInv, LogInv
    <2>6. TypeOK'
      BY <2>2, <2>3, <2>4, <2>5, RetryAfterRounds DEF TypeOK
    <2>7. LogInv' /\ WindowBound'
      BY <2>3 DEF RateLimitIInv, LogInv, WindowBound, Window
    <2>8. TailInv'
      <3>1. Gone' = Len(log) - Len(kept) /\ Gone' >= 0
        BY <2>3, <2>4 DEF Gone
      <3> QED  BY <2>2, <2>3, <3>1 DEF TailInv, Window
    <2>9. NoFalseRejection'
      <3>1. /\ rejected'.at = now /\ Len(log') = Len(log)
        BY <2>3
      <3>2. ASSUME NEW i \in (Len(log) - Limit + 1)..Len(log) PROVE log[i] > now - Window
        <4>1. i - (Len(log) - Len(kept)) \in 1..Len(kept)
          BY <2>4
        <4>2. kept[i - (Len(log) - Len(kept))]
                = log[Len(log) - Len(kept) + (i - (Len(log) - Len(kept)))]
          BY <2>2, <4>1
        <4>3. Len(log) - Len(kept) + (i - (Len(log) - Len(kept))) = i
          BY <2>4
        <4> QED  BY <2>2, <4>1, <4>2, <4>3
      <3> QED  BY <2>3, <2>4, <3>1, <3>2 DEF NoFalseRejection, Window
    <2>10. RetryInv'
      <3>1. /\ rejected'.at = now /\ rejected'.after = RetryAfter(kept[1])
            /\ log'[Len(log') - Limit + 1] = kept[1]
        BY <2>3, <2>5
      <3>2. kept[1] + Window - now <= Window
        BY <2>4, <2>5
      <3>3. /\ kept[1] + Window - now <= RetryAfter(kept[1]) * TicksPerSecond
            /\ kept[1] + Window - now > (RetryAfter(kept[1]) - 1) * TicksPerSecond
        BY <2>4, <2>5, RetryAfterRounds
      <3> QED  BY <3>1, <3>2, <3>3 DEF RetryInv, Window
    <2> QED  BY <2>6, <2>7, <2>8, <2>9, <2>10 DEF RateLimitIInv
  <1>3. CASE Tick
    <2>1. /\ now' = now + 1 /\ UNCHANGED <<dq, log, rejected>>
          /\ now \in Nat /\ log \in Seq(Nat) /\ Len(log) \in Nat /\ Len(dq) \in Nat
      BY <1>3 DEF Tick, RateLimitIInv, TypeOK
    <2>2. TypeOK' /\ WindowBound' /\ NoFalseRejection' /\ RetryInv'
      BY <2>1 DEF RateLimitIInv, TypeOK, WindowBound, NoFalseRejection, RetryInv, Window
    <2>3. LogInv'
      BY <2>1 DEF RateLimitIInv, LogInv
    <2>4. TailInv'
      <3>1. \A i \in 1..Gone : log[i] \in Nat /\ log[i] <= now - Window
        BY <2>1 DEF RateLimitIInv, TailInv, Gone
      <3> QED  BY <2>1, <3>1 DEF RateLimitIInv, TailInv, Gone
    <2> QED  BY <2>2, <2>3, <2>4 DEF RateLimitIInv
  <1>4. CASE UNCHANGED vars
    BY <1>4 DEF vars, RateLimitIInv, TypeOK, LogInv, TailInv, Gone, WindowBound, NoFalseRejection,
                RetryInv, Window
  <1> QED  BY <1>1, <1>2, <1>3, <1>4 DEF Next, check_and_increment

-----------------------------------------------------------------------------
(***************************************************************************)
(* The theorems.                                                           *)
(***************************************************************************)

\* The invariant holds in every behaviour.
THEOREM RateLimitSpecIInv == Spec => []RateLimitIInv
  BY RateLimitInitIInv, RateLimitNextIInv, PTL DEF Spec

\* The deque never holds more than Limit entries.
THEOREM RateLimitSpecTypeOK == Spec => []TypeOK
  <1>1. RateLimitIInv => TypeOK
    BY DEF RateLimitIInv
  <1> QED  BY <1>1, RateLimitSpecIInv, PTL

\* check_and_increment lets at most Limit calls through in any window.
THEOREM SpecWindowBound == Spec => []WindowBound
  <1>1. RateLimitIInv => WindowBound
    BY DEF RateLimitIInv
  <1> QED  BY <1>1, RateLimitSpecIInv, PTL

\* check_and_increment refuses nobody who is within the limit.
THEOREM SpecNoFalseRejection == Spec => []NoFalseRejection
  <1>1. RateLimitIInv => NoFalseRejection
    BY DEF RateLimitIInv
  <1> QED  BY <1>1, RateLimitSpecIInv, PTL

\* retry_after is the least number of seconds after which the client is let in again,
\* and no more than a window, for every limit, window and resolution of the clock.
THEOREM SpecRetryAfterExact == Spec => []RetryAfterExact
  <1>1. RateLimitIInv => RetryAfterExact
    <2> SUFFICES ASSUME RateLimitIInv, rejected.after > 0
                 PROVE  /\ ~FullAt(rejected.at + rejected.after * TicksPerSecond)
                        /\ FullAt(rejected.at + (rejected.after - 1) * TicksPerSecond)
                        /\ rejected.after <= WindowSeconds
      BY DEF RetryAfterExact
    <2> DEFINE first == log[Len(log) - Limit + 1]
               a == rejected.after
    <2>1. /\ log \in Seq(Nat) /\ Len(log) \in Nat /\ Len(log) >= Limit
          /\ rejected.at \in Nat /\ a \in Nat
      BY DEF RateLimitIInv, TypeOK, NoFalseRejection
    <2>2. first \in Nat
      <3>1. Len(log) - Limit + 1 \in 1..Len(log)
        BY <2>1
      <3> QED  BY <2>1, <3>1
    <2>3. /\ first + Window - rejected.at <= a * TicksPerSecond
          /\ first + Window - rejected.at > (a - 1) * TicksPerSecond
          /\ first + Window - rejected.at <= Window
      BY DEF RateLimitIInv, RetryInv
    <2>4. a * TicksPerSecond \in Int /\ (a - 1) * TicksPerSecond \in Int
      BY <2>1
    <2> HIDE DEF first, a
    <2>5. /\ ~(first > (rejected.at + a * TicksPerSecond) - Window)
          /\ first > (rejected.at + (a - 1) * TicksPerSecond) - Window
      BY <2>1, <2>2, <2>3, <2>4, WindowNat, SMTT(30)
    <2>6. a - 1 < WindowSeconds
      <3>1. first + Window - rejected.at \in Int
        BY <2>1, <2>2, WindowNat
      <3>2. Window > (a - 1) * TicksPerSecond
        BY <2>3, <2>4, <3>1, WindowNat, GreaterTrans
      <3>3. (a - 1) * TicksPerSecond < WindowSeconds * TicksPerSecond
        BY <3>2 DEF Window
      <3>4. a - 1 \in Int /\ WindowSeconds \in Int
        BY <2>1
      <3> QED  BY <3>3, <3>4, FewerSeconds
    <2>7. a <= WindowSeconds
      BY <2>1, <2>6
    <2>8. ~FullAt(rejected.at + a * TicksPerSecond)
      BY <2>5, Zenon DEF FullAt, first
    <2>9. FullAt(rejected.at + (a - 1) * TicksPerSecond)
      BY <2>1, <2>5, Zenon DEF FullAt, first
    <2> QED  BY <2>7, <2>8, <2>9 DEF a
  <1> QED  BY <1>1, RateLimitSpecIInv, PTL

=============================================================================
