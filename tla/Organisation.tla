---------------------------- MODULE Organisation ----------------------------
(***************************************************************************)
(* One organisation: who is in it (core/membership.py, dependencies.py),   *)
(* its invoice-number counter (core/settings.py) and the invoices numbered *)
(* by it (invoicing/service.create_invoice), under requests that run at    *)
(* the same time.  Every key of the tables holds the org_id, so            *)
(* organisations share nothing but the user rows.                          *)
(*                                                                         *)
(* A request authenticates, may be checked for its role, commits one       *)
(* mutation and then appends its audit event; it may raise, and the        *)
(* process may crash, between any two of these.  publish_event follows the *)
(* audit event and changes nothing here.  The routes offer create_org,     *)
(* add_member, the settings and invoices; change_role and remove_member    *)
(* have no route, and check no role themselves.                            *)
(***************************************************************************)
EXTENDS Naturals, FiniteSets

CONSTANTS
  Requests,
  Users,
  None,        \* no user
  Roles,       \* those of Role that requests give out
  MaxNumber    \* bound: highest value of the invoice counter

ASSUME OrganisationAssumption ==
  /\ None \notin Users
  /\ {"owner", "admin"} \subseteq Roles /\ "none" \notin Roles
  /\ MaxNumber \in Nat

VARIABLES
  users,       \* USER#{sub} / METADATA rows
  provisioned, \* dependencies._provisioned, of this process
  org,         \* the ORG#{org_id} / METADATA row exists
  role,        \* role of each USER#{sub} / ORG#{org_id} row; "none" without a row
  counter,     \* settings.next_invoice_number; 0 while the attribute is absent
  invoices,    \* numbers of the rows of `invoices` (of one year)
  req,         \* each request: where it is, what it did
  lowered      \* history: an admin has set the counter below its value

organisationVars == <<users, provisioned, org, role, counter, invoices, req, lowered>>

Attempts == 1..4   \* a request of the AWS client and its max_attempts (3) retries

AdminRoles == {"owner", "admin"}

Blank == [at |-> "new", op |-> "none", user |-> None, target |-> None,
          role |-> "none", old |-> "none", repeated |-> FALSE, seen |-> 0, number |-> 0]

OrganisationInit ==
  /\ users = {} /\ provisioned = {}
  /\ org = FALSE
  /\ role = [u \in Users |-> "none"]
  /\ counter = 0
  /\ invoices = {}
  /\ req = [r \in Requests |-> Blank]
  /\ lowered = FALSE

-----------------------------------------------------------------------------
(***************************************************************************)
(* Authentication and the role gate.                                       *)
(***************************************************************************)

\* The token is valid; a user not known to this process gets a row, unless the token
\* has no email claim.
current_user(r, u, email) ==
  /\ req[r].at = "new"
  /\ IF email /\ u \notin provisioned
       THEN users' = users \cup {u} /\ provisioned' = provisioned \cup {u}
       ELSE UNCHANGED <<users, provisioned>>
  /\ req' = [req EXCEPT ![r].at = "in", ![r].user = u]
  /\ UNCHANGED <<org, role, counter, invoices, lowered>>

\* Mutant: the user is remembered before the row is written.
ProvisioningRaisesRemembered(r, u) ==
  /\ req[r].at = "new" /\ u \notin provisioned
  /\ users' \in {users, users \cup {u}}
  /\ provisioned' = provisioned \cup {u}
  /\ req' = [req EXCEPT ![r].at = "failed"]
  /\ UNCHANGED <<org, role, counter, invoices, lowered>>

\* create_user_if_not_exists raises, perhaps after the conditional put took effect.
ProvisioningRaises(r, u) ==
  /\ req[r].at = "new" /\ u \notin provisioned
  /\ users' \in {users, users \cup {u}}
  /\ req' = [req EXCEPT ![r].at = "failed"]
  /\ UNCHANGED <<provisioned, org, role, counter, invoices, lowered>>

\* require_member and require_admin (require_mutation_role for invoices).
RequireAdmin(r) ==
  /\ req[r].at = "in" /\ role[req[r].user] \in AdminRoles
  /\ req' = [req EXCEPT ![r].at = "allowed"]
  /\ UNCHANGED <<users, provisioned, org, role, counter, invoices, lowered>>

-----------------------------------------------------------------------------
(***************************************************************************)
(* Membership.                                                             *)
(***************************************************************************)

\* r's mutation of t's membership took effect: role `old` became `new`.
Commits(r, op, t, old, new) ==
  /\ role' = [role EXCEPT ![t] = new]
  /\ req' = [req EXCEPT ![r].at = "committed", ![r].op = op, ![r].target = t,
                        ![r].old = old, ![r].role = new]

\* Mutant: two puts instead of a transaction; the second may fail.
CreateOrgTwoPuts(r) ==
  /\ req[r].at = "in" /\ ~org
  /\ org' = TRUE
  /\ \/ Commits(r, "create", req[r].user, "none", "owner")
     \/ req' = [req EXCEPT ![r].at = "failed"] /\ UNCHANGED role
  /\ UNCHANGED <<users, provisioned, counter, invoices, lowered>>

\* One TransactWriteItems puts the org row and the creator's membership.
create_org(r) ==
  /\ req[r].at = "in" /\ ~org
  /\ org' = TRUE
  /\ Commits(r, "create", req[r].user, "none", "owner")
  /\ UNCHANGED <<users, provisioned, counter, invoices, lowered>>

\* The put is conditional: a member is not added again (AlreadyExistsError).
add_member(r, t, new) ==
  /\ req[r].at = "allowed"
  /\ role[t] = "none"
  /\ Commits(r, "add", t, "none", new)
  /\ UNCHANGED <<users, provisioned, org, counter, invoices, lowered>>

\* Mutant: the update returns ALL_NEW.
ChangeRoleAllNew(r, t, new) ==
  /\ req[r].at = "in"
  /\ role[t] # "none"
  /\ Commits(r, "change", t, new, new)
  /\ UNCHANGED <<users, provisioned, org, counter, invoices, lowered>>

\* The old role comes out of the update itself (ALL_OLD).
change_role(r, t, new) ==
  /\ req[r].at = "in"
  /\ role[t] # "none"
  /\ Commits(r, "change", t, role[t], new)
  /\ UNCHANGED <<users, provisioned, org, counter, invoices, lowered>>

\* The update took effect, its response was lost and the AWS client repeats it: now
\* ALL_OLD is the role that the first attempt, or someone since, has set.  Further
\* repeats are not modelled, nor that of add_member (its condition fails, and the member
\* added is reported as one who was there: Raises) or of remove_member (it may take away
\* a row added since).
RepeatUpdate(r) ==
  /\ req[r].at = "committed" /\ req[r].op = "change" /\ ~req[r].repeated
  /\ LET t == req[r].target
     IN /\ role[t] # "none"
        /\ role' = [role EXCEPT ![t] = req[r].role]
        /\ req' = [req EXCEPT ![r].old = role[t], ![r].repeated = TRUE]
  /\ UNCHANGED <<users, provisioned, org, counter, invoices, lowered>>

\* The audit event of a removal does not hold the old role.
remove_member(r, t) ==
  /\ req[r].at = "in"
  /\ role[t] # "none"
  /\ Commits(r, "remove", t, "none", "none")
  /\ UNCHANGED <<users, provisioned, org, counter, invoices, lowered>>

-----------------------------------------------------------------------------
(***************************************************************************)
(* Settings and invoices.                                                  *)
(***************************************************************************)

\* PATCH settings: only the named fields are SET.  The counter is one of them; the
\* others do not show in this model.  The AWS client may repeat a SET whose answer was
\* lost, after numbers were taken: that is another request of an admin here, which sets
\* the counter back (lowered) without the admin's knowing.
set_org_settings(r, n) ==
  /\ req[r].at = "allowed"
  /\ counter' = n
  /\ lowered' = (lowered \/ n < counter)
  /\ req' = [req EXCEPT ![r].at = "committed", ![r].op = "settings"]
  /\ UNCHANGED <<users, provisioned, org, role, invoices>>

\* create_invoice reads the settings, for the currency, ...
get_org_settings(r) ==
  /\ req[r].at = "allowed"
  /\ req' = [req EXCEPT ![r].at = "read", ![r].seen = counter]
  /\ UNCHANGED <<users, provisioned, org, role, counter, invoices, lowered>>

\* Mutant: the number comes from the settings just read, and is written back.
NextNumberFromSettings(r, k) ==
  /\ req[r].at = "read"
  /\ req[r].seen + k <= MaxNumber
  /\ counter' = req[r].seen + k
  /\ req' = [req EXCEPT ![r].at = "numbered", ![r].op = "invoice",
                        ![r].number = counter', ![r].seen = 0]
  /\ UNCHANGED <<users, provisioned, org, role, invoices, lowered>>

\* ... and takes the next number with an ADD, once per attempt of the AWS client that
\* took effect.
get_next_invoice_number(r, k) ==
  /\ req[r].at = "read"
  /\ counter + k <= MaxNumber
  /\ counter' = counter + k
  /\ req' = [req EXCEPT ![r].at = "numbered", ![r].op = "invoice",
                        ![r].number = counter', ![r].seen = 0]
  /\ UNCHANGED <<users, provisioned, org, role, invoices, lowered>>

\* The INSERT commits unless uq_invoice_number knows the number.
InsertInvoice(r) ==
  /\ req[r].at = "numbered"
  /\ req[r].number \notin invoices
  /\ invoices' = invoices \cup {req[r].number}
  /\ req' = [req EXCEPT ![r].at = "committed"]
  /\ UNCHANGED <<users, provisioned, org, role, counter, lowered>>

create_invoice(r) ==
  \/ get_org_settings(r)
  \/ \E k \in Attempts : get_next_invoice_number(r, k)
  \/ InsertInvoice(r)

-----------------------------------------------------------------------------
(***************************************************************************)
(* Audit, errors, crashes.                                                 *)
(***************************************************************************)

log_audit(r) ==
  /\ req[r].at = "committed"
  /\ req' = [req EXCEPT ![r].at = "done"]
  /\ UNCHANGED <<users, provisioned, org, role, counter, invoices, lowered>>

\* A request that ends early: its mutation, if it committed, is never audited.
Interrupted(q) ==
  IF q.at = "committed" THEN [q EXCEPT !.at = "unaudited"]
  ELSE [Blank EXCEPT !.at = "failed", !.number = q.number]

UnderWay(r) == req[r].at \in {"in", "allowed", "read", "numbered", "committed"}

\* A role check, a condition of a put, DynamoDB, Postgres or the audit log raises.
Raises(r) ==
  /\ UnderWay(r)
  /\ req' = [req EXCEPT ![r] = Interrupted(req[r])]
  /\ UNCHANGED <<users, provisioned, org, role, counter, invoices, lowered>>

Crash ==
  /\ provisioned' = {}
  /\ req' = [r \in Requests |-> IF UnderWay(r) THEN Interrupted(req[r]) ELSE req[r]]
  /\ UNCHANGED <<users, org, role, counter, invoices, lowered>>

OrganisationNext ==
  \/ \E r \in Requests :
       \/ \E u \in Users, email \in BOOLEAN : current_user(r, u, email)
       \/ \E u \in Users : ProvisioningRaises(r, u)
       \/ RequireAdmin(r)
       \/ create_org(r)
       \/ \E t \in Users, new \in Roles : add_member(r, t, new) \/ change_role(r, t, new)
       \/ RepeatUpdate(r)
       \/ \E t \in Users : remove_member(r, t)
       \/ \E n \in 0..MaxNumber : set_org_settings(r, n)
       \/ create_invoice(r)
       \/ log_audit(r)
       \/ Raises(r)
  \/ Crash

OrganisationSpec == OrganisationInit /\ [][OrganisationNext]_organisationVars

-----------------------------------------------------------------------------
OrganisationTypeOK ==
  /\ users \subseteq Users /\ provisioned \subseteq Users
  /\ org \in BOOLEAN
  /\ role \in [Users -> Roles \cup {"none"}]
  /\ counter \in 0..MaxNumber /\ invoices \subseteq 1..MaxNumber
  /\ req \in [Requests ->
       [at : {"new", "in", "allowed", "read", "numbered", "committed", "done",
              "unaudited", "failed"},
        op : {"none", "create", "add", "change", "remove", "settings", "invoice"},
        user : Users \cup {None}, target : Users \cup {None},
        role : Roles \cup {"none"}, old : Roles \cup {"none"},
        repeated : BOOLEAN, seen : 0..MaxNumber, number : 0..MaxNumber]]
  /\ lowered \in BOOLEAN

(***************************************************************************)
(* The process remembers only users whose row is there: a failed write, a  *)
(* write that took effect and raised, and a restart do not leave a user    *)
(* the first-request provisioning skips (dependencies.py:43-45).           *)
(***************************************************************************)
ProvisionedHaveRows == provisioned \subseteq users

Committed(r) == req[r].at \in {"committed", "done", "unaudited"}

(***************************************************************************)
(* An organisation has an owner from the moment it can be seen, and loses  *)
(* its last one only through change_role or remove_member ("callers must   *)
(* prevent removing the last owner", membership.py:281); without an        *)
(* organisation nobody is a member.                                        *)
(***************************************************************************)
OwnedFromTheStart ==
  /\ org => \/ \E u \in Users : role[u] = "owner"
            \/ \E r \in Requests : Committed(r) /\ req[r].op \in {"change", "remove"}
  /\ ~org => \A u \in Users : role[u] = "none"

(***************************************************************************)
(* The audit log tells the membership history.  For a user none of whose   *)
(* changes was cut off before its event or repeated by the AWS client,     *)
(* however the changes interleaved, the events lead from no membership to  *)
(* the role the user has: a role is left, or held now, no more often than  *)
(* it was given, and joins exceed removals by one exactly for a member     *)
(* (membership.py:185-296).                                                *)
(***************************************************************************)
AuditReplaysMembership ==
  \A u \in Users :
    LET Events(ops) == {r \in Requests : /\ req[r].at = "done" /\ req[r].target = u
                                         /\ req[r].op \in ops}
        Given(x) == {r \in Events({"create", "add", "change"}) : req[r].role = x}
        Left(x)  == {r \in Events({"change"}) : req[r].old = x}
        One(b)   == IF b THEN 1 ELSE 0
    IN (\A r \in Requests :
          req[r].target = u => req[r].at = "done" /\ ~req[r].repeated) =>
         /\ \A x \in Roles :
              Cardinality(Left(x)) + One(role[u] = x) <= Cardinality(Given(x))
         /\ Cardinality(Events({"create", "add"})) =
              Cardinality(Events({"remove"})) + One(role[u] # "none")

(***************************************************************************)
(* Invoice numbers only rise: the number a request takes is higher than    *)
(* every number taken before, by requests that failed too, until an admin  *)
(* sets the counter back (settings.py:132-151; two concurrent requests and *)
(* an update of other settings included).                                  *)
(***************************************************************************)
NumbersRise ==
  [][\A r, s \in Requests :
       req'[r].number \notin {0, req[r].number} /\ ~lowered =>
         req'[r].number > req[s].number]_organisationVars

=============================================================================
