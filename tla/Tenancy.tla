------------------------------ MODULE Tenancy ------------------------------
(***************************************************************************)
(* The tenants of one database: how a request gets its tenant, how a unit  *)
(* of work carries it to a pooled connection, and what sign-up, sign-in    *)
(* and the administration of users and companies then reach.  E-mail       *)
(* addresses are unique over all tenants, and a sign-in finds its tenant   *)
(* by the address, in another transaction than the user.                   *)
(*                                                                         *)
(* A unit of work is two steps: it takes a connection and sets             *)
(* app.tenant_id on it (Begin); it runs its statements and commits (one    *)
(* action per operation).  Each operation here writes with one statement,  *)
(* or locks its row with the first.  Row-level security and the client     *)
(* extension both restrict a statement (Reaches).                          *)
(***************************************************************************)
EXTENDS AccessPolicy

CONSTANTS
    Tenant,       \* ids of tenants rows
    User,         \* ids of users rows
    Email,        \* e-mail addresses
    Connection,   \* connections of the application's pool
    Request,      \* HTTP requests; one may follow another
    None,         \* no row, tenant or connection
    Gone          \* a deleted user

ASSUME TenancyAssumption ==
    /\ None \notin Tenant \cup Connection \cup User \cup Request
    /\ None # Gone
    /\ {None, Gone} \cap [tenant : Tenant, email : Email, active : BOOLEAN] = {}

VARIABLES
    status,     \* status[t]: None before the sign-up, then "active" or "inactive"
    company,    \* company[t]: None before the sign-up, then its name, old or new
    user,       \* user[u]: the row
    session,    \* rows of auth_sessions, as far as they name a user and a tenant
    setting,    \* setting[c]: app.tenant_id on connection c
    holder,     \* holder[c]: the request whose transaction is open on c
    pc,         \* pc[r]: what r does next
    task,       \* task[r]: its operation and what its parameters and body name
    context,    \* context[r]: the tenant in its RequestContext
    on,         \* on[r]: the connection of its open transaction
    found,      \* found[r]: the user whose password a sign-in has compared
    carried,    \* history: who carried the address of r while r ran
    alive       \* history: the tenants active at some time while r ran

rowVars == <<status, company, user, session>>
poolVars == <<setting, holder, on>>
requestVars == <<pc, task, context, found>>
historyVars == <<carried, alive>>
vars == <<rowVars, poolVars, requestVars, historyVars>>

Row == [tenant : Tenant, email : Email, active : BOOLEAN]

\* What a request may ask for.
Op == {<<"company_signup", "signup">>, <<"auth", "login">>, <<"auth", "refresh">>,
       <<"auth", "forgotPassword">>, <<"user", "create">>, <<"user", "update">>,
       <<"user", "remove">>, <<"company", "update">>}

Task == [op : Op, tenant : Tenant \cup {None}, user : User \cup {None},
         email : Email \cup {None}, active : BOOLEAN]

\* What the parameters and the body of an operation name.
Asked == {x \in Task :
    /\ x.tenant # None <=> x.op \in {<<"company_signup", "signup">>, <<"company", "update">>}
    /\ x.user # None <=> x.op \in {<<"user", "update">>, <<"user", "remove">>, <<"auth", "refresh">>}
    /\ x.email # None <=> x.op \in {<<"company_signup", "signup">>, <<"auth", "login">>,
                                    <<"user", "create">>, <<"user", "update">>}
    /\ x.active \/ x.op = <<"user", "update">>}

Exists(u) == user[u] \notin {None, Gone}

\* What a request does with its transactions, one after the other.
Stage == {"provision", "resolve", "lookup", "record", "work"}
Unscoped == {"provision", "resolve"}

At(r, stage) == pc[r] = stage /\ on[r] # None

TypeOK ==
    /\ status \in [Tenant -> {None, "active", "inactive"}]
    /\ company \in [Tenant -> {None, "old", "new"}]
    /\ user \in [User -> Row \cup {None, Gone}]
    /\ session \subseteq [user : User, tenant : Tenant]
    /\ setting \in [Connection -> Tenant \cup {None}]
    /\ holder \in [Connection -> Request \cup {None}]
    /\ pc \in [Request -> Stage \cup {"idle"}]
    /\ task \in [Request -> Task \cup {None}]
    /\ context \in [Request -> Tenant \cup {None}]
    /\ on \in [Request -> Connection \cup {None}]
    /\ found \in [Request -> User \cup {None}]
    /\ carried \in [Request -> SUBSET [user : User, tenant : Tenant]]
    /\ alive \in [Request -> SUBSET Tenant]

\* Some tenants, each with users; e-mail addresses are unique.
Init ==
    /\ status \in [Tenant -> {None, "active", "inactive"}]
    /\ company = [t \in Tenant |-> IF status[t] = None THEN None ELSE "old"]
    /\ user \in [User -> Row \cup {None}]
    /\ \A u \in User : user[u] # None => status[user[u].tenant] # None
    /\ \A u, v \in User : user[u] # None /\ user[v] # None /\ user[u].email = user[v].email
                             => u = v
    /\ session \in SUBSET {[user |-> u, tenant |-> user[u].tenant] :
                              u \in {w \in User : user[w] # None}}
    /\ setting = [c \in Connection |-> None]
    /\ holder = [c \in Connection |-> None]
    /\ pc = [r \in Request |-> "idle"]
    /\ task = [r \in Request |-> None]
    /\ context = [r \in Request |-> None]
    /\ on = [r \in Request |-> None]
    /\ found = [r \in Request |-> None]
    /\ carried = [r \in Request |-> {}]
    /\ alive = [r \in Request |-> {}]

----------------------------------------------------------------------------
(* A request gets its tenant *)

FirstStage(op) ==
    CASE op = <<"company_signup", "signup">>              -> "provision"
      [] op \in {<<"auth", "login">>, <<"auth", "refresh">>} -> "resolve"
      [] OTHER                                             -> "work"

\* The tenant of a verified token, of a header, or none yet.  TenantContextGuard
\* may pass a tenant that was switched off, on a remembered answer.
Contexts(op) ==
    CASE TenantSource(op) = "token"  -> {s.tenant : s \in session}
      [] TenantSource(op) = "header" -> Tenant
      [] OTHER                       -> {None}

Arrive(r, x) ==
    /\ pc[r] = "idle"
    /\ \E t \in Contexts(x.op) : context' = [context EXCEPT ![r] = t]
    /\ task' = [task EXCEPT ![r] = x]
    /\ pc' = [pc EXCEPT ![r] = FirstStage(x.op)]
    /\ UNCHANGED <<rowVars, poolVars, found>>

----------------------------------------------------------------------------
(* Units of work *)

\* execute and its unscoped variants take a connection; a unit of work has the
\* tenant of its context (requireTenantId) set on it.
Begin(r, c) ==
    /\ pc[r] # "idle"
    /\ on[r] = None
    /\ holder[c] = None
    /\ pc[r] \notin Unscoped => context[r] # None
    /\ setting' = [setting EXCEPT ![c] = IF pc[r] \in Unscoped THEN @ ELSE context[r]]
    /\ holder' = [holder EXCEPT ![c] = r]
    /\ on' = [on EXCEPT ![r] = c]
    /\ UNCHANGED <<rowVars, requestVars>>

\* Broken form of AfterTransaction: the setting is the connection's.
AfterTransaction_Kept(c) == setting[c]

\* The setting is local to the transaction.
AfterTransaction(c) == None

\* The transaction ends and the request goes on with stage s.
Ends(r, s) ==
    /\ setting' = [setting EXCEPT ![on[r]] = AfterTransaction(on[r])]
    /\ holder' = [holder EXCEPT ![on[r]] = None]
    /\ on' = [on EXCEPT ![r] = None]
    /\ pc' = [pc EXCEPT ![r] = s]

Finishes(r) ==
    /\ Ends(r, "idle")
    /\ context' = [context EXCEPT ![r] = None]
    /\ task' = [task EXCEPT ![r] = None]
    /\ found' = [found EXCEPT ![r] = None]

\* A guard, a lookup, a constraint or a timeout ends the request.
Fail(r) ==
    /\ pc[r] # "idle"
    /\ IF on[r] = None
         THEN pc' = [pc EXCEPT ![r] = "idle"] /\ UNCHANGED poolVars
              /\ context' = [context EXCEPT ![r] = None]
              /\ task' = [task EXCEPT ![r] = None]
              /\ found' = [found EXCEPT ![r] = None]
         ELSE Finishes(r)
    /\ UNCHANGED rowVars

\* The rows a statement of r sees: the extension adds the tenant of the
\* context to its where, and the policies compare with the setting.
Reaches(r, t) == t = context[r] /\ t = setting[on[r]]

Free(u, e) == \A v \in User \ {u} : Exists(v) => user[v].email # e

----------------------------------------------------------------------------
(* Sign-up, sign-in and refresh, which have no tenant yet *)

\* Broken form of Provisioned: an address that is taken is taken over.
Provisioned_Upsert(t, e) ==
    {u \in User : \/ Exists(u) /\ user[u].email = e
                  \/ user[u] = None /\ Free(u, e)}

\* The row that the function inserts; it fails if the address is taken.
Provisioned(t, e) == {u \in User : user[u] = None /\ Free(u, e)}

\* provision_company_workspace: tenant, company and administrator at once.
Provision(r, u) ==
    /\ At(r, "provision")
    /\ status[task[r].tenant] = None
    /\ u \in Provisioned(task[r].tenant, task[r].email)
    /\ status' = [status EXCEPT ![task[r].tenant] = "active"]
    /\ company' = [company EXCEPT ![task[r].tenant] = "old"]
    /\ user' = [user EXCEPT ![u] = [tenant |-> task[r].tenant,
                                    email |-> task[r].email, active |-> TRUE]]
    /\ Finishes(r)
    /\ UNCHANGED session

\* Broken form of Carriers: the status of the tenant is not joined.
Carriers_AnyTenant(e) == {u \in User : Exists(u) /\ user[u].email = e /\ user[u].active}

\* resolve_user_login_email.
Carriers(e) ==
    {u \in User : /\ Exists(u) /\ user[u].email = e /\ user[u].active
                  /\ status[user[u].tenant] = "active"}

\* The tenant of the address, or of the refresh token, becomes the context.
Resolve(r) ==
    /\ At(r, "resolve")
    /\ \/ /\ task[r].op = <<"auth", "login">>
          /\ \E u \in Carriers(task[r].email) :
                context' = [context EXCEPT ![r] = user[u].tenant]
          /\ Ends(r, "lookup")
       \/ /\ task[r].op = <<"auth", "refresh">>
          /\ \E s \in session : s.user = task[r].user
                /\ context' = [context EXCEPT ![r] = s.tenant]
          /\ Ends(r, "work")
    /\ UNCHANGED <<rowVars, task, found>>

\* findCredentials, isActive and the comparison of the password.
Lookup(r, u) ==
    /\ At(r, "lookup")
    /\ Exists(u) /\ Reaches(r, user[u].tenant)
    /\ user[u].email = task[r].email /\ user[u].active
    /\ found' = [found EXCEPT ![r] = u]
    /\ Ends(r, "record")
    /\ UNCHANGED <<rowVars, task, context>>

\* recordLoginAndCreateSession locks the user it has compared.
Record(r) ==
    /\ At(r, "record")
    /\ Exists(found[r]) /\ Reaches(r, user[found[r]].tenant) /\ user[found[r]].active
    /\ session' = session \cup {[user |-> found[r], tenant |-> context[r]]}
    /\ Finishes(r)
    /\ UNCHANGED <<status, company, user>>

----------------------------------------------------------------------------
(* Work inside a tenant *)

Works(r, controller, handler) ==
    At(r, "work") /\ task[r].op = <<controller, handler>>

\* Rotations and reset tokens change no row that is kept here.
Answer(r) ==
    /\ \/ Works(r, "auth", "refresh")
       \/ Works(r, "auth", "forgotPassword")
    /\ Finishes(r)
    /\ UNCHANGED rowVars

\* The extension writes the tenant of the context; the policy checks it.
CreateUser(r, u) ==
    /\ Works(r, "user", "create")
    /\ user[u] = None /\ Free(u, task[r].email)
    /\ Reaches(r, context[r])
    /\ user' = [user EXCEPT ![u] = [tenant |-> context[r], email |-> task[r].email,
                                    active |-> TRUE]]
    /\ Finishes(r)
    /\ UNCHANGED <<status, company, session>>

UpdateUser(r) ==
    LET u == task[r].user
    IN  /\ Works(r, "user", "update")
        /\ Exists(u) /\ Reaches(r, user[u].tenant)
        /\ Free(u, task[r].email)
        /\ user' = [user EXCEPT ![u] = [tenant |-> context[r], email |-> task[r].email,
                                        active |-> task[r].active]]
        /\ Finishes(r)
        /\ UNCHANGED <<status, company, session>>

\* Sessions restrict the deletion.
RemoveUser(r) ==
    LET u == task[r].user
    IN  /\ Works(r, "user", "remove")
        /\ Exists(u) /\ Reaches(r, user[u].tenant)
        /\ \A s \in session : s.user # u
        /\ user' = [user EXCEPT ![u] = Gone]
        /\ Finishes(r)
        /\ UNCHANGED <<status, company, session>>

\* Nothing deletes a company: what was checked before still holds.
UpdateCompany(r) ==
    LET t == task[r].tenant
    IN  /\ Works(r, "company", "update")
        /\ company[t] # None /\ Reaches(r, t)
        /\ company' = [company EXCEPT ![t] = "new"]
        /\ Finishes(r)
        /\ UNCHANGED <<status, user, session>>

\* An operator switches a tenant off or on.
SetStatus(t) ==
    /\ status[t] # None
    /\ status' = [status EXCEPT ![t] = IF @ = "active" THEN "inactive" ELSE "active"]
    /\ UNCHANGED <<company, user, session, poolVars, requestVars>>

----------------------------------------------------------------------------

Step(r) ==
    \/ \E x \in Asked : Arrive(r, x)
    \/ \E c \in Connection : Begin(r, c)
    \/ Fail(r)
    \/ \E u \in User : Provision(r, u) \/ Lookup(r, u) \/ CreateUser(r, u)
    \/ Resolve(r) \/ Record(r) \/ Answer(r)
    \/ UpdateUser(r) \/ RemoveUser(r) \/ UpdateCompany(r)

\* Who carries the address of r, and which tenants are active, now.
CarriersNow(r) ==
    {[user |-> u, tenant |-> user[u].tenant] :
        u \in {v \in User : Exists(v) /\ user[v].email = task[r].email}}
AliveNow == {t \in Tenant : status[t] = "active"}

Signing(r) == pc[r] # "idle" /\ task[r].op = <<"auth", "login">>

Witnessed ==
    /\ carried' = [r \in Request |->
          IF Signing(r)' THEN carried[r] \cup CarriersNow(r)' ELSE {}]
    /\ alive' = [r \in Request |-> IF Signing(r)' THEN alive[r] \cup AliveNow' ELSE {}]

Next ==
    /\ (\E r \in Request : Step(r)) \/ (\E t \in Tenant : SetStatus(t))
    /\ Witnessed

Spec == Init /\ [][Next]_vars

----------------------------------------------------------------------------
(* Properties *)

\* A connection of the pool carries a tenant exactly while a unit of work is
\* open on it, and then the one of its request's context (UnitOfWorkService):
\* nobody inherits the tenant of whoever used the connection before.
ConnectionCarriesContext ==
    \A c \in Connection :
        setting[c] = IF holder[c] = None \/ pc[holder[c]] \in Unscoped THEN None
                     ELSE context[holder[c]]

\* A sign-in (AuthService.login) opens a session only for a user that carried
\* the address, in its own tenant, and while that tenant was active at some
\* time, although the address may pass to another user or tenant between the
\* three transactions that resolve, compare and record.
SignedInAsAddressed ==
    [][\A s \in session' \ session :
          \E r \in Request : s \in carried[r] /\ s.tenant \in alive[r]]_vars

\* The step of r is in the context of tenant t, or provisions it.
ActsFor(r, t) ==
    /\ pc[r] # "idle" /\ pc'[r] = "idle"
    /\ \/ pc[r] \notin Unscoped /\ context[r] = t
       \/ pc[r] = "provision" /\ status[t] = None

\* A row of a tenant is written only by a request in the context of that
\* tenant or by its sign-up; no user and no session changes its tenant (the
\* client extension, the policies and the provisioning function together).
NoForeignWrite ==
    [][/\ \A u \in User : user'[u] # user[u] => \E r \in Request :
             /\ user[u] \in Row => ActsFor(r, user[u].tenant)
             /\ user'[u] \in Row => ActsFor(r, user'[u].tenant)
       /\ \A t \in Tenant : company'[t] # company[t] => \E r \in Request : ActsFor(r, t)
       /\ \A s \in session' \ session : \E r \in Request :
             ActsFor(r, s.tenant) /\ user[s.user] \in Row /\ user[s.user].tenant = s.tenant
      ]_vars
=============================================================================
