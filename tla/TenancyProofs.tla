--------------------------- MODULE TenancyProofs ---------------------------
(***************************************************************************)
(* Proofs about tenants, for any number of tenants, users, connections and *)
(* requests: what a pooled connection carries, whom a sign-in signs in,    *)
(* and who writes a tenant's rows.                                         *)
(***************************************************************************)
EXTENDS Tenancy, TLAPS

Signup == <<"company_signup", "signup">>
Login == <<"auth", "login">>

\* What a request at a stage was asked for, and what it has found.
Tasks ==
    \A r \in Request :
        /\ pc[r] # "idle" => task[r] \in Asked
        /\ pc[r] = "provision" => task[r].op = Signup
        /\ pc[r] \in {"lookup", "record"} => task[r].op = Login
        /\ pc[r] = "record" => found[r] \in User

\* Connections and the requests that hold them know of each other.
Pool ==
    /\ \A r \in Request : on[r] # None =>
          /\ holder[on[r]] = r
          /\ pc[r] # "idle"
          /\ pc[r] \notin Unscoped => context[r] # None
    /\ \A c \in Connection : holder[c] # None => on[holder[c]] = c

\* A sign-in has found a tenant while it was active, and then a user while it
\* carried the address.
Signed ==
    \A r \in Request :
        /\ pc[r] \in {"lookup", "record"} => context[r] \in alive[r]
        /\ pc[r] = "record" => [user |-> found[r], tenant |-> context[r]] \in carried[r]

Inv == TypeOK /\ Tasks /\ Pool /\ ConnectionCarriesContext /\ Signed

----------------------------------------------------------------------------
(* What the steps have in common *)

\* The step is taken by r, which goes on with stage s in tenant t.
Moves(r, s, t) ==
    /\ pc' = [pc EXCEPT ![r] = s]
    /\ context' = [context EXCEPT ![r] = t]

\* The transaction of r ends.
Releases(r) ==
    /\ on[r] # None
    /\ setting' = [setting EXCEPT ![on[r]] = None]
    /\ holder' = [holder EXCEPT ![on[r]] = None]
    /\ on' = [on EXCEPT ![r] = None]

Stages == Stage \cup {"idle"}

LEMMA KeptContext ==
    ASSUME TypeOK, UNCHANGED context, NEW r \in Request
    PROVE  context' = [context EXCEPT ![r] = context[r]]
BY DEF TypeOK

\* A step of the pool either leaves the connections alone while r holds none, or
\* opens a transaction of r, or ends it.
PoolStep(r) ==
    \/ /\ on[r] = None /\ UNCHANGED poolVars
       /\ \E s \in Stages, t \in Tenant \cup {None} : Moves(r, s, t)
    \/ \E c \in Connection : Begin(r, c)
    \/ /\ Releases(r)
       /\ \E s \in Stages, t \in Tenant \cup {None} : Moves(r, s, t)

LEMMA FinishesMoves ==
    ASSUME NEW r \in Request, on[r] # None, Finishes(r)
    PROVE  Releases(r) /\ Moves(r, "idle", None)
BY DEF Finishes, Ends, AfterTransaction, Releases, Moves

LEMMA FinishesStep ==
    ASSUME NEW r \in Request, on[r] # None, Finishes(r)
    PROVE  PoolStep(r)
<1>1. "idle" \in Stages /\ None \in Tenant \cup {None}
  BY DEF Stages
<1>2. QED
  BY <1>1, FinishesMoves DEF PoolStep

LEMMA ArriveStep ==
    ASSUME Inv, NEW r \in Request, NEW x \in Asked, Arrive(r, x)
    PROVE  PoolStep(r)
<1>1. FirstStage(x.op) \in Stages
  BY DEF FirstStage, Stages, Stage
<1>2. PICK t \in Contexts(x.op) : context' = [context EXCEPT ![r] = t]
  BY DEF Arrive
<1>3. t \in Tenant \cup {None}
  BY DEF Contexts, Inv, TypeOK
<1>4. on[r] = None
  BY DEF Inv, Pool, Arrive
<1>5. QED
  BY <1>1, <1>2, <1>3, <1>4 DEF PoolStep, Moves, Arrive

LEMMA FailStep ==
    ASSUME Inv, NEW r \in Request, Fail(r)
    PROVE  PoolStep(r)
<1>1. CASE on[r] = None
  <2>1. "idle" \in Stages /\ None \in Tenant \cup {None}
    BY DEF Stages
  <2>2. Moves(r, "idle", None) /\ UNCHANGED poolVars
    BY <1>1 DEF Fail, Moves
  <2>3. QED
    BY <1>1, <2>1, <2>2 DEF PoolStep
<1>2. CASE on[r] # None
  BY <1>2, FinishesStep DEF Fail
<1>3. QED
  BY <1>1, <1>2

LEMMA ResolveStep ==
    ASSUME Inv, NEW r \in Request, Resolve(r)
    PROVE  PoolStep(r)
<1>1. on[r] # None
  BY DEF Resolve, At
<1>2. PICK s \in {"lookup", "work"} : Ends(r, s)
  BY DEF Resolve
<1>3. PICK t \in Tenant : context' = [context EXCEPT ![r] = t]
  BY DEF Resolve, Carriers, Exists, Inv, TypeOK, Row
<1>4. s \in Stages /\ t \in Tenant \cup {None}
  BY DEF Stages, Stage
<1>5. Releases(r) /\ Moves(r, s, t)
  BY <1>1, <1>2, <1>3 DEF Ends, AfterTransaction, Releases, Moves
<1>6. QED
  BY <1>4, <1>5 DEF PoolStep

LEMMA LookupStep ==
    ASSUME Inv, NEW r \in Request, NEW u \in User, Lookup(r, u)
    PROVE  PoolStep(r)
<1>1. context[r] \in Tenant \cup {None} /\ "record" \in Stages
  BY DEF Inv, TypeOK, Stages, Stage
<1>2. context' = [context EXCEPT ![r] = context[r]]
  BY KeptContext DEF Lookup, Inv
<1>3. Releases(r) /\ Moves(r, "record", context[r])
  BY <1>2 DEF Lookup, At, Ends, AfterTransaction, Releases, Moves
<1>4. QED
  BY <1>1, <1>3 DEF PoolStep

LEMMA StepOfPool ==
    ASSUME Inv, NEW r \in Request, Step(r)
    PROVE  PoolStep(r)
<1>1. CASE \E x \in Asked : Arrive(r, x)
  BY <1>1, ArriveStep
<1>2. CASE \E c \in Connection : Begin(r, c)
  BY <1>2 DEF PoolStep
<1>3. CASE Fail(r)
  BY <1>3, FailStep
<1>4. CASE Resolve(r)
  BY <1>4, ResolveStep
<1>5. CASE \E u \in User : Lookup(r, u)
  BY <1>5, LookupStep
<1>6. CASE \/ \E u \in User : Provision(r, u) \/ CreateUser(r, u)
           \/ Record(r) \/ Answer(r) \/ UpdateUser(r) \/ RemoveUser(r)
           \/ UpdateCompany(r)
  <2>1. on[r] # None /\ Finishes(r)
    BY <1>6 DEF Provision, CreateUser, Record, Answer, UpdateUser, RemoveUser,
                UpdateCompany, Works, At
  <2>2. QED
    BY <2>1, FinishesStep
<1>7. QED
  BY <1>1, <1>2, <1>3, <1>4, <1>5, <1>6 DEF Step

----------------------------------------------------------------------------
(* The pool *)

PoolTypes ==
    /\ setting' \in [Connection -> Tenant \cup {None}]
    /\ holder' \in [Connection -> Request \cup {None}]
    /\ on' \in [Request -> Connection \cup {None}]
    /\ pc' \in [Request -> Stages]
    /\ context' \in [Request -> Tenant \cup {None}]

LEMMA BeginKeeps ==
    ASSUME Inv, NEW r \in Request, NEW c \in Connection, Begin(r, c)
    PROVE  PoolTypes /\ Pool' /\ ConnectionCarriesContext'
<1> USE TenancyAssumption
<1>1. PoolTypes
  BY DEF Inv, TypeOK, Begin, PoolTypes, requestVars, Stages
<1>2. Pool'
  BY DEF Inv, TypeOK, Pool, Begin, requestVars
<1>3. ConnectionCarriesContext'
  BY DEF Inv, TypeOK, Pool, ConnectionCarriesContext, Begin, requestVars
<1>4. QED
  BY <1>1, <1>2, <1>3

LEMMA MoveKeeps ==
    ASSUME Inv, NEW r \in Request, NEW s \in Stages, NEW t \in Tenant \cup {None},
           Moves(r, s, t), on[r] = None, UNCHANGED poolVars
    PROVE  PoolTypes /\ Pool' /\ ConnectionCarriesContext'
<1> USE TenancyAssumption
<1>1. PoolTypes
  BY DEF Inv, TypeOK, Moves, poolVars, PoolTypes, Stages
<1>2. Pool'
  BY DEF Inv, TypeOK, Pool, Moves, poolVars
<1>3. ConnectionCarriesContext'
  BY DEF Inv, TypeOK, Pool, ConnectionCarriesContext, Moves, poolVars
<1>4. QED
  BY <1>1, <1>2, <1>3

LEMMA ReleaseKeeps ==
    ASSUME Inv, NEW r \in Request, NEW s \in Stages, NEW t \in Tenant \cup {None},
           Moves(r, s, t), Releases(r)
    PROVE  PoolTypes /\ Pool' /\ ConnectionCarriesContext'
<1> USE TenancyAssumption
<1>1. PoolTypes
  BY DEF Inv, TypeOK, Moves, Releases, PoolTypes, Stages
<1>2. Pool'
  BY DEF Inv, TypeOK, Pool, Moves, Releases
<1>3. ConnectionCarriesContext'
  BY DEF Inv, TypeOK, Pool, ConnectionCarriesContext, Moves, Releases
<1>4. QED
  BY <1>1, <1>2, <1>3

LEMMA PoolKeeps ==
    ASSUME Inv, NEW r \in Request, PoolStep(r)
    PROVE  PoolTypes /\ Pool' /\ ConnectionCarriesContext'
BY BeginKeeps, MoveKeeps, ReleaseKeeps DEF PoolStep

----------------------------------------------------------------------------
(* Rows, tasks and history *)

RowTypes ==
    /\ status' \in [Tenant -> {None, "active", "inactive"}]
    /\ company' \in [Tenant -> {None, "old", "new"}]
    /\ user' \in [User -> Row \cup {None, Gone}]
    /\ session' \subseteq [user : User, tenant : Tenant]

LEMMA NewRow ==
    ASSUME TypeOK, NEW u \in User, NEW t \in Tenant, NEW e \in Email, NEW b \in BOOLEAN,
           user' = [user EXCEPT ![u] = [tenant |-> t, email |-> e, active |-> b]]
    PROVE  user' \in [User -> Row \cup {None, Gone}]
<1>1. [tenant |-> t, email |-> e, active |-> b] \in Row
  BY DEF Row
<1>2. QED
  BY <1>1 DEF TypeOK

LEMMA ProvisionRows ==
    ASSUME Inv, NEW r \in Request, NEW u \in User, Provision(r, u)
    PROVE  RowTypes
<1>1. task[r] \in Asked /\ task[r].op = Signup
  BY DEF Inv, Tasks, Provision, At
<1>2. task[r].tenant \in Tenant /\ task[r].email \in Email
  BY <1>1 DEF Asked, Task, Signup
<1>3. user' \in [User -> Row \cup {None, Gone}]
  BY <1>2, NewRow DEF Provision, Inv
<1>4. QED
  BY <1>3 DEF RowTypes, Provision, Inv, TypeOK

\* A unit of work has a tenant.
LEMMA InTenant ==
    ASSUME Inv, NEW r \in Request, on[r] # None, pc[r] \in {"lookup", "record", "work"}
    PROVE  context[r] \in Tenant
BY DEF Inv, TypeOK, Pool, Unscoped

LEMMA CreateUserRows ==
    ASSUME Inv, NEW r \in Request, NEW u \in User, CreateUser(r, u)
    PROVE  RowTypes
<1>1. task[r] \in Asked /\ task[r].op = <<"user", "create">>
  BY DEF Inv, Tasks, CreateUser, Works, At
<1>2. task[r].email \in Email
  BY <1>1 DEF Asked, Task
<1>3. context[r] \in Tenant
  BY InTenant DEF CreateUser, Works, At
<1>4. user' \in [User -> Row \cup {None, Gone}]
  BY <1>2, <1>3, NewRow DEF CreateUser, Inv
<1>5. QED
  BY <1>4 DEF RowTypes, CreateUser, Inv, TypeOK

LEMMA UpdateUserRows ==
    ASSUME Inv, NEW r \in Request, UpdateUser(r)
    PROVE  RowTypes
<1>1. task[r] \in Asked /\ task[r].op = <<"user", "update">>
  BY DEF Inv, Tasks, UpdateUser, Works, At
<1>2. task[r].email \in Email /\ task[r].user \in User /\ task[r].active \in BOOLEAN
  BY <1>1 DEF Asked, Task
<1>3. context[r] \in Tenant
  BY InTenant DEF UpdateUser, Works, At
<1>4. user' = [user EXCEPT ![task[r].user] = [tenant |-> context[r],
                  email |-> task[r].email, active |-> task[r].active]]
  BY DEF UpdateUser
<1>5. user' \in [User -> Row \cup {None, Gone}]
  BY <1>2, <1>3, <1>4, NewRow DEF Inv
<1>6. QED
  BY <1>5 DEF RowTypes, UpdateUser, Inv, TypeOK

LEMMA RecordRows ==
    ASSUME Inv, NEW r \in Request, Record(r)
    PROVE  RowTypes
<1>1. context[r] \in Tenant
  BY InTenant DEF Record, At
<1>2. found[r] \in User
  BY DEF Inv, Tasks, Record, At
<1>3. QED
  BY <1>1, <1>2 DEF RowTypes, Record, Inv, TypeOK

LEMMA StepRows ==
    ASSUME Inv, NEW r \in Request, Step(r)
    PROVE  RowTypes
<1>1. CASE \E u \in User : Provision(r, u)
  BY <1>1, ProvisionRows
<1>2. CASE \E u \in User : CreateUser(r, u)
  BY <1>2, CreateUserRows
<1>3. CASE UpdateUser(r)
  BY <1>3, UpdateUserRows
<1>4. CASE Record(r)
  BY <1>4, RecordRows
<1>5. CASE RemoveUser(r)
  BY <1>5 DEF RemoveUser, RowTypes, Inv, TypeOK
<1>6. CASE UpdateCompany(r)
  BY <1>6 DEF UpdateCompany, RowTypes, Inv, TypeOK
<1>7. CASE \/ \E x \in Asked : Arrive(r, x)
           \/ \E c \in Connection : Begin(r, c)
           \/ Fail(r) \/ Resolve(r) \/ Answer(r)
           \/ \E u \in User : Lookup(r, u)
  <2>1. UNCHANGED rowVars
    BY <1>7 DEF Arrive, Begin, Fail, Resolve, Answer, Lookup
  <2>2. QED
    BY <2>1 DEF rowVars, RowTypes, Inv, TypeOK
<1>8. QED
  BY <1>1, <1>2, <1>3, <1>4, <1>5, <1>6, <1>7 DEF Step

----------------------------------------------------------------------------
(* Requests *)

\* The step of r leaves the other requests alone.
Alone(r) ==
    \A q \in Request \ {r} :
        /\ pc'[q] = pc[q] /\ task'[q] = task[q]
        /\ context'[q] = context[q] /\ found'[q] = found[q]

RequestTypes ==
    /\ task' \in [Request -> Task \cup {None}]
    /\ found' \in [Request -> User \cup {None}]

\* The request of the step is idle, or as TypeOK and Tasks have it.
Fits(r) ==
    /\ Alone(r)
    /\ RequestTypes
    /\ pc'[r] # "idle" => task'[r] \in Asked
    /\ pc'[r] = "provision" => task'[r].op = Signup
    /\ pc'[r] \in {"lookup", "record"} => task'[r].op = Login
    /\ pc'[r] = "record" => found'[r] \in User

LEMMA FinishesFits ==
    ASSUME Inv, NEW r \in Request, Finishes(r)
    PROVE  Fits(r) /\ pc'[r] = "idle"
BY DEF Inv, TypeOK, Finishes, Ends, Fits, Alone, RequestTypes

LEMMA ArriveFits ==
    ASSUME Inv, NEW r \in Request, NEW x \in Asked, Arrive(r, x)
    PROVE  Fits(r) /\ pc'[r] \in {"provision", "resolve", "work"}
<1>1. /\ FirstStage(x.op) \in {"provision", "resolve", "work"}
      /\ FirstStage(x.op) = "provision" => x.op = Signup
  BY DEF FirstStage, Signup
<1>2. PICK t \in Contexts(x.op) : context' = [context EXCEPT ![r] = t]
  BY DEF Arrive
<1>3. x \in Task
  BY DEF Asked
<1>4. /\ pc' = [pc EXCEPT ![r] = FirstStage(x.op)] /\ task' = [task EXCEPT ![r] = x]
      /\ UNCHANGED found
  BY DEF Arrive
<1>5. pc'[r] = FirstStage(x.op) /\ task'[r] = x
  BY <1>4 DEF Inv, TypeOK
<1>6. Alone(r)
  BY <1>2, <1>4 DEF Inv, TypeOK, Alone
<1>7. RequestTypes
  BY <1>3, <1>4 DEF Inv, TypeOK, RequestTypes
<1>8. QED
  BY <1>1, <1>5, <1>6, <1>7 DEF Fits

LEMMA BeginFits ==
    ASSUME Inv, NEW r \in Request, NEW c \in Connection, Begin(r, c)
    PROVE  Fits(r) /\ UNCHANGED requestVars
BY DEF Inv, TypeOK, Tasks, Begin, requestVars, Fits, Alone, RequestTypes

LEMMA FailFits ==
    ASSUME Inv, NEW r \in Request, Fail(r)
    PROVE  Fits(r) /\ pc'[r] = "idle"
<1>1. CASE on[r] = None
  BY <1>1 DEF Fail, Inv, TypeOK, Fits, Alone, RequestTypes
<1>2. CASE on[r] # None
  BY <1>2, FinishesFits DEF Fail
<1>3. QED
  BY <1>1, <1>2

LEMMA ResolveFits ==
    ASSUME Inv, NEW r \in Request, Resolve(r)
    PROVE  Fits(r) /\ pc'[r] \in {"lookup", "work"}
<1>1. PICK s \in {"lookup", "work"} : Ends(r, s) /\ (s = "lookup" => task[r].op = Login)
  BY DEF Resolve, Login
<1>2. PICK t \in Tenant : context' = [context EXCEPT ![r] = t]
  BY DEF Resolve, Carriers, Exists, Inv, TypeOK, Row
<1>3. pc' = [pc EXCEPT ![r] = s] /\ UNCHANGED <<task, found>>
  BY <1>1 DEF Ends, Resolve
<1>4. task[r] \in Asked
  BY DEF Inv, Tasks, Resolve, At
<1>5. Alone(r)
  BY <1>2, <1>3 DEF Inv, TypeOK, Alone
<1>6. RequestTypes
  BY <1>3 DEF Inv, TypeOK, RequestTypes
<1>7. pc'[r] = s
  BY <1>3 DEF Inv, TypeOK
<1>8. QED
  BY <1>1, <1>3, <1>4, <1>5, <1>6, <1>7 DEF Fits

LEMMA LookupFits ==
    ASSUME Inv, NEW r \in Request, NEW u \in User, Lookup(r, u)
    PROVE  Fits(r) /\ pc'[r] = "record"
<1>1. pc' = [pc EXCEPT ![r] = "record"] /\ found' = [found EXCEPT ![r] = u]
      /\ UNCHANGED <<task, context>>
  BY DEF Lookup, Ends
<1>2. task[r] \in Asked /\ task[r].op = Login
  BY DEF Inv, Tasks, Lookup, At
<1>3. Alone(r)
  BY <1>1 DEF Inv, TypeOK, Alone
<1>4. RequestTypes
  BY <1>1 DEF Inv, TypeOK, RequestTypes
<1>5. pc'[r] = "record" /\ found'[r] = u
  BY <1>1 DEF Inv, TypeOK
<1>6. QED
  BY <1>1, <1>2, <1>3, <1>4, <1>5 DEF Fits

\* The last step of a request.
LEMMA LastStep ==
    ASSUME NEW r \in Request,
           \/ \E u \in User : Provision(r, u) \/ CreateUser(r, u)
           \/ Record(r) \/ Answer(r) \/ UpdateUser(r) \/ RemoveUser(r)
           \/ UpdateCompany(r)
    PROVE  Finishes(r)
BY DEF Provision, CreateUser, Record, Answer, UpdateUser, RemoveUser, UpdateCompany

LEMMA StepFits ==
    ASSUME Inv, NEW r \in Request, Step(r)
    PROVE  Fits(r)
BY ArriveFits, BeginFits, FailFits, ResolveFits, LookupFits, LastStep, FinishesFits DEF Step

LEMMA FitsTasks ==
    ASSUME Inv, NEW r \in Request, Fits(r)
    PROVE  Tasks'
<1> SUFFICES ASSUME NEW q \in Request
             PROVE  /\ pc'[q] # "idle" => task'[q] \in Asked
                    /\ pc'[q] = "provision" => task'[q].op = Signup
                    /\ pc'[q] \in {"lookup", "record"} => task'[q].op = Login
                    /\ pc'[q] = "record" => found'[q] \in User
  BY DEF Tasks, Asked, Signup, Login
<1>1. CASE q = r
  BY <1>1 DEF Fits
<1>2. CASE q # r
  BY <1>2 DEF Fits, Alone, Inv, Tasks
<1>3. QED
  BY <1>1, <1>2

----------------------------------------------------------------------------
(* What is remembered of a sign-in *)

HistoryTypes ==
    /\ carried' \in [Request -> SUBSET [user : User, tenant : Tenant]]
    /\ alive' \in [Request -> SUBSET Tenant]

LEMMA WitnessedTypes ==
    ASSUME Inv, RowTypes, Witnessed
    PROVE  HistoryTypes
<1>1. ASSUME NEW r \in Request PROVE CarriersNow(r)' \subseteq [user : User, tenant : Tenant]
  BY DEF CarriersNow, Exists, RowTypes, Row
<1>2. AliveNow' \subseteq Tenant
  BY DEF AliveNow
<1>3. carried' \in [Request -> SUBSET [user : User, tenant : Tenant]]
  BY <1>1 DEF Witnessed, Inv, TypeOK
<1>4. alive' \in [Request -> SUBSET Tenant]
  BY <1>2 DEF Witnessed, Inv, TypeOK
<1>5. QED
  BY <1>3, <1>4 DEF HistoryTypes

\* A sign-in under way forgets nothing and sees what is true now.
LEMMA Remembers ==
    ASSUME Inv, Witnessed, NEW r \in Request,
           pc'[r] # "idle", task'[r].op = Login
    PROVE  /\ carried'[r] = carried[r] \cup CarriersNow(r)'
           /\ alive'[r] = alive[r] \cup AliveNow'
BY DEF Witnessed, Signing, Login

LEMMA OthersSigned ==
    ASSUME Inv, Witnessed, NEW q \in Request,
           pc'[q] = pc[q], task'[q] = task[q], context'[q] = context[q],
           pc'[q] = "record" => found'[q] = found[q]
    PROVE  /\ pc'[q] \in {"lookup", "record"} => context'[q] \in alive'[q]
           /\ pc'[q] = "record" =>
                 [user |-> found'[q], tenant |-> context'[q]] \in carried'[q]
<1>1. CASE pc[q] \in {"lookup", "record"}
  <2>1. task'[q].op = Login
    BY <1>1 DEF Inv, Tasks
  <2>2. alive[q] \subseteq alive'[q] /\ carried[q] \subseteq carried'[q]
    BY <1>1, <2>1, Remembers
  <2>3. QED
    BY <1>1, <2>2 DEF Inv, Signed
<1>2. CASE pc[q] \notin {"lookup", "record"}
  BY <1>2
<1>3. QED
  BY <1>1, <1>2

SignedAt(r) ==
    /\ pc[r] \in {"lookup", "record"} => context[r] \in alive[r]
    /\ pc[r] = "record" => [user |-> found[r], tenant |-> context[r]] \in carried[r]

LEMMA ResolveSigned ==
    ASSUME Inv, Witnessed, NEW r \in Request, Resolve(r)
    PROVE  SignedAt(r)'
<1>1. pc'[r] \in {"lookup", "work"} /\ Fits(r)
  BY ResolveFits
<1>2. CASE pc'[r] = "work"
  BY <1>2 DEF SignedAt
<1>3. CASE pc'[r] = "lookup"
  <2>1. task'[r].op = Login
    BY <1>1, <1>3 DEF Fits
  <2>2. alive'[r] = alive[r] \cup AliveNow'
    BY <1>3, <2>1, Remembers
  <2>3. task'[r] = task[r]
    BY DEF Resolve
  <2>4. PICK u \in Carriers(task[r].email) : context' = [context EXCEPT ![r] = user[u].tenant]
    BY <2>1, <2>3 DEF Resolve, Login
  <2>5. user[u].tenant \in Tenant /\ status[user[u].tenant] = "active"
    BY <2>4 DEF Carriers, Exists, Inv, TypeOK, Row
  <2>6. UNCHANGED status
    BY DEF Resolve, rowVars
  <2>7. context'[r] \in AliveNow'
    BY <2>4, <2>5, <2>6 DEF AliveNow, Inv, TypeOK
  <2>8. QED
    BY <1>3, <2>2, <2>7 DEF SignedAt
<1>4. QED
  BY <1>1, <1>2, <1>3

LEMMA LookupSigned ==
    ASSUME Inv, Witnessed, NEW r \in Request, NEW u \in User, Lookup(r, u)
    PROVE  SignedAt(r)'
<1>1. pc'[r] = "record" /\ Fits(r)
  BY LookupFits
<1>2. /\ carried'[r] = carried[r] \cup CarriersNow(r)'
      /\ alive'[r] = alive[r] \cup AliveNow'
  BY <1>1, Remembers DEF Fits
<1>3. found'[r] = u /\ context'[r] = context[r] /\ task' = task /\ user' = user
  BY DEF Lookup, rowVars, Inv, TypeOK
<1>4. context[r] \in alive[r]
  BY DEF Inv, Signed, Lookup, At
<1>5. /\ Exists(u)' /\ user'[u].email = task'[r].email
      /\ user'[u].tenant = context'[r]
  BY <1>3 DEF Lookup, Exists, Reaches
<1>6. [user |-> u, tenant |-> context'[r]] \in CarriersNow(r)'
  BY <1>5 DEF CarriersNow
<1>7. QED
  BY <1>1, <1>2, <1>3, <1>4, <1>6 DEF SignedAt

LEMMA StepSigned ==
    ASSUME Inv, Witnessed, NEW r \in Request, Step(r)
    PROVE  Signed'
<1>1. SignedAt(r)'
  <2>1. CASE Resolve(r)
    BY <2>1, ResolveSigned
  <2>2. CASE \E u \in User : Lookup(r, u)
    BY <2>2, LookupSigned
  <2>3. CASE \E c \in Connection : Begin(r, c)
    <3>1. UNCHANGED requestVars
      BY <2>3, BeginFits
    <3>2. QED
      BY <3>1, OthersSigned DEF requestVars, SignedAt
  <2>4. CASE \E x \in Asked : Arrive(r, x)
    BY <2>4, ArriveFits DEF SignedAt
  <2>5. CASE Fail(r)
    BY <2>5, FailFits DEF SignedAt
  <2>6. CASE \/ \E u \in User : Provision(r, u) \/ CreateUser(r, u)
             \/ Record(r) \/ Answer(r) \/ UpdateUser(r) \/ RemoveUser(r)
             \/ UpdateCompany(r)
    BY <2>6, LastStep, FinishesFits DEF SignedAt
  <2>7. QED
    BY <2>1, <2>2, <2>3, <2>4, <2>5, <2>6 DEF Step
<1>2. ASSUME NEW q \in Request \ {r}
      PROVE  SignedAt(q)'
  BY StepFits, OthersSigned DEF Fits, Alone, SignedAt
<1>3. QED
  BY <1>1, <1>2 DEF Signed, SignedAt

----------------------------------------------------------------------------
(* The invariant *)

LEMMA TypesFit ==
    ASSUME RowTypes, PoolTypes, RequestTypes, HistoryTypes
    PROVE  TypeOK'
BY DEF RowTypes, PoolTypes, RequestTypes, HistoryTypes, TypeOK, Stages

LEMMA InitInv == Init => Inv
<1> SUFFICES ASSUME Init PROVE Inv
  OBVIOUS
<1>1. TypeOK
  <2>1. user \in [User -> Row \cup {None, Gone}] /\ session \subseteq [user : User, tenant : Tenant]
    BY DEF Init, Row
  <2>2. company \in [Tenant -> {None, "old", "new"}]
    BY DEF Init
  <2>3. QED
    BY <2>1, <2>2 DEF Init, TypeOK
<1>2. Tasks /\ Signed
  BY DEF Init, Tasks, Signed
<1>3. Pool /\ ConnectionCarriesContext
  BY DEF Init, Pool, ConnectionCarriesContext
<1>4. QED
  BY <1>1, <1>2, <1>3 DEF Inv

LEMMA StepInv ==
    ASSUME Inv, Witnessed, NEW r \in Request, Step(r)
    PROVE  Inv'
<1>1. PoolTypes /\ Pool' /\ ConnectionCarriesContext'
  BY StepOfPool, PoolKeeps
<1>2. RowTypes
  BY StepRows
<1>3. RequestTypes /\ Tasks'
  BY StepFits, FitsTasks DEF Fits
<1>4. HistoryTypes
  BY <1>2, WitnessedTypes
<1>5. TypeOK'
  BY <1>1, <1>2, <1>3, <1>4, TypesFit
<1>6. QED
  BY <1>1, <1>3, <1>5, StepSigned DEF Inv

LEMMA SetStatusInv ==
    ASSUME Inv, Witnessed, NEW t \in Tenant, SetStatus(t)
    PROVE  Inv'
<1>1. UNCHANGED <<company, user, session, setting, holder, on, pc, task, context, found>>
  BY DEF SetStatus, poolVars, requestVars
<1>2. PoolTypes /\ Pool' /\ ConnectionCarriesContext' /\ Tasks' /\ RequestTypes
  BY <1>1 DEF Inv, TypeOK, PoolTypes, Stages, Pool, ConnectionCarriesContext, Tasks, RequestTypes
<1>3. RowTypes
  BY <1>1 DEF SetStatus, Inv, TypeOK, RowTypes
<1>4. TypeOK'
  BY <1>2, <1>3, WitnessedTypes, TypesFit
<1>5. Signed'
  BY <1>1, OthersSigned DEF Signed
<1>6. QED
  BY <1>2, <1>4, <1>5 DEF Inv

LEMMA StutterInv ==
    ASSUME Inv, UNCHANGED vars
    PROVE  Inv'
BY DEF vars, rowVars, poolVars, requestVars, historyVars, Inv, TypeOK, Tasks, Pool,
       ConnectionCarriesContext, Signed

LEMMA NextInv == Inv /\ [Next]_vars => Inv'
BY StepInv, SetStatusInv, StutterInv DEF Next

LEMMA Invariance == Spec => []Inv
BY InitInv, NextInv, PTL DEF Spec

\* For any number of tenants, requests and pooled connections: a connection
\* carries a tenant exactly while a unit of work is open on it, and the one of
\* its request's context (UnitOfWorkService.execute).
THEOREM ConnectionsCarryContext == Spec => []ConnectionCarriesContext
<1>1. Inv => ConnectionCarriesContext
  BY DEF Inv
<1>2. QED
  BY <1>1, Invariance, PTL

----------------------------------------------------------------------------
(* Sign-ins *)

Fresh ==
    \A s \in session' \ session :
        \E r \in Request : s \in carried[r] /\ s.tenant \in alive[r]

LEMMA RecordFresh ==
    ASSUME Inv, NEW r \in Request, Record(r)
    PROVE  Fresh
<1>1. session' = session \cup {[user |-> found[r], tenant |-> context[r]]}
  BY DEF Record
<1>2. /\ [user |-> found[r], tenant |-> context[r]] \in carried[r]
      /\ context[r] \in alive[r]
  BY DEF Inv, Signed, Record, At
<1>3. QED
  BY <1>1, <1>2 DEF Fresh

LEMMA NoOtherSession ==
    ASSUME [Next]_vars, ~\E r \in Request : Record(r)
    PROVE  UNCHANGED session
<1>1. CASE UNCHANGED vars
  BY <1>1 DEF vars, rowVars
<1>2. CASE \E t \in Tenant : SetStatus(t)
  BY <1>2 DEF SetStatus
<1>3. CASE \E r \in Request : Step(r)
  BY <1>3 DEF Step, Arrive, Begin, Fail, Provision, Lookup, CreateUser, Resolve, Answer,
              UpdateUser, RemoveUser, UpdateCompany, rowVars
<1>4. QED
  BY <1>1, <1>2, <1>3 DEF Next

LEMMA StepFresh == Inv /\ [Next]_vars => Fresh
BY RecordFresh, NoOtherSession DEF Fresh

\* However addresses pass between users and tenants while a sign-in runs its three
\* transactions (AuthService.login), the session is of a user that carried the
\* address, in a tenant that was active.
THEOREM SignInsAsAddressed == Spec => SignedInAsAddressed
<1>1. Inv /\ [Next]_vars => [Fresh]_vars
  BY StepFresh
<1>2. QED
  BY <1>1, Invariance, PTL DEF Spec, SignedInAsAddressed, Fresh

----------------------------------------------------------------------------
(* Writes *)

\* What a step of r may write.
WritesOwn(r) ==
    /\ \A u \in User : user'[u] # user[u] =>
          /\ user[u] \in Row => ActsFor(r, user[u].tenant)
          /\ user'[u] \in Row => ActsFor(r, user'[u].tenant)
    /\ \A t \in Tenant : company'[t] # company[t] => ActsFor(r, t)
    /\ \A s \in session' \ session :
          ActsFor(r, s.tenant) /\ user[s.user] \in Row /\ user[s.user].tenant = s.tenant

NoRow == None \notin Row /\ Gone \notin Row

LEMMA Rowless == NoRow
BY TenancyAssumption DEF NoRow, Row

\* The last step of a request acts for the tenant of its context.
LEMMA InContext ==
    ASSUME Inv, NEW r \in Request, pc[r] \in {"record", "work"}, Finishes(r)
    PROVE  ActsFor(r, context[r])
<1>1. pc'[r] = "idle"
  BY FinishesFits
<1>2. QED
  BY <1>1 DEF ActsFor, Unscoped

LEMMA ProvisionOwn ==
    ASSUME Inv, NEW r \in Request, NEW u \in User, Provision(r, u)
    PROVE  WritesOwn(r)
<1>1. pc'[r] = "idle"
  BY FinishesFits DEF Provision
<1>2. ActsFor(r, task[r].tenant)
  BY <1>1 DEF ActsFor, Provision, At
<1>3. user[u] = None
  BY DEF Provision, Provisioned
<1>4. /\ user' = [user EXCEPT ![u] = [tenant |-> task[r].tenant,
                                      email |-> task[r].email, active |-> TRUE]]
      /\ company' = [company EXCEPT ![task[r].tenant] = "old"]
      /\ UNCHANGED session
  BY DEF Provision
<1>5. QED
  BY <1>2, <1>3, <1>4, Rowless DEF WritesOwn, NoRow, Inv, TypeOK

LEMMA CreateUserOwn ==
    ASSUME Inv, NEW r \in Request, NEW u \in User, CreateUser(r, u)
    PROVE  WritesOwn(r)
<1>1. ActsFor(r, context[r])
  BY InContext DEF CreateUser, Works, At
<1>2. QED
  BY <1>1, Rowless DEF CreateUser, WritesOwn, NoRow, Inv, TypeOK

LEMMA UpdateUserOwn ==
    ASSUME Inv, NEW r \in Request, UpdateUser(r)
    PROVE  WritesOwn(r)
<1>1. ActsFor(r, context[r])
  BY InContext DEF UpdateUser, Works, At
<1>2. user[task[r].user].tenant = context[r]
  BY DEF UpdateUser, Reaches
<1>3. QED
  BY <1>1, <1>2 DEF UpdateUser, WritesOwn, Inv, TypeOK

LEMMA RemoveUserOwn ==
    ASSUME Inv, NEW r \in Request, RemoveUser(r)
    PROVE  WritesOwn(r)
<1>1. ActsFor(r, context[r])
  BY InContext DEF RemoveUser, Works, At
<1>2. user[task[r].user].tenant = context[r]
  BY DEF RemoveUser, Reaches
<1>3. QED
  BY <1>1, <1>2, Rowless DEF RemoveUser, WritesOwn, NoRow, Inv, TypeOK

LEMMA UpdateCompanyOwn ==
    ASSUME Inv, NEW r \in Request, UpdateCompany(r)
    PROVE  WritesOwn(r)
<1>1. ActsFor(r, context[r])
  BY InContext DEF UpdateCompany, Works, At
<1>2. QED
  BY <1>1 DEF UpdateCompany, Reaches, WritesOwn, Inv, TypeOK

LEMMA RecordOwn ==
    ASSUME Inv, NEW r \in Request, Record(r)
    PROVE  WritesOwn(r)
<1>1. ActsFor(r, context[r])
  BY InContext DEF Record, At
<1>2. found[r] \in User
  BY DEF Inv, Tasks, Record, At
<1>3. user[found[r]] \in Row /\ user[found[r]].tenant = context[r]
  BY <1>2 DEF Record, Exists, Reaches, Inv, TypeOK
<1>4. QED
  BY <1>1, <1>3 DEF Record, WritesOwn

Foreignless ==
    /\ \A u \in User : user'[u] # user[u] => \E r \in Request :
          /\ user[u] \in Row => ActsFor(r, user[u].tenant)
          /\ user'[u] \in Row => ActsFor(r, user'[u].tenant)
    /\ \A t \in Tenant : company'[t] # company[t] => \E r \in Request : ActsFor(r, t)
    /\ \A s \in session' \ session : \E r \in Request :
          ActsFor(r, s.tenant) /\ user[s.user] \in Row /\ user[s.user].tenant = s.tenant

LEMMA NothingWritten ==
    ASSUME UNCHANGED <<company, user, session>>
    PROVE  Foreignless
BY DEF Foreignless

LEMMA StepOwn ==
    ASSUME Inv, NEW r \in Request, Step(r)
    PROVE  WritesOwn(r) \/ UNCHANGED <<company, user, session>>
<1>1. CASE \E u \in User : Provision(r, u)
  BY <1>1, ProvisionOwn
<1>2. CASE \E u \in User : CreateUser(r, u)
  BY <1>2, CreateUserOwn
<1>3. CASE UpdateUser(r) \/ RemoveUser(r) \/ UpdateCompany(r) \/ Record(r)
  BY <1>3, UpdateUserOwn, RemoveUserOwn, UpdateCompanyOwn, RecordOwn
<1>4. CASE \/ \E x \in Asked : Arrive(r, x)
           \/ \E c \in Connection : Begin(r, c)
           \/ Fail(r) \/ Resolve(r) \/ Answer(r)
           \/ \E u \in User : Lookup(r, u)
  BY <1>4 DEF Arrive, Begin, Fail, Resolve, Answer, Lookup, rowVars
<1>5. QED
  BY <1>1, <1>2, <1>3, <1>4 DEF Step

LEMMA NextForeignless == Inv /\ [Next]_vars => Foreignless
<1> SUFFICES ASSUME Inv, [Next]_vars PROVE Foreignless
  OBVIOUS
<1>1. CASE UNCHANGED vars
  BY <1>1, NothingWritten DEF vars, rowVars
<1>2. CASE \E t \in Tenant : SetStatus(t)
  BY <1>2, NothingWritten DEF SetStatus
<1>3. CASE \E r \in Request : Step(r)
  <2>1. PICK r \in Request : Step(r)
    BY <1>3
  <2>2. CASE WritesOwn(r)
    BY <2>2 DEF WritesOwn, Foreignless
  <2>3. QED
    BY <2>1, <2>2, StepOwn, NothingWritten
<1>4. QED
  BY <1>1, <1>2, <1>3 DEF Next

\* Users, companies and sessions of a tenant are written only by requests in its
\* context, or by the sign-up that makes it: the client extension and row-level
\* security leave no statement another tenant's row.
THEOREM WritesStayHome == Spec => NoForeignWrite
<1>1. Inv /\ [Next]_vars => [Foreignless]_vars
  BY NextForeignless
<1>2. QED
  BY <1>1, Invariance, PTL DEF Spec, NoForeignWrite, Foreignless
=============================================================================
