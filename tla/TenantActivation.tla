-------------------------- MODULE TenantActivation --------------------------
(***************************************************************************)
(* Whether a tenant is active, as TenantContextGuard asks for every        *)
(* request: the answer is remembered in Redis for a while, and nobody      *)
(* invalidates it.  Reading the row and writing the key are two steps, so  *)
(* a slow request can write what another has found out to be wrong.        *)
(* Tenants do not share anything; one of them is modelled.                 *)
(***************************************************************************)
EXTENDS Integers

CONSTANTS
    Request,    \* requests of all processes that are under way at once
    TTL,        \* TENANT_ACTIVATION_TTL_SECONDS, in ticks of the clock
    Slow,       \* ticks from a read of the row to the write of the key, at most
    None        \* no key

ASSUME TTLAssumption == TTL \in Nat \ {0} /\ Slow \in Nat

Status == {"active", "inactive"}

ASSUME NoKeyAssumption == None \notin [value : Status, left : 1 .. TTL]

VARIABLES
    status,     \* tenants.is_active
    since,      \* since[s]: ticks since the tenant last had status s
    cache,      \* the key tenant:<id>:active
    request     \* request[r]: what r has found out so far

activationVars == <<status, since, cache, request>>

\* since counts up to the age that no answer may have.
Old == TTL + Slow

Pcs == {"idle", "get", "load", "store", "answered"}

ActivationTypeOK ==
    /\ status \in Status
    /\ since \in [Status -> 0 .. Old]
    /\ cache \in [value : Status, left : 1 .. TTL] \cup {None}
    /\ request \in [Request -> [pc : Pcs, value : Status, age : 0 .. Slow]]

At(r, pc) == request[r].pc = pc

\* age: how long ago the value was read.
Become(r, pc, value) ==
    request' = [request EXCEPT ![r] = [pc |-> pc, value |-> value, age |-> 0]]

ActivationInit ==
    /\ status \in Status
    /\ since = [s \in Status |-> IF s = status THEN 0 ELSE Old]
    /\ cache = None
    /\ request = [r \in Request |-> [pc |-> "idle", value |-> "inactive", age |-> 0]]

\* The guard of r is called.
Ask(r) ==
    /\ At(r, "idle")
    /\ Become(r, "get", "inactive")
    /\ UNCHANGED <<status, since, cache>>

\* Broken form of Kept: a hit renews the time to live.
Kept_Renewed(c) == [c EXCEPT !.left = TTL]

\* What a hit leaves of the key.
Kept(c) == c

Get(r) ==
    /\ At(r, "get")
    /\ \/ /\ cache # None
          /\ cache' = Kept(cache)
          /\ Become(r, "answered", cache.value)
       \/ /\ cache = None
          /\ Become(r, "load", "inactive")
          /\ UNCHANGED cache
    /\ UNCHANGED <<status, since>>

Load(r) ==
    /\ At(r, "load")
    /\ Become(r, "store", status)
    /\ UNCHANGED <<status, since, cache>>

Store(r) ==
    /\ At(r, "store")
    /\ cache' = [value |-> request[r].value, left |-> TTL]
    /\ Become(r, "answered", request[r].value)
    /\ UNCHANGED <<status, since>>

\* Redis or the database fails, and the request with it.
Fail(r) ==
    /\ request[r].pc \in {"get", "load", "store"}
    /\ Become(r, "idle", "inactive")
    /\ UNCHANGED <<status, since, cache>>

\* The request goes on, or is refused as "Tenant is not active".
Leave(r) ==
    /\ At(r, "answered")
    /\ Become(r, "idle", "inactive")
    /\ UNCHANGED <<status, since, cache>>

\* An operator switches the tenant on or off in the database.
SetStatus(s) ==
    /\ status' = s
    /\ since' = [since EXCEPT ![s] = 0]
    /\ UNCHANGED <<cache, request>>

\* Redis restarts without the write of the key.
ForgetAnswer ==
    /\ cache' = None
    /\ UNCHANGED <<status, since, request>>

\* One tick of the clock.
CacheAges ==
    /\ \A r \in Request : At(r, "store") => request[r].age < Slow
    /\ since' = [s \in Status |-> IF s = status THEN 0
                                  ELSE IF since[s] = Old THEN Old ELSE since[s] + 1]
    /\ cache' = IF cache = None THEN None
                ELSE IF cache.left = 1 THEN None
                ELSE [cache EXCEPT !.left = @ - 1]
    /\ request' = [r \in Request |->
                     IF At(r, "store") THEN [request[r] EXCEPT !.age = @ + 1]
                                       ELSE request[r]]
    /\ UNCHANGED status

Answer(r) == Get(r) \/ Load(r) \/ Store(r) \/ Fail(r) \/ Leave(r)

----------------------------------------------------------------------------
(* Properties *)

\* Whatever requests race, an answer was true less than TTL and one slow request
\* ago: a tenant that was switched off is let in no longer than that.
AnswerIsRecent ==
    [][\A r \in Request :
          ~At(r, "answered") /\ At(r, "answered")'
             => since[request'[r].value] < TTL + Slow]_activationVars

\* A tenant that stays switched off is refused in the end, however often its
\* requests keep the answer in use.
ShutOut ==
    <>[](status = "inactive")
        => <>[](\A r \in Request : At(r, "answered") => request[r].value = "inactive")
=============================================================================
