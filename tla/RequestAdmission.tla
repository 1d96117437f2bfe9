-------------------------- MODULE RequestAdmission --------------------------
(***************************************************************************)
(* What a request passes before its handler: the throttler, a global       *)
(* guard, and then the tenant guard.  Both keep their state in Redis and   *)
(* live on its clock.  The requests are those of one client to one tenant. *)
(***************************************************************************)
EXTENDS Throttler, TenantActivation

admissionVars == <<throttlerVars, activationVars>>

AdmissionInit == ThrottlerInit /\ ActivationInit

\* A request arrives: a refused one never reaches the tenant guard.
Arrive(r) ==
    \/ Accept /\ Ask(r)
    \/ At(r, "idle") /\ Refuse /\ UNCHANGED activationVars

\* A tick of the clock of Redis.
ClockTick == KeysAge /\ CacheAges

\* Redis restarts: its log may lack the last writes of both.
Restart ==
    /\ ForgetHits
    /\ ForgetAnswer \/ UNCHANGED activationVars

AdmissionNext ==
    \/ \E r \in Request :
         \/ Arrive(r)
         \/ Answer(r) /\ UNCHANGED throttlerVars
    \/ \E s \in Status : SetStatus(s) /\ UNCHANGED throttlerVars
    \/ Restart
    \/ ClockTick

\* Time passes, and a request that has arrived gets its answer or an error;
\* nobody has to send requests.
AdmissionFairness ==
    /\ WF_admissionVars(ClockTick)
    /\ \A r \in Request : WF_admissionVars(Answer(r) /\ UNCHANGED throttlerVars)

AdmissionSpec == AdmissionInit /\ [][AdmissionNext]_admissionVars /\ AdmissionFairness

AdmissionTypeOK == ThrottlerTypeOK /\ ActivationTypeOK
=============================================================================
