---- MODULE TenantPlan ----
(***************************************************************************)
(* The policy of the deployment: the plan catalog of                       *)
(* billing/domain/tenant_plan.py, the endpoint costs of                    *)
(* billing/application/rate_limiter.py and the time to live of a bucket.   *)
(* The theorems about buckets, semaphores and gates hold for all           *)
(* parameters that meet their assumptions; AdmissionProofs shows that      *)
(* these do.                                                               *)
(***************************************************************************)
EXTENDS Integers

PlanNames == {"enterprise", "standard", "small", "backfill", "default"}

TierLimits(rps, burst, cap) ==
    [requests_per_second |-> rps, burst |-> burst, max_concurrency |-> cap]

PLANS == [p \in PlanNames |->
    CASE p = "enterprise" -> TierLimits(500, 1000, 20)
      [] p = "standard"   -> TierLimits(100, 200, 10)
      [] p = "small"      -> TierLimits(20, 50, 3)
      [] p = "backfill"   -> TierLimits(50, 100, 5)
      [] p = "default"    -> TierLimits(100, 200, 5)]

NamedTenants == {"globex", "initech", "acme-corp", "piedmont"}

TENANT_PLANS == [t \in NamedTenants |->
    CASE t = "globex"    -> "enterprise"
      [] t = "initech"   -> "standard"
      [] t = "acme-corp" -> "backfill"
      [] t = "piedmont"  -> "small"]

\* Any other string is a tenant on the default plan.
plan_for(tenant_id) ==
    PLANS[IF tenant_id \in NamedTenants THEN TENANT_PLANS[tenant_id] ELSE "default"]

cost_of(endpoint) ==
    CASE endpoint = "/api/v1/billing/calculate" -> 10
      [] endpoint = "/api/v1/invoices/generate" -> 15
      [] OTHER -> 1

BUCKET_TTL_SECONDS == 3600
====
