----------------------------- MODULE MCTenancy ------------------------------
(* A small instance of Tenancy for TLC. *)
EXTENDS Tenancy, TLC

CONSTANTS old, t1, t2, taken   \* tenants and a slug

\* One tenant without account holds one of the two slugs: of two accounts
\* being provisioned one at most succeeds.
Managed == {t1, t2}
AllTenants == {old} \cup Managed
Unmanaged == {old}
TakenSlug == [t \in Unmanaged |-> taken]
TrialOrSuspended == [status : {"TRIAL", "SUSPENDED"}, booking : {TRUE}]

Interchangeable == Permutations(Jobs) \cup Permutations(Managed)
=============================================================================
