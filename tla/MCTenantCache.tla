---------------------------- MODULE MCTenantCache ----------------------------
(***************************************************************************)
(* TenantCache for TLC.  No definition tells tenants, workers or variants  *)
(* apart.                                                                  *)
(***************************************************************************)
EXTENDS TenantCache, TLC

Symmetry == Permutations(Tenant) \cup Permutations(Worker) \cup Permutations(Variant)

\* Of a worker, what the rest of its steps will look at.
Rest(this) ==
    <<this.step, this.page, this.force,
      IF this.page = NoPage THEN {} ELSE {this.loaded},
      CASE this.step = "idle" -> <<>>
        [] this.step = "store" -> <<this.tenant, this.variant, this.asked, this.data>>
        [] OTHER -> <<this.tenant, this.variant, this.asked>>>>

\* Who will still look at when the entry of t last said v.
Held(t, v) ==
    \/ _cache[t].variant = v
    \/ \E w \in Worker :
          LET this == work[w]
          IN  \/ this.step # "idle" /\ this.tenant = t /\ this.variant = v
              \/ t \in DOMAIN this.page /\ this.page[t] = v

Said(t) == {<<v, until[t][v]>> : v \in {u \in Variant : u # file[t] /\ Held(t, u)}}

Reading == <<now, file, [t \in Tenant |-> Said(t)], _cache, [w \in Worker |-> Rest(work[w])]>>
===============================================================================
