------------------------------ MODULE Registry ------------------------------
(***************************************************************************)
(* The modules of the program put together: createRegistry in              *)
(* packages/kernel/src/module-registry.ts, the PermissionRegistry and can  *)
(* in rbac.ts.  A module is a record [id, permissions, jobs, tables, nav]  *)
(* of sequences of names; an entry of nav is [order, label, permission],   *)
(* permission 0 if it needs none.                                          *)
(***************************************************************************)
EXTENDS Integers, FiniteSets, SequencesExt

NoModules == [refused |-> FALSE, id |-> {}, permissions |-> {}, jobs |-> {}, tables |-> {}]

\* A name that is registered already is refused.
Claim(registry, kind, names) ==
  FoldLeft(LAMBDA r, name :
             IF r.refused \/ name \in r[kind] THEN [r EXCEPT !.refused = TRUE]
             ELSE [r EXCEPT ![kind] = @ \cup {name}],
           registry, names)

RegisterModule(registry, m) ==
  Claim(Claim(Claim(registry, "id", <<m.id>>), "permissions", m.permissions), "jobs", m.jobs)

\* mergeSchemas comes last.
CreateRegistry(modules) ==
  FoldLeft(LAMBDA r, m : Claim(r, "tables", m.tables),
           FoldLeft(RegisterModule, NoModules, modules), modules)

\* can, for a resource of the tenant; 0 is no tenant.
Can(context, permission, tenant) ==
  (tenant = 0 \/ tenant = context.tenant) /\ permission \in context.permissions

\* navigation: by module, order and label, each entry behind those before it.
NavBefore(a, b) ==
  a.module < b.module
  \/ (a.module = b.module /\ (a.order < b.order \/ (a.order = b.order /\ a.label < b.label)))
Sorted(entries) ==
  LET before(e) == {f \in entries : NavBefore(f, e)}
  IN [i \in 1..Cardinality(entries) |-> CHOOSE e \in entries : Cardinality(before(e)) = i - 1]
Navigation(modules, permissions) ==
  LET shown(m) == {e \in ToSet(m.nav) : e.permission = 0 \/ e.permission \in permissions}
  IN Sorted(UNION {{[module |-> m.id, order |-> e.order, label |-> e.label] : e \in shown(m)} :
                   m \in ToSet(modules)})

-----------------------------------------------------------------------------
(* Properties, of one list of modules.                                     *)

OfName(modules, kind) == FlattenSeq([i \in DOMAIN modules |-> modules[i][kind]])
NoDuplicates(names) == Cardinality(ToSet(names)) = Len(names)

\* The modules are accepted exactly if no two of them, nor one twice, claim
\* the same id, permission, job or table; then all of it is registered, and in
\* another order of the modules it is the same.
RegistryIsUnambiguous(modules, registry) ==
  /\ ~registry.refused <=>
       /\ NoDuplicates([i \in DOMAIN modules |-> modules[i].id])
       /\ \A kind \in {"permissions", "jobs", "tables"} : NoDuplicates(OfName(modules, kind))
  /\ ~registry.refused =>
       /\ \A kind \in {"permissions", "jobs", "tables"} : registry[kind] = ToSet(OfName(modules, kind))
       /\ CreateRegistry(Reverse(modules)) = registry

\* A person sees the entries whose permission they hold, those of a module
\* together, and no more of them than somebody with more permissions.
NavigationIsFair(modules, permissions, more, nav) ==
  /\ ToSet(nav) \subseteq ToSet(Navigation(modules, permissions \cup more))
  /\ \A i, k \in DOMAIN nav : nav[i].module = nav[k].module =>
       \A j \in i..k : nav[j].module = nav[i].module
  /\ \A m \in ToSet(modules) : \A e \in ToSet(m.nav) :
       e.permission # 0 =>
         (Can([tenant |-> 1, permissions |-> permissions], e.permission, 0) <=>
           \E f \in ToSet(m.nav), i \in DOMAIN nav :
             nav[i] = [module |-> m.id, order |-> f.order, label |-> f.label] /\ f = e)
=============================================================================
