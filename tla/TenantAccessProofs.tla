------------------------- MODULE TenantAccessProofs -------------------------
(***************************************************************************)
(* Proofs about TenantAccess, for any number of callers, admins, tenants   *)
(* and keys: the columns of a tenant follow the audit log (LogInv),        *)
(* admission is earned and runs in its context (EntryInv), a refusal was   *)
(* true at some point of the call (RefusalInv), and the keys that work are *)
(* those the log says were created and not taken away (KeyInv).            *)
(***************************************************************************)
EXTENDS TenantAccess, TLAPS

\* Most leaves are first-order reasoning about sets and functions and go to
\* Zenon; those with numbers, or many functions at once, cite SMT.
USE ZenonT(30)

CallerStages ==
    {"lookup", "tenant", "admitting", "admitted", "refusing", "refused", "served", "error"}
Stages == CallerStages \cup {"new", "in", "patch", "issue", "revoke", "done", "gone"}

Shape ==
    /\ tenant \in [Tenants -> Rows \cup {Absent}]
    /\ pc \in [Requests -> Stages]
    /\ DOMAIN work = Admins
    /\ after \in [Admins -> SUBSET Admins]

\* An update that is under way loaded a row of an existing tenant.
Loaded(a) ==
    /\ work[a].tenant \in Tenants
    /\ work[a].row \in Rows
    /\ tenant[work[a].tenant] # Absent

\* A column that is not as it was loaded was updated by a request that had
\* not committed when this one began.
Explained(a) ==
    \A f \in Columns :
        work[a].row[f] # tenant[work[a].tenant][f]
            => \E e \in Updates(work[a].tenant, f) : e.by \notin after[a]

AuditOK(e) ==
    /\ e.by \in Requests
    /\ pc[e.by] \in {"refused", "done"}
    /\ e.event = "admin.tenant_updated" =>
          /\ e.by \in Admins
          /\ e.tenant \in Tenants
          /\ tenant[e.tenant] # Absent
          /\ e.changes \in Payloads

Column(t, f) ==
    LET rows == Updates(t, f)
    IN  tenant[t] # Absent /\ (\A x, y \in rows : ~Overlap(x.by, y.by)) =>
            /\ \A x \in rows :
                  (\A y \in rows : x = y \/ y.by \in after[x.by])
                      => tenant[t][f] = x.changes[f]
            /\ rows = {} /\ f = "is_active" => tenant[t][f]

Authors == {e.by : e \in audit}

LogInv ==
    /\ Shape
    /\ \A e \in audit : AuditOK(e)
    /\ \A a \in Admins : after[a] \subseteq Authors
    /\ \A a \in Admins : pc[a] = "patch" => Loaded(a) /\ Explained(a)
    /\ \A t \in Tenants, f \in Columns : Column(t, f)

\* The steps of the callers, and of admins that only read: none of them
\* touches a tenant, what an update has loaded, or the rows of updates.
Quiet ==
    /\ tenant' = tenant
    /\ \A a \in Admins : pc'[a] = "patch" => pc[a] = "patch" /\ work'[a] = work[a]
    /\ DOMAIN work' = Admins
    /\ after' \in [Admins -> SUBSET Admins]
    /\ pc' \in [Requests -> Stages]
    /\ audit \subseteq audit'
    /\ \A e \in audit' \ audit :
          e.by \in Requests /\ pc'[e.by] \in {"refused", "done"} /\ e.event # "admin.tenant_updated"
    /\ \A e \in audit : pc'[e.by] = pc[e.by]
    /\ \A a \in Admins : after'[a] = after[a]
                           \/ (pc[a] = "new" /\ after'[a] \subseteq Authors)

\* A step that is quiet in this sense keeps the invariant.  Requests that
\* begin have no audit row yet, so nothing of what is compared changes.
LEMMA QuietKeepsInv ==
    ASSUME LogInv, Quiet
    PROVE  LogInv'
<1>1. \A t \in Tenants, f \in Columns : Updates(t, f)' = Updates(t, f)
  BY DEF LogInv, Quiet, Updates
<1>2. \A t \in Tenants, f \in Columns : \A e \in Updates(t, f) :
          e \in audit /\ e.by \in Admins /\ after'[e.by] = after[e.by]
  BY DEF LogInv, Quiet, Updates, AuditOK
<1>3. Shape'
  BY DEF LogInv, Quiet, Shape
<1>4. \A e \in audit' : AuditOK(e)'
  BY DEF LogInv, Quiet, AuditOK
<1>5. \A a \in Admins : after'[a] \subseteq Authors'
  <2>1. Authors \subseteq Authors'
    BY DEF Authors, Quiet
  <2>2. QED
    BY <2>1 DEF LogInv, Quiet
<1>6. ASSUME NEW a \in Admins, pc'[a] = "patch" PROVE Loaded(a)' /\ Explained(a)'
  <2>1. pc[a] = "patch" /\ work'[a] = work[a] /\ after'[a] = after[a] /\ tenant' = tenant
    BY <1>6 DEF Quiet
  <2>2. Loaded(a) /\ Explained(a)
    BY <2>1 DEF LogInv
  <2>3. QED
    BY <1>1, <2>1, <2>2 DEF Loaded, Explained
<1>7. ASSUME NEW t \in Tenants, NEW f \in Columns PROVE Column(t, f)'
  <2>1. Column(t, f) /\ tenant' = tenant
    BY DEF LogInv, Quiet
  <2>2. \A x, y \in Updates(t, f) : Overlap(x.by, y.by)' <=> Overlap(x.by, y.by)
    BY <1>2 DEF Overlap
  <2>3. QED
    BY <1>1, <1>2, <2>1, <2>2 DEF Column
<1>8. QED
  BY <1>3, <1>4, <1>5, <1>6, <1>7 DEF LogInv

\* What a caller does is quiet.
LEMMA CallerIsQuiet ==
    ASSUME LogInv, NEW c \in Callers,
           Arrive(c) \/ Lookup(c) \/ ReadTenant(c) \/ Refuse(c) \/ Admit(c) \/ RecordUsage(c)
    PROVE  Quiet
<1>1. c \in Requests /\ c \notin Admins /\ pc \in [Requests -> Stages]
  BY AccessAssumption DEF AccessAssumption, Requests, LogInv, Shape
<1>2. pc[c] \notin {"refused", "done"}
  BY DEF Arrive, Lookup, LookupIn, ReadTenant, Refuse, Admit, RecordUsage, RecordUsageIn
<1>3. /\ tenant' = tenant /\ work' = work /\ after' = after
      /\ \E stage \in CallerStages : pc' = [pc EXCEPT ![c] = stage]
  <2>1. CASE Arrive(c)
    BY <2>1 DEF Arrive, Goto, dbVars, adminVars, CallerStages
  <2>2. CASE Lookup(c)
    BY <2>2 DEF Lookup, LookupIn, Goto, dbVars, adminVars, CallerStages
  <2>3. CASE ReadTenant(c)
    BY <2>3 DEF ReadTenant, Goto, dbVars, adminVars, CallerStages
  <2>4. CASE Refuse(c)
    BY <2>4 DEF Refuse, Goto, adminVars, CallerStages
  <2>5. CASE Admit(c)
    BY <2>5 DEF Admit, Goto, dbVars, adminVars, CallerStages
  <2>6. CASE RecordUsage(c)
    BY <2>6 DEF RecordUsage, RecordUsageIn, Goto, adminVars, CallerStages
  <2>7. QED
    BY <2>1, <2>2, <2>3, <2>4, <2>5, <2>6
<1>4. \/ audit' = audit
      \/ /\ pc'[c] = "refused"
         /\ \E e : audit' = audit \cup {e} /\ e.by = c /\ e.event = "auth.failure"
  <2>1. CASE Refuse(c)
    <3>1. pc'[c] = "refused"
      BY <2>1, <1>1 DEF Refuse, Goto
    <3>2. QED
      BY <2>1, <3>1, SMT DEF Refuse, WriteAuditEvent
  <2>2. CASE ~Refuse(c)
    BY <2>2 DEF Arrive, Lookup, LookupIn, ReadTenant, Admit, RecordUsage, RecordUsageIn, dbVars
  <2>3. QED
    BY <2>1, <2>2
<1>5. QED
  BY <1>1, <1>2, <1>3, <1>4, SMT DEF Quiet, LogInv, Shape, AuditOK, Stages

\* What an admin does short of loading or changing a tenant is quiet, and so
\* is a request that ends early.
LEMMA ReaderIsQuiet ==
    ASSUME LogInv, NEW a \in Admins,
           \/ Login(a) \/ GetCurrentAdmin(a) \/ ReadRows(a) \/ LoadTenant(a, "issue")
           \/ CreateApiKey(a) \/ LoadKey(a) \/ RevokeApiKey(a)
    PROVE  Quiet
<1>1. a \in Requests /\ pc \in [Requests -> Stages] /\ DOMAIN work = Admins
  BY DEF Requests, LogInv, Shape
<1>2. pc[a] \in {"new", "in", "issue", "revoke"}
  BY DEF Login, GetCurrentAdmin, ReadRows, LoadTenant, CreateApiKey, LoadKey, RevokeApiKey
<1>3. /\ tenant' = tenant
      /\ \E stage \in {"in", "issue", "revoke", "done"} : pc' = [pc EXCEPT ![a] = stage]
  BY DEF Login, GetCurrentAdmin, ReadRows, LoadTenant, CreateApiKey, LoadKey, RevokeApiKey,
         Goto, dbVars
<1>4. DOMAIN work' = Admins /\ \A b \in Admins : b # a => work'[b] = work[b]
  BY <1>1 DEF Login, GetCurrentAdmin, ReadRows, LoadTenant, CreateApiKey, LoadKey, RevokeApiKey,
         adminVars
<1>5. \/ audit' = audit
      \/ /\ pc'[a] = "done"
         /\ \E e : audit' = audit \cup {e} /\ e.by = a /\ e.event # "admin.tenant_updated"
  <2>1. CASE Login(a)
    <3>1. pc'[a] = "done"
      BY <2>1, <1>1 DEF Login, Goto
    <3>2. QED
      BY <2>1, <3>1, SMT DEF Login, WriteAuditEvent
  <2>2. CASE CreateApiKey(a)
    BY <2>2, <1>1, SMT DEF CreateApiKey, WriteAuditEvent, Goto
  <2>3. CASE RevokeApiKey(a)
    BY <2>3, <1>1, SMT DEF RevokeApiKey, WriteAuditEvent, Goto
  <2>4. CASE GetCurrentAdmin(a) \/ ReadRows(a) \/ LoadTenant(a, "issue") \/ LoadKey(a)
    BY <2>4 DEF GetCurrentAdmin, ReadRows, LoadTenant, LoadKey, dbVars
  <2>5. QED
    BY <2>1, <2>2, <2>3, <2>4
<1>6. /\ after' \in [Admins -> SUBSET Admins]
      /\ \A b \in Admins : after'[b] = after[b]
                              \/ (pc[b] = "new" /\ after'[b] \subseteq Authors)
  <2>1. after \in [Admins -> SUBSET Admins]
    BY DEF LogInv, Shape
  <2>2. CASE GetCurrentAdmin(a)
    <3>1. \/ after' = after
          \/ pc[a] = "new" /\ after' = [after EXCEPT ![a] = Authors \cap Admins]
      BY <2>2 DEF GetCurrentAdmin, Authors
    <3>2. QED
      BY <2>1, <3>1
  <2>3. CASE ~GetCurrentAdmin(a)
    <3>1. after' = after
      BY <2>3 DEF Login, ReadRows, LoadTenant, CreateApiKey, LoadKey, RevokeApiKey, adminVars
    <3>2. QED
      BY <2>1, <3>1
  <2>4. QED
    BY <2>2, <2>3
<1>7. \A e \in audit : e.by # a
  BY <1>2 DEF LogInv, AuditOK
<1>8. QED
  BY <1>1, <1>2, <1>3, <1>4, <1>5, <1>6, <1>7, SMT DEF Quiet, Stages

\* A rollback is quiet.
LEMMA AbortIsQuiet ==
    ASSUME LogInv, NEW x \in Requests, Abort(x)
    PROVE  Quiet
<1>1. /\ pc[x] \notin {"refused", "done"}
      /\ pc' = [pc EXCEPT ![x] = "gone"]
      /\ tenant' = tenant /\ audit' = audit /\ work' = work /\ after' = after
  BY DEF Abort, Goto, Ended, dbVars, adminVars
<1>2. QED
  BY <1>1, SMT DEF Quiet, LogInv, Shape, AuditOK, Stages

\* create_tenant keeps the invariant: no row can name a tenant that does not
\* exist yet, and a new tenant is active.
LEMMA CreateKeepsInv ==
    ASSUME LogInv, NEW a \in Admins, CreateTenant(a)
    PROVE  LogInv'
<1>1. PICK t \in Tenants, new \in Rows, e \in audit' :
          /\ tenant[t] = Absent
          /\ new["is_active"]
          /\ tenant' = [tenant EXCEPT ![t] = new]
          /\ audit' = audit \cup {e}
          /\ e.by = a /\ e.event = "admin.tenant_created"
  <2>1. \A cached \in BOOLEAN :
            /\ [Defaults EXCEPT !["cache_enabled"] = cached] \in Rows
            /\ [Defaults EXCEPT !["cache_enabled"] = cached]["is_active"]
    BY DEF Defaults, Rows, Columns
  <2>2. PICK t \in Tenants, cached \in BOOLEAN :
            /\ tenant[t] = Absent
            /\ tenant' = [tenant EXCEPT ![t] = [Defaults EXCEPT !["cache_enabled"] = cached]]
            /\ WriteAuditEvent(a, "admin.tenant_created", t, Absent, NoChange)
    BY DEF CreateTenant
  <2> DEFINE e == [by |-> a, event |-> "admin.tenant_created", tenant |-> t,
                   subject |-> Absent, changes |-> NoChange]
  <2>3. /\ audit' = audit \cup {e}
        /\ e.by = a /\ e.event = "admin.tenant_created"
    BY <2>2 DEF WriteAuditEvent
  <2> HIDE DEF e
  <2>4. QED
    BY <2>1, <2>2, <2>3
<1>2. pc[a] = "in" /\ pc' = [pc EXCEPT ![a] = "done"] /\ work' = work /\ after' = after
  BY DEF CreateTenant, Goto, adminVars
<1>3. new # Absent /\ "is_active" \in Columns
  BY AccessAssumption DEF AccessAssumption, Columns
<1>4. Shape /\ Shape'
  BY <1>1, <1>2 DEF LogInv, Shape, Stages
<1>5. a \in Requests /\ tenant'[t] = new /\ \A u \in Tenants : u # t => tenant'[u] = tenant[u]
  BY <1>1, <1>4 DEF Shape, Requests
<1>6. \A f \in Columns, u \in Tenants : Updates(u, f)' = Updates(u, f)
  BY <1>1 DEF Updates
<1>7. \A f \in Columns : Updates(t, f) = {}
  BY <1>1 DEF Updates, LogInv, AuditOK
<1>8. \A x \in audit' : AuditOK(x)'
  BY <1>1, <1>2, <1>3, <1>4, <1>5 DEF LogInv, AuditOK, Shape
<1>9. \A b \in Admins : after'[b] \subseteq Authors'
  <2>1. Authors \subseteq Authors'
    BY <1>1 DEF Authors
  <2>2. QED
    BY <1>2, <2>1 DEF LogInv
<1>10. ASSUME NEW b \in Admins, pc'[b] = "patch" PROVE Loaded(b)' /\ Explained(b)'
  <2>1. pc[b] = "patch" /\ work'[b] = work[b] /\ after'[b] = after[b]
    BY <1>2, <1>4, <1>10 DEF Shape, Requests
  <2>2. Loaded(b) /\ Explained(b)
    BY <2>1 DEF LogInv
  <2>3. work[b].tenant # t
    BY <1>1, <2>2 DEF Loaded
  <2>4. QED
    BY <1>5, <1>6, <2>1, <2>2, <2>3 DEF Loaded, Explained
<1>11. ASSUME NEW u \in Tenants, NEW f \in Columns PROVE Column(u, f)'
  <2>1. CASE u = t
    BY <1>1, <1>5, <1>6, <1>7, <2>1 DEF Column
  <2>2. CASE u # t
    <3>1. Column(u, f) /\ tenant'[u] = tenant[u]
      BY <1>5, <2>2 DEF LogInv
    <3>2. \A x, y : Overlap(x, y)' <=> Overlap(x, y)
      BY <1>2 DEF Overlap
    <3>3. QED
      BY <1>2, <1>6, <3>1, <3>2 DEF Column
  <2>3. QED
    BY <2>1, <2>2
<1>12. QED
  BY <1>4, <1>8, <1>9, <1>10, <1>11 DEF LogInv

\* The load of update_tenant keeps the invariant: the row is as loaded.
LEMMA LoadKeepsInv ==
    ASSUME LogInv, NEW a \in Admins, LoadTenant(a, "patch")
    PROVE  LogInv'
<1>1. PICK t \in Tenants :
          \/ pc' = [pc EXCEPT ![a] = "done"] /\ work' = work
          \/ /\ tenant[t] # Absent
             /\ pc' = [pc EXCEPT ![a] = "patch"]
             /\ work' = [work EXCEPT ![a] = [tenant |-> t, key |-> Absent, row |-> tenant[t]]]
  BY DEF LoadTenant, Goto
<1>2. pc[a] = "in" /\ tenant' = tenant /\ audit' = audit /\ after' = after
  BY DEF LoadTenant, dbVars
<1>3. Shape /\ Shape'
  BY <1>1, <1>2 DEF LogInv, Shape, Stages
<1>4. \A x \in audit' : AuditOK(x)'
  BY <1>1, <1>2, <1>3 DEF LogInv, AuditOK, Shape, Requests
<1>5. \A b \in Admins : after'[b] \subseteq Authors'
  BY <1>2 DEF LogInv, Authors
<1>6. \A f \in Columns : \A u : Updates(u, f)' = Updates(u, f)
  BY <1>2 DEF Updates
<1>7. ASSUME NEW b \in Admins, pc'[b] = "patch" PROVE Loaded(b)' /\ Explained(b)'
  <2>1. CASE b # a
    <3>1. pc[b] = "patch" /\ work'[b] = work[b]
      BY <1>1, <1>3, <1>7, <2>1 DEF Shape, Requests
    <3>2. Loaded(b) /\ Explained(b)
      BY <3>1 DEF LogInv
    <3>3. QED
      BY <1>2, <1>6, <3>1, <3>2 DEF Loaded, Explained
  <2>2. CASE b = a
    <3>1. pc'[a] = "patch" /\ a \in Requests /\ pc \in [Requests -> Stages]
      BY <1>3, <1>7, <2>2 DEF Shape, Requests
    <3>2. tenant[t] # Absent /\ work'[a] = [tenant |-> t, key |-> Absent, row |-> tenant[t]]
      BY <1>1, <1>3, <3>1 DEF Shape
    <3>3. tenant[t] \in Rows
      BY <1>3, <3>2 DEF Shape
    <3>4. QED
      BY <1>2, <2>2, <3>2, <3>3, SMT DEF Loaded, Explained
  <2>3. QED
    BY <2>1, <2>2
<1>8. ASSUME NEW u \in Tenants, NEW f \in Columns PROVE Column(u, f)'
  <2>1. Column(u, f)
    BY DEF LogInv
  <2>2. \A x, y : Overlap(x, y)' <=> Overlap(x, y)
    BY <1>2 DEF Overlap
  <2>3. QED
    BY <1>2, <1>6, <2>1, <2>2 DEF Column
<1>9. QED
  BY <1>3, <1>4, <1>5, <1>7, <1>8 DEF LogInv

\* The commit of update_tenant keeps the invariant.  When the row is not as it
\* was loaded in a column of the body, the update behind that overlapped this
\* one, and the column is no longer claimed anything of.
LEMMA UpdateKeepsInv ==
    ASSUME LogInv, NEW a \in Admins, UpdateTenant(a)
    PROVE  LogInv'
<1> DEFINE t == work[a].tenant
           old == work[a].row
<1>1. PICK changes \in Payloads, e \in audit' :
          /\ tenant' = [tenant EXCEPT ![t] = Updated(tenant[t], old, changes)]
          /\ audit' = audit \cup {e}
          /\ e.by = a /\ e.event = "admin.tenant_updated" /\ e.tenant = t /\ e.changes = changes
  <2>1. PICK changes \in Payloads :
            /\ tenant' = [tenant EXCEPT ![t] = Updated(tenant[t], old, changes)]
            /\ WriteAuditEvent(a, "admin.tenant_updated", t, Absent, changes)
    BY DEF UpdateTenant
  <2> DEFINE e == [by |-> a, event |-> "admin.tenant_updated", tenant |-> t,
                   subject |-> Absent, changes |-> changes]
  <2>2. /\ audit' = audit \cup {e}
        /\ e.by = a /\ e.event = "admin.tenant_updated" /\ e.tenant = t /\ e.changes = changes
    BY <2>1 DEF WriteAuditEvent
  <2> HIDE DEF e
  <2>3. QED
    BY <2>1, <2>2
<1>2. pc[a] = "patch" /\ pc' = [pc EXCEPT ![a] = "done"] /\ work' = work /\ after' = after
  BY DEF UpdateTenant, Goto, adminVars
<1>3. Loaded(a) /\ Explained(a) /\ Shape /\ a \in Requests
  BY <1>2 DEF LogInv, Requests
<1> DEFINE new == Updated(tenant[t], old, changes)
<1>4. /\ t \in Tenants /\ old \in Rows /\ tenant[t] \in Rows
      /\ changes \in UNION {[S -> BOOLEAN] : S \in SUBSET Columns}
  BY <1>3, AccessAssumption DEF Loaded, Shape, AccessAssumption
<1>5. /\ new \in Rows /\ new # Absent
      /\ \A f \in Columns :
            new[f] = IF f \in DOMAIN changes /\ changes[f] # old[f] THEN changes[f] ELSE tenant[t][f]
  <2>1. \A f \in DOMAIN changes : changes[f] \in BOOLEAN
    BY <1>4
  <2>2. new \in Rows
    BY <1>4, <2>1 DEF Updated, Rows
  <2>3. QED
    BY <2>2, AccessAssumption DEF AccessAssumption, Updated
<1> HIDE DEF new
<1>6. tenant'[t] = new /\ \A u \in Tenants : u # t => tenant'[u] = tenant[u]
  BY <1>1, <1>3, <1>4 DEF Shape, new
<1>7. Shape'
  BY <1>1, <1>2, <1>3, <1>4, <1>5 DEF Shape, Stages, new
<1>8. \A x \in audit : x.by # a
  BY <1>2 DEF LogInv, AuditOK
<1>9. a \notin Authors /\ \A b \in Admins : a \notin after[b]
  BY <1>8 DEF LogInv, Authors
<1>10. \A x \in audit' : AuditOK(x)'
  BY <1>1, <1>2, <1>3, <1>4, <1>5, <1>6 DEF LogInv, AuditOK, Shape
<1>11. \A b \in Admins : after'[b] \subseteq Authors'
  <2>1. Authors \subseteq Authors'
    BY <1>1 DEF Authors
  <2>2. QED
    BY <1>2, <2>1 DEF LogInv
<1>12. \A u \in Tenants, f \in Columns :
          Updates(u, f)' = IF u = t /\ f \in DOMAIN changes
                           THEN Updates(u, f) \cup {e} ELSE Updates(u, f)
  BY <1>1 DEF Updates
<1>13. ASSUME NEW b \in Admins, pc'[b] = "patch" PROVE Loaded(b)' /\ Explained(b)'
  <2>1. pc[b] = "patch" /\ work'[b] = work[b] /\ after'[b] = after[b]
    BY <1>2, <1>3, <1>13 DEF Shape, Requests
  <2>2. Loaded(b) /\ Explained(b)
    BY <2>1 DEF LogInv
  <2>3. Loaded(b)'
    BY <1>5, <1>6, <2>1, <2>2 DEF Loaded
  <2>4. ASSUME NEW w \in Tenants, w = work[b].tenant,
               NEW f \in Columns, work[b].row[f] # tenant'[w][f]
        PROVE  \E x \in Updates(w, f)' : x.by \notin after[b]
    <3>1. CASE w = t /\ f \in DOMAIN changes
      BY <1>1, <1>9, <1>12, <3>1
    <3>2. CASE ~(w = t /\ f \in DOMAIN changes)
      <4>1. tenant'[w][f] = tenant[w][f] /\ Updates(w, f)' = Updates(w, f)
        BY <1>5, <1>6, <1>12, <3>2
      <4>2. QED
        BY <2>2, <2>4, <4>1 DEF Explained
    <3>3. QED
      BY <3>1, <3>2
  <2>5. QED
    BY <2>1, <2>2, <2>3, <2>4 DEF Explained, Loaded
<1>14. ASSUME NEW u \in Tenants, NEW f \in Columns PROVE Column(u, f)'
  <2>1. Column(u, f) /\ \A x, y : Overlap(x, y)' <=> Overlap(x, y)
    BY <1>2 DEF LogInv, Overlap
  <2>2. CASE ~(u = t /\ f \in DOMAIN changes)
    <3>1. Updates(u, f)' = Updates(u, f)
      BY <1>12, <2>2
    <3>2. tenant[u] # Absent => tenant'[u][f] = tenant[u][f]
      BY <1>5, <1>6, <2>2
    <3>3. tenant'[u] # Absent => tenant[u] # Absent
      BY <1>3, <1>6 DEF Loaded
    <3>4. QED
      BY <1>2, <2>1, <3>1, <3>2, <3>3 DEF Column
  <2>3. CASE u = t /\ f \in DOMAIN changes
    <3>1. Updates(u, f)' = Updates(u, f) \cup {e}
      BY <1>12, <2>3
    <3>2. CASE \E x \in Updates(u, f) : x.by \notin after[a]
      <4>1. PICK x \in Updates(u, f) : x.by \notin after[a]
        BY <3>2
      <4>2. x \in audit /\ x.by # a /\ x.by \in Admins
        BY <4>1, <1>8 DEF Updates, LogInv, AuditOK
      <4>3. Overlap(x.by, e.by)'
        BY <1>1, <1>2, <1>9, <4>1, <4>2 DEF Overlap
      <4>4. QED
        BY <3>1, <4>1, <4>3 DEF Column
    <3>3. CASE ~\E x \in Updates(u, f) : x.by \notin after[a]
      <4>1. old[f] = tenant[t][f]
        BY <1>3, <2>3, <3>3 DEF Explained
      <4>2. tenant'[u][f] = changes[f]
        BY <1>5, <1>6, <2>3, <4>1
      <4>3. \A x \in Updates(u, f) : x # e /\ e.by \notin after[x.by]
        BY <1>1, <1>8, <1>9 DEF Updates, LogInv, AuditOK
      <4>4. QED
        BY <1>1, <1>2, <3>1, <4>2, <4>3 DEF Column
    <3>4. QED
      BY <3>2, <3>3
  <2>4. QED
    BY <2>2, <2>3
<1>15. QED
  BY <1>7, <1>10, <1>11, <1>13, <1>14 DEF LogInv

\* LogInv is inductive.
THEOREM LogInvariance == Spec => []LogInv
<1>1. Init => LogInv
  <2> SUFFICES ASSUME Init PROVE LogInv
    OBVIOUS
  <2>1. Shape
    BY AccessAssumption DEF Init, Shape, Stages, Defaults, Rows, AccessAssumption
  <2>2. \A t \in Tenants, f \in Columns : Column(t, f)
    BY DEF Init, Column, Updates, Defaults, Columns
  <2>3. QED
    BY <2>1, <2>2 DEF Init, LogInv, Requests
<1>2. LogInv /\ [Next]_vars => LogInv'
  <2> SUFFICES ASSUME LogInv, [Next]_vars PROVE LogInv'
    OBVIOUS
  <2>1. CASE \E c \in Callers : Arrive(c) \/ Lookup(c) \/ ReadTenant(c) \/ Refuse(c)
                                \/ Admit(c) \/ RecordUsage(c)
    BY <2>1, CallerIsQuiet, QuietKeepsInv
  <2>2. CASE \E a \in Admins :
                \/ Login(a) \/ GetCurrentAdmin(a) \/ ReadRows(a) \/ LoadTenant(a, "issue")
                \/ CreateApiKey(a) \/ LoadKey(a) \/ RevokeApiKey(a)
    BY <2>2, ReaderIsQuiet, QuietKeepsInv
  <2>3. CASE \E a \in Admins : CreateTenant(a)
    BY <2>3, CreateKeepsInv
  <2>4. CASE \E a \in Admins : LoadTenant(a, "patch")
    BY <2>4, LoadKeepsInv
  <2>5. CASE \E a \in Admins : UpdateTenant(a)
    BY <2>5, UpdateKeepsInv
  <2>6. CASE \E x \in Requests : Abort(x)
    BY <2>6, AbortIsQuiet, QuietKeepsInv
  <2>7. CASE UNCHANGED vars
    <3>1. Quiet
      BY <2>7 DEF Quiet, vars, dbVars, adminVars, LogInv, Shape
    <3>2. QED
      BY <3>1, QuietKeepsInv
  <2>8. QED
    BY <2>1, <2>2, <2>3, <2>4, <2>5, <2>6, <2>7 DEF Next, AllEnded
<1>3. QED
  BY <1>1, <1>2, PTL DEF Spec

\* The columns of a tenant follow the audit log, for any number of admins, of
\* tenants and of updates: update_tenant writes the columns it was asked for
\* and no others, and an update of one column cannot undo that of another.
THEOREM ColumnsFollowTheLog == Spec => []FieldFollowsAudit
<1>1. LogInv => FieldFollowsAudit
  BY DEF LogInv, Column, FieldFollowsAudit
<1>2. QED
  BY <1>1, LogInvariance, PTL

-----------------------------------------------------------------------------
(* Authentication *)

\* What is known of a caller at each stage of its check.
CallerOK(c) ==
    LET k == presented[c].key
    IN  /\ pc[c] \in {"lookup", "tenant", "admitting"} =>
              k \in Keys /\ Behind(k, key, tenant) \in witnessed[c]
        /\ pc[c] = "tenant" =>
              key[k] # Absent /\ seenKey[c] \in KeyRows /\ seenKey[c].owner = key[k].owner
        /\ pc[c] \in {"tenant", "admitting", "admitted", "served"} =>
              /\ presented[c].good
              /\ \E s \in witnessed[c] : s.key # Absent /\ ~s.key.revoked
        /\ pc[c] \in {"admitting", "admitted", "served"} =>
              ctx[c]["is_active"] /\ \E s \in witnessed[c] : s.tenant = ctx[c]
        /\ pc[c] = "admitting" => scope[c] = seenKey[c].owner
        /\ pc[c] # "error"

EntryShape ==
    /\ key \in [Keys -> KeyRows \cup {Absent}]
    /\ DOMAIN pc = Requests /\ DOMAIN scope = Requests /\ DOMAIN work = Admins
    /\ DOMAIN presented = Callers /\ DOMAIN reason = Callers /\ DOMAIN seenKey = Callers
    /\ DOMAIN ctx = Callers /\ DOMAIN witnessed = Callers

\* An admin works on a tenant and a key that exist.
WorkOK(a) ==
    /\ pc[a] = "issue" => work[a].tenant \in Tenants
    /\ pc[a] = "revoke" => work[a].key \in Keys /\ key[work[a].key] # Absent

EntryInv ==
    /\ EntryShape
    /\ \A a \in Admins : WorkOK(a)
    /\ \A c \in Callers : CallerOK(c)

\* A key keeps its owner.
OwnersStay ==
    \A k \in Keys : key[k] # Absent => key'[k] # Absent /\ key'[k].owner = key[k].owner

\* What admins commit is added to what a caller has witnessed, so that a caller
\* which takes no step itself stays as well founded as it was.
LEMMA OthersKeepCaller ==
    ASSUME EntryInv, NEW c \in Callers, OwnersStay,
           pc'[c] = pc[c], scope'[c] = scope[c], presented' = presented,
           seenKey'[c] = seenKey[c], ctx'[c] = ctx[c],
           Witness \/ (key' = key /\ tenant' = tenant /\ witnessed'[c] = witnessed[c])
    PROVE  CallerOK(c)'
<1>1. CallerOK(c) /\ presented'[c] = presented[c]
  BY DEF EntryInv
<1>2. /\ witnessed[c] \subseteq witnessed'[c]
      /\ pc[c] \in {"lookup", "tenant", "admitting"} =>
            Behind(presented[c].key, key', tenant') \in witnessed'[c]
  <2>1. CASE Witness
    BY <2>1 DEF Witness
  <2>2. CASE key' = key /\ tenant' = tenant /\ witnessed'[c] = witnessed[c]
    BY <1>1, <2>2 DEF CallerOK
  <2>3. QED
    BY <2>1, <2>2
<1>3. QED
  BY <1>1, <1>2 DEF CallerOK, OwnersStay

\* Each stage of get_current_tenant, and record_usage, leaves its caller well
\* founded: the row of the key and that of the tenant are among the witnessed
\* ones when they are read, and the settings of the session are in place when
\* the row of the caller is written.
LEMMA CallerKeepsOwn ==
    ASSUME EntryInv, NEW c \in Callers,
           Arrive(c) \/ Lookup(c) \/ ReadTenant(c) \/ Refuse(c) \/ Admit(c) \/ RecordUsage(c)
    PROVE  CallerOK(c)'
<1>1. EntryShape /\ CallerOK(c) /\ c \in Requests
  BY DEF EntryInv, Requests
<1>2. CASE Arrive(c)
  <2>1. PICK p \in Credentials :
            /\ presented' = [presented EXCEPT ![c] = p]
            /\ IF p.flaw # "none"
               THEN pc' = [pc EXCEPT ![c] = "refusing"]
               ELSE /\ pc' = [pc EXCEPT ![c] = "lookup"]
                    /\ witnessed' = [witnessed EXCEPT ![c] = {Behind(p.key, key, tenant)}]
    BY <1>2 DEF Arrive, Goto
  <2>2. presented'[c] = p /\ key' = key /\ tenant' = tenant
    BY <1>1, <1>2, <2>1 DEF EntryShape, Arrive, dbVars
  <2>3. CASE p.flaw # "none"
    <3>1. pc'[c] = "refusing"
      BY <1>1, <2>1, <2>3 DEF EntryShape
    <3>2. QED
      BY <3>1 DEF CallerOK
  <2>4. CASE p.flaw = "none"
    <3>1. pc'[c] = "lookup" /\ witnessed'[c] = {Behind(p.key, key, tenant)}
      BY <1>1, <2>1, <2>4 DEF EntryShape
    <3>2. p.key \in Keys
      BY <2>4 DEF Credentials
    <3>3. QED
      BY <2>2, <3>1, <3>2 DEF CallerOK
  <2>5. QED
    BY <2>3, <2>4
<1>3. CASE Lookup(c)
  <2> DEFINE k == presented[c].key
             verdict == KeyVerdict(key[k], presented[c].good)
  <2>1. pc[c] = "lookup" /\ k \in Keys /\ Behind(k, key, tenant) \in witnessed[c]
    BY <1>1, <1>3 DEF Lookup, LookupIn, CallerOK
  <2>2. (IF key[k] # Absent /\ Allowed(Bypass, key[k].owner) THEN key[k] ELSE Absent) = key[k]
    BY DEF Allowed
  <2>3. /\ seenKey' = [seenKey EXCEPT ![c] = key[k]]
        /\ pc' = [pc EXCEPT ![c] = IF verdict = "none" THEN "tenant" ELSE "refusing"]
    BY <1>3, <2>2 DEF Lookup, LookupIn, Goto
  <2>4. /\ seenKey'[c] = key[k]
        /\ pc'[c] = IF verdict = "none" THEN "tenant" ELSE "refusing"
    BY <1>1, <2>3 DEF EntryShape
  <2>5. key' = key /\ tenant' = tenant /\ presented' = presented /\ witnessed' = witnessed
    BY <1>3 DEF Lookup, LookupIn, dbVars
  <2>6. verdict = "none" => key[k] # Absent /\ ~key[k].revoked /\ presented[c].good
    BY DEF KeyVerdict
  <2>7. key[k] # Absent => key[k] \in KeyRows
    BY <1>1, <2>1 DEF EntryShape
  <2>8. Behind(k, key, tenant).key = key[k]
    BY DEF Behind
  <2> HIDE DEF verdict
  <2>9. QED
    BY <2>1, <2>4, <2>5, <2>6, <2>7, <2>8 DEF CallerOK
<1>4. CASE ReadTenant(c)
  <2> DEFINE k == presented[c].key
             row == tenant[seenKey[c].owner]
             ok == row # Absent /\ row["is_active"]
  <2>1. /\ pc[c] = "tenant" /\ k \in Keys /\ key[k] # Absent
        /\ seenKey[c].owner = key[k].owner /\ Behind(k, key, tenant) \in witnessed[c]
    BY <1>1, <1>4 DEF ReadTenant, CallerOK
  <2>2. /\ ctx'[c] = row
        /\ pc'[c] = IF ok THEN "admitting" ELSE "refusing"
        /\ scope'[c] = seenKey[c].owner
    BY <1>1, <1>4 DEF ReadTenant, Goto, EntryShape
  <2>3. /\ key' = key /\ tenant' = tenant /\ presented' = presented
        /\ witnessed' = witnessed /\ seenKey' = seenKey
    BY <1>4 DEF ReadTenant, dbVars
  <2>4. Behind(k, key, tenant).tenant = row
    BY <2>1 DEF Behind
  <2>5. QED
    BY <1>1, <2>1, <2>2, <2>3, <2>4 DEF CallerOK
<1>5. CASE Refuse(c)
  <2>1. pc'[c] = "refused"
    BY <1>1, <1>5 DEF Refuse, Goto, EntryShape
  <2>2. QED
    BY <2>1 DEF CallerOK
<1>6. CASE Admit(c)
  <2>1. pc[c] = "admitting" /\ Allowed(scope[c], seenKey[c].owner)
    BY <1>1, <1>6 DEF Admit, CallerOK, Allowed
  <2>2. pc'[c] = "admitted"
    BY <1>1, <1>6, <2>1 DEF Admit, Goto, EntryShape
  <2>3. QED
    BY <1>1, <1>6, <2>1, <2>2 DEF Admit, CallerOK, callerVars
<1>7. CASE RecordUsage(c)
  <2>1. pc[c] = "admitted" /\ pc'[c] = "served"
    BY <1>1, <1>7 DEF RecordUsage, RecordUsageIn, Goto, EntryShape, Allowed
  <2>2. QED
    BY <1>1, <1>7, <2>1 DEF RecordUsage, RecordUsageIn, CallerOK, callerVars
<1>8. QED
  BY <1>2, <1>3, <1>4, <1>5, <1>6, <1>7

\* A step of a caller leaves the other requests, and the keys, alone.
LEMMA CallerKeepsInv ==
    ASSUME EntryInv, NEW c \in Callers,
           Arrive(c) \/ Lookup(c) \/ ReadTenant(c) \/ Refuse(c) \/ Admit(c) \/ RecordUsage(c)
    PROVE  EntryInv'
<1>1. EntryShape /\ c \in Requests /\ c \notin Admins
  BY AccessAssumption DEF EntryInv, Requests, AccessAssumption
<1>2. key' = key /\ tenant' = tenant /\ work' = work
  BY DEF Arrive, Lookup, LookupIn, ReadTenant, Refuse, Admit, RecordUsage, RecordUsageIn,
         dbVars, adminVars
<1>3. /\ DOMAIN pc' = Requests /\ DOMAIN scope' = Requests
      /\ \A x \in Requests : x # c => pc'[x] = pc[x] /\ scope'[x] = scope[x]
  BY <1>1 DEF Arrive, Lookup, LookupIn, ReadTenant, Refuse, Admit, RecordUsage, RecordUsageIn,
         Goto, EntryShape
<1>4. /\ DOMAIN presented' = Callers /\ DOMAIN reason' = Callers /\ DOMAIN seenKey' = Callers
      /\ DOMAIN ctx' = Callers /\ DOMAIN witnessed' = Callers
      /\ \A d \in Callers : d # c =>
            /\ presented'[d] = presented[d] /\ seenKey'[d] = seenKey[d]
            /\ ctx'[d] = ctx[d] /\ witnessed'[d] = witnessed[d]
  BY <1>1 DEF Arrive, Lookup, LookupIn, ReadTenant, Refuse, Admit, RecordUsage, RecordUsageIn,
         callerVars, EntryShape
<1>5. EntryShape'
  BY <1>1, <1>2, <1>3, <1>4 DEF EntryShape
<1>6. \A a \in Admins : WorkOK(a)'
  BY <1>1, <1>2, <1>3 DEF EntryInv, WorkOK, Requests
<1>7. ASSUME NEW d \in Callers PROVE CallerOK(d)'
  <2>1. CASE d = c
    BY <2>1, CallerKeepsOwn
  <2>2. CASE d # c
    BY <1>2, <1>3, <1>4, <2>2, SMT DEF EntryInv, CallerOK, Requests
  <2>3. QED
    BY <2>1, <2>2
<1>8. QED
  BY <1>5, <1>6, <1>7 DEF EntryInv

\* A step of an admin leaves the callers alone, and keys with their owners.
LEMMA AdminKeepsInv ==
    ASSUME EntryInv, NEW a \in Admins,
           \/ Login(a) \/ GetCurrentAdmin(a) \/ ReadRows(a) \/ CreateTenant(a)
           \/ LoadTenant(a, "patch") \/ UpdateTenant(a)
           \/ LoadTenant(a, "issue") \/ CreateApiKey(a)
           \/ LoadKey(a) \/ RevokeApiKey(a)
    PROVE  EntryInv'
<1> USE DEF Login, GetCurrentAdmin, ReadRows, CreateTenant, LoadTenant, UpdateTenant,
            CreateApiKey, LoadKey, RevokeApiKey
<1>1. EntryShape /\ a \in Requests /\ a \notin Callers /\ WorkOK(a)
  BY AccessAssumption DEF EntryInv, Requests, AccessAssumption
<1>2. /\ presented' = presented /\ reason' = reason /\ seenKey' = seenKey /\ ctx' = ctx
      /\ Witness \/ (key' = key /\ tenant' = tenant /\ witnessed' = witnessed)
  BY DEF callerVars, dbVars
<1>3. /\ DOMAIN pc' = Requests /\ DOMAIN scope' = Requests
      /\ \A x \in Requests : x # a => pc'[x] = pc[x] /\ scope'[x] = scope[x]
  BY <1>1 DEF Goto, EntryShape
<1>4. key' \in [Keys -> KeyRows \cup {Absent}] /\ OwnersStay
  <2>1. CASE CreateApiKey(a)
    <3>1. PICK k \in Keys :
              /\ key[k] = Absent
              /\ key' = [key EXCEPT ![k] = [owner |-> work[a].tenant, revoked |-> FALSE]]
      BY <2>1
    <3>2. [owner |-> work[a].tenant, revoked |-> FALSE] \in KeyRows
      BY <1>1, <2>1 DEF WorkOK, KeyRows
    <3>3. QED
      BY <1>1, <3>1, <3>2 DEF EntryShape, OwnersStay
  <2>2. CASE RevokeApiKey(a)
    <3>1. work[a].key \in Keys /\ key[work[a].key] \in KeyRows
      BY <1>1, <2>2 DEF WorkOK, EntryShape
    <3>2. key' = [key EXCEPT ![work[a].key].revoked = TRUE]
      BY <2>2
    <3>3. /\ [key[work[a].key] EXCEPT !.revoked = TRUE] \in KeyRows
          /\ [key[work[a].key] EXCEPT !.revoked = TRUE].owner = key[work[a].key].owner
      BY <3>1 DEF KeyRows
    <3>4. key' = [key EXCEPT ![work[a].key] = [key[work[a].key] EXCEPT !.revoked = TRUE]]
      BY <3>1, <3>2
    <3>5. [key[work[a].key] EXCEPT !.revoked = TRUE] # Absent
      BY <3>3, AccessAssumption DEF AccessAssumption
    <3>6. QED
      BY <1>1, <3>1, <3>3, <3>4, <3>5 DEF EntryShape, OwnersStay
  <2>3. CASE ~CreateApiKey(a) /\ ~RevokeApiKey(a)
    <3>1. key' = key
      BY <2>3 DEF dbVars
    <3>2. QED
      BY <1>1, <3>1 DEF EntryShape, OwnersStay
  <2>4. QED
    BY <2>1, <2>2, <2>3
<1>5. EntryShape'
  <2>1. DOMAIN work' = Admins
    BY <1>1 DEF EntryShape, adminVars
  <2>2. DOMAIN witnessed' = Callers
    BY <1>1, <1>2 DEF EntryShape, Witness
  <2>3. QED
    BY <1>1, <1>2, <1>3, <1>4, <2>1, <2>2 DEF EntryShape
<1>6. ASSUME NEW b \in Admins PROVE WorkOK(b)'
  <2>1. WorkOK(b)
    BY DEF EntryInv
  <2>2. CASE b # a
    <3>1. work'[b] = work[b] /\ pc'[b] = pc[b]
      BY <1>1, <1>3, <2>2 DEF EntryShape, adminVars, Requests
    <3>2. QED
      BY <1>4, <2>1, <3>1 DEF WorkOK, OwnersStay
  <2>3. CASE b = a
    <3>1. CASE LoadTenant(a, "issue")
      BY <1>1, <2>3, <3>1, SMT DEF Goto, EntryShape, WorkOK
    <3>2. CASE LoadKey(a)
      BY <1>1, <2>3, <3>2, SMT DEF Goto, EntryShape, WorkOK, dbVars
    <3>3. CASE ~LoadTenant(a, "issue") /\ ~LoadKey(a)
      <4>1. pc'[a] \in {"in", "patch", "done"}
        BY <1>1, <3>3 DEF Goto, EntryShape
      <4>2. QED
        BY <2>3, <4>1 DEF WorkOK
    <3>4. QED
      BY <3>1, <3>2, <3>3
  <2>4. QED
    BY <2>2, <2>3
<1>7. ASSUME NEW c \in Callers PROVE CallerOK(c)'
  <2>1. c # a /\ c \in Requests
    BY <1>1 DEF Requests
  <2>2. QED
    BY <1>2, <1>3, <1>4, <2>1, OthersKeepCaller
<1>8. QED
  BY <1>5, <1>6, <1>7 DEF EntryInv

\* EntryInv is inductive.
THEOREM EntryInvariance == Spec => []EntryInv
<1>1. Init => EntryInv
  <2> SUFFICES ASSUME Init PROVE EntryInv
    OBVIOUS
  <2>1. EntryShape
    BY AccessAssumption DEF Init, EntryShape, KeyRows, AccessAssumption
  <2>2. \A x \in Requests : pc[x] = "new"
    BY DEF Init
  <2>3. QED
    BY <2>1, <2>2 DEF EntryInv, WorkOK, CallerOK, Requests
<1>2. EntryInv /\ [Next]_vars => EntryInv'
  <2> SUFFICES ASSUME EntryInv, [Next]_vars PROVE EntryInv'
    OBVIOUS
  <2>1. CASE \E c \in Callers : Arrive(c) \/ Lookup(c) \/ ReadTenant(c) \/ Refuse(c)
                                \/ Admit(c) \/ RecordUsage(c)
    BY <2>1, CallerKeepsInv
  <2>2. CASE \E a \in Admins :
                \/ Login(a) \/ GetCurrentAdmin(a) \/ ReadRows(a) \/ CreateTenant(a)
                \/ LoadTenant(a, "patch") \/ UpdateTenant(a)
                \/ LoadTenant(a, "issue") \/ CreateApiKey(a)
                \/ LoadKey(a) \/ RevokeApiKey(a)
    BY <2>2, AdminKeepsInv
  <2>3. ASSUME NEW x \in Requests, Abort(x) PROVE EntryInv'
    <3>1. /\ pc' = [pc EXCEPT ![x] = "gone"] /\ scope' = [scope EXCEPT ![x] = Unset]
          /\ UNCHANGED <<dbVars, callerVars, adminVars, witnessed>>
      BY <2>3 DEF Abort, Goto
    <3>2. EntryShape'
      BY <3>1 DEF EntryInv, EntryShape, dbVars, callerVars, adminVars
    <3>3. \A y \in Requests : pc'[y] = "gone" \/ (pc'[y] = pc[y] /\ scope'[y] = scope[y])
      <4>1. DOMAIN pc = Requests /\ DOMAIN scope = Requests
        BY DEF EntryInv, EntryShape
      <4>2. QED
        BY <2>3, <3>1, <4>1
    <3>4. \A a \in Admins : WorkOK(a)'
      BY <3>1, <3>3 DEF EntryInv, WorkOK, Requests, dbVars, adminVars
    <3>5. \A c \in Callers : CallerOK(c)'
      BY <3>1, <3>3, SMT DEF EntryInv, CallerOK, Requests, dbVars, callerVars
    <3>6. QED
      BY <3>2, <3>4, <3>5 DEF EntryInv
  <2>4. CASE UNCHANGED vars
    BY <2>4 DEF vars, dbVars, callerVars, adminVars, EntryInv, EntryShape, WorkOK, CallerOK
  <2>5. QED
    BY <2>1, <2>2, <2>3, <2>4 DEF Next, AllEnded
<1>3. QED
  BY <1>1, <1>2, PTL DEF Spec

\* Whatever any number of admins commit between the statements of
\* get_current_tenant, a caller is admitted only with a key that was live and
\* on terms that its tenant had while it was being checked.
THEOREM EntryIsEarned == Spec => []AdmittedWasEntitled
<1>1. EntryInv => AdmittedWasEntitled
  BY DEF EntryInv, CallerOK, AdmittedWasEntitled
<1>2. QED
  BY <1>1, EntryInvariance, PTL

\* No commit of get_current_tenant or record_usage runs under settings that
\* deny the row it writes.
THEOREM ContextFits == Spec => []ContextAlwaysFits
<1>1. EntryInv => ContextAlwaysFits
  BY DEF EntryInv, CallerOK, ContextAlwaysFits
<1>2. QED
  BY <1>1, EntryInvariance, PTL

-----------------------------------------------------------------------------
(* What the audit log says of callers and of keys *)

Said(c) == {e \in audit : e.by = c}

\* A key belongs to a tenant that exists, and is issued for one.
OwnersExist ==
    /\ \A k \in Keys : key[k] # Absent => tenant[key[k].owner] # Absent
    /\ \A a \in Admins : pc[a] = "issue" => tenant[work[a].tenant] # Absent

\* A caller about to be refused has been given a reason that held.
RefusalOK(c) ==
    /\ pc[c] = "refusing" => Held(c, reason[c])
    /\ pc[c] = "refused" => \E e \in audit : Said(c) = {e} /\ Held(c, e.subject)
    /\ pc[c] # "refused" => Said(c) = {}

RefusalInv == OwnersExist /\ \A c \in Callers : RefusalOK(c)

Revocations(k) == Events("admin.api_key_revoked", k)

KeyAccounted(k) ==
    LET issues == Events("admin.api_key_issued", k)
    IN  /\ key[k] # Absent /\ k \notin OldKeys
              => \E e \in issues : issues = {e} /\ e.tenant = key[k].owner
        /\ key[k] = Absent => issues \cup Revocations(k) = {}
        /\ key[k] # Absent => (key[k].revoked <=> Revocations(k) # {})
        /\ \A e, f \in Revocations(k) : e # f => Overlap(e.by, f.by)
        /\ \A e \in Revocations(k) : e.by \in Admins

\* A revocation under way began before any that is committed: it found the key
\* not revoked.
RevokesBlindly(a) ==
    pc[a] = "revoke" => \A e \in Revocations(work[a].key) : e.by \notin after[a]

KeyInv == (\A k \in Keys : KeyAccounted(k)) /\ \A a \in Admins : RevokesBlindly(a)

\* No step takes a tenant away: the admin API only creates and updates them.
LEMMA TenantsStay ==
    ASSUME LogInv, LogInv', [Next]_vars, NEW t \in Tenants, tenant[t] # Absent
    PROVE  tenant'[t] # Absent
<1>1. CASE tenant' = tenant
  BY <1>1
<1>2. ASSUME NEW a \in Admins, CreateTenant(a) PROVE tenant'[t] # Absent
  BY <1>2 DEF CreateTenant, LogInv, Shape
<1>3. ASSUME NEW a \in Admins, UpdateTenant(a) PROVE tenant'[t] # Absent
  <2>. DEFINE u == work[a].tenant
  <2>1. PICK changes \in Payloads :
            /\ tenant' = [tenant EXCEPT ![u] = Updated(tenant[u], work[a].row, changes)]
            /\ WriteAuditEvent(a, "admin.tenant_updated", u, Absent, changes)
    BY <1>3 DEF UpdateTenant
  <2>. DEFINE e == [by |-> a, event |-> "admin.tenant_updated", tenant |-> u,
                    subject |-> Absent, changes |-> changes]
  <2>2. e \in audit' /\ e.event = "admin.tenant_updated" /\ e.tenant = u
    BY <2>1 DEF WriteAuditEvent
  <2>. HIDE DEF e
  <2>3. tenant'[u] # Absent
    BY <2>2 DEF LogInv, AuditOK
  <2>. QED
    BY <2>1, <2>3 DEF LogInv, Shape
<1>4. tenant' = tenant \/ \E a \in Admins : CreateTenant(a) \/ UpdateTenant(a)
  BY DEF Next, AllEnded, vars, dbVars, Arrive, Lookup, LookupIn, ReadTenant, Refuse, Admit,
         RecordUsage, RecordUsageIn, Login, GetCurrentAdmin, ReadRows, LoadTenant,
         CreateApiKey, LoadKey, RevokeApiKey, Abort
<1>. QED
  BY <1>1, <1>2, <1>3, <1>4

\* A reason that held goes on having held: what was witnessed is kept.
LEMMA HeldStays ==
    ASSUME NEW c \in Callers, presented'[c] = presented[c], witnessed[c] \subseteq witnessed'[c],
           NEW why, Held(c, why)
    PROVE  Held(c, why)'
  BY SMT DEF Held

\* A caller that another request overtakes keeps its standing.
LEMMA OvertakenRefusal ==
    ASSUME NEW c \in Callers, RefusalOK(c), pc'[c] = pc[c], presented'[c] = presented[c],
           reason'[c] = reason[c], witnessed[c] \subseteq witnessed'[c],
           audit \subseteq audit', \A e \in audit' \ audit : e.by # c
    PROVE  RefusalOK(c)'
<1>1. Said(c)' = Said(c)
  BY DEF Said
<1>2. \A why : Held(c, why) => Held(c, why)'
  BY HeldStays
<1>3. pc[c] = "refusing" => Held(c, reason[c])'
  <2>1. ASSUME NEW why, why = reason[c], pc[c] = "refusing" PROVE Held(c, reason[c])'
    <3>1. Held(c, why)'
      BY <1>2, <2>1 DEF RefusalOK
    <3>. QED
      BY <2>1, <3>1
  <2>. QED
    BY <2>1
<1>4. pc[c] = "refused" => \E e \in audit' : Said(c)' = {e} /\ Held(c, e.subject)'
  BY <1>1, <1>2 DEF RefusalOK
<1>. QED
  BY <1>1, <1>3, <1>4 DEF RefusalOK

\* Each stage of get_current_tenant refuses for a reason it has just seen, and
\* the refusal writes the one row of its caller.
LEMMA CallerRefusal ==
    ASSUME EntryInv, OwnersExist, NEW c \in Callers, RefusalOK(c),
           Arrive(c) \/ Lookup(c) \/ ReadTenant(c) \/ Refuse(c) \/ Admit(c) \/ RecordUsage(c)
    PROVE  RefusalOK(c)'
<1>1. EntryShape /\ CallerOK(c) /\ c \in Requests
  BY DEF EntryInv, Requests
<1>2. CASE Refuse(c)
  <2>. DEFINE e == [by |-> c, event |-> "auth.failure",
                    tenant |-> IF seenKey[c] = Absent THEN Absent ELSE seenKey[c].owner,
                    subject |-> reason[c], changes |-> NoChange]
  <2>1. audit' = audit \cup {e} /\ e.by = c /\ e.subject = reason[c] /\ e \in audit'
    BY <1>2 DEF Refuse, WriteAuditEvent
  <2>. HIDE DEF e
  <2>2. pc[c] = "refusing" /\ pc'[c] = "refused"
    BY <1>1, <1>2 DEF Refuse, Goto, EntryShape
  <2>3. presented' = presented /\ witnessed' = witnessed /\ reason' = reason
    BY <1>2 DEF Refuse, callerVars
  <2>4. Said(c) = {} /\ Held(c, e.subject)
    BY <2>1, <2>2 DEF RefusalOK
  <2>5. Said(c)' = {e}
    BY <2>1, <2>4 DEF Said
  <2>6. ASSUME NEW why, why = e.subject PROVE Held(c, why)'
    BY <2>3, <2>4, <2>6 DEF Held
  <2>7. ASSUME NEW f, f = e PROVE \E g \in audit' : Said(c)' = {g} /\ Held(c, g.subject)'
    <3>1. f \in audit' /\ Said(c)' = {f} /\ Held(c, f.subject)'
      BY <2>1, <2>5, <2>6, <2>7
    <3>. QED
      BY <3>1
  <2>. QED
    BY <2>2, <2>7 DEF RefusalOK
<1>3. ASSUME ~Refuse(c) PROVE audit' = audit /\ pc[c] # "refused" /\ Said(c)' = {}
  <2>1. audit' = audit /\ pc[c] # "refused"
    BY <1>3 DEF Arrive, Lookup, LookupIn, ReadTenant, Admit, RecordUsage, RecordUsageIn, dbVars
  <2>. QED
    BY <2>1 DEF RefusalOK, Said
<1>4. CASE Arrive(c) /\ ~Refuse(c)
  <2>1. PICK p \in Credentials :
            /\ presented' = [presented EXCEPT ![c] = p]
            /\ reason' = [reason EXCEPT ![c] = p.flaw]
            /\ \E stage \in {"refusing", "lookup"} :
                  /\ pc' = [pc EXCEPT ![c] = stage]
                  /\ stage = "refusing" => p.flaw # "none"
    BY <1>4 DEF Arrive, Goto
  <2>2. presented'[c] = p /\ reason'[c] = p.flaw /\ pc'[c] \in {"refusing", "lookup"}
    BY <1>1, <2>1 DEF EntryShape
  <2>3. Held(c, reason[c])'
    BY <2>2 DEF Held
  <2>. QED
    BY <1>3, <1>4, <2>2, <2>3 DEF RefusalOK
<1>5. CASE Lookup(c) /\ ~Refuse(c)
  <2>. DEFINE k == presented[c].key
              verdict == KeyVerdict(key[k], presented[c].good)
  <2>1. pc[c] = "lookup" /\ k \in Keys /\ Behind(k, key, tenant) \in witnessed[c]
    BY <1>1, <1>5 DEF Lookup, LookupIn, CallerOK
  <2>2. (IF key[k] # Absent /\ Allowed(Bypass, key[k].owner) THEN key[k] ELSE Absent) = key[k]
    BY DEF Allowed
  <2>3. /\ reason' = [reason EXCEPT ![c] = verdict]
        /\ pc' = [pc EXCEPT ![c] = IF verdict = "none" THEN "tenant" ELSE "refusing"]
        /\ presented' = presented /\ witnessed' = witnessed
    BY <1>5, <2>2 DEF Lookup, LookupIn, Goto
  <2>4. reason'[c] = verdict /\ pc'[c] = IF verdict = "none" THEN "tenant" ELSE "refusing"
    BY <1>1, <2>3 DEF EntryShape
  <2>5. Behind(k, key, tenant).key = key[k]
    BY DEF Behind
  <2>6. \/ verdict = "none"
        \/ verdict = "key_not_found" /\ key[k] = Absent
        \/ verdict = "key_revoked" /\ key[k] # Absent /\ key[k].revoked
        \/ verdict = "invalid_secret" /\ key[k] # Absent /\ ~presented[c].good
    BY DEF KeyVerdict
  <2>. HIDE DEF verdict
  <2>7. verdict # "none" => Held(c, reason[c])'
    BY <2>1, <2>3, <2>4, <2>5, <2>6 DEF Held
  <2>. QED
    BY <1>3, <1>5, <2>4, <2>7 DEF RefusalOK
<1>6. CASE ReadTenant(c) /\ ~Refuse(c)
  <2>. DEFINE k == presented[c].key
              row == tenant[seenKey[c].owner]
              ok == row # Absent /\ row["is_active"]
  <2>1. /\ pc[c] = "tenant" /\ k \in Keys /\ key[k] # Absent
        /\ seenKey[c].owner = key[k].owner /\ Behind(k, key, tenant) \in witnessed[c]
    BY <1>1, <1>6 DEF ReadTenant, CallerOK
  <2>2. /\ pc'[c] = IF ok THEN "admitting" ELSE "refusing"
        /\ reason'[c] = IF ok THEN "none" ELSE "tenant_inactive"
        /\ presented' = presented /\ witnessed' = witnessed
    BY <1>1, <1>6 DEF ReadTenant, Goto, EntryShape
  <2>3. Behind(k, key, tenant).tenant = row /\ row # Absent
    BY <2>1 DEF Behind, OwnersExist
  <2>4. ~ok => Held(c, reason[c])'
    BY <2>1, <2>2, <2>3 DEF Held
  <2>. QED
    BY <1>3, <1>6, <2>2, <2>4 DEF RefusalOK
<1>7. CASE (Admit(c) \/ RecordUsage(c)) /\ ~Refuse(c)
  <2>1. pc'[c] \in {"admitted", "served", "error"}
    BY <1>1, <1>7 DEF Admit, RecordUsage, RecordUsageIn, Goto, EntryShape
  <2>. QED
    BY <1>3, <1>7, <2>1 DEF RefusalOK
<1>. QED
  BY <1>2, <1>4, <1>5, <1>6, <1>7

\* An admin writes rows of its own, and adds to what callers witness.
LEMMA AdminAddsOwnRows ==
    ASSUME NEW a \in Admins,
           \/ Login(a) \/ GetCurrentAdmin(a) \/ ReadRows(a) \/ CreateTenant(a)
           \/ LoadTenant(a, "patch") \/ UpdateTenant(a)
           \/ LoadTenant(a, "issue") \/ CreateApiKey(a)
           \/ LoadKey(a) \/ RevokeApiKey(a)
    PROVE  /\ audit \subseteq audit' /\ \A e \in audit' \ audit : e.by = a
           /\ UNCHANGED callerVars
           /\ Witness \/ witnessed' = witnessed
           /\ \E stage : pc' = [pc EXCEPT ![a] = stage]
<1>1. CASE Login(a)
  <2>1. audit \subseteq audit' /\ \A e \in audit' \ audit : e.by = a
    BY <1>1, SMT DEF Login, WriteAuditEvent
  <2>2. UNCHANGED callerVars /\ witnessed' = witnessed /\ \E stage : pc' = [pc EXCEPT ![a] = stage]
    BY <1>1 DEF Login, Goto
  <2>. QED
    BY <2>1, <2>2
<1>2. CASE GetCurrentAdmin(a) \/ ReadRows(a)
  BY <1>2 DEF GetCurrentAdmin, ReadRows, Goto, dbVars
<1>3. CASE LoadTenant(a, "patch") \/ LoadTenant(a, "issue") \/ LoadKey(a)
  BY <1>3 DEF LoadTenant, LoadKey, Goto, dbVars
<1>4. CASE CreateTenant(a) \/ UpdateTenant(a)
  BY <1>4, SMT DEF CreateTenant, UpdateTenant, WriteAuditEvent, Goto
<1>5. CASE CreateApiKey(a) \/ RevokeApiKey(a)
  BY <1>5, SMT DEF CreateApiKey, RevokeApiKey, WriteAuditEvent, Goto
<1>. QED
  BY <1>1, <1>2, <1>3, <1>4, <1>5

\* Keys are issued for a tenant that was loaded, and tenants stay.
LEMMA OwnersGoOn ==
    ASSUME LogInv, LogInv', EntryInv, OwnersExist, [Next]_vars
    PROVE  OwnersExist'
<1>1. \A t \in Tenants : tenant[t] # Absent => tenant'[t] # Absent
  BY TenantsStay
<1>2. /\ key \in [Keys -> KeyRows \cup {Absent}] /\ DOMAIN work = Admins /\ DOMAIN pc = Requests
      /\ \A a \in Admins : pc[a] = "issue" => work[a].tenant \in Tenants
  BY DEF EntryInv, EntryShape, WorkOK
<1>3. \A k \in Keys : key[k] # Absent => key[k].owner \in Tenants /\ tenant'[key[k].owner] # Absent
  BY <1>1, <1>2 DEF OwnersExist, KeyRows
<1>4. ASSUME \A a \in Admins : pc'[a] = "issue" => pc[a] = "issue" /\ work'[a] = work[a],
             key' = key
      PROVE  OwnersExist'
  BY <1>1, <1>2, <1>3, <1>4 DEF OwnersExist
<1>5. ASSUME NEW c \in Callers,
             Arrive(c) \/ Lookup(c) \/ ReadTenant(c) \/ Refuse(c) \/ Admit(c) \/ RecordUsage(c)
      PROVE  OwnersExist'
  <2>1. c \notin Admins /\ c \in Requests
    BY AccessAssumption DEF AccessAssumption, Requests
  <2>2. key' = key /\ work' = work /\ \E stage : pc' = [pc EXCEPT ![c] = stage]
    BY <1>5 DEF Arrive, Lookup, LookupIn, ReadTenant, Refuse, Admit, RecordUsage,
                       RecordUsageIn, dbVars, adminVars, Goto
  <2>. QED
    BY <1>2, <1>4, <2>1, <2>2 DEF Requests
<1>6. ASSUME NEW a \in Admins, LoadTenant(a, "issue") PROVE OwnersExist'
  <2>1. PICK t \in Tenants :
            \/ pc' = [pc EXCEPT ![a] = "done"] /\ work' = work
            \/ /\ tenant[t] # Absent
               /\ pc' = [pc EXCEPT ![a] = "issue"]
               /\ work' = [work EXCEPT ![a] = [tenant |-> t, key |-> Absent, row |-> tenant[t]]]
    BY <1>6 DEF LoadTenant, Goto
  <2>2. key' = key /\ tenant' = tenant
    BY <1>6 DEF LoadTenant, dbVars
  <2>. QED
    BY <1>2, <2>1, <2>2, SMT DEF OwnersExist, Requests
<1>7. ASSUME NEW a \in Admins, CreateApiKey(a) PROVE OwnersExist'
  <2>1. PICK k \in Keys :
            key' = [key EXCEPT ![k] = [owner |-> work[a].tenant, revoked |-> FALSE]]
    BY <1>7 DEF CreateApiKey
  <2>2. pc[a] = "issue" /\ pc' = [pc EXCEPT ![a] = "done"] /\ work' = work
    BY <1>7 DEF CreateApiKey, Goto, adminVars
  <2>3. tenant'[work[a].tenant] # Absent
    BY <1>1, <1>2, <2>2 DEF OwnersExist
  <2>4. \A j \in Keys : key'[j] # Absent => tenant'[key'[j].owner] # Absent
    BY <1>2, <1>3, <2>1, <2>3
  <2>5. \A b \in Admins : pc'[b] = "issue" => pc[b] = "issue"
    BY <1>2, <2>2 DEF Requests
  <2>. QED
    BY <1>1, <1>2, <2>2, <2>4, <2>5 DEF OwnersExist
<1>8. ASSUME NEW a \in Admins, RevokeApiKey(a) PROVE OwnersExist'
  <2>. DEFINE k == work[a].key
  <2>1. pc[a] = "revoke" /\ pc' = [pc EXCEPT ![a] = "done"] /\ work' = work
    BY <1>8 DEF RevokeApiKey, Goto, adminVars
  <2>2. k \in Keys /\ key[k] \in KeyRows
    BY <1>2, <2>1 DEF EntryInv, WorkOK
  <2>3. key' = [key EXCEPT ![k].revoked = TRUE]
    BY <1>8 DEF RevokeApiKey
  <2>4. \A j \in Keys : key'[j] # Absent => key[j] # Absent /\ key'[j].owner = key[j].owner
    BY <1>2, <2>2, <2>3, AccessAssumption DEF KeyRows, AccessAssumption
  <2>5. \A b \in Admins : pc'[b] = "issue" => pc[b] = "issue"
    BY <1>2, <2>1 DEF Requests
  <2>. QED
    BY <1>1, <1>2, <1>3, <2>1, <2>4, <2>5 DEF OwnersExist
<1>9. ASSUME NEW a \in Admins,
             \/ Login(a) \/ GetCurrentAdmin(a) \/ ReadRows(a) \/ CreateTenant(a)
             \/ LoadTenant(a, "patch") \/ UpdateTenant(a) \/ LoadKey(a)
      PROVE  OwnersExist'
  <2>1. /\ key' = key /\ (\A b \in Admins : b # a => work'[b] = work[b])
        /\ \E stage \in {"done", "in", "patch", "revoke"} : pc' = [pc EXCEPT ![a] = stage]
    BY <1>2, <1>9 DEF Login, GetCurrentAdmin, ReadRows, CreateTenant, LoadTenant, UpdateTenant,
                      LoadKey, Goto, dbVars, adminVars
  <2>. QED
    BY <1>2, <1>4, <2>1 DEF Requests
<1>10. ASSUME NEW x \in Requests, Abort(x) PROVE OwnersExist'
  <2>1. key' = key /\ work' = work /\ pc' = [pc EXCEPT ![x] = "gone"]
    BY <1>10 DEF Abort, Goto, dbVars, adminVars
  <2>. QED
    BY <1>2, <1>4, <2>1 DEF Requests
<1>11. CASE UNCHANGED vars
  BY <1>4, <1>11 DEF vars, dbVars, adminVars
<1>. QED
  BY <1>5, <1>6, <1>7, <1>8, <1>9, <1>10, <1>11 DEF Next, AllEnded

\* RefusalInv is inductive, beside LogInv and EntryInv.
LEMMA RefusalStep ==
    ASSUME LogInv, LogInv', EntryInv, RefusalInv, [Next]_vars
    PROVE  RefusalInv'
<1>1. OwnersExist' /\ \A c \in Callers : RefusalOK(c)
  BY OwnersGoOn DEF RefusalInv
<1>2. DOMAIN pc = Requests /\ Callers \subseteq Requests /\ Callers \cap Admins = {}
  BY AccessAssumption DEF EntryInv, EntryShape, Requests, AccessAssumption
<1>3. ASSUME NEW c \in Callers,
             Arrive(c) \/ Lookup(c) \/ ReadTenant(c) \/ Refuse(c) \/ Admit(c) \/ RecordUsage(c),
             NEW d \in Callers
      PROVE  RefusalOK(d)'
  <2>1. CASE d = c
    BY <1>1, <1>3, <2>1, CallerRefusal DEF RefusalInv
  <2>2. CASE d # c
    <3>1. audit \subseteq audit' /\ \A e \in audit' \ audit : e.by # d
      <4>1. CASE Refuse(c)
        BY <2>2, <4>1, SMT DEF Refuse, WriteAuditEvent
      <4>2. CASE ~Refuse(c)
        BY <1>3, <4>2 DEF Arrive, Lookup, LookupIn, ReadTenant, Admit, RecordUsage,
                          RecordUsageIn, dbVars
      <4>. QED
        BY <4>1, <4>2
    <3>2. pc'[d] = pc[d]
      BY <1>2, <1>3, <2>2 DEF Arrive, Lookup, LookupIn, ReadTenant, Refuse, Admit, RecordUsage,
                              RecordUsageIn, Goto
    <3>3. presented'[d] = presented[d] /\ reason'[d] = reason[d] /\ witnessed'[d] = witnessed[d]
      BY <1>3, <2>2 DEF Arrive, Lookup, LookupIn, ReadTenant, Refuse, Admit, RecordUsage,
                        RecordUsageIn, callerVars, EntryInv, EntryShape
    <3>. QED
      BY <1>1, <3>1, <3>2, <3>3, OvertakenRefusal
  <2>. QED
    BY <2>1, <2>2
<1>4. ASSUME NEW a \in Admins,
             \/ Login(a) \/ GetCurrentAdmin(a) \/ ReadRows(a) \/ CreateTenant(a)
             \/ LoadTenant(a, "patch") \/ UpdateTenant(a)
             \/ LoadTenant(a, "issue") \/ CreateApiKey(a)
             \/ LoadKey(a) \/ RevokeApiKey(a),
             NEW d \in Callers
      PROVE  RefusalOK(d)'
  <2>1. /\ audit \subseteq audit' /\ (\A e \in audit' \ audit : e.by = a)
        /\ UNCHANGED callerVars
        /\ Witness \/ witnessed' = witnessed
        /\ \E stage : pc' = [pc EXCEPT ![a] = stage]
    BY <1>4, AdminAddsOwnRows
  <2>2. witnessed[d] \subseteq witnessed'[d]
    BY <2>1 DEF Witness
  <2>3. pc'[d] = pc[d] /\ a # d
    BY <1>2, <2>1
  <2>. QED
    BY <1>1, <2>1, <2>2, <2>3, OvertakenRefusal DEF callerVars
<1>5. ASSUME NEW x \in Requests, Abort(x), NEW d \in Callers PROVE RefusalOK(d)'
  <2>1. /\ pc[x] # "refused" /\ pc' = [pc EXCEPT ![x] = "gone"]
        /\ audit' = audit /\ UNCHANGED callerVars /\ witnessed' = witnessed
    BY <1>5 DEF Abort, Goto, Ended, dbVars
  <2>2. CASE d = x
    <3>1. pc'[d] = "gone" /\ Said(d)' = {}
      BY <1>1, <1>2, <2>1, <2>2 DEF RefusalOK, Said
    <3>. QED
      BY <3>1 DEF RefusalOK
  <2>3. CASE d # x
    BY <1>1, <1>2, <2>1, <2>3, OvertakenRefusal DEF callerVars
  <2>. QED
    BY <2>2, <2>3
<1>6. ASSUME UNCHANGED vars, NEW d \in Callers PROVE RefusalOK(d)'
  BY <1>1, <1>6, OvertakenRefusal DEF vars, dbVars, callerVars
<1>. QED
  BY <1>1, <1>3, <1>4, <1>5, <1>6 DEF RefusalInv, Next, AllEnded

\* get_current_tenant gives one reason when it refuses and none when it
\* admits, and the reason was true of the rows behind the key while they were
\* being read, whatever admins committed between its statements.
THEOREM RefusalsAreTruthful == Spec => []RefusalIsTruthful
<1>1. Init => RefusalInv
  <2>. SUFFICES ASSUME Init PROVE RefusalInv
    OBVIOUS
  <2>1. OwnersExist
    BY AccessAssumption DEF Init, OwnersExist, AccessAssumption, Requests, Defaults, Rows
  <2>2. \A c \in Callers : RefusalOK(c)
    BY DEF Init, RefusalOK, Said, Requests
  <2>. QED
    BY <2>1, <2>2 DEF RefusalInv
<1>2. LogInv /\ LogInv' /\ EntryInv /\ RefusalInv /\ [Next]_vars => RefusalInv'
  BY RefusalStep
<1>3. RefusalInv => RefusalIsTruthful
  BY DEF RefusalInv, RefusalOK, Said, RefusalIsTruthful
<1>. QED
  BY <1>1, <1>2, <1>3, LogInvariance, EntryInvariance, PTL DEF Spec

\* A step that has nothing to do with keys.
KeyQuiet ==
    /\ key' = key
    /\ audit \subseteq audit'
    /\ \A e \in audit' \ audit : e.event \notin {"admin.api_key_issued", "admin.api_key_revoked"}
    /\ \A a \in Admins : pc'[a] = "revoke" =>
          pc[a] = "revoke" /\ work'[a] = work[a] /\ after'[a] = after[a]
    /\ \A e \in audit : e.by \in Admins => after'[e.by] = after[e.by]

\* The account of the keys is not touched by such a step.
LEMMA KeyQuietKeepsInv ==
    ASSUME KeyInv, KeyQuiet
    PROVE  KeyInv'
<1>1. \A k : /\ Revocations(k)' = Revocations(k)
             /\ Events("admin.api_key_issued", k)' = Events("admin.api_key_issued", k)
  BY DEF KeyQuiet, Revocations, Events
<1>2. ASSUME NEW k \in Keys PROVE KeyAccounted(k)'
  <2>1. KeyAccounted(k) /\ key' = key
    BY DEF KeyInv, KeyQuiet
  <2>2. \A e \in Revocations(k) : e.by \in Admins /\ after'[e.by] = after[e.by]
    BY <2>1 DEF KeyAccounted, KeyQuiet, Revocations, Events
  <2>3. \A e, f \in Revocations(k) : Overlap(e.by, f.by)' <=> Overlap(e.by, f.by)
    BY <2>2 DEF Overlap
  <2>. QED
    BY <1>1, <2>1, <2>2, <2>3 DEF KeyAccounted
<1>3. ASSUME NEW a \in Admins PROVE RevokesBlindly(a)'
  BY <1>1 DEF KeyInv, KeyQuiet, RevokesBlindly
<1>. QED
  BY <1>2, <1>3 DEF KeyInv

\* Everybody but the admin that loads, issues or revokes a key is quiet.
LEMMA OthersAreKeyQuiet ==
    ASSUME LogInv, EntryInv, [Next]_vars,
           ~ \E a \in Admins : LoadKey(a) \/ CreateApiKey(a) \/ RevokeApiKey(a)
    PROVE  KeyQuiet
<1>1. DOMAIN pc = Requests /\ DOMAIN work = Admins /\ DOMAIN after = Admins
  BY DEF LogInv, Shape, EntryInv, EntryShape
<1>2. ASSUME NEW c \in Callers,
             Arrive(c) \/ Lookup(c) \/ ReadTenant(c) \/ Refuse(c) \/ Admit(c) \/ RecordUsage(c)
      PROVE  KeyQuiet
  <2>1. c \notin Admins
    BY AccessAssumption DEF AccessAssumption
  <2>2. key' = key /\ work' = work /\ after' = after /\ \E stage : pc' = [pc EXCEPT ![c] = stage]
    BY <1>2 DEF Arrive, Lookup, LookupIn, ReadTenant, Refuse, Admit, RecordUsage,
                       RecordUsageIn, dbVars, adminVars, Goto
  <2>3. audit \subseteq audit' /\ \A e \in audit' \ audit : e.event = "auth.failure"
    <3>1. CASE Refuse(c)
      BY <3>1, SMT DEF Refuse, WriteAuditEvent
    <3>2. CASE ~Refuse(c)
      BY <1>2, <3>2 DEF Arrive, Lookup, LookupIn, ReadTenant, Admit, RecordUsage,
                        RecordUsageIn, dbVars
    <3>. QED
      BY <3>1, <3>2
  <2>. QED
    BY <1>1, <2>1, <2>2, <2>3 DEF KeyQuiet, Requests
<1>3. ASSUME NEW a \in Admins,
             \/ Login(a) \/ ReadRows(a) \/ CreateTenant(a)
             \/ LoadTenant(a, "patch") \/ UpdateTenant(a) \/ LoadTenant(a, "issue")
      PROVE  KeyQuiet
  <2>1. /\ key' = key /\ after' = after /\ (\A b \in Admins : b # a => work'[b] = work[b])
        /\ \E stage \in {"done", "patch", "issue"} : pc' = [pc EXCEPT ![a] = stage]
    BY <1>1, <1>3 DEF Login, ReadRows, CreateTenant, LoadTenant, UpdateTenant, Goto, dbVars,
                      adminVars
  <2>2. /\ audit \subseteq audit'
        /\ \A e \in audit' \ audit :
              e.event \in {"admin.login_failure", "admin.tenant_created", "admin.tenant_updated"}
    <3>1. CASE Login(a)
      BY <3>1, SMT DEF Login, WriteAuditEvent
    <3>2. CASE CreateTenant(a)
      BY <3>2, SMT DEF CreateTenant, WriteAuditEvent
    <3>3. CASE UpdateTenant(a)
      BY <3>3, SMT DEF UpdateTenant, WriteAuditEvent
    <3>4. CASE ReadRows(a) \/ LoadTenant(a, "patch") \/ LoadTenant(a, "issue")
      BY <3>4 DEF ReadRows, LoadTenant, dbVars
    <3>. QED
      BY <1>3, <3>1, <3>2, <3>3, <3>4
  <2>. QED
    BY <1>1, <2>1, <2>2 DEF KeyQuiet, Requests
<1>4. ASSUME NEW a \in Admins, GetCurrentAdmin(a) PROVE KeyQuiet
  <2>1. /\ key' = key /\ audit' = audit /\ work' = work /\ pc[a] = "new"
        /\ \A b \in Admins : b # a => after'[b] = after[b]
        /\ \E stage \in {"done", "in"} : pc' = [pc EXCEPT ![a] = stage]
    BY <1>1, <1>4 DEF GetCurrentAdmin, Goto, dbVars
  <2>2. \A e \in audit : e.by # a
    BY <2>1 DEF LogInv, AuditOK
  <2>. QED
    BY <1>1, <2>1, <2>2 DEF KeyQuiet, Requests
<1>5. ASSUME NEW x \in Requests, Abort(x) PROVE KeyQuiet
  BY <1>1, <1>5 DEF Abort, Goto, dbVars, adminVars, KeyQuiet, Requests
<1>6. CASE UNCHANGED vars
  BY <1>6 DEF vars, dbVars, adminVars, KeyQuiet
<1>. QED
  BY <1>2, <1>3, <1>4, <1>5, <1>6 DEF Next, AllEnded

\* revoke_api_key finds its key not revoked: no row says otherwise yet.
LEMMA LoadKeyKeepsInv ==
    ASSUME EntryInv, KeyInv, NEW a \in Admins, LoadKey(a)
    PROVE  KeyInv'
<1>1. DOMAIN pc = Requests /\ DOMAIN work = Admins /\ a \in Requests
  BY DEF EntryInv, EntryShape, Requests
<1>2. PICK t \in Tenants, k \in Keys :
          \/ pc' = [pc EXCEPT ![a] = "done"] /\ work' = work
          \/ /\ key[k] # Absent /\ ~key[k].revoked
             /\ pc' = [pc EXCEPT ![a] = "revoke"]
             /\ work' = [work EXCEPT ![a] = [tenant |-> t, key |-> k, row |-> key[k]]]
  BY DEF LoadKey, Goto
<1>3. key' = key /\ audit' = audit /\ after' = after
  BY DEF LoadKey, dbVars
<1>4. \A j : /\ Revocations(j)' = Revocations(j)
             /\ Events("admin.api_key_issued", j)' = Events("admin.api_key_issued", j)
  BY <1>3 DEF Revocations, Events
<1>5. \A j \in Keys : KeyAccounted(j)'
  BY <1>3, <1>4 DEF KeyInv, KeyAccounted, Overlap
<1>6. ASSUME NEW b \in Admins, pc'[b] = "revoke"
      PROVE  \A e \in Revocations(work[b].key)' : e.by \notin after'[b]
  <2>1. CASE pc[b] = "revoke" /\ work'[b] = work[b]
    BY <1>3, <1>4, <2>1 DEF KeyInv, RevokesBlindly
  <2>2. CASE b = a /\ key[k] # Absent /\ ~key[k].revoked /\ work'[b].key = k
    <3>1. Revocations(k) = {}
      BY <2>2 DEF KeyInv, KeyAccounted
    <3>. QED
      BY <1>3, <1>4, <2>2, <3>1
  <2>. QED
    BY <1>1, <1>2, <1>6, <2>1, <2>2, SMT DEF Requests
<1>. QED
  BY <1>5, <1>6 DEF KeyInv, RevokesBlindly

\* create_api_key inserts the row of the key and that of its issue together.
LEMMA IssueKeepsInv ==
    ASSUME LogInv, EntryInv, KeyInv, NEW a \in Admins, CreateApiKey(a)
    PROVE  KeyInv'
<1>. DEFINE t == work[a].tenant
<1>1. DOMAIN pc = Requests /\ DOMAIN work = Admins /\ a \in Requests /\ t \in Tenants
  BY DEF EntryInv, EntryShape, WorkOK, CreateApiKey, Requests
<1>2. PICK k \in Keys, e \in audit' :
          /\ key[k] = Absent
          /\ key' = [key EXCEPT ![k] = [owner |-> t, revoked |-> FALSE]]
          /\ audit' = audit \cup {e}
          /\ e.by = a /\ e.event = "admin.api_key_issued" /\ e.tenant = t /\ e.subject = k
  <2>1. PICK k \in Keys :
            /\ key[k] = Absent
            /\ key' = [key EXCEPT ![k] = [owner |-> t, revoked |-> FALSE]]
            /\ WriteAuditEvent(a, "admin.api_key_issued", t, k, NoChange)
    BY DEF CreateApiKey
  <2>. DEFINE e == [by |-> a, event |-> "admin.api_key_issued", tenant |-> t,
                    subject |-> k, changes |-> NoChange]
  <2>2. /\ audit' = audit \cup {e}
        /\ e.by = a /\ e.event = "admin.api_key_issued" /\ e.tenant = t /\ e.subject = k
    BY <2>1 DEF WriteAuditEvent
  <2>. HIDE DEF e
  <2>. QED
    BY <2>1, <2>2
<1>3. pc' = [pc EXCEPT ![a] = "done"] /\ work' = work /\ after' = after
  BY DEF CreateApiKey, Goto, adminVars
<1>4. [owner |-> t, revoked |-> FALSE] \in KeyRows
  BY <1>1 DEF KeyRows
<1>5. /\ key'[k] # Absent /\ key'[k].owner = t /\ ~key'[k].revoked
      /\ \A j \in Keys : j # k => key'[j] = key[j]
  BY <1>2, <1>4, AccessAssumption DEF EntryInv, EntryShape, AccessAssumption
<1>6. \A j : Revocations(j)' = Revocations(j)
  BY <1>2 DEF Revocations, Events
<1>7. /\ Events("admin.api_key_issued", k)' = Events("admin.api_key_issued", k) \cup {e}
      /\ \A j : j # k => Events("admin.api_key_issued", j)' = Events("admin.api_key_issued", j)
  BY <1>2 DEF Events
<1>8. Events("admin.api_key_issued", k) = {} /\ Revocations(k) = {}
  BY <1>2 DEF KeyInv, KeyAccounted
<1>9. ASSUME NEW j \in Keys PROVE KeyAccounted(j)'
  <2>1. CASE j = k
    BY <1>2, <1>5, <1>6, <1>7, <1>8, <2>1 DEF KeyAccounted
  <2>2. CASE j # k
    <3>1. KeyAccounted(j) /\ key'[j] = key[j]
      BY <1>5, <2>2 DEF KeyInv
    <3>2. \A x, y : Overlap(x, y)' <=> Overlap(x, y)
      BY <1>3 DEF Overlap
    <3>. QED
      BY <1>6, <1>7, <2>2, <3>1, <3>2 DEF KeyAccounted
  <2>. QED
    BY <2>1, <2>2
<1>10. \A b \in Admins : RevokesBlindly(b)'
  BY <1>1, <1>3, <1>6 DEF KeyInv, RevokesBlindly, Requests
<1>. QED
  BY <1>9, <1>10 DEF KeyInv

\* revoke_api_key: whoever revoked the key since it was loaded had not
\* committed when this request began.
LEMMA RevokeKeepsInv ==
    ASSUME LogInv, EntryInv, KeyInv, NEW a \in Admins, RevokeApiKey(a)
    PROVE  KeyInv'
<1>0. PICK k \in Keys : k = work[a].key
  BY DEF EntryInv, EntryShape, WorkOK, RevokeApiKey, Requests
<1>1. /\ DOMAIN pc = Requests /\ DOMAIN work = Admins /\ a \in Requests /\ pc[a] = "revoke"
      /\ key[k] \in KeyRows
  BY <1>0 DEF EntryInv, EntryShape, WorkOK, RevokeApiKey, Requests
<1>2. PICK e \in audit' :
          /\ audit' = audit \cup {e}
          /\ e.by = a /\ e.event = "admin.api_key_revoked" /\ e.subject = k
  <2>. DEFINE e == [by |-> a, event |-> "admin.api_key_revoked", tenant |-> work[a].tenant,
                    subject |-> k, changes |-> NoChange]
  <2>1. /\ audit' = audit \cup {e}
        /\ e.by = a /\ e.event = "admin.api_key_revoked" /\ e.subject = k
    BY <1>0 DEF RevokeApiKey, WriteAuditEvent
  <2>. HIDE DEF e
  <2>. QED
    BY <2>1
<1>3. pc' = [pc EXCEPT ![a] = "done"] /\ work' = work /\ after' = after
  BY DEF RevokeApiKey, Goto, adminVars
<1>4. key' = [key EXCEPT ![k].revoked = TRUE]
  BY <1>0 DEF RevokeApiKey
<1>5. /\ key[k] # Absent /\ key'[k] # Absent /\ key'[k].revoked /\ key'[k].owner = key[k].owner
      /\ \A j \in Keys : j # k => key'[j] = key[j]
  BY <1>1, <1>4, AccessAssumption DEF EntryInv, EntryShape, AccessAssumption, KeyRows
<1>6. /\ Revocations(k)' = Revocations(k) \cup {e}
      /\ \A j : j # k => Revocations(j)' = Revocations(j)
  BY <1>2 DEF Revocations, Events
<1>7. \A j : Events("admin.api_key_issued", j)' = Events("admin.api_key_issued", j)
  BY <1>2 DEF Events
<1>8. (\A x \in audit : x.by # a) /\ \A b \in Admins : a \notin after[b]
  BY <1>1 DEF LogInv, AuditOK, Authors
<1>9. \A f \in Revocations(k) : f.by \in Admins /\ f.by # a /\ f.by \notin after[a]
  BY <1>0, <1>1, <1>8 DEF KeyInv, KeyAccounted, RevokesBlindly, Revocations, Events
<1>10. \A x, y : Overlap(x, y)' <=> Overlap(x, y)
  BY <1>3 DEF Overlap
<1>11. \A f \in Revocations(k) : Overlap(f.by, e.by) /\ Overlap(e.by, f.by)
  BY <1>2, <1>8, <1>9 DEF Overlap
<1>12. ASSUME NEW j \in Keys PROVE KeyAccounted(j)'
  <2>1. KeyAccounted(j)
    BY DEF KeyInv
  <2>2. CASE j = k
    BY <1>2, <1>5, <1>6, <1>7, <1>10, <1>11, <2>1, <2>2, SMT DEF KeyAccounted
  <2>3. CASE j # k
    BY <1>5, <1>6, <1>7, <1>10, <2>1, <2>3, SMT DEF KeyAccounted
  <2>. QED
    BY <2>2, <2>3
<1>13. ASSUME NEW b \in Admins PROVE RevokesBlindly(b)'
  <2>1. pc'[b] = "revoke" => pc[b] = "revoke"
    BY <1>1, <1>3 DEF Requests
  <2>2. RevokesBlindly(b)
    BY DEF KeyInv
  <2>3. \A j : \A f \in Revocations(j)' : f \in Revocations(j) \/ f = e
    BY <1>6
  <2>. QED
    BY <1>2, <1>3, <1>8, <2>1, <2>2, <2>3 DEF RevokesBlindly
<1>. QED
  BY <1>12, <1>13 DEF KeyInv

\* The audit log accounts for every key, for any number of admins that issue
\* and revoke at the same time: one row for its issue, a row if and only if it
\* is revoked, and two only from revocations neither of which could have seen
\* the other.
THEOREM KeysMatchTheLog == Spec => []AuditMatchesKeys
<1>1. Init => KeyInv
  BY AccessAssumption, SMT DEF Init, KeyInv, KeyAccounted, RevokesBlindly, Revocations, Events,
                          Requests, AccessAssumption
<1>2. LogInv /\ EntryInv /\ KeyInv /\ [Next]_vars => KeyInv'
  BY KeyQuietKeepsInv, OthersAreKeyQuiet, LoadKeyKeepsInv, IssueKeepsInv, RevokeKeepsInv
<1>3. KeyInv => AuditMatchesKeys
  BY DEF KeyInv, KeyAccounted, Revocations, AuditMatchesKeys
<1>. QED
  BY <1>1, <1>2, <1>3, LogInvariance, EntryInvariance, PTL DEF Spec
=============================================================================
