---------------------------- MODULE TenantAccess ----------------------------
(***************************************************************************)
(* Who gets in and on whose terms: API-key authentication                  *)
(* (middleware/auth.py) and the usage row it ends in (services/usage.py),  *)
(* against the admin API (api/admin.py, middleware/admin_auth.py) that     *)
(* changes tenants and keys meanwhile, with the audit rows of both.        *)
(*                                                                         *)
(* Transactions are READ COMMITTED: a statement sees what has committed, a *)
(* request sees its own writes of a transaction all at once or not at all. *)
(* A step is what a request does up to the end of a statement whose result *)
(* it uses, or of a commit.  The row-level security settings of a session  *)
(* last until its next commit (scope); tenants itself has no policy.       *)
(* Loaded rows are ORM objects: a commit writes the columns whose value    *)
(* the request changed, against the row it loaded, and no others.          *)
(*                                                                         *)
(* Two Boolean columns stand for the columns of a tenant: is_active, which *)
(* authentication reads, and one that only the policy snapshot carries.    *)
(***************************************************************************)
EXTENDS Naturals, FiniteSets

CONSTANTS
    Tenants, Keys,
    OldTenants,       \* tenants created earlier, with their defaults
    OldKeys,          \* keys issued earlier, and not revoked
    OldOwner,         \* the tenants of these keys
    Callers,          \* requests to /v1
    Admins,           \* requests to /admin
    Payloads,         \* bodies of PATCH, as functions on the columns they set
    Absent,           \* no such row
    Unset, Bypass     \* settings of a session other than a tenant

Columns == {"is_active", "cache_enabled"}
Defaults == [f \in Columns |-> TRUE]
Rows == [Columns -> BOOLEAN]
KeyRows == [owner : Tenants, revoked : BOOLEAN]

ASSUME AccessAssumption ==
    /\ OldTenants \subseteq Tenants
    /\ OldKeys \subseteq Keys
    /\ OldOwner \in [OldKeys -> OldTenants]
    /\ Payloads \subseteq UNION {[S -> BOOLEAN] : S \in SUBSET Columns}
    /\ Callers \cap Admins = {}
    /\ Absent \notin Rows /\ Absent \notin KeyRows
    /\ Unset # Bypass /\ Unset \notin Tenants /\ Bypass \notin Tenants

VARIABLES
    tenant, key,   \* the rows of tenants and api_keys
    audit,         \* the rows of audit_log
    usage,         \* the callers that have a row in usage_records
    pc, scope,     \* of each request: where it is, settings of its session
    presented,     \* the credentials of a caller
    reason,        \* the verdict of get_current_tenant
    seenKey, ctx,  \* the rows a caller loaded; ctx is its policy afterwards
    work,          \* what an admin request is about, with the row it loaded
    after,         \* history: whose changes had committed when it began
    witnessed      \* history: rows behind a key while its caller was checked

dbVars == <<tenant, key, audit, usage>>
callerVars == <<presented, reason, seenKey, ctx>>
adminVars == <<work, after>>
vars == <<dbVars, pc, scope, callerVars, adminVars, witnessed>>

Requests == Callers \cup Admins

NoChange == [f \in {} |-> TRUE]
Idle == [tenant |-> Absent, key |-> Absent, row |-> Absent]

Init ==
    /\ tenant = [t \in Tenants |-> IF t \in OldTenants THEN Defaults ELSE Absent]
    /\ key = [k \in Keys |-> IF k \in OldKeys
                             THEN [owner |-> OldOwner[k], revoked |-> FALSE] ELSE Absent]
    /\ audit = {}
    /\ usage = {}
    /\ pc = [x \in Requests |-> "new"]
    /\ scope = [x \in Requests |-> Unset]
    /\ presented = [c \in Callers |-> Absent]
    /\ reason = [c \in Callers |-> "none"]
    /\ seenKey = [c \in Callers |-> Absent]
    /\ ctx = [c \in Callers |-> Absent]
    /\ work = [a \in Admins |-> Idle]
    /\ after = [a \in Admins |-> {}]
    /\ witnessed = [c \in Callers |-> {}]

\* The tenant_isolation policy, for a row of a tenant.
Allowed(s, t) == s = Bypass \/ s = t

\* A request moves on, leaving its session with these settings.
Goto(x, stage, s) ==
    /\ pc' = [pc EXCEPT ![x] = stage]
    /\ scope' = [scope EXCEPT ![x] = s]

\* write_audit_event: one row, written under bypass whatever the settings
\* were, and committed with all the session has changed.
\* The subject is a key or the reason of a failure.
WriteAuditEvent(x, event, t, subject, changes) ==
    audit' = audit \cup {[by |-> x, event |-> event, tenant |-> t,
                          subject |-> subject, changes |-> changes]}

-----------------------------------------------------------------------------
(* get_current_tenant *)

\* What parse_api_key and the header make of a caller's credentials.
Credentials ==
    [flaw : {"none"}, key : Keys, good : BOOLEAN]
        \cup [flaw : {"missing_bearer_token", "malformed_api_key"}, key : {Absent}, good : {FALSE}]

\* The rows a key leads to.
Behind(k, keys, tenants) ==
    [key |-> keys[k],
     tenant |-> IF keys[k] = Absent THEN Absent ELSE tenants[keys[k].owner]]

Arrive(c) ==
    /\ pc[c] = "new"
    /\ \E p \in Credentials :
          /\ presented' = [presented EXCEPT ![c] = p]
          /\ reason' = [reason EXCEPT ![c] = p.flaw]
          /\ IF p.flaw # "none"
             THEN Goto(c, "refusing", Unset) /\ UNCHANGED witnessed
             ELSE /\ Goto(c, "lookup", Unset)
                  /\ witnessed' = [witnessed EXCEPT ![c] = {Behind(p.key, key, tenant)}]
    /\ UNCHANGED <<dbVars, seenKey, ctx, adminVars>>

\* The check of revoked_at is forgotten.
KeyVerdictUnrevoked(row, good) ==
    CASE row = Absent -> "key_not_found"
      [] row # Absent /\ ~good -> "invalid_secret"
      [] OTHER -> "none"

\* The checks on the row that was found, in the order of the code.
KeyVerdict(row, good) ==
    CASE row = Absent -> "key_not_found"
      [] row # Absent /\ row.revoked -> "key_revoked"
      [] row # Absent /\ ~row.revoked /\ ~good -> "invalid_secret"
      [] OTHER -> "none"

\* SELECT ... WHERE key_id, in a session with these settings.
LookupIn(c, s) ==
    /\ pc[c] = "lookup"
    /\ LET k == presented[c].key
           row == IF key[k] # Absent /\ Allowed(s, key[k].owner) THEN key[k] ELSE Absent
           verdict == KeyVerdict(row, presented[c].good)
       IN  /\ seenKey' = [seenKey EXCEPT ![c] = row]
           /\ reason' = [reason EXCEPT ![c] = verdict]
           /\ Goto(c, IF verdict = "none" THEN "tenant" ELSE "refusing", s)
    /\ UNCHANGED <<dbVars, presented, ctx, adminVars, witnessed>>

\* Without the bypass the row of an unknown tenant cannot be seen.
LookupUnscoped(c) == LookupIn(c, scope[c])

Lookup(c) == LookupIn(c, Bypass)

\* The tenant is read under its own settings; it may have been deactivated.
ReadTenant(c) ==
    /\ pc[c] = "tenant"
    /\ LET t == seenKey[c].owner
           row == tenant[t]
           ok == row # Absent /\ row["is_active"]
       IN  /\ ctx' = [ctx EXCEPT ![c] = row]
           /\ reason' = [reason EXCEPT ![c] = IF ok THEN "none" ELSE "tenant_inactive"]
           /\ Goto(c, IF ok THEN "admitting" ELSE "refusing", t)
    /\ UNCHANGED <<dbVars, presented, seenKey, adminVars, witnessed>>

\* Every failure path: the audit row, committed, and then the exception.
Refuse(c) ==
    /\ pc[c] = "refusing"
    /\ WriteAuditEvent(c, "auth.failure",
                       IF seenKey[c] = Absent THEN Absent ELSE seenKey[c].owner,
                       reason[c], NoChange)
    /\ Goto(c, "refused", Unset)
    /\ UNCHANGED <<tenant, key, usage, callerVars, adminVars, witnessed>>

\* The whole loaded row is written back.
AdmitWritesBack(c) ==
    /\ pc[c] = "admitting"
    /\ key' = [key EXCEPT ![presented[c].key] = seenKey[c]]
    /\ Goto(c, "admitted", Unset)
    /\ UNCHANGED <<tenant, audit, usage, callerVars, adminVars, witnessed>>

\* The commit of the checks: last_used_at is the one column that changed.
Admit(c) ==
    /\ pc[c] = "admitting"
    /\ Goto(c, IF Allowed(scope[c], seenKey[c].owner) THEN "admitted" ELSE "error", Unset)
    /\ UNCHANGED <<dbVars, callerVars, adminVars, witnessed>>

\* record_usage, at the end of a completion: a row under these settings.
RecordUsageIn(c, s) ==
    /\ pc[c] = "admitted"
    /\ LET ok == Allowed(s, seenKey[c].owner)
       IN  /\ usage' = IF ok THEN usage \cup {c} ELSE usage
           /\ Goto(c, IF ok THEN "served" ELSE "error", Unset)
    /\ UNCHANGED <<tenant, key, audit, callerVars, adminVars, witnessed>>

\* The settings that authentication made are gone since its commit.
RecordUsageAmbient(c) == RecordUsageIn(c, scope[c])

RecordUsage(c) == RecordUsageIn(c, seenKey[c].owner)

-----------------------------------------------------------------------------
(* api/admin.py *)

\* A change by an admin is seen by all the callers being checked.
Witness ==
    witnessed' = [c \in Callers |->
        IF pc[c] \in {"lookup", "tenant", "admitting"}
        THEN witnessed[c] \cup {Behind(presented[c].key, key', tenant')}
        ELSE witnessed[c]]

\* login: tokens are kept nowhere, failures are audited.
Login(a) ==
    /\ pc[a] = "new"
    /\ \/ UNCHANGED audit
       \/ WriteAuditEvent(a, "admin.login_failure", Absent, Absent, NoChange)
    /\ Goto(a, "done", Unset)
    /\ UNCHANGED <<tenant, key, usage, callerVars, adminVars, witnessed>>

\* get_current_admin: turned away without a trace, or let in with a
\* transaction that has begun and sees every row.
GetCurrentAdmin(a) ==
    /\ pc[a] = "new"
    /\ \/ Goto(a, "done", Unset) /\ UNCHANGED after
       \/ /\ Goto(a, "in", Bypass)
          /\ after' = [after EXCEPT ![a] = {e.by : e \in audit} \cap Admins]
    /\ UNCHANGED <<dbVars, callerVars, work, witnessed>>

\* The endpoints that read: a list or a row of what is committed.
ReadRows(a) ==
    /\ pc[a] = "in"
    /\ Goto(a, "done", Unset)
    /\ UNCHANGED <<dbVars, callerVars, adminVars, witnessed>>

\* create_tenant: the columns of the body, the others by default.
CreateTenant(a) ==
    /\ pc[a] = "in"
    /\ \E t \in Tenants, cached \in BOOLEAN :
          /\ tenant[t] = Absent
          /\ tenant' = [tenant EXCEPT ![t] = [Defaults EXCEPT !["cache_enabled"] = cached]]
          /\ WriteAuditEvent(a, "admin.tenant_created", t, Absent, NoChange)
    /\ Goto(a, "done", Unset)
    /\ UNCHANGED <<key, usage, callerVars, adminVars>>
    /\ Witness

\* session.get(Tenant, ...) of update_tenant and create_api_key, or 404.
LoadTenant(a, kind) ==
    /\ pc[a] = "in"
    /\ \E t \in Tenants :
          IF tenant[t] = Absent
          THEN Goto(a, "done", Unset) /\ UNCHANGED work
          ELSE /\ Goto(a, kind, Bypass)
               /\ work' = [work EXCEPT ![a] =
                       [tenant |-> t, key |-> Absent, row |-> tenant[t]]]
    /\ UNCHANGED <<dbVars, callerVars, after, witnessed>>

\* A whole loaded row is written back.
UpdatedWhole(row, loaded, changes) ==
    [f \in Columns |-> IF f \in DOMAIN changes THEN changes[f] ELSE loaded[f]]

\* setattr on a loaded row, flushed: only what differs from it is written.
Updated(row, loaded, changes) ==
    [f \in Columns |-> IF f \in DOMAIN changes /\ changes[f] # loaded[f]
                       THEN changes[f] ELSE row[f]]

\* The rest of update_tenant: one commit for the row and its audit event.
UpdateTenant(a) ==
    /\ pc[a] = "patch"
    /\ \E changes \in Payloads :
          LET t == work[a].tenant
          IN  /\ tenant' = [tenant EXCEPT ![t] = Updated(tenant[t], work[a].row, changes)]
              /\ WriteAuditEvent(a, "admin.tenant_updated", t, Absent, changes)
    /\ Goto(a, "done", Unset)
    /\ UNCHANGED <<key, usage, callerVars, adminVars>>
    /\ Witness

\* The rest of create_api_key: generate_api_key never repeats an id.
CreateApiKey(a) ==
    /\ pc[a] = "issue"
    /\ \E k \in Keys :
          /\ key[k] = Absent
          /\ key' = [key EXCEPT ![k] = [owner |-> work[a].tenant, revoked |-> FALSE]]
          /\ WriteAuditEvent(a, "admin.api_key_issued", work[a].tenant, k, NoChange)
    /\ Goto(a, "done", Unset)
    /\ UNCHANGED <<tenant, usage, callerVars, adminVars>>
    /\ Witness

\* The select of revoke_api_key: 404, nothing left to do, or go on.
LoadKey(a) ==
    /\ pc[a] = "in"
    /\ \E t \in Tenants, k \in Keys :
          IF key[k] # Absent /\ key[k].owner = t /\ ~key[k].revoked
          THEN /\ Goto(a, "revoke", Bypass)
               /\ work' = [work EXCEPT ![a] = [tenant |-> t, key |-> k, row |-> key[k]]]
          ELSE Goto(a, "done", Unset) /\ UNCHANGED work
    /\ UNCHANGED <<dbVars, callerVars, after, witnessed>>

\* The rest of revoke_api_key.
RevokeApiKey(a) ==
    /\ pc[a] = "revoke"
    /\ key' = [key EXCEPT ![work[a].key].revoked = TRUE]
    /\ WriteAuditEvent(a, "admin.api_key_revoked", work[a].tenant, work[a].key, NoChange)
    /\ Goto(a, "done", Unset)
    /\ UNCHANGED <<tenant, usage, callerVars, adminVars>>
    /\ Witness

-----------------------------------------------------------------------------
Ended == {"refused", "served", "error", "done", "gone"}

\* A client hangs up, a statement fails (a duplicate name, a null where the
\* column takes none) or the process dies: the session rolls back.
Abort(x) ==
    /\ pc[x] \notin Ended \cup {"new"}
    /\ Goto(x, "gone", Unset)
    /\ UNCHANGED <<dbVars, callerVars, adminVars, witnessed>>

AllEnded == (\A x \in Requests : pc[x] \in Ended) /\ UNCHANGED vars

Next ==
    \/ \E c \in Callers :
          Arrive(c) \/ Lookup(c) \/ ReadTenant(c) \/ Refuse(c) \/ Admit(c) \/ RecordUsage(c)
    \/ \E a \in Admins :
          \/ Login(a) \/ GetCurrentAdmin(a) \/ ReadRows(a) \/ CreateTenant(a)
          \/ LoadTenant(a, "patch") \/ UpdateTenant(a)
          \/ LoadTenant(a, "issue") \/ CreateApiKey(a)
          \/ LoadKey(a) \/ RevokeApiKey(a)
    \/ \E x \in Requests : Abort(x)
    \/ AllEnded

Spec == Init /\ [][Next]_vars

-----------------------------------------------------------------------------
\* A caller is let in only with the secret of a key that was not revoked at
\* some moment of its check, and carries through the request a policy that its
\* active tenant had at some moment of the check: neither is older than the
\* request, whatever admins commit between the three statements of
\* get_current_tenant.
AdmittedWasEntitled ==
    \A c \in Callers : pc[c] \in {"admitted", "served"} =>
        /\ presented[c].good
        /\ \E s \in witnessed[c] : s.key # Absent /\ ~s.key.revoked
        /\ ctx[c]["is_active"]
        /\ \E s \in witnessed[c] : s.tenant = ctx[c]

\* What is said of a caller that was turned away was true of the rows behind
\* its key at some moment of the check.
Held(c, why) ==
    \/ why = presented[c].flaw
    \/ \E s \in witnessed[c] :
          \/ why = "key_not_found" /\ s.key = Absent
          \/ why = "key_revoked" /\ s.key # Absent /\ s.key.revoked
          \/ why = "invalid_secret" /\ s.key # Absent /\ ~presented[c].good
          \/ why = "tenant_inactive" /\ s.tenant # Absent /\ ~s.tenant["is_active"]

\* get_current_tenant leaves one audit row when it refuses, with a reason that
\* held, and none when it admits; an unknown key is never reported for one
\* that exists but could not be seen.
RefusalIsTruthful ==
    \A c \in Callers :
        LET said == {e \in audit : e.by = c}
        IN  /\ pc[c] = "refused" => \E e \in audit : said = {e} /\ Held(c, e.subject)
            /\ pc[c] # "refused" => said = {}

\* No statement of a request runs under settings that deny it its own row: the
\* settings of a session end with every commit, and each part of a request
\* that writes makes them anew.
ContextAlwaysFits == \A c \in Callers : pc[c] # "error"

\* Neither of two requests had committed when the transaction of the other
\* began.
Overlap(a, b) == a # b /\ a \notin after[b] /\ b \notin after[a]

Events(event, subject) == {e \in audit : e.event = event /\ e.subject = subject}

\* The audit log accounts for every key: a key beyond the old ones has the one
\* row of its issue, for its owner; it is revoked for good exactly when a row
\* says so, and there are two such rows only of revocations that overlapped
\* (the check of revoked_at in revoke_api_key is not atomic with its write).
AuditMatchesKeys ==
    \A k \in Keys :
        LET issues == Events("admin.api_key_issued", k)
            revocations == Events("admin.api_key_revoked", k)
        IN  /\ key[k] # Absent /\ k \notin OldKeys
                  => \E e \in issues : issues = {e} /\ e.tenant = key[k].owner
            /\ key[k] = Absent => issues \cup revocations = {}
            /\ key[k] # Absent => (key[k].revoked <=> revocations # {})
            /\ \A e, f \in revocations : e # f => Overlap(e.by, f.by)

Updates(t, f) ==
    {e \in audit : e.event = "admin.tenant_updated" /\ e.tenant = t /\ f \in DOMAIN e.changes}

\* A column of a tenant has the value that the newest audit row naming it
\* says, unless updates that name this column overlapped: one that names other
\* columns never undoes it.  Rows are as old as their transactions
\* (audit_log.created_at), so the newest began after all the others had
\* committed.  A tenant is active until a row says otherwise.
FieldFollowsAudit ==
    \A t \in Tenants, f \in Columns :
        LET rows == Updates(t, f)
        IN  tenant[t] # Absent /\ (\A x, y \in rows : ~Overlap(x.by, y.by)) =>
                /\ \A x \in rows :
                      (\A y \in rows : x = y \/ y.by \in after[x.by])
                          => tenant[t][f] = x.changes[f]
                /\ rows = {} /\ f = "is_active" => tenant[t][f]
=============================================================================
