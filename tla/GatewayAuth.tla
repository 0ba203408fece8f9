---------------------------- MODULE GatewayAuth -----------------------------
(***************************************************************************)
(* MultiTenantAuthManager of src/pqc_bench/gateway/auth.py: tenants with   *)
(* their role tables, API keys and users, and the tokens issued to users.  *)
(*                                                                         *)
(* The clock counts parts of a second: tokens expire at whole seconds.  A  *)
(* token is its payload; one that was not signed here has a signature that *)
(* does not match, and verify_jwt answers None to it.  An operation that   *)
(* raises ValueError changes nothing and is no action.                     *)
(***************************************************************************)
EXTENDS Integers, FiniteSets

CONSTANTS Tenants, Keys, Users,
          RoleTables,     \* functions from roles to sets of permissions
          DefaultTables,  \* what __init__ registers: role tables of some tenants
          DefaultKeys,    \* and the keys it adds: arguments of add_api_key
          KeyGrants,      \* all arguments of add_api_key
          Expiries,       \* values of expiry_seconds
          Second,         \* parts of a second the clock tells apart
          LastTime, MaxTokens

Roles == UNION {DOMAIN table : table \in RoleTables}
Grant == [tenant_id : Tenants, api_key : Keys, role : Roles, username : Users]
Claim == [tenant_id : Tenants, username : Users, role : Roles]
ClaimOf(g) == [tenant_id |-> g.tenant_id, username |-> g.username, role |-> g.role]

ASSUME TableAssumption == /\ DOMAIN DefaultTables \subseteq Tenants
                          /\ DefaultTables \in [DOMAIN DefaultTables -> RoleTables]
                          /\ DefaultKeys \subseteq KeyGrants /\ KeyGrants \subseteq Grant
                          /\ \A g \in DefaultKeys : /\ g.tenant_id \in DOMAIN DefaultTables
                                                    /\ g.role \in DOMAIN DefaultTables[g.tenant_id]
ASSUME KeyAssumption == \A g, h \in DefaultKeys : g.tenant_id = h.tenant_id =>
                          (g.api_key = h.api_key \/ g.username = h.username => g = h)
ASSUME SecondAssumption == /\ Second \in Nat \ {0} /\ {LastTime, MaxTokens} \subseteq Nat
                          /\ Expiries \subseteq Int

VARIABLES roles,      \* of the tenants there are: the role table
          api_keys,   \* per tenant: its keys with username and role
          users,      \* per tenant: its users with role and api_key
          time,       \* time.time()
          tokens,     \* the tokens issued, with the time they were
          claims      \* the roles claims to users since their tenant's registration

tables == <<roles, api_keys, users, claims>>
authVars == <<tables, time, tokens>>

Identity == [username : Users, role : Roles]
Account == [role : Roles, api_key : Keys]
Token == [tenant_id : Tenants, username : Users, role : Roles, exp : Int,
          issued : 0..LastTime, expiry : Expiries, entitled : BOOLEAN]
Of(grants, t) == {g \in grants : g.tenant_id = t}

AuthTypeOK == /\ roles \in UNION {[T -> RoleTables] : T \in SUBSET Tenants}
              /\ api_keys \in [DOMAIN roles -> UNION {[K -> Identity] : K \in SUBSET Keys}]
              /\ users \in [DOMAIN roles -> UNION {[U -> Account] : U \in SUBSET Users}]
              /\ time \in 0..LastTime /\ tokens \subseteq Token
              /\ claims \subseteq Claim

AuthInit ==
  /\ roles = DefaultTables
  /\ api_keys = [t \in DOMAIN roles |-> [k \in {g.api_key : g \in Of(DefaultKeys, t)} |->
       LET g == CHOOSE g \in Of(DefaultKeys, t) : g.api_key = k IN [username |-> g.username, role |-> g.role]]]
  /\ users = [t \in DOMAIN roles |-> [u \in {g.username : g \in Of(DefaultKeys, t)} |->
       LET g == CHOOSE g \in Of(DefaultKeys, t) : g.username = u IN [role |-> g.role, api_key |-> g.api_key]]]
  /\ claims = {ClaimOf(g) : g \in DefaultKeys}
  /\ time = 0 /\ tokens = {}

\* Python's assignment to a key of a dictionary.
Put(dict, k, v) == [x \in DOMAIN dict \cup {k} |-> IF x = k THEN v ELSE dict[x]]
Empty == [x \in {} |-> x]

-----------------------------------------------------------------------------

\* Mutant: a tenant that is registered again keeps its keys.
RegisterRolesOnly(t, table) == /\ roles' = Put(roles, t, table)
                               /\ api_keys' = IF t \in DOMAIN roles THEN api_keys ELSE Put(api_keys, t, Empty)
                               /\ users' = IF t \in DOMAIN roles THEN users ELSE Put(users, t, Empty)
                               /\ claims' = claims \ Of(claims, t)
                               /\ UNCHANGED <<time, tokens>>

RegisterTenant(t, table) == /\ roles' = Put(roles, t, table)
                            /\ api_keys' = Put(api_keys, t, Empty)
                            /\ users' = Put(users, t, Empty)
                            /\ claims' = claims \ Of(claims, t)
                            /\ UNCHANGED <<time, tokens>>

\* Mutant: a key that exists keeps its entry.
SetDefault(dict, g) == IF g.api_key \in DOMAIN dict THEN dict
                       ELSE Put(dict, g.api_key, [username |-> g.username, role |-> g.role])

KeyEntry(dict, g) == Put(dict, g.api_key, [username |-> g.username, role |-> g.role])

AddApiKey(g) ==
  LET t == g.tenant_id
  IN  /\ t \in DOMAIN roles /\ g.role \in DOMAIN roles[t]
      /\ api_keys' = [api_keys EXCEPT ![t] = KeyEntry(api_keys[t], g)]
      /\ users' = [users EXCEPT ![t] = Put(users[t], g.username, [role |-> g.role, api_key |-> g.api_key])]
      /\ claims' = claims \cup {ClaimOf(g)}
      /\ UNCHANGED <<roles, time, tokens>>

Exp(expiry) == time \div Second + expiry

GenerateJwt(t, u, expiry) ==
  /\ t \in DOMAIN roles /\ u \in DOMAIN users[t]
  /\ Cardinality(tokens) < MaxTokens
  /\ tokens' = tokens \cup {[tenant_id |-> t, username |-> u, role |-> users[t][u].role,
                             exp |-> Exp(expiry), issued |-> time, expiry |-> expiry,
                             entitled |-> [tenant_id |-> t, username |-> u, role |-> users[t][u].role] \in claims]}
  /\ UNCHANGED <<tables, time>>

\* time.time() may also be set back.
Clock == time' \in 0..LastTime /\ UNCHANGED <<tables, tokens>>

AuthNext == \/ \E t \in Tenants, table \in RoleTables : RegisterTenant(t, table)
            \/ \E g \in KeyGrants : AddApiKey(g)
            \/ \E t \in Tenants, u \in Users, expiry \in Expiries : GenerateJwt(t, u, expiry)
            \/ Clock

AuthSpec == AuthInit /\ [][AuthNext]_authVars

-----------------------------------------------------------------------------
(* What the operations that only read answer: the context of the caller, or*)
(* none for Python's None.                                                 *)

Context(t, u, r) == [tenant_id |-> t, username |-> u, role |-> r, permissions |-> roles[t][r]]

Held(t, k) == t \in DOMAIN roles /\ k \in DOMAIN api_keys[t]
\* The role of the key is no key of the tenant's roles.
KeyError(t, k) == Held(t, k) /\ api_keys[t][k].role \notin DOMAIN roles[t]

AuthenticateApiKey(t, k) ==
  IF Held(t, k) THEN {Context(t, api_keys[t][k].username, api_keys[t][k].role)} ELSE {}

Expired(token) == token.exp * Second < time

VerifyJwt(token) ==
  LET t == token.tenant_id
  IN  IF ~Expired(token) /\ t \in DOMAIN roles /\ token.role \in DOMAIN roles[t]
      THEN {Context(t, token.username, token.role)} ELSE {}

CheckPermission(answer, permission) == \E context \in answer : permission \in context.permissions

-----------------------------------------------------------------------------
(* Properties.                                                             *)

\* Whoever is let in is so in a role the manager claims and the tenant's
\* present table defines: a key since the tenant was registered last, a token
\* at any time, since tokens outlive a registration, but no longer than it was
\* issued for, to within the second its expiry is cut to, also if the clock is
\* set back.  No key fails with KeyError.
AdmittedAsGranted ==
  /\ AuthTypeOK
  /\ \A t \in Tenants, k \in Keys :
       /\ ~KeyError(t, k)
       /\ \A context \in AuthenticateApiKey(t, k) : ClaimOf(context) \in claims
  /\ \A token \in tokens :
       LET end == token.issued + token.expiry * Second
       IN  /\ VerifyJwt(token) # {} => token.entitled /\ time <= end
           /\ time <= end - (Second - 1) => ~Expired(token)

\* The key on record for a user and a token issued to the user now give the
\* same role and permissions, however often keys were added, moved to other
\* users or issued with another role; unless the key was given to somebody else.
KeyAndTokenAgree ==
  \A t \in DOMAIN roles : \A u \in DOMAIN users[t] :
    LET account == users[t][u]
    IN  /\ account.api_key \in DOMAIN api_keys[t]
        /\ LET info == api_keys[t][account.api_key]
           IN  info.username = u =>
                 /\ info.role = account.role
                 /\ \A permission \in UNION {roles[t][r] : r \in DOMAIN roles[t]} :
                      CheckPermission(AuthenticateApiKey(t, account.api_key), permission)
                        <=> permission \in roles[t][account.role]
=============================================================================
