----------------------------- MODULE MCGateway ------------------------------
(* The two gatekeepers share no state: Init picks the one that is used.    *)
(* Limits are slow, fast and one that never refills.  Tenant alpha exists  *)
(* with one key, beta may come; the grants move keys between users and     *)
(* give a user another role, with the same key or another one.             *)
EXTENDS RateLimiter, GatewayAuth

VARIABLE subject

MCLimits == {[rate |-> 2, capacity |-> 3], [rate |-> 0, capacity |-> 1]}
MCDefault == [rate |-> 1, capacity |-> 2]

KeyFor(t, k, r, u) == [tenant_id |-> t, api_key |-> k, role |-> r, username |-> u]
Wide == [admin |-> {"read", "write"}, viewer |-> {"read"}]
MCRoleTables == {Wide, [viewer |-> {"write"}]}
MCDefaultTables == [alpha |-> Wide]
MCDefaultKeys == {KeyFor("alpha", "k1", "admin", "alice")}
MCKeyGrants == MCDefaultKeys \cup
  {KeyFor("alpha", "k2", "viewer", "alice"), KeyFor("alpha", "k1", "viewer", "bob"),
   KeyFor("alpha", "k1", "viewer", "alice"), KeyFor("beta", "k1", "viewer", "alice")}
MCExpiries == {-1, 1}

GatewayInit == subject \in {"limiter", "auth"} /\ Init /\ AuthInit
GatewayNext == /\ UNCHANGED subject
               /\ \/ subject = "limiter" /\ Next /\ UNCHANGED authVars
                  \/ subject = "auth" /\ AuthNext /\ UNCHANGED vars
GatewaySpec == GatewayInit /\ [][GatewayNext]_<<vars, authVars, subject>>
=============================================================================
