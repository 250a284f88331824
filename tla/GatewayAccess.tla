---------------------------- MODULE GatewayAccess ----------------------------
(***************************************************************************)
(* Who may do what at the gateway: the tokens that the JWT manager issues  *)
(* (gateway/auth/jwt_manager.py), the list of revoked ones in Redis and in *)
(* memory (gateway/auth/token_blacklist.py), the policy                    *)
(* (gateway/auth/rbac.py) and the bucket of requests                       *)
(* (gateway/rate_limiting).  GatewayTasks has the tasks that use them.     *)
(*                                                                         *)
(* The k-th pair of tokens has the names <<"access", k>> and               *)
(* <<"refresh", k>>; what an access token says of its bearer is a          *)
(* principal.  There is one bucket: keys do not interfere.                 *)
(***************************************************************************)
EXTENDS Integers, Sequences, FiniteSets

CONSTANTS
    MaxPairs,       \* bound: pairs of tokens ever issued
    Logins,         \* the demo users that log in
    Burst           \* capacity of the bucket

ASSUME AccessAssumption == MaxPairs \in Nat /\ Burst \in Nat

VARIABLES
    pairs,          \* [user, principal] of every pair issued
    expired,        \* tokens whose time is over
    redisUp,        \* Redis is there and answers
    inRedis,        \* revoked tokens, as Redis has them
    inMemory,       \* _memory: those that Redis could not take
    revoked,        \* history: those revoked since Redis last came or went
    bucket          \* whole tokens in the bucket

access == <<pairs, expired, redisUp, inRedis, inMemory, revoked, bucket>>

-----------------------------------------------------------------------------
(* Principals *)

Permission(resource, verb) == <<resource, verb>>

Principal(type, roles, permissions) ==
    [type |-> type, roles |-> roles, permissions |-> permissions]

\* _demo_users
DemoUser == [
    b2b |-> Principal("B2B_PURCHASER", {"B2B_PURCHASER"},
        {Permission("inputs", "*"), Permission("sessions", "*"), Permission("ws", "connect")}),
    b2c |-> Principal("B2C_CONSUMER", {"B2C_CONSUMER"},
        {Permission("inputs", "write"), Permission("sessions", "read"), Permission("ws", "connect")}),
    admin |-> Principal("ADMIN", {"ADMIN", "SUPER_ADMIN"}, {Permission("*", "*")})]

Partner == Principal("PARTNER", {"PARTNER"}, {Permission("inputs", "*"), Permission("sessions", "*")})
Anonymous == Principal("ANONYMOUS", {"GUEST"}, {})

HasPermission(principal, permission) ==
    {permission, Permission(permission[1], "*"), Permission("*", "*")} \cap principal.permissions # {}

-----------------------------------------------------------------------------
(* The policy, for the routes that the proxy serves. *)

PolicyRule(permissions, roles) == [permissions |-> permissions, roles |-> roles]

default_policy == [
    inputs |-> PolicyRule({Permission("inputs", "write"), Permission("inputs", "*")}, {}),
    sessions |-> PolicyRule({Permission("sessions", "read"), Permission("sessions", "*")}, {}),
    system |-> PolicyRule({}, {"ADMIN", "SUPER_ADMIN", "ANALYST"})]

Routes == DOMAIN default_policy \cup {"unlisted"}

\* authorize
Authorized(principal, route) ==
    /\ principal.type # "ANONYMOUS"
    /\ route \in DOMAIN default_policy =>
          LET rule == default_policy[route]
          IN  /\ rule.roles = {} \/ rule.roles \cap principal.roles # {}
              /\ rule.permissions = {} \/ \E p \in rule.permissions : HasPermission(principal, p)

MayConnect(principal) ==
    HasPermission(principal, Permission("ws", "connect")) \/ HasPermission(principal, Permission("inputs", "*"))

-----------------------------------------------------------------------------
(* Tokens *)

Tokens == {"access", "refresh"} \X (1..MaxPairs)
Issued == {"access", "refresh"} \X DOMAIN pairs

\* _decode accepts it: the signature is good and its time is not over.
Decodes(token) == token \in Issued \ expired

AccessInit ==
    /\ pairs = <<>>
    /\ expired = {}
    /\ redisUp \in BOOLEAN
    /\ inRedis = {} /\ inMemory = {} /\ revoked = {}
    /\ bucket = Burst

\* issue
Issue(user, principal) ==
    /\ pairs' = Append(pairs, [user |-> user, principal |-> principal])
    /\ UNCHANGED <<expired, redisUp, inRedis, inMemory, revoked, bucket>>

\* contains
Contains(token) == token \in IF redisUp THEN inRedis ELSE inMemory

\* Mutant: what Redis cannot take is not kept at all.
Add_RedisOnly(token) ==
    /\ IF token \in expired \/ ~redisUp THEN UNCHANGED inRedis ELSE inRedis' = inRedis \cup {token}
    /\ revoked' = revoked \cup {token}
    /\ UNCHANGED <<pairs, expired, redisUp, inMemory, bucket>>

\* add: a token that expires meanwhile has no time left to be listed for.
Add(token) ==
    /\ IF token \in expired THEN UNCHANGED <<inRedis, inMemory, revoked>>
       ELSE /\ IF redisUp THEN inRedis' = inRedis \cup {token} /\ UNCHANGED inMemory
               ELSE inMemory' = inMemory \cup {token} /\ UNCHANGED inRedis
            /\ revoked' = revoked \cup {token}
    /\ UNCHANGED <<pairs, expired, redisUp, bucket>>

\* Access tokens live for minutes, refresh tokens for days.
Expire(token) ==
    /\ Decodes(token)
    /\ token[1] = "refresh" => <<"access", token[2]>> \in expired
    /\ expired' = expired \cup {token}
    /\ inRedis' = inRedis \ {token} /\ inMemory' = inMemory \ {token} /\ revoked' = revoked \ {token}
    /\ UNCHANGED <<pairs, redisUp, bucket>>

RedisComesOrGoes ==
    /\ redisUp' = ~redisUp
    /\ revoked' = {}
    /\ UNCHANGED <<pairs, expired, inRedis, inMemory, bucket>>

-----------------------------------------------------------------------------
(* The bucket *)

\* Mutant: the last token is given out twice.
TryConsume_Overdraws ==
    /\ bucket >= 0
    /\ bucket' = bucket - 1
    /\ UNCHANGED <<pairs, expired, redisUp, inRedis, inMemory, revoked>>

TryConsume ==
    /\ bucket > 0
    /\ bucket' = bucket - 1
    /\ UNCHANGED <<pairs, expired, redisUp, inRedis, inMemory, revoked>>

Refill ==
    /\ bucket < Burst
    /\ bucket' = bucket + 1
    /\ UNCHANGED <<pairs, expired, redisUp, inRedis, inMemory, revoked>>

AccessTypeOK ==
    /\ Len(pairs) <= MaxPairs
    /\ expired \subseteq Issued
    /\ inRedis \cup inMemory \cup revoked \subseteq Issued \ expired
    /\ bucket \in 0..Burst
=============================================================================
