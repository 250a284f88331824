---------------------------- MODULE GatewayTasks ----------------------------
(***************************************************************************)
(* The tasks of one gateway process: logging in and out, refreshing        *)
(* (gateway/api/auth_routes.py), requests on their way to the proxy        *)
(* (gateway/api/dependencies.py, proxy_routes.py) and WebSocket sessions   *)
(* (gateway/api/ws_routes.py), over the tokens, the policy and the bucket  *)
(* of GatewayAccess and the hub of GatewaySockets.  A step ends where the  *)
(* code awaits Redis, the lock's next holder or a peer.                    *)
(***************************************************************************)
EXTENDS GatewayAccess, GatewaySockets

CONSTANTS
    MaxJobs,        \* bound: logins, refreshes, logouts, requests and sessions
    MaxFaults       \* bound: times that Redis comes or goes or the process restarts

VARIABLES
    pc,             \* where each task awaits; free ones are idle or have just forbidden something
    held,           \* the token it was given, if any
    queue,          \* the connections that a session still has to send to
    orphans,        \* history: connections whose welcome failed
    limiterOnRedis, \* the limiter was built on Redis at startup
    jobs,           \* history: jobs begun
    faults          \* history: faults so far

job == <<pc, held>>
session == <<queue, orphans>>
process == <<capacity, limiterOnRedis, jobs, faults>>
vars == <<access, hub, job, session, process>>

NoToken == <<"none", 0>>
ApiKey == <<"api key", 0>>
\* Once a connection is an orphan its task is used up: nothing refers to it.
Free(t) == pc[t] = "idle" /\ t \notin orphans

Init ==
    /\ AccessInit /\ HubInit
    /\ pc = [t \in Tasks |-> "idle"]
    /\ held = [t \in Tasks |-> NoToken]
    /\ jobs = 0 /\ faults = 0
    /\ orphans = {}
    /\ queue = [t \in Tasks |-> {}]
    /\ limiterOnRedis = redisUp

Go(t, step) ==
    /\ pc' = [pc EXCEPT ![t] = step]
    /\ UNCHANGED held

\* A task is done and forgets what it was about.
End(t) ==
    /\ pc' = [pc EXCEPT ![t] = "idle"]
    /\ held' = [held EXCEPT ![t] = NoToken]

Begin(t, step, token) ==
    /\ Free(t)
    /\ pc' = [pc EXCEPT ![t] = step]
    /\ held' = [held EXCEPT ![t] = token]
    /\ jobs < MaxJobs /\ jobs' = jobs + 1
    /\ UNCHANGED <<access, hub, session, capacity, limiterOnRedis, faults>>

Bearer(t) == pairs[held[t][2]]

Caller(t) ==
    CASE held[t] = NoToken -> Anonymous
      [] held[t] = ApiKey  -> Partner
      [] OTHER             -> Bearer(t).principal

-----------------------------------------------------------------------------
(* Tokens.  A token that does not decode is refused there and then.        *)

\* Bound: room is left for what the refreshes under way will issue.
RoomForPairs ==
    Len(pairs) + Cardinality({t \in Tasks : pc[t] \in {"refresh_check", "refresh_revoke", "refresh_issue"}})
        < MaxPairs

Login(t) ==
    /\ Free(t) /\ RoomForPairs
    /\ \E user \in Logins : Issue(user, DemoUser[user])
    /\ UNCHANGED <<hub, job, session, process>>

BeginRefresh(t) ==
    /\ RoomForPairs
    /\ \E token \in Issued :
          /\ token[1] = "refresh" /\ Decodes(token)
          /\ Begin(t, "refresh_check", token)

\* verify_refresh
CheckRefresh(t) ==
    /\ pc[t] = "refresh_check"
    /\ IF Contains(held[t]) THEN End(t) ELSE Go(t, "refresh_revoke")
    /\ UNCHANGED <<access, hub, session, process>>

RevokeOld(t) ==
    /\ pc[t] = "refresh_revoke"
    /\ Add(held[t])
    /\ Go(t, "refresh_issue")
    /\ UNCHANGED <<hub, session, process>>

\* The route hands over neither roles nor permissions.
IssueNew(t) ==
    /\ pc[t] = "refresh_issue"
    /\ Issue(Bearer(t).user, Principal(Bearer(t).principal.type, {}, {}))
    /\ End(t)
    /\ UNCHANGED <<hub, session, process>>

\* Any token that decodes may be revoked, a refresh token too.
BeginLogout(t) ==
    \E token \in Issued :
        /\ Decodes(token)
        /\ Begin(t, "logout", token)

Revoke(t) ==
    /\ pc[t] = "logout"
    /\ Add(held[t])
    /\ End(t)
    /\ UNCHANGED <<hub, session, process>>

-----------------------------------------------------------------------------
(* Requests: get_principal, rate_limit_dependency, _proxy.                 *)

BeginRequest(t) ==
    \/ \E token \in Issued :
          /\ token[1] = "access" /\ Decodes(token)
          /\ Begin(t, "verify", token)
    \/ Begin(t, "limit", ApiKey)
    \/ Begin(t, "limit", NoToken)

\* Mutant: whatever decodes is good.
Verified_ByDecoding(t) == TRUE

\* verify_access, once the token is decoded.
Verified(t) == ~Contains(held[t])

Verify(t) ==
    /\ pc[t] = "verify"
    /\ IF Verified(t)
       THEN Go(t, "limit")
       ELSE End(t)
    /\ UNCHANGED <<access, hub, session, process>>

\* A limiter that was built on Redis fails without it.
LimiterFails(t) ==
    /\ pc[t] = "limit"
    /\ limiterOnRedis /\ ~redisUp
    /\ End(t)
    /\ UNCHANGED <<access, hub, session, process>>

Limited(t) ==
    /\ pc[t] = "limit"
    /\ ~(limiterOnRedis /\ ~redisUp) /\ bucket = 0
    /\ End(t)
    /\ UNCHANGED <<access, hub, session, process>>

\* The policy is asked after the limiter: a request that it refuses has been paid for.
Authorize(t) ==
    /\ pc[t] = "limit"
    /\ ~(limiterOnRedis /\ ~redisUp) /\ TryConsume
    /\ \E route \in Routes :
          IF Authorized(Caller(t), route) THEN Go(t, "proxied") ELSE End(t)
    /\ UNCHANGED <<hub, session, process>>

\* The upstream has answered, or not: GatewayForwarder.
Proxied(t) ==
    /\ pc[t] = "proxied"
    /\ End(t)
    /\ UNCHANGED <<access, hub, session, process>>

-----------------------------------------------------------------------------
(* WebSocket sessions *)

BeginSession(t) ==
    \E token \in Issued :
        /\ token[1] = "access" /\ Decodes(token)
        /\ Begin(t, "ws_verify", token)

\* verify_access, the permission, accept.
Accept(t) ==
    /\ pc[t] = "ws_verify"
    /\ IF Verified(t) /\ MayConnect(Bearer(t).principal)
       THEN /\ Go(t, "ws_connect")
            /\ open' = open \cup {t}
       ELSE End(t) /\ UNCHANGED open
    /\ UNCHANGED <<access, connections, rooms, joined, gone, session, process>>

Register(t) ==
    /\ pc[t] = "ws_connect"
    /\ \/ Connect(t) /\ Go(t, "ws_welcome")
       \/ Full /\ Close(t) /\ UNCHANGED <<connections, rooms, joined>> /\ End(t)
    /\ UNCHANGED <<access, session, process>>

Welcome(t) ==
    /\ pc[t] = "ws_welcome"
    /\ Go(t, "ws_loop")
    /\ UNCHANGED <<access, hub, session, process>>

\* The welcome is sent before the try block whose finally disconnects.  The send
\* that fails closes the socket, and a closed socket is not sent to again.
WelcomeFails(t) ==
    /\ pc[t] = "ws_welcome" /\ t \in gone
    /\ Go(t, "idle")
    /\ Close(t)
    /\ orphans' = orphans \cup {t}
    /\ UNCHANGED <<access, connections, rooms, joined, queue, process>>

PeerLeaves(t) ==
    /\ t \in open \ gone
    /\ gone' = gone \cup {t}
    /\ UNCHANGED <<access, connections, rooms, joined, open, job, session, process>>

\* join and leave, whose answer is to follow.
Join(t) ==
    /\ pc[t] = "ws_loop"
    /\ \E r \in Rooms : JoinRoom(t, r)
    /\ Go(t, "ws_tell")
    /\ UNCHANGED <<access, session, process>>

Leave(t) ==
    /\ pc[t] = "ws_loop"
    /\ \E r \in Rooms : LeaveRoom(t, r)
    /\ Go(t, "ws_tell")
    /\ UNCHANGED <<access, session, process>>

\* The targets of a broadcast to a room or of a direct message to a user are
\* those of the moment; each is looked up again when its turn comes.
Broadcast(t) ==
    /\ pc[t] = "ws_loop"
    /\ \/ \E r \in Rooms : queue' = [queue EXCEPT ![t] = rooms[r] \ {t}]
       \/ \E u \in Logins :
             queue' = [queue EXCEPT ![t] = {c \in connections : Bearer(c).user = u}]
    /\ Go(t, "ws_send")
    /\ UNCHANGED <<access, hub, orphans, process>>

\* send_to_connection: a send that fails disconnects its target.
SendTo(c) ==
    IF c \in connections \cap gone THEN Disconnect(c) ELSE UNCHANGED hub

SendNext(t) ==
    /\ pc[t] = "ws_send"
    /\ IF queue[t] = {} THEN Go(t, "ws_tell") /\ UNCHANGED <<hub, queue>>
       ELSE \E c \in queue[t] :
               /\ SendTo(c)
               /\ queue' = [queue EXCEPT ![t] = @ \ {c}]
               /\ UNCHANGED job
    /\ UNCHANGED <<access, orphans, process>>

\* An answer, an acknowledgement, an error or a pong; then the next receive,
\* which raises on a socket that is closed.
Tell(t) ==
    /\ pc[t] = "ws_tell"
    /\ SendTo(t)
    /\ Go(t, IF t \in open' THEN "ws_loop" ELSE "ws_end")
    /\ UNCHANGED <<access, session, process>>

\* ping, or a message that is wrong.
Answer(t) ==
    /\ pc[t] = "ws_loop"
    /\ Go(t, "ws_tell")
    /\ UNCHANGED <<access, hub, session, process>>

\* The peer has left, the socket is closed or what it sent is not JSON.
LoopEnds(t) ==
    /\ pc[t] = "ws_loop"
    /\ Go(t, "ws_end")
    /\ UNCHANGED <<access, hub, session, process>>

\* Mutant: only a peer that has left is disconnected.
Finally_OnlyGone(t) ==
    /\ pc[t] = "ws_end"
    /\ IF t \in gone THEN Disconnect(t) ELSE UNCHANGED hub
    /\ End(t)
    /\ UNCHANGED <<access, session, process>>

Finally(t) ==
    /\ pc[t] = "ws_end"
    /\ Disconnect(t)
    /\ End(t)
    /\ UNCHANGED <<access, session, process>>

-----------------------------------------------------------------------------
Session(t) ==
    \/ Accept(t) \/ Register(t) \/ Welcome(t) \/ WelcomeFails(t)
    \/ Join(t) \/ Leave(t) \/ Broadcast(t) \/ SendNext(t) \/ Tell(t) \/ Answer(t)
    \/ LoopEnds(t) \/ Finally(t)

Step(t) ==
    \/ Login(t) \/ BeginRefresh(t) \/ CheckRefresh(t) \/ RevokeOld(t) \/ IssueNew(t)
    \/ BeginLogout(t) \/ Revoke(t)
    \/ BeginRequest(t) \/ Verify(t) \/ LimiterFails(t) \/ Limited(t) \/ Authorize(t) \/ Proxied(t)
    \/ BeginSession(t) \/ Session(t) \/ PeerLeaves(t)

Environment ==
    /\ \/ \E token \in Issued : Expire(token)
       \/ Refill
    /\ UNCHANGED <<hub, job, session, process>>

RedisFault ==
    /\ RedisComesOrGoes
    /\ faults < MaxFaults /\ faults' = faults + 1
    /\ UNCHANGED <<hub, job, session, capacity, limiterOnRedis, jobs>>

\* What is in memory is lost; what is in Redis is kept.
Restart ==
    /\ pc' = [t \in Tasks |-> "idle"]
    /\ held' = [t \in Tasks |-> NoToken]
    /\ connections' = {} /\ open' = {} /\ gone' = {} /\ orphans' = {}
    /\ rooms' = [r \in Rooms |-> {}]
    /\ joined' = [t \in Tasks |-> {}] /\ queue' = [t \in Tasks |-> {}]
    /\ inMemory' = {}
    /\ revoked' = IF redisUp THEN revoked ELSE {}
    /\ limiterOnRedis' = redisUp
    /\ bucket' = IF limiterOnRedis /\ redisUp THEN bucket ELSE Burst
    /\ faults < MaxFaults /\ faults' = faults + 1
    /\ UNCHANGED <<pairs, expired, redisUp, inRedis, capacity, jobs>>

Next == Environment \/ RedisFault \/ Restart \/ \E t \in Tasks : Step(t)

Spec == Init /\ [][Next]_vars

-----------------------------------------------------------------------------
Steps ==
    {"refresh_check", "refresh_revoke", "refresh_issue", "logout", "verify", "limit", "proxied",
     "ws_verify", "ws_connect", "ws_welcome", "ws_loop", "ws_send", "ws_tell", "ws_end"}

(* Types; no more pairs are issued than there is room for.                 *)
TypeOK ==
    /\ AccessTypeOK
    /\ \A t \in Tasks :
          /\ pc[t] \in {"idle"} \cup Steps
          /\ held[t] \in {NoToken, ApiKey} \cup Issued
          /\ queue[t] \subseteq Tasks

(* revoke: "Blacklist the token so future verification fails", and refresh *)
(* revokes the old token before it issues a new one: with Redis or without *)
(* it, a token that has been revoked gets nobody past a verification that  *)
(* follows, unless Redis comes or goes or the process restarts without it. *)
NobodyPassesRevoked ==
    [][\A t \in Tasks :
          pc[t] \in {"refresh_check", "verify", "ws_verify"} /\ held[t] \in revoked
          => pc'[t] \in {pc[t], "idle"}]_vars

\* A registered connection has a session that will disconnect it in the end.
NoOtherOrphans ==
    \A t \in connections :
        pc[t] \in {"ws_welcome", "ws_loop", "ws_send", "ws_tell", "ws_end"} \/ t \in orphans

(* The hub's two tables agree: a connection is in a room if and only if it *)
(* is registered and knows that it is there, whoever joins, leaves,        *)
(* disconnects or is disconnected in between; there are no more of them    *)
(* than max_connections; and every one of them has a session that will     *)
(* disconnect it, except for one whose welcome failed, which stays for     *)
(* good.                                                                   *)
HubIsSound == HubTypeOK /\ NoOtherOrphans
=============================================================================
