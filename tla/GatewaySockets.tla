--------------------------- MODULE GatewaySockets ---------------------------
(***************************************************************************)
(* The hub of a gateway's WebSocket connections                            *)
(* (gateway/websocket/manager.py): the connections, the rooms, and what    *)
(* each connection believes of its rooms.  Every method holds the lock and *)
(* is one step, except that a send and a close happen outside of it.       *)
(***************************************************************************)
EXTENDS FiniteSets, Integers

CONSTANTS
    Tasks,          \* tasks of the event loop; a connection is known by its task
    Rooms,
    MaxConnections  \* what max_connections may be set to

ASSUME SocketsAssumption == MaxConnections \subseteq Nat

VARIABLES
    capacity,       \* _max: how many connections there may be
    connections,    \* _connections
    rooms,          \* _rooms: the members of each room that has any
    joined,         \* the rooms set of each connection
    open,           \* is_open(): accepted sockets that this side has not closed
    gone            \* those of them whose peer has left

hub == <<connections, rooms, joined, open, gone>>

HubInit ==
    /\ capacity \in MaxConnections
    /\ connections = {}
    /\ rooms = [r \in Rooms |-> {}]
    /\ joined = [t \in Tasks |-> {}]
    /\ open = {} /\ gone = {}

Close(t) ==
    /\ open' = open \ {t}
    /\ gone' = gone \ {t}

Full == Cardinality(connections) >= capacity

\* connect
Connect(t) ==
    /\ ~Full
    /\ connections' = connections \cup {t}
    /\ joined' = [joined EXCEPT ![t] = {}]
    /\ UNCHANGED <<rooms, open, gone>>

\* Mutant: the rooms are left as they are.
Disconnect_KeepsRooms(t) ==
    /\ connections' = connections \ {t}
    /\ Close(t)
    /\ UNCHANGED <<rooms, joined>>

\* disconnect; no effect on a connection that is already gone.
Disconnect(t) ==
    IF t \in connections
    THEN /\ connections' = connections \ {t}
         /\ rooms' = [r \in Rooms |-> IF r \in joined[t] THEN rooms[r] \ {t} ELSE rooms[r]]
         /\ joined' = [joined EXCEPT ![t] = {}]
         /\ Close(t)
    ELSE UNCHANGED hub

\* join_room
JoinRoom(t, r) ==
    IF t \in connections
    THEN /\ joined' = [joined EXCEPT ![t] = @ \cup {r}]
         /\ rooms' = [rooms EXCEPT ![r] = @ \cup {t}]
         /\ UNCHANGED <<connections, open, gone>>
    ELSE UNCHANGED hub

\* leave_room
LeaveRoom(t, r) ==
    IF t \in connections
    THEN /\ joined' = [joined EXCEPT ![t] = @ \ {r}]
         /\ rooms' = [rooms EXCEPT ![r] = @ \ {t}]
         /\ UNCHANGED <<connections, open, gone>>
    ELSE UNCHANGED hub

\* The rooms and the connections agree on who is where.
IndexAgrees ==
    \A t \in Tasks, r \in Rooms : t \in rooms[r] <=> t \in connections /\ r \in joined[t]

HubTypeOK ==
    /\ connections \subseteq Tasks
    /\ Cardinality(connections) <= capacity
    /\ gone \subseteq open /\ open \subseteq Tasks
    /\ IndexAgrees
=============================================================================
