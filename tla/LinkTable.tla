----------------------------- MODULE LinkTable -----------------------------
(***************************************************************************)
(* What SS1's connection callbacks and its authentication promise to the   *)
(* rest of the program, which reads connections[] and asks                 *)
(* sentry_auth_is_authenticated(): a connection takes the first free entry *)
(* and keeps it until it ends, it starts unauthenticated, is authenticated *)
(* at most once, and stops being so only when it ends.  A restart ends     *)
(* everything.                                                             *)
(***************************************************************************)
EXTENDS Naturals

CONSTANT MaxConn        \* CONFIG_BT_MAX_CONN

NULL == 0
Conns == 1..MaxConn
Index == 1..MaxConn

VARIABLES
    connections,        \* the table
    authenticated       \* connections the authentication vouches for

tableVars == <<connections, authenticated>>

TableInit == connections = [i \in Index |-> NULL] /\ authenticated = {}

Tracked(c) == \E i \in Index : connections[i] = c

Store(c, i) ==
    /\ ~Tracked(c) /\ c \notin authenticated
    /\ connections[i] = NULL /\ \A j \in Index : j < i => connections[j] # NULL
    /\ connections' = [connections EXCEPT ![i] = c]
    /\ UNCHANGED authenticated

Authenticate(c) ==
    /\ c \notin authenticated
    /\ authenticated' = authenticated \cup {c}
    /\ UNCHANGED connections

Remove(c) ==
    /\ connections' = [i \in Index |-> IF connections[i] = c THEN NULL ELSE connections[i]]
    /\ authenticated' = authenticated \ {c}

Restart ==
    /\ connections' = [i \in Index |-> NULL]
    /\ authenticated' = {}

TableNext == \/ \E c \in Conns : \/ \E i \in Index : Store(c, i)
                                 \/ Authenticate(c)
                                 \/ Remove(c)
             \/ Restart

TableSpec == TableInit /\ [][TableNext]_tableVars
=============================================================================
