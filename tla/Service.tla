------------------------------ MODULE Service ------------------------------
(***************************************************************************)
(* What the WebSocket client of orderbook/ws_client.go promises to the      *)
(* rest of the SDK: which states it reports, with which connection held.    *)
(* It reports Connected only with a connection, takes one only when it      *)
(* holds none and has reported that it is looking for one, and reports a    *)
(* loss only after dropping it.  A closed client promises less: what was    *)
(* under way, and a later Connect, go on.  Callers whose Connects race are   *)
(* promised nothing.  WSClient.tla is shown to implement this module.       *)
(***************************************************************************)
CONSTANTS Sessions,   \* identities of the connections that are ever made
          None        \* no connection

VARIABLES state,      \* what State() reports
          conn,       \* the connection held, or None
          used,       \* every connection made so far
          closed,     \* Disconnect or Close has closed the client
          raced       \* a Connect began beside another or beside a reconnection

vars == <<state, conn, used, closed, raced>>

States == {"Disconnected", "Connecting", "Connected", "Reconnecting"}

Init == /\ state = "Disconnected"
        /\ conn = None
        /\ used = {}
        /\ closed = FALSE
        /\ raced = FALSE

Report(from, to) == /\ ~closed
                    /\ state \in from
                    /\ state' = to
                    /\ UNCHANGED <<conn, used, closed, raced>>

\* Connect looks for a connection: the first one, or one after giving up.
Begin == conn = None /\ Report({"Disconnected"}, "Connecting")

Up == conn # None /\ Report({"Connecting", "Reconnecting"}, "Connected")

\* The dial of Connect failed, or the attempts to reconnect are used up.
GiveUp == conn = None /\ Report({"Connecting", "Reconnecting"}, "Disconnected")

Lost == conn = None /\ Report({"Connected"}, "Reconnecting")

\* A connection never used before is dialled.
Take(s) == /\ conn = None
           /\ s \notin used
           /\ closed \/ state \in {"Connecting", "Reconnecting"}
           /\ conn' = s
           /\ used' = used \union {s}
           /\ UNCHANGED <<state, closed, raced>>

Drop == /\ closed \/ state = "Connected"
        /\ conn' = None
        /\ UNCHANGED <<state, used, closed, raced>>

Close == /\ state # "Disconnected"
         /\ closed' = TRUE
         /\ conn' = None
         /\ state' = "Disconnected"
         /\ UNCHANGED <<used, raced>>

\* A closed client reports what the goroutines it surprised, or a later Connect,
\* make it report.
Straggle == /\ closed
            /\ state' \in States
            /\ UNCHANGED <<conn, used, closed, raced>>

Race == /\ state \in {"Disconnected", "Reconnecting"}
        /\ raced' = TRUE
        /\ UNCHANGED <<state, conn, used, closed>>

\* Nothing but permanence is left.
Raced == /\ raced /\ raced'
         /\ closed => closed'
         /\ used \subseteq used'
         /\ state' \in States
         /\ conn' \in used' \union {None}

Next == \/ Begin \/ Up \/ GiveUp \/ Lost \/ Drop \/ Close \/ Straggle \/ Race \/ Raced
        \/ \E s \in Sessions : Take(s)

Spec == Init /\ [][Next]_vars
=============================================================================
