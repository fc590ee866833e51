------------------------- MODULE MCServerLifecycle -------------------------
EXTENDS ServerLifecycle

(* The second listener has no connection of its own. *)
MCListenerOf == [c \in Connections |-> CHOOSE l \in Listeners : TRUE]

(* All requests come in on one connection; another, if any, has none. *)
MCConnectionOf == [r \in Requests |-> CHOOSE c \in Connections : TRUE]
=============================================================================
