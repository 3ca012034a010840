---------------------------- MODULE ToolCatalog ----------------------------
(***************************************************************************)
(* What grpcmcp promises about the tool set it serves, with no mention of  *)
(* reflection streams, files, tickers or counters.                         *)
(*                                                                         *)
(* A backend is a group of replicas, each of which serves one version of   *)
(* the schema. The server comes up with the catalog of one version. From   *)
(* then on the catalog changes only by a whole replacement, by that of one *)
(* version that some replica served since the current poll began, and a    *)
(* catalog that holds tools is never replaced by an empty one.             *)
(***************************************************************************)
CONSTANTS
    Replica,    \* the backend's replicas
    Version,    \* the schema versions the backend may serve
    Offer       \* [Version -> the tool sets that version may be published as]

VARIABLES
    live,       \* [Replica -> Version]
    recent,     \* versions some replica served since the current poll began
    up,         \* the server answers clients
    catalog     \* the tool set clients see

vars == <<live, recent, up, catalog>>

Init ==
    /\ live \in [Replica -> Version]
    /\ recent = {live[r] : r \in Replica}
    /\ up = FALSE
    /\ catalog = {}

\* A replica restarts, with the same version of the schema or another.
Deploy ==
    /\ \E r \in Replica, v \in Version :
          /\ live' = [live EXCEPT ![r] = v]
          /\ recent' = recent \cup {v}
    /\ UNCHANGED <<up, catalog>>

\* A new poll starts: only what is served from now on counts as recent.
Poll ==
    /\ up
    /\ recent' = {live[r] : r \in Replica}
    /\ UNCHANGED <<live, up, catalog>>

\* The server comes up with the tools of one version, possibly none.
Open ==
    /\ ~up
    /\ up' = TRUE
    /\ \E v \in recent : catalog' \in Offer[v]
    /\ UNCHANGED <<live, recent>>

\* The whole catalog is replaced. Tools are never taken away to leave none.
Republish ==
    /\ up
    /\ \E v \in recent : catalog' \in Offer[v]
    /\ catalog' = {} => catalog = {}
    /\ UNCHANGED <<live, recent, up>>

Next == Deploy \/ Poll \/ Open \/ Republish

Spec == Init /\ [][Next]_vars
=============================================================================
