---------------------------- MODULE RouteCommand ----------------------------
(***************************************************************************)
(* The route command at the prompt of Startup, for every widget of the     *)
(* codec as it was read, edited and changed by verbs.                      *)
(***************************************************************************)
EXTENDS Startup, Routes

(* The route command lists every route into and out of a widget that a     *)
(* list can hold, and nothing else of that length, for the connections and *)
(* pin controls as verbs left them (routes_connected_to and _from).        *)
(* Without the option to show all, no step of a route is marked as broken. *)
RoutesFound ==
  phase \in {"up", "changed"} /\ ListsFit(proc) =>
    \A nid \in DOMAIN proc.nodes, flags \in RouteFlag :
      LET to   == hda_routes_connected_to(proc, nid, flags)
          from == hda_routes_connected_from(proc, nid, flags)
          shown == show_route_lists(proc, to \cup from)
      IN  /\ {r \in to : Fits(r)} = WalksTo(proc, nid, flags)
          /\ {r \in from : Fits(r)} = WalksFrom(proc, nid, flags)
          /\ "ALL" \notin flags => \A r \in DOMAIN shown : "-x" \notin Range(shown[r])
=============================================================================
