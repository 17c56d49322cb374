------------------------------- MODULE Routes -------------------------------
(***************************************************************************)
(* The routes through a widget that the route command lists: hda-int.c     *)
(* searches them by depth, hda-emu.c shows them.  A route is a sequence of *)
(* nids from a source to a sink, a list of routes is the set of them.      *)
(***************************************************************************)
EXTENDS CodecNode, SequencesExt

CONSTANT MaxRouteDepth   \* MAX_ROUTE_DEPTH, 10 in the code

ASSUME MaxRouteDepthAssumption == MaxRouteDepth \in Nat

(* Flags of the command: a is SHOW_ALL and SHOW_INACTIVE, i the latter. *)
RouteFlag == {{}, {"INACTIVE"}, {"ALL", "INACTIVE"}}

(* The upper two bits of the default configuration are the connection. *)
is_active_pin(n, ctl_bit) == n.pin_default[4] \div 64 # 1 /\ ctl_bit \in n.pinctl.en

(* The inputs of a node that are followed: all of a mixer, the selected    *)
(* one of the others.                                                      *)
Followed(n, i, flags) == "ALL" \in flags \/ Type(n) = "mixer" \/ i = n.curr_conn

EndsAt(c, nid, types, ctl_bit, flags) ==
  LET n == find_node(c, nid)
  IN  /\ Type(n) \in types
      /\ Type(n) = "pin" => "INACTIVE" \in flags \/ is_active_pin(n, ctl_bit)

\* Mutant: the search ends before the list is full.
TooDeep_early(route) == Len(route) + 1 > MaxRouteDepth

(* The depth of the last node is the length less one. *)
TooDeep(route) == Len(route) - 1 > MaxRouteDepth

(* The bound lets routes of one node more through than the array of a list *)
(* holds; the pointer to the next list is then where the last node was.    *)
Fits(route) == Len(route) <= MaxRouteDepth + 1

NoNode == 0   \* not a node, whatever the pointer is

create_route(route) == IF Fits(route) THEN route ELSE [route EXCEPT ![Len(route)] = NoNode]

(* The route so far starts with its sink; its length is the depth and 1.   *)
RECURSIVE routes_connected_to(_, _, _)
routes_connected_to(c, route, flags) ==
  LET n == find_node(c, route[1])
      via(i) ==
        LET src == n.node[i]
        IN  CASE ~Followed(n, i, flags) \/ ~HasNode(c, src) -> {}
              [] Type(find_node(c, src)) \in {"out", "pin"} ->
                   IF EndsAt(c, src, {"out", "pin"}, "IN", flags) THEN {create_route(<<src>> \o route)} ELSE {}
              [] OTHER -> routes_connected_to(c, <<src>> \o route, flags)
  IN  IF TooDeep(route) THEN {} ELSE UNION {via(i) : i \in 0 .. n.num_nodes - 1}

hda_routes_connected_to(c, nid, flags) ==
  IF HasNode(c, nid) THEN routes_connected_to(c, <<nid>>, flags) ELSE {}

(* Every node is tried; the function group has no inputs. *)
RECURSIVE routes_connected_from(_, _, _)
routes_connected_from(c, route, flags) ==
  LET nid == Last(route)
      into(dest, i) ==
        LET n == c.nodes[dest]
        IN  CASE n.node[i] # nid \/ ~Followed(n, i, flags) -> {}
              [] Type(n) \in {"in", "pin"} ->
                   IF EndsAt(c, dest, {"in", "pin"}, "OUT", flags) THEN {create_route(Append(route, dest))} ELSE {}
              [] OTHER -> routes_connected_from(c, Append(route, dest), flags)
      all(dest) == UNION {into(dest, i) : i \in 0 .. c.nodes[dest].num_nodes - 1}
  IN  IF TooDeep(route) THEN {} ELSE UNION {all(dest) : dest \in DOMAIN c.nodes \ {nid}}

hda_routes_connected_from(c, nid, flags) ==
  IF HasNode(c, nid) THEN routes_connected_from(c, <<nid>>, flags) ELSE {}
----------------------------------------------------------------------------
(* What is shown in front of a node of a route: a mixer takes all inputs,  *)
(* others the selected one.  What is shown of a route that does not fit,   *)
(* nobody knows.                                                           *)
PathMark(c, route, k) ==
  LET n == find_node(c, route[k])
  IN  CASE Type(n) = "mixer" -> "--"
        [] n.node[n.curr_conn] = route[k - 1] -> "->"
        [] OTHER -> "-x"

show_route_lists(c, list) ==
  [r \in {r \in list : Fits(r)} |-> [k \in 2 .. Len(r) |-> PathMark(c, r, k)]]
----------------------------------------------------------------------------
(* Reference: the walks along followed inputs that pass no end of a route  *)
(* before their own, as long as a list can hold them.                      *)

Feeds(c, src, dest, flags) ==
  \E i \in 0 .. find_node(c, dest).num_nodes - 1 :
    find_node(c, dest).node[i] = src /\ Followed(find_node(c, dest), i, flags)

Walk(c, len) == UNION {[1 .. k -> DOMAIN c.nodes] : k \in 2 .. len}

IsWalk(c, w, flags) == \A k \in 2 .. Len(w) : Feeds(c, w[k - 1], w[k], flags)

Passes(c, w, types) == \E k \in 2 .. Len(w) - 1 : Type(find_node(c, w[k])) \in types

WalksTo(c, nid, flags) ==
  {w \in Walk(c, MaxRouteDepth + 1) :
     /\ w[Len(w)] = nid
     /\ IsWalk(c, w, flags)
     /\ EndsAt(c, w[1], {"out", "pin"}, "IN", flags)
     /\ ~Passes(c, w, {"out", "pin"})}

WalksFrom(c, nid, flags) ==
  {w \in Walk(c, MaxRouteDepth + 1) :
     /\ w[1] = nid
     /\ IsWalk(c, w, flags)
     /\ \A k \in 2 .. Len(w) : w[k] # w[k - 1]
     /\ EndsAt(c, w[Len(w)], {"in", "pin"}, "OUT", flags)
     /\ ~Passes(c, w, {"in", "pin"})}
=============================================================================
