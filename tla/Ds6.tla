-------------------------------- MODULE Ds6 --------------------------------
(***************************************************************************)
(* The neighbour and route tables of a router: the key table shared by all *)
(* neighbour tables (nbr-table.c), the IPv6 neighbour cache and its        *)
(* neighbour discovery (uip-ds6-nbr.c, uip-nd6.c), the host routes learned *)
(* from DAOs (uip-ds6-route.c), the RPL parent table (rpl-dag.c) and the   *)
(* replacement policy (rpl-nbr-policy.c).  The code runs to completion     *)
(* once per received packet, transmission result or timer, so each of      *)
(* these is one action; a handler calls several table operations in turn,  *)
(* which are written as operators from a record of all tables to the next. *)
(*                                                                         *)
(* Data kept: which slot, which address, which pointer.  Left out: ranks   *)
(* and lifetimes (their outcome is a choice), the number of solicitations  *)
(* already sent, default routers, packets waiting for an address.          *)
(***************************************************************************)
EXTENDS Naturals, Sequences, FiniteSets, SequencesExt

CONSTANTS
  NBR_TABLE_MAX_NEIGHBORS,   \* keys of the neighbour tables
  UIP_DS6_ROUTE_NB,          \* routes
  Ip,                        \* addresses of nodes on the link
  Ll,                        \* their link-layer addresses
  Speaks,                    \* pairs: which address is used from which
  Dest,                      \* destinations that DAOs announce
  LinkaddrNull,              \* linkaddr_null
  NONE                       \* a NULL pointer

ASSUME Ds6Assumption ==
  /\ NBR_TABLE_MAX_NEIGHBORS \in Nat \ {0}
  /\ UIP_DS6_ROUTE_NB \in Nat \ {0}
  /\ LinkaddrNull \notin Ll
  /\ Speaks \subseteq Ip \X Ll
  /\ NONE \notin Nat \cup Ip \cup Dest

Key   == 1 .. NBR_TABLE_MAX_NEIGHBORS
Route == 1 .. UIP_DS6_ROUTE_NB

\* STALE stands for NBR_STALE, NBR_DELAY and NBR_PROBE: an entry that is
\* being doubted and is removed when its probes stay unanswered.
NbrState == {"INCOMPLETE", "REACHABLE", "STALE"}

----------------------------------------------------------------------------
(* Registration of the tables.                                             *)

\* tcpip_init() calls uip_init(), whose uip_ds6_init() registers three
\* tables, and then rpl_init(), which clears the registry and registers one.
InitOrder ==
  <<"link_stats", "ds6_neighbors", "nbr_routes", "nbr_table_init", "rpl_parents">>

Table == {"link_stats", "ds6_neighbors", "nbr_routes", "rpl_parents"}

InitPos(t) == CHOOSE i \in DOMAIN InitOrder : InitOrder[i] = t

\* table->index: registrations since the last nbr_table_init().
Index ==
  [t \in Table |->
     Cardinality({i \in 1 .. InitPos(t) - 1 :
                    \A j \in i .. InitPos(t) - 1 : InitOrder[j] # "nbr_table_init"})]

Indexes == {Index[t] : t \in Table}

\* all_tables: what remove_key() finds.
all_tables == {t \in Table : InitPos(t) > InitPos("nbr_table_init")}

VARIABLE s
(* s.keys    nbr_table_keys, oldest first                                  *)
(* s.mem     allocated blocks of neighbor_addr_mem                         *)
(* s.ll      link-layer address of each key                                *)
(* s.used, s.locked   used_map and locked_map, as sets of table indexes    *)
(* s.nbr     items of ds6_neighbors: address and state                     *)
(* s.dag     items of rpl_parents: whether the dag pointer is set          *)
(* s.pref    preferred_parent of the DAG, a key                            *)
(* s.list    routelist, most recently used first                           *)
(* s.rt      the routes: destination and neighbor_routes, a key            *)
(* s.rtMem   allocated blocks of routememb                                 *)
(* s.nrMem   number of allocated blocks of neighborroutememb               *)
(* s.via     items of nbr_routes: route_list of each key                   *)
(* s.num     num_routes                                                    *)
(* s.root    whether this node is the root of the DAG                      *)

----------------------------------------------------------------------------
(* nbr-table.c                                                             *)

Uses(t, k, x) == Index[t] \in x.used[k]

\* The first and the last element of list q that is in S.
FirstIn(q, S) ==
  LET hits == {i \in DOMAIN q : q[i] \in S}
  IN IF hits = {} THEN NONE ELSE q[Min(hits)]

LastIn(q, S) ==
  LET hits == {i \in DOMAIN q : q[i] \in S}
  IN IF hits = {} THEN NONE ELSE q[Max(hits)]

\* index_from_lladdr
KeyOf(l, x) == FirstIn(x.keys, {k \in Key : x.ll[k] = l})

\* nbr_table_get_from_lladdr
GetFromLladdr(t, l, x) ==
  LET k == KeyOf(l, x) IN IF k # NONE /\ Uses(t, k, x) THEN k ELSE NONE

\* The items of a table: what nbr_table_head and nbr_table_next go through.
Items(t, x) == {k \in ToSet(x.keys) : Uses(t, k, x)}

TableRemove(t, k, x) ==
  [x EXCEPT !.used[k] = @ \ {Index[t]}, !.locked[k] = @ \ {Index[t]}]

\* A null item is ignored by both.
Lock(t, k, x) ==
  IF k = NONE THEN x ELSE [x EXCEPT !.locked[k] = @ \cup {Index[t]}]

Unlock(t, k, x) ==
  IF k = NONE THEN x ELSE [x EXCEPT !.locked[k] = @ \ {Index[t]}]

----------------------------------------------------------------------------
(* Routes: uip_ds6_route_rm and what the key table calls back.             *)

\* The key of a neighbour without routes leaves nbr_routes.
ForgetIdle(k, x) ==
  IF x.via[k] = << >> THEN TableRemove("nbr_routes", k, x) ELSE x

\* Mutant: the block of neighborroutememb is not freed.
RouteRmLeaks(r, x) ==
  LET k == x.rt[r].nr
  IN ForgetIdle(k, [x EXCEPT !.list = RemoveFirst(@, r),
                             !.via[k] = RemoveFirst(@, r),
                             !.rtMem = @ \ {r}, !.num = @ - 1])

\* When the route is not on its neighbour's list there is no block to free.
RouteRm(r, x) ==
  LET k == x.rt[r].nr
  IN ForgetIdle(k, [x EXCEPT !.list = RemoveFirst(@, r),
                             !.via[k] = RemoveFirst(@, r),
                             !.rtMem = @ \ {r},
                             !.nrMem = IF r \in ToSet(x.via[k]) THEN @ - 1 ELSE @,
                             !.num = @ - 1])

\* rm_routelist: the first route of the key, as often as it has routes.
RmRouteList(k, x) ==
  LET left[n \in 0 .. Len(x.via[k])] ==
        IF n = 0 THEN x ELSE RouteRm(Head(left[n - 1].via[k]), left[n - 1])
  IN TableRemove("nbr_routes", k, left[Len(x.via[k])])

\* Mutant: the lock of the former parent is kept.
SetPreferredParentNoUnlock(p, x) ==
  IF x.pref = p THEN x
  ELSE [Lock("rpl_parents", p, x) EXCEPT !.pref = p]

\* rpl_set_preferred_parent: the lock moves with the pointer.
SetPreferredParent(p, x) ==
  IF x.pref = p THEN x
  ELSE [Lock("rpl_parents", p, Unlock("rpl_parents", x.pref, x)) EXCEPT !.pref = p]

\* rpl_nullify_parent.  An item without a dag pointer is reached too, when
\* link statistics have set the shared bit: through the null pointer the code
\* then reads no parent that equals this one.
NullifyParent(p, x) ==
  IF x.dag[p] /\ x.pref = p THEN SetPreferredParent(NONE, x) ELSE x

RemoveParent(p, x) == TableRemove("rpl_parents", p, NullifyParent(p, x))

Callback(t, k, x) ==
  CASE t = "rpl_parents"   -> RemoveParent(k, x)
    [] t = "ds6_neighbors" -> TableRemove(t, k, x)
    [] t = "nbr_routes"    -> RmRouteList(k, x)
    [] OTHER               -> x

CallBack(t, k, x) ==
  IF t \in all_tables /\ Uses(t, k, x) THEN Callback(t, k, x) ELSE x

\* remove_key: the tables in order of registration, of which link_stats has no
\* callback.
RemoveKey(k, x) ==
  LET y == CallBack("rpl_parents", k,
                    CallBack("nbr_routes", k, CallBack("ds6_neighbors", k, x)))
  IN [y EXCEPT !.used[k] = {}, !.keys = RemoveFirst(@, k)]

----------------------------------------------------------------------------
(* rpl-nbr-policy.c                                                        *)

\* uip_ds6_nbr_lookup
NbrLookup(ip, x) ==
  FirstIn(x.keys, {k \in Items("ds6_neighbors", x) : x.nbr[k].ip = ip})

\* uip_ds6_route_is_nexthop
IsNextHop(ip, x) ==
  LET k == NbrLookup(ip, x)
  IN k # NONE /\ GetFromLladdr("nbr_routes", x.ll[k], x) # NONE

Children(x) ==
  {k \in Items("ds6_neighbors", x) : IsNextHop(x.nbr[k].ip, x)}

Parents(x) ==
  {k \in Items("ds6_neighbors", x) :
     GetFromLladdr("rpl_parents", x.ll[k], x) # NONE}

MAX_CHILDREN ==
  IF NBR_TABLE_MAX_NEIGHBORS < 2 THEN 0 ELSE NBR_TABLE_MAX_NEIGHBORS - 2

\* Mutant: children are not told from other neighbours.
WorstRankNbrNoChildren(x) ==
  LET unused == Items("ds6_neighbors", x) \ Parents(x)
  IN IF unused # {} THEN {LastIn(x.keys, unused)}
     ELSE {k \in Parents(x) : x.dag[k] /\ k # x.pref}

\* update_nbr: the last neighbour that is neither parent nor child, or else
\* the parent of worst rank that is neither child nor preferred.
WorstRankNbr(x) ==
  LET children == Children(x)
      parents  == Parents(x)
      unused   == Items("ds6_neighbors", x) \ (children \cup parents)
  IN IF unused # {} THEN {LastIn(x.keys, unused)}
     ELSE {k \in parents \ children : x.dag[k] /\ k # x.pref}

\* rpl_nbr_policy_find_removable, asked when no key is free.  A DIO evicts
\* only when its rank is good enough, which is a choice.
FindRemovable(reason, x) ==
  LET max == IF reason = "RPL_DAO" /\ x.root THEN NBR_TABLE_MAX_NEIGHBORS
             ELSE MAX_CHILDREN
  IN IF x.mem # Key THEN {NONE}
     ELSE IF reason = "RPL_DIO" THEN WorstRankNbr(x) \cup {NONE}
     ELSE IF Cardinality(Children(x)) < max /\ WorstRankNbr(x) # {} THEN WorstRankNbr(x)
     ELSE {NONE}

\* nbr_table_allocate: the tables and the key, NONE when there is none.
\* victim is the removable neighbour that the policy names.
Allocate(victim, x) ==
  IF x.mem # Key
  THEN LET k == Min(Key \ x.mem) IN [x |-> [x EXCEPT !.mem = @ \cup {k}], k |-> k]
  ELSE IF victim = NONE THEN [x |-> x, k |-> NONE]
  ELSE [x |-> RemoveKey(victim, [x EXCEPT !.locked[victim] = {}]), k |-> victim]

\* nbr_table_add_lladdr: memset of the item and its used bit.
InitItem(t, k, x) ==
  LET y == [x EXCEPT !.used[k] = @ \cup {Index[t]}]
  IN CASE t = "rpl_parents" -> [y EXCEPT !.dag[k] = FALSE]
       [] t = "nbr_routes"  -> [y EXCEPT !.via[k] = << >>]
       [] OTHER             -> y

\* The allocated key a.k, if any, joins the list with address l.
AddKey(t, l, a) ==
  IF a.k = NONE THEN a
  ELSE [x |-> InitItem(t, a.k, [a.x EXCEPT !.keys = Append(@, a.k), !.ll[a.k] = l]),
        k |-> a.k]

AddLladdr(t, l, victim, x) ==
  LET k == KeyOf(l, x)
  IN IF k # NONE THEN [x |-> InitItem(t, k, x), k |-> k]
     ELSE AddKey(t, l, Allocate(victim, x))

\* Mutant: remove_duplicate is not honoured.
UpdateLladdrDup(k, l, x) == [x EXCEPT !.ll[k] = l]

\* nbr_table_update_lladdr(.., 1): changes the address of key k in place.
\* When the new address has a key of its own, k is removed instead; its
\* block of neighbor_addr_mem stays allocated.
UpdateLladdr(k, l, x) ==
  IF KeyOf(l, x) = NONE THEN [x EXCEPT !.ll[k] = l]
  ELSE IF KeyOf(l, x) = k THEN x
  ELSE RemoveKey(k, x)

UpdateFails(k, l, x) == KeyOf(l, x) \notin {NONE, k}

----------------------------------------------------------------------------
(* uip-ds6-nbr.c and link-stats.c                                          *)

\* uip_ds6_nbr_add
FillNbr(ip, state, a) ==
  IF a.k = NONE THEN a.x
  ELSE [a.x EXCEPT !.nbr[a.k] = [ip |-> ip, state |-> state]]

NbrAdd(ip, l, state, victim, x) ==
  FillNbr(ip, state, AddLladdr("ds6_neighbors", l, victim, x))

\* link_stats_packet_sent, link_stats_input_callback
LinkStats(l, x) ==
  IF GetFromLladdr("link_stats", l, x) # NONE THEN x
  ELSE AddLladdr("link_stats", l, NONE, x).x

SetState(k, state, x) == [x EXCEPT !.nbr[k].state = state]

\* uip_ds6_nbr_refresh_reachable_state
Refresh(ip, x) ==
  LET k == NbrLookup(ip, x)
  IN IF k = NONE THEN x ELSE SetState(k, "REACHABLE", x)

\* What every frame and every unicast packet does before its handler runs.
Received(ip, l, unicast, x) ==
  IF unicast THEN Refresh(ip, LinkStats(l, x)) ELSE LinkStats(l, x)

----------------------------------------------------------------------------
(* uip-ds6-route.c                                                         *)

\* uip_ds6_route_nexthop: the address of the neighbour behind the key.
NextHop(r, x) ==
  LET k == GetFromLladdr("ds6_neighbors", x.ll[x.rt[r].nr], x)
  IN IF k = NONE THEN NONE ELSE x.nbr[k].ip

\* uip_ds6_route_lookup for host routes: the route and the reordered list.
RouteOf(d, x) == FirstIn(x.list, {r \in Route : x.rt[r].dest = d})

Lookup(d, x) ==
  LET r == RouteOf(d, x)
  IN IF r = NONE THEN x
     ELSE [x EXCEPT !.list = <<r>> \o RemoveFirst(@, r)]

\* Mutant: the next hop is not locked.
LinkRouteNoLock(d, a) ==
  LET r == Min(Route \ a.x.rtMem)
  IN IF a.k = NONE THEN a.x
     ELSE [a.x EXCEPT !.rtMem = @ \cup {r}, !.list = <<r>> \o @,
                      !.nrMem = @ + 1, !.via[a.k] = Append(@, r),
                      !.rt[r] = [dest |-> d, nr |-> a.k], !.num = @ + 1]

\* The tail of uip_ds6_route_add: a route through the neighbour with item a.k
\* of nbr_routes.
LinkRoute(d, a) ==
  LET r == Min(Route \ a.x.rtMem)
  IN IF a.k = NONE \/ a.x.rtMem = Route THEN a.x
     ELSE IF a.x.nrMem = UIP_DS6_ROUTE_NB
     THEN [a.x EXCEPT !.list = <<r>> \o @]
     ELSE Lock("nbr_routes", a.k,
               [a.x EXCEPT !.rtMem = @ \cup {r}, !.list = <<r>> \o @,
                           !.nrMem = @ + 1, !.via[a.k] = Append(@, r),
                           !.rt[r] = [dest |-> d, nr |-> a.k], !.num = @ + 1])

\* Room for the route, and the next hop's item, added when it has none.
RouteNew(d, l, x) ==
  LET k == GetFromLladdr("nbr_routes", l, x)
  IN IF x.num = UIP_DS6_ROUTE_NB THEN x
     ELSE LinkRoute(d, IF k # NONE THEN [x |-> x, k |-> k]
                       ELSE AddLladdr("nbr_routes", l, NONE, x))

\* uip_ds6_route_add after its lookup, for a next hop with address l.  An
\* existing route through another neighbour is removed first, also one whose
\* next hop is gone.
RouteReplace(d, ip, l, x) ==
  LET r == RouteOf(d, x)
  IN IF r # NONE /\ NextHop(r, x) = ip THEN x
     ELSE RouteNew(d, l, IF r # NONE THEN RouteRm(r, x) ELSE x)

\* uip_ds6_route_add
RouteAdd(d, ip, x) ==
  LET k == NbrLookup(ip, x)
  IN IF k = NONE THEN x ELSE RouteReplace(d, ip, x.ll[k], Lookup(d, x))

----------------------------------------------------------------------------
(* rpl-icmp6.c and rpl-dag.c                                               *)

\* rpl_icmp6_update_nbr_table
UpdateNbrTable(ip, l, victim, x) ==
  IF NbrLookup(ip, x) = NONE THEN NbrAdd(ip, l, "REACHABLE", victim, x) ELSE x

\* find_parent_any_dag_any_instance, for items of this DAG.
FindParent(ip, x) ==
  LET k == NbrLookup(ip, x)
      p == IF k = NONE THEN NONE ELSE GetFromLladdr("rpl_parents", x.ll[k], x)
  IN IF p # NONE /\ x.dag[p] THEN p ELSE NONE

\* rpl_add_parent, for a neighbour that is in the cache.
AddParent(ip, x) ==
  LET a == AddLladdr("rpl_parents", x.ll[NbrLookup(ip, x)], NONE, x)
  IN [a.x EXCEPT !.dag[a.k] = TRUE]

\* rpl_remove_routes: the first route, as often as there are routes.
RemoveRoutes(x) ==
  LET left[n \in 0 .. Len(x.list)] ==
        IF n = 0 THEN x ELSE RouteRm(Head(left[n - 1].list), left[n - 1])
  IN left[Len(x.list)]

\* remove_parents, for all parents of this DAG.
RemoveParents(x) ==
  LET left[n \in 0 .. Len(x.keys)] ==
        IF n = 0 THEN x
        ELSE LET y == left[n - 1]
                 k == x.keys[n]
             IN IF Uses("rpl_parents", k, y) /\ y.dag[k] THEN RemoveParent(k, y) ELSE y
  IN left[Len(x.keys)]

\* best_parent: parents of this DAG whose neighbour is reachable.  The rank
\* decides among them, or against all of them.
Candidates(x) ==
  {k \in Items("rpl_parents", x) :
     x.dag[k] /\ LET n == GetFromLladdr("ds6_neighbors", x.ll[k], x)
                 IN n # NONE /\ x.nbr[n].state = "REACHABLE"} \cup {NONE}

----------------------------------------------------------------------------
(* Actions                                                                 *)

NoNbr   == [ip |-> NONE, state |-> "INCOMPLETE"]
NoRoute == [dest |-> NONE, nr |-> NONE]

\* What no code reads any more is forgotten, so that states that differ in it
\* alone are one: entries that are not in use, freed routes, and keys that
\* are on no list and carry no route.
Settle(x) ==
  LET listed  == ToSet(x.keys)
      routed  == ToSet(x.list)
      carries == {x.rt[r].nr : r \in routed}
  IN [x EXCEPT
        !.nbr = [k \in Key |-> IF Uses("ds6_neighbors", k, x) THEN @[k] ELSE NoNbr],
        !.rt  = [r \in Route |-> IF r \in routed THEN @[r] ELSE NoRoute],
        !.ll  = [k \in Key |-> IF k \in listed \cup carries THEN @[k] ELSE LinkaddrNull],
        !.dag = [k \in Key |-> k \in listed /\ @[k]],
        !.locked = [k \in Key |-> IF k \in listed THEN @[k] ELSE {}]]

Init ==
  \E root \in BOOLEAN :
  s = [root |-> root, keys |-> << >>, mem |-> {},
       ll |-> [k \in Key |-> LinkaddrNull],
       used |-> [k \in Key |-> {}], locked |-> [k \in Key |-> {}],
       nbr |-> [k \in Key |-> NoNbr],
       dag |-> [k \in Key |-> FALSE], pref |-> NONE,
       list |-> << >>, rt |-> [r \in Route |-> NoRoute],
       rtMem |-> {}, nrMem |-> 0, via |-> [k \in Key |-> << >>], num |-> 0]

\* The handler ends with tables x.
Become(x) == s' = Settle(x)

\* ns_input with a source link-layer address option.
NsInput(ip, l, unicast) ==
  \E x \in {Received(ip, l, unicast, s)} :
    LET k == NbrLookup(ip, x)
    IN Become(
         IF k = NONE THEN NbrAdd(ip, l, "STALE", NONE, x)
         ELSE IF UpdateFails(k, l, x) THEN UpdateLladdr(k, l, x)
         ELSE IF x.ll[k] # l THEN SetState(k, "STALE", UpdateLladdr(k, l, x))
         ELSE IF x.nbr[k].state = "INCOMPLETE" THEN SetState(k, "STALE", x)
         ELSE x)

\* na_input with a target link-layer address option.  A solicited
\* advertisement is unicast.
NaInput(ip, l, solicited, override) ==
  \E x \in {Received(ip, l, solicited, s)} :
    LET k == NbrLookup(ip, x)
        change == x.ll[k] # l
        state  == x.nbr[k].state
    IN Become(
         IF k = NONE THEN x
         ELSE IF state = "INCOMPLETE"
         THEN IF UpdateFails(k, l, x) \/ solicited THEN UpdateLladdr(k, l, x)
              ELSE SetState(k, "STALE", UpdateLladdr(k, l, x))
         ELSE IF change /\ override THEN UpdateLladdr(k, l, x)
         ELSE IF change /\ state = "REACHABLE" THEN SetState(k, "STALE", x)
         ELSE x)

\* rs_input with a source link-layer address option.  When the new entry
\* cannot be added the code goes on with a null pointer.
RsInput(ip, l) ==
  \E x \in {Received(ip, l, FALSE, s)} :
    LET k == NbrLookup(ip, x)
    IN Become(
         IF k = NONE THEN NbrAdd(ip, l, "STALE", NONE, x)
         ELSE IF x.ll[k] # l
         THEN NbrAdd(ip, l, "STALE", NONE, TableRemove("ds6_neighbors", k, x))
         ELSE x)

\* uip_ds6_neighbor_periodic finds the timer of one neighbour expired.
NeighborPeriodic(k) ==
  /\ k \in Items("ds6_neighbors", s)
  /\ Become(IF s.nbr[k].state = "REACHABLE" THEN SetState(k, "STALE", s)
            ELSE TableRemove("ds6_neighbors", k, s))

\* uip_ds6_link_neighbor_callback for an acknowledged frame.
LinkAcknowledged(l) ==
  \E x \in {LinkStats(l, s)} :
    LET k == GetFromLladdr("ds6_neighbors", l, x)
    IN Become(IF k # NONE /\ x.nbr[k].state # "INCOMPLETE"
              THEN SetState(k, "REACHABLE", x) ELSE x)

\* tcpip_ipv6_output to a neighbour that is not in the cache.
OutputUnknown(ip) ==
  /\ NbrLookup(ip, s) = NONE
  /\ Become(NbrAdd(ip, LinkaddrNull, "INCOMPLETE", NONE, s))

\* tcpip_ipv6_output to a destination behind a route.
OutputRouted(d) ==
  \E x \in {Lookup(d, s)} :
    LET r == RouteOf(d, x)
    IN /\ r # NONE
       /\ Become(IF NextHop(r, x) = NONE THEN RouteRm(r, x) ELSE x)

\* dis_input of a unicast DIS.
DisInput(ip, l) ==
  \E x \in {Received(ip, l, TRUE, s)} :
  \E v \in FindRemovable("RPL_DIS", x) : Become(UpdateNbrTable(ip, l, v, x))

\* dao_input drops a DAO of the preferred parent, and of a parent of lower
\* rank: it shows a loop.
DaoLoop(ip, l) ==
  \E x \in {Received(ip, l, TRUE, s)} : FindParent(ip, x) # NONE /\ Become(x)

\* dao_input adds the route that any other DAO announces.
DaoInput(ip, l, d) ==
  \E x \in {Lookup(d, Received(ip, l, TRUE, s))} :
    /\ FindParent(ip, x) = NONE \/ FindParent(ip, x) # x.pref
    /\ \E v \in FindRemovable("RPL_DAO", x) :
         Become(RouteAdd(d, ip, UpdateNbrTable(ip, l, v, x)))

\* rpl_process_dio for a DIO of the DAG this node has joined: the sender
\* becomes a parent, then the best parent is selected.
SelectParent(ip, x) ==
  \E y \in {IF FindParent(ip, x) # NONE THEN x ELSE AddParent(ip, x)} :
  \E p \in Candidates(y) \cup {y.pref} : Become(SetPreferredParent(p, y))

DioInput(ip, l, unicast) ==
  \E x \in {Received(ip, l, unicast, s)} :
  \E v \in FindRemovable("RPL_DIO", x) :
  \E y \in {UpdateNbrTable(ip, l, v, x)} :
    IF y.root \/ NbrLookup(ip, y) = NONE THEN Become(y) ELSE SelectParent(ip, y)

\* rpl_recalculate_ranks, from the periodic timer.
RecalculateRanks ==
  ~s.root /\ \E p \in Candidates(s) : Become(SetPreferredParent(p, s))

\* rpl_free_dag: rpl_remove_routes and remove_parents.
FreeDag ==
  ~s.root /\ Become(RemoveParents(RemoveRoutes(s)))

\* rpl_purge_routes, or a DAO-ACK that refuses the route.
RouteExpires(r) ==
  /\ r \in ToSet(s.list)
  /\ Become(RouteRm(r, s))

Next ==
  \/ \E n \in Speaks, u \in BOOLEAN : NsInput(n[1], n[2], u)
  \/ \E n \in Speaks, u, o \in BOOLEAN : NaInput(n[1], n[2], u, o)
  \/ \E n \in Speaks : RsInput(n[1], n[2])
  \/ \E k \in Key : NeighborPeriodic(k)
  \/ \E l \in Ll : LinkAcknowledged(l)
  \/ \E ip \in Ip : OutputUnknown(ip)
  \/ \E d \in Dest : OutputRouted(d)
  \/ \E n \in Speaks : DisInput(n[1], n[2])
  \/ \E n \in Speaks : DaoLoop(n[1], n[2])
  \/ \E n \in Speaks, d \in Dest : DaoInput(n[1], n[2], d)
  \/ \E n \in Speaks, u \in BOOLEAN : DioInput(n[1], n[2], u)
  \/ RecalculateRanks
  \/ FreeDag
  \/ \E r \in Route : RouteExpires(r)

Spec == Init /\ [][Next]_s

----------------------------------------------------------------------------
(* Properties                                                              *)

Listed == ToSet(s.keys)
Routed == ToSet(s.list)

\* The tables hold addresses, keys, routes and table indexes.
TypeOK ==
  /\ s.keys \in SeqOf(Key, NBR_TABLE_MAX_NEIGHBORS)
  /\ s.mem \subseteq Key
  /\ s.ll \in [Key -> Ll \cup {LinkaddrNull}]
  /\ s.used \in [Key -> SUBSET Indexes] /\ s.locked \in [Key -> SUBSET Indexes]
  /\ s.nbr \in [Key -> [ip : Ip \cup {NONE}, state : NbrState]]
  /\ s.dag \in [Key -> BOOLEAN] /\ s.pref \in Key \cup {NONE}
  /\ s.list \in SeqOf(Route, UIP_DS6_ROUTE_NB)
  /\ s.rt \in [Route -> [dest : Dest \cup {NONE}, nr : Key \cup {NONE}]]
  /\ s.rtMem \subseteq Route /\ s.nrMem \in 0 .. UIP_DS6_ROUTE_NB
  /\ s.via \in [Key -> SeqOf(Route, UIP_DS6_ROUTE_NB)]
  /\ s.num \in 0 .. UIP_DS6_ROUTE_NB

\* A link-layer address has one key and an IPv6 address one cache entry,
\* whatever ND, RPL and link statistics add, move, merge and evict: the
\* lookups of nbr-table.c and uip-ds6-nbr.c take the first match and would
\* hide a second.
OneEntryPerAddress ==
  /\ IsInjective(s.keys) /\ Listed \subseteq s.mem
  /\ \A j, k \in Listed : s.ll[j] = s.ll[k] => j = k
  /\ \A j, k \in Items("ds6_neighbors", s) : s.nbr[j].ip = s.nbr[k].ip => j = k
  /\ \A k \in Key \ Listed : s.used[k] = {}

\* The preferred parent is an item of the parent table in use, locked there
\* and the only one that is ("Always keep the preferred parent locked"),
\* through evictions, merged addresses, rank changes and leaving the DAG.
PreferredLocked ==
  /\ s.pref # NONE => s.pref \in Listed /\ Uses("rpl_parents", s.pref, s) /\ s.dag[s.pref]
  /\ \A k \in Listed : Index["rpl_parents"] \in s.locked[k] <=> k = s.pref

\* The three counts of routes agree and every route is on the list of exactly
\* its neighbour, so that the failures uip_ds6_route_add calls impossible
\* ("This should not happen") are.
RoutesLinked ==
  /\ IsInjective(s.list) /\ Routed = s.rtMem
  /\ s.num = Len(s.list) /\ s.nrMem = s.num
  /\ \A q, r \in Routed : s.rt[q].dest = s.rt[r].dest => q = r
  /\ \A k \in Key : /\ IsInjective(s.via[k])
                    /\ ToSet(s.via[k]) = {r \in Routed : s.rt[r].nr = k}

\* As long as a next hop's key is in the table it is in use for routes and
\* locked: its key is never given to another neighbour under the routes.
NextHopLocked ==
  \A k \in Listed :
    /\ s.via[k] # << >> <=> Uses("nbr_routes", k, s)
    /\ Uses("nbr_routes", k, s) <=> Index["nbr_routes"] \in s.locked[k]

\* When the policy of rpl-nbr-policy.c gives a neighbour's key to another
\* neighbour, the first was neither the preferred parent nor a next hop.
EvictsOnlyIdle ==
  [][\A k \in Listed :
       s'.ll[k] # s.ll[k] /\ s'.nbr[k].ip # s.nbr[k].ip /\ k \in ToSet(s'.keys)
         => k # s.pref /\ s.via[k] = << >>]_s

\* Routes go through neighbours that are in the table: "This neighbor table is
\* registered with the central nbr-table repository so that it will be
\* maintained along with the rest of the neighbor tables in the system."
RoutesMaintained == \A r \in Routed : Uses("nbr_routes", s.rt[r].nr, s)
============================================================================
