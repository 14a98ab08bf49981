----------------------------- MODULE Ds6Proofs ------------------------------
(***************************************************************************)
(* Proofs about Ds6, for any number of keys, routes, nodes, addresses and  *)
(* destinations.                                                           *)
(*                                                                         *)
(* A handler strings table operations together, so the invariant Good is a *)
(* formula about any record x of tables: each operation keeps it, with     *)
(* whatever the handler may rely on afterwards, and so does each handler.  *)
(***************************************************************************)
EXTENDS Ds6, SeqLemmas

-----------------------------------------------------------------------------
(* The inductive invariant.                                                *)

\* What the tables hold.
Tables ==
  [root : BOOLEAN, keys : Seq(Key), mem : SUBSET Key,
   ll : [Key -> Ll \cup {LinkaddrNull}],
   used : [Key -> SUBSET Indexes], locked : [Key -> SUBSET Indexes],
   nbr : [Key -> [ip : Ip \cup {NONE}, state : NbrState]],
   dag : [Key -> BOOLEAN], pref : Key \cup {NONE},
   list : Seq(Route), rt : [Route -> [dest : Dest \cup {NONE}, nr : Key \cup {NONE}]],
   rtMem : SUBSET Route, nrMem : Nat, via : [Key -> Seq(Route)], num : Nat]

OnKeys(x) == ToSet(x.keys)
OnList(x) == ToSet(x.list)
Cached(x) == Items("ds6_neighbors", x)

\* A key that is on no list is used by no table; a free one has no leftovers.
KeysGood(x) ==
  /\ IsInjective(x.keys) /\ OnKeys(x) \subseteq x.mem
  /\ \A j, k \in OnKeys(x) : x.ll[j] = x.ll[k] => j = k
  /\ \A k \in Key \ OnKeys(x) : x.used[k] = {}
  /\ \A k \in Key \ x.mem : x.locked[k] = {} /\ x.via[k] = <<>>

CacheGood(x) == \A j, k \in Cached(x) : x.nbr[j].ip = x.nbr[k].ip => j = k

ParentGood(x) ==
  /\ x.pref # NONE => x.pref \in OnKeys(x) /\ Uses("rpl_parents", x.pref, x) /\ x.dag[x.pref]
  /\ \A k \in OnKeys(x) : Index["rpl_parents"] \in x.locked[k] <=> k = x.pref

RoutesGood(x) ==
  /\ IsInjective(x.list) /\ OnList(x) = x.rtMem
  /\ x.num = Len(x.list) /\ x.nrMem = x.num
  /\ \A q, r \in OnList(x) : x.rt[q].dest = x.rt[r].dest => q = r
  /\ \A r \in OnList(x) : x.rt[r].nr \in Key
  /\ \A k \in Key : /\ IsInjective(x.via[k])
                    /\ ToSet(x.via[k]) = {r \in OnList(x) : x.rt[r].nr = k}

HopsGood(x) ==
  \A k \in OnKeys(x) :
    /\ x.via[k] # <<>> <=> Uses("nbr_routes", k, x)
    /\ Uses("nbr_routes", k, x) <=> Index["nbr_routes"] \in x.locked[k]

Good(x) ==
  /\ x \in Tables /\ KeysGood(x) /\ CacheGood(x)
  /\ ParentGood(x) /\ RoutesGood(x) /\ HopsGood(x)

-----------------------------------------------------------------------------
(* The order of registration.                                              *)

\* The places of the five steps of tcpip_init.
LEMMA InitPosIs ==
  /\ DOMAIN InitOrder = 1 .. 5
  /\ InitPos("link_stats") = 1 /\ InitPos("ds6_neighbors") = 2
  /\ InitPos("nbr_routes") = 3 /\ InitPos("nbr_table_init") = 4
  /\ InitPos("rpl_parents") = 5
  <1>1. DOMAIN InitOrder = 1 .. 5
    BY DEF InitOrder
  <1>2. /\ InitOrder[1] = "link_stats" /\ InitOrder[2] = "ds6_neighbors"
        /\ InitOrder[3] = "nbr_routes" /\ InitOrder[4] = "nbr_table_init"
        /\ InitOrder[5] = "rpl_parents"
    BY DEF InitOrder
  <1>3. \A i \in 1 .. 5 : i = 1 \/ i = 2 \/ i = 3 \/ i = 4 \/ i = 5
    OBVIOUS
  <1>4. \A i \in 1 .. 5 : /\ InitOrder[i] = "link_stats" <=> i = 1
                          /\ InitOrder[i] = "ds6_neighbors" <=> i = 2
                          /\ InitOrder[i] = "nbr_routes" <=> i = 3
                          /\ InitOrder[i] = "nbr_table_init" <=> i = 4
                          /\ InitOrder[i] = "rpl_parents" <=> i = 5
    BY <1>2, <1>3
  <1> QED BY <1>1, <1>4 DEF InitPos

\* The second nbr_table_init() gives the parents the index of link_stats and
\* leaves them the only table whose callback is called.
LEMMA IndexIs ==
  /\ Index["link_stats"] = 0 /\ Index["ds6_neighbors"] = 1
  /\ Index["nbr_routes"] = 2 /\ Index["rpl_parents"] = 0
  /\ Indexes = {0, 1, 2}
  /\ all_tables = {"rpl_parents"}
  <1> DEFINE Before(n) == {i \in 1 .. n - 1 : \A j \in i .. n - 1 : InitOrder[j] # "nbr_table_init"}
  <1>1. /\ InitOrder[1] # "nbr_table_init" /\ InitOrder[2] # "nbr_table_init"
        /\ InitOrder[3] # "nbr_table_init" /\ InitOrder[4] = "nbr_table_init"
    BY DEF InitOrder
  <1>2. Before(1) = {}
    OBVIOUS
  <1>3. Before(2) = {1}
    BY <1>1
  <1>4. Before(3) = {1, 2}
    BY <1>1
  <1>5. Before(5) = {}
    <2>1. \A i \in 1 .. 4 : 4 \in i .. 4
      OBVIOUS
    <2> QED BY <1>1, <2>1
  <1> HIDE DEF Before
  <1>6. Cardinality({}) = 0 /\ Cardinality({1}) = 1 /\ Cardinality({1, 2}) = 2
    <2>1. Cardinality({}) = 0
      BY FS_EmptySet
    <2>2. Cardinality({1}) = 1
      BY FS_Singleton
    <2>3. {1, 2} = {1} \cup {2} /\ 2 \notin {1}
      OBVIOUS
    <2>4. Cardinality({1} \cup {2}) = Cardinality({1}) + 1
      BY <2>3, FS_Singleton, FS_AddElement
    <2> QED BY <2>1, <2>2, <2>3, <2>4
  <1>7. \A t \in Table : Index[t] = Cardinality(Before(InitPos(t)))
    BY DEF Index, Before
  <1>8. /\ Index["link_stats"] = 0 /\ Index["ds6_neighbors"] = 1
        /\ Index["nbr_routes"] = 2 /\ Index["rpl_parents"] = 0
    BY <1>2, <1>3, <1>4, <1>5, <1>6, <1>7, InitPosIs DEF Table
  <1>9. Indexes = {0, 1, 2}
    BY <1>8 DEF Indexes, Table
  <1>10. all_tables = {"rpl_parents"}
    BY InitPosIs DEF all_tables, Table
  <1> QED BY <1>8, <1>9, <1>10

-----------------------------------------------------------------------------
(* Finding.                                                                *)

\* The first and the last element of a list that is in a set.
LEMMA FirstInIs ==
  ASSUME NEW T, NONE \notin T, NEW q \in Seq(T), NEW S
  PROVE  \/ FirstIn(q, S) = NONE /\ ToSet(q) \cap S = {}
         \/ FirstIn(q, S) \in ToSet(q) \cap S /\ FirstIn(q, S) # NONE
  <1> DEFINE hits == {i \in DOMAIN q : q[i] \in S}
  <1>1. hits \in SUBSET Nat /\ hits = {i \in 1 .. Len(q) : q[i] \in S}
    OBVIOUS
  <1>2. CASE hits = {}
    BY <1>2, ToSetIs DEF FirstIn
  <1>3. CASE hits # {}
    <2>1. FirstIn(q, S) = q[Min(hits)]
      BY <1>3 DEF FirstIn
    <2>2. Min(hits) \in hits
      <3> HIDE DEF hits
      <3> QED BY <1>1, <1>3, MinIs
    <2> QED BY <1>1, <2>1, <2>2, ToSetIs
  <1> QED BY <1>2, <1>3

\* The last element of a list that is in a set.
LEMMA LastInIs ==
  ASSUME NEW T, NEW q \in Seq(T), NEW S, ToSet(q) \cap S # {}
  PROVE  LastIn(q, S) \in ToSet(q) \cap S
  <1> DEFINE hits == {i \in DOMAIN q : q[i] \in S}
  <1>1. hits \in SUBSET (1 .. Len(q)) /\ hits = {i \in 1 .. Len(q) : q[i] \in S}
    OBVIOUS
  <1>2. hits # {}
    BY ToSetIs
  <1>3. LastIn(q, S) = q[Max(hits)]
    BY <1>2 DEF LastIn
  <1>4. Max(hits) \in hits
    <2> HIDE DEF hits
    <2> QED BY <1>1, <1>2, MaxIs, Len(q) \in Nat
  <1> QED BY <1>1, <1>3, <1>4, ToSetIs

\* Keys and routes are numbers, NONE is none of them.
LEMMA NoneIs == NONE \notin Key /\ NONE \notin Route /\ NONE \notin Ip /\ NONE \notin Dest
  BY Ds6Assumption DEF Key, Route

\* The key with an address, when there is one.
LEMMA KeyOfIs ==
  ASSUME NEW x \in Tables, NEW l
  PROVE  \/ KeyOf(l, x) = NONE /\ \A k \in OnKeys(x) : x.ll[k] # l
         \/ /\ KeyOf(l, x) \in OnKeys(x) /\ KeyOf(l, x) \in Key /\ KeyOf(l, x) # NONE
            /\ x.ll[KeyOf(l, x)] = l
  <1> DEFINE S == {k \in Key : x.ll[k] = l}
  <1>1. x.keys \in Seq(Key)
    BY DEF Tables
  <1>2. KeyOf(l, x) = FirstIn(x.keys, S)
    BY DEF KeyOf
  <1>3. \/ FirstIn(x.keys, S) = NONE /\ ToSet(x.keys) \cap S = {}
        \/ FirstIn(x.keys, S) \in ToSet(x.keys) \cap S /\ FirstIn(x.keys, S) # NONE
    <2> HIDE DEF S
    <2> QED BY <1>1, NoneIs, FirstInIs
  <1>4. ToSet(x.keys) \subseteq Key
    BY <1>1, ToSetIs
  <1> QED BY <1>2, <1>3, <1>4 DEF OnKeys

\* With one key for each address, looking for a listed key's address finds it.
LEMMA KeyOfListed ==
  ASSUME NEW x \in Tables, KeysGood(x), NEW k \in OnKeys(x)
  PROVE  KeyOf(x.ll[k], x) = k
  BY KeyOfIs DEF KeysGood

\* The cache entry of an address, when there is one.
LEMMA NbrLookupIs ==
  ASSUME NEW x \in Tables, NEW ip
  PROVE  \/ NbrLookup(ip, x) = NONE /\ \A k \in Cached(x) : x.nbr[k].ip # ip
         \/ /\ NbrLookup(ip, x) \in Cached(x) /\ NbrLookup(ip, x) \in OnKeys(x)
            /\ NbrLookup(ip, x) \in Key /\ NbrLookup(ip, x) # NONE
            /\ x.nbr[NbrLookup(ip, x)].ip = ip
  <1> DEFINE S == {k \in Items("ds6_neighbors", x) : x.nbr[k].ip = ip}
  <1>1. x.keys \in Seq(Key)
    BY DEF Tables
  <1>2. NbrLookup(ip, x) = FirstIn(x.keys, S)
    BY DEF NbrLookup
  <1>3. \/ FirstIn(x.keys, S) = NONE /\ ToSet(x.keys) \cap S = {}
        \/ FirstIn(x.keys, S) \in ToSet(x.keys) \cap S /\ FirstIn(x.keys, S) # NONE
    <2> HIDE DEF S
    <2> QED BY <1>1, NoneIs, FirstInIs
  <1>4. ToSet(x.keys) \subseteq Key /\ Cached(x) \subseteq ToSet(x.keys)
    BY <1>1, ToSetIs DEF Cached, Items
  <1> QED BY <1>2, <1>3, <1>4 DEF OnKeys, Cached

\* The route to a destination, when there is one.
LEMMA RouteOfIs ==
  ASSUME NEW x \in Tables, NEW d
  PROVE  \/ RouteOf(d, x) = NONE /\ \A r \in OnList(x) : x.rt[r].dest # d
         \/ /\ RouteOf(d, x) \in OnList(x) /\ RouteOf(d, x) \in Route /\ RouteOf(d, x) # NONE
            /\ x.rt[RouteOf(d, x)].dest = d
  <1> DEFINE S == {r \in Route : x.rt[r].dest = d}
  <1>1. x.list \in Seq(Route)
    BY DEF Tables
  <1>2. RouteOf(d, x) = FirstIn(x.list, S)
    BY DEF RouteOf
  <1>3. \/ FirstIn(x.list, S) = NONE /\ ToSet(x.list) \cap S = {}
        \/ FirstIn(x.list, S) \in ToSet(x.list) \cap S /\ FirstIn(x.list, S) # NONE
    <2> HIDE DEF S
    <2> QED BY <1>1, NoneIs, FirstInIs
  <1>4. ToSet(x.list) \subseteq Route
    BY <1>1, ToSetIs
  <1> QED BY <1>2, <1>3, <1>4 DEF OnList

-----------------------------------------------------------------------------
(* What an operation leaves alone.                                         *)

SameKeys(x, y)    == y.keys = x.keys /\ y.mem = x.mem /\ y.ll = x.ll
SameBits(x, y)    == y.used = x.used /\ y.locked = x.locked
SameParents(x, y) == y.root = x.root /\ y.dag = x.dag /\ y.pref = x.pref
SameRoutes(x, y)  ==
  /\ y.list = x.list /\ y.rt = x.rt /\ y.rtMem = x.rtMem
  /\ y.nrMem = x.nrMem /\ y.num = x.num /\ y.via = x.via

\* Table index n of key k is cleared, or set, in a bitmap, and nothing else.
Cleared(u, v, k, n) ==
  \A j \in Key, i \in Indexes : i \in v[j] <=> i \in u[j] /\ ~(j = k /\ i = n)
SetIn(u, v, k, n) ==
  \A j \in Key, i \in Indexes : i \in v[j] <=> i \in u[j] \/ (j = k /\ i = n)

\* Every key stays on the list, with its address.
Stays(x, y) ==
  OnKeys(x) \subseteq OnKeys(y) /\ \A k \in OnKeys(x) : y.ll[k] = x.ll[k]

\* Only a neighbour that RPL and the routes do not need gives up its key.
OnlyIdleEvicted(x, y) ==
  \A k \in OnKeys(x) \cap OnKeys(y) :
    \/ y.ll[k] = x.ll[k]
    \/ k \in Cached(y) /\ y.nbr[k].ip = x.nbr[k].ip
    \/ k # x.pref /\ x.via[k] = <<>>

\* What is read off the invariant most often.
LEMMA GoodIs ==
  ASSUME NEW x, Good(x)
  PROVE  /\ x \in Tables /\ KeysGood(x) /\ CacheGood(x)
         /\ ParentGood(x) /\ RoutesGood(x) /\ HopsGood(x)
         /\ OnKeys(x) \subseteq Key /\ OnList(x) \subseteq Route
         /\ Cached(x) \subseteq OnKeys(x)
         /\ \A k \in OnKeys(x) : k \in Cached(x) <=> 1 \in x.used[k]
  <1>1. x \in Tables /\ x.keys \in Seq(Key) /\ x.list \in Seq(Route)
    BY DEF Good, Tables
  <1>2. OnKeys(x) \subseteq Key /\ OnList(x) \subseteq Route
    BY <1>1, ToSetIs DEF OnKeys, OnList
  <1> QED BY <1>1, <1>2, IndexIs DEF Good, Cached, Items, Uses, OnKeys

-----------------------------------------------------------------------------
(* The neighbour cache.                                                    *)

\* SetState changes the state of an entry.
LEMMA SetStateGood ==
  ASSUME NEW x, Good(x), NEW k \in Key, NEW state \in NbrState,
         NEW y, y = SetState(k, state, x)
  PROVE  /\ Good(y)
         /\ SameKeys(x, y) /\ SameBits(x, y) /\ SameParents(x, y) /\ SameRoutes(x, y)
         /\ \A j \in Key : y.nbr[j].ip = x.nbr[j].ip
  <1>1. x \in Tables
    BY DEF Good
  <1>2. y = [x EXCEPT !.nbr = [x.nbr EXCEPT ![k] = [x.nbr[k] EXCEPT !.state = state]]]
    BY <1>1 DEF SetState, Tables
  <1>3. /\ SameKeys(x, y) /\ SameBits(x, y) /\ SameParents(x, y) /\ SameRoutes(x, y)
        /\ y.nbr = [x.nbr EXCEPT ![k] = [x.nbr[k] EXCEPT !.state = state]]
    BY <1>1, <1>2 DEF Tables, SameKeys, SameBits, SameParents, SameRoutes
  <1>4. /\ y.nbr \in [Key -> [ip : Ip \cup {NONE}, state : NbrState]]
        /\ \A j \in Key : y.nbr[j].ip = x.nbr[j].ip
    <2>1. x.nbr \in [Key -> [ip : Ip \cup {NONE}, state : NbrState]]
      BY <1>1 DEF Tables
    <2>2. ASSUME NEW j \in Key
          PROVE  /\ y.nbr[j] \in [ip : Ip \cup {NONE}, state : NbrState]
                 /\ y.nbr[j].ip = x.nbr[j].ip
      BY <1>3, <2>1
    <2> QED BY <1>3, <2>1, <2>2
  <1>5. y \in Tables
    BY <1>1, <1>2, <1>4 DEF Tables
  <1>6. OnKeys(y) = OnKeys(x) /\ Cached(y) = Cached(x) /\ OnList(y) = OnList(x)
    BY <1>3 DEF OnKeys, OnList, Cached, Items, Uses, SameKeys, SameBits, SameRoutes
  <1>7. CacheGood(y)
    BY <1>4, <1>6, GoodIs DEF CacheGood
  <1>8. KeysGood(y) /\ ParentGood(y) /\ HopsGood(y)
    BY <1>3, <1>6 DEF Good, KeysGood, ParentGood, HopsGood, Uses, SameKeys, SameBits, SameParents, SameRoutes
  <1>9. RoutesGood(y)
    BY <1>3, <1>6 DEF Good, RoutesGood, SameRoutes
  <1> QED BY <1>3, <1>4, <1>5, <1>7, <1>8, <1>9 DEF Good

\* A table gives up an item of key k, with its lock.
LEMMA TableRemoveIs ==
  ASSUME NEW x \in Tables, NEW t \in Table, NEW k \in Key, NEW y, y = TableRemove(t, k, x)
  PROVE  /\ y \in Tables
         /\ SameKeys(x, y) /\ SameParents(x, y) /\ SameRoutes(x, y) /\ y.nbr = x.nbr
         /\ Cleared(x.used, y.used, k, Index[t]) /\ Cleared(x.locked, y.locked, k, Index[t])
  <1>1. y = [x EXCEPT !.used = [x.used EXCEPT ![k] = @ \ {Index[t]}],
                      !.locked = [x.locked EXCEPT ![k] = @ \ {Index[t]}]]
    BY DEF TableRemove, Tables
  <1>2. /\ SameKeys(x, y) /\ SameParents(x, y) /\ SameRoutes(x, y) /\ y.nbr = x.nbr
        /\ y.used = [x.used EXCEPT ![k] = @ \ {Index[t]}]
        /\ y.locked = [x.locked EXCEPT ![k] = @ \ {Index[t]}]
    BY <1>1 DEF Tables, SameKeys, SameParents, SameRoutes
  <1>3. y.used \in [Key -> SUBSET Indexes] /\ y.locked \in [Key -> SUBSET Indexes]
    BY <1>2 DEF Tables
  <1>4. y \in Tables
    BY <1>1, <1>3 DEF Tables
  <1>5. x.used \in [Key -> SUBSET Indexes] /\ x.locked \in [Key -> SUBSET Indexes]
    BY DEF Tables
  <1>6. ASSUME NEW j \in Key, NEW i \in Indexes
        PROVE  /\ i \in y.used[j] <=> i \in x.used[j] /\ ~(j = k /\ i = Index[t])
               /\ i \in y.locked[j] <=> i \in x.locked[j] /\ ~(j = k /\ i = Index[t])
    BY <1>2, <1>5
  <1> QED BY <1>2, <1>4, <1>6 DEF Cleared

\* What the invariants ask of a bitmap, for each index.
LEMMA BitsOf ==
  ASSUME NEW u \in [Key -> SUBSET Indexes], NEW v \in [Key -> SUBSET Indexes],
         NEW k, NEW n, Cleared(u, v, k, n), NEW j \in Key
  PROVE  /\ v[j] \subseteq u[j]
         /\ u[j] = {} => v[j] = {}
         /\ 0 \in v[j] <=> 0 \in u[j] /\ (j = k => 0 # n)
         /\ 1 \in v[j] <=> 1 \in u[j] /\ (j = k => 1 # n)
         /\ 2 \in v[j] <=> 2 \in u[j] /\ (j = k => 2 # n)
  <1>1. v[j] \subseteq Indexes /\ 0 \in Indexes /\ 1 \in Indexes /\ 2 \in Indexes
    BY IndexIs
  <1>2. \A i \in Indexes : i \in v[j] <=> i \in u[j] /\ ~(j = k /\ i = n)
    BY DEF Cleared
  <1> QED BY <1>1, <1>2

\* The bitmaps of tables.
LEMMA BitmapsIs ==
  ASSUME NEW x \in Tables
  PROVE  x.used \in [Key -> SUBSET Indexes] /\ x.locked \in [Key -> SUBSET Indexes]
  BY DEF Tables

\* The cache gives up an entry of a key.
LEMMA CacheRemoveGood ==
  ASSUME NEW x, Good(x), NEW k \in OnKeys(x), NEW y, y = TableRemove("ds6_neighbors", k, x)
  PROVE  /\ Good(y) /\ SameKeys(x, y) /\ SameParents(x, y) /\ SameRoutes(x, y) /\ y.nbr = x.nbr
         /\ Cached(y) = Cached(x) \ {k}
  <1>1. x \in Tables /\ k \in Key /\ "ds6_neighbors" \in Table /\ Index["ds6_neighbors"] = 1
    BY GoodIs, IndexIs DEF Table
  <1>2. /\ y \in Tables
        /\ SameKeys(x, y) /\ SameParents(x, y) /\ SameRoutes(x, y) /\ y.nbr = x.nbr
        /\ Cleared(x.used, y.used, k, 1) /\ Cleared(x.locked, y.locked, k, 1)
    BY <1>1, TableRemoveIs
  <1>3. \A j \in Key : /\ 0 \in y.used[j] <=> 0 \in x.used[j]
                       /\ 1 \in y.used[j] <=> 1 \in x.used[j] /\ j # k
                       /\ 2 \in y.used[j] <=> 2 \in x.used[j]
                       /\ 0 \in y.locked[j] <=> 0 \in x.locked[j]
                       /\ 2 \in y.locked[j] <=> 2 \in x.locked[j]
                       /\ x.used[j] = {} => y.used[j] = {}
                       /\ x.locked[j] = {} => y.locked[j] = {}
    <2> TAKE j \in Key
    <2>1. /\ x.used \in [Key -> SUBSET Indexes] /\ x.locked \in [Key -> SUBSET Indexes]
          /\ y.used \in [Key -> SUBSET Indexes] /\ y.locked \in [Key -> SUBSET Indexes]
      BY <1>1, <1>2, BitmapsIs
    <2>2. /\ x.used[j] = {} => y.used[j] = {}
          /\ 0 \in y.used[j] <=> 0 \in x.used[j] /\ (j = k => 0 # 1)
          /\ 1 \in y.used[j] <=> 1 \in x.used[j] /\ (j = k => 1 # 1)
          /\ 2 \in y.used[j] <=> 2 \in x.used[j] /\ (j = k => 2 # 1)
      BY <1>2, <2>1, BitsOf
    <2>3. /\ x.locked[j] = {} => y.locked[j] = {}
          /\ 0 \in y.locked[j] <=> 0 \in x.locked[j] /\ (j = k => 0 # 1)
          /\ 2 \in y.locked[j] <=> 2 \in x.locked[j] /\ (j = k => 2 # 1)
      BY <1>2, <2>1, BitsOf
    <2> QED BY <2>2, <2>3
  <1>4. OnKeys(y) = OnKeys(x) /\ OnList(y) = OnList(x) /\ OnKeys(x) \subseteq Key
    BY <1>2, GoodIs DEF OnKeys, OnList, SameKeys, SameRoutes
  <1>5. Cached(y) = Cached(x) \ {k}
    BY <1>3, <1>4, IndexIs DEF Cached, Items, Uses, OnKeys
  <1>6. CacheGood(y)
    BY <1>2, <1>5 DEF Good, CacheGood
  <1>7. KeysGood(y)
    BY <1>2, <1>3, <1>4 DEF Good, KeysGood, SameKeys, SameRoutes
  <1>8. ParentGood(y)
    BY <1>2, <1>3, <1>4, IndexIs DEF Good, ParentGood, Uses, SameParents
  <1>9. HopsGood(y)
    BY <1>2, <1>3, <1>4, IndexIs DEF Good, HopsGood, Uses, SameRoutes
  <1>10. RoutesGood(y)
    BY <1>2, <1>4 DEF Good, RoutesGood, SameRoutes
  <1> QED BY <1>2, <1>5, <1>6, <1>7, <1>8, <1>9, <1>10 DEF Good

\* uip_ds6_nbr_refresh_reachable_state
LEMMA RefreshGood ==
  ASSUME NEW x, Good(x), NEW ip, NEW y, y = Refresh(ip, x)
  PROVE  /\ Good(y)
         /\ SameKeys(x, y) /\ SameBits(x, y) /\ SameParents(x, y) /\ SameRoutes(x, y)
         /\ \A j \in Key : y.nbr[j].ip = x.nbr[j].ip
  <1> DEFINE k == NbrLookup(ip, x)
  <1>1. CASE k = NONE
    BY <1>1 DEF Refresh, SameKeys, SameBits, SameParents, SameRoutes
  <1>2. CASE k # NONE
    <2>1. y = SetState(k, "REACHABLE", x)
      BY <1>2 DEF Refresh
    <2>2. k \in Key /\ "REACHABLE" \in NbrState
      BY <1>2, GoodIs, NbrLookupIs DEF NbrState
    <2> HIDE DEF k
    <2> QED BY <2>1, <2>2, SetStateGood
  <1> QED BY <1>1, <1>2

-----------------------------------------------------------------------------
(* The preferred parent.                                                   *)

\* Tables that differ in the locks alone.
LEMMA LockedIs ==
  ASSUME NEW x \in Tables, NEW v \in [Key -> SUBSET Indexes], NEW y, y = [x EXCEPT !.locked = v]
  PROVE  /\ y \in Tables /\ SameKeys(x, y) /\ SameParents(x, y) /\ SameRoutes(x, y)
         /\ y.nbr = x.nbr /\ y.used = x.used /\ y.locked = v
  BY DEF Tables, SameKeys, SameParents, SameRoutes

\* nbr_table_lock
LEMMA LockIs ==
  ASSUME NEW x \in Tables, NEW t \in Table, NEW p \in Key \cup {NONE}, NEW y, y = Lock(t, p, x)
  PROVE  /\ y \in Tables /\ SameKeys(x, y) /\ SameParents(x, y) /\ SameRoutes(x, y)
         /\ y.nbr = x.nbr /\ y.used = x.used
         /\ SetIn(x.locked, y.locked, p, Index[t])
  <1>1. x.locked \in [Key -> SUBSET Indexes] /\ Index[t] \in Indexes /\ NONE \notin Key
    BY NoneIs DEF Tables, Indexes
  <1>2. CASE p = NONE
    <2>1. y = x
      BY <1>2 DEF Lock
    <2> QED BY <1>1, <1>2, <2>1 DEF SetIn, SameKeys, SameParents, SameRoutes
  <1>3. CASE p # NONE
    <2> DEFINE v == [x.locked EXCEPT ![p] = @ \cup {Index[t]}]
    <2>1. y = [x EXCEPT !.locked = v]
      BY <1>3 DEF Lock, Tables
    <2>2. v \in [Key -> SUBSET Indexes] /\ SetIn(x.locked, v, p, Index[t])
      BY <1>1, <1>3 DEF SetIn
    <2> HIDE DEF v
    <2> QED BY <2>1, <2>2, LockedIs
  <1> QED BY <1>2, <1>3

\* nbr_table_unlock
LEMMA UnlockIs ==
  ASSUME NEW x \in Tables, NEW t \in Table, NEW p \in Key \cup {NONE}, NEW y, y = Unlock(t, p, x)
  PROVE  /\ y \in Tables /\ SameKeys(x, y) /\ SameParents(x, y) /\ SameRoutes(x, y)
         /\ y.nbr = x.nbr /\ y.used = x.used
         /\ Cleared(x.locked, y.locked, p, Index[t])
  <1>1. x.locked \in [Key -> SUBSET Indexes] /\ NONE \notin Key
    BY NoneIs DEF Tables
  <1>2. CASE p = NONE
    <2>1. y = x
      BY <1>2 DEF Unlock
    <2> QED BY <1>1, <1>2, <2>1 DEF Cleared, SameKeys, SameParents, SameRoutes
  <1>3. CASE p # NONE
    <2> DEFINE v == [x.locked EXCEPT ![p] = @ \ {Index[t]}]
    <2>1. y = [x EXCEPT !.locked = v]
      BY <1>3 DEF Unlock, Tables
    <2>2. v \in [Key -> SUBSET Indexes] /\ Cleared(x.locked, v, p, Index[t])
      BY <1>1, <1>3 DEF Cleared
    <2> HIDE DEF v
    <2> QED BY <2>1, <2>2, LockedIs
  <1> QED BY <1>2, <1>3

\* rpl_set_preferred_parent, for no parent or one of this DAG.
LEMMA SetPreferredGood ==
  ASSUME NEW x, Good(x), NEW p,
         p = NONE \/ (p \in OnKeys(x) /\ Uses("rpl_parents", p, x) /\ x.dag[p]),
         NEW y, y = SetPreferredParent(p, x)
  PROVE  /\ Good(y) /\ SameKeys(x, y) /\ SameRoutes(x, y)
         /\ y.nbr = x.nbr /\ y.used = x.used /\ y.dag = x.dag /\ y.root = x.root
         /\ y.pref = p
         /\ \A j \in Key : y.locked[j] \subseteq x.locked[j] \/ j = p
  <1>1. CASE x.pref = p
    BY <1>1 DEF SetPreferredParent, SameKeys, SameRoutes
  <1>2. CASE x.pref # p
    <2> DEFINE u == Unlock("rpl_parents", x.pref, x)
               v == Lock("rpl_parents", p, u)
    <2>1. /\ x \in Tables /\ x.pref \in Key \cup {NONE} /\ p \in Key \cup {NONE}
          /\ "rpl_parents" \in Table /\ Index["rpl_parents"] = 0
      BY GoodIs, IndexIs DEF Table, Tables
    <2>2. /\ u \in Tables /\ SameKeys(x, u) /\ SameParents(x, u) /\ SameRoutes(x, u)
          /\ u.nbr = x.nbr /\ u.used = x.used /\ Cleared(x.locked, u.locked, x.pref, 0)
      BY <2>1, UnlockIs
    <2>3. /\ v \in Tables /\ SameKeys(u, v) /\ SameParents(u, v) /\ SameRoutes(u, v)
          /\ v.nbr = u.nbr /\ v.used = u.used /\ SetIn(u.locked, v.locked, p, 0)
      <3> HIDE DEF u
      <3> QED BY <2>1, <2>2, LockIs
    <2>4. y = [v EXCEPT !.pref = p]
      BY <1>2 DEF SetPreferredParent
    <2> HIDE DEF u, v
    <2>5. /\ y \in Tables /\ SameKeys(v, y) /\ SameRoutes(v, y) /\ SameBits(v, y)
          /\ y.nbr = v.nbr /\ y.dag = v.dag /\ y.root = v.root /\ y.pref = p
      BY <2>1, <2>3, <2>4 DEF Tables, SameKeys, SameRoutes, SameBits
    <2>6. /\ SameKeys(x, y) /\ SameRoutes(x, y) /\ y.nbr = x.nbr /\ y.used = x.used
          /\ y.dag = x.dag /\ y.root = x.root
      BY <2>2, <2>3, <2>5 DEF SameKeys, SameRoutes, SameBits, SameParents
    <2>7. \A j \in Key, i \in Indexes :
            i \in y.locked[j] <=> (i \in x.locked[j] /\ ~(j = x.pref /\ i = 0)) \/ (j = p /\ i = 0)
      BY <2>2, <2>3, <2>5 DEF Cleared, SetIn, SameBits
    <2>8. \A j \in Key : /\ 0 \in y.locked[j] <=> (0 \in x.locked[j] /\ j # x.pref) \/ j = p
                         /\ 2 \in y.locked[j] <=> 2 \in x.locked[j]
                         /\ y.locked[j] \subseteq Indexes
      BY <2>5, <2>7, IndexIs DEF Tables
    <2>9. \A j \in Key : y.locked[j] \subseteq x.locked[j] \/ j = p
      BY <2>7, <2>8
    <2>10. OnKeys(y) = OnKeys(x) /\ OnList(y) = OnList(x) /\ OnKeys(x) \subseteq Key /\ Cached(y) = Cached(x)
      BY <2>6, GoodIs DEF OnKeys, OnList, Cached, Items, Uses, SameKeys, SameRoutes
    <2>11. KeysGood(y)
      <3>1. \A k \in Key \ x.mem : x.locked[k] = {} /\ k # p
        BY GoodIs, <2>1, NoneIs DEF KeysGood
      <3>2. \A k \in Key \ x.mem : y.locked[k] = {}
        BY <2>9, <3>1
      <3> QED BY <2>6, <2>10, <3>2 DEF Good, KeysGood, SameKeys, SameRoutes
    <2>12. ParentGood(y)
      BY <2>5, <2>6, <2>8, <2>10, IndexIs DEF Good, ParentGood, Uses
    <2>13. HopsGood(y)
      BY <2>6, <2>8, <2>10, IndexIs DEF Good, HopsGood, Uses, SameRoutes
    <2>14. CacheGood(y) /\ RoutesGood(y)
      BY <2>6, <2>10 DEF Good, CacheGood, RoutesGood, SameRoutes
    <2> QED BY <2>5, <2>6, <2>9, <2>11, <2>12, <2>13, <2>14 DEF Good
  <1> QED BY <1>1, <1>2

\* rpl_nullify_parent leaves the key without the preferred parent.
LEMMA NullifyGood ==
  ASSUME NEW x, Good(x), NEW k \in OnKeys(x), NEW y, y = NullifyParent(k, x)
  PROVE  /\ Good(y) /\ SameKeys(x, y) /\ SameRoutes(x, y)
         /\ y.nbr = x.nbr /\ y.used = x.used /\ y.dag = x.dag /\ y.root = x.root
         /\ y.pref # k /\ (x.pref # k => y.pref = x.pref)
         /\ \A j \in Key : y.locked[j] \subseteq x.locked[j]
  <1>1. k \in Key /\ k # NONE
    BY GoodIs, NoneIs
  <1>2. CASE x.pref = k
    <2>1. x.dag[k]
      BY <1>1, <1>2 DEF Good, ParentGood
    <2>2. y = SetPreferredParent(NONE, x)
      BY <1>2, <2>1 DEF NullifyParent
    <2>3. /\ Good(y) /\ SameKeys(x, y) /\ SameRoutes(x, y)
          /\ y.nbr = x.nbr /\ y.used = x.used /\ y.dag = x.dag /\ y.root = x.root
          /\ y.pref = NONE
          /\ \A j \in Key : y.locked[j] \subseteq x.locked[j] \/ j = NONE
      BY <2>2, SetPreferredGood
    <2> QED BY <1>1, <1>2, <2>3, NoneIs
  <1>3. CASE x.pref # k
    <2>1. y = x
      BY <1>3 DEF NullifyParent
    <2> QED BY <1>3, <2>1 DEF SameKeys, SameRoutes
  <1> QED BY <1>2, <1>3

\* rpl_remove_parent
LEMMA RemoveParentGood ==
  ASSUME NEW x, Good(x), NEW k \in OnKeys(x), NEW y, y = RemoveParent(k, x)
  PROVE  /\ Good(y) /\ SameKeys(x, y) /\ SameRoutes(x, y)
         /\ y.nbr = x.nbr /\ y.dag = x.dag /\ y.root = x.root
         /\ y.pref # k /\ (x.pref # k => y.pref = x.pref)
         /\ Cleared(x.used, y.used, k, 0)
         /\ \A j \in Key : y.locked[j] \subseteq x.locked[j]
  <1> DEFINE z == NullifyParent(k, x)
  <1>1. /\ Good(z) /\ SameKeys(x, z) /\ SameRoutes(x, z)
        /\ z.nbr = x.nbr /\ z.used = x.used /\ z.dag = x.dag /\ z.root = x.root
        /\ z.pref # k /\ (x.pref # k => z.pref = x.pref)
        /\ \A j \in Key : z.locked[j] \subseteq x.locked[j]
    BY NullifyGood
  <1>2. y = TableRemove("rpl_parents", k, z)
    BY DEF RemoveParent
  <1>3. k \in Key /\ z \in Tables /\ "rpl_parents" \in Table /\ Index["rpl_parents"] = 0
    BY <1>1, GoodIs, IndexIs DEF Table, Good
  <1> HIDE DEF z
  <1>4. /\ y \in Tables
        /\ SameKeys(z, y) /\ SameParents(z, y) /\ SameRoutes(z, y) /\ y.nbr = z.nbr
        /\ Cleared(z.used, y.used, k, 0) /\ Cleared(z.locked, y.locked, k, 0)
    BY <1>2, <1>3, TableRemoveIs
  <1>5. \A j \in Key : /\ z.used[j] = {} => y.used[j] = {}
                       /\ z.locked[j] = {} => y.locked[j] = {}
                       /\ 0 \in y.used[j] <=> 0 \in z.used[j] /\ j # k
                       /\ 1 \in y.used[j] <=> 1 \in z.used[j]
                       /\ 2 \in y.used[j] <=> 2 \in z.used[j]
                       /\ 0 \in y.locked[j] <=> 0 \in z.locked[j] /\ j # k
                       /\ 2 \in y.locked[j] <=> 2 \in z.locked[j]
    <2> TAKE j \in Key
    <2>1. /\ z.used \in [Key -> SUBSET Indexes] /\ z.locked \in [Key -> SUBSET Indexes]
          /\ y.used \in [Key -> SUBSET Indexes] /\ y.locked \in [Key -> SUBSET Indexes]
      BY <1>3, <1>4, BitmapsIs
    <2>2. /\ z.used[j] = {} => y.used[j] = {}
          /\ 0 \in y.used[j] <=> 0 \in z.used[j] /\ (j = k => 0 # 0)
          /\ 1 \in y.used[j] <=> 1 \in z.used[j] /\ (j = k => 1 # 0)
          /\ 2 \in y.used[j] <=> 2 \in z.used[j] /\ (j = k => 2 # 0)
      BY <1>4, <2>1, BitsOf
    <2>3. /\ z.locked[j] = {} => y.locked[j] = {}
          /\ 0 \in y.locked[j] <=> 0 \in z.locked[j] /\ (j = k => 0 # 0)
          /\ 2 \in y.locked[j] <=> 2 \in z.locked[j] /\ (j = k => 2 # 0)
      BY <1>4, <2>1, BitsOf
    <2> QED BY <2>2, <2>3
  <1>6. OnKeys(y) = OnKeys(z) /\ OnList(y) = OnList(z) /\ OnKeys(z) \subseteq Key
    BY <1>1, <1>4, GoodIs DEF OnKeys, OnList, SameKeys, SameRoutes
  <1>7. Cached(y) = Cached(z)
    BY <1>5, <1>6, IndexIs DEF Cached, Items, Uses, OnKeys
  <1>8. CacheGood(y)
    BY <1>1, <1>4, <1>7 DEF Good, CacheGood
  <1>9. KeysGood(y)
    BY <1>1, <1>4, <1>5, <1>6 DEF Good, KeysGood, SameKeys, SameRoutes
  <1>10. ParentGood(y)
    BY <1>1, <1>4, <1>5, <1>6, IndexIs DEF Good, ParentGood, Uses, SameParents
  <1>11. HopsGood(y)
    BY <1>1, <1>4, <1>5, <1>6, IndexIs DEF Good, HopsGood, Uses, SameRoutes
  <1>12. RoutesGood(y)
    BY <1>1, <1>4, <1>6 DEF Good, RoutesGood, SameRoutes
  <1>13. \A j \in Key : y.locked[j] \subseteq x.locked[j]
    <2>1. \A j \in Key : y.locked[j] \subseteq Indexes
      BY <1>4 DEF Tables
    <2>2. \A j \in Key, i \in Indexes : i \in y.locked[j] => i \in z.locked[j]
      BY <1>4 DEF Cleared
    <2> QED BY <1>1, <2>1, <2>2
  <1>14. SameKeys(x, y) /\ SameRoutes(x, y)
    BY <1>1, <1>4 DEF SameKeys, SameRoutes
  <1> QED BY <1>1, <1>4, <1>8, <1>9, <1>10, <1>11, <1>12, <1>13, <1>14 DEF Good, SameParents

-----------------------------------------------------------------------------
(* Keys leave and join the table.                                          *)

\* remove_key: of the tables only the parents are still in the registry.  The
\* routes through the key stay.
LEMMA RemoveKeyGood ==
  ASSUME NEW x, Good(x), NEW k \in OnKeys(x), NEW y, y = RemoveKey(k, x)
  PROVE  /\ Good(y) /\ y.mem = x.mem /\ y.ll = x.ll /\ SameRoutes(x, y)
         /\ y.nbr = x.nbr /\ y.dag = x.dag /\ y.root = x.root
         /\ y.pref # k /\ (x.pref # k => y.pref = x.pref)
         /\ OnKeys(y) = OnKeys(x) \ {k} /\ Cached(y) = Cached(x) \ {k}
         /\ y.used[k] = {} /\ y.locked[k] \subseteq x.locked[k]
  <1> DEFINE z == IF Uses("rpl_parents", k, x) THEN RemoveParent(k, x) ELSE x
  <1>1. y = [z EXCEPT !.used[k] = {}, !.keys = RemoveFirst(@, k)]
    BY IndexIs DEF RemoveKey, CallBack, Callback
  <1>2. k \in Key /\ k # NONE
    BY GoodIs, NoneIs
  <1>3. /\ Good(z) /\ SameKeys(x, z) /\ SameRoutes(x, z)
        /\ z.nbr = x.nbr /\ z.dag = x.dag /\ z.root = x.root
        /\ z.pref # k /\ (x.pref # k => z.pref = x.pref)
        /\ \A j \in Key \ {k} : z.used[j] = x.used[j]
        /\ \A j \in Key : z.locked[j] \subseteq x.locked[j]
    <2>1. CASE Uses("rpl_parents", k, x)
      <3>1. z = RemoveParent(k, x)
        BY <2>1
      <3> HIDE DEF z
      <3>2. /\ Good(z) /\ SameKeys(x, z) /\ SameRoutes(x, z)
            /\ z.nbr = x.nbr /\ z.dag = x.dag /\ z.root = x.root
            /\ z.pref # k /\ (x.pref # k => z.pref = x.pref)
            /\ Cleared(x.used, z.used, k, 0)
            /\ \A j \in Key : z.locked[j] \subseteq x.locked[j]
        BY <3>1, RemoveParentGood
      <3>3. \A j \in Key : z.used[j] \subseteq Indexes /\ x.used[j] \subseteq Indexes
        BY <3>2 DEF Good, Tables
      <3>4. \A j \in Key \ {k} : z.used[j] = x.used[j]
        BY <3>2, <3>3 DEF Cleared
      <3> QED BY <3>2, <3>4
    <2>2. CASE ~Uses("rpl_parents", k, x)
      <3>1. z = x /\ x.pref # k
        BY <1>2, <2>2 DEF Good, ParentGood
      <3> QED BY <3>1 DEF SameKeys, SameRoutes
    <2> QED BY <2>1, <2>2
  <1> HIDE DEF z
  <1>4. z \in Tables /\ KeysGood(z)
    BY <1>3 DEF Good
  <1>5. /\ RemoveFirst(z.keys, k) \in Seq(Key) /\ IsInjective(RemoveFirst(z.keys, k))
        /\ ToSet(RemoveFirst(z.keys, k)) = ToSet(z.keys) \ {k}
    BY <1>4, RemoveFirstKeeps DEF Tables, KeysGood
  <1>6. y = [z EXCEPT !.used = [z.used EXCEPT ![k] = {}], !.keys = RemoveFirst(z.keys, k)]
    BY <1>1, <1>4 DEF Tables
  <1>7. /\ y.mem = z.mem /\ y.ll = z.ll /\ y.locked = z.locked /\ SameParents(z, y) /\ SameRoutes(z, y)
        /\ y.nbr = z.nbr /\ y.keys = RemoveFirst(z.keys, k)
        /\ y.used = [z.used EXCEPT ![k] = {}]
    BY <1>4, <1>6 DEF Tables, SameParents, SameRoutes
  <1>8. y \in Tables
    <2>1. y.used \in [Key -> SUBSET Indexes]
      BY <1>4, <1>7 DEF Tables
    <2> QED BY <1>4, <1>5, <1>6, <1>7, <2>1 DEF Tables
  <1>9. \A j \in Key : y.used[j] = IF j = k THEN {} ELSE z.used[j]
    <2>1. z.used \in [Key -> SUBSET Indexes]
      BY <1>4 DEF Tables
    <2> QED BY <1>2, <1>7, <2>1
  <1>10. /\ OnKeys(y) = OnKeys(z) \ {k} /\ OnList(y) = OnList(z) /\ OnKeys(z) \subseteq Key
         /\ OnKeys(z) = OnKeys(x)
    BY <1>3, <1>5, <1>7, GoodIs DEF OnKeys, OnList, SameKeys, SameRoutes
  <1>11. Cached(y) = Cached(z) \ {k} /\ Cached(y) = Cached(x) \ {k}
    <2>1. Cached(y) = {j \in OnKeys(y) : Index["ds6_neighbors"] \in y.used[j]}
      BY DEF Cached, Items, Uses, OnKeys
    <2>2. /\ Cached(x) = {j \in OnKeys(x) : Index["ds6_neighbors"] \in x.used[j]}
          /\ Cached(z) = {j \in OnKeys(z) : Index["ds6_neighbors"] \in z.used[j]}
      BY DEF Cached, Items, Uses, OnKeys
    <2> QED BY <1>3, <1>9, <1>10, <2>1, <2>2
  <1>12. CacheGood(y)
    BY <1>3, <1>7, <1>11 DEF Good, CacheGood
  <1>13. KeysGood(y)
    BY <1>3, <1>5, <1>7, <1>9, <1>10 DEF Good, KeysGood, SameRoutes, SameKeys
  <1>14. ParentGood(y)
    BY <1>3, <1>7, <1>9, <1>10, IndexIs DEF Good, ParentGood, Uses, SameParents
  <1>15. HopsGood(y)
    BY <1>3, <1>7, <1>9, <1>10 DEF Good, HopsGood, Uses, SameRoutes
  <1>16. RoutesGood(y)
    BY <1>3, <1>7, <1>10 DEF Good, RoutesGood, SameRoutes
  <1>17. SameRoutes(x, y) /\ y.mem = x.mem /\ y.ll = x.ll
    BY <1>3, <1>7 DEF SameRoutes, SameKeys
  <1> QED BY <1>2, <1>3, <1>7, <1>8, <1>9, <1>10, <1>11, <1>12, <1>13, <1>14, <1>15, <1>16, <1>17 DEF Good, SameParents

\* A neighbour that may be evicted.
Victim(v, x) == v = NONE \/ (v \in OnKeys(x) /\ v # x.pref /\ x.via[v] = <<>>)

\* A key that has been allocated and is on no list yet.
Fresh(k, x) ==
  k \in Key /\ k \in x.mem /\ k \notin OnKeys(x) /\ x.locked[k] = {} /\ x.via[k] = <<>>

\* The victim's locked_map is cleared before its key is removed.
LocksCleared(v, x) == [x EXCEPT !.locked[v] = {}]

\* An idle neighbour's key loses its locks, of which none is needed.
LEMMA UnlockedGood ==
  ASSUME NEW x, Good(x), NEW v \in OnKeys(x), v # x.pref, x.via[v] = <<>>,
         NEW y, y = LocksCleared(v, x)
  PROVE  /\ Good(y) /\ SameKeys(x, y) /\ SameParents(x, y) /\ SameRoutes(x, y)
         /\ y.nbr = x.nbr /\ y.used = x.used /\ y.locked[v] = {}
  <1>1. x \in Tables /\ v \in Key /\ x.locked \in [Key -> SUBSET Indexes]
    BY GoodIs, BitmapsIs
  <1> DEFINE w == [x.locked EXCEPT ![v] = {}]
  <1>2. y = [x EXCEPT !.locked = w]
    BY <1>1 DEF Tables, LocksCleared
  <1>3. w \in [Key -> SUBSET Indexes] /\ \A j \in Key : w[j] = IF j = v THEN {} ELSE x.locked[j]
    BY <1>1
  <1> HIDE DEF w
  <1>4. /\ y \in Tables /\ SameKeys(x, y) /\ SameParents(x, y) /\ SameRoutes(x, y)
        /\ y.nbr = x.nbr /\ y.used = x.used /\ y.locked = w
    BY <1>1, <1>2, <1>3, LockedIs
  <1>5. /\ OnKeys(y) = OnKeys(x) /\ OnList(y) = OnList(x) /\ Cached(y) = Cached(x)
        /\ OnKeys(x) \subseteq Key
    BY <1>4, GoodIs DEF OnKeys, OnList, Cached, Items, Uses, SameKeys, SameRoutes
  <1>6. \A j \in Key : /\ x.locked[j] = {} => w[j] = {}
                       /\ \A i : i \in w[j] <=> i \in x.locked[j] /\ j # v
    BY <1>3
  <1>7. KeysGood(y)
    BY <1>4, <1>5, <1>6 DEF Good, KeysGood, SameKeys, SameRoutes
  <1>8. ParentGood(y)
    BY <1>4, <1>5, <1>6 DEF Good, ParentGood, Uses, SameParents
  <1>9. HopsGood(y)
    BY <1>4, <1>5, <1>6 DEF Good, HopsGood, Uses, SameRoutes
  <1>10. CacheGood(y)
    BY <1>4, <1>5 DEF Good, CacheGood
  <1>11. RoutesGood(y)
    BY <1>4, <1>5 DEF Good, RoutesGood, SameRoutes
  <1> QED BY <1>1, <1>3, <1>4, <1>7, <1>8, <1>9, <1>10, <1>11 DEF Good

\* nbr_table_allocate
LEMMA AllocateGood ==
  ASSUME NEW x, Good(x), NEW v, Victim(v, x), NEW a, a = Allocate(v, x)
  PROVE  \/ a.k = NONE /\ a.x = x
         \/ /\ Good(a.x) /\ Fresh(a.k, a.x) /\ a.k # NONE
            /\ a.x.ll = x.ll /\ a.x.nbr = x.nbr /\ a.x.dag = x.dag
            /\ a.x.root = x.root /\ a.x.pref = x.pref /\ SameRoutes(x, a.x)
            /\ OnKeys(a.x) = OnKeys(x) \ {a.k} /\ Cached(a.x) = Cached(x) \ {a.k}
            /\ a.k \in OnKeys(x) => a.k = v
  <1>1. CASE x.mem # Key
    <2> DEFINE k == Min(Key \ x.mem)
    <2>1. Key \ x.mem \in SUBSET Nat /\ Key \ x.mem # {} /\ x \in Tables
      <3>1. x \in Tables
        BY GoodIs
      <3>2. x.mem \subseteq Key
        BY <3>1 DEF Tables
      <3>3. Key \subseteq Nat
        BY DEF Key
      <3> QED BY <1>1, <3>1, <3>2, <3>3
    <2>2. k \in Key \ x.mem
      BY <2>1, MinIs
    <2>3. a = [x |-> [x EXCEPT !.mem = @ \cup {k}], k |-> k]
      BY <1>1 DEF Allocate
    <2> HIDE DEF k
    <2>4. a.x = [x EXCEPT !.mem = @ \cup {k}] /\ a.k = k
      BY <2>3
    <2> DEFINE y == a.x
    <2>5. /\ y \in Tables /\ SameBits(x, y) /\ SameParents(x, y) /\ SameRoutes(x, y)
          /\ y.keys = x.keys /\ y.ll = x.ll /\ y.nbr = x.nbr /\ y.mem = x.mem \cup {k}
      <3> DEFINE m == x.mem \cup {k}
      <3>1. m \in SUBSET Key
        BY <2>1, <2>2 DEF Tables
      <3>2. y = [x EXCEPT !.mem = m]
        BY <2>1, <2>4 DEF Tables
      <3> HIDE DEF m, y
      <3>3. /\ y \in Tables /\ SameBits(x, y) /\ SameParents(x, y) /\ SameRoutes(x, y)
            /\ y.keys = x.keys /\ y.ll = x.ll /\ y.nbr = x.nbr /\ y.mem = m
        BY <2>1, <3>1, <3>2 DEF Tables, SameBits, SameParents, SameRoutes
      <3> QED BY <3>3 DEF m
    <2> HIDE DEF y
    <2>6. OnKeys(y) = OnKeys(x) /\ OnList(y) = OnList(x) /\ Cached(y) = Cached(x)
      BY <2>5 DEF OnKeys, OnList, Cached, Items, Uses, SameBits, SameRoutes
    <2>7. KeysGood(y) /\ k \notin OnKeys(x) /\ y.locked[k] = {} /\ y.via[k] = <<>>
      BY <2>2, <2>5, <2>6 DEF Good, KeysGood, SameBits, SameRoutes
    <2>8. CacheGood(y) /\ ParentGood(y) /\ HopsGood(y)
      BY <2>5, <2>6 DEF Good, CacheGood, ParentGood, HopsGood, Uses, SameBits, SameParents, SameRoutes
    <2>9. RoutesGood(y)
      BY <2>5, <2>6 DEF Good, RoutesGood, SameRoutes
    <2>10. Good(y) /\ Fresh(k, y) /\ k # NONE
      BY <2>2, <2>5, <2>6, <2>7, <2>8, <2>9, NoneIs DEF Good, Fresh
    <2>11. Cached(x) \subseteq OnKeys(x)
      BY GoodIs
    <2> QED BY <2>4, <2>5, <2>6, <2>7, <2>10, <2>11 DEF y, SameParents
  <1>2. CASE x.mem = Key /\ v = NONE
    <2>1. a = [x |-> x, k |-> NONE]
      BY <1>2 DEF Allocate
    <2> QED BY <2>1
  <1>3. CASE x.mem = Key /\ v # NONE
    <2> DEFINE u == LocksCleared(v, x)
    <2>1. v \in OnKeys(x) /\ v # x.pref /\ x.via[v] = <<>>
      BY <1>3 DEF Victim
    <2>2. /\ Good(u) /\ SameKeys(x, u) /\ SameParents(x, u) /\ SameRoutes(x, u)
          /\ u.nbr = x.nbr /\ u.used = x.used /\ u.locked[v] = {}
      BY <2>1, UnlockedGood
    <2>3. a = [x |-> RemoveKey(v, u), k |-> v]
      BY <1>3 DEF Allocate, LocksCleared
    <2> HIDE DEF u
    <2>4. a.x = RemoveKey(v, u) /\ a.k = v
      BY <2>3
    <2>5. OnKeys(u) = OnKeys(x) /\ Cached(u) = Cached(x)
      BY <2>2 DEF OnKeys, Cached, Items, Uses, SameKeys
    <2> DEFINE y == a.x
    <2>6. /\ Good(y) /\ y.mem = u.mem /\ y.ll = u.ll /\ SameRoutes(u, y)
          /\ y.nbr = u.nbr /\ y.dag = u.dag /\ y.root = u.root
          /\ y.pref # v /\ (u.pref # v => y.pref = u.pref)
          /\ OnKeys(y) = OnKeys(u) \ {v} /\ Cached(y) = Cached(u) \ {v}
          /\ y.locked[v] \subseteq u.locked[v]
      BY <2>1, <2>2, <2>4, <2>5, RemoveKeyGood
    <2> HIDE DEF y
    <2>7. v \in Key /\ v # NONE
      BY <1>3, <2>1, GoodIs
    <2>8. y.pref = x.pref /\ SameRoutes(x, y) /\ y.ll = x.ll /\ y.mem = Key
      BY <1>3, <2>1, <2>2, <2>6 DEF SameRoutes, SameParents, SameKeys
    <2>9. Fresh(v, y)
      BY <2>1, <2>2, <2>6, <2>7, <2>8 DEF Fresh, SameRoutes
    <2>10. y.nbr = x.nbr /\ y.dag = x.dag /\ y.root = x.root
      BY <2>2, <2>6 DEF SameParents
    <2> QED BY <2>4, <2>5, <2>6, <2>7, <2>8, <2>9, <2>10 DEF y
  <1> QED BY <1>1, <1>2, <1>3

\* Tables that differ in the used bits alone.
LEMMA UsedIs ==
  ASSUME NEW x \in Tables, NEW v \in [Key -> SUBSET Indexes], NEW y, y = [x EXCEPT !.used = v]
  PROVE  /\ y \in Tables /\ SameKeys(x, y) /\ SameParents(x, y) /\ SameRoutes(x, y)
         /\ y.nbr = x.nbr /\ y.locked = x.locked /\ y.used = v
  BY DEF Tables, SameKeys, SameParents, SameRoutes

\* The used bit of an item.
UsedSet(t, k, x) == [x EXCEPT !.used[k] = @ \cup {Index[t]}]

\* Setting it changes no other bit.
LEMMA UsedSetIs ==
  ASSUME NEW x \in Tables, NEW t \in Table, NEW k \in Key, NEW y, y = UsedSet(t, k, x)
  PROVE  /\ y \in Tables /\ SameKeys(x, y) /\ SameParents(x, y) /\ SameRoutes(x, y)
         /\ y.nbr = x.nbr /\ y.locked = x.locked /\ SetIn(x.used, y.used, k, Index[t])
  <1> DEFINE v == [x.used EXCEPT ![k] = @ \cup {Index[t]}]
  <1>1. y = [x EXCEPT !.used = v]
    BY DEF UsedSet, Tables
  <1>2. v \in [Key -> SUBSET Indexes] /\ SetIn(x.used, v, k, Index[t])
    <2>1. x.used \in [Key -> SUBSET Indexes] /\ Index[t] \in Indexes
      BY BitmapsIs DEF Indexes
    <2> QED BY <2>1 DEF SetIn
  <1> HIDE DEF v
  <1> QED BY <1>1, <1>2, UsedIs

\* A table starts to use an item.  Link statistics and the cache leave it at
\* the bit, the parents reset the dag pointer, the routes the list.
LEMMA InitPlainIs ==
  ASSUME NEW x \in Tables, NEW t \in {"link_stats", "ds6_neighbors"}, NEW k \in Key,
         NEW y, y = InitItem(t, k, x)
  PROVE  /\ y \in Tables /\ SameKeys(x, y) /\ SameParents(x, y) /\ SameRoutes(x, y)
         /\ y.nbr = x.nbr /\ y.locked = x.locked /\ SetIn(x.used, y.used, k, Index[t])
  <1>1. y = UsedSet(t, k, x)
    BY DEF InitItem, UsedSet
  <1>2. t \in Table
    BY DEF Table
  <1> QED BY <1>1, <1>2, UsedSetIs

\* A parent that is added has no dag pointer yet.
LEMMA InitParentIs ==
  ASSUME NEW x \in Tables, NEW k \in Key, NEW y, y = InitItem("rpl_parents", k, x)
  PROVE  /\ y \in Tables /\ SameKeys(x, y) /\ SameRoutes(x, y)
         /\ y.nbr = x.nbr /\ y.locked = x.locked /\ SetIn(x.used, y.used, k, 0)
         /\ y.root = x.root /\ y.pref = x.pref /\ y.dag = [x.dag EXCEPT ![k] = FALSE]
  <1> DEFINE u == UsedSet("rpl_parents", k, x)
  <1>1. "rpl_parents" \in Table /\ Index["rpl_parents"] = 0
    BY IndexIs DEF Table
  <1>2. y = [u EXCEPT !.dag[k] = FALSE]
    BY DEF InitItem, UsedSet
  <1>3. /\ u \in Tables /\ SameKeys(x, u) /\ SameParents(x, u) /\ SameRoutes(x, u)
        /\ u.nbr = x.nbr /\ u.locked = x.locked /\ SetIn(x.used, u.used, k, 0)
    BY <1>1, UsedSetIs
  <1> HIDE DEF u
  <1> DEFINE v == [u.dag EXCEPT ![k] = FALSE]
  <1>4. y = [u EXCEPT !.dag = v] /\ v \in [Key -> BOOLEAN]
    BY <1>2, <1>3 DEF Tables
  <1>5. v = [x.dag EXCEPT ![k] = FALSE]
    BY <1>3 DEF SameParents
  <1> HIDE DEF v
  <1>6. /\ y \in Tables /\ SameKeys(u, y) /\ SameBits(u, y) /\ SameRoutes(u, y) /\ y.nbr = u.nbr
        /\ y.root = u.root /\ y.pref = u.pref /\ y.dag = v
    BY <1>3, <1>4 DEF Tables, SameKeys, SameBits, SameRoutes
  <1> QED BY <1>3, <1>5, <1>6 DEF SameKeys, SameBits, SameRoutes, SameParents

\* A next hop that is added has no routes yet.
LEMMA InitRoutesIs ==
  ASSUME NEW x \in Tables, NEW k \in Key, NEW y, y = InitItem("nbr_routes", k, x)
  PROVE  /\ y \in Tables /\ SameKeys(x, y) /\ SameParents(x, y)
         /\ y.nbr = x.nbr /\ y.locked = x.locked /\ SetIn(x.used, y.used, k, 2)
         /\ y.list = x.list /\ y.rt = x.rt /\ y.rtMem = x.rtMem
         /\ y.nrMem = x.nrMem /\ y.num = x.num /\ y.via = [x.via EXCEPT ![k] = <<>>]
  <1> DEFINE u == UsedSet("nbr_routes", k, x)
  <1>1. "nbr_routes" \in Table /\ Index["nbr_routes"] = 2
    BY IndexIs DEF Table
  <1>2. y = [u EXCEPT !.via[k] = <<>>]
    BY DEF InitItem, UsedSet
  <1>3. /\ u \in Tables /\ SameKeys(x, u) /\ SameParents(x, u) /\ SameRoutes(x, u)
        /\ u.nbr = x.nbr /\ u.locked = x.locked /\ SetIn(x.used, u.used, k, 2)
    BY <1>1, UsedSetIs
  <1> HIDE DEF u
  <1> DEFINE v == [u.via EXCEPT ![k] = <<>>]
  <1>4. y = [u EXCEPT !.via = v] /\ v \in [Key -> Seq(Route)]
    <2>1. u.via \in [Key -> Seq(Route)]
      BY <1>3 DEF Tables
    <2>2. v \in [Key -> Seq(Route)]
      BY <2>1
    <2>3. y = [u EXCEPT !.via = v]
      BY <1>2, <1>3 DEF Tables
    <2> QED BY <2>2, <2>3
  <1>5. v = [x.via EXCEPT ![k] = <<>>]
    BY <1>3 DEF SameRoutes
  <1> HIDE DEF v
  <1>6. /\ y \in Tables /\ SameKeys(u, y) /\ SameBits(u, y) /\ SameParents(u, y) /\ y.nbr = u.nbr
        /\ y.list = u.list /\ y.rt = u.rt /\ y.rtMem = u.rtMem
        /\ y.nrMem = u.nrMem /\ y.num = u.num /\ y.via = v
    BY <1>3, <1>4 DEF Tables, SameKeys, SameBits, SameParents
  <1> QED BY <1>3, <1>5, <1>6 DEF SameKeys, SameBits, SameRoutes, SameParents

\* What nbr_table_add_lladdr gives: an item of table t for address l, in tables
\* that are good but for the cache entry that is still to be filled in.
Added(t, l, v, x, a) ==
  /\ a.x \in Tables /\ KeysGood(a.x) /\ ParentGood(a.x) /\ RoutesGood(a.x) /\ HopsGood(a.x)
  /\ a.k \in OnKeys(a.x) /\ a.k \in Key /\ a.k # NONE /\ a.x.ll[a.k] = l
  /\ OnKeys(x) \subseteq OnKeys(a.x)
  /\ \A j \in OnKeys(x) : a.x.ll[j] = x.ll[j] \/ (j = v /\ v # NONE)
  /\ \A j \in Cached(a.x) : j \in Cached(x) \/ (j = a.k /\ t = "ds6_neighbors")
  /\ a.x.nbr = x.nbr /\ a.x.dag = x.dag /\ a.x.root = x.root /\ a.x.pref = x.pref
  /\ SameRoutes(x, a.x)

\* The address has a key already.
LEMMA AddToKey ==
  ASSUME NEW x, Good(x), NEW t \in {"link_stats", "ds6_neighbors"}, NEW l,
         NEW k \in OnKeys(x), x.ll[k] = l, NEW v,
         NEW a, a.x = InitItem(t, k, x), a.k = k
  PROVE  Added(t, l, v, x, a)
  <1> DEFINE y == a.x
  <1>1. x \in Tables /\ k \in Key /\ k # NONE /\ t \in Table /\ t # "rpl_parents" /\ t # "nbr_routes"
    BY GoodIs, NoneIs DEF Table
  <1>2. /\ y \in Tables /\ SameKeys(x, y) /\ SameParents(x, y) /\ SameRoutes(x, y)
        /\ y.nbr = x.nbr /\ y.locked = x.locked /\ SetIn(x.used, y.used, k, Index[t])
    BY <1>1, InitPlainIs
  <1> HIDE DEF y
  <1>3. SameRoutes(x, y) /\ y.dag = x.dag /\ y.pref = x.pref /\ y.root = x.root /\ y.via = x.via
    BY <1>2 DEF SameRoutes, SameParents
  <1>4. OnKeys(y) = OnKeys(x) /\ OnList(y) = OnList(x) /\ OnKeys(x) \subseteq Key
    BY <1>2, GoodIs DEF OnKeys, OnList, SameKeys, SameRoutes
  <1>5. \A j \in Key : /\ 0 \in x.used[j] => 0 \in y.used[j]
                       /\ 2 \in x.used[j] <=> 2 \in y.used[j]
                       /\ 1 \in y.used[j] => 1 \in x.used[j] \/ (j = k /\ t = "ds6_neighbors")
                       /\ j # k /\ x.used[j] = {} => y.used[j] = {}
    <2>1. \A j \in Key : y.used[j] \subseteq Indexes
      BY <1>2 DEF Tables
    <2>2. \A j \in Key, i \in Indexes : i \in y.used[j] <=> i \in x.used[j] \/ (j = k /\ i = Index[t])
      BY <1>2 DEF SetIn
    <2>3. Index[t] = IF t = "ds6_neighbors" THEN 1 ELSE 0
      BY IndexIs
    <2>4. 0 \in Indexes /\ 1 \in Indexes /\ 2 \in Indexes
      BY IndexIs
    <2> QED BY <2>1, <2>2, <2>3, <2>4
  <1>6. \A j \in Cached(y) : j \in Cached(x) \/ (j = k /\ t = "ds6_neighbors")
    BY <1>4, <1>5, IndexIs DEF Cached, Items, Uses, OnKeys
  <1>7. KeysGood(y)
    BY <1>2, <1>3, <1>4, <1>5 DEF Good, KeysGood, SameKeys
  <1>8. ParentGood(y)
    BY <1>2, <1>3, <1>4, <1>5, IndexIs DEF Good, ParentGood, Uses
  <1>9. HopsGood(y)
    BY <1>2, <1>3, <1>4, <1>5, IndexIs DEF Good, HopsGood, Uses
  <1>10. RoutesGood(y)
    BY <1>3, <1>4 DEF Good, RoutesGood, SameRoutes
  <1> QED BY <1>1, <1>2, <1>3, <1>4, <1>6, <1>7, <1>8, <1>9, <1>10 DEF Added, y, SameKeys

\* The address gets a key.
LEMMA AddFreshKey ==
  ASSUME NEW x, Good(x), NEW t \in {"link_stats", "ds6_neighbors"},
         NEW l \in Ll \cup {LinkaddrNull}, \A j \in OnKeys(x) : x.ll[j] # l,
         NEW k, Fresh(k, x),
         NEW a, a = AddKey(t, l, [x |-> x, k |-> k])
  PROVE  Added(t, l, NONE, x, a) /\ a.k = k /\ OnKeys(a.x) = OnKeys(x) \cup {k}
  <1>1. x \in Tables /\ k \in Key /\ k # NONE /\ t \in Table /\ t # "rpl_parents" /\ t # "nbr_routes"
    BY GoodIs, NoneIs DEF Table, Fresh
  <1> DEFINE u == [x EXCEPT !.keys = Append(x.keys, k), !.ll = [x.ll EXCEPT ![k] = l]]
             y == a.x
  <1>2. y = InitItem(t, k, u) /\ a.k = k
    <2> DEFINE b == [x |-> x, k |-> k]
    <2>1. b.x = x /\ b.k = k
      OBVIOUS
    <2> HIDE DEF b
    <2>2. a = [x |-> InitItem(t, k, [x EXCEPT !.keys = Append(@, k), !.ll[k] = l]), k |-> k]
      <3>1. a = AddKey(t, l, b)
        BY DEF b
      <3> QED BY <1>1, <2>1, <3>1 DEF AddKey
    <2>3. [x EXCEPT !.keys = Append(@, k), !.ll[k] = l] = u
      BY <1>1 DEF Tables
    <2> HIDE DEF u
    <2> QED BY <2>2, <2>3
  <1>3. /\ Append(x.keys, k) \in Seq(Key) /\ IsInjective(Append(x.keys, k))
        /\ ToSet(Append(x.keys, k)) = ToSet(x.keys) \cup {k}
    <2>1. x.keys \in Seq(Key) /\ IsInjective(x.keys) /\ k \notin ToSet(x.keys)
      BY <1>1 DEF Tables, Good, KeysGood, Fresh, OnKeys
    <2> QED BY <1>1, <2>1, AppendKeeps
  <1>4. /\ u \in Tables /\ SameBits(x, u) /\ SameParents(x, u) /\ SameRoutes(x, u)
        /\ u.nbr = x.nbr /\ u.mem = x.mem /\ u.keys = Append(x.keys, k)
        /\ u.ll = [x.ll EXCEPT ![k] = l]
    <2> DEFINE w == [x.ll EXCEPT ![k] = l]
               q == Append(x.keys, k)
    <2>1. w \in [Key -> Ll \cup {LinkaddrNull}] /\ q \in Seq(Key)
      BY <1>1, <1>3 DEF Tables
    <2>2. u = [x EXCEPT !.keys = q, !.ll = w]
      OBVIOUS
    <2> HIDE DEF w, q, u
    <2>3. /\ u \in Tables /\ SameBits(x, u) /\ SameParents(x, u) /\ SameRoutes(x, u)
          /\ u.nbr = x.nbr /\ u.mem = x.mem /\ u.keys = q /\ u.ll = w
      BY <1>1, <2>1, <2>2 DEF Tables, SameBits, SameParents, SameRoutes
    <2> QED BY <2>3 DEF w, q
  <1> HIDE DEF u
  <1>5. /\ y \in Tables /\ SameKeys(u, y) /\ SameParents(u, y) /\ SameRoutes(u, y)
        /\ y.nbr = u.nbr /\ y.locked = u.locked /\ SetIn(u.used, y.used, k, Index[t])
    BY <1>1, <1>2, <1>4, InitPlainIs
  <1> HIDE DEF y
  <1>6. /\ SameRoutes(x, y) /\ y.locked = x.locked /\ y.nbr = x.nbr /\ y.mem = x.mem
        /\ y.root = x.root /\ y.pref = x.pref /\ y.dag = x.dag
        /\ SetIn(x.used, y.used, k, Index[t]) /\ y.keys = Append(x.keys, k)
    BY <1>4, <1>5 DEF SameRoutes, SameBits, SameParents, SameKeys
  <1>7. y.ll[k] = l /\ \A j \in Key : j # k => y.ll[j] = x.ll[j]
    <2>1. y.ll = [x.ll EXCEPT ![k] = l] /\ x.ll \in [Key -> Ll \cup {LinkaddrNull}]
      BY <1>1, <1>4, <1>5 DEF SameKeys, Tables
    <2> QED BY <1>1, <2>1
  <1>8. /\ OnKeys(y) = OnKeys(x) \cup {k} /\ OnList(y) = OnList(x) /\ OnKeys(x) \subseteq Key
        /\ k \notin OnKeys(x) /\ IsInjective(y.keys)
    BY <1>3, <1>6, GoodIs DEF OnKeys, OnList, SameRoutes, Fresh
  <1>9. \A j \in Key : /\ j # k => (0 \in y.used[j] <=> 0 \in x.used[j])
                       /\ 2 \in y.used[j] <=> 2 \in x.used[j]
                       /\ 1 \in y.used[j] => 1 \in x.used[j] \/ (j = k /\ t = "ds6_neighbors")
                       /\ j # k /\ x.used[j] = {} => y.used[j] = {}
    <2>1. \A j \in Key : y.used[j] \subseteq Indexes
      BY <1>5 DEF Tables
    <2>2. \A j \in Key, i \in Indexes : i \in y.used[j] <=> i \in x.used[j] \/ (j = k /\ i = Index[t])
      BY <1>6 DEF SetIn
    <2>3. Index[t] = IF t = "ds6_neighbors" THEN 1 ELSE 0
      BY IndexIs
    <2>4. 0 \in Indexes /\ 1 \in Indexes /\ 2 \in Indexes
      BY IndexIs
    <2> QED BY <2>1, <2>2, <2>3, <2>4
  <1>10. x.used[k] = {} /\ x.locked[k] = {} /\ x.via[k] = <<>> /\ k # x.pref /\ k \in x.mem
    BY <1>1, <1>8 DEF Good, KeysGood, ParentGood, Fresh
  <1>11. \A j \in Cached(y) : j \in Cached(x) \/ (j = k /\ t = "ds6_neighbors")
    <2>1. SUFFICES ASSUME NEW j \in OnKeys(y), 1 \in y.used[j], ~(j = k /\ t = "ds6_neighbors")
                   PROVE  j \in OnKeys(x) /\ 1 \in x.used[j]
      BY IndexIs DEF Cached, Items, Uses, OnKeys
    <2>2. j \in Key
      BY <1>1, <1>8, <2>1
    <2>3. 1 \in x.used[j]
      BY <1>9, <2>1, <2>2
    <2> QED BY <1>8, <1>10, <2>1, <2>3
  <1>12. KeysGood(y)
    <2>1. \A i, j \in OnKeys(y) : y.ll[i] = y.ll[j] => i = j
      <3>1. \A i, j \in OnKeys(x) : x.ll[i] = x.ll[j] => i = j
        BY DEF Good, KeysGood
      <3>2. \A j \in OnKeys(x) : j # k /\ y.ll[j] = x.ll[j] /\ y.ll[j] # y.ll[k]
        BY <1>7, <1>8
      <3> QED BY <1>8, <3>1, <3>2
    <2> QED BY <1>6, <1>8, <1>9, <1>10, <2>1 DEF Good, KeysGood, SameRoutes
  <1>13. ParentGood(y)
    BY <1>6, <1>8, <1>9, <1>10, IndexIs DEF Good, ParentGood, Uses
  <1>14. HopsGood(y)
    <2>1. SUFFICES ASSUME NEW j \in OnKeys(y)
                   PROVE  /\ y.via[j] # <<>> <=> 2 \in y.used[j]
                          /\ 2 \in y.used[j] <=> 2 \in y.locked[j]
      BY IndexIs DEF HopsGood, Uses
    <2>2. j \in Key /\ y.via[j] = x.via[j] /\ y.locked[j] = x.locked[j]
      BY <1>1, <1>6, <1>8 DEF SameRoutes
    <2>3. CASE j = k
      BY <1>9, <1>10, <2>2, <2>3
    <2>4. CASE j # k
      <3>1. j \in OnKeys(x)
        BY <1>8, <2>4
      <3>2. /\ x.via[j] # <<>> <=> 2 \in x.used[j]
            /\ 2 \in x.used[j] <=> 2 \in x.locked[j]
        BY <3>1, IndexIs DEF Good, HopsGood, Uses
      <3> QED BY <1>9, <2>2, <3>2
    <2> QED BY <2>3, <2>4
  <1>15. RoutesGood(y)
    BY <1>6, <1>8 DEF Good, RoutesGood, SameRoutes
  <1>16. y.ll[k] = l /\ \A j \in OnKeys(x) : y.ll[j] = x.ll[j]
    BY <1>1, <1>7, <1>8
  <1> QED BY <1>1, <1>2, <1>5, <1>6, <1>8, <1>11, <1>12, <1>13, <1>14, <1>15, <1>16 DEF Added, y

\* nbr_table_add_lladdr
LEMMA AddLladdrIs ==
  ASSUME NEW x, Good(x), NEW t \in {"link_stats", "ds6_neighbors"},
         NEW l \in Ll \cup {LinkaddrNull}, NEW v, Victim(v, x),
         NEW a, a = AddLladdr(t, l, v, x)
  PROVE  (a.k = NONE /\ a.x = x) \/ Added(t, l, v, x, a)
  <1> DEFINE k == KeyOf(l, x)
  <1>1. x \in Tables
    BY GoodIs
  <1>2. CASE k # NONE
    <2>1. k \in OnKeys(x) /\ x.ll[k] = l
      BY <1>1, <1>2, KeyOfIs
    <2>2. a = [x |-> InitItem(t, k, x), k |-> k]
      BY <1>2 DEF AddLladdr
    <2> HIDE DEF k
    <2>3. a.x = InitItem(t, k, x) /\ a.k = k
      BY <2>2
    <2> QED BY <2>1, <2>3, AddToKey
  <1>3. CASE k = NONE
    <2> DEFINE b == Allocate(v, x)
    <2>1. a = AddKey(t, l, b) /\ \A j \in OnKeys(x) : x.ll[j] # l
      BY <1>1, <1>3, KeyOfIs DEF AddLladdr
    <2> HIDE DEF k
    <2>2. CASE b.k = NONE /\ b.x = x
      <3>1. a = b
        BY <2>1, <2>2 DEF AddKey
      <3> QED BY <2>2, <3>1
    <2>3. CASE ~(b.k = NONE /\ b.x = x)
      <3> DEFINE z == b.x
                 n == b.k
      <3>1. /\ Good(z) /\ Fresh(n, z) /\ n # NONE
            /\ z.ll = x.ll /\ z.nbr = x.nbr /\ z.dag = x.dag
            /\ z.root = x.root /\ z.pref = x.pref /\ SameRoutes(x, z)
            /\ OnKeys(z) = OnKeys(x) \ {n} /\ Cached(z) = Cached(x) \ {n}
            /\ n \in OnKeys(x) => n = v
        BY <2>3, AllocateGood
      <3>2. a = AddKey(t, l, [x |-> z, k |-> n])
        BY <2>1, <3>1 DEF Allocate, AddKey
      <3> HIDE DEF b, z, n
      <3>3. \A j \in OnKeys(z) : z.ll[j] # l
        BY <2>1, <3>1
      <3>4. Added(t, l, NONE, z, a) /\ a.k = n /\ OnKeys(a.x) = OnKeys(z) \cup {n}
        BY <3>1, <3>2, <3>3, AddFreshKey
      <3>5. OnKeys(x) \subseteq OnKeys(a.x)
        BY <3>1, <3>4
      <3>6. \A j \in OnKeys(x) : a.x.ll[j] = x.ll[j] \/ (j = v /\ v # NONE)
        BY <3>1, <3>4 DEF Added
      <3>7. SameRoutes(x, a.x)
        BY <3>1, <3>4 DEF Added, SameRoutes
      <3>8. \A j \in Cached(a.x) : j \in Cached(x) \/ (j = a.k /\ t = "ds6_neighbors")
        BY <3>1, <3>4 DEF Added
      <3> QED BY <3>1, <3>4, <3>5, <3>6, <3>7, <3>8 DEF Added
    <2> QED BY <2>2, <2>3
  <1> QED BY <1>2, <1>3

-----------------------------------------------------------------------------
(* What a packet does to the cache and to the keys.                        *)

\* Every key stays on the list and only an idle neighbour's gets an address
\* of another node.
KeepsNeeded(x, y) ==
  /\ OnKeys(x) \subseteq OnKeys(y)
  /\ \A k \in OnKeys(x) : y.ll[k] = x.ll[k] \/ (k # x.pref /\ x.via[k] = <<>>)

\* What a handler reads of the tables after an operation on the keys.
SameButKeys(x, y) ==
  /\ y.dag = x.dag /\ y.root = x.root /\ y.pref = x.pref /\ SameRoutes(x, y)

\* link_stats_packet_sent, link_stats_input_callback
LEMMA LinkStatsGood ==
  ASSUME NEW x, Good(x), NEW l \in Ll, NEW y, y = LinkStats(l, x)
  PROVE  Good(y) /\ Stays(x, y) /\ SameButKeys(x, y) /\ y.nbr = x.nbr
  <1>1. CASE y = x
    BY <1>1 DEF Stays, SameButKeys, SameRoutes
  <1>2. CASE y # x
    <2> DEFINE a == AddLladdr("link_stats", l, NONE, x)
    <2>1. y = a.x
      BY <1>2 DEF LinkStats
    <2>2. (a.k = NONE /\ a.x = x) \/ Added("link_stats", l, NONE, x, a)
      BY AddLladdrIs DEF Victim
    <2> HIDE DEF a
    <2>3. Added("link_stats", l, NONE, x, a)
      BY <1>2, <2>1, <2>2
    <2>4. \A j \in Cached(y) : j \in Cached(x)
      BY <2>1, <2>3 DEF Added
    <2>5. CacheGood(y)
      BY <2>1, <2>3, <2>4 DEF Good, CacheGood, Added
    <2> QED BY <2>1, <2>3, <2>5 DEF Good, Added, Stays, SameButKeys
  <1> QED BY <1>1, <1>2

\* A frame, and then a unicast packet, from a neighbour.
LEMMA ReceivedGood ==
  ASSUME NEW x, Good(x), NEW ip, NEW l \in Ll, NEW u \in BOOLEAN, NEW y, y = Received(ip, l, u, x)
  PROVE  /\ Good(y) /\ Stays(x, y) /\ SameButKeys(x, y)
         /\ \A j \in Key : y.nbr[j].ip = x.nbr[j].ip
  <1> DEFINE z == LinkStats(l, x)
  <1>1. Good(z) /\ Stays(x, z) /\ SameButKeys(x, z) /\ z.nbr = x.nbr
    BY LinkStatsGood
  <1>2. y = z \/ y = Refresh(ip, z)
    BY DEF Received
  <1> HIDE DEF z
  <1>3. CASE y = z
    BY <1>1, <1>3
  <1>4. CASE y = Refresh(ip, z)
    <2>1. /\ Good(y) /\ SameKeys(z, y) /\ SameParents(z, y) /\ SameRoutes(z, y)
          /\ \A j \in Key : y.nbr[j].ip = z.nbr[j].ip
      BY <1>1, <1>4, RefreshGood
    <2>2. Stays(x, y)
      BY <1>1, <2>1 DEF Stays, SameKeys, OnKeys
    <2>3. SameButKeys(x, y)
      BY <1>1, <2>1 DEF SameButKeys, SameParents, SameRoutes
    <2> QED BY <1>1, <2>1, <2>2, <2>3
  <1> QED BY <1>2, <1>3, <1>4

\* Tables that differ in the items of the cache alone.
LEMMA EntriesIs ==
  ASSUME NEW x \in Tables, NEW v \in [Key -> [ip : Ip \cup {NONE}, state : NbrState]],
         NEW y, y = [x EXCEPT !.nbr = v]
  PROVE  /\ y \in Tables /\ SameKeys(x, y) /\ SameBits(x, y) /\ SameParents(x, y)
         /\ SameRoutes(x, y) /\ y.nbr = v
  BY DEF Tables, SameKeys, SameBits, SameParents, SameRoutes

\* uip_ds6_nbr_add, for an address that is not in the cache.
LEMMA NbrAddGood ==
  ASSUME NEW x, Good(x), NEW ip \in Ip, NbrLookup(ip, x) = NONE,
         NEW l \in Ll \cup {LinkaddrNull}, NEW state \in NbrState, NEW v, Victim(v, x),
         NEW y, y = NbrAdd(ip, l, state, v, x)
  PROVE  Good(y) /\ SameButKeys(x, y) /\ KeepsNeeded(x, y)
  <1> DEFINE a == AddLladdr("ds6_neighbors", l, v, x)
  <1>1. (a.k = NONE /\ a.x = x) \/ Added("ds6_neighbors", l, v, x, a)
    BY AddLladdrIs
  <1>2. y = FillNbr(ip, state, a)
    BY DEF NbrAdd
  <1> HIDE DEF a
  <1>3. CASE a.k = NONE /\ a.x = x
    <2>1. y = x
      BY <1>2, <1>3 DEF FillNbr
    <2> QED BY <2>1 DEF SameButKeys, SameRoutes, KeepsNeeded
  <1>4. CASE Added("ds6_neighbors", l, v, x, a)
    <2> DEFINE k == a.k
               z == a.x
               w == [z.nbr EXCEPT ![k] = [ip |-> ip, state |-> state]]
    <2>1. /\ z \in Tables /\ KeysGood(z) /\ ParentGood(z) /\ RoutesGood(z) /\ HopsGood(z)
          /\ k \in OnKeys(z) /\ k \in Key /\ k # NONE
          /\ OnKeys(x) \subseteq OnKeys(z)
          /\ \A j \in OnKeys(x) : z.ll[j] = x.ll[j] \/ (j = v /\ v # NONE)
          /\ \A j \in Cached(z) : j \in Cached(x) \/ j = k
          /\ z.nbr = x.nbr /\ z.dag = x.dag /\ z.root = x.root /\ z.pref = x.pref
          /\ SameRoutes(x, z)
      BY <1>4 DEF Added
    <2>2. y = [z EXCEPT !.nbr[k] = [ip |-> ip, state |-> state]]
      BY <1>2, <2>1 DEF FillNbr
    <2> HIDE DEF k, z
    <2>3. y = [z EXCEPT !.nbr = w]
      BY <2>1, <2>2 DEF Tables
    <2>4. /\ w \in [Key -> [ip : Ip \cup {NONE}, state : NbrState]]
          /\ w[k].ip = ip /\ \A j \in Key : j # k => w[j] = x.nbr[j]
      <3>1. z.nbr \in [Key -> [ip : Ip \cup {NONE}, state : NbrState]]
        BY <2>1 DEF Tables
      <3> QED BY <2>1, <3>1
    <2> HIDE DEF w
    <2>5. /\ y \in Tables /\ SameKeys(z, y) /\ SameBits(z, y) /\ SameParents(z, y) /\ SameRoutes(z, y)
          /\ y.nbr = w
      BY <2>1, <2>3, <2>4, EntriesIs
    <2>6. OnKeys(y) = OnKeys(z) /\ Cached(y) = Cached(z) /\ OnList(y) = OnList(z)
      BY <2>5 DEF OnKeys, OnList, Cached, Items, Uses, SameKeys, SameBits, SameRoutes
    <2>7. KeysGood(y) /\ ParentGood(y) /\ HopsGood(y)
      BY <2>1, <2>5, <2>6 DEF KeysGood, ParentGood, HopsGood, Uses, SameKeys, SameBits, SameParents, SameRoutes
    <2>8. RoutesGood(y)
      BY <2>1, <2>5, <2>6 DEF RoutesGood, SameRoutes
    <2>9. CacheGood(y)
      <3>1. \A j \in Cached(x) : x.nbr[j].ip # ip
        BY GoodIs, NbrLookupIs
      <3>2. Cached(x) \subseteq Key
        BY GoodIs
      <3>3. \A j \in Cached(y) : j = k \/ (j \in Cached(x) /\ y.nbr[j].ip = x.nbr[j].ip)
        BY <2>1, <2>4, <2>5, <2>6, <3>2
      <3> QED BY <2>4, <2>5, <3>1, <3>3 DEF Good, CacheGood
    <2>10. SameButKeys(x, y)
      BY <2>1, <2>5 DEF SameButKeys, SameParents, SameRoutes
    <2>11. KeepsNeeded(x, y)
      BY <2>1, <2>5, <2>6 DEF KeepsNeeded, Victim, SameKeys
    <2> QED BY <2>5, <2>7, <2>8, <2>9, <2>10, <2>11 DEF Good
  <1> QED BY <1>1, <1>3, <1>4

\* nbr_table_update_lladdr, for an entry of the cache.
LEMMA UpdateLladdrGood ==
  ASSUME NEW x, Good(x), NEW k \in Cached(x), NEW l \in Ll, NEW y, y = UpdateLladdr(k, l, x)
  PROVE  Good(y) /\ OnlyIdleEvicted(x, y) /\ y.nbr = x.nbr /\ SameRoutes(x, y)
  <1>1. x \in Tables /\ k \in OnKeys(x) /\ k \in Key
    BY GoodIs
  <1>2. CASE KeyOf(l, x) = NONE
    <2> DEFINE w == [x.ll EXCEPT ![k] = l]
    <2>1. y = [x EXCEPT !.ll = w]
      BY <1>1, <1>2 DEF UpdateLladdr, Tables
    <2>2. /\ w \in [Key -> Ll \cup {LinkaddrNull}]
          /\ w[k] = l /\ \A j \in Key : j # k => w[j] = x.ll[j]
      BY <1>1 DEF Tables
    <2> HIDE DEF w
    <2>3. /\ y \in Tables /\ SameBits(x, y) /\ SameParents(x, y) /\ SameRoutes(x, y) /\ y.nbr = x.nbr
          /\ y.keys = x.keys /\ y.mem = x.mem /\ y.ll = w
      BY <1>1, <2>1, <2>2 DEF Tables, SameBits, SameParents, SameRoutes
    <2>4. OnKeys(y) = OnKeys(x) /\ Cached(y) = Cached(x) /\ OnList(y) = OnList(x) /\ OnKeys(x) \subseteq Key
      BY <2>3, GoodIs DEF OnKeys, OnList, Cached, Items, Uses, SameBits, SameRoutes
    <2>5. \A i, j \in OnKeys(y) : y.ll[i] = y.ll[j] => i = j
      <3>1. \A j \in OnKeys(x) : x.ll[j] # l
        BY <1>1, <1>2, KeyOfIs
      <3>2. \A i, j \in OnKeys(x) : x.ll[i] = x.ll[j] => i = j
        BY DEF Good, KeysGood
      <3> QED BY <2>2, <2>3, <2>4, <3>1, <3>2
    <2>6. KeysGood(y)
      BY <2>3, <2>4, <2>5 DEF Good, KeysGood, SameBits, SameRoutes
    <2>7. ParentGood(y) /\ HopsGood(y) /\ CacheGood(y)
      BY <2>3, <2>4 DEF Good, ParentGood, HopsGood, CacheGood, Uses, SameBits, SameParents, SameRoutes
    <2>8. RoutesGood(y)
      BY <2>3, <2>4 DEF Good, RoutesGood, SameRoutes
    <2>9. OnlyIdleEvicted(x, y)
      BY <2>2, <2>3, <2>4 DEF OnlyIdleEvicted
    <2> QED BY <2>3, <2>6, <2>7, <2>8, <2>9 DEF Good
  <1>3. CASE KeyOf(l, x) = k /\ KeyOf(l, x) # NONE
    <2>1. y = x
      BY <1>3 DEF UpdateLladdr
    <2> QED BY <2>1 DEF OnlyIdleEvicted, SameRoutes
  <1>4. CASE KeyOf(l, x) # k /\ KeyOf(l, x) # NONE
    <2>1. y = RemoveKey(k, x)
      BY <1>4 DEF UpdateLladdr
    <2>2. Good(y) /\ y.ll = x.ll /\ SameRoutes(x, y) /\ y.nbr = x.nbr
      BY <1>1, <2>1, RemoveKeyGood
    <2> QED BY <2>2 DEF OnlyIdleEvicted
  <1> QED BY <1>2, <1>3, <1>4

-----------------------------------------------------------------------------
(* The routes.                                                             *)

\* A list with one element less.
LEMMA RemoveFirstLen ==
  ASSUME NEW S, NEW l \in Seq(S), IsInjective(l), NEW x \in ToSet(l)
  PROVE  /\ Len(l) \in Nat \ {0} /\ Len(RemoveFirst(l, x)) = Len(l) - 1
  <1> DEFINE m == RemoveFirst(l, x)
  <1>1. m \in Seq(S) /\ IsInjective(m) /\ ToSet(m) = ToSet(l) \ {x}
    BY RemoveFirstKeeps
  <1> HIDE DEF m
  <1>2. Len(l) = Cardinality(ToSet(l)) /\ Len(m) = Cardinality(ToSet(m)) /\ IsFiniteSet(ToSet(l))
    BY <1>1, InjectiveLen
  <1>3. Cardinality(ToSet(l) \ {x}) = Cardinality(ToSet(l)) - 1
    BY <1>2, FS_RemoveElement
  <1>4. Len(l) \in Nat /\ Len(m) \in Nat /\ Len(m) = Len(l) - 1
    BY <1>1, <1>2, <1>3
  <1> QED BY <1>4 DEF m

\* The tables with other routes.
WithRoutes(x, q, v, m, c, n) ==
  [x EXCEPT !.list = q, !.via = v, !.rtMem = m, !.nrMem = c, !.num = n]

\* They differ in the routes alone.
LEMMA RoutesAre ==
  ASSUME NEW x \in Tables, NEW q \in Seq(Route), NEW v \in [Key -> Seq(Route)],
         NEW m \in SUBSET Route, NEW c \in Nat, NEW n \in Nat,
         NEW y, y = WithRoutes(x, q, v, m, c, n)
  PROVE  /\ y \in Tables /\ SameKeys(x, y) /\ SameBits(x, y) /\ SameParents(x, y)
         /\ y.nbr = x.nbr /\ y.rt = x.rt
         /\ y.list = q /\ y.via = v /\ y.rtMem = m /\ y.nrMem = c /\ y.num = n
  BY DEF WithRoutes, Tables, SameKeys, SameBits, SameParents

\* The tables without route r, before its neighbour's item is looked at.
Unlinked(r, k, x) ==
  [x EXCEPT !.list = RemoveFirst(@, r),
            !.via[k] = RemoveFirst(@, r),
            !.rtMem = @ \ {r},
            !.nrMem = IF r \in ToSet(x.via[k]) THEN @ - 1 ELSE @,
            !.num = @ - 1]

\* The list of routes, the list of the neighbour and the counts lose the
\* route together.
LEMMA UnlinkedIs ==
  ASSUME NEW x, Good(x), NEW r \in OnList(x), NEW k, k = x.rt[r].nr,
         NEW y, y = Unlinked(r, k, x)
  PROVE  /\ y \in Tables /\ SameKeys(x, y) /\ SameBits(x, y) /\ SameParents(x, y)
         /\ y.nbr = x.nbr /\ y.rt = x.rt /\ RoutesGood(y)
         /\ Len(y.list) = Len(x.list) - 1 /\ OnList(y) = OnList(x) \ {r}
         /\ k \in Key /\ x.via[k] # <<>>
         /\ \A j \in Key : j # k => y.via[j] = x.via[j]
  <1> DEFINE q == RemoveFirst(x.list, r)
             p == RemoveFirst(x.via[k], r)
             v == [x.via EXCEPT ![k] = p]
  <1>1. /\ x \in Tables /\ k \in Key /\ r \in Route /\ r \in ToSet(x.list)
        /\ r \in ToSet(x.via[k])
        /\ x.list \in Seq(Route) /\ IsInjective(x.list)
        /\ x.via \in [Key -> Seq(Route)] /\ x.via[k] \in Seq(Route) /\ IsInjective(x.via[k])
    <2>1. x \in Tables /\ r \in Route
      BY GoodIs
    <2>2. k \in Key /\ r \in ToSet(x.via[k]) /\ IsInjective(x.list) /\ IsInjective(x.via[k])
      BY DEF Good, RoutesGood
    <2>3. x.list \in Seq(Route) /\ x.via \in [Key -> Seq(Route)]
      BY <2>1 DEF Tables
    <2> QED BY <2>1, <2>2, <2>3 DEF OnList
  <1>2. /\ q \in Seq(Route) /\ IsInjective(q) /\ ToSet(q) = ToSet(x.list) \ {r}
        /\ Len(x.list) \in Nat \ {0} /\ Len(q) = Len(x.list) - 1
    BY <1>1, RemoveFirstKeeps, RemoveFirstLen
  <1>3. p \in Seq(Route) /\ IsInjective(p) /\ ToSet(p) = ToSet(x.via[k]) \ {r}
    BY <1>1, RemoveFirstKeeps
  <1>4. x.num = Len(x.list) /\ x.nrMem = Len(x.list) /\ x.rtMem = OnList(x)
    BY DEF Good, RoutesGood
  <1>5. y = [x EXCEPT !.list = q, !.via = v, !.rtMem = x.rtMem \ {r}, !.nrMem = x.nrMem - 1,
                      !.num = x.num - 1]
    BY <1>1 DEF Unlinked, Tables
  <1> HIDE DEF p, q
  <1>6. /\ v \in [Key -> Seq(Route)] /\ v[k] = p /\ \A j \in Key : j # k => v[j] = x.via[j]
    BY <1>1, <1>3
  <1> HIDE DEF v
  <1> DEFINE m == x.rtMem \ {r}
             c == x.nrMem - 1
             n == x.num - 1
  <1>7. m \in SUBSET Route /\ c \in Nat /\ n \in Nat
    BY <1>1, <1>2, <1>4 DEF Tables
  <1>13. y = WithRoutes(x, q, v, m, c, n)
    BY <1>5 DEF WithRoutes
  <1> HIDE DEF m, c, n
  <1>8. /\ y \in Tables /\ SameKeys(x, y) /\ SameBits(x, y) /\ SameParents(x, y)
        /\ y.nbr = x.nbr /\ y.rt = x.rt /\ y.list = q /\ y.via = v
        /\ y.rtMem = x.rtMem \ {r} /\ y.nrMem = x.nrMem - 1 /\ y.num = x.num - 1
    <2>1. /\ y \in Tables /\ SameKeys(x, y) /\ SameBits(x, y) /\ SameParents(x, y)
          /\ y.nbr = x.nbr /\ y.rt = x.rt
          /\ y.list = q /\ y.via = v /\ y.rtMem = m /\ y.nrMem = c /\ y.num = n
      <3>1. x \in Tables /\ q \in Seq(Route) /\ v \in [Key -> Seq(Route)]
        BY <1>1, <1>2, <1>6
      <3> QED BY <1>7, <1>13, <3>1, RoutesAre
    <2> QED BY <2>1 DEF m, c, n
  <1>9. OnList(y) = OnList(x) \ {r} /\ Len(y.list) = Len(x.list) - 1
    BY <1>2, <1>8 DEF OnList
  <1>10. \A j \in Key : /\ IsInjective(y.via[j])
                        /\ ToSet(y.via[j]) = {i \in OnList(y) : y.rt[i].nr = j}
    <2> TAKE j \in Key
    <2>1. IsInjective(x.via[j]) /\ ToSet(x.via[j]) = {i \in OnList(x) : x.rt[i].nr = j}
      BY DEF Good, RoutesGood
    <2>2. CASE j = k
      BY <1>3, <1>6, <1>8, <1>9, <2>1, <2>2
    <2>3. CASE j # k
      BY <1>6, <1>8, <1>9, <2>1, <2>3
    <2> QED BY <2>2, <2>3
  <1>11. RoutesGood(y)
    <2>1. y.num = Len(y.list) /\ y.nrMem = y.num /\ OnList(y) = y.rtMem /\ IsInjective(y.list)
      BY <1>2, <1>4, <1>8, <1>9
    <2>2. /\ \A i, j \in OnList(y) : y.rt[i].dest = y.rt[j].dest => i = j
          /\ \A i \in OnList(y) : y.rt[i].nr \in Key
      BY <1>8, <1>9 DEF Good, RoutesGood
    <2> QED BY <1>10, <2>1, <2>2 DEF RoutesGood
  <1>12. x.via[k] # <<>>
    BY <1>1, ToSetIs
  <1> QED BY <1>1, <1>6, <1>8, <1>9, <1>11, <1>12

\* uip_ds6_route_rm
LEMMA RouteRmGood ==
  ASSUME NEW x, Good(x), NEW r \in OnList(x), NEW y, y = RouteRm(r, x)
  PROVE  /\ Good(y) /\ SameKeys(x, y) /\ SameParents(x, y) /\ y.nbr = x.nbr /\ y.rt = x.rt
         /\ Len(y.list) = Len(x.list) - 1 /\ OnList(y) = OnList(x) \ {r}
  <1> DEFINE k == x.rt[r].nr
             u == Unlinked(r, k, x)
  <1>1. /\ u \in Tables /\ SameKeys(x, u) /\ SameBits(x, u) /\ SameParents(x, u)
        /\ u.nbr = x.nbr /\ u.rt = x.rt /\ RoutesGood(u)
        /\ Len(u.list) = Len(x.list) - 1 /\ OnList(u) = OnList(x) \ {r}
        /\ k \in Key /\ x.via[k] # <<>>
        /\ \A j \in Key : j # k => u.via[j] = x.via[j]
    BY UnlinkedIs
  <1>2. y = ForgetIdle(k, u)
    BY DEF RouteRm, Unlinked
  <1> HIDE DEF u, k
  <1>3. /\ OnKeys(u) = OnKeys(x) /\ Cached(u) = Cached(x) /\ OnKeys(x) \subseteq Key
    BY <1>1, GoodIs DEF OnKeys, Cached, Items, Uses, SameKeys, SameBits
  <1>4. k \in x.mem
    BY <1>1 DEF Good, KeysGood
  <1>5. CASE u.via[k] # <<>>
    <2>1. y = u
      BY <1>2, <1>5 DEF ForgetIdle
    <2>2. KeysGood(u)
      BY <1>1, <1>3, <1>4 DEF Good, KeysGood, SameKeys, SameBits
    <2>3. ParentGood(u) /\ CacheGood(u)
      BY <1>1, <1>3 DEF Good, ParentGood, CacheGood, Uses, SameBits, SameParents
    <2>4. HopsGood(u)
      BY <1>1, <1>3, <1>5 DEF Good, HopsGood, Uses, SameBits
    <2> QED BY <1>1, <2>1, <2>2, <2>3, <2>4 DEF Good
  <1>6. CASE u.via[k] = <<>>
    <2>1. y = TableRemove("nbr_routes", k, u) /\ "nbr_routes" \in Table /\ Index["nbr_routes"] = 2
      BY <1>2, <1>6, IndexIs DEF ForgetIdle, Table
    <2>2. /\ y \in Tables /\ SameKeys(u, y) /\ SameParents(u, y) /\ SameRoutes(u, y) /\ y.nbr = u.nbr
          /\ Cleared(u.used, y.used, k, 2) /\ Cleared(u.locked, y.locked, k, 2)
      BY <1>1, <2>1, TableRemoveIs
    <2>3. \A j \in Key : /\ x.used[j] = {} => y.used[j] = {}
                         /\ x.locked[j] = {} => y.locked[j] = {}
                         /\ 0 \in y.used[j] <=> 0 \in x.used[j]
                         /\ 1 \in y.used[j] <=> 1 \in x.used[j]
                         /\ 2 \in y.used[j] <=> 2 \in x.used[j] /\ j # k
                         /\ 0 \in y.locked[j] <=> 0 \in x.locked[j]
                         /\ 2 \in y.locked[j] <=> 2 \in x.locked[j] /\ j # k
      <3> TAKE j \in Key
      <3>1. /\ u.used \in [Key -> SUBSET Indexes] /\ u.locked \in [Key -> SUBSET Indexes]
            /\ y.used \in [Key -> SUBSET Indexes] /\ y.locked \in [Key -> SUBSET Indexes]
        BY <1>1, <2>2, BitmapsIs
      <3>2. /\ u.used[j] = {} => y.used[j] = {}
            /\ 0 \in y.used[j] <=> 0 \in u.used[j] /\ (j = k => 0 # 2)
            /\ 1 \in y.used[j] <=> 1 \in u.used[j] /\ (j = k => 1 # 2)
            /\ 2 \in y.used[j] <=> 2 \in u.used[j] /\ (j = k => 2 # 2)
        BY <2>2, <3>1, BitsOf
      <3>3. /\ u.locked[j] = {} => y.locked[j] = {}
            /\ 0 \in y.locked[j] <=> 0 \in u.locked[j] /\ (j = k => 0 # 2)
            /\ 2 \in y.locked[j] <=> 2 \in u.locked[j] /\ (j = k => 2 # 2)
        BY <2>2, <3>1, BitsOf
      <3>4. u.used = x.used /\ u.locked = x.locked
        BY <1>1 DEF SameBits
      <3> QED BY <3>2, <3>3, <3>4
    <2>4. OnKeys(y) = OnKeys(x) /\ OnList(y) = OnList(u) /\ OnKeys(x) \subseteq Key
      BY <1>3, <2>2 DEF OnKeys, OnList, SameKeys, SameRoutes
    <2>5. Cached(y) = Cached(x)
      BY <2>3, <2>4, IndexIs DEF Cached, Items, Uses, OnKeys
    <2>6. /\ SameKeys(x, y) /\ SameParents(x, y) /\ y.nbr = x.nbr /\ y.rt = x.rt
          /\ y.list = u.list
      BY <1>1, <2>2 DEF SameKeys, SameParents, SameRoutes
    <2>7. \A j \in Key : IF j = k THEN y.via[j] = <<>> ELSE y.via[j] = x.via[j]
      BY <1>1, <1>6, <2>2 DEF SameRoutes
    <2>8. KeysGood(y)
      BY <1>4, <2>3, <2>4, <2>6, <2>7 DEF Good, KeysGood, SameKeys
    <2>9. ParentGood(y)
      BY <2>3, <2>4, <2>6, IndexIs DEF Good, ParentGood, Uses, SameParents
    <2>10. HopsGood(y)
      BY <2>3, <2>4, <2>7, IndexIs DEF Good, HopsGood, Uses
    <2>11. CacheGood(y)
      BY <2>5, <2>6 DEF Good, CacheGood
    <2>12. RoutesGood(y)
      <3>1. RoutesGood(u) /\ SameRoutes(u, y) /\ OnList(y) = OnList(u)
        BY <1>1, <2>2, <2>4
      <3> QED BY <3>1 DEF RoutesGood, SameRoutes
    <2> QED BY <1>1, <2>2, <2>4, <2>6, <2>8, <2>9, <2>10, <2>11, <2>12 DEF Good
  <1> QED BY <1>5, <1>6

\* uip_ds6_route_lookup moves the route it finds to the head of the list.
LEMMA LookupGood ==
  ASSUME NEW x, Good(x), NEW d, NEW y, y = Lookup(d, x)
  PROVE  /\ Good(y) /\ SameKeys(x, y) /\ SameParents(x, y) /\ SameBits(x, y) /\ y.nbr = x.nbr
         /\ y.rt = x.rt /\ y.via = x.via /\ OnList(y) = OnList(x)
  <1> DEFINE r == RouteOf(d, x)
             m == RemoveFirst(x.list, r)
             q == <<r>> \o m
  <1>1. x \in Tables
    BY GoodIs
  <1>2. CASE r = NONE
    BY <1>2 DEF Lookup, SameKeys, SameParents, SameBits
  <1>3. CASE r # NONE
    <2>1. r \in OnList(x) /\ r \in Route
      BY <1>1, <1>3, RouteOfIs
    <2>2. y = [x EXCEPT !.list = q]
      BY <1>1, <1>3 DEF Lookup, Tables
    <2> HIDE DEF r
    <2>3. x.list \in Seq(Route) /\ IsInjective(x.list) /\ r \in ToSet(x.list)
      BY <1>1, <2>1 DEF Tables, Good, RoutesGood, OnList
    <2>4. /\ m \in Seq(Route) /\ IsInjective(m) /\ ToSet(m) = ToSet(x.list) \ {r}
          /\ Len(x.list) \in Nat \ {0} /\ Len(m) = Len(x.list) - 1
      BY <2>3, RemoveFirstKeeps, RemoveFirstLen
    <2> HIDE DEF m
    <2>5. /\ q \in Seq(Route) /\ IsInjective(q) /\ Len(q) = Len(m) + 1 /\ ToSet(q) = ToSet(m) \cup {r}
      BY <2>1, <2>4, ConsKeeps
    <2> HIDE DEF q
    <2>6. Len(q) = Len(x.list) /\ ToSet(q) = ToSet(x.list)
      BY <2>3, <2>4, <2>5
    <2>7. /\ y \in Tables /\ SameKeys(x, y) /\ SameBits(x, y) /\ SameParents(x, y)
          /\ y.nbr = x.nbr /\ y.rt = x.rt /\ y.list = q /\ y.via = x.via
          /\ y.rtMem = x.rtMem /\ y.nrMem = x.nrMem /\ y.num = x.num
      BY <1>1, <2>2, <2>5 DEF Tables, SameKeys, SameBits, SameParents
    <2>8. OnKeys(y) = OnKeys(x) /\ Cached(y) = Cached(x) /\ OnList(y) = OnList(x)
      BY <2>6, <2>7 DEF OnKeys, OnList, Cached, Items, Uses, SameKeys, SameBits
    <2>9. KeysGood(y) /\ CacheGood(y) /\ ParentGood(y) /\ HopsGood(y)
      BY <2>7, <2>8 DEF Good, KeysGood, CacheGood, ParentGood, HopsGood, Uses, SameKeys, SameBits, SameParents
    <2>10. RoutesGood(y)
      <3>1. RoutesGood(x)
        BY GoodIs
      <3>2. IsInjective(y.list) /\ OnList(y) = y.rtMem /\ y.num = Len(y.list) /\ y.nrMem = y.num
        BY <2>5, <2>6, <2>7, <2>8, <3>1 DEF RoutesGood
      <3> QED BY <2>7, <2>8, <3>1, <3>2 DEF RoutesGood
    <2> QED BY <2>7, <2>8, <2>9, <2>10 DEF Good
  <1> QED BY <1>2, <1>3

\* The tables with the new route r to destination d through key k, before its
\* item of nbr_routes is locked.
Linked(r, k, d, x) ==
  [x EXCEPT !.rtMem = @ \cup {r}, !.list = <<r>> \o @,
            !.nrMem = @ + 1, !.via[k] = Append(@, r),
            !.rt[r] = [dest |-> d, nr |-> k], !.num = @ + 1]

\* Tables that differ in the routes and in what they hold.
WithRoutesTo(x, q, v, m, c, n, f) ==
  [x EXCEPT !.rtMem = m, !.list = q, !.nrMem = c, !.via = v, !.rt = f, !.num = n]

\* The list of routes, the list of the neighbour and the counts gain the
\* route together.
LEMMA LinkedIs ==
  ASSUME NEW x \in Tables, RoutesGood(x), NEW k \in Key, NEW d \in Dest,
         \A i \in OnList(x) : x.rt[i].dest # d,
         NEW r \in Route, r \notin x.rtMem, NEW y, y = Linked(r, k, d, x)
  PROVE  /\ y \in Tables /\ SameKeys(x, y) /\ SameBits(x, y) /\ SameParents(x, y)
         /\ y.nbr = x.nbr /\ RoutesGood(y)
         /\ y.via[k] # <<>> /\ \A j \in Key : j # k => y.via[j] = x.via[j]
  <1> DEFINE q == <<r>> \o x.list
             p == Append(x.via[k], r)
             v == [x.via EXCEPT ![k] = p]
             f == [x.rt EXCEPT ![r] = [dest |-> d, nr |-> k]]
             m == x.rtMem \cup {r}
             c == x.nrMem + 1
             n == x.num + 1
  <1>1. /\ x.list \in Seq(Route) /\ IsInjective(x.list) /\ x.via \in [Key -> Seq(Route)]
        /\ OnList(x) = x.rtMem /\ x.num = Len(x.list) /\ x.nrMem = x.num
        /\ x.via[k] \in Seq(Route) /\ IsInjective(x.via[k])
        /\ x.rtMem \in SUBSET Route /\ x.num \in Nat
    BY DEF Tables, RoutesGood
  <1>2. ToSet(x.via[k]) = {i \in OnList(x) : x.rt[i].nr = k}
    BY DEF RoutesGood
  <1>3. r \notin ToSet(x.list) /\ r \notin ToSet(x.via[k])
    BY <1>1, <1>2 DEF OnList
  <1>4. /\ q \in Seq(Route) /\ IsInjective(q) /\ Len(q) = Len(x.list) + 1
        /\ ToSet(q) = ToSet(x.list) \cup {r}
    BY <1>1, <1>3, ConsKeeps
  <1>5. p \in Seq(Route) /\ IsInjective(p) /\ ToSet(p) = ToSet(x.via[k]) \cup {r}
    BY <1>1, <1>3, AppendKeeps
  <1>6. y = WithRoutesTo(x, q, v, m, c, n, f)
    BY DEF Linked, WithRoutesTo, Tables
  <1>7. m \in SUBSET Route /\ c \in Nat /\ n \in Nat
    BY <1>1
  <1> HIDE DEF p, q
  <1>8. /\ v \in [Key -> Seq(Route)] /\ v[k] = p /\ \A j \in Key : j # k => v[j] = x.via[j]
    BY <1>1, <1>5
  <1>9. /\ f \in [Route -> [dest : Dest \cup {NONE}, nr : Key \cup {NONE}]]
        /\ f[r].dest = d /\ f[r].nr = k /\ \A i \in Route : i # r => f[i] = x.rt[i]
    <2>1. x.rt \in [Route -> [dest : Dest \cup {NONE}, nr : Key \cup {NONE}]]
      BY DEF Tables
    <2> QED BY <2>1
  <1> HIDE DEF v, f, m, c, n
  <1>10. /\ y \in Tables /\ SameKeys(x, y) /\ SameBits(x, y) /\ SameParents(x, y)
         /\ y.nbr = x.nbr /\ y.rt = f
         /\ y.list = q /\ y.via = v /\ y.rtMem = m /\ y.nrMem = c /\ y.num = n
    <2>1. /\ q \in Seq(Route) /\ v \in [Key -> Seq(Route)]
          /\ f \in [Route -> [dest : Dest \cup {NONE}, nr : Key \cup {NONE}]]
      BY <1>4, <1>8, <1>9
    <2>2. /\ x \in Tables /\ m \in SUBSET Route /\ c \in Nat /\ n \in Nat
          /\ y = WithRoutesTo(x, q, v, m, c, n, f)
      BY <1>6, <1>7
    <2>3. y \in Tables
      BY <2>1, <2>2, ZenonT(60) DEF WithRoutesTo, Tables
    <2>4. /\ y.nbr = x.nbr /\ y.rt = f
          /\ y.list = q /\ y.via = v /\ y.rtMem = m /\ y.nrMem = c /\ y.num = n
      BY <2>2 DEF WithRoutesTo, Tables
    <2>5. SameKeys(x, y) /\ SameBits(x, y) /\ SameParents(x, y)
      BY <2>2, SMTT(30) DEF WithRoutesTo, Tables, SameKeys, SameBits, SameParents
    <2> QED BY <2>3, <2>4, <2>5
  <1>11. OnList(y) = OnList(x) \cup {r} /\ r \notin OnList(x) /\ OnList(x) \subseteq Route
    BY <1>1, <1>3, <1>4, <1>10 DEF OnList
  <1>12. \A j \in Key : /\ IsInjective(y.via[j])
                        /\ ToSet(y.via[j]) = {i \in OnList(y) : y.rt[i].nr = j}
    <2> TAKE j \in Key
    <2>1. IsInjective(x.via[j]) /\ ToSet(x.via[j]) = {i \in OnList(x) : x.rt[i].nr = j}
      BY DEF RoutesGood
    <2>2. \A i \in OnList(x) : y.rt[i] = x.rt[i]
      BY <1>9, <1>10, <1>11
    <2>3. y.rt[r].nr = k
      BY <1>9, <1>10
    <2>4. CASE j = k
      <3>1. y.via[j] = p
        BY <1>8, <1>10, <2>4
      <3> QED BY <1>5, <1>11, <2>1, <2>2, <2>3, <2>4, <3>1
    <2>5. CASE j # k
      <3>1. y.via[j] = x.via[j]
        BY <1>8, <1>10, <2>5
      <3> QED BY <1>11, <2>1, <2>2, <2>3, <2>5, <3>1
    <2> QED BY <2>4, <2>5
  <1>13. /\ \A i, j \in OnList(y) : y.rt[i].dest = y.rt[j].dest => i = j
         /\ \A i \in OnList(y) : y.rt[i].nr \in Key
    <2>1. \A i \in OnList(x) : y.rt[i] = x.rt[i]
      BY <1>9, <1>10, <1>11
    <2>2. y.rt[r].nr = k /\ y.rt[r].dest = d
      BY <1>9, <1>10
    <2> QED BY <1>11, <2>1, <2>2 DEF RoutesGood
  <1>14. RoutesGood(y)
    <2>1. OnList(y) = y.rtMem
      BY <1>1, <1>10, <1>11 DEF m
    <2>2. y.num = Len(y.list) /\ y.nrMem = y.num
      BY <1>1, <1>4, <1>10 DEF c, n
    <2> QED BY <1>4, <1>10, <1>12, <1>13, <2>1, <2>2 DEF RoutesGood
  <1>15. y.via[k] # <<>>
    <2>1. p \in Seq(Route) /\ ToSet(p) # {}
      BY <1>5
    <2>2. p # <<>>
      BY <2>1, ToSetIs
    <2>3. y.via[k] = p
      BY <1>8, <1>10
    <2> QED BY <2>2, <2>3
  <1> QED BY <1>8, <1>10, <1>14, <1>15

\* While there are fewer routes than UIP_DS6_ROUTE_NB a block is free.
LEMMA BlockFree ==
  ASSUME NEW x \in Tables, RoutesGood(x), x.num # UIP_DS6_ROUTE_NB
  PROVE  Min(Route \ x.rtMem) \in Route /\ Min(Route \ x.rtMem) \notin x.rtMem /\ x.rtMem # Route
  <1>1. Cardinality(Route) = UIP_DS6_ROUTE_NB
    BY FS_Interval, Ds6Assumption DEF Route
  <1>2. x.list \in Seq(Route) /\ x.rtMem \in SUBSET Route
    BY DEF Tables
  <1>3. Cardinality(x.rtMem) = x.num
    BY <1>2, InjectiveLen DEF RoutesGood, OnList
  <1>4. Route \ x.rtMem # {} /\ Route \ x.rtMem \in SUBSET Nat
    <2>1. Route \in SUBSET Nat
      BY DEF Route
    <2>2. x.rtMem # Route
      BY <1>1, <1>3
    <2> QED BY <1>2, <2>1, <2>2
  <1> QED BY <1>4, MinIs

\* The tail of uip_ds6_route_add: the next hop's item is in use already, or has
\* just been added, and becomes locked with its first route.
LEMMA LinkRouteGood ==
  ASSUME NEW x, Good(x), x.num # UIP_DS6_ROUTE_NB, NEW k \in OnKeys(x),
         NEW d \in Dest, \A i \in OnList(x) : x.rt[i].dest # d,
         NEW a, a.k = k, a.x \in Tables, SameKeys(x, a.x), SameParents(x, a.x),
         SameRoutes(x, a.x), a.x.nbr = x.nbr, a.x.locked = x.locked,
         SetIn(x.used, a.x.used, k, 2),
         NEW y, y = LinkRoute(d, a)
  PROVE  Good(y) /\ SameKeys(x, y) /\ SameParents(x, y) /\ y.nbr = x.nbr
  <1> DEFINE u == a.x
             r == Min(Route \ u.rtMem)
             w == Linked(r, k, d, u)
  <1>1. /\ u \in Tables /\ SameKeys(x, u) /\ SameParents(x, u)
        /\ SameRoutes(x, u) /\ u.nbr = x.nbr /\ u.locked = x.locked
        /\ SetIn(x.used, u.used, k, 2)
    OBVIOUS
  <1>2. k \in Key /\ k # NONE /\ k \in x.mem /\ x \in Tables
    BY GoodIs, NoneIs DEF KeysGood
  <1>3. OnList(u) = OnList(x) /\ u.rt = x.rt /\ u.num = x.num /\ u.nrMem = x.nrMem /\ u.via = x.via
    BY <1>1 DEF OnList, SameRoutes
  <1>4. RoutesGood(u) /\ u.nrMem # UIP_DS6_ROUTE_NB /\ u.num # UIP_DS6_ROUTE_NB
    BY <1>1, <1>3 DEF Good, RoutesGood, SameRoutes
  <1>5. r \in Route /\ r \notin u.rtMem /\ u.rtMem # Route
    BY <1>1, <1>4, BlockFree
  <1>6. y = Lock("nbr_routes", k, w)
    BY <1>2, <1>4, <1>5 DEF LinkRoute, Linked
  <1>7. /\ w \in Tables /\ SameKeys(u, w) /\ SameBits(u, w) /\ SameParents(u, w)
        /\ w.nbr = u.nbr /\ RoutesGood(w)
        /\ w.via[k] # <<>> /\ \A j \in Key : j # k => w.via[j] = u.via[j]
    <2>1. \A i \in OnList(u) : u.rt[i].dest # d
      BY <1>3
    <2> HIDE DEF u, r
    <2> QED BY <1>1, <1>2, <1>4, <1>5, <2>1, LinkedIs
  <1> HIDE DEF u, r, w
  <1>8. "nbr_routes" \in Table /\ Index["nbr_routes"] = 2
    BY IndexIs DEF Table
  <1>9. /\ y \in Tables /\ SameKeys(w, y) /\ SameParents(w, y) /\ SameRoutes(w, y)
        /\ y.nbr = w.nbr /\ y.used = w.used /\ SetIn(w.locked, y.locked, k, 2)
    BY <1>2, <1>6, <1>7, <1>8, LockIs
  <1>10. SameKeys(x, y) /\ SameParents(x, y) /\ y.nbr = x.nbr
    BY <1>1, <1>7, <1>9 DEF SameKeys, SameParents
  <1>11. OnKeys(y) = OnKeys(x) /\ OnKeys(x) \subseteq Key
    BY <1>10, GoodIs DEF OnKeys, SameKeys
  <1>12. /\ SetIn(x.used, y.used, k, 2) /\ SetIn(x.locked, y.locked, k, 2)
    BY <1>1, <1>7, <1>9 DEF SameBits
  <1>13. \A j \in Key : /\ j # k /\ x.used[j] = {} => y.used[j] = {}
                        /\ j # k /\ x.locked[j] = {} => y.locked[j] = {}
                        /\ 0 \in y.used[j] <=> 0 \in x.used[j]
                        /\ 1 \in y.used[j] <=> 1 \in x.used[j]
                        /\ 2 \in y.used[j] <=> 2 \in x.used[j] \/ j = k
                        /\ 0 \in y.locked[j] <=> 0 \in x.locked[j]
                        /\ 2 \in y.locked[j] <=> 2 \in x.locked[j] \/ j = k
    <2>1. \A j \in Key : y.used[j] \subseteq Indexes /\ y.locked[j] \subseteq Indexes
      BY <1>9 DEF Tables
    <2>2. \A j \in Key, i \in Indexes : /\ i \in y.used[j] <=> i \in x.used[j] \/ (j = k /\ i = 2)
                                        /\ i \in y.locked[j] <=> i \in x.locked[j] \/ (j = k /\ i = 2)
      BY <1>12 DEF SetIn
    <2>3. 0 \in Indexes /\ 1 \in Indexes /\ 2 \in Indexes
      BY IndexIs
    <2> QED BY <2>1, <2>2, <2>3
  <1>14. y.via[k] # <<>> /\ \A j \in Key : j # k => y.via[j] = x.via[j]
    BY <1>3, <1>7, <1>9 DEF SameRoutes
  <1>15. Cached(y) = Cached(x)
    BY <1>11, <1>13, IndexIs DEF Cached, Items, Uses, OnKeys
  <1>16. KeysGood(y)
    BY <1>2, <1>10, <1>11, <1>13, <1>14 DEF Good, KeysGood, SameKeys
  <1>17. ParentGood(y)
    BY <1>10, <1>11, <1>13, IndexIs DEF Good, ParentGood, Uses, SameParents
  <1>18. HopsGood(y)
    BY <1>11, <1>13, <1>14, IndexIs DEF Good, HopsGood, Uses
  <1>19. CacheGood(y)
    BY <1>10, <1>15 DEF Good, CacheGood
  <1>20. RoutesGood(y)
    <2>1. RoutesGood(w) /\ SameRoutes(w, y)
      BY <1>7, <1>9
    <2>2. OnList(y) = OnList(w)
      BY <2>1 DEF OnList, SameRoutes
    <2> QED BY <2>1, <2>2 DEF RoutesGood, SameRoutes
  <1> QED BY <1>9, <1>10, <1>16, <1>17, <1>18, <1>19, <1>20 DEF Good

\* A new route goes through a neighbour that has a key.
LEMMA RouteNewGood ==
  ASSUME NEW x, Good(x), NEW k \in OnKeys(x), NEW l, l = x.ll[k],
         NEW d \in Dest, \A i \in OnList(x) : x.rt[i].dest # d,
         NEW y, y = RouteNew(d, l, x)
  PROVE  Good(y) /\ SameKeys(x, y) /\ SameParents(x, y) /\ y.nbr = x.nbr
  <1>1. x \in Tables /\ k \in Key /\ k # NONE /\ KeyOf(l, x) = k /\ Index["nbr_routes"] = 2
    BY GoodIs, NoneIs, KeyOfListed, IndexIs
  <1>2. CASE x.num = UIP_DS6_ROUTE_NB
    <2>1. y = x
      BY <1>2 DEF RouteNew
    <2> QED BY <2>1 DEF SameKeys, SameParents
  <1>3. CASE x.num # UIP_DS6_ROUTE_NB /\ Uses("nbr_routes", k, x)
    <2> DEFINE a == [x |-> x, k |-> k]
    <2>1. y = LinkRoute(d, a)
      BY <1>1, <1>3 DEF RouteNew, GetFromLladdr
    <2>2. a.k = k /\ a.x = x
      OBVIOUS
    <2> HIDE DEF a
    <2>3. SetIn(x.used, x.used, k, 2)
      BY <1>1, <1>3 DEF SetIn, Uses
    <2>4. SameKeys(x, a.x) /\ SameParents(x, a.x) /\ SameRoutes(x, a.x)
      BY <2>2 DEF SameKeys, SameParents, SameRoutes
    <2> QED BY <1>1, <1>3, <2>1, <2>2, <2>3, <2>4, LinkRouteGood
  <1>4. CASE x.num # UIP_DS6_ROUTE_NB /\ ~Uses("nbr_routes", k, x)
    <2> DEFINE u == InitItem("nbr_routes", k, x)
               a == [x |-> u, k |-> k]
    <2>1. y = LinkRoute(d, a)
      BY <1>1, <1>4 DEF RouteNew, GetFromLladdr, AddLladdr
    <2>2. a.k = k /\ a.x = u
      OBVIOUS
    <2>3. /\ u \in Tables /\ SameKeys(x, u) /\ SameParents(x, u)
          /\ u.nbr = x.nbr /\ u.locked = x.locked /\ SetIn(x.used, u.used, k, 2)
          /\ u.list = x.list /\ u.rt = x.rt /\ u.rtMem = x.rtMem
          /\ u.nrMem = x.nrMem /\ u.num = x.num /\ u.via = [x.via EXCEPT ![k] = <<>>]
      BY <1>1, InitRoutesIs
    <2> HIDE DEF a, u
    <2>4. u.via = x.via
      <3>1. x.via[k] = <<>> /\ x.via \in [Key -> Seq(Route)]
        BY <1>1, <1>4 DEF Good, HopsGood, Tables
      <3> QED BY <2>3, <3>1
    <2>5. SameRoutes(x, u)
      BY <2>3, <2>4 DEF SameRoutes
    <2> QED BY <1>1, <1>4, <2>1, <2>2, <2>3, <2>5, LinkRouteGood
  <1> QED BY <1>2, <1>3, <1>4

\* uip_ds6_route_add
LEMMA RouteAddGood ==
  ASSUME NEW x, Good(x), NEW ip, NEW d \in Dest, NEW y, y = RouteAdd(d, ip, x)
  PROVE  Good(y) /\ SameKeys(x, y) /\ SameParents(x, y) /\ y.nbr = x.nbr
  <1> DEFINE k == NbrLookup(ip, x)
             u == Lookup(d, x)
             l == x.ll[k]
             r == RouteOf(d, u)
  <1>1. x \in Tables
    BY GoodIs
  <1>2. CASE k = NONE
    <2>1. y = x
      BY <1>2 DEF RouteAdd
    <2> QED BY <2>1 DEF SameKeys, SameParents
  <1>3. CASE k # NONE
    <2>1. k \in OnKeys(x) /\ y = RouteReplace(d, ip, l, u)
      BY <1>1, <1>3, NbrLookupIs DEF RouteAdd
    <2>2. Good(u) /\ SameKeys(x, u) /\ SameParents(x, u) /\ u.nbr = x.nbr
      BY LookupGood
    <2>3. CASE y = u
      BY <2>2, <2>3
    <2>4. CASE y # u
      <3> DEFINE v == IF r # NONE THEN RouteRm(r, u) ELSE u
      <3>1. y = RouteNew(d, l, v)
        BY <2>1, <2>4 DEF RouteReplace
      <3> HIDE DEF k, u
      <3>2. /\ Good(v) /\ SameKeys(u, v) /\ SameParents(u, v) /\ v.nbr = u.nbr
            /\ \A i \in OnList(v) : v.rt[i].dest # d
        <4>1. CASE r = NONE
          <5>1. v = u
            BY <4>1
          <5>2. \A i \in OnList(u) : u.rt[i].dest # d
            BY <2>2, <4>1, GoodIs, RouteOfIs
          <5> QED BY <2>2, <5>1, <5>2 DEF SameKeys, SameParents
        <4>2. CASE r # NONE
          <5>1. r \in OnList(u) /\ u.rt[r].dest = d
            BY <2>2, <4>2, GoodIs, RouteOfIs
          <5>2. v = RouteRm(r, u)
            BY <4>2
          <5> HIDE DEF r, v
          <5>3. /\ Good(v) /\ SameKeys(u, v) /\ SameParents(u, v) /\ v.nbr = u.nbr /\ v.rt = u.rt
                /\ OnList(v) = OnList(u) \ {r}
            BY <2>2, <5>1, <5>2, RouteRmGood
          <5>4. \A i \in OnList(u) : u.rt[i].dest = u.rt[r].dest => i = r
            BY <2>2, <5>1 DEF Good, RoutesGood
          <5> QED BY <5>1, <5>3, <5>4
        <4> QED BY <4>1, <4>2
      <3> HIDE DEF r, v
      <3>3. k \in OnKeys(v) /\ l = v.ll[k]
        BY <2>1, <2>2, <3>2 DEF OnKeys, SameKeys
      <3> HIDE DEF l
      <3>4. Good(y) /\ SameKeys(v, y) /\ SameParents(v, y) /\ y.nbr = v.nbr
        BY <3>1, <3>2, <3>3, RouteNewGood
      <3> QED BY <2>2, <3>2, <3>4 DEF SameKeys, SameParents
    <2> QED BY <2>3, <2>4
  <1> QED BY <1>2, <1>3

-----------------------------------------------------------------------------
(* Whom the policy evicts.                                                 *)

\* A neighbour is among the children as long as routes go through it, and
\* among the parents as long as it is the preferred one.
LEMMA ChildrenParentsAre ==
  ASSUME NEW x, Good(x), NEW k \in Cached(x)
  PROVE  /\ x.via[k] # <<>> => k \in Children(x)
         /\ k = x.pref => k \in Parents(x)
  <1>1. x \in Tables /\ k \in OnKeys(x) /\ k \in Key /\ k # NONE
    BY GoodIs, NoneIs
  <1>2. KeyOf(x.ll[k], x) = k
    BY <1>1, GoodIs, KeyOfListed
  <1>3. NbrLookup(x.nbr[k].ip, x) = k
    BY <1>1, NbrLookupIs DEF Good, CacheGood
  <1>4. x.via[k] # <<>> => Uses("nbr_routes", k, x)
    BY <1>1 DEF Good, HopsGood
  <1>5. k = x.pref => Uses("rpl_parents", k, x)
    BY <1>1 DEF Good, ParentGood
  <1>6. x.via[k] # <<>> => IsNextHop(x.nbr[k].ip, x)
    BY <1>1, <1>2, <1>3, <1>4 DEF IsNextHop, GetFromLladdr
  <1>7. k = x.pref => GetFromLladdr("rpl_parents", x.ll[k], x) # NONE
    BY <1>1, <1>2, <1>5 DEF GetFromLladdr
  <1> QED BY <1>6, <1>7 DEF Children, Parents, Cached

\* rpl_nbr_policy_find_removable names no neighbour that is needed.
LEMMA FindRemovableVictim ==
  ASSUME NEW x, Good(x), NEW reason, NEW v \in FindRemovable(reason, x)
  PROVE  Victim(v, x)
  <1>1. x \in Tables /\ x.keys \in Seq(Key)
    BY GoodIs DEF Tables
  <1>2. v = NONE \/ v \in WorstRankNbr(x)
    BY DEF FindRemovable
  <1>3. ASSUME v \in WorstRankNbr(x)
        PROVE  v \in Cached(x) /\ v \notin Children(x) /\ v # x.pref
    <2> DEFINE unused == Items("ds6_neighbors", x) \ (Children(x) \cup Parents(x))
    <2>1. CASE unused # {}
      <3>1. v = LastIn(x.keys, unused)
        BY <1>3, <2>1 DEF WorstRankNbr
      <3>2. unused \subseteq ToSet(x.keys)
        BY DEF Items
      <3>3. v \in unused
        <4> HIDE DEF unused
        <4> QED BY <1>1, <2>1, <3>1, <3>2, LastInIs
      <3>4. v \in Cached(x) /\ v \notin Children(x) /\ v \notin Parents(x)
        BY <3>3 DEF Cached
      <3> QED BY <3>4, ChildrenParentsAre
    <2>2. CASE unused = {}
      <3>1. v \in Parents(x) /\ v \notin Children(x) /\ v # x.pref
        BY <1>3, <2>2 DEF WorstRankNbr
      <3> QED BY <3>1 DEF Parents, Cached
    <2> QED BY <2>1, <2>2
  <1>4. CASE v \in WorstRankNbr(x)
    <2>1. v \in Cached(x) /\ v \notin Children(x) /\ v # x.pref
      BY <1>3, <1>4
    <2>2. v \in OnKeys(x) /\ x.via[v] = <<>>
      BY <2>1, GoodIs, ChildrenParentsAre
    <2> QED BY <2>1, <2>2 DEF Victim
  <1> QED BY <1>2, <1>4 DEF Victim

\* rpl_icmp6_update_nbr_table
LEMMA UpdateNbrTableGood ==
  ASSUME NEW x, Good(x), NEW ip \in Ip, NEW l \in Ll, NEW v, Victim(v, x),
         NEW y, y = UpdateNbrTable(ip, l, v, x)
  PROVE  Good(y) /\ SameButKeys(x, y) /\ KeepsNeeded(x, y)
  <1>1. CASE NbrLookup(ip, x) = NONE
    <2>1. y = NbrAdd(ip, l, "REACHABLE", v, x) /\ "REACHABLE" \in NbrState /\ l \in Ll \cup {LinkaddrNull}
      BY <1>1 DEF UpdateNbrTable, NbrState
    <2> QED BY <1>1, <2>1, NbrAddGood
  <1>2. CASE NbrLookup(ip, x) # NONE
    <2>1. y = x
      BY <1>2 DEF UpdateNbrTable
    <2> QED BY <2>1 DEF SameButKeys, SameRoutes, KeepsNeeded
  <1> QED BY <1>1, <1>2

-----------------------------------------------------------------------------
(* Parents and routes of the DAG.                                          *)

\* Tables that differ in the dag pointers alone.
LEMMA DagIs ==
  ASSUME NEW x \in Tables, NEW v \in [Key -> BOOLEAN], NEW y, y = [x EXCEPT !.dag = v]
  PROVE  /\ y \in Tables /\ SameKeys(x, y) /\ SameBits(x, y) /\ SameRoutes(x, y)
         /\ y.nbr = x.nbr /\ y.root = x.root /\ y.pref = x.pref /\ y.dag = v
  BY DEF Tables, SameKeys, SameBits, SameRoutes

\* rpl_add_parent, for a neighbour that is in the cache.
LEMMA AddParentGood ==
  ASSUME NEW x, Good(x), NEW ip, NbrLookup(ip, x) # NONE, NEW y, y = AddParent(ip, x)
  PROVE  Good(y) /\ SameKeys(x, y) /\ SameRoutes(x, y) /\ y.pref = x.pref /\ y.nbr = x.nbr
  <1> DEFINE k == NbrLookup(ip, x)
             u == InitItem("rpl_parents", k, x)
             v == [u.dag EXCEPT ![k] = TRUE]
  <1>1. x \in Tables /\ k \in OnKeys(x) /\ k \in Key /\ k # NONE
    BY GoodIs, NbrLookupIs
  <1>2. KeyOf(x.ll[k], x) = k
    BY <1>1, GoodIs, KeyOfListed
  <1>3. y = [u EXCEPT !.dag[k] = TRUE]
    <2>1. AddLladdr("rpl_parents", x.ll[k], NONE, x) = [x |-> u, k |-> k]
      BY <1>1, <1>2 DEF AddLladdr
    <2> DEFINE b == AddLladdr("rpl_parents", x.ll[k], NONE, x)
    <2>2. y = [b.x EXCEPT !.dag[b.k] = TRUE]
      BY DEF AddParent
    <2>3. b.x = u /\ b.k = k
      BY <2>1
    <2> HIDE DEF b, u, k
    <2> QED BY <2>2, <2>3
  <1> HIDE DEF k
  <1>4. /\ u \in Tables /\ SameKeys(x, u) /\ SameRoutes(x, u)
        /\ u.nbr = x.nbr /\ u.locked = x.locked /\ SetIn(x.used, u.used, k, 0)
        /\ u.root = x.root /\ u.pref = x.pref /\ u.dag = [x.dag EXCEPT ![k] = FALSE]
    BY <1>1, InitParentIs
  <1> HIDE DEF u
  <1>5. y = [u EXCEPT !.dag = v] /\ v \in [Key -> BOOLEAN]
    BY <1>3, <1>4 DEF Tables
  <1>6. v[k] = TRUE /\ \A j \in Key : j # k => v[j] = x.dag[j]
    <2>1. x.dag \in [Key -> BOOLEAN]
      BY <1>1 DEF Tables
    <2> QED BY <1>1, <1>4, <2>1
  <1> HIDE DEF v
  <1>7. /\ y \in Tables /\ SameKeys(u, y) /\ SameBits(u, y) /\ SameRoutes(u, y)
        /\ y.nbr = u.nbr /\ y.root = u.root /\ y.pref = u.pref /\ y.dag = v
    <2>1. u \in Tables
      BY <1>4
    <2> QED BY <1>5, <2>1, DagIs
  <1>8. /\ SameKeys(x, y) /\ SameRoutes(x, y) /\ y.pref = x.pref /\ y.nbr = x.nbr
        /\ y.locked = x.locked /\ SetIn(x.used, y.used, k, 0)
    BY <1>4, <1>7 DEF SameKeys, SameRoutes, SameBits
  <1>9. OnKeys(y) = OnKeys(x) /\ OnList(y) = OnList(x) /\ OnKeys(x) \subseteq Key
    BY <1>8, GoodIs DEF OnKeys, OnList, SameKeys, SameRoutes
  <1>10. \A j \in Key : /\ j # k /\ x.used[j] = {} => y.used[j] = {}
                        /\ 0 \in y.used[j] <=> 0 \in x.used[j] \/ j = k
                        /\ 1 \in y.used[j] <=> 1 \in x.used[j]
                        /\ 2 \in y.used[j] <=> 2 \in x.used[j]
    <2>1. \A j \in Key : y.used[j] \subseteq Indexes
      BY <1>7 DEF Tables
    <2>2. \A j \in Key, i \in Indexes : i \in y.used[j] <=> i \in x.used[j] \/ (j = k /\ i = 0)
      BY <1>8 DEF SetIn
    <2>3. 0 \in Indexes /\ 1 \in Indexes /\ 2 \in Indexes
      BY IndexIs
    <2> QED BY <2>1, <2>2, <2>3
  <1>11. Cached(y) = Cached(x)
    BY <1>9, <1>10, IndexIs DEF Cached, Items, Uses, OnKeys
  <1>12. KeysGood(y)
    BY <1>1, <1>8, <1>9, <1>10 DEF Good, KeysGood, SameKeys, SameRoutes
  <1>13. ParentGood(y)
    BY <1>1, <1>6, <1>7, <1>8, <1>9, <1>10, IndexIs DEF Good, ParentGood, Uses
  <1>14. HopsGood(y)
    BY <1>8, <1>9, <1>10, IndexIs DEF Good, HopsGood, Uses, SameRoutes
  <1>15. CacheGood(y)
    BY <1>8, <1>11 DEF Good, CacheGood
  <1>16. RoutesGood(y)
    BY <1>8, <1>9 DEF Good, RoutesGood, SameRoutes
  <1> QED BY <1>7, <1>8, <1>12, <1>13, <1>14, <1>15, <1>16 DEF Good

\* rpl_set_preferred_parent, for a parent that best_parent may choose.
LEMMA SelectGood ==
  ASSUME NEW x, Good(x), NEW p \in Candidates(x) \cup {x.pref},
         NEW y, y = SetPreferredParent(p, x)
  PROVE  Good(y) /\ SameKeys(x, y)
  <1>1. p = NONE \/ (p \in OnKeys(x) /\ Uses("rpl_parents", p, x) /\ x.dag[p])
    BY DEF Good, ParentGood, Candidates, Items, OnKeys
  <1> QED BY <1>1, SetPreferredGood
-----------------------------------------------------------------------------
(* Leaving the DAG.                                                        *)

\* One turn of the loop of rpl_remove_routes, or of remove_parents.
FreeStep(what, x, n, y) ==
  IF what = "routes" THEN RouteRm(Head(y.list), y)
  ELSE IF Uses("rpl_parents", x.keys[n], y) /\ y.dag[x.keys[n]] THEN RemoveParent(x.keys[n], y)
  ELSE y

\* What is left after each turn of a loop of m turns.
Run(f, what, x, m) ==
  f = [n \in 0 .. m |-> IF n = 0 THEN x ELSE FreeStep(what, x, n, f[n - 1])]

\* Each loop runs for as many turns as wanted.
LEMMA RunExists ==
  ASSUME NEW what, NEW x, NEW m \in Nat
  PROVE  \E f : Run(f, what, x, m)
  <1> DEFINE T == {n \in Nat : ~\E f : Run(f, what, x, n)}
  <1>1. SUFFICES ASSUME T # {} PROVE FALSE
    OBVIOUS
  <1>2. T \in SUBSET Nat
    OBVIOUS
  <1>3. PICK n \in T : \A i \in T : n <= i
    <2> HIDE DEF T
    <2> QED BY <1>1, <1>2, NatLeast
  <1>4. n # 0
    <2> DEFINE f == [i \in 0 .. 0 |-> x]
    <2>1. f = [i \in 0 .. 0 |-> IF i = 0 THEN x ELSE FreeStep(what, x, i, f[i - 1])]
      OBVIOUS
    <2>2. Run(f, what, x, 0)
      BY <2>1 DEF Run
    <2> HIDE DEF f
    <2> QED BY <2>2
  <1>5. n - 1 \in Nat /\ n - 1 \notin T /\ n \in Nat
    BY <1>2, <1>3, <1>4
  <1>6. PICK f : Run(f, what, x, n - 1)
    BY <1>5
  <1> HIDE DEF T
  <1> DEFINE D == 0 .. n
             h == [i \in D |-> IF i = n THEN FreeStep(what, x, n, f[n - 1]) ELSE f[i]]
  <1>7. ASSUME NEW i \in D
        PROVE  h[i] = IF i = 0 THEN x ELSE FreeStep(what, x, i, h[i - 1])
    <2>1. f = [j \in 0 .. n - 1 |-> IF j = 0 THEN x ELSE FreeStep(what, x, j, f[j - 1])]
      BY <1>6 DEF Run
    <2>2. \A j \in 0 .. n - 1 : f[j] = IF j = 0 THEN x ELSE FreeStep(what, x, j, f[j - 1])
      BY <2>1
    <2>3. h[n] = FreeStep(what, x, n, f[n - 1]) /\ \A j \in 0 .. n - 1 : h[j] = f[j]
      BY <1>5
    <2> HIDE DEF h
    <2>4. CASE i = n
      BY <1>4, <1>5, <2>3, <2>4
    <2>5. CASE i = 0
      BY <1>4, <1>5, <2>2, <2>3, <2>5
    <2>6. CASE i # n /\ i # 0
      <3>1. i \in 0 .. n - 1 /\ i - 1 \in 0 .. n - 1
        BY <1>5, <2>6
      <3> QED BY <2>2, <2>3, <2>6, <3>1
    <2> QED BY <2>4, <2>5, <2>6
  <1>8. h = [i \in D |-> h[i]]
    OBVIOUS
  <1> HIDE DEF h
  <1>9. h = [i \in D |-> IF i = 0 THEN x ELSE FreeStep(what, x, i, h[i - 1])]
    BY <1>7, <1>8
  <1>10. Run(h, what, x, n)
    BY <1>9 DEF Run
  <1> QED BY <1>3, <1>10 DEF T

\* The turns of a run, one by one.
LEMMA RunIs ==
  ASSUME NEW f, NEW what, NEW x, NEW m \in Nat, Run(f, what, x, m)
  PROVE  f[0] = x /\ \A n \in 1 .. m : f[n] = FreeStep(what, x, n, f[n - 1])
  <1>1. f = [n \in 0 .. m |-> IF n = 0 THEN x ELSE FreeStep(what, x, n, f[n - 1])]
    BY DEF Run
  <1>2. \A n \in 0 .. m : f[n] = IF n = 0 THEN x ELSE FreeStep(what, x, n, f[n - 1])
    BY <1>1
  <1>3. 0 \in 0 .. m /\ \A n \in 1 .. m : n \in 0 .. m /\ n # 0
    OBVIOUS
  <1> QED BY <1>2, <1>3

\* rpl_remove_routes: each turn finds a route, and the list gets shorter.
LEMMA RemoveRoutesGood ==
  ASSUME NEW x, Good(x)
  PROVE  Good(RemoveRoutes(x)) /\ SameKeys(x, RemoveRoutes(x))
  <1> DEFINE m == Len(x.list)
             IsRun(f) == f = [n \in 0 .. m |-> IF n = 0 THEN x
                                               ELSE RouteRm(Head(f[n - 1].list), f[n - 1])]
             left == CHOOSE f : IsRun(f)
  <1>1. m \in Nat
    BY GoodIs DEF Tables
  <1>2. RemoveRoutes(x) = left[m]
    BY DEF RemoveRoutes
  <1>3. \A f : IsRun(f) <=> Run(f, "routes", x, m)
    BY DEF Run, FreeStep
  <1> HIDE DEF IsRun
  <1>4. IsRun(left)
    BY <1>1, <1>3, RunExists
  <1> HIDE DEF left, m
  <1>5. left[0] = x /\ \A n \in 1 .. m : left[n] = RouteRm(Head(left[n - 1].list), left[n - 1])
    BY <1>1, <1>3, <1>4, RunIs DEF FreeStep
  <1> DEFINE Ok(n) == Good(left[n]) /\ SameKeys(x, left[n]) /\ Len(left[n].list) = m - n
             T == {n \in 0 .. m : ~Ok(n)}
  <1>6. T = {}
    <2>1. SUFFICES ASSUME T # {} PROVE FALSE
      OBVIOUS
    <2>2. PICK n \in T : \A i \in T : n <= i
      <3>1. T \in SUBSET Nat
        BY <1>1
      <3> HIDE DEF T
      <3> QED BY <2>1, <3>1, NatLeast
    <2>3. n # 0
      BY <1>1, <1>5, <2>2 DEF SameKeys, m
    <2>4. n \in 1 .. m /\ n - 1 \in 0 .. m /\ Ok(n - 1)
      BY <1>1, <2>2, <2>3
    <2> DEFINE z == left[n - 1]
               r == Head(z.list)
    <2>5. Good(z) /\ SameKeys(x, z) /\ Len(z.list) = m - n + 1 /\ left[n] = RouteRm(r, z)
      BY <1>1, <1>5, <2>4
    <2> HIDE DEF z
    <2>6. r \in OnList(z)
      <3>1. z.list \in Seq(Route) /\ IsInjective(z.list)
        BY <2>5, GoodIs DEF Tables, RoutesGood
      <3>2. z.list # <<>>
        BY <1>1, <2>4, <2>5, <3>1
      <3> QED BY <3>1, <3>2, TailKeeps DEF OnList
    <2> HIDE DEF r
    <2>7. /\ Good(left[n]) /\ SameKeys(z, left[n])
          /\ Len(left[n].list) = Len(z.list) - 1
      BY <2>5, <2>6, RouteRmGood
    <2>8. Ok(n)
      BY <1>1, <2>4, <2>5, <2>7 DEF SameKeys
    <2> QED BY <2>2, <2>8
  <1>7. Ok(m)
    BY <1>1, <1>6
  <1> QED BY <1>2, <1>7

\* remove_parents: the keys stay where they are.
LEMMA RemoveParentsGood ==
  ASSUME NEW x, Good(x)
  PROVE  Good(RemoveParents(x)) /\ SameKeys(x, RemoveParents(x))
  <1> DEFINE m == Len(x.keys)
             IsRun(f) == f = [n \in 0 .. m |->
                                IF n = 0 THEN x
                                ELSE LET y == f[n - 1]
                                         k == x.keys[n]
                                     IN IF Uses("rpl_parents", k, y) /\ y.dag[k]
                                        THEN RemoveParent(k, y) ELSE y]
             left == CHOOSE f : IsRun(f)
  <1>1. m \in Nat /\ x.keys \in Seq(Key)
    BY GoodIs DEF Tables
  <1>2. RemoveParents(x) = left[m]
    BY DEF RemoveParents
  <1>3. \A f : IsRun(f) <=> Run(f, "parents", x, m)
    BY DEF Run, FreeStep
  <1> HIDE DEF IsRun
  <1>4. IsRun(left)
    BY <1>1, <1>3, RunExists
  <1> HIDE DEF left
  <1>5. /\ left[0] = x
        /\ \A n \in 1 .. m : \/ left[n] = left[n - 1]
                             \/ left[n] = RemoveParent(x.keys[n], left[n - 1])
    <2>1. left[0] = x /\ \A n \in 1 .. m : left[n] = FreeStep("parents", x, n, left[n - 1])
      <3> HIDE DEF m
      <3> QED BY <1>1, <1>3, <1>4, RunIs
    <2> QED BY <2>1 DEF FreeStep
  <1>6. \A n \in 1 .. m : x.keys[n] \in OnKeys(x)
    BY <1>1, ToSetIs DEF OnKeys
  <1> HIDE DEF m
  <1> DEFINE Ok(n) == Good(left[n]) /\ SameKeys(x, left[n])
             T == {n \in 0 .. m : ~Ok(n)}
  <1>7. T = {}
    <2>1. SUFFICES ASSUME T # {} PROVE FALSE
      OBVIOUS
    <2>2. PICK n \in T : \A i \in T : n <= i
      <3>1. T \in SUBSET Nat
        BY <1>1
      <3> HIDE DEF T
      <3> QED BY <2>1, <3>1, NatLeast
    <2>3. n # 0
      BY <1>5, <2>2 DEF SameKeys
    <2>4. n \in 1 .. m /\ n - 1 \in 0 .. m /\ Ok(n - 1)
      BY <1>1, <2>2, <2>3
    <2> DEFINE z == left[n - 1]
               k == x.keys[n]
    <2>5. Good(z) /\ SameKeys(x, z) /\ k \in OnKeys(x) /\ (left[n] = z \/ left[n] = RemoveParent(k, z))
      BY <1>5, <1>6, <2>4
    <2> HIDE DEF z, k
    <2>6. k \in OnKeys(z)
      BY <2>5 DEF OnKeys, SameKeys
    <2>7. CASE left[n] = z
      BY <2>2, <2>5, <2>7
    <2>8. CASE left[n] = RemoveParent(k, z)
      <3>1. Good(left[n]) /\ SameKeys(z, left[n])
        BY <2>5, <2>6, <2>8, RemoveParentGood
      <3>2. Ok(n)
        BY <2>5, <3>1 DEF SameKeys
      <3> QED BY <2>2, <3>2
    <2> QED BY <2>5, <2>7, <2>8
  <1>8. Ok(m)
    BY <1>1, <1>7
  <1> QED BY <1>2, <1>8

-----------------------------------------------------------------------------
(* A handler ends.                                                         *)

\* Forgetting what no code reads keeps what the invariants are about.
LEMMA SettleIs ==
  ASSUME NEW x, Good(x), NEW y, y = Settle(x)
  PROVE  /\ y \in Tables /\ y.keys = x.keys /\ y.mem = x.mem /\ y.used = x.used
         /\ y.list = x.list /\ y.rtMem = x.rtMem /\ y.nrMem = x.nrMem /\ y.num = x.num
         /\ y.via = x.via /\ y.root = x.root /\ y.pref = x.pref
         /\ \A k \in OnKeys(x) : /\ y.ll[k] = x.ll[k] /\ y.dag[k] = x.dag[k]
                                 /\ y.locked[k] = x.locked[k]
         /\ \A k \in Key \ OnKeys(x) : y.locked[k] = {}
         /\ \A k \in Cached(x) : y.nbr[k] = x.nbr[k]
         /\ \A r \in OnList(x) : y.rt[r] = x.rt[r]
  <1> DEFINE carries == {x.rt[r].nr : r \in OnList(x)}
             nbr == [k \in Key |-> IF Uses("ds6_neighbors", k, x) THEN x.nbr[k] ELSE NoNbr]
             rt  == [r \in Route |-> IF r \in OnList(x) THEN x.rt[r] ELSE NoRoute]
             ll  == [k \in Key |-> IF k \in OnKeys(x) \cup carries THEN x.ll[k] ELSE LinkaddrNull]
             dag == [k \in Key |-> k \in OnKeys(x) /\ x.dag[k]]
             locked == [k \in Key |-> IF k \in OnKeys(x) THEN x.locked[k] ELSE {}]
  <1>1. x \in Tables /\ OnKeys(x) \subseteq Key /\ OnList(x) \subseteq Route /\ Cached(x) \subseteq OnKeys(x)
    BY GoodIs
  <1>2. y = [x EXCEPT !.nbr = nbr, !.rt = rt, !.ll = ll, !.dag = dag, !.locked = locked]
    BY <1>1 DEF Settle, OnKeys, OnList, Tables
  <1>3. /\ nbr \in [Key -> [ip : Ip \cup {NONE}, state : NbrState]]
        /\ rt \in [Route -> [dest : Dest \cup {NONE}, nr : Key \cup {NONE}]]
        /\ ll \in [Key -> Ll \cup {LinkaddrNull}]
        /\ dag \in [Key -> BOOLEAN] /\ locked \in [Key -> SUBSET Indexes]
    <2>1. nbr \in [Key -> [ip : Ip \cup {NONE}, state : NbrState]]
      BY <1>1 DEF Tables, NoNbr, NbrState
    <2>2. rt \in [Route -> [dest : Dest \cup {NONE}, nr : Key \cup {NONE}]]
      BY <1>1 DEF Tables, NoRoute
    <2>3. ll \in [Key -> Ll \cup {LinkaddrNull}]
      BY <1>1 DEF Tables
    <2>4. dag \in [Key -> BOOLEAN] /\ locked \in [Key -> SUBSET Indexes]
      BY <1>1 DEF Tables
    <2> QED BY <2>1, <2>2, <2>3, <2>4
  <1>4. /\ \A k \in OnKeys(x) : ll[k] = x.ll[k] /\ dag[k] = x.dag[k] /\ locked[k] = x.locked[k]
        /\ \A k \in Key \ OnKeys(x) : locked[k] = {}
        /\ \A k \in Cached(x) : nbr[k] = x.nbr[k]
        /\ \A r \in OnList(x) : rt[r] = x.rt[r]
    <2>1. \A k \in OnKeys(x) : x.dag[k] \in BOOLEAN
      BY <1>1 DEF Tables
    <2>2. \A k \in Cached(x) : Uses("ds6_neighbors", k, x)
      BY DEF Cached, Items
    <2> QED BY <1>1, <2>1, <2>2
  <1> HIDE DEF nbr, rt, ll, dag, locked
  <1>5. /\ y \in Tables /\ y.keys = x.keys /\ y.mem = x.mem /\ y.used = x.used
        /\ y.list = x.list /\ y.rtMem = x.rtMem /\ y.nrMem = x.nrMem /\ y.num = x.num
        /\ y.via = x.via /\ y.root = x.root /\ y.pref = x.pref
        /\ y.nbr = nbr /\ y.rt = rt /\ y.ll = ll /\ y.dag = dag /\ y.locked = locked
    <2>1. x \in Tables
      BY <1>1
    <2>2. y \in Tables
      BY <1>2, <1>3, <2>1, ZenonT(60) DEF Tables
    <2>3. /\ y.keys = x.keys /\ y.mem = x.mem /\ y.used = x.used
          /\ y.list = x.list /\ y.rtMem = x.rtMem /\ y.nrMem = x.nrMem /\ y.num = x.num
          /\ y.via = x.via /\ y.root = x.root /\ y.pref = x.pref
          /\ y.nbr = nbr /\ y.rt = rt /\ y.ll = ll /\ y.dag = dag /\ y.locked = locked
      BY <1>2, <2>1 DEF Tables
    <2> QED BY <2>2, <2>3
  <1> QED BY <1>4, <1>5

\* So a handler that ends with good tables leaves good tables.
LEMMA SettleGood ==
  ASSUME NEW x, Good(x), NEW y, y = Settle(x)
  PROVE  Good(y) /\ OnKeys(y) = OnKeys(x) /\ Cached(y) = Cached(x)
  <1>1. /\ y \in Tables /\ y.keys = x.keys /\ y.mem = x.mem /\ y.used = x.used
        /\ y.list = x.list /\ y.rtMem = x.rtMem /\ y.nrMem = x.nrMem /\ y.num = x.num
        /\ y.via = x.via /\ y.root = x.root /\ y.pref = x.pref
        /\ \A k \in OnKeys(x) : /\ y.ll[k] = x.ll[k] /\ y.dag[k] = x.dag[k]
                                /\ y.locked[k] = x.locked[k]
        /\ \A k \in Key \ OnKeys(x) : y.locked[k] = {}
        /\ \A k \in Cached(x) : y.nbr[k] = x.nbr[k]
        /\ \A r \in OnList(x) : y.rt[r] = x.rt[r]
    BY SettleIs
  <1>2. OnKeys(y) = OnKeys(x) /\ OnList(y) = OnList(x) /\ Cached(y) = Cached(x)
    BY <1>1 DEF OnKeys, OnList, Cached, Items, Uses
  <1>3. KeysGood(y)
    <2>1. KeysGood(x)
      BY GoodIs
    <2> QED BY <1>1, <1>2, <2>1 DEF KeysGood
  <1>4. CacheGood(y)
    BY <1>1, <1>2 DEF Good, CacheGood
  <1>5. ParentGood(y)
    BY <1>1, <1>2 DEF Good, ParentGood, Uses
  <1>6. HopsGood(y)
    BY <1>1, <1>2 DEF Good, HopsGood, Uses
  <1>7. RoutesGood(y)
    <2>1. RoutesGood(x)
      BY GoodIs
    <2>2. \A k \in Key : {r \in OnList(y) : y.rt[r].nr = k} = {r \in OnList(x) : x.rt[r].nr = k}
      BY <1>1, <1>2
    <2>3. /\ \A q, r \in OnList(y) : y.rt[q].dest = y.rt[r].dest => q = r
          /\ \A r \in OnList(y) : y.rt[r].nr \in Key
      BY <1>1, <1>2, <2>1 DEF RoutesGood
    <2>4. \A k \in Key : IsInjective(y.via[k]) /\ ToSet(y.via[k]) = {r \in OnList(y) : y.rt[r].nr = k}
      BY <1>1, <2>1, <2>2 DEF RoutesGood
    <2>5. IsInjective(y.list) /\ OnList(y) = y.rtMem /\ y.num = Len(y.list) /\ y.nrMem = y.num
      BY <1>1, <1>2, <2>1 DEF RoutesGood
    <2> QED BY <2>3, <2>4, <2>5 DEF RoutesGood
  <1> QED BY <1>1, <1>2, <1>3, <1>4, <1>5, <1>6, <1>7 DEF Good

\* Before any packet the tables are empty.
LEMMA InitGood ==
  ASSUME Init
  PROVE  Good(s)
  <1>1. PICK root \in BOOLEAN :
          s = [root |-> root, keys |-> << >>, mem |-> {},
               ll |-> [k \in Key |-> LinkaddrNull],
               used |-> [k \in Key |-> {}], locked |-> [k \in Key |-> {}],
               nbr |-> [k \in Key |-> NoNbr],
               dag |-> [k \in Key |-> FALSE], pref |-> NONE,
               list |-> << >>, rt |-> [r \in Route |-> NoRoute],
               rtMem |-> {}, nrMem |-> 0, via |-> [k \in Key |-> << >>], num |-> 0]
    BY DEF Init
  <1>2. s \in Tables
    <2>1. [k \in Key |-> NoNbr] \in [Key -> [ip : Ip \cup {NONE}, state : NbrState]]
      BY DEF NoNbr, NbrState
    <2>2. [r \in Route |-> NoRoute] \in [Route -> [dest : Dest \cup {NONE}, nr : Key \cup {NONE}]]
      BY DEF NoRoute
    <2> QED BY <1>1, <2>1, <2>2 DEF Tables
  <1>3. OnKeys(s) = {} /\ OnList(s) = {} /\ Cached(s) = {} /\ ToSet(<<>>) = {}
    BY <1>1 DEF OnKeys, OnList, Cached, Items, ToSet
  <1>4. IsInjective(<<>>)
    BY DEF IsInjective
  <1>5. KeysGood(s) /\ CacheGood(s) /\ ParentGood(s) /\ HopsGood(s)
    BY <1>1, <1>3, <1>4 DEF KeysGood, CacheGood, ParentGood, HopsGood
  <1>6. RoutesGood(s)
    BY <1>1, <1>3, <1>4 DEF RoutesGood
  <1> QED BY <1>2, <1>5, <1>6 DEF Good

-----------------------------------------------------------------------------
(* The handlers.                                                           *)

\* Operations one after the other: what each leaves of the keys adds up.
LEMMA StaysThen ==
  ASSUME NEW x, NEW y, NEW z, Stays(x, y), SameButKeys(x, y), OnKeys(x) \subseteq Key,
         \A j \in Key : y.nbr[j].ip = x.nbr[j].ip, OnlyIdleEvicted(y, z)
  PROVE  OnlyIdleEvicted(x, z)
  BY DEF OnlyIdleEvicted, Stays, SameButKeys, SameRoutes

\* Sparing the needed keys is sparing the needed neighbours.
LEMMA KeepsIsIdle ==
  ASSUME NEW x, NEW y, KeepsNeeded(x, y)
  PROVE  OnlyIdleEvicted(x, y)
  BY DEF OnlyIdleEvicted, KeepsNeeded

\* An operation that leaves the keys alone evicts no one.
LEMMA KeepsThen ==
  ASSUME NEW x, NEW y, NEW z, KeepsNeeded(x, y), SameKeys(y, z)
  PROVE  KeepsNeeded(x, z)
  BY DEF KeepsNeeded, SameKeys, OnKeys

\* As does one alone.
LEMMA SameIsKept ==
  ASSUME NEW x, NEW y, SameKeys(x, y)
  PROVE  KeepsNeeded(x, y)
  BY DEF KeepsNeeded, SameKeys, OnKeys

\* A handler that found the sender in the cache moves or doubts its entry.
LEMMA EntryGood ==
  ASSUME NEW x, Good(x), NEW k \in Cached(x), NEW l \in Ll, NEW z,
         \/ z = x \/ z = SetState(k, "STALE", x)
         \/ z = UpdateLladdr(k, l, x) \/ z = SetState(k, "STALE", UpdateLladdr(k, l, x))
  PROVE  Good(z) /\ OnlyIdleEvicted(x, z)
  <1>1. k \in Key /\ "STALE" \in NbrState
    BY GoodIs DEF NbrState
  <1> DEFINE y == UpdateLladdr(k, l, x)
  <1>2. Good(y) /\ OnlyIdleEvicted(x, y) /\ y.nbr = x.nbr
    BY UpdateLladdrGood
  <1>3. CASE z = x
    BY <1>3, SameIsKept, KeepsIsIdle DEF SameKeys
  <1>4. CASE z = SetState(k, "STALE", x)
    BY <1>1, <1>4, SetStateGood, SameIsKept, KeepsIsIdle
  <1>5. CASE z = y
    BY <1>2, <1>5
  <1>6. CASE z = SetState(k, "STALE", y)
    <2> HIDE DEF y
    <2>1. /\ Good(z) /\ SameKeys(y, z) /\ SameBits(y, z)
          /\ \A j \in Key : z.nbr[j].ip = y.nbr[j].ip
      BY <1>1, <1>2, <1>6, SetStateGood
    <2>2. OnKeys(z) = OnKeys(y) /\ Cached(z) = Cached(y) /\ OnKeys(x) \subseteq Key /\ z.ll = y.ll
      BY <2>1, GoodIs DEF OnKeys, Cached, Items, Uses, SameKeys, SameBits
    <2>3. OnlyIdleEvicted(x, z)
      BY <1>2, <2>1, <2>2 DEF OnlyIdleEvicted
    <2> QED BY <2>1, <2>3
  <1> QED BY <1>3, <1>4, <1>5, <1>6

\* A handler ends with good tables and has evicted none that is needed.
Ends(z) == Good(z) /\ OnlyIdleEvicted(s, z) /\ Become(z)

\* What each handler that takes a packet starts with.
LEMMA ReceivedThen ==
  ASSUME Good(s), NEW ip, NEW l \in Ll, NEW u \in BOOLEAN, NEW x, x = Received(ip, l, u, s)
  PROVE  /\ Good(x) /\ \A z : OnlyIdleEvicted(x, z) => OnlyIdleEvicted(s, z)
         /\ OnlyIdleEvicted(s, x)
  <1>1. /\ Good(x) /\ Stays(s, x) /\ SameButKeys(s, x)
        /\ \A j \in Key : x.nbr[j].ip = s.nbr[j].ip
    BY ReceivedGood
  <1>2. OnKeys(s) \subseteq Key
    BY GoodIs
  <1>3. OnlyIdleEvicted(x, x)
    BY DEF OnlyIdleEvicted
  <1> QED BY <1>1, <1>2, <1>3, StaysThen

\* A neighbour solicitation.
LEMMA NsInputGood ==
  ASSUME Good(s), NEW ip \in Ip, NEW l \in Ll, NEW u \in BOOLEAN, NsInput(ip, l, u)
  PROVE  \E z : Ends(z)
  <1>1. PICK x : /\ x = Received(ip, l, u, s)
                 /\ LET k == NbrLookup(ip, x)
                    IN Become(
                         IF k = NONE THEN NbrAdd(ip, l, "STALE", NONE, x)
                         ELSE IF UpdateFails(k, l, x) THEN UpdateLladdr(k, l, x)
                         ELSE IF x.ll[k] # l THEN SetState(k, "STALE", UpdateLladdr(k, l, x))
                         ELSE IF x.nbr[k].state = "INCOMPLETE" THEN SetState(k, "STALE", x)
                         ELSE x)
    BY DEF NsInput
  <1> DEFINE k == NbrLookup(ip, x)
  <1>2. Good(x) /\ x \in Tables /\ \A z : OnlyIdleEvicted(x, z) => OnlyIdleEvicted(s, z)
    BY <1>1, ReceivedThen, GoodIs
  <1>3. PICK z : /\ Become(z)
                 /\ \/ k = NONE /\ z = NbrAdd(ip, l, "STALE", NONE, x)
                    \/ k # NONE /\ \/ z = x \/ z = SetState(k, "STALE", x)
                                   \/ z = UpdateLladdr(k, l, x)
                                   \/ z = SetState(k, "STALE", UpdateLladdr(k, l, x))
    <2> DEFINE e == IF k = NONE THEN NbrAdd(ip, l, "STALE", NONE, x)
                    ELSE IF UpdateFails(k, l, x) THEN UpdateLladdr(k, l, x)
                    ELSE IF x.ll[k] # l THEN SetState(k, "STALE", UpdateLladdr(k, l, x))
                    ELSE IF x.nbr[k].state = "INCOMPLETE" THEN SetState(k, "STALE", x)
                    ELSE x
    <2>1. Become(e)
      BY <1>1
    <2>2. \/ k = NONE /\ e = NbrAdd(ip, l, "STALE", NONE, x)
          \/ k # NONE /\ \/ e = x \/ e = SetState(k, "STALE", x)
                         \/ e = UpdateLladdr(k, l, x)
                         \/ e = SetState(k, "STALE", UpdateLladdr(k, l, x))
      OBVIOUS
    <2> HIDE DEF e
    <2> QED BY <2>1, <2>2
  <1>4. CASE k = NONE
    <2>1. z = NbrAdd(ip, l, "STALE", NONE, x) /\ "STALE" \in NbrState /\ l \in Ll \cup {LinkaddrNull}
      BY <1>3, <1>4 DEF NbrState
    <2>2. Good(z) /\ KeepsNeeded(x, z)
      BY <1>2, <1>4, <2>1, NbrAddGood DEF Victim
    <2> QED BY <1>2, <1>3, <2>2, KeepsIsIdle DEF Ends
  <1>5. CASE k # NONE
    <2>1. k \in Cached(x)
      BY <1>2, <1>5, NbrLookupIs
    <2> HIDE DEF k
    <2>2. Good(z) /\ OnlyIdleEvicted(x, z)
      BY <1>2, <1>3, <1>5, <2>1, EntryGood
    <2> QED BY <1>2, <1>3, <2>2 DEF Ends
  <1> QED BY <1>4, <1>5

\* A neighbour advertisement.
LEMMA NaInputGood ==
  ASSUME Good(s), NEW ip \in Ip, NEW l \in Ll, NEW u \in BOOLEAN, NEW o \in BOOLEAN,
         NaInput(ip, l, u, o)
  PROVE  \E z : Ends(z)
  <1>1. PICK x : /\ x = Received(ip, l, u, s)
                 /\ LET k == NbrLookup(ip, x)
                        change == x.ll[k] # l
                        state  == x.nbr[k].state
                    IN Become(
                         IF k = NONE THEN x
                         ELSE IF state = "INCOMPLETE"
                         THEN IF UpdateFails(k, l, x) \/ u THEN UpdateLladdr(k, l, x)
                              ELSE SetState(k, "STALE", UpdateLladdr(k, l, x))
                         ELSE IF change /\ o THEN UpdateLladdr(k, l, x)
                         ELSE IF change /\ state = "REACHABLE" THEN SetState(k, "STALE", x)
                         ELSE x)
    BY DEF NaInput
  <1> DEFINE k == NbrLookup(ip, x)
  <1>2. /\ Good(x) /\ x \in Tables /\ \A z : OnlyIdleEvicted(x, z) => OnlyIdleEvicted(s, z)
        /\ OnlyIdleEvicted(s, x)
    BY <1>1, ReceivedThen, GoodIs
  <1>3. PICK z : /\ Become(z)
                 /\ \/ z = x
                    \/ k # NONE /\ \/ z = SetState(k, "STALE", x)
                                   \/ z = UpdateLladdr(k, l, x)
                                   \/ z = SetState(k, "STALE", UpdateLladdr(k, l, x))
    <2> DEFINE e == IF k = NONE THEN x
                    ELSE IF x.nbr[k].state = "INCOMPLETE"
                    THEN IF UpdateFails(k, l, x) \/ u THEN UpdateLladdr(k, l, x)
                         ELSE SetState(k, "STALE", UpdateLladdr(k, l, x))
                    ELSE IF x.ll[k] # l /\ o THEN UpdateLladdr(k, l, x)
                    ELSE IF x.ll[k] # l /\ x.nbr[k].state = "REACHABLE" THEN SetState(k, "STALE", x)
                    ELSE x
    <2>1. Become(e)
      BY <1>1
    <2>2. \/ e = x
          \/ k # NONE /\ \/ e = SetState(k, "STALE", x)
                         \/ e = UpdateLladdr(k, l, x)
                         \/ e = SetState(k, "STALE", UpdateLladdr(k, l, x))
      OBVIOUS
    <2> HIDE DEF e
    <2> QED BY <2>1, <2>2
  <1>4. CASE z = x
    BY <1>2, <1>3, <1>4 DEF Ends
  <1>5. CASE k # NONE
    <2>1. k \in Cached(x)
      BY <1>2, <1>5, NbrLookupIs
    <2> HIDE DEF k
    <2>2. Good(z) /\ OnlyIdleEvicted(x, z)
      BY <1>2, <1>3, <1>5, <2>1, EntryGood
    <2> QED BY <1>2, <1>3, <2>2 DEF Ends
  <1> QED BY <1>3, <1>4, <1>5

\* A router solicitation: an entry that has moved is removed and added again.
LEMMA RsInputGood ==
  ASSUME Good(s), NEW ip \in Ip, NEW l \in Ll, RsInput(ip, l)
  PROVE  \E z : Ends(z)
  <1>1. PICK x : /\ x = Received(ip, l, FALSE, s)
                 /\ LET k == NbrLookup(ip, x)
                    IN Become(
                         IF k = NONE THEN NbrAdd(ip, l, "STALE", NONE, x)
                         ELSE IF x.ll[k] # l
                         THEN NbrAdd(ip, l, "STALE", NONE, TableRemove("ds6_neighbors", k, x))
                         ELSE x)
    BY DEF RsInput
  <1> DEFINE k == NbrLookup(ip, x)
             w == TableRemove("ds6_neighbors", k, x)
  <1>2. /\ Good(x) /\ x \in Tables /\ \A z : OnlyIdleEvicted(x, z) => OnlyIdleEvicted(s, z)
        /\ OnlyIdleEvicted(s, x)
    BY <1>1, ReceivedThen, GoodIs
  <1>3. PICK z : /\ Become(z)
                 /\ \/ z = x
                    \/ k = NONE /\ z = NbrAdd(ip, l, "STALE", NONE, x)
                    \/ k # NONE /\ z = NbrAdd(ip, l, "STALE", NONE, w)
    <2> DEFINE e == IF k = NONE THEN NbrAdd(ip, l, "STALE", NONE, x)
                    ELSE IF x.ll[k] # l
                    THEN NbrAdd(ip, l, "STALE", NONE, TableRemove("ds6_neighbors", k, x))
                    ELSE x
    <2>1. Become(e)
      BY <1>1
    <2>2. \/ e = x
          \/ k = NONE /\ e = NbrAdd(ip, l, "STALE", NONE, x)
          \/ k # NONE /\ e = NbrAdd(ip, l, "STALE", NONE, w)
      OBVIOUS
    <2> HIDE DEF e
    <2> QED BY <2>1, <2>2
  <1>4. "STALE" \in NbrState /\ l \in Ll \cup {LinkaddrNull}
    BY DEF NbrState
  <1>5. CASE z = x
    BY <1>2, <1>3, <1>5 DEF Ends
  <1>6. CASE k = NONE /\ z = NbrAdd(ip, l, "STALE", NONE, x)
    <2>1. Good(z) /\ KeepsNeeded(x, z)
      BY <1>2, <1>4, <1>6, NbrAddGood DEF Victim
    <2> QED BY <1>2, <1>3, <2>1, KeepsIsIdle DEF Ends
  <1>7. CASE k # NONE /\ z = NbrAdd(ip, l, "STALE", NONE, w)
    <2>1. k \in OnKeys(x) /\ k \in Cached(x) /\ x.nbr[k].ip = ip
      BY <1>2, <1>7, NbrLookupIs
    <2>2. /\ Good(w) /\ SameKeys(x, w) /\ SameParents(x, w) /\ SameRoutes(x, w) /\ w.nbr = x.nbr
          /\ Cached(w) = Cached(x) \ {k}
      <3> HIDE DEF k
      <3> QED BY <1>2, <2>1, CacheRemoveGood
    <2>3. NbrLookup(ip, w) = NONE
      <3>1. \A j \in Cached(w) : w.nbr[j].ip # ip
        BY <1>2, <2>1, <2>2 DEF Good, CacheGood
      <3> QED BY <2>2, <3>1, GoodIs, NbrLookupIs
    <2> HIDE DEF w
    <2>4. Good(z) /\ KeepsNeeded(w, z)
      BY <1>4, <1>7, <2>2, <2>3, NbrAddGood DEF Victim
    <2>5. KeepsNeeded(x, z)
      BY <2>2, <2>4 DEF KeepsNeeded, SameKeys, SameParents, SameRoutes, OnKeys
    <2> QED BY <1>2, <1>3, <2>4, <2>5, KeepsIsIdle DEF Ends
  <1> QED BY <1>3, <1>5, <1>6, <1>7

\* The timer of a neighbour.
LEMMA NeighborPeriodicGood ==
  ASSUME Good(s), NEW k \in Key, NeighborPeriodic(k)
  PROVE  \E z : Ends(z)
  <1>1. k \in Cached(s) /\ k \in OnKeys(s)
    BY GoodIs DEF NeighborPeriodic, Cached
  <1> DEFINE z == IF s.nbr[k].state = "REACHABLE" THEN SetState(k, "STALE", s)
                  ELSE TableRemove("ds6_neighbors", k, s)
  <1>2. Become(z)
    BY DEF NeighborPeriodic
  <1>3. z = SetState(k, "STALE", s) \/ z = TableRemove("ds6_neighbors", k, s)
    OBVIOUS
  <1> HIDE DEF z
  <1>4. Good(z) /\ SameKeys(s, z)
    BY <1>1, <1>3, SetStateGood, CacheRemoveGood DEF NbrState
  <1> QED BY <1>2, <1>4, SameIsKept, KeepsIsIdle DEF Ends

\* A frame was acknowledged.
LEMMA LinkAcknowledgedGood ==
  ASSUME Good(s), NEW l \in Ll, LinkAcknowledged(l)
  PROVE  \E z : Ends(z)
  <1>1. PICK x : /\ x = LinkStats(l, s)
                 /\ LET k == GetFromLladdr("ds6_neighbors", l, x)
                    IN Become(IF k # NONE /\ x.nbr[k].state # "INCOMPLETE"
                              THEN SetState(k, "REACHABLE", x) ELSE x)
    BY DEF LinkAcknowledged
  <1> DEFINE k == GetFromLladdr("ds6_neighbors", l, x)
             z == IF k # NONE /\ x.nbr[k].state # "INCOMPLETE" THEN SetState(k, "REACHABLE", x) ELSE x
  <1>2. /\ Good(x) /\ Stays(s, x) /\ SameButKeys(s, x) /\ x.nbr = s.nbr /\ OnKeys(s) \subseteq Key
    BY <1>1, LinkStatsGood, GoodIs
  <1>3. Become(z) /\ (z = x \/ (k # NONE /\ z = SetState(k, "REACHABLE", x)))
    BY <1>1
  <1>4. k # NONE => k \in Key
    BY <1>2, GoodIs, KeyOfIs DEF GetFromLladdr
  <1> HIDE DEF k, z
  <1>5. Good(z) /\ SameKeys(x, z)
    <2>1. CASE z = x
      BY <1>2, <2>1 DEF SameKeys
    <2>2. CASE k # NONE /\ z = SetState(k, "REACHABLE", x)
      BY <1>2, <1>4, <2>2, SetStateGood DEF NbrState
    <2> QED BY <1>3, <2>1, <2>2
  <1>6. OnlyIdleEvicted(s, z)
    BY <1>2, <1>5, SameIsKept, KeepsIsIdle, StaysThen
  <1> QED BY <1>3, <1>5, <1>6 DEF Ends

\* A packet for a neighbour that is not in the cache.
LEMMA OutputUnknownGood ==
  ASSUME Good(s), NEW ip \in Ip, OutputUnknown(ip)
  PROVE  \E z : Ends(z)
  <1> DEFINE z == NbrAdd(ip, LinkaddrNull, "INCOMPLETE", NONE, s)
  <1>1. NbrLookup(ip, s) = NONE /\ Become(z) /\ "INCOMPLETE" \in NbrState
    BY DEF OutputUnknown, NbrState
  <1>2. Good(z) /\ KeepsNeeded(s, z)
    BY <1>1, NbrAddGood DEF Victim
  <1> QED BY <1>1, <1>2, KeepsIsIdle DEF Ends

\* A packet for a destination behind a route, which may have lost its next hop.
LEMMA OutputRoutedGood ==
  ASSUME Good(s), NEW d, OutputRouted(d)
  PROVE  \E z : Ends(z)
  <1>1. PICK x : /\ x = Lookup(d, s)
                 /\ LET r == RouteOf(d, x)
                    IN /\ r # NONE
                       /\ Become(IF NextHop(r, x) = NONE THEN RouteRm(r, x) ELSE x)
    BY DEF OutputRouted
  <1> DEFINE r == RouteOf(d, x)
             z == IF NextHop(r, x) = NONE THEN RouteRm(r, x) ELSE x
  <1>2. Good(x) /\ SameKeys(s, x)
    BY <1>1, LookupGood
  <1>3. Become(z) /\ (z = x \/ z = RouteRm(r, x)) /\ r # NONE
    BY <1>1
  <1>4. r \in OnList(x)
    BY <1>2, <1>3, GoodIs, RouteOfIs
  <1> HIDE DEF r, z
  <1>5. Good(z) /\ SameKeys(x, z)
    BY <1>2, <1>3, <1>4, RouteRmGood DEF SameKeys
  <1>6. SameKeys(s, z)
    BY <1>2, <1>5 DEF SameKeys
  <1> QED BY <1>3, <1>5, <1>6, SameIsKept, KeepsIsIdle DEF Ends

\* A DIS, for which a neighbour may be evicted.
LEMMA DisInputGood ==
  ASSUME Good(s), NEW ip \in Ip, NEW l \in Ll, DisInput(ip, l)
  PROVE  \E z : Ends(z)
  <1>1. PICK x : /\ x = Received(ip, l, TRUE, s)
                 /\ \E v \in FindRemovable("RPL_DIS", x) : Become(UpdateNbrTable(ip, l, v, x))
    BY DEF DisInput
  <1>2. PICK v \in FindRemovable("RPL_DIS", x) : Become(UpdateNbrTable(ip, l, v, x))
    BY <1>1
  <1> DEFINE z == UpdateNbrTable(ip, l, v, x)
  <1>3. Good(x) /\ \A y : OnlyIdleEvicted(x, y) => OnlyIdleEvicted(s, y)
    BY <1>1, ReceivedThen
  <1>4. Good(z) /\ KeepsNeeded(x, z)
    BY <1>2, <1>3, FindRemovableVictim, UpdateNbrTableGood
  <1> QED BY <1>2, <1>3, <1>4, KeepsIsIdle DEF Ends

\* A DAO that is dropped.
LEMMA DaoLoopGood ==
  ASSUME Good(s), NEW ip \in Ip, NEW l \in Ll, DaoLoop(ip, l)
  PROVE  \E z : Ends(z)
  <1>1. PICK x : x = Received(ip, l, TRUE, s) /\ Become(x)
    BY DEF DaoLoop
  <1>2. Good(x) /\ OnlyIdleEvicted(s, x)
    BY <1>1, ReceivedThen
  <1> QED BY <1>1, <1>2 DEF Ends

\* A DAO, for which a neighbour may be evicted, and its route.
LEMMA DaoInputGood ==
  ASSUME Good(s), NEW ip \in Ip, NEW l \in Ll, NEW d \in Dest, DaoInput(ip, l, d)
  PROVE  \E z : Ends(z)
  <1> DEFINE y == Received(ip, l, TRUE, s)
  <1>1. PICK x : /\ x = Lookup(d, y)
                 /\ \E v \in FindRemovable("RPL_DAO", x) :
                      Become(RouteAdd(d, ip, UpdateNbrTable(ip, l, v, x)))
    BY DEF DaoInput
  <1>2. Good(y) /\ \A z : OnlyIdleEvicted(y, z) => OnlyIdleEvicted(s, z)
    BY ReceivedThen
  <1> HIDE DEF y
  <1>3. Good(x) /\ SameKeys(y, x) /\ SameParents(y, x) /\ x.via = y.via
    BY <1>1, <1>2, LookupGood
  <1>4. PICK v \in FindRemovable("RPL_DAO", x) :
               Become(RouteAdd(d, ip, UpdateNbrTable(ip, l, v, x)))
    BY <1>1
  <1> DEFINE w == UpdateNbrTable(ip, l, v, x)
             z == RouteAdd(d, ip, w)
  <1>5. Good(w) /\ KeepsNeeded(x, w)
    BY <1>3, <1>4, FindRemovableVictim, UpdateNbrTableGood
  <1>6. Become(z)
    BY <1>4
  <1> HIDE DEF w
  <1>7. Good(z) /\ SameKeys(w, z)
    BY <1>5, RouteAddGood
  <1> HIDE DEF z
  <1>8. KeepsNeeded(x, z)
    BY <1>5, <1>7, KeepsThen
  <1>9. KeepsNeeded(y, z)
    BY <1>3, <1>8 DEF KeepsNeeded, SameKeys, SameParents, OnKeys
  <1> QED BY <1>2, <1>6, <1>7, <1>9, KeepsIsIdle DEF Ends

\* The sender of a DIO becomes a parent, and a parent is chosen.
LEMMA SelectParentGood ==
  ASSUME NEW x, Good(x), NEW ip, NbrLookup(ip, x) # NONE, SelectParent(ip, x)
  PROVE  \E z : Good(z) /\ SameKeys(x, z) /\ Become(z)
  <1>1. PICK y : /\ y = IF FindParent(ip, x) # NONE THEN x ELSE AddParent(ip, x)
                 /\ \E p \in Candidates(y) \cup {y.pref} : Become(SetPreferredParent(p, y))
    BY DEF SelectParent
  <1>2. PICK p \in Candidates(y) \cup {y.pref} : Become(SetPreferredParent(p, y))
    BY <1>1
  <1>3. y = x \/ y = AddParent(ip, x)
    BY <1>1
  <1>4. Good(y) /\ SameKeys(x, y)
    BY <1>3, AddParentGood DEF SameKeys
  <1> DEFINE z == SetPreferredParent(p, y)
  <1>5. Good(z) /\ SameKeys(y, z)
    BY <1>2, <1>4, SelectGood
  <1>6. SameKeys(x, z)
    BY <1>4, <1>5 DEF SameKeys
  <1> QED BY <1>2, <1>5, <1>6

\* A DIO, for which a neighbour may be evicted, and the parent it may bring.
LEMMA DioInputGood ==
  ASSUME Good(s), NEW ip \in Ip, NEW l \in Ll, NEW u \in BOOLEAN, DioInput(ip, l, u)
  PROVE  \E z : Ends(z)
  <1>1. PICK x : /\ x = Received(ip, l, u, s)
                 /\ \E v \in FindRemovable("RPL_DIO", x) :
                    \E y \in {UpdateNbrTable(ip, l, v, x)} :
                       IF y.root \/ NbrLookup(ip, y) = NONE THEN Become(y) ELSE SelectParent(ip, y)
    BY DEF DioInput
  <1>2. PICK v \in FindRemovable("RPL_DIO", x) :
               \E y \in {UpdateNbrTable(ip, l, v, x)} :
                  IF y.root \/ NbrLookup(ip, y) = NONE THEN Become(y) ELSE SelectParent(ip, y)
    BY <1>1
  <1> DEFINE y == UpdateNbrTable(ip, l, v, x)
  <1>3. Good(x) /\ \A z : OnlyIdleEvicted(x, z) => OnlyIdleEvicted(s, z)
    BY <1>1, ReceivedThen
  <1>4. Good(y) /\ KeepsNeeded(x, y)
    BY <1>2, <1>3, FindRemovableVictim, UpdateNbrTableGood
  <1>5. Become(y) \/ (NbrLookup(ip, y) # NONE /\ SelectParent(ip, y))
    BY <1>2
  <1> HIDE DEF y
  <1>6. PICK z : Good(z) /\ SameKeys(y, z) /\ Become(z)
    <2>1. CASE Become(y)
      BY <1>4, <2>1 DEF SameKeys
    <2>2. CASE NbrLookup(ip, y) # NONE /\ SelectParent(ip, y)
      BY <1>4, <2>2, SelectParentGood
    <2> QED BY <1>5, <2>1, <2>2
  <1>7. KeepsNeeded(x, z)
    BY <1>4, <1>6, KeepsThen
  <1> QED BY <1>3, <1>6, <1>7, KeepsIsIdle DEF Ends

\* The ranks of the parents have changed.
LEMMA RecalculateRanksGood ==
  ASSUME Good(s), RecalculateRanks
  PROVE  \E z : Ends(z)
  <1>1. PICK p \in Candidates(s) : Become(SetPreferredParent(p, s))
    BY DEF RecalculateRanks
  <1> DEFINE z == SetPreferredParent(p, s)
  <1>2. Good(z) /\ SameKeys(s, z)
    BY SelectGood
  <1> QED BY <1>1, <1>2, SameIsKept, KeepsIsIdle DEF Ends

\* The DAG is left: its routes go, then its parents.
LEMMA FreeDagGood ==
  ASSUME Good(s), FreeDag
  PROVE  \E z : Ends(z)
  <1> DEFINE y == RemoveRoutes(s)
             z == RemoveParents(y)
  <1>1. Become(z)
    BY DEF FreeDag
  <1>2. Good(y) /\ SameKeys(s, y)
    BY RemoveRoutesGood
  <1>3. Good(z) /\ SameKeys(y, z)
    <2> HIDE DEF y
    <2> QED BY <1>2, RemoveParentsGood
  <1>4. SameKeys(s, z)
    BY <1>2, <1>3 DEF SameKeys
  <1> QED BY <1>1, <1>3, <1>4, SameIsKept, KeepsIsIdle DEF Ends

\* A route is purged or refused.
LEMMA RouteExpiresGood ==
  ASSUME Good(s), NEW r, RouteExpires(r)
  PROVE  \E z : Ends(z)
  <1> DEFINE z == RouteRm(r, s)
  <1>1. r \in OnList(s) /\ Become(z)
    BY DEF RouteExpires, OnList
  <1>2. Good(z) /\ SameKeys(s, z)
    BY <1>1, RouteRmGood
  <1> QED BY <1>1, <1>2, SameIsKept, KeepsIsIdle DEF Ends

\* Each action is one handler.
LEMMA NextEnds ==
  ASSUME Good(s), Next
  PROVE  \E z : Ends(z)
  <1>1. \A n \in Speaks : n[1] \in Ip /\ n[2] \in Ll
    BY Ds6Assumption
  <1>2. CASE \E n \in Speaks, u \in BOOLEAN : NsInput(n[1], n[2], u)
    BY <1>1, <1>2, NsInputGood
  <1>3. CASE \E n \in Speaks, u, o \in BOOLEAN : NaInput(n[1], n[2], u, o)
    BY <1>1, <1>3, NaInputGood
  <1>4. CASE \E n \in Speaks : RsInput(n[1], n[2])
    BY <1>1, <1>4, RsInputGood
  <1>5. CASE \E k \in Key : NeighborPeriodic(k)
    BY <1>5, NeighborPeriodicGood
  <1>6. CASE \E l \in Ll : LinkAcknowledged(l)
    BY <1>6, LinkAcknowledgedGood
  <1>7. CASE \E ip \in Ip : OutputUnknown(ip)
    BY <1>7, OutputUnknownGood
  <1>8. CASE \E d \in Dest : OutputRouted(d)
    BY <1>8, OutputRoutedGood
  <1>9. CASE \E n \in Speaks : DisInput(n[1], n[2])
    BY <1>1, <1>9, DisInputGood
  <1>10. CASE \E n \in Speaks : DaoLoop(n[1], n[2])
    BY <1>1, <1>10, DaoLoopGood
  <1>11. CASE \E n \in Speaks, d \in Dest : DaoInput(n[1], n[2], d)
    BY <1>1, <1>11, DaoInputGood
  <1>12. CASE \E n \in Speaks, u \in BOOLEAN : DioInput(n[1], n[2], u)
    BY <1>1, <1>12, DioInputGood
  <1>13. CASE RecalculateRanks
    BY <1>13, RecalculateRanksGood
  <1>14. CASE FreeDag
    BY <1>14, FreeDagGood
  <1>15. CASE \E r \in Route : RouteExpires(r)
    BY <1>15, RouteExpiresGood
  <1> QED BY <1>2, <1>3, <1>4, <1>5, <1>6, <1>7, <1>8, <1>9, <1>10, <1>11, <1>12, <1>13,
             <1>14, <1>15 DEF Next

-----------------------------------------------------------------------------
(* The theorems.                                                           *)

Ds6Inv == Good(s)

\* A step, or a stutter, keeps the invariant.
LEMMA StepGood ==
  ASSUME Ds6Inv, [Next]_s
  PROVE  Ds6Inv'
  <1>1. CASE Next
    <2>1. PICK z : Good(z) /\ s' = Settle(z)
      BY <1>1, NextEnds DEF Ds6Inv, Ends, Become
    <2>2. Good(s')
      BY <2>1, SettleGood
    <2> QED BY <2>2 DEF Ds6Inv
  <1>2. CASE s' = s
    BY <1>2 DEF Ds6Inv
  <1> QED BY <1>1, <1>2

\* The tables agree in every state: one key for each address, one entry for
\* each IPv6 address, the preferred parent locked, every route on one list and
\* counted, whatever the handlers of ND, RPL, routes and link statistics do.
THEOREM TablesAgree == Spec => []Ds6Inv
  <1>1. Init => Ds6Inv
    BY InitGood DEF Ds6Inv
  <1>2. Ds6Inv /\ [Next]_s => Ds6Inv'
    BY StepGood
  <1> QED BY <1>1, <1>2, PTL DEF Spec

\* As many elements as the set it takes them from bound a list without
\* repetition.
LEMMA ListBounded ==
  ASSUME NEW n \in Nat, NEW q \in Seq(1 .. n), IsInjective(q)
  PROVE  q \in SeqOf(1 .. n, n) /\ Len(q) \in 0 .. n
  <1>1. IsFiniteSet(1 .. n) /\ Cardinality(1 .. n) = n
    BY FS_Interval
  <1>2. ToSet(q) \subseteq 1 .. n
    BY ToSetIs
  <1>3. Len(q) = Cardinality(ToSet(q)) /\ IsFiniteSet(ToSet(q))
    BY InjectiveLen
  <1>4. Cardinality(ToSet(q)) <= n
    BY <1>1, <1>2, FS_Subset
  <1>5. Len(q) \in 0 .. n /\ q \in [1 .. Len(q) -> 1 .. n]
    BY <1>3, <1>4
  <1> QED BY <1>5 DEF SeqOf

\* The tables hold addresses, keys, routes and table indexes, and no list or
\* counter exceeds its array.
THEOREM TypeCorrect == Spec => []TypeOK
  <1>1. ASSUME Ds6Inv
        PROVE  TypeOK
    <2>1. s \in Tables /\ KeysGood(s) /\ RoutesGood(s)
      BY <1>1 DEF Ds6Inv, Good
    <2>2. NBR_TABLE_MAX_NEIGHBORS \in Nat /\ UIP_DS6_ROUTE_NB \in Nat
      BY Ds6Assumption
    <2>3. s.keys \in SeqOf(Key, NBR_TABLE_MAX_NEIGHBORS)
      <3>1. s.keys \in Seq(Key) /\ IsInjective(s.keys)
        BY <2>1 DEF Tables, KeysGood
      <3> QED BY <2>2, <3>1, ListBounded DEF Key
    <2>4. s.list \in SeqOf(Route, UIP_DS6_ROUTE_NB) /\ Len(s.list) \in 0 .. UIP_DS6_ROUTE_NB
      <3>1. s.list \in Seq(Route) /\ IsInjective(s.list)
        BY <2>1 DEF Tables, RoutesGood
      <3> QED BY <2>2, <3>1, ListBounded DEF Route
    <2>5. s.via \in [Key -> SeqOf(Route, UIP_DS6_ROUTE_NB)]
      <3>1. s.via \in [Key -> Seq(Route)]
        BY <2>1 DEF Tables
      <3>2. \A k \in Key : s.via[k] \in Seq(Route) /\ IsInjective(s.via[k])
        BY <2>1, <3>1 DEF RoutesGood
      <3>3. \A k \in Key : s.via[k] \in SeqOf(Route, UIP_DS6_ROUTE_NB)
        BY <2>2, <3>2, ListBounded DEF Route
      <3> QED BY <3>1, <3>3
    <2>6. s.num \in 0 .. UIP_DS6_ROUTE_NB /\ s.nrMem \in 0 .. UIP_DS6_ROUTE_NB
      BY <2>1, <2>4 DEF RoutesGood
    <2>7. /\ s.mem \subseteq Key
          /\ s.ll \in [Key -> Ll \cup {LinkaddrNull}]
          /\ s.used \in [Key -> SUBSET Indexes] /\ s.locked \in [Key -> SUBSET Indexes]
          /\ s.nbr \in [Key -> [ip : Ip \cup {NONE}, state : NbrState]]
          /\ s.dag \in [Key -> BOOLEAN] /\ s.pref \in Key \cup {NONE}
          /\ s.rt \in [Route -> [dest : Dest \cup {NONE}, nr : Key \cup {NONE}]]
          /\ s.rtMem \subseteq Route
      BY <2>1 DEF Tables
    <2> QED BY <2>3, <2>4, <2>5, <2>6, <2>7 DEF TypeOK
  <1> QED BY <1>1, TablesAgree, PTL

\* A link-layer address has one key and an IPv6 address one cache entry.
THEOREM AddressesAreUnique == Spec => []OneEntryPerAddress
  <1>1. Ds6Inv => OneEntryPerAddress
    BY DEF Ds6Inv, Good, KeysGood, CacheGood, OneEntryPerAddress, Listed, OnKeys, Cached
  <1> QED BY <1>1, TablesAgree, PTL

\* The preferred parent is in use, locked, and alone so.
THEOREM ParentIsLocked == Spec => []PreferredLocked
  <1>1. Ds6Inv => PreferredLocked
    BY DEF Ds6Inv, Good, ParentGood, PreferredLocked, Listed, OnKeys
  <1> QED BY <1>1, TablesAgree, PTL

\* The counts of routes agree, and each route is on its neighbour's list.
THEOREM RoutesAreLinked == Spec => []RoutesLinked
  <1>1. Ds6Inv => RoutesLinked
    BY DEF Ds6Inv, Good, RoutesGood, RoutesLinked, Routed, OnList
  <1> QED BY <1>1, TablesAgree, PTL

\* A next hop that is in the table stays in use for routes, and locked.
THEOREM HopsAreLocked == Spec => []NextHopLocked
  <1>1. Ds6Inv => NextHopLocked
    BY DEF Ds6Inv, Good, HopsGood, NextHopLocked, Listed, OnKeys
  <1> QED BY <1>1, TablesAgree, PTL

\* No step gives the key of the preferred parent or of a next hop to another
\* neighbour.
THEOREM EvictionSparesNeeded == Spec => EvictsOnlyIdle
  <1> DEFINE Spares == \A k \in Listed :
               s'.ll[k] # s.ll[k] /\ s'.nbr[k].ip # s.nbr[k].ip /\ k \in ToSet(s'.keys)
                 => k # s.pref /\ s.via[k] = << >>
  <1>1. Ds6Inv /\ [Next]_s => [Spares]_s
    <2>1. SUFFICES ASSUME Ds6Inv, Next
                   PROVE  Spares
      OBVIOUS
    <2>2. PICK z : Good(z) /\ OnlyIdleEvicted(s, z) /\ s' = Settle(z)
      BY <2>1, NextEnds DEF Ds6Inv, Ends, Become
    <2>3. SUFFICES ASSUME NEW k \in OnKeys(s), s'.ll[k] # s.ll[k], s'.nbr[k].ip # s.nbr[k].ip,
                          k \in ToSet(s'.keys)
                   PROVE  k # s.pref /\ s.via[k] = <<>>
      BY DEF Listed, OnKeys
    <2>4. /\ s'.keys = z.keys
          /\ \A j \in OnKeys(z) : s'.ll[j] = z.ll[j]
          /\ \A j \in Cached(z) : s'.nbr[j] = z.nbr[j]
      BY <2>2, SettleIs
    <2>5. k \in OnKeys(z)
      BY <2>3, <2>4 DEF OnKeys
    <2>6. z.ll[k] # s.ll[k] /\ ~(k \in Cached(z) /\ z.nbr[k].ip = s.nbr[k].ip)
      BY <2>3, <2>4, <2>5
    <2> QED BY <2>2, <2>3, <2>5, <2>6 DEF OnlyIdleEvicted
  <1> QED BY <1>1, TablesAgree, PTL DEF Spec, EvictsOnlyIdle
=============================================================================
