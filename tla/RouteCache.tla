------------------------------ MODULE RouteCache ------------------------------
(***************************************************************************)
(* The gateway's route cache (meta.getShardIDs, part_001 lines 54-139) and *)
(* the route-key watch that maintains it (meta.watch, lines 193 and       *)
(* 202-231), for several gateways sharing one etcd.                        *)
(*                                                                         *)
(* Each gateway has a sync.Map routeInfos: metric -> *RouteInfo. A         *)
(* RouteInfo is an object with its own mutex, a day -> shard-group map and *)
(* a Timeline. Objects have identities here because the watcher can drop  *)
(* a RouteInfo from the map while a caller still holds (and has locked)   *)
(* it. Callers of getShardIDs are goroutines <<gateway, thread>>; each     *)
(* step below is one call of the code that touches shared state.         *)
(*                                                                         *)
(* RouteInfo, etcdGet, etcdPut and getEtcdLease are not under src/; they   *)
(* are modelled from the spec: RouteInfo.Get/Put/Delete are atomic,        *)
(* Put raises Timeline to the written day, and etcdPut is the store's      *)
(* compare-and-swap (it fails when the key already exists). A lease        *)
(* expiry deletes the key and emits DELETE events to every watcher.        *)
(***************************************************************************)
EXTENDS Naturals, Sequences, FiniteSets, Functions

CONSTANTS
    Gateways,       \* gateway processes
    Callers,        \* getShardIDs caller goroutines <<gateway, id>>
    Metrics,        \* metric names
    Days,           \* day numbers (positive naturals)
    Masters,        \* shard IDs of the master nodes GetMasters returns
    ShardGroupCap,  \* vars.Cfg.Gateway.Route.ShardGroupCap
    MaxExpiries,    \* bound on lease expiries of all route keys together
    TransientErrors \* TRUE: etcd calls of getShardIDsFromEtcd may fail

ASSUME /\ Callers \subseteq Gateways \X Nat
       /\ Days \subseteq Nat \ {0}
       /\ ShardGroupCap \in Nat \ {0}
       /\ Cardinality(Masters) >= ShardGroupCap
       /\ MaxExpiries \in Nat
       /\ TransientErrors \in BOOLEAN

Keys == Metrics \X Days

\* A shard group: ShardGroupCap distinct master shard IDs, in the order
\* GetMasters happened to return them (map iteration order, line 124).
Groups == Injection(1..ShardGroupCap, Masters)
NoGroup == <<>>

\* Every DELETE a gateway applies can drop at most one RouteInfo from its
\* map, so this many objects per gateway and metric suffice.
MaxRouteInfos == 1 + MaxExpiries
RouteInfoIds == 1..MaxRouteInfos
NoRouteInfo == 0

EmptyRouteInfo == [byDay |-> [d \in Days |-> NoGroup], timeline |-> 0, locked |-> FALSE]

VARIABLES
    store,       \* etcd route keys routeInfoPrefix/metric/day -> group
    epoch,       \* lease expiries of each route key so far (history)
    events,      \* per gateway: route-watch events not yet applied, in etcd order
    routeInfos,  \* per gateway: metric -> id of the RouteInfo in the sync.Map
    ris,         \* per gateway, metric and id: the RouteInfo object
    nextRI,      \* per gateway and metric: RouteInfo objects created so far
    pc,          \* per caller: where it is in getShardIDs
    req,         \* per caller: the <<metric, day>> it asks for
    held,        \* per caller: the RouteInfo it locks (line 62)
    val,         \* per caller: the group it got from etcd
    routed,      \* history: groups getShardIDs returned for a key before its first expiry
    failures     \* history: keys on which a getShardIDs call returned an error

vars == <<store, epoch, events, routeInfos, ris, nextRI, pc, req, held, val,
          routed, failures>>

Event == [type : {"PUT", "DELETE"}, key : Keys, grp : Groups \cup {NoGroup}]
NoKey == CHOOSE k \in Keys : TRUE

TypeOK ==
    /\ store \in [Keys -> Groups \cup {NoGroup}]
    /\ epoch \in [Keys -> 0..MaxExpiries]
    /\ events \in [Gateways -> Seq(Event)]
    /\ routeInfos \in [Gateways -> [Metrics -> RouteInfoIds \cup {NoRouteInfo}]]
    /\ ris \in [Gateways -> [Metrics -> [RouteInfoIds ->
                  [byDay : [Days -> Groups \cup {NoGroup}],
                   timeline : Days \cup {0}, locked : BOOLEAN]]]]
    /\ nextRI \in [Gateways -> [Metrics -> 0..MaxRouteInfos]]
    /\ pc \in [Callers -> {"idle", "miss", "lock", "etcd", "alloc", "put"}]
    /\ req \in [Callers -> Keys]
    /\ held \in [Callers -> RouteInfoIds \cup {NoRouteInfo}]
    /\ val \in [Callers -> Groups \cup {NoGroup}]
    /\ routed \in [Keys -> SUBSET Groups]
    /\ failures \subseteq Keys

-----------------------------------------------------------------------------
(* getRouteInfoFromCache (lines 79-85): Load, or LoadOrStore a new object. *)

RouteInfoOf(g, m) ==
    IF routeInfos[g][m] = NoRouteInfo THEN nextRI[g][m] + 1 ELSE routeInfos[g][m]

getRouteInfoFromCache(g, m) ==
    IF routeInfos[g][m] = NoRouteInfo
    THEN /\ routeInfos' = [routeInfos EXCEPT ![g][m] = nextRI[g][m] + 1]
         /\ nextRI' = [nextRI EXCEPT ![g][m] = @ + 1]
    ELSE UNCHANGED <<routeInfos, nextRI>>

\* getShardIDsFromCache (lines 87-92): the group cached for (m, d), if any.
Cached(g, m, d) ==
    IF routeInfos[g][m] = NoRouteInfo THEN NoGroup
    ELSE ris[g][m][routeInfos[g][m]].byDay[d]

\* RouteInfo.Put: store the group and advance the timeline.
PutDay(obj, d, grp) ==
    [obj EXCEPT !.byDay[d] = grp,
                !.timeline = IF d > obj.timeline THEN d ELSE obj.timeline]

\* getShardIDs returns grp for key k.
Record(k, grp) ==
    routed' = IF epoch[k] = 0 THEN [routed EXCEPT ![k] = @ \cup {grp}] ELSE routed

\* The caller leaves getShardIDs.
Return(c) ==
    /\ pc' = [pc EXCEPT ![c] = "idle"]
    /\ req' = [req EXCEPT ![c] = NoKey]
    /\ held' = [held EXCEPT ![c] = NoRouteInfo]

-----------------------------------------------------------------------------
(* getShardIDs, one caller goroutine c = <<g, t>>.                         *)

\* Lines 55-58: the cache answers.
CallHit(c, m, d) ==
    /\ pc[c] = "idle"
    /\ Cached(c[1], m, d) # NoGroup
    /\ Record(<<m, d>>, Cached(c[1], m, d))
    /\ UNCHANGED <<store, epoch, events, routeInfos, ris, nextRI, pc, req, held, val, failures>>

\* Lines 55-56: a miss (getShardIDsFromCache creates the RouteInfo).
CallMiss(c, m, d) ==
    /\ pc[c] = "idle"
    /\ Cached(c[1], m, d) = NoGroup
    /\ getRouteInfoFromCache(c[1], m)
    /\ req' = [req EXCEPT ![c] = <<m, d>>]
    /\ pc' = [pc EXCEPT ![c] = "miss"]
    /\ UNCHANGED <<store, epoch, events, ris, held, val, routed, failures>>

\* Line 62: fetch the RouteInfo to lock, again from the map.
ResolveRouteInfo(c) ==
    /\ pc[c] = "miss"
    /\ held' = [held EXCEPT ![c] = RouteInfoOf(c[1], req[c][1])]
    /\ getRouteInfoFromCache(c[1], req[c][1])
    /\ pc' = [pc EXCEPT ![c] = "lock"]
    /\ UNCHANGED <<store, epoch, events, ris, req, val, routed, failures>>

\* Lines 63-65 and 74-76: lock, and the double-check (through the map, not
\* through the locked object) hits: unlock and return.
LockRecheckHit(c) ==
    LET g == c[1]  m == req[c][1]  d == req[c][2] IN
    /\ pc[c] = "lock"
    /\ ~ris[g][m][held[c]].locked
    /\ Cached(g, m, d) # NoGroup
    /\ Record(req[c], Cached(g, m, d))
    /\ Return(c)
    /\ UNCHANGED <<store, epoch, events, routeInfos, ris, nextRI, val, failures>>

\* Lines 63-67: lock, the double-check misses (getShardIDsFromCache may
\* create a new RouteInfo in the map), go to etcd holding the lock.
LockRecheckMiss(c) ==
    LET g == c[1]  m == req[c][1]  d == req[c][2] IN
    /\ pc[c] = "lock"
    /\ ~ris[g][m][held[c]].locked
    /\ Cached(g, m, d) = NoGroup
    /\ ris' = [ris EXCEPT ![g][m][held[c]].locked = TRUE]
    /\ getRouteInfoFromCache(g, m)
    /\ pc' = [pc EXCEPT ![c] = "etcd"]
    /\ UNCHANGED <<store, epoch, events, req, held, val, routed, failures>>

\* getShardIDsFromEtcd lines 105-109: the route key exists.
EtcdGetFound(c) ==
    /\ pc[c] = "etcd"
    /\ store[req[c]] # NoGroup
    /\ val' = [val EXCEPT ![c] = store[req[c]]]
    /\ pc' = [pc EXCEPT ![c] = "put"]
    /\ UNCHANGED <<store, epoch, events, routeInfos, ris, nextRI, req, held, routed, failures>>

\* Lines 106 and 111: the route key does not exist.
EtcdGetNotFound(c) ==
    /\ pc[c] = "etcd"
    /\ store[req[c]] = NoGroup
    /\ pc' = [pc EXCEPT ![c] = "alloc"]
    /\ UNCHANGED <<store, epoch, events, routeInfos, ris, nextRI, req, held, val, routed, failures>>

\* Lines 98-100, 110-112, 116-122 and 127-135: etcdGet, GetMasters,
\* getEtcdLease or etcdPut fails with a transient error (or there are
\* fewer masters than ShardGroupCap): getShardIDs unlocks and returns it.
EtcdError(c) ==
    LET g == c[1]  m == req[c][1] IN
    /\ TransientErrors
    /\ pc[c] \in {"etcd", "alloc"}
    /\ ris' = [ris EXCEPT ![g][m][held[c]].locked = FALSE]
    /\ failures' = failures \cup {req[c]}
    /\ Return(c)
    /\ UNCHANGED <<store, epoch, events, routeInfos, nextRI, val, routed>>

\* Mutant of Alloc: the loop bound of line 124 off by one (i <= cap).
AllocOffByOne(c) ==
    /\ pc[c] = "alloc"
    /\ store[req[c]] = NoGroup
    /\ \E grp \in Injection(1..ShardGroupCap + 1, Masters) :
          /\ store' = [store EXCEPT ![req[c]] = grp]
          /\ events' = [g \in Gateways |->
                          Append(events[g], [type |-> "PUT", key |-> req[c], grp |-> grp])]
          /\ val' = [val EXCEPT ![c] = grp]
    /\ pc' = [pc EXCEPT ![c] = "put"]
    /\ UNCHANGED <<epoch, routeInfos, ris, nextRI, req, held, routed, failures>>

\* Mutant of Alloc: a plain put instead of a create-if-absent; the last
\* writer wins.
AllocBlind(c) ==
    /\ pc[c] = "alloc"
    /\ \E grp \in Groups :
          /\ store' = [store EXCEPT ![req[c]] = grp]
          /\ events' = [g \in Gateways |->
                          Append(events[g], [type |-> "PUT", key |-> req[c], grp |-> grp])]
          /\ val' = [val EXCEPT ![c] = grp]
    /\ pc' = [pc EXCEPT ![c] = "put"]
    /\ UNCHANGED <<epoch, routeInfos, ris, nextRI, req, held, routed, failures>>

\* Lines 115-138: take the first ShardGroupCap masters in GetMasters order
\* and etcdPut them with a lease; the put succeeds and every watcher gets
\* the PUT event.
Alloc(c) ==
    /\ pc[c] = "alloc"
    /\ store[req[c]] = NoGroup
    /\ \E grp \in Groups :
          /\ store' = [store EXCEPT ![req[c]] = grp]
          /\ events' = [g \in Gateways |->
                          Append(events[g], [type |-> "PUT", key |-> req[c], grp |-> grp])]
          /\ val' = [val EXCEPT ![c] = grp]
    /\ pc' = [pc EXCEPT ![c] = "put"]
    /\ UNCHANGED <<epoch, routeInfos, ris, nextRI, req, held, routed, failures>>

\* Mutant of AllocConflict: the error path returns without Unlock.
AllocConflictNoUnlock(c) ==
    /\ pc[c] = "alloc"
    /\ store[req[c]] # NoGroup
    /\ failures' = failures \cup {req[c]}
    /\ Return(c)
    /\ UNCHANGED <<store, epoch, events, routeInfos, ris, nextRI, val, routed>>

\* Lines 133-136 and 74-76: another writer created the key first, etcdPut
\* fails; unlock and return the error.
AllocConflict(c) ==
    LET g == c[1]  m == req[c][1] IN
    /\ pc[c] = "alloc"
    /\ store[req[c]] # NoGroup
    /\ ris' = [ris EXCEPT ![g][m][held[c]].locked = FALSE]
    /\ failures' = failures \cup {req[c]}
    /\ Return(c)
    /\ UNCHANGED <<store, epoch, events, routeInfos, nextRI, val, routed>>

\* Lines 68-76: store the group in the locked RouteInfo, unlock, return it.
CacheFill(c) ==
    LET g == c[1]  m == req[c][1]  d == req[c][2] IN
    /\ pc[c] = "put"
    /\ ris' = [ris EXCEPT ![g][m][held[c]] =
                  [PutDay(@, d, val[c]) EXCEPT !.locked = FALSE]]
    /\ Record(req[c], val[c])
    /\ Return(c)
    /\ val' = [val EXCEPT ![c] = NoGroup]
    /\ UNCHANGED <<store, epoch, events, routeInfos, nextRI, failures>>

-----------------------------------------------------------------------------
(* The route-watch case of meta.watch (lines 202-231), one goroutine per   *)
(* gateway, without the RouteInfo lock.                                    *)

\* Lines 224-229: PUT, cache the group.
WatchPut(g) ==
    LET ev == Head(events[g])  m == ev.key[1]  d == ev.key[2]  id == RouteInfoOf(g, m) IN
    /\ events[g] # <<>>
    /\ ev.type = "PUT"
    /\ getRouteInfoFromCache(g, m)
    /\ ris' = [ris EXCEPT ![g][m][id] = PutDay(@, d, ev.grp)]
    /\ events' = [events EXCEPT ![g] = Tail(@)]
    /\ UNCHANGED <<store, epoch, pc, req, held, val, routed, failures>>

\* Lines 218-223: DELETE, drop the day, and drop the whole RouteInfo from
\* the map when the day is its Timeline.
WatchDelete(g) ==
    LET ev == Head(events[g])  m == ev.key[1]  d == ev.key[2]  id == RouteInfoOf(g, m) IN
    /\ events[g] # <<>>
    /\ ev.type = "DELETE"
    /\ ris' = [ris EXCEPT ![g][m][id].byDay[d] = NoGroup]
    /\ routeInfos' = [routeInfos EXCEPT ![g][m] =
                        IF d = ris[g][m][id].timeline THEN NoRouteInfo ELSE id]
    /\ nextRI' = [nextRI EXCEPT ![g][m] = IF routeInfos[g][m] = NoRouteInfo THEN @ + 1 ELSE @]
    /\ events' = [events EXCEPT ![g] = Tail(@)]
    /\ UNCHANGED <<store, epoch, pc, req, held, val, routed, failures>>

-----------------------------------------------------------------------------
(* etcd: the lease granted by getEtcdLease(day) runs out.                  *)

LeaseExpire(k) ==
    /\ store[k] # NoGroup
    /\ SumFunction(epoch) < MaxExpiries
    /\ store' = [store EXCEPT ![k] = NoGroup]
    /\ epoch' = [epoch EXCEPT ![k] = @ + 1]
    /\ events' = [g \in Gateways |->
                    Append(events[g], [type |-> "DELETE", key |-> k, grp |-> NoGroup])]
    /\ UNCHANGED <<routeInfos, ris, nextRI, pc, req, held, val, routed, failures>>

-----------------------------------------------------------------------------

Init ==
    /\ store = [k \in Keys |-> NoGroup]
    /\ epoch = [k \in Keys |-> 0]
    /\ events = [g \in Gateways |-> <<>>]
    /\ routeInfos = [g \in Gateways |-> [m \in Metrics |-> NoRouteInfo]]
    /\ ris = [g \in Gateways |-> [m \in Metrics |-> [i \in RouteInfoIds |-> EmptyRouteInfo]]]
    /\ nextRI = [g \in Gateways |-> [m \in Metrics |-> 0]]
    /\ pc = [c \in Callers |-> "idle"]
    /\ req = [c \in Callers |-> CHOOSE k \in Keys : TRUE]
    /\ held = [c \in Callers |-> NoRouteInfo]
    /\ val = [c \in Callers |-> NoGroup]
    /\ routed = [k \in Keys |-> {}]
    /\ failures = {}

\* The steps of a call after it has started.
CallerStep(c) ==
    \/ ResolveRouteInfo(c)
    \/ LockRecheckHit(c) \/ LockRecheckMiss(c)
    \/ EtcdGetFound(c) \/ EtcdGetNotFound(c)
    \/ Alloc(c) \/ AllocConflict(c) \/ EtcdError(c)
    \/ CacheFill(c)

Watcher(g) == WatchPut(g) \/ WatchDelete(g)

Next ==
    \/ \E c \in Callers, k \in Keys : CallHit(c, k[1], k[2]) \/ CallMiss(c, k[1], k[2])
    \/ \E c \in Callers : CallerStep(c)
    \/ \E g \in Gateways : Watcher(g)
    \/ \E k \in Keys : LeaseExpire(k)

\* Goroutines keep running; a goroutine blocked in routeInfo.Lock() gets
\* the mutex eventually (sync.Mutex starvation mode), hence strong
\* fairness on the locking steps. The watch loop runs forever.
Fairness ==
    /\ \A c \in Callers :
          /\ WF_vars(CallerStep(c))
          /\ SF_vars(LockRecheckHit(c) \/ LockRecheckMiss(c))
    /\ \A g \in Gateways : WF_vars(Watcher(g))

Spec == Init /\ [][Next]_vars /\ Fairness

-----------------------------------------------------------------------------
(* Properties                                                              *)

\* A gateway is quiet when it has applied every route event and none of
\* its callers holds a group read from etcd that it has not cached yet.
Quiet(g) ==
    /\ events[g] = <<>>
    /\ \A c \in Callers : c[1] = g => pc[c] # "put"

\* A quiet gateway's cache agrees with etcd: for every key it caches
\* either nothing or the group etcd holds (the cache learns every change
\* of a route key through the watch, spec 4.2/4.3).
QuietCacheConsistent ==
    \A g \in Gateways, k \in Keys :
        Quiet(g) => Cached(g, k[1], k[2]) \in {NoGroup, store[k]}

\* Before a route key's first expiry, every getShardIDs on every gateway
\* that returns a group for (metric, day) returns the same group: samples
\* and queries for the day go to one shard group.
RouteAgreesAcrossGateways ==
    \A k \in Keys : Cardinality(routed[k]) <= 1

\* Within one gateway at most one caller at a time runs the etcd part of
\* getShardIDs for a (metric, day): the RouteInfo lock serialises the
\* "miss, etcd read, allocate, put" section (spec 4.2 and 8).
SingleFillPerGateway ==
    \A c1, c2 \in Callers :
        (/\ c1 # c2 /\ c1[1] = c2[1] /\ req[c1] = req[c2]
         /\ pc[c1] \in {"etcd", "alloc", "put"}) => pc[c2] \notin {"etcd", "alloc", "put"}

\* Every getShardIDs call returns: the RouteInfo lock is released on every
\* path out of the critical section.
EveryCallReturns == \A c \in Callers : pc[c] # "idle" ~> pc[c] = "idle"

=============================================================================
