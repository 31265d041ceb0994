------------------------------- MODULE Failover -------------------------------
(***************************************************************************)
(* Cluster view, node watch and master failover of the gateway, for one    *)
(* shard and several gateways (part_001):                                  *)
(*   meta.RefreshCluster (141-172) and GetShard/GetMaster/GetSlaves,       *)
(*   the node-watch case of meta.watch (195, 249-267),                     *)
(*   FailoverIfNeeded (318-418).                                           *)
(* The data nodes and etcd are the environment, modelled from the spec     *)
(* (their code is not under src/): a node's key holds the role it last     *)
(* published; a crashed node's key disappears when its session expires,    *)
(* and every watcher gets a DELETE with the previous value; a slave that   *)
(* receives "slaveof no one" becomes master, replies, and publishes the    *)
(* new role with a later heartbeat.                                        *)
(***************************************************************************)
EXTENDS Naturals, Sequences, FiniteSets

CONSTANTS
    Gateways,     \* gateway processes
    Nodes,        \* the data nodes of the shard
    NodeOrder,    \* Nodes in the order GetNodes returns them (etcd key order)
    IDC,          \* IDC[n]: the node's locality tag
    InitMaster,   \* the node that is master initially
    MaxCrashes,   \* bound on node crashes
    ClockSkew,    \* TRUE: node.MayOnline() may be TRUE for a deleted node
    FailReply,    \* TRUE: a slave may answer slaveof with a failure status
    None          \* model value: no node, no gateway

ASSUME /\ NodeOrder \in Seq(Nodes) /\ Len(NodeOrder) = Cardinality(Nodes)
       /\ InitMaster \in Nodes
       /\ MaxCrashes \in Nat
       /\ ClockSkew \in BOOLEAN /\ FailReply \in BOOLEAN

Roles == {"master", "slave"}
Absent == "absent"

VARIABLES
    alive,       \* alive[n]: node process is up
    role,        \* role[n]: the node's actual replication role
    key,         \* key[n]: the role etcd's node key records, or Absent
    inbox,       \* inbox[n]: gateways whose slaveof command n has not processed
    crashes,     \* crashes so far
    view,        \* view[g][n]: n's role in g's published cluster view, or Absent
    nodeEvents,  \* nodeEvents[g]: node-watch events g has not handled, in etcd order
    wpc,         \* wpc[g]: where g's watch goroutine is
    target,      \* target[g]: the dead node FailoverIfNeeded is handling
    chosen,      \* chosen[g]: the slave it sends slaveof to
    mutex        \* holder of the etcd mutex "failover", or None

vars == <<alive, role, key, inbox, crashes, view, nodeEvents, wpc, target, chosen,
          mutex>>

NodeEvent == [type : {"PUT", "DELETE"}, node : Nodes]

TypeOK ==
    /\ alive \in [Nodes -> BOOLEAN]
    /\ role \in [Nodes -> Roles]
    /\ key \in [Nodes -> Roles \cup {Absent}]
    /\ inbox \in [Nodes -> SUBSET Gateways]
    /\ crashes \in 0..MaxCrashes
    /\ view \in [Gateways -> [Nodes -> Roles \cup {Absent}]]
    /\ nodeEvents \in [Gateways -> Seq(NodeEvent)]
    /\ wpc \in [Gateways -> {"idle", "mutex", "send", "wait", "refresh"}]
    /\ target \in [Gateways -> Nodes \cup {None}]
    /\ chosen \in [Gateways -> Nodes \cup {None}]
    /\ mutex \in Gateways \cup {None}

-----------------------------------------------------------------------------
(* The cluster view: GetMaster / GetSlaves read the published snapshot.    *)

\* Lines 163-167: a node is master iff its value has no MasterIP/MasterPort.
\* With several such nodes the map keeps the last one of GetNodes' order.
GetMaster(g) ==
    LET ms == SelectSeq(NodeOrder, LAMBDA n : view[g][n] = "master")
    IN IF ms = <<>> THEN None ELSE ms[Len(ms)]

GetSlaves(g) == SelectSeq(NodeOrder, LAMBDA n : view[g][n] = "slave")

\* Line 323: GetShard finds the shard iff some node of it is in the view.
ShardFound(g) == \E n \in Nodes : view[g][n] # Absent

\* Lines 358-366: the last slave in the dead node's IDC, else the first.
ChooseSlave(g, dead) ==
    LET sameIDC == SelectSeq(GetSlaves(g), LAMBDA n : IDC[n] = IDC[dead])
    IN IF sameIDC # <<>> THEN sameIDC[Len(sameIDC)] ELSE GetSlaves(g)[1]

\* RefreshCluster (141-172): GetNodes and publish the new map. Only the
\* gateway's watch goroutine refreshes, so the refreshing CAS never fails.
RefreshCluster(g) == view' = [view EXCEPT ![g] = key]

-----------------------------------------------------------------------------
(* The node-watch goroutine of gateway g.                                  *)

\* Mutant: a batch of PUT events handled without the RefreshCluster.
WatchNodePutNoRefresh(g) ==
    /\ wpc[g] = "idle"
    /\ nodeEvents[g] # <<>>
    /\ Head(nodeEvents[g]).type = "PUT"
    /\ nodeEvents' = [nodeEvents EXCEPT ![g] = Tail(@)]
    /\ UNCHANGED <<alive, role, key, inbox, crashes, view, wpc, target, chosen, mutex>>

\* Lines 249-251 and 267: a PUT only refreshes the view.
WatchNodePut(g) ==
    /\ wpc[g] = "idle"
    /\ nodeEvents[g] # <<>>
    /\ Head(nodeEvents[g]).type = "PUT"
    /\ nodeEvents' = [nodeEvents EXCEPT ![g] = Tail(@)]
    /\ wpc' = [wpc EXCEPT ![g] = "refresh"]
    /\ UNCHANGED <<alive, role, key, inbox, crashes, view, target, chosen, mutex>>

\* Lines 251-263 and 318-331: a DELETE calls FailoverIfNeeded with the
\* previous value; it returns when the shard is not in the view or the
\* node may still be online (clock skew against its HeartbeatAt).
WatchNodeDeleteIgnored(g) ==
    LET n == Head(nodeEvents[g]).node IN
    /\ wpc[g] = "idle"
    /\ nodeEvents[g] # <<>>
    /\ Head(nodeEvents[g]).type = "DELETE"
    /\ ~ShardFound(g) \/ ClockSkew
    /\ nodeEvents' = [nodeEvents EXCEPT ![g] = Tail(@)]
    /\ wpc' = [wpc EXCEPT ![g] = "refresh"]
    /\ UNCHANGED <<alive, role, key, inbox, crashes, view, target, chosen, mutex>>

\* Lines 323-347: the shard is found, the node is not online, the shard's
\* failovering latch is taken (no other goroutine of the gateway takes it),
\* and mutexRun starts waiting for the etcd mutex.
WatchNodeDeleteFailover(g) ==
    LET n == Head(nodeEvents[g]).node IN
    /\ wpc[g] = "idle"
    /\ nodeEvents[g] # <<>>
    /\ Head(nodeEvents[g]).type = "DELETE"
    /\ ShardFound(g)
    /\ nodeEvents' = [nodeEvents EXCEPT ![g] = Tail(@)]
    /\ target' = [target EXCEPT ![g] = n]
    /\ wpc' = [wpc EXCEPT ![g] = "mutex"]
    /\ UNCHANGED <<alive, role, key, inbox, crashes, view, chosen, mutex>>

\* Lines 347-352 and 415-418: with the mutex held, another master is in the
\* view, or no slave is: return (releasing the mutex and the latch).
FailoverSkip(g) ==
    /\ wpc[g] = "mutex"
    /\ mutex = None
    /\ \/ GetMaster(g) \notin {None, target[g]}
       \/ GetSlaves(g) = <<>>
    /\ wpc' = [wpc EXCEPT ![g] = "refresh"]
    /\ target' = [target EXCEPT ![g] = None]
    /\ UNCHANGED <<alive, role, key, inbox, crashes, view, nodeEvents, chosen, mutex>>

\* Lines 347-366: with the mutex held, the dead node is (or was) the master
\* in the view; choose the slave to promote.
FailoverChoose(g) ==
    /\ wpc[g] = "mutex"
    /\ mutex = None
    /\ GetMaster(g) \in {None, target[g]}
    /\ GetSlaves(g) # <<>>
    /\ mutex' = g
    /\ chosen' = [chosen EXCEPT ![g] = ChooseSlave(g, target[g])]
    /\ wpc' = [wpc EXCEPT ![g] = "send"]
    /\ UNCHANGED <<alive, role, key, inbox, crashes, view, nodeEvents, target>>

\* Mutant: the command written to the dead node instead of the chosen slave.
FailoverSendToDead(g) ==
    /\ wpc[g] = "send"
    /\ alive[chosen[g]]
    /\ inbox' = [inbox EXCEPT ![target[g]] = @ \cup {g}]
    /\ wpc' = [wpc EXCEPT ![g] = "wait"]
    /\ UNCHANGED <<alive, role, key, crashes, view, nodeEvents, target, chosen, mutex>>

\* Lines 368-377: connect to the chosen slave and write "slaveof no one".
FailoverSend(g) ==
    /\ wpc[g] = "send"
    /\ alive[chosen[g]]
    /\ inbox' = [inbox EXCEPT ![chosen[g]] = @ \cup {g}]
    /\ wpc' = [wpc EXCEPT ![g] = "wait"]
    /\ UNCHANGED <<alive, role, key, crashes, view, nodeEvents, target, chosen, mutex>>

\* Lines 368-371: the chosen slave is down, tcp.Connect fails: return the
\* error (mutex and latch released, no refresh).
FailoverConnectFail(g) ==
    /\ wpc[g] = "send"
    /\ ~alive[chosen[g]]
    /\ mutex' = None
    /\ wpc' = [wpc EXCEPT ![g] = "refresh"]
    /\ target' = [target EXCEPT ![g] = None]
    /\ chosen' = [chosen EXCEPT ![g] = None]
    /\ UNCHANGED <<alive, role, key, inbox, crashes, view, nodeEvents>>

\* Mutant: the select without its 15 s timeout; only a reply from the
\* chosen slave ends the wait.
FailoverFinishNoTimeout(g) ==
    /\ wpc[g] = "wait"
    /\ alive[chosen[g]] /\ g \notin inbox[chosen[g]]
    /\ RefreshCluster(g)
    /\ mutex' = None
    /\ wpc' = [wpc EXCEPT ![g] = "refresh"]
    /\ target' = [target EXCEPT ![g] = None]
    /\ chosen' = [chosen EXCEPT ![g] = None]
    /\ UNCHANGED <<alive, role, key, inbox, crashes, nodeEvents>>

\* Lines 381-413: the reply arrives, or 15 seconds pass; either way
\* RefreshCluster, then the mutex and the latch are released. The reply's
\* status only decides what is logged.
FailoverFinish(g) ==
    /\ wpc[g] = "wait"
    /\ RefreshCluster(g)
    /\ mutex' = None
    /\ wpc' = [wpc EXCEPT ![g] = "refresh"]
    /\ target' = [target EXCEPT ![g] = None]
    /\ chosen' = [chosen EXCEPT ![g] = None]
    /\ UNCHANGED <<alive, role, key, inbox, crashes, nodeEvents>>

\* Line 267: after the batch of node events, RefreshCluster.
WatchRefresh(g) ==
    /\ wpc[g] = "refresh"
    /\ RefreshCluster(g)
    /\ wpc' = [wpc EXCEPT ![g] = "idle"]
    /\ UNCHANGED <<alive, role, key, inbox, crashes, nodeEvents, target, chosen, mutex>>

-----------------------------------------------------------------------------
(* Data nodes and etcd (environment).                                      *)

Crash(n) ==
    /\ alive[n]
    /\ crashes < MaxCrashes
    /\ alive' = [alive EXCEPT ![n] = FALSE]
    /\ inbox' = [inbox EXCEPT ![n] = {}]
    /\ crashes' = crashes + 1
    /\ UNCHANGED <<role, key, view, nodeEvents, wpc, target, chosen, mutex>>

\* The session of a dead node expires: its key is deleted.
SessionExpire(n) ==
    /\ ~alive[n]
    /\ key[n] # Absent
    /\ key' = [key EXCEPT ![n] = Absent]
    /\ nodeEvents' = [g \in Gateways |-> Append(nodeEvents[g], [type |-> "DELETE", node |-> n])]
    /\ UNCHANGED <<alive, role, inbox, crashes, view, wpc, target, chosen, mutex>>

\* A heartbeat publishes the node's current role.
Publish(n) ==
    /\ alive[n]
    /\ key[n] # role[n]
    /\ key' = [key EXCEPT ![n] = role[n]]
    /\ nodeEvents' = [g \in Gateways |-> Append(nodeEvents[g], [type |-> "PUT", node |-> n])]
    /\ UNCHANGED <<alive, role, inbox, crashes, view, wpc, target, chosen, mutex>>

\* The node handles a "slaveof no one" from gateway g: it becomes master,
\* or (FailReply) answers with a failure and stays what it was.
HandleSlaveOf(n, g) ==
    /\ alive[n]
    /\ g \in inbox[n]
    /\ inbox' = [inbox EXCEPT ![n] = @ \ {g}]
    /\ \/ role' = [role EXCEPT ![n] = "master"]
       \/ FailReply /\ UNCHANGED role
    /\ UNCHANGED <<alive, key, crashes, view, nodeEvents, wpc, target, chosen, mutex>>

-----------------------------------------------------------------------------

InitRole == [n \in Nodes |-> IF n = InitMaster THEN "master" ELSE "slave"]

Init ==
    /\ alive = [n \in Nodes |-> TRUE]
    /\ role = InitRole
    /\ key = InitRole
    /\ inbox = [n \in Nodes |-> {}]
    /\ crashes = 0
    /\ view = [g \in Gateways |-> InitRole]
    /\ nodeEvents = [g \in Gateways |-> <<>>]
    /\ wpc = [g \in Gateways |-> "idle"]
    /\ target = [g \in Gateways |-> None]
    /\ chosen = [g \in Gateways |-> None]
    /\ mutex = None

Watch(g) ==
    \/ WatchNodePut(g) \/ WatchNodeDeleteIgnored(g) \/ WatchNodeDeleteFailover(g)
    \/ FailoverSend(g) \/ FailoverConnectFail(g) \/ FailoverFinish(g)
    \/ WatchRefresh(g)

LockMutex(g) == FailoverSkip(g) \/ FailoverChoose(g)

Environment(n) ==
    \/ Crash(n) \/ SessionExpire(n) \/ Publish(n)
    \/ \E g \in Gateways : HandleSlaveOf(n, g)

Next ==
    \/ \E g \in Gateways : Watch(g) \/ LockMutex(g)
    \/ \E n \in Nodes : Environment(n)

\* The watch goroutines run; the etcd mutex is granted to every waiter
\* eventually (etcd's lock queue is FIFO); sessions of dead nodes expire;
\* live nodes heartbeat and handle the commands they receive.
Fairness ==
    /\ \A g \in Gateways : WF_vars(Watch(g)) /\ SF_vars(LockMutex(g))
    /\ \A n \in Nodes :
          /\ WF_vars(SessionExpire(n)) /\ WF_vars(Publish(n))
          /\ \A g \in Gateways : WF_vars(HandleSlaveOf(n, g))

Spec == Init /\ [][Next]_vars /\ Fairness

-----------------------------------------------------------------------------
(* Properties                                                              *)

LiveMasters == {n \in Nodes : alive[n] /\ role[n] = "master"}
LiveSlaves == {n \in Nodes : alive[n] /\ role[n] = "slave"}

\* No split brain: failovers driven by any gateway, on any node's DELETE,
\* from any (possibly stale) cluster view, never leave two live masters.
NoSplitBrain == Cardinality(LiveMasters) <= 1

\* After the master is lost while a slave is alive, failover eventually
\* gives the shard a live master again (or no slave survives to promote).
MasterRestored == (LiveMasters = {} /\ LiveSlaves # {}) ~> (LiveMasters # {} \/ LiveSlaves = {})

\* Every batch of node events a gateway's watch goroutine takes up is
\* handled to the end, and the etcd mutex it took is released: a chosen
\* slave that dies after "slaveof no one" was written (line 374), or never
\* answers, does not hold the goroutine and every other gateway's failover
\* forever, because the select at lines 405-408 gives up after 15 s.
FailoverEnds ==
    \A g \in Gateways : wpc[g] # "idle" ~> (wpc[g] = "idle" /\ mutex # g)

\* Every gateway's cluster view comes to show the shard's live master, and
\* keeps showing it: when FailoverFinish's RefreshCluster ran before the
\* promoted node changed role (a reply timeout, lines 405-408), only the
\* node's next heartbeat, a PUT handled by WatchNodePut and refreshed at
\* line 267, corrects the view.
ViewsConverge == <>[](\A g \in Gateways : GetMaster(g) \in LiveMasters)

=============================================================================
