------------------------------ MODULE Download ------------------------------
(***************************************************************************)
(* Downloads of one file by several clients.  A client asks the clients    *)
(* that have downloaded the file (its peers), then the nodes: in one round *)
(* over TCP; over REST directly, then through the tracker one by one, then *)
(* again and again.  What it got it caches, and serves to others.  All the *)
(* while nodes stop and return, clients restart, cached shards expire, and *)
(* the owner updates the file in place: the shards of a version, then the  *)
(* record.                                                                 *)
(*                                                                         *)
(* The file is one chunk and shard i is on node i; a shard is the version  *)
(* it is of, and the hash in a record tells the versions apart.            *)
(***************************************************************************)
EXTENDS Integers, FiniteSets

CONSTANTS
    Clients,
    K, NShards,     \* shards needed, and shards there are
    ShardBytes,     \* size of a shard
    Direct,         \* nodes that advertise a URL for direct transfer
    MaxVersions,    \* bound: versions of the file
    MaxDownloads,   \* bound: downloads that are started
    MaxFaults,      \* bound: nodes that stop and clients that restart
    MaxPolls,       \* polls of the tracker before a download gives up
    None

Indices == 0 .. NShards - 1

ASSUME DownloadAssumption ==
    /\ K \in 1 .. NShards /\ NShards \in Nat /\ ShardBytes \in Nat \ {0} /\ Direct \subseteq Indices
    /\ IsFiniteSet(Clients)
    /\ MaxVersions \in Nat \ {0} /\ MaxDownloads \in Nat
    /\ MaxFaults \in Nat /\ MaxPolls \in Nat /\ None \notin Int

VARIABLES
    rest,           \* do the clients use REST?
    version,        \* of the record the tracker has
    shard,          \* node -> version of the shard it has
    up, alive,      \* nodes that run, and those the tracker believes to
    peer_cache,     \* the tracker's peers: client -> indices, or None
    swarm,          \* clients not moved since they registered: a server
                    \* has a new port with each process
    shard_cache,    \* client -> index -> version, or None
    nodes_cache,    \* client -> the nodes it was last told to be alive
    received, served,   \* tit for tat: client -> peer -> shards
    get,            \* each client's download
    started, faults,
    ever,           \* history: client -> peer -> shards it has ever served
    steady          \* history: client -> shards it could have had at any time
                    \*          of its download

nodes == <<shard, up, alive>>
tracker == <<version, peer_cache>>
peers == <<swarm, shard_cache>>
tit_for_tat == <<received, served, ever>>
vars == <<rest, tracker, nodes, peers, nodes_cache, tit_for_tat, get, started, faults, steady>>

Resting == [at |-> "idle", rec |-> None, todo |-> {}, ask |-> {}, polls |-> 0,
            got |-> [i \in Indices |-> None]]

Got(c) == {i \in Indices : get[c].got[i] # None}
Missing(c) == Indices \ Got(c)
Least(S) == CHOOSE i \in S : \A j \in S : i <= j
Go(c, d) == get' = [get EXCEPT ![c] = d]

----------------------------------------------------------------------------
(* Peers. *)

Begin(c) ==
    /\ get[c].at \in {"idle", "done"} /\ started < MaxDownloads
    /\ started' = started + 1
    /\ Go(c, [Resting EXCEPT !.at = "meta", !.rec = version])
    /\ UNCHANGED <<rest, tracker, nodes, peers, nodes_cache, tit_for_tat, faults>>

(* In bytes.  A peer nothing is known of has given as much as it has taken.*)
Given(c, p) == IF received[c][p] = 0 /\ served[c][p] = 0 THEN 1 ELSE received[c][p] * ShardBytes
Taken(c, p) == IF served[c][p] = 0 THEN 1 ELSE served[c][p] * ShardBytes
AtLeast(c, p, q) == Given(c, p) * Taken(c, q) >= Given(c, q) * Taken(c, p)

(* The tracker leaves out the client that asks. *)
get_peers(c, i) == {p \in Clients \ {c} : peer_cache[p] # None /\ i \in peer_cache[p]}

(* Each shard is asked of one peer, the best of those that list it; nobody *)
(* answers at an address its client has left.                              *)
_get_swarm_peers(c) ==
    LET best(i) == {p \in get_peers(c, i) : \A q \in get_peers(c, i) : AtLeast(c, p, q)}
    IN /\ get[c].at = "meta"
       /\ \E ask \in SUBSET ((Clients \ {c}) \X Indices) :
             /\ \A i \in Indices : Cardinality({x \in ask : x[2] = i}) = IF best(i) = {} THEN 0 ELSE 1
             /\ \A x \in ask : x[1] \in best(x[2])
             /\ Go(c, [get[c] EXCEPT !.at = "peers",
                                         !.ask = {x \in ask : x[1] \in swarm}])
       /\ UNCHANGED <<rest, tracker, nodes, peers, nodes_cache, tit_for_tat, started, faults>>

(* Seeded bug: shards are not compared with their hashes. *)
AnyShard(c, data) == data # None

Verified(c, data) == data = get[c].rec

More(counts, c, p) == [counts EXCEPT ![c][p] = @ + 1]

record_served(p, c) == served' = More(served, p, c) /\ ever' = More(ever, p, c)

(* The peer counts what it serves, the client what it could use. *)
PeerServes(c, p, i) ==
    LET data == shard_cache[p][i] IN
    /\ <<p, i>> \in get[c].ask /\ data # None /\ record_served(p, c)
    /\ IF Verified(c, data)
       THEN /\ received' = More(received, c, p)
            /\ Go(c, [get[c] EXCEPT !.ask = @ \ {<<p, i>>}, !.got[i] = data])
       ELSE Go(c, [get[c] EXCEPT !.ask = @ \ {<<p, i>>}]) /\ UNCHANGED received
    /\ UNCHANGED <<rest, tracker, nodes, peers, nodes_cache, started, faults>>

(* Seeded bug: a shard is counted before it is known to have come. *)
PeerFailsCounted(c, p, i) ==
    /\ <<p, i>> \in get[c].ask /\ received' = More(received, c, p)
    /\ Go(c, [get[c] EXCEPT !.ask = @ \ {<<p, i>>}])
    /\ UNCHANGED <<rest, tracker, nodes, peers, nodes_cache, served, ever, started, faults>>

(* It has lost the shard, or the request or the answer is lost. *)
PeerFails(c, p, i) ==
    /\ <<p, i>> \in get[c].ask
    /\ \/ shard_cache[p][i] # None /\ record_served(p, c)
       \/ UNCHANGED <<served, ever>>
    /\ Go(c, [get[c] EXCEPT !.ask = @ \ {<<p, i>>}])
    /\ UNCHANGED <<rest, tracker, nodes, peers, nodes_cache, received, started, faults>>

----------------------------------------------------------------------------
(* Nodes. *)

Enough(c) == Cardinality(Got(c)) >= K

(* What was fetched is cached, enough or not. *)
Finish(c) ==
    /\ Go(c, [get[c] EXCEPT !.at = IF Enough(c) THEN "register" ELSE "done", !.todo = {}])
    /\ shard_cache' = [shard_cache EXCEPT ![c] =
                          [i \in Indices |-> IF i \in Got(c) THEN get[c].got[i] ELSE @[i]]]

(* Seeded bug: nodes are not asked for the shards that peers listed.       *)
Unlisted(c) == {i \in Missing(c) : get_peers(c, i) = {}}

Remaining(c) == Missing(c)

(* It answers from a cache for 30 seconds. *)
get_alive_nodes(c) ==
    nodes_cache' \in {[nodes_cache EXCEPT ![c] = alive]} \cup
                     IF nodes_cache[c] = {} THEN {} ELSE {nodes_cache}

AfterPeers(c) ==
    /\ get[c].at = "peers" /\ get[c].ask = {}
    /\ IF Enough(c) THEN Finish(c) /\ UNCHANGED nodes_cache
       ELSE /\ Go(c, [get[c] EXCEPT !.at = "nodes", !.todo = Remaining(c)])
            /\ get_alive_nodes(c)
            /\ UNCHANGED shard_cache
    /\ UNCHANGED <<rest, tracker, nodes, swarm, tit_for_tat, started, faults>>

(* A request to node i: what it has, if it verifies. *)
Answer(c, i, asked) == IF asked /\ i \in up /\ Verified(c, shard[i]) THEN shard[i] ELSE None

FetchOne(c, i) ==
    /\ get[c].at = "nodes" /\ i \in get[c].todo
    /\ Go(c, [get[c] EXCEPT !.todo = @ \ {i},
                 !.got[i] = Answer(c, i, i \in nodes_cache[c] /\ (rest => i \in Direct))])
    /\ UNCHANGED <<rest, tracker, nodes, peers, nodes_cache, tit_for_tat, started, faults>>

AfterNodes(c) ==
    /\ get[c].at = "nodes" /\ get[c].todo = {}
    /\ IF Enough(c) \/ ~rest THEN Finish(c)
       ELSE /\ Go(c, [get[c] EXCEPT !.at = "proxy", !.todo = Missing(c)])
            /\ UNCHANGED shard_cache
    /\ UNCHANGED <<rest, tracker, nodes, swarm, nodes_cache, tit_for_tat, started, faults>>

(* The tracker relays to nodes it believes to be alive. *)
handle_shard_fetch(c, at) ==
    LET i == Least(get[c].todo) IN
    /\ get[c].at = at /\ get[c].todo # {}
    /\ Go(c, [get[c] EXCEPT !.todo = @ \ {i}, !.got[i] = Answer(c, i, i \in alive)])

Proxy(c) ==
    /\ ~Enough(c) /\ handle_shard_fetch(c, "proxy")
    /\ UNCHANGED <<rest, tracker, nodes, peers, nodes_cache, tit_for_tat, started, faults>>

(* The nodes are asked to push; then all that is missing is polled.        *)
AfterProxy(c) ==
    /\ get[c].at = "proxy" /\ (Enough(c) \/ get[c].todo = {})
    /\ IF Enough(c) THEN Finish(c)
       ELSE Go(c, [get[c] EXCEPT !.at = "poll"]) /\ UNCHANGED shard_cache
    /\ UNCHANGED <<rest, tracker, nodes, swarm, nodes_cache, tit_for_tat, started, faults>>

Poll(c) ==
    /\ handle_shard_fetch(c, "poll")
    /\ UNCHANGED <<rest, tracker, nodes, peers, nodes_cache, tit_for_tat, started, faults>>

(* Seeded bug: one poll too many. *)
StillWaiting(c) == get[c].polls <= MaxPolls

Waiting(c) == get[c].polls < MaxPolls

NextPoll(c) ==
    /\ get[c].at = "poll" /\ get[c].todo = {}
    /\ IF ~Enough(c) /\ Waiting(c)
       THEN /\ Go(c, [get[c] EXCEPT !.todo = Missing(c), !.polls = @ + 1])
            /\ UNCHANGED shard_cache
       ELSE Finish(c)
    /\ UNCHANGED <<rest, tracker, nodes, swarm, nodes_cache, tit_for_tat, started, faults>>

(* The list of a client that is a peer already is replaced. *)
register_peer(c, indices) == peer_cache' = [peer_cache EXCEPT ![c] = indices]

(* Cached shards of other versions are registered with the others, and the *)
(* address.                                                                *)
_register_as_peer(c) ==
    LET cached == {i \in Indices : shard_cache[c][i] # None} IN
    /\ get[c].at = "register" /\ Go(c, [get[c] EXCEPT !.at = "done"])
    /\ IF cached # {} THEN register_peer(c, cached) /\ swarm' = swarm \cup {c}
       ELSE UNCHANGED <<peer_cache, swarm>>
    /\ UNCHANGED <<rest, version, nodes, shard_cache, nodes_cache, tit_for_tat, started, faults>>

----------------------------------------------------------------------------
(* The others. *)

(* put_delta stores changed shards in place; some nodes keep their old one.*)
UpdateShard(i) ==
    /\ version < MaxVersions /\ i \in up /\ shard[i] # version + 1
    /\ shard' = [shard EXCEPT ![i] = version + 1]
    /\ UNCHANGED <<rest, tracker, up, alive, peers, nodes_cache, tit_for_tat, get, started, faults>>

UpdateRecord ==
    /\ version < MaxVersions /\ version' = version + 1
    /\ UNCHANGED <<rest, peer_cache, nodes, peers, nodes_cache, tit_for_tat, get, started, faults>>

Fault == faults < MaxFaults /\ faults' = faults + 1

NodeStop(i) ==
    /\ i \in up /\ Fault /\ up' = up \ {i}
    /\ UNCHANGED <<rest, tracker, shard, alive, peers, nodes_cache, tit_for_tat, get, started>>

NodeExpire(i) ==
    /\ i \in alive \ up /\ alive' = alive \ {i}
    /\ UNCHANGED <<rest, tracker, shard, up, peers, nodes_cache, tit_for_tat, get, started, faults>>

Heartbeat(i) ==
    /\ {i} \subseteq Indices \ (up \cap alive)
    /\ up' = up \cup {i} /\ alive' = alive \cup {i}
    /\ UNCHANGED <<rest, tracker, shard, peers, nodes_cache, tit_for_tat, get, started, faults>>

(* The process of a client ends and another begins.  The cached shards are *)
(* on disk; the download, the counts and the requests of others are lost.  *)
Restart(c) ==
    LET forgotten == [p \in Clients |-> 0] IN
    /\ Fault /\ swarm' = swarm \ {c}
    /\ get' = [d \in Clients |-> IF d = c THEN Resting
                 ELSE [get[d] EXCEPT !.ask = {x \in @ : x[1] # c}]]
    /\ nodes_cache' = [nodes_cache EXCEPT ![c] = {}]
    /\ received' = [received EXCEPT ![c] = forgotten]
    /\ served' = [served EXCEPT ![c] = forgotten]
    /\ UNCHANGED <<rest, tracker, nodes, shard_cache, ever, started>>

(* A shard is past its time, or evicted for another file's. *)
CacheExpire(c, i) ==
    /\ shard_cache[c][i] # None /\ shard_cache' = [shard_cache EXCEPT ![c][i] = None]
    /\ UNCHANGED <<rest, tracker, nodes, swarm, nodes_cache, tit_for_tat, get, started, faults>>

PeerExpire(c) ==
    /\ peer_cache[c] # None /\ peer_cache' = [peer_cache EXCEPT ![c] = None]
    /\ UNCHANGED <<rest, version, nodes, peers, nodes_cache, tit_for_tat, get, started, faults>>

----------------------------------------------------------------------------
Init ==
    /\ rest \in BOOLEAN /\ version = 1
    /\ shard = [i \in Indices |-> 1] /\ up = Indices /\ alive = Indices
    /\ peer_cache = [c \in Clients |-> None] /\ swarm = Clients
    /\ shard_cache = [c \in Clients |-> [i \in Indices |-> None]]
    /\ nodes_cache = [c \in Clients |-> {}]
    /\ received = [c \in Clients |-> [p \in Clients |-> 0]] /\ served = received
    /\ ever = received
    /\ get = [c \in Clients |-> Resting] /\ started = 0 /\ faults = 0
    /\ steady = [c \in Clients |-> Indices]

DownloadStep(c) ==
    \/ _get_swarm_peers(c) \/ AfterPeers(c) \/ AfterNodes(c) \/ AfterProxy(c)
    \/ Proxy(c) \/ Poll(c) \/ NextPoll(c) \/ _register_as_peer(c)
    \/ \E i \in Indices : \/ FetchOne(c, i)
                          \/ \E p \in Clients : PeerServes(c, p, i) \/ PeerFails(c, p, i)

Step ==
    \/ \E c \in Clients :
          \/ Begin(c) \/ DownloadStep(c) \/ Restart(c) \/ PeerExpire(c)
          \/ \E i \in Indices : CacheExpire(c, i)
    \/ \E i \in Indices : UpdateShard(i) \/ NodeStop(i) \/ NodeExpire(i) \/ Heartbeat(i)
    \/ UpdateRecord

(* The nodes that have the shard the client's record is of, and that it    *)
(* believes or is told to be alive.                                        *)
Available(c) ==
    {i \in up : /\ shard[i] = get[c].rec
                /\ i \in IF ~rest /\ get[c].at = "nodes" THEN nodes_cache[c] ELSE alive}

Watched ==
    steady' = [c \in Clients |->
                 IF get'[c].at \in {"idle", "register", "done"} THEN steady[c]
                 ELSE IF get'[c].at = "meta" THEN Available(c)' \cap
                                (IF get[c].at = "meta" THEN steady[c] ELSE Indices)
                 ELSE steady[c] \cap Available(c)']

Next == Step /\ Watched

Spec == Init /\ [][Next]_vars

----------------------------------------------------------------------------
TypeOK ==
    /\ version \in 1 .. MaxVersions /\ shard \in [Indices -> 1 .. MaxVersions]
    /\ up \subseteq Indices /\ alive \subseteq Indices /\ swarm \subseteq Clients
    /\ \A c \in Clients :
          /\ peer_cache[c] = None \/ peer_cache[c] \subseteq Indices
          /\ shard_cache[c] \in [Indices -> 1 .. MaxVersions \cup {None}]
          /\ get[c].todo \subseteq Missing(c) /\ get[c].polls \in 0 .. MaxPolls
          /\ \A x \in get[c].ask : x[2] \in Missing(c)

(* A download that succeeds has k shards, each of the version its record   *)
(* is of, whatever other versions its peers have cached and its nodes have *)
(* kept: one version is decoded, or none.                                  *)
OneVersion ==
    \A c \in Clients : \A i \in Got(c) : get[c].got[i] = get[c].rec

(* A download fails only for want of shards on nodes: it succeeds when     *)
(* there are k that could have been fetched at any time it ran, whatever   *)
(* its peers list and no longer serve, or serve of other versions.         *)
SteadyIsEnough ==
    \A c \in Clients : get[c].at = "done" /\ ~Enough(c) => Cardinality(steady[c]) < K

(* No client counts more shards from a peer than the peer has served to it,*)
(* in this process or in earlier ones: whichever answers are lost, of other*)
(* versions, or forgotten in restarts of either side, nobody is ranked by  *)
(* contributions it did not make.                                          *)
ReceivedWasServed ==
    \A c, p \in Clients : received[c][p] <= ever[p][c]
=============================================================================
