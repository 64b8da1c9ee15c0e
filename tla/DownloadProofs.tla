--------------------------- MODULE DownloadProofs ---------------------------
(***************************************************************************)
(* What a download promises, for any number of clients, shards, versions,  *)
(* faults and polls.                                                       *)
(***************************************************************************)
EXTENDS Download, FiniteSetTheorems, TLAPS

----------------------------------------------------------------------------
(* The inductive invariant. *)

Versions == 1 .. MaxVersions
Running == {"meta", "peers", "nodes", "proxy", "poll"}

DownloadState ==
    [at: Running \cup {"idle", "register", "done"}, rec: Versions \cup {None},
     todo: SUBSET Indices, ask: SUBSET (Clients \X Indices), polls: 0 .. MaxPolls,
     got: [Indices -> Versions \cup {None}]]

Typed ==
    /\ version \in Versions /\ shard \in [Indices -> Versions]
    /\ up \subseteq Indices /\ alive \subseteq Indices /\ swarm \subseteq Clients
    /\ peer_cache \in [Clients -> (SUBSET Indices) \cup {None}]
    /\ shard_cache \in [Clients -> [Indices -> Versions \cup {None}]]
    /\ nodes_cache \in [Clients -> SUBSET Indices]
    /\ received \in [Clients -> [Clients -> Nat]]
    /\ served \in [Clients -> [Clients -> Nat]]
    /\ ever \in [Clients -> [Clients -> Nat]]
    /\ get \in [Clients -> DownloadState]
    /\ steady \in [Clients -> SUBSET Indices]

(* Nodes are only asked once the peers have answered, and neither for a    *)
(* shard that came; no shard is asked of two peers.                        *)
Asks(c) ==
    /\ get[c].todo \subseteq Missing(c)
    /\ \A x \in get[c].ask : x[2] \in Missing(c)
    /\ \A x, y \in get[c].ask : x[2] = y[2] => x = y
    /\ get[c].at # "peers" => get[c].ask = {}
    /\ get[c].at \notin {"nodes", "proxy", "poll"} => get[c].todo = {}
    /\ get[c].at = "meta" => Got(c) = {}

(* The steady shards are within reach as long as the download runs, and it *)
(* has got those of them that it has asked the nodes for.                  *)
Reach(c, S) ==
    /\ get[c].at = "nodes" /\ ~rest => S \subseteq Got(c) \cup get[c].todo
    /\ get[c].at = "proxy" => rest /\ S \subseteq Got(c) \cup get[c].todo
    /\ get[c].at = "poll" => rest /\ S \subseteq Got(c)
    /\ get[c].at = "register" => Enough(c)
    /\ get[c].at = "done" => Enough(c) \/ S \subseteq Got(c)

InReach(c) == get[c].at \in Running => steady[c] \subseteq Available(c)

RightVersion(c) == \A i \in Got(c) : get[c].got[i] = get[c].rec

Inv ==
    /\ Typed
    /\ \A c \in Clients :
          Asks(c) /\ InReach(c) /\ Reach(c, steady[c]) /\ RightVersion(c)
    /\ ReceivedWasServed

----------------------------------------------------------------------------
(* The nodes are asked in order: a finite set of integers has a least.     *)
LEMMA LeastInside ==
    ASSUME NEW S \in SUBSET Int, IsFiniteSet(S), S # {}
    PROVE  Least(S) \in S
<1> DEFINE Below(i) == {j \in S : j < i}
           n == Cardinality(S)
           f == [i \in S |-> Cardinality(Below(i))]
<1>1. ASSUME NEW i \in S
      PROVE  /\ IsFiniteSet(Below(i)) /\ Cardinality(Below(i)) \in Nat
             /\ Cardinality(Below(i)) < n
  <2>1. Below(i) \in SUBSET S /\ Below(i) # S
    OBVIOUS
  <2> QED
    BY <2>1, FS_Subset, FS_CardinalityType
<1>2. ASSUME NEW i \in S, NEW j \in S, i < j
      PROVE  f[i] # f[j]
  <2>1. ASSUME NEW k \in Below(i) PROVE k \in Below(j)
    BY <1>2
  <2>2. i \in Below(j) /\ i \notin Below(i)
    BY <1>2
  <2> QED
    BY <1>1, <2>1, <2>2, FS_Subset
<1>3. ASSUME \A i \in S : Cardinality(Below(i)) # 0
      PROVE  FALSE
  <2>1. n \in Nat /\ n # 0
    BY FS_CardinalityType, FS_EmptySet
  <2>2. IsFiniteSet(1 .. n - 1) /\ Cardinality(1 .. n - 1) < n
    <3>1. n - 1 \in Int
      BY <2>1
    <3>2. /\ IsFiniteSet(1 .. n - 1)
          /\ Cardinality(1 .. n - 1) = IF 1 > n - 1 THEN 0 ELSE (n - 1) - 1 + 1
      <4> HIDE DEF n
      <4> QED BY <3>1, FS_Interval
    <3> QED
      BY <2>1, <3>2
  <2>3. f \in [S -> 1 .. n - 1]
    BY <1>1, <1>3, <2>1
  <2>4. PICK i, j \in S : i # j /\ f[i] = f[j]
    <3> HIDE DEF f, n
    <3>1. Cardinality(1 .. n - 1) < Cardinality(S)
      BY <2>2 DEF n
    <3> QED BY <2>2, <2>3, <3>1, FS_PigeonHole
  <2> QED
    BY <1>2, <2>4
<1>4. PICK i \in S : Cardinality(Below(i)) = 0
  BY <1>3
<1>5. Below(i) = {}
  BY <1>1, <1>4, FS_EmptySet
<1>6. \A j \in S : i <= j
  BY <1>5
<1> QED
  BY <1>6 DEF Least

(* What a client has not asked of the nodes is a finite set of indices.    *)
LEMMA LeastOfTodo ==
    ASSUME Typed, NEW c \in Clients, get[c].todo # {}
    PROVE  Least(get[c].todo) \in get[c].todo
<1>1. IsFiniteSet(Indices) /\ Indices \in SUBSET Int
  BY DownloadAssumption, FS_Interval DEF Indices
<1>2. get[c].todo \in SUBSET Indices
  BY DEF Typed, DownloadState
<1>3. IsFiniteSet(get[c].todo) /\ get[c].todo \in SUBSET Int
  BY <1>1, <1>2, FS_Subset
<1> QED
  BY <1>3, LeastInside

(* None is no version. *)
LEMMA NoneIsNoVersion == None \notin Versions
BY DownloadAssumption DEF Versions

----------------------------------------------------------------------------
(* The steps of one client's download. *)

Kept(c) ==
    /\ Asks(c)' /\ RightVersion(c)'
    /\ \A S : S \subseteq steady[c] \/ get'[c].at = "meta" => Reach(c, S)'

GetStep(c) ==
    /\ get' \in [Clients -> DownloadState]
    /\ \A e \in Clients : e # c => get'[e] = get[e]
    /\ Kept(c)

(* What a step of a client's download does to its record. *)
LEMMA GoSets ==
    ASSUME Typed, NEW c \in Clients, NEW d \in DownloadState, Go(c, d)
    PROVE  /\ get' \in [Clients -> DownloadState] /\ get'[c] = d
           /\ \A e \in Clients : e # c => get'[e] = get[e]
BY DEF Typed, Go

(* A client that downloads nothing. *)
LEMMA RestingTyped ==
    /\ Resting \in DownloadState
    /\ Resting.todo = {} /\ Resting.ask = {}
<1>1. 0 \in 0 .. MaxPolls
  BY DownloadAssumption
<1>2. [i \in Indices |-> None] \in [Indices -> Versions \cup {None}]
  OBVIOUS
<1> QED
  BY <1>1, <1>2 DEF Resting, DownloadState, Running

(* A download begins with nothing asked and nothing got.                   *)
LEMMA BeginSteps ==
    ASSUME Inv, NEW c \in Clients, Begin(c)
    PROVE  GetStep(c)
<1> DEFINE d == [Resting EXCEPT !.at = "meta", !.rec = version]
<1>1. /\ d \in DownloadState
      /\ d.at = "meta" /\ d.todo = {} /\ d.ask = {} /\ d.got = Resting.got
  BY RestingTyped DEF Inv, Typed, DownloadState, Running
<1>2. Go(c, d)
  BY DEF Begin
<1>3. \A i \in Indices : d.got[i] = None
  BY <1>1 DEF Resting
<1> HIDE DEF d
<1>4. /\ get' \in [Clients -> DownloadState] /\ get'[c] = d
      /\ \A e \in Clients : e # c => get'[e] = get[e]
  BY <1>1, <1>2, GoSets DEF Inv
<1>5. Asks(c)' /\ RightVersion(c)'
  BY <1>1, <1>3, <1>4 DEF Asks, RightVersion, Got, Missing
<1>6. \A S : Reach(c, S)'
  BY <1>1, <1>3, <1>4 DEF Reach
<1> QED
  BY <1>4, <1>5, <1>6 DEF GetStep, Kept


(* A set of at most one element has no two. *)
LEMMA AskedOfOne ==
    ASSUME NEW c \in Clients, NEW ask \in SUBSET (Clients \X Indices),
           \A i \in Indices : Cardinality({x \in ask : x[2] = i}) \in {0, 1}
    PROVE  \A x, y \in ask : x[2] = y[2] => x = y
<1>1. IsFiniteSet(Indices)
  BY DownloadAssumption, FS_Interval DEF Indices
<1>2. IsFiniteSet(Clients \X Indices)
  BY <1>1, DownloadAssumption, FS_Product
<1>3. SUFFICES ASSUME NEW x \in ask, NEW y \in ask, x[2] = y[2]
               PROVE  x = y
  OBVIOUS
<1> DEFINE same == {z \in ask : z[2] = x[2]}
<1>4. IsFiniteSet(same) /\ Cardinality(same) \in {0, 1}
  <2>1. same \in SUBSET (Clients \X Indices) /\ x[2] \in Indices
    OBVIOUS
  <2> QED
    BY <1>2, <2>1, FS_Subset
<1>5. x \in same /\ y \in same
  BY <1>3
<1> HIDE DEF same
<1> QED
  BY <1>4, <1>5, FS_EmptySet, FS_Singleton

(* Each shard that a peer lists is asked of one peer.                      *)
LEMMA AskPeersSteps ==
    ASSUME Inv, NEW c \in Clients, _get_swarm_peers(c)
    PROVE  GetStep(c)
<1>1. PICK ask \in SUBSET ((Clients \ {c}) \X Indices) :
        /\ \A i \in Indices : Cardinality({x \in ask : x[2] = i}) \in {0, 1}
        /\ Go(c, [get[c] EXCEPT !.at = "peers", !.ask = {x \in ask : x[1] \in swarm}])
  BY Zenon DEF _get_swarm_peers
<1> DEFINE asked == {x \in ask : x[1] \in swarm}
           d == [get[c] EXCEPT !.at = "peers", !.ask = asked]
<1>2. ask \in SUBSET (Clients \X Indices) /\ asked \in SUBSET (Clients \X Indices)
  OBVIOUS
<1>3. /\ get[c] \in DownloadState /\ get[c].at = "meta" /\ get[c].todo = {}
      /\ Got(c) = {}
  BY DEF Inv, Typed, Asks, _get_swarm_peers
<1>4. /\ d \in DownloadState /\ d.at = "peers" /\ d.ask = asked
      /\ d.todo = {} /\ d.got = get[c].got
  BY <1>2, <1>3 DEF DownloadState, Running
<1>5. \A x, y \in asked : x[2] = y[2] => x = y
  BY <1>1, <1>2, AskedOfOne
<1> HIDE DEF d, asked
<1>6. /\ get' \in [Clients -> DownloadState] /\ get'[c] = d
      /\ \A e \in Clients : e # c => get'[e] = get[e]
  BY <1>1, <1>4, GoSets DEF Inv, d, asked
<1>7. Asks(c)' /\ RightVersion(c)'
  BY <1>2, <1>3, <1>4, <1>5, <1>6 DEF Asks, RightVersion, Got, Missing
<1>8. \A S : Reach(c, S)'
  BY <1>4, <1>6 DEF Reach
<1> QED
  BY <1>6, <1>7, <1>8 DEF GetStep, Kept

(* A peer's answer comes, or does not. *)
LEMMA PeerAnswersSteps ==
    ASSUME Inv, NEW c \in Clients, NEW p \in Clients, NEW i \in Indices,
           PeerServes(c, p, i) \/ PeerFails(c, p, i)
    PROVE  GetStep(c)
<1> DEFINE kept == [get[c] EXCEPT !.ask = @ \ {<<p, i>>}]
           came == [get[c] EXCEPT !.ask = @ \ {<<p, i>>}, !.got[i] = get[c].rec]
<1>1. PICK d \in {kept, came} : Go(c, d)
  BY DEF PeerServes, PeerFails, Verified
<1>2. /\ get[c] \in DownloadState /\ <<p, i>> \in get[c].ask
      /\ get[c].at = "peers" /\ get[c].todo = {}
  BY DEF Inv, Typed, Asks, PeerServes, PeerFails
<1>3. /\ d \in DownloadState /\ d.at = "peers" /\ d.todo = {}
      /\ d.ask = get[c].ask \ {<<p, i>>} /\ d.rec = get[c].rec
      /\ \/ d.got = get[c].got
         \/ d.got = [get[c].got EXCEPT ![i] = get[c].rec]
  <2>1. CASE d = kept
    BY <1>2, <2>1 DEF DownloadState
  <2>2. CASE d = came
    BY <1>2, <2>2 DEF DownloadState
  <2> QED
    BY <1>1, <2>1, <2>2
<1> HIDE DEF kept, came
<1>4. /\ get' \in [Clients -> DownloadState] /\ get'[c] = d
      /\ \A e \in Clients : e # c => get'[e] = get[e]
  BY <1>1, <1>3, GoSets DEF Inv
<1>5. get[c].got \in [Indices -> Versions \cup {None}] /\ get[c].ask \in SUBSET (Clients \X Indices)
  BY <1>2 DEF DownloadState
<1>6. Asks(c) /\ RightVersion(c)
  BY DEF Inv
<1>7. \A x \in d.ask : x \in get[c].ask /\ x[2] # i
  BY <1>2, <1>3, <1>5, <1>6 DEF Asks
<1>8. Asks(c)' /\ RightVersion(c)'
  BY <1>3, <1>4, <1>5, <1>6, <1>7 DEF Asks, RightVersion, Got, Missing
<1>9. \A S : Reach(c, S)'
  BY <1>3, <1>4 DEF Reach
<1> QED
  BY <1>4, <1>8, <1>9 DEF GetStep, Kept

(* What the node of shard i answers is the shard of the record's version,  *)
(* and it comes if it is steady.                                           *)
LEMMA AnswerIsRight ==
    ASSUME Inv, NEW c \in Clients, NEW i \in Indices, NEW asked \in BOOLEAN
    PROVE  LET a == Answer(c, i, asked)
           IN  /\ a \in {get[c].rec, None} /\ a \in Versions \cup {None}
               /\ asked /\ i \in up /\ shard[i] = get[c].rec => a # None
BY NoneIsNoVersion DEF Answer, Verified, Inv, Typed

(* What was there to fetch has been asked for, and some of it came. *)
LEMMA FetchKeeps ==
    ASSUME Inv, NEW c \in Clients, NEW i \in get[c].todo, NEW a \in Versions \cup {None},
           a \in {get[c].rec, None}, get[c].at \in {"nodes", "proxy", "poll"},
           i \in steady[c] /\ (rest => get[c].at # "nodes") => a # None,
           Go(c, [get[c] EXCEPT !.todo = @ \ {i}, !.got[i] = a]), UNCHANGED rest
    PROVE  GetStep(c)
<1> DEFINE d == [get[c] EXCEPT !.todo = @ \ {i}, !.got[i] = a]
<1>1. /\ get[c] \in DownloadState /\ get[c].ask = {} /\ i \in Indices
      /\ Asks(c) /\ RightVersion(c) /\ Reach(c, steady[c])
  BY DEF Inv, Typed, Asks, DownloadState
<1>2. /\ d \in DownloadState /\ d.at = get[c].at /\ d.rec = get[c].rec /\ d.ask = {}
      /\ d.todo = get[c].todo \ {i} /\ d.got = [get[c].got EXCEPT ![i] = a]
  BY <1>1 DEF DownloadState
<1> HIDE DEF d
<1>3. /\ get' \in [Clients -> DownloadState] /\ get'[c] = d
      /\ \A e \in Clients : e # c => get'[e] = get[e]
  BY <1>2, GoSets DEF Inv, d
<1>4. get[c].got \in [Indices -> Versions \cup {None}] /\ get[c].todo \in SUBSET Indices
  BY <1>1 DEF DownloadState
<1>5. /\ Got(c) \subseteq Got(c)' /\ Got(c)' \subseteq Got(c) \cup {i}
      /\ a # None => i \in Got(c)'
  BY <1>1, <1>2, <1>3, <1>4 DEF Got, Asks, Missing
<1>6. Asks(c)'
  BY <1>1, <1>2, <1>3, <1>4, <1>5 DEF Asks, Missing
<1>7. RightVersion(c)'
  BY <1>1, <1>2, <1>3, <1>4 DEF RightVersion, Got
<1>8. ASSUME NEW S, S \subseteq steady[c]
      PROVE  Reach(c, S)'
  BY <1>1, <1>2, <1>3, <1>5, <1>8 DEF Reach
<1>9. get'[c].at # "meta"
  BY <1>2, <1>3
<1> QED
  BY <1>3, <1>6, <1>7, <1>8, <1>9 DEF GetStep, Kept

(* A download that goes on with the shards it has. *)
LEMMA MovesOn ==
    ASSUME Inv, NEW c \in Clients, get[c].ask = {}, NEW d \in DownloadState, Go(c, d),
           UNCHANGED rest, d.got = get[c].got, d.rec = get[c].rec, d.ask = {},
           d.todo \subseteq Missing(c),
           d.at \notin {"nodes", "proxy", "poll"} => d.todo = {}, d.at # "meta",
           d.at = "nodes" /\ ~rest => d.todo = Missing(c),
           d.at = "proxy" => rest /\ d.todo = Missing(c),
           d.at = "poll" => rest /\ steady[c] \subseteq Got(c),
           d.at = "register" => Enough(c),
           d.at = "done" => Enough(c) \/ steady[c] \subseteq Got(c)
    PROVE  GetStep(c)
<1>1. /\ get' \in [Clients -> DownloadState] /\ get'[c] = d
      /\ \A e \in Clients : e # c => get'[e] = get[e]
  BY GoSets DEF Inv
<1>2. Got(c)' = Got(c) /\ Missing(c)' = Missing(c)
  BY <1>1 DEF Got, Missing
<1>3. Enough(c)' = Enough(c)
  BY <1>2 DEF Enough
<1>4. Asks(c)'
  BY <1>1, <1>2 DEF Asks
<1>5. RightVersion(c)'
  BY <1>1, <1>2 DEF RightVersion, Inv
<1>6. steady[c] \subseteq Got(c) \cup Missing(c)
  BY DEF Inv, Typed, Missing
<1>7. ASSUME NEW S, S \subseteq steady[c]
      PROVE  Reach(c, S)'
  BY <1>1, <1>2, <1>3, <1>6, <1>7 DEF Reach
<1> QED
  BY <1>1, <1>4, <1>5, <1>7 DEF GetStep, Kept

(* A download ends with enough shards or with all that were steady. *)
LEMMA FinishSteps ==
    ASSUME Inv, NEW c \in Clients, Finish(c), get[c].ask = {}, UNCHANGED rest,
           Enough(c) \/ steady[c] \subseteq Got(c)
    PROVE  GetStep(c)
<1> DEFINE d == [get[c] EXCEPT !.at = IF Enough(c) THEN "register" ELSE "done", !.todo = {}]
<1>1. get[c] \in DownloadState
  BY DEF Inv, Typed
<1>2. /\ d \in DownloadState /\ d.at = IF Enough(c) THEN "register" ELSE "done"
      /\ d.todo = {} /\ d.got = get[c].got /\ d.rec = get[c].rec /\ d.ask = get[c].ask
  BY <1>1 DEF DownloadState
<1>3. Go(c, d)
  BY DEF Finish
<1> HIDE DEF d
<1> QED
  BY <1>2, <1>3, MovesOn

(* All shards that peers did not give are asked of nodes.                  *)
LEMMA AfterPeersSteps ==
    ASSUME Inv, NEW c \in Clients, AfterPeers(c)
    PROVE  GetStep(c)
<1>1. CASE Enough(c)
  BY <1>1, FinishSteps DEF AfterPeers
<1>2. CASE ~Enough(c)
  <2> DEFINE d == [get[c] EXCEPT !.at = "nodes", !.todo = Remaining(c)]
  <2>1. get[c] \in DownloadState /\ get[c].ask = {} /\ Remaining(c) = Missing(c)
    BY DEF Inv, Typed, AfterPeers, Remaining
  <2>2. /\ d \in DownloadState /\ d.at = "nodes" /\ d.todo = Missing(c)
        /\ d.got = get[c].got /\ d.rec = get[c].rec /\ d.ask = {}
    BY <2>1 DEF DownloadState, Running, Missing
  <2>3. Go(c, d) /\ UNCHANGED rest
    BY <1>2 DEF AfterPeers
  <2> HIDE DEF d
  <2> QED
    BY <2>1, <2>2, <2>3, MovesOn
<1> QED
  BY <1>1, <1>2

(* A node gives its shard, if it is steady and the client speaks TCP.      *)
LEMMA FetchOneSteps ==
    ASSUME Inv, NEW c \in Clients, NEW i \in Indices, FetchOne(c, i)
    PROVE  GetStep(c)
<1> DEFINE asked == i \in nodes_cache[c] /\ (rest => i \in Direct)
<1>1. /\ i \in get[c].todo /\ get[c].at = "nodes" /\ UNCHANGED rest
      /\ Go(c, [get[c] EXCEPT !.todo = @ \ {i}, !.got[i] = Answer(c, i, asked)])
  BY DEF FetchOne
<1>2. ASSUME i \in steady[c], ~rest
      PROVE  asked /\ i \in up /\ shard[i] = get[c].rec
  BY <1>1, <1>2 DEF Inv, InReach, Running, Available
<1>3. asked \in BOOLEAN
  OBVIOUS
<1> HIDE DEF asked
<1> QED
  BY <1>1, <1>2, <1>3, AnswerIsRight, FetchKeeps

(* Over REST all that is missing is asked of the tracker.                  *)
LEMMA AfterNodesSteps ==
    ASSUME Inv, NEW c \in Clients, AfterNodes(c)
    PROVE  GetStep(c)
<1>1. /\ get[c] \in DownloadState /\ get[c].ask = {}
      /\ ~rest => steady[c] \subseteq Got(c)
  BY DEF Inv, Typed, Asks, Reach, AfterNodes
<1>2. CASE Enough(c) \/ ~rest
  BY <1>1, <1>2, FinishSteps DEF AfterNodes
<1>3. CASE ~Enough(c) /\ rest
  <2> DEFINE d == [get[c] EXCEPT !.at = "proxy", !.todo = Missing(c)]
  <2>1. /\ d \in DownloadState /\ d.at = "proxy" /\ d.todo = Missing(c)
        /\ d.got = get[c].got /\ d.rec = get[c].rec /\ d.ask = {}
    BY <1>1 DEF DownloadState, Running, Missing
  <2>2. Go(c, d) /\ UNCHANGED rest
    BY <1>3 DEF AfterNodes
  <2> HIDE DEF d
  <2> QED
    BY <1>1, <1>3, <2>1, <2>2, MovesOn
<1> QED
  BY <1>2, <1>3

(* The proxy reaches every steady shard. *)
LEMMA RelaySteps ==
    ASSUME Inv, NEW c \in Clients, NEW at \in {"proxy", "poll"},
           handle_shard_fetch(c, at), UNCHANGED rest
    PROVE  GetStep(c)
<1> DEFINE i == Least(get[c].todo)
<1>1. /\ i \in get[c].todo /\ get[c].at \in {"proxy", "poll"}
      /\ Go(c, [get[c] EXCEPT !.todo = @ \ {i}, !.got[i] = Answer(c, i, i \in alive)])
  BY LeastOfTodo DEF handle_shard_fetch, Inv
<1>2. ASSUME i \in steady[c]
      PROVE  i \in alive /\ i \in up /\ shard[i] = get[c].rec
  BY <1>1, <1>2 DEF Inv, InReach, Running, Available
<1>3. i \in Indices
  BY <1>1 DEF Inv, Typed, DownloadState
<1> HIDE DEF i
<1>4. (i \in alive) \in BOOLEAN
  OBVIOUS
<1> QED
  BY <1>1, <1>2, <1>3, <1>4, AnswerIsRight, FetchKeeps

(* Polling begins when every shard has been asked of the tracker.          *)
LEMMA AfterProxySteps ==
    ASSUME Inv, NEW c \in Clients, AfterProxy(c)
    PROVE  GetStep(c)
<1>1. /\ get[c] \in DownloadState /\ get[c].ask = {} /\ rest
      /\ get[c].todo = {} => steady[c] \subseteq Got(c)
  BY DEF Inv, Typed, Asks, Reach, AfterProxy
<1>2. CASE Enough(c)
  BY <1>1, <1>2, FinishSteps DEF AfterProxy
<1>3. CASE ~Enough(c)
  <2> DEFINE d == [get[c] EXCEPT !.at = "poll"]
  <2>1. get[c].todo = {}
    BY <1>3 DEF AfterProxy
  <2>2. /\ d \in DownloadState /\ d.at = "poll" /\ d.todo = {}
        /\ d.got = get[c].got /\ d.rec = get[c].rec /\ d.ask = {}
    BY <1>1, <2>1 DEF DownloadState, Running
  <2>3. Go(c, d) /\ UNCHANGED rest
    BY <1>3 DEF AfterProxy
  <2> HIDE DEF d
  <2> QED
    BY <1>1, <2>1, <2>2, <2>3, MovesOn
<1> QED
  BY <1>2, <1>3

(* A poll asks for all that is missing.                                    *)
LEMMA NextPollSteps ==
    ASSUME Inv, NEW c \in Clients, NextPoll(c)
    PROVE  GetStep(c)
<1>1. /\ get[c] \in DownloadState /\ get[c].ask = {} /\ rest
      /\ steady[c] \subseteq Got(c)
  BY DEF Inv, Typed, Asks, Reach, NextPoll
<1>2. CASE ~(~Enough(c) /\ Waiting(c))
  BY <1>1, <1>2, FinishSteps DEF NextPoll
<1>3. CASE ~Enough(c) /\ Waiting(c)
  <2> DEFINE d == [get[c] EXCEPT !.todo = Missing(c), !.polls = @ + 1]
  <2>1. get[c].polls + 1 \in 0 .. MaxPolls
    BY <1>1, <1>3, DownloadAssumption DEF DownloadState, Waiting
  <2>2. /\ d \in DownloadState /\ d.at = "poll" /\ d.todo = Missing(c)
        /\ d.got = get[c].got /\ d.rec = get[c].rec /\ d.ask = {}
    BY <1>1, <2>1 DEF DownloadState, Missing, NextPoll
  <2>3. Go(c, d) /\ UNCHANGED rest
    BY <1>3 DEF NextPoll
  <2> HIDE DEF d
  <2> QED
    BY <1>1, <2>2, <2>3, MovesOn
<1> QED
  BY <1>2, <1>3

(* A client that registers as a peer has what it wanted.                   *)
LEMMA RegisterSteps ==
    ASSUME Inv, NEW c \in Clients, _register_as_peer(c)
    PROVE  GetStep(c)
<1> DEFINE d == [get[c] EXCEPT !.at = "done"]
<1>1. get[c] \in DownloadState /\ get[c].ask = {} /\ get[c].todo = {} /\ Enough(c)
  BY DEF Inv, Typed, Asks, Reach, _register_as_peer
<1>2. /\ d \in DownloadState /\ d.at = "done" /\ d.todo = {}
      /\ d.got = get[c].got /\ d.rec = get[c].rec /\ d.ask = {}
  BY <1>1 DEF DownloadState
<1>3. Go(c, d) /\ UNCHANGED rest
  BY DEF _register_as_peer
<1> HIDE DEF d
<1> QED
  BY <1>1, <1>2, <1>3, MovesOn

(* Every step of a download, and its beginning. *)
LEMMA DownloadSteps ==
    ASSUME Inv, NEW c \in Clients, Begin(c) \/ DownloadStep(c)
    PROVE  GetStep(c)
<1>1. CASE Begin(c)
  BY <1>1, BeginSteps
<1>2. CASE Proxy(c)
  BY <1>2, RelaySteps DEF Proxy
<1>3. CASE Poll(c)
  BY <1>3, RelaySteps DEF Poll
<1>4. ASSUME NEW i \in Indices, FetchOne(c, i)
      PROVE  GetStep(c)
  BY <1>4, FetchOneSteps
<1>5. ASSUME NEW i \in Indices, NEW p \in Clients, PeerServes(c, p, i) \/ PeerFails(c, p, i)
      PROVE  GetStep(c)
  BY <1>5, PeerAnswersSteps
<1> QED
  BY <1>1, <1>2, <1>3, <1>4, <1>5, AskPeersSteps, AfterPeersSteps, AfterNodesSteps,
     AfterProxySteps, NextPollSteps, RegisterSteps DEF DownloadStep

----------------------------------------------------------------------------
(* Everything else. *)

(* The nodes, the tracker and the caches keep their types. *)
Tables ==
    /\ version \in Versions /\ shard \in [Indices -> Versions]
    /\ up \subseteq Indices /\ alive \subseteq Indices /\ swarm \subseteq Clients
    /\ peer_cache \in [Clients -> (SUBSET Indices) \cup {None}]
    /\ shard_cache \in [Clients -> [Indices -> Versions \cup {None}]]
    /\ nodes_cache \in [Clients -> SUBSET Indices]

(* What a download does to them: it caches, and registers what is cached. *)
LEMMA DownloadKeepsTables ==
    ASSUME Inv, NEW c \in Clients, Begin(c) \/ DownloadStep(c)
    PROVE  Tables' /\ UNCHANGED rest
<1> DEFINE others == <<rest, version, shard, up, alive>>
           cached == [i \in Indices |-> IF i \in Got(c) THEN get[c].got[i] ELSE shard_cache[c][i]]
<1>1. Tables /\ get[c].got \in [Indices -> Versions \cup {None}]
  BY DEF Inv, Typed, Tables, DownloadState
<1>2. cached \in [Indices -> Versions \cup {None}]
  BY <1>1 DEF Tables
<1>3. /\ UNCHANGED others
      /\ swarm' \in {swarm, swarm \cup {c}}
      /\ \/ UNCHANGED shard_cache
         \/ shard_cache' = [shard_cache EXCEPT ![c] = cached]
      /\ UNCHANGED nodes_cache \/ nodes_cache' = [nodes_cache EXCEPT ![c] = alive]
      /\ \/ UNCHANGED peer_cache
         \/ \E s \in SUBSET Indices : peer_cache' = [peer_cache EXCEPT ![c] = s]
  <2>1. CASE Begin(c) \/ _get_swarm_peers(c) \/ Proxy(c) \/ Poll(c)
    BY <2>1 DEF Begin, _get_swarm_peers, Proxy, Poll, nodes, tracker, peers
  <2>2. CASE AfterPeers(c) \/ AfterNodes(c) \/ AfterProxy(c) \/ NextPoll(c)
    BY <2>2 DEF AfterPeers, AfterNodes, AfterProxy, NextPoll, Finish, get_alive_nodes,
                nodes, tracker
  <2>3. CASE _register_as_peer(c)
    <3>1. {i \in Indices : shard_cache[c][i] # None} \in SUBSET Indices
      OBVIOUS
    <3> QED
      BY <2>3, <3>1 DEF _register_as_peer, register_peer, nodes, peers
  <2>4. ASSUME NEW i \in Indices, NEW p \in Clients,
               PeerServes(c, p, i) \/ PeerFails(c, p, i)
        PROVE  UNCHANGED <<others, swarm, shard_cache, nodes_cache, peer_cache>>
    BY <2>4 DEF PeerServes, PeerFails, nodes, tracker, peers
  <2>5. ASSUME NEW i \in Indices, FetchOne(c, i)
        PROVE  UNCHANGED <<others, swarm, shard_cache, nodes_cache, peer_cache>>
    BY <2>5 DEF FetchOne, nodes, tracker, peers
  <2> QED
    BY <2>1, <2>2, <2>3, <2>4, <2>5 DEF DownloadStep
<1> HIDE DEF cached
<1>4. shard_cache' \in [Clients -> [Indices -> Versions \cup {None}]]
  BY <1>1, <1>2, <1>3 DEF Tables
<1>5. nodes_cache' \in [Clients -> SUBSET Indices]
  BY <1>1, <1>3 DEF Tables
<1>6. peer_cache' \in [Clients -> (SUBSET Indices) \cup {None}]
  BY <1>1, <1>3 DEF Tables
<1> QED
  BY <1>1, <1>3, <1>4, <1>5, <1>6 DEF Tables

(* The steps of nodes, of the owner, and of clients between downloads. *)
Elsewhere ==
    \/ \E c \in Clients :
          \/ PeerExpire(c)
          \/ \E i \in Indices : CacheExpire(c, i)
    \/ \E i \in Indices : UpdateShard(i) \/ NodeStop(i) \/ NodeExpire(i) \/ Heartbeat(i)
    \/ UpdateRecord

(* They touch no download and no count.                                    *)
LEMMA ElsewhereKeepsTables ==
    ASSUME Inv, Elsewhere
    PROVE  Tables' /\ UNCHANGED <<rest, get, received, served, ever>>
<1>1. Tables
  BY DEF Inv, Typed, Tables
<1>2. ASSUME NEW c \in Clients, PeerExpire(c)
      PROVE  Tables' /\ UNCHANGED <<rest, get, received, served, ever>>
  BY <1>1, <1>2 DEF Tables, PeerExpire, nodes, tracker, peers, tit_for_tat
<1>3. ASSUME NEW c \in Clients, NEW i \in Indices, CacheExpire(c, i)
      PROVE  Tables' /\ UNCHANGED <<rest, get, received, served, ever>>
  BY <1>1, <1>3 DEF Tables, CacheExpire, nodes, tracker, tit_for_tat
<1>4. ASSUME version < MaxVersions
      PROVE  version + 1 \in Versions
  BY <1>1, <1>4, DownloadAssumption DEF Tables, Versions
<1>5. ASSUME NEW i \in Indices, UpdateShard(i)
      PROVE  Tables' /\ UNCHANGED <<rest, get, received, served, ever>>
  BY <1>1, <1>4, <1>5 DEF Tables, UpdateShard, tracker, peers, tit_for_tat
<1>6. CASE UpdateRecord
  BY <1>1, <1>4, <1>6 DEF Tables, UpdateRecord, nodes, peers, tit_for_tat
<1>7. ASSUME NEW i \in Indices, NodeStop(i) \/ NodeExpire(i) \/ Heartbeat(i)
      PROVE  Tables' /\ UNCHANGED <<rest, get, received, served, ever>>
  BY <1>1, <1>7 DEF Tables, NodeStop, NodeExpire, Heartbeat, tracker, peers, tit_for_tat
<1> QED
  BY <1>2, <1>3, <1>5, <1>6, <1>7 DEF Elsewhere

(* A peer serves a shard no later than the client counts it. *)
Counts ==
    /\ received \in [Clients -> [Clients -> Nat]]
    /\ served \in [Clients -> [Clients -> Nat]]
    /\ ever \in [Clients -> [Clients -> Nat]]
    /\ ReceivedWasServed

(* Whatever a step counts at the client the peer has served.               *)
LEMMA DownloadKeepsCounts ==
    ASSUME Inv, NEW c \in Clients, Begin(c) \/ DownloadStep(c)
    PROVE  Counts'
<1>1. Counts
  BY DEF Inv, Typed, Counts
<1>2. ASSUME NEW p \in Clients, NEW i \in Indices, PeerServes(c, p, i) \/ PeerFails(c, p, i)
      PROVE  Counts'
  <2>1. /\ served' \in {served, More(served, p, c)}
        /\ ever' \in {ever, More(ever, p, c)}
        /\ \/ UNCHANGED received
           \/ received' = More(received, c, p) /\ ever' = More(ever, p, c)
    BY <1>2 DEF PeerServes, PeerFails, record_served
  <2>2. /\ More(received, c, p) \in [Clients -> [Clients -> Nat]]
        /\ \A d, q \in Clients : More(received, c, p)[d][q] =
              IF d = c /\ q = p THEN received[d][q] + 1 ELSE received[d][q]
        /\ More(served, p, c) \in [Clients -> [Clients -> Nat]]
        /\ More(ever, p, c) \in [Clients -> [Clients -> Nat]]
        /\ \A d, q \in Clients : More(ever, p, c)[d][q] =
              IF d = p /\ q = c THEN ever[d][q] + 1 ELSE ever[d][q]
    <3>1. /\ received \in [Clients -> [Clients -> Nat]]
          /\ served \in [Clients -> [Clients -> Nat]]
          /\ ever \in [Clients -> [Clients -> Nat]]
      BY <1>1 DEF Counts
    <3>2. /\ More(received, c, p) \in [Clients -> [Clients -> Nat]]
          /\ \A d, q \in Clients : More(received, c, p)[d][q] =
                IF d = c /\ q = p THEN received[d][q] + 1 ELSE received[d][q]
      BY <3>1 DEF More
    <3>3. More(served, p, c) \in [Clients -> [Clients -> Nat]]
      BY <3>1 DEF More
    <3>4. /\ More(ever, p, c) \in [Clients -> [Clients -> Nat]]
          /\ \A d, q \in Clients : More(ever, p, c)[d][q] =
                IF d = p /\ q = c THEN ever[d][q] + 1 ELSE ever[d][q]
      BY <3>1 DEF More
    <3> QED
      BY <3>2, <3>3, <3>4
  <2>3. ASSUME NEW d \in Clients, NEW q \in Clients
        PROVE  received'[d][q] <= ever'[q][d]
    <3>1. received[d][q] <= ever[q][d] /\ received[d][q] \in Nat /\ ever[q][d] \in Nat
      BY <1>1 DEF Counts, ReceivedWasServed
    <3> QED
      BY <2>1, <2>2, <3>1
  <2> QED
    BY <1>1, <2>1, <2>2, <2>3 DEF Counts, ReceivedWasServed
<1>3. ASSUME UNCHANGED <<received, served, ever>>
      PROVE  Counts'
  BY <1>1, <1>3 DEF Counts, ReceivedWasServed
<1>4. ASSUME NEW i \in Indices, FetchOne(c, i)
      PROVE  UNCHANGED <<received, served, ever>>
  BY <1>4 DEF FetchOne, tit_for_tat
<1>5. CASE Begin(c) \/ _get_swarm_peers(c) \/ AfterPeers(c) \/ AfterNodes(c) \/ AfterProxy(c)
  BY <1>3, <1>5 DEF Begin, _get_swarm_peers, AfterPeers, AfterNodes, AfterProxy, tit_for_tat
<1>6. CASE Proxy(c) \/ Poll(c) \/ NextPoll(c) \/ _register_as_peer(c)
  BY <1>3, <1>6 DEF Proxy, Poll, NextPoll, _register_as_peer, tit_for_tat
<1> QED
  BY <1>2, <1>3, <1>4, <1>5, <1>6 DEF DownloadStep

(* A client that restarts forgets what it got, and others lose nothing but *)
(* their requests to it.                                                   *)
LEMMA RestartSteps ==
    ASSUME Inv, NEW c \in Clients, Restart(c)
    PROVE  /\ Tables' /\ Counts' /\ UNCHANGED rest
           /\ get' \in [Clients -> DownloadState]
           /\ \A d \in Clients : Kept(d)
<1>1. Typed /\ \A d \in Clients : Asks(d) /\ RightVersion(d) /\ Reach(d, steady[d])
  BY DEF Inv
<1>2. Tables' /\ UNCHANGED rest
  BY <1>1 DEF Typed, Tables, Restart, nodes, tracker
<1>3. Counts'
  <2> DEFINE forgotten == [p \in Clients |-> 0]
  <2>1. forgotten \in [Clients -> Nat] /\ \A p \in Clients : forgotten[p] = 0
    OBVIOUS
  <2>2. /\ received' = [received EXCEPT ![c] = forgotten]
        /\ served' = [served EXCEPT ![c] = forgotten] /\ ever' = ever
    BY DEF Restart
  <2> HIDE DEF forgotten
  <2>3. /\ received' \in [Clients -> [Clients -> Nat]]
        /\ served' \in [Clients -> [Clients -> Nat]]
        /\ ever' \in [Clients -> [Clients -> Nat]]
    BY <1>1, <2>1, <2>2 DEF Typed
  <2>4. ASSUME NEW d \in Clients, NEW q \in Clients
        PROVE  received'[d][q] <= ever'[q][d]
    <3>1. received[d][q] <= ever[q][d] /\ ever[q][d] \in Nat
      BY <1>1 DEF Inv, ReceivedWasServed, Typed
    <3>2. received'[d][q] \in {received[d][q], 0}
      BY <1>1, <2>1, <2>2 DEF Typed
    <3> QED
      BY <2>2, <3>1, <3>2
  <2> QED
    BY <2>3, <2>4 DEF Counts, ReceivedWasServed
<1> DEFINE left(d) == [get[d] EXCEPT !.ask = {x \in @ : x[1] # c}]
<1>4. ASSUME NEW d \in Clients
      PROVE  /\ left(d) \in DownloadState
             /\ left(d).at = get[d].at /\ left(d).rec = get[d].rec
             /\ left(d).todo = get[d].todo /\ left(d).got = get[d].got
             /\ left(d).ask \subseteq get[d].ask
  <2>1. get[d] \in DownloadState
    BY <1>1 DEF Typed
  <2> QED
    BY <2>1 DEF DownloadState
<1>5. get' = [d \in Clients |-> IF d = c THEN Resting ELSE left(d)]
  BY DEF Restart
<1> HIDE DEF left
<1>6. get' \in [Clients -> DownloadState]
  BY <1>4, <1>5, RestingTyped
<1>7. Kept(c)
  <2>1. /\ get'[c] = Resting /\ Resting.at = "idle"
        /\ \A i \in Indices : Resting.got[i] = None
    BY <1>5 DEF Resting
  <2> QED
    BY <2>1, RestingTyped DEF Kept, Asks, RightVersion, Reach, Got
<1>8. ASSUME NEW d \in Clients, d # c
      PROVE  Kept(d)
  <2>1. get'[d] = left(d)
    BY <1>5, <1>8
  <2>2. Got(d)' = Got(d) /\ Missing(d)' = Missing(d)
    BY <1>4, <2>1 DEF Got, Missing
  <2>3. Enough(d)' = Enough(d)
    BY <2>2 DEF Enough
  <2>4. Asks(d)'
    BY <1>1, <1>4, <2>1, <2>2 DEF Asks
  <2>5. RightVersion(d)'
    BY <1>1, <1>4, <2>1, <2>2 DEF RightVersion
  <2>6. ASSUME NEW S, S \subseteq steady[d] \/ get'[d].at = "meta"
        PROVE  Reach(d, S)'
    BY <1>1, <1>2, <1>4, <2>1, <2>2, <2>3, <2>6 DEF Reach
  <2> QED
    BY <2>4, <2>5, <2>6 DEF Kept
<1> QED
  BY <1>2, <1>3, <1>6, <1>7, <1>8

(* The steady shards are at most those that are available now and, unless  *)
(* the download begins, were steady before.                                *)
LEMMA SteadyShrinks ==
    ASSUME Inv, Watched, Tables', get' \in [Clients -> DownloadState]
    PROVE  /\ steady' \in [Clients -> SUBSET Indices]
           /\ \A c \in Clients :
                 /\ InReach(c)'
                 /\ steady'[c] \subseteq steady[c] \/ get'[c].at = "meta"
<1>1. \A c \in Clients : Available(c)' \subseteq Indices
  BY DEF Available, Tables
<1>2. steady \in [Clients -> SUBSET Indices]
  BY DEF Inv, Typed
<1>3. \A c \in Clients : get'[c].at \in Running \cup {"idle", "register", "done"}
  BY DEF DownloadState
<1>4. ASSUME NEW c \in Clients
      PROVE  /\ get'[c].at \in Running => steady'[c] \subseteq Available(c)'
             /\ steady'[c] \subseteq steady[c] \/ get'[c].at = "meta"
             /\ steady'[c] \subseteq Indices
  <2>1. steady'[c] =
          IF get'[c].at \in {"idle", "register", "done"} THEN steady[c]
          ELSE IF get'[c].at = "meta"
               THEN Available(c)' \cap (IF get[c].at = "meta" THEN steady[c] ELSE Indices)
               ELSE steady[c] \cap Available(c)'
    BY Zenon DEF Watched
  <2> QED
    BY <1>1, <1>2, <1>3, <2>1 DEF Running
<1>5. steady' \in [Clients -> SUBSET Indices]
  <2>1. \E f : steady' = [c \in Clients |-> f[c]]
    <3>1. steady' = [c \in Clients |-> steady'[c]]
      BY DEF Watched
    <3> QED
      BY <3>1
  <2> QED
    BY <1>4, <2>1
<1> QED
  BY <1>4, <1>5 DEF InReach

----------------------------------------------------------------------------
(* The invariant. *)

(* Nothing is downloaded at first.                                         *)
LEMMA InitInv == Init => Inv
<1> SUFFICES ASSUME Init PROVE Inv
  OBVIOUS
<1>1. 1 \in Versions
  BY DownloadAssumption DEF Versions
<1>2. Typed
  BY <1>1, RestingTyped DEF Init, Typed
<1>3. ASSUME NEW c \in Clients
      PROVE  Asks(c) /\ InReach(c) /\ Reach(c, steady[c]) /\ RightVersion(c)
  <2>1. get[c] = Resting /\ Resting.at = "idle" /\ \A i \in Indices : Resting.got[i] = None
    BY DEF Init, Resting
  <2> QED
    BY <2>1, RestingTyped DEF Asks, InReach, Reach, RightVersion, Running, Got
<1>4. ReceivedWasServed
  BY DEF Init, ReceivedWasServed
<1> QED
  BY <1>2, <1>3, <1>4 DEF Inv

(* Every step keeps the invariant.                                         *)
LEMMA NextInv == Inv /\ [Next]_vars => Inv'
<1> SUFFICES ASSUME Inv, [Next]_vars PROVE Inv'
  OBVIOUS
<1>1. CASE UNCHANGED vars
  <2>1. /\ Typed' = Typed /\ ReceivedWasServed' = ReceivedWasServed
        /\ UNCHANGED <<get, steady, rest, up, alive, shard, nodes_cache>>
    BY <1>1 DEF vars, tracker, nodes, peers, tit_for_tat, Typed, ReceivedWasServed
  <2>2. ASSUME NEW c \in Clients
        PROVE  (Asks(c) /\ InReach(c) /\ Reach(c, steady[c]) /\ RightVersion(c))'
    BY <2>1, <2>2 DEF Inv, Asks, InReach, Reach, RightVersion, Got, Missing, Enough, Available
  <2> QED
    BY <2>1, <2>2 DEF Inv
<1>2. CASE Next
  <2>1. /\ Watched
        /\ Elsewhere \/ \E c \in Clients : Begin(c) \/ DownloadStep(c) \/ Restart(c)
    BY <1>2 DEF Next, Step, Elsewhere
  <2> DEFINE Good == /\ Tables' /\ Counts' /\ UNCHANGED rest
                     /\ get' \in [Clients -> DownloadState]
                     /\ \A c \in Clients : get'[c] = get[c] \/ Kept(c)
  <2>2. Good
    <3>1. CASE Elsewhere
      BY <3>1, ElsewhereKeepsTables DEF Inv, Typed, Counts, ReceivedWasServed
    <3>2. ASSUME NEW c \in Clients, Begin(c) \/ DownloadStep(c)
          PROVE  Good
      BY <3>2, DownloadSteps, DownloadKeepsTables, DownloadKeepsCounts DEF GetStep
    <3>3. ASSUME NEW c \in Clients, Restart(c)
          PROVE  Good
      BY <3>3, RestartSteps
    <3> QED
      BY <2>1, <3>1, <3>2, <3>3
  <2>3. /\ steady' \in [Clients -> SUBSET Indices]
        /\ \A c \in Clients :
              /\ InReach(c)'
              /\ steady'[c] \subseteq steady[c] \/ get'[c].at = "meta"
    BY <2>1, <2>2, SteadyShrinks
  <2>4. Typed'
    BY <2>2, <2>3 DEF Typed, Tables, Counts
  <2>5. ASSUME NEW c \in Clients
        PROVE  Asks(c)' /\ RightVersion(c)' /\ Reach(c, steady[c])'
    <3>1. CASE Kept(c)
      BY <2>3, <3>1 DEF Kept, Reach, Got, Enough
    <3>2. CASE get'[c] = get[c]
      <4>1. Got(c)' = Got(c) /\ Missing(c)' = Missing(c)
        BY <3>2 DEF Got, Missing
      <4>2. Enough(c)' = Enough(c)
        BY <4>1 DEF Enough
      <4>3. Asks(c)' /\ RightVersion(c)'
        BY <3>2, <4>1 DEF Asks, RightVersion, Inv
      <4>4. Reach(c, steady[c]) /\ (get[c].at = "meta" \/ steady'[c] \subseteq steady[c])
        BY <2>3, <3>2 DEF Inv
      <4>5. Reach(c, steady[c])'
        BY <2>2, <3>2, <4>1, <4>2, <4>4 DEF Reach
      <4> QED
        BY <4>3, <4>5
    <3> QED
      BY <2>2, <3>1, <3>2
  <2> QED
    BY <2>2, <2>3, <2>4, <2>5 DEF Inv, Counts
<1> QED
  BY <1>1, <1>2

(* The invariant holds.                                                    *)
LEMMA AlwaysInv == Spec => []Inv
BY InitInv, NextInv, PTL DEF Spec

(* The tables, the caches and the downloads have their types: nothing is   *)
(* asked for that has come, and no download polls more than it may.        *)
THEOREM TypeCorrect == Spec => []TypeOK
<1>1. Inv => TypeOK
  BY DEF Inv, Typed, TypeOK, Asks, DownloadState, Versions
<1> QED
  BY <1>1, AlwaysInv, PTL

(* Whatever versions peers have cached and nodes have kept, the shards of  *)
(* a download (_fetch_shards) are of the version of its record.            *)
THEOREM DownloadsOneVersion == Spec => []OneVersion
<1>1. Inv => OneVersion
  BY DEF Inv, RightVersion, OneVersion
<1> QED
  BY <1>1, AlwaysInv, PTL

(* A download fails only if fewer than k shards could have been fetched at *)
(* every moment of it: peers that lost their shards, nodes without a URL   *)
(* and old lists of nodes cannot make it fail.                             *)
THEOREM SteadyShardsAreEnough == Spec => []SteadyIsEnough
<1>1. Inv => SteadyIsEnough
  <2> SUFFICES ASSUME Inv, NEW c \in Clients, get[c].at = "done", ~Enough(c)
               PROVE  Cardinality(steady[c]) < K
    BY DEF SteadyIsEnough
  <2>1. steady[c] \subseteq Got(c)
    BY DEF Inv, Reach
  <2>2. IsFiniteSet(Got(c))
    <3>1. IsFiniteSet(Indices)
      BY DownloadAssumption, FS_Interval DEF Indices
    <3>2. Got(c) \in SUBSET Indices
      BY DEF Got
    <3> QED
      BY <3>1, <3>2, FS_Subset
  <2>3. /\ Cardinality(steady[c]) <= Cardinality(Got(c)) /\ Cardinality(Got(c)) \in Nat
        /\ Cardinality(steady[c]) \in Nat
    BY <2>1, <2>2, FS_Subset, FS_CardinalityType
  <2> QED
    BY <2>3, DownloadAssumption DEF Enough
<1> QED
  BY <1>1, AlwaysInv, PTL

(* No client counts more from a peer than the peer has ever served to it,  *)
(* though either of them forgets its counts when it restarts.              *)
THEOREM PeersAreCountedFairly == Spec => []ReceivedWasServed
<1>1. Inv => ReceivedWasServed
  BY DEF Inv
<1> QED
  BY <1>1, AlwaysInv, PTL
=============================================================================
