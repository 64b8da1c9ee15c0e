----------------------------- MODULE FileStore -----------------------------
(***************************************************************************)
(* Upload and deletion of whole files: EpicClient.put and delete against   *)
(* the metadata tracker and the storage nodes, over TCP or over the REST   *)
(* interface, with cross-user dedup.                                       *)
(*                                                                         *)
(* A client's operation is a sequence of requests; any number of steps of  *)
(* other clients may come between two of them.  A convergent file has its  *)
(* content for an id; any other file has the path it was stored under.     *)
(* What a shard holds is abstracted to the content and the key it was      *)
(* encrypted with.  Nodes here have room for every shard and lose none:    *)
(* StorageNode models the ones that do not.                                *)
(***************************************************************************)
EXTENDS Integers, FiniteSets

CONSTANTS
    Clients, Owners,    \* running clients, and the identities they act for
    Owner,              \* client -> its owner
    Contents,           \* plaintexts; also the ids of convergent files
    Paths,              \* ids of files stored with a random key
    PathOwner,          \* path -> the owner its id is derived from
    Length,             \* content -> length of its shards
    Nodes,
    NShards,            \* k + m, the same for every client
    MaxKeys,            \* bound: random keys generated in a behaviour
    MaxRestarts,        \* bound: tracker restarts
    None

Files == Contents \cup Paths
Indices == 0 .. NShards - 1

ASSUME OwnersAssumption == /\ Owner \in [Clients -> Owners]
                           /\ PathOwner \in [Paths -> Owners]
                           /\ Contents \cap Paths = {}
ASSUME LengthAssumption == Length \in [Contents -> Nat]
ASSUME ShardsAssumption == NShards \in Nat \ {0}
ASSUME BoundsAssumption == MaxKeys \in Nat /\ MaxRestarts \in Nat

VARIABLES
    rest,           \* the deployment speaks REST rather than TCP
    files,          \* tracker: file id -> its FileMeta, or None
    content_index,  \* tracker: content hash -> file id, or None
    shard,          \* <<node, file, index>> -> what the node stores, or None
    op,             \* client -> its operation in progress
    strays,         \* uploads still running after their put has failed
    keys,           \* random keys generated so far
    restarts,       \* tracker restarts so far
    torn,           \* history: files that lost shards to a delete since the
                    \*          upload their record describes began
    crossed         \* history: clients whose upload met such a delete

tracker == <<files, content_index>>
history == <<torn, crossed>>
vars == <<rest, files, content_index, shard, op, strays, keys, restarts, torn, crossed>>

ConvergentKey == 0
Payload == [of: Contents, key: 0 .. MaxKeys]
Placement == [Indices -> Nodes \cup {None}]
NoShards == [i \in Indices |-> None]

Record == [owner: Owners, refs: SUBSET Owners, map: Placement, data: Payload]

ASSUME NoneAssumption == None \notin Nodes \cup Files \cup Payload \cup Record

Idle == [at |-> "idle", file |-> None, data |-> None, map |-> NoShards]
Operation(at, f, d, map) == [at |-> at, file |-> f, data |-> d, map |-> map]

(* Seeded bug: the operation ends, but its placement is left behind. *)
EndedKeepingMap(c) == [op EXCEPT ![c].at = "idle"]

Ended(c) == [op EXCEPT ![c] = Idle]

----------------------------------------------------------------------------
(* put *)

(* A convergent put first asks the tracker for its content. *)
PutConvergent(c, content) ==
    /\ op[c] = Idle
    /\ op' = [op EXCEPT ![c] = Operation("check", content,
                 [of |-> content, key |-> ConvergentKey], NoShards)]
    /\ UNCHANGED <<rest, tracker, shard, strays, keys, restarts, history>>

PutPrivate(c, path, content) ==
    /\ op[c] = Idle
    /\ PathOwner[path] = Owner[c]
    /\ keys < MaxKeys
    /\ keys' = keys + 1
    /\ op' = [op EXCEPT ![c] = Operation("upload", path,
                 [of |-> content, key |-> keys + 1], NoShards)]
    /\ UNCHANGED <<rest, tracker, shard, strays, restarts, history>>

(* DEDUP_CHECK: a hit is an indexed file that still has a record. *)
DedupCheck(c) ==
    /\ op[c].at = "check"
    /\ LET hit == content_index[op[c].data.of] IN
       IF hit # None /\ files[hit] # None
       THEN op' = [op EXCEPT ![c] = Operation("register", hit, @.data, NoShards)]
       ELSE op' = [op EXCEPT ![c] = Operation("upload", @.file, @.data, NoShards)]
    /\ UNCHANGED <<rest, tracker, shard, strays, keys, restarts, history>>

AddRef(r, owner) == [r EXCEPT !.refs = @ \cup {owner}]

(* DEDUP_REGISTER.  If the file is gone by now the tracker answers with an *)
(* error: put raises over REST and returns as if registered over TCP.      *)
DedupRegister(c) ==
    /\ op[c].at = "register"
    /\ files' = IF files[op[c].file] = None THEN files
                ELSE [files EXCEPT ![op[c].file] = AddRef(@, Owner[c])]
    /\ op' = Ended(c)
    /\ UNCHANGED <<rest, content_index, shard, strays, keys, restarts, history>>

(* A node writes nothing over a shard of the same length. *)
Write(n, f, i, d) ==
    LET old == shard[<<n, f, i>>] IN
    shard' = IF old # None /\ Length[old.of] = Length[d.of] THEN shard
             ELSE [shard EXCEPT ![<<n, f, i>>] = d]

(* All shards are uploaded at once; n is the first node of the ring after  *)
(* i that is not full, for the alive nodes this client has seen.           *)
UploadShard(c, i, n) ==
    /\ op[c].at = "upload" /\ op[c].map[i] = None
    /\ Write(n, op[c].file, i, op[c].data)
    /\ op' = [op EXCEPT ![c] =
          Operation("upload", @.file, @.data, [@.map EXCEPT ![i] = n])]
    /\ UNCHANGED <<rest, tracker, strays, keys, restarts, history>>

(* Seeded bug: the record is stored while uploads are still running. *)
SomeUploaded(o) == \E i \in Indices : o.map[i] # None

AllUploaded(o) == \A i \in Indices : o.map[i] # None

(* STORE_META replaces any record of that id; only TCP indexes the content. *)
StoreMeta(c) ==
    /\ op[c].at = "upload" /\ AllUploaded(op[c])
    /\ files' = [files EXCEPT ![op[c].file] =
          [owner |-> Owner[c], refs |-> {}, map |-> op[c].map, data |-> op[c].data]]
    /\ content_index' = IF op[c].file \in Contents /\ ~rest
                        THEN [content_index EXCEPT ![op[c].data.of] = op[c].file]
                        ELSE content_index
    /\ op' = Ended(c)
    /\ torn' = IF c \in crossed THEN torn \cup {op[c].file} ELSE torn \ {op[c].file}
    /\ crossed' = crossed \ {c}
    /\ UNCHANGED <<rest, shard, strays, keys, restarts>>

(* A request fails or is not answered: put raises, and gather leaves the   *)
(* uploads it was waiting for running.  One that fails never lands.        *)
PutFails(c) ==
    /\ op[c].at \in {"check", "register", "upload"}
    /\ strays' = IF op[c].at # "upload" THEN strays
                 ELSE strays \cup {[file |-> op[c].file, index |-> i, data |-> op[c].data] :
                                     i \in {j \in Indices : op[c].map[j] = None}}
    /\ op' = Ended(c)
    /\ crossed' = crossed \ {c}
    /\ UNCHANGED <<rest, tracker, shard, keys, restarts, torn>>

StrayLands(x, n) ==
    /\ x \in strays
    /\ Write(n, x.file, x.index, x.data)
    /\ strays' = strays \ {x}
    /\ UNCHANGED <<rest, tracker, op, keys, restarts, history>>

----------------------------------------------------------------------------
(* delete *)

(* The record is fetched, and its owner compared, once. *)
DeleteBegin(c, f) ==
    /\ op[c] = Idle
    /\ files[f] # None /\ files[f].owner = Owner[c]
    /\ op' = [op EXCEPT ![c] = Operation("delete", f, None, files[f].map)]
    /\ UNCHANGED <<rest, tracker, shard, strays, keys, restarts, history>>

(* Shards go in the order of the map; one that fails is passed over. *)
DeleteShard(c, i) ==
    /\ op[c].at = "delete" /\ op[c].map[i] # None
    /\ \A j \in Indices : j < i => op[c].map[j] = None
    /\ op' = [op EXCEPT ![c] =
          Operation("delete", @.file, None, [@.map EXCEPT ![i] = None])]
    /\ \/ /\ shard' = [shard EXCEPT ![<<op[c].map[i], op[c].file, i>>] = None]
          /\ torn' = torn \cup {f \in {op[c].file} : files[f] # None}
          /\ crossed' = crossed \cup
                {b \in Clients : op[b].at = "upload" /\ op[b].file = op[c].file}
       \/ UNCHANGED <<shard, history>>
    /\ UNCHANGED <<rest, tracker, strays, keys, restarts>>

(* Seeded bug: the index keeps the hash of a deleted file. *)
StillIndexed(r) == content_index

Unindexed(r) == [content_index EXCEPT ![r.data.of] = None]

(* DELETE_META.  Over TCP the request names no owner: a record with owner  *)
(* references is kept as it is, any other is removed, and its hash leaves  *)
(* the index whether or not the file was convergent.  Over REST only the   *)
(* owner of the record as it is now is obeyed, and the references and the  *)
(* index are not looked at.                                                *)
DeleteMeta(c) ==
    LET f == op[c].file IN
    /\ op[c].at = "delete" /\ op[c].map = NoShards
    /\ IF \/ files[f] = None
          \/ ~rest /\ files[f].refs # {}
          \/ rest /\ files[f].owner # Owner[c]
       THEN UNCHANGED tracker
       ELSE /\ files' = [files EXCEPT ![f] = None]
            /\ content_index' = IF rest THEN content_index ELSE Unindexed(files[f])
    /\ op' = Ended(c)
    /\ torn' = {g \in torn : files'[g] # None}
    /\ UNCHANGED <<rest, shard, strays, keys, restarts, crossed>>

DeleteFails(c) ==
    /\ op[c].at = "delete"
    /\ op' = Ended(c)
    /\ UNCHANGED <<rest, tracker, shard, strays, keys, restarts, history>>

----------------------------------------------------------------------------
(* The tracker keeps its tables in memory. *)
TrackerRestart ==
    /\ restarts < MaxRestarts
    /\ restarts' = restarts + 1
    /\ files' = [f \in Files |-> None]
    /\ content_index' = [h \in Contents |-> None]
    /\ torn' = {}
    /\ UNCHANGED <<rest, shard, op, strays, keys, crossed>>

Init ==
    /\ rest \in BOOLEAN
    /\ files = [f \in Files |-> None]
    /\ content_index = [h \in Contents |-> None]
    /\ shard = [x \in Nodes \X Files \X Indices |-> None]
    /\ op = [c \in Clients |-> Idle]
    /\ strays = {} /\ keys = 0 /\ restarts = 0
    /\ torn = {} /\ crossed = {}

Next ==
    \/ \E c \in Clients :
          \/ \E h \in Contents : PutConvergent(c, h)
          \/ \E p \in Paths, h \in Contents : PutPrivate(c, p, h)
          \/ \E i \in Indices, n \in Nodes : UploadShard(c, i, n)
          \/ \E f \in Files : DeleteBegin(c, f)
          \/ \E i \in Indices : DeleteShard(c, i)
          \/ DedupCheck(c) \/ DedupRegister(c) \/ StoreMeta(c) \/ PutFails(c)
          \/ DeleteMeta(c) \/ DeleteFails(c)
    \/ \E x \in strays, n \in Nodes : StrayLands(x, n)
    \/ TrackerRestart

Spec == Init /\ [][Next]_vars

----------------------------------------------------------------------------
Operations ==
    {Idle} \cup
    [at: {"check", "register"}, file: Contents, data: Payload, map: {NoShards}] \cup
    [at: {"upload"}, file: Files, data: Payload, map: Placement] \cup
    [at: {"delete"}, file: Files, data: {None}, map: Placement]

TypeOK ==
    /\ rest \in BOOLEAN
    /\ files \in [Files -> Record \cup {None}]
    /\ content_index \in [Contents -> Contents \cup {None}]
    /\ shard \in [Nodes \X Files \X Indices -> Payload \cup {None}]
    /\ op \in [Clients -> Operations]
    /\ strays \in SUBSET [file: Files, index: Indices, data: Payload]
    /\ keys \in 0 .. MaxKeys /\ restarts \in 0 .. MaxRestarts
    /\ torn \in SUBSET Files /\ crossed \in SUBSET Clients

(* The shard of index i, written by the upload of payload d, is at node n. *)
Holds(n, f, i, d) == n # None /\ shard[<<n, f, i>>] = d

Backed(f) ==
    \A i \in Indices : Holds(files[f].map[i], f, i, files[f].data)

(* Whatever uploads of one content overlap, fail half way, or are repeated *)
(* after a restart of the tracker, the record of a convergent file names   *)
(* for every index a node that holds exactly the shard its key decrypts,   *)
(* unless a delete has removed shards of it since that upload began.       *)
ConvergentBacked ==
    \A f \in Contents : files[f] # None /\ f \notin torn => Backed(f)

(* The index never leads a put to register with anything but a convergent  *)
(* file that has the content asked for: a hash is indexed only while such  *)
(* a file has a record.                                                    *)
IndexSound ==
    \A h \in Contents : content_index[h] # None =>
        LET f == content_index[h] IN
        /\ f \in Contents /\ files[f] # None
        /\ files[f].data = [of |-> h, key |-> ConvergentKey]

(* Comment on FileMeta.owner_refs: "Shards are only deleted when the last  *)
(* owner removes the file."                                                *)
LastOwnerDeletes ==
    [][\A f \in Files : \A n \in Nodes, i \in Indices :
          /\ shard[<<n, f, i>>] # None /\ shard'[<<n, f, i>>] = None
          /\ files[f] # None
          => files[f].refs \subseteq {files[f].owner}]_vars
=============================================================================
