# Specifications of the Oriku distributed file store

Oriku (`src/`, Python, asyncio) is a peer-to-peer file store in the manner of
Wuala: a client encrypts a file, erasure-codes it into k + m shards, places
them on storage nodes and leaves a record of the placement with a tracker. The
modules here are TLA+ models of the parts that decide whether a stored file can
be read again, and by whom, the configurations that check them with TLC, and proofs that
TLAPS checks.

## 1. The system

| component | source | state it keeps | operations |
|---|---|---|---|
| storage node | `storage_node.py` | shard files and their mtimes, donated capacity | store, fetch, delete, evict; over TCP, direct HTTP, or by polling a server; answers audit challenges |
| tracker, metadata | `tracker.py`, `tracker_http.py` | `files`, `content_index`, in memory only | STORE_META, FETCH_META, DELETE_META, DEDUP_CHECK, DEDUP_REGISTER |
| tracker, repair | `tracker.py:548-758` | the records' `shard_map`, while walking a snapshot of them | find shards on dead nodes, rebuild from k others, place |
| tracker, audit | `tracker.py:769-915` | availability scores | challenge a node for a shard, compare with the shard the same node returns |
| tracker, registry | `tracker.py:40-120, 223-475` | nodes, last heartbeats, uptime, quota | heartbeat, liveness (15 s), quota, advice on k and m |
| tracker, swarm | `tracker.py:360-407` | `peer_cache` | register a peer, list unexpired peers |
| HTTP API | `tracker_http.py` | the tracker's, plus groups | REST routes over the same tables, with signatures; proxy to nodes |
| client, transfer | `client.py:795-1200, 1719-2040` | caches of files, shards and the node list | put, get, delete; direct transfer with fall-back to the proxy |
| client, delta | `client.py:2399-2603` | none | put_delta: upload changed chunks, drop removed ones |
| client, repair | `client.py:1270-1630, 2638-3014` | spare shards on disk | repair from spares, from the local file, from survivors |
| sharing | `client.py:1628-1715, 2042-2300`, tracker handlers | shares in records, folder grants, key generations | share, revoke, public links, groups, folders |
| keys | `crypto_utils.py` | key pair, Cryptree generations | derive, wrap, encrypt |
| erasure code | `erasure.py` | none | encode, decode |
| watcher | `watcher.py` | state file: path -> mtime, size, hash, file id | scan, upload, update, delete, pull shared files, repair cycle |
| protocol, launcher, dashboard, tray | the rest | none of the store's | framing, process start, user interface |

How they interact: the client asks the tracker for nodes and records and the
nodes for shards; a node reports to the tracker by heartbeats and, behind a
server, polls for shards staged for it; the repair loop talks to nodes and
writes into the records the clients' requests read and replace; the watcher
calls the client. Every process is one asyncio loop, so code between two
`await`s is atomic within a process and anything may happen at an `await`. No
lock, transaction or version number connects a node's directory with a
tracker's record, or two requests of one client.

Where it is hard, and what correct means there:

* *node*: a request body or a shard to pull is awaited between a check and its
  use; a crash interrupts a write. Correct: never more than the donated bytes,
  eviction frees what was asked, an acknowledged shard is there in full.
* *put and delete*: a sequence of requests to many processes, run by clients
  that know nothing of one another, on one file id when contents are equal.
  Requests fail half way, and uploads outlive the put that started them.
  Correct: a record never names a shard that is not there; the index never
  names a file that is not there; a file goes only with its last owner.
* *repair*: hours-long walk on snapshots. Correct: it does not make a record
  lie, does not multiply damage, and reaches every file it can.
* *watcher*: a loop that compares a directory, a state file and a remote store
  that can each change or fail on their own. Correct: every local change
  reaches the store, a rename loses nothing.
* *sharing*: grants and revocations across restarts and replaced records.

`PROJECT.json` lists every hazard with its line.

## 2. Modules

| module | models | checked by | proved in |
|---|---|---|---|
| `StorageNode` | one node: directory, LRU order, handlers, poll loop, crash | `MCStorageNode` | `StorageNodeProofs` |
| `FileStore` | put and delete of whole files by many clients, the tracker's tables, nodes' shards | `MCFileStore` | `FileStoreProofs` |
| `Repair` | the tracker's repair loop, node failures, uploads and deletions under it | `MCRepair` | `RepairProofs` |
| `Watcher` | the directory watcher's passes, put, put_delta and delete as it calls them, the state file | `MCWatcher` | `WatcherProofs` |
| `Mirror` | what a watcher that looks from time to time promises; `Watcher` implements it | `MCWatcher` | `WatcherProofs` |
| `ClientRepair` | repair by the owner: spares, re-upload, survivors, and the record written back | `MCClientRepair` | `ClientRepairProofs` |
| `Sharing` | grants, groups, public links, folder keys, and the users' copies | `MCSharing` | `SharingProofs` |
| `Download` | shard fetch from peers, nodes and the proxy; caches; tit for tat | `MCDownload` | `DownloadProofs` |
| `Adaptive` | one client's k and m under the watcher's adaptive and delta uploads and the dashboard's puts | `MCAdaptive` | `AdaptiveProofs` |

The modules overlap on purpose. `FileStore` has put and delete in full detail,
with nodes that never fail; the others have an upload or a deletion as one step
and add what `FileStore` leaves out: nodes that fail (`Repair`, `ClientRepair`,
`Download`), files that change (`Watcher`, `Download`), grants (`Sharing`).
`Adaptive` has uploads chunk by chunk again, for what they share in one client.

### StorageNode

`disk` is the shard directory: a file is the payload it was written from and
the number of bytes that reached it, so a truncated file is a file. `older` is
the order of mtimes; eviction removes a prefix of it. `direct[r]` is a direct
HTTP store between its look at the existing file and the arrival of its body.
`pull` is a poll in progress. `reply` is the last answer, which is how the
properties speak of what a client was told. `httpMode` is chosen once: a node
either listens on TCP or polls; the direct endpoint runs in both. Reading a
shard, for whatever reason, renews its mtime.

`_evict_shards` is written from the loop as it is: it stops when free space,
read from the directory again, plus the bytes freed reaches what is needed.
`store_shard` writes nothing when a file of the payload's length is there, and
the three callers differ as in the code: TCP and direct HTTP evict, look again
and store; a pull goes straight to `store_shard`.

### FileStore

`op[c]` is where client c is in put or delete: dedup check, register, upload,
delete. `files` and `content_index` are the tracker's tables, `shard` what the
nodes hold. A payload is a content and the key it is encrypted with; key 0 is
the key derived from the content, others are random and new. `strays` are the
shard uploads `asyncio.gather` leaves running when one of them fails.
`rest` says whether clients and tracker speak REST or TCP, whose handlers
differ: REST does not index a content on STORE_META, ignores references on
DELETE_META but checks the owner, and reports a failed registration.
`torn` and `crossed` are history: the files that lost shards to a delete since
the upload that their record describes began. They guard `ConvergentBacked`,
which would otherwise fail for the reason `LastOwnerDeletes` fails.

The tracker's requests are atomic (no `await` inside the table updates). Parts
of one put are separate steps: check, register or each shard's upload, record.
`UploadShard` leaves the node free, since every client has its own, up to 30
seconds old, list of nodes.

### Repair

`repair` is the coroutine's local state and `repair.at` where it is suspended.
A record is named by file and version because the loop holds on to the record
object after a client has replaced it in the table: its writes then go to the
old object. `alive` is the tracker's view (a heartbeat within 15 s), `up` the
truth. `CollectShard` reads the placement at the time it asks, as the code
does; `StoreRepaired` and `ShardPlaced` are the request and its answer, and
`AnswerLost` the answer that does not come in 10 s. `damaged` is history: the
shards a node itself lost or spoilt.

### Watcher and Mirror

`disk` is the directory, `db` the state file, and `pass` the local state of
`_sync_once` and of the client call it is in. A pass takes the directory and
the tracked paths once (`PassStart`); per path it looks up to three times, and
the user, who is another process, may write between any two: the stat (`Stat`),
for a path it knows the hash (`HashFile`), and the read (`Read`). Then it goes
through the requests of put or put_delta: dedup check, registration, one step per chunk, removal of chunks
beyond the new end, STORE_META, and at last `Uploaded`, which writes the state
file. Two orders in it matter and are as in the code: a new file's hash is taken
from the disk after the upload but its mtime from before, a changed file's hash
from before; and deletions come after all uploads.

put_delta's encryption is modelled by what it reuses: a chunk with the same text
keeps its shards, another gets a new nonce under the old key, and a node that
has a shard of that length keeps the old bytes. So `held` has the text and the
encryption each chunk's shards were made from, and `Readable` compares them with
the record. `Interrupted` is what a failed or restarted upload leaves.

`slipped` and `spoilt` are histories, and say what the code does not promise.
`slipped` has the paths whose record is of another text than the state file has
the hash of: one edited during its first upload (recorded with the later hash
and the earlier mtime, and so taken for unchanged later), one edited between the
hash and the read of an update (recorded with the earlier hash), one whose
update was not answered. `spoilt` has the files that lost shards to a deletion,
or whose shards and record are of different encryptions because of the
comparison of lengths.

`Mirror` is the abstract specification: the recorded value of a path is one that
the path had since the watcher last looked at it. `IsMirror` is `Mirror`'s
specification under the mapping of `db` to `mirror` and of what is in hand to
`seen`; TLC checks it as a property of `Watcher`.

### ClientRepair

`job` is the repair in progress: which record it listed (`fmeta`), which it
fetched again (`meta`), what is still dead, where it places. `file` has both
maps of a record: `shard_map`, at which the tracker and the repairs look for
dead nodes, and the chunks' maps, which downloads follow. `held` names the
upload a shard's bytes are of; for convergent files all uploads are the same.
The steps are the strategies in their order: spares, re-upload, survivors, and
every `await` between fetching a record, storing shards and writing the record
back is a place where the tracker's repair, an upload or a deletion may fall.
`lists` says whether the listing contains the chunks. The tracker's own does
not; the code has a path for listings that do, so the passing run has both.

Spares are numbered as the code numbers them: the extra shards of a chunk get
the indices of the next chunk. `lost` records where they were stored, so that
`DownloadsHold` is about what else goes wrong. It also records the rebuilt
shards that a node did not take because it had one of the same length: a node
that is away when a file is deleted keeps the shards of an upload that is gone,
and when it is back a repair may choose it. With two faults TLC finds that the
record then names bytes the node does not have. It is the comparison of lengths
(`storage_node.py:156`), met on another way.

### Sharing

One owner, one folder. `call[p]` is a call of one of the owner's tasks, split at
each request: `share` fetches the record, unwraps its key and appends the grant;
`make_public` returns a link with the key it fetched before the request that
sets the flag; put_delta and the repairs write back the record they read. `files`
is the tracker's table as far as grants go (key, version, public flag, and the
list of grants; the code only searches it for one user at a time, from its
start, so that the model has a list of keys for each user). `generation` is Cryptree's count, in
the owner's memory; the folder's grants and its key are kept apart from the
files' grants, as in the code, where no file's key depends on the folder's.
`sync`, `copy`, `db`, `cache` are the users' watchers, with the directory they
copy to, state file and plaintext cache. REST checks grants when it answers,
TCP does not; the cached plaintext only needs an answer.

History: `settled` is what the last call said of user and file, and is cleared
if the call falls between the two requests of an update; `link`, `crossed` and
`left` are explained at their declarations.

### Download

`get[c]` is a download: the record's version, the peers asked, the shards still
to ask nodes for, what it got. Peers first (one request per shard, to the best
ranked of those that list it), then nodes in the client's possibly 30 seconds old
list; over REST only those with a URL, then through the tracker's proxy one by
one until there are k, then by polling. Finishing caches the shards and
registers the client as a peer. The file is updated in place meanwhile, shard by
shard and then the record, so that peers and nodes serve other versions; the
hash in a shard's record tells them apart. Ratios of tit for tat are compared by
multiplication, in bytes, with the code's values for peers of whom nothing is
known and for those that were served nothing. A server ends with its process
(`stop_swarm_server` has no caller but a test): `Restart` loses the download in
progress, the list of nodes and both counts, keeps the shards cached on disk, and
leaves the tracker with the address of a server that is gone until the client
registers after its next download; `swarm` has the clients that are where they
registered.

`steady` is history: the shards that could have been fetched at every moment of
the download. `ever` is what a peer served in all its processes, since its own
count `served` begins again with each.

### Adaptive

`params` is `self.k`, `self.m` and the coder of one client, `call[p]` the upload
a task is in: the watcher's, which makes one call after the other, and one for
each of the dashboard's requests. `Override` is put_adaptive's exchange and
`over` what its `finally` will restore (`End`). `Open` reads k and m for the
numbering of all chunks, `Encode` reads them again for each chunk's coder, and
`header` is a third look, for the record: between them every answer to a request
is a place where another task may have exchanged them. `files` has the records
and `held` the shards, each with the chunk it was made from, its coding and the
index its chunk's numbering begins at. The watcher's files are private, so that
put_delta updates them in place; the dashboard's contents are convergent.

`spoilt` and `failed` are histories: files whose record was written across a
change of k and m, is of an update of a file stored with others, or met a shard
of the same length on a node; and files with an upload that did not come to its
end. The first is what the code does not promise, and what the violated run
shows at work; the second is in `FileStore` and `Watcher`, as strays and
`Interrupted`. A sound upload of the file takes it out of `spoilt`.

## 3. Runs

| run | question | instance | result |
|---|---|---|---|
| `node_capacity` | Does a node keep to its donation, and is an acknowledged shard whole? | 3 shard names, payloads of 1 and 3 bytes, 4 bytes donated, one direct request | holds |
| `file_dedup` | Do records of shared contents stay true, and the index, beside a private file? | 2 clients, 1 content, 1 path, 2 shards on 2 nodes, 1 key, 1 restart | holds |
| `file_lastowner` | Do shards go only with the last owner? | 2 clients, 1 node | violated |
| `repair` | Does repair keep records true, contain damage, and finish? | 4 nodes, one without room, k = 1, m = 2, 2 faults, 2 uploads | holds |
| `watcher` | Is what the state file lists stored, and does it settle on the directory? | 2 paths, 3 texts, 3 edits, 1 fault, another owner's content | holds |
| `watcher_rename` | Is a renamed file stored? | 2 edits, no fault | violated |
| `client_repair` | Does repair by a client leave every chunk's map true? | 3 nodes, 2 chunks of k = 1, m = 1, 1 fault, 2 uploads | holds |
| `client_repair_stale` | Can a repaired file be fetched? | same, with the tracker's listing | violated |
| `sharing` | Do grants say what was last said, open the file, and arrive? | 1 file, 1 user, 2 tasks, 4 calls, 2 versions, 1 fault | holds |
| `fetch` | Are downloads of one version, and do they fail only for want of shards? | 2 clients, k = 1, m = 1, 2 versions, 2 downloads, 1 fault, 1 poll | holds |
| `adaptive` | Do files read back when k and m change under uploads, and does the client get its own back? | 1 private file, 1 request, 3 contents of one or two chunks, 2 schemes, 3 uploads, 1 fault | holds |
| `adaptive_delta` | Does an update keep the shards of the chunks it keeps? | same, 2 uploads, no fault | violated |

The bounds, and why they are enough to meet the hazards:

* *node*: with 4 bytes and sizes 1 and 3, one big shard and one small one fill
  the node; evicting one small shard of several is too little for a big one;
  a big shard pulled into a full node overshoots. `MaxStaged` only limits what
  the server stages at a time. A crash may leave any shorter length.
* *file*: two clients of two owners are what an owner and a dedup reference
  need; both can be in any phase, including two uploads, an upload across a
  delete, and strays of a failed one. Two nodes let two uploads of one content
  choose different placements; once something is stored privately the constraint
  `OneNodeForPaths` keeps to one node, where that hazard is (the same node is
  asked to store under the same name). `MaxKeys` bounds random keys,
  `MaxRestarts` tracker restarts.
* *repair*: four nodes, of which the third has no room, and three shards: one
  fault leaves a dead shard, two faults two of them, so that the round-robin
  reaches its second place, and the node it begins with may be the full one or
  another. `MaxFaults` counts crashes, lapses, damaged shards and lost answers;
  returns are unbounded. Two uploads let a record be replaced while it is being
  repaired.
* *watcher*: two paths are what a rename needs. Of the texts, two are one chunk
  each of different lengths, the third begins with the first and is longer, so
  an update can change, keep, add and drop chunks, and meet a node that keeps a
  shard for its length. Three edits make an edit, a rename and an edit during
  the pass; the fault is a failed request at any point or a restart, with the
  state file or without.
* *client repair*: two chunks of two shards on three nodes: chunk-level and flat
  maps can differ, a spare of the first chunk meets a shard of the second, one
  stopped node leaves survivors and a place for the rebuilt shard. The second
  upload is the one that crosses a repair, or is its re-upload. The
  constraint `StillPromised` stops where a file has been stored across a repair
  and no upload is left that would store it again: `DownloadsHold` promises
  nothing of such a file.
* *sharing*: two tasks make calls overlap; four calls are upload, share, revoke
  and one that crosses; two versions let a key change; one fault restarts a
  process or deletes a copy.
* *fetch*: two downloads: the second can find the first as a peer, with shards
  that are current, expired, replaced or no longer served. The fault is a node
  that stops or a client that restarts, on either side. One node has no
  URL in REST mode, so that all three rounds happen.
* *adaptive*: two schemes that differ in their number of shards give one chunk's
  indices to another chunk; contents of two chunks and of one, with two texts of
  different shard lengths, let an update keep, change, add and drop a chunk.
  Three uploads are one that stores a file, one that updates it and one that
  crosses either; the fault is a failed request at any point or a restart.

Deadlock is checked in every run but `fetch` and those of `Adaptive`, where
downloads and uploads and everything around them are bounded and a state in
which all is used up is an end; in the code another one can always begin.

Fairness. `Repair`: weak fairness of the repair coroutine (the event loop
resumes a coroutine whose request has been answered or has timed out, and
`_repair_loop` never ends while the tracker runs), of heartbeats of running
nodes (a timer every 5 s) and of the expiry of stopped ones (time passes).
`Watcher` (`FairSpec`): weak fairness of the watcher's steps together, since
`run` loops for ever, catches what a pass raises, and every request has a
timeout. `Sharing`: the same of each user's watcher. Nothing is assumed of
users, clients, the return of nodes, or the delivery of an answer. Faults and
edits are finite, so that `DeadShardsRepaired`, `Settles` and `SharedArrives` say
what happens once they cease.

### What the violated runs show

1. `LastOwnerDeletes`: `client.delete` removes shards before the tracker looks
   at the references; the comment on `owner_refs` promises otherwise.
2. `RenamedFileIsStored`: uploads come before deletions, and both names of a
   convergent file have one id: the delete for the old name takes the shards of
   the new one. `SyncedIsStored` holds because `spoilt` names these files.
3. `RepairedIsFetchable`: the tracker's listing has no chunks, so a finished
   repair has moved the shard in `shard_map` only; a download follows the
   chunk's map to the dead node, and the next repair sees nothing to do.
4. `UnchangedKeepShards`: a file of two chunks is uploaded with three shards
   each, as the tracker recommended, and the client has its own two again. An
   update of the second chunk numbers it from 2, and stores the first of its
   shards in the place of the last of the chunk that stays.

### What the modules also say of the code

These behaviours are in the models as they are in the code, and limit what the
properties promise; they have no run of their own.

* `_evict_shards` (`storage_node.py:212`) adds the freed bytes to a free space
  that contains them, and stops early. `StopsAfter` in `StorageNode` is that
  condition, and the reason why `CapacityBound` allows a polling node almost one
  shard above its donation.
* `store_shard` (`storage_node.py:156`) takes a shard of the same length for the
  same shard. A private file stored again has a new key and shards of the old
  length, which nodes do not write; therefore `ConvergentBacked` speaks of
  convergent files only, and `spoilt` in `Watcher` and `Adaptive`, and `lost` in
  `ClientRepair`, name files that met such shards.
* A put of another task takes the k and m that put_adaptive has exchanged
  (`client.py:1396`); if they are restored while it is going on, its chunks and
  its record differ, and the file is in `spoilt` in `Adaptive`.
* The round-robin of the tracker's repair (`tracker.py:737`) counts the shards it
  placed, not its attempts. If the first preferred node has no room, it is asked
  for every shard, in every audit, and nothing is placed. `DeadShardsRepaired`
  therefore leaves out files with `FirstRefuses`; without that it is violated.
* The hash the watcher records for a changed file is of an earlier look than the
  text it uploads (`watcher.py:402, 406`). The next pass sees another mtime and
  uploads again - unless the text is back to what was hashed, when it renews the
  mtime only, and the store keeps the text in between. The path is in `slipped`.
* Cryptree's generation is in the owner's memory only (`crypto_utils.py:577`):
  after a restart the folder has the key of generation 0 again. `OwnerRestart`
  has it; no file's key depends on it, and no property is about it.

### What the histories take out

The properties that must hold are stated for what the code does promise, and a
history names the rest. So they do not catch the following, though the steps are
in the models and TLC takes them:

* `spoilt` in `Watcher`: deletions and updates that stop half way, a delta upload
  whose new shards have the old length, the delete of a renamed file;
* `slipped`: edits during a first upload or between hash and read, lost answers;
* `torn` in `FileStore`: files that lost shards to another owner's delete;
* `lost` in `ClientRepair`: spares stored in another shard's place, and shards a
  node did not take for their length;
* `crossed` and `settled` in `Sharing`: uploads between the two requests of a
  share, and grants between those of an update;
* `spoilt` in `Adaptive`: uploads across a change of k and m.

Where a document of the repository promises otherwise, a violated run shows it;
the hazards in `PROJECT.json` name no property for the others.

## 4. Proofs

`StorageNodeProofs`: `TypeCorrect`, `NodeStaysWithinDonation` and
`AcknowledgedIsWhole`, for every finite set of shard names, every assignment of
sizes, every capacity and any number of requests. `TypeOK` is inductive by
itself; its hard part is that `older` stays a strict total order of the files
through eviction and touch. `CapacityBound` is inductive with it: the argument
is about cardinalities of sets of bytes. A store adds exactly the bytes of one
file (`Bytes` of the new directory is the old one's plus an initial segment),
the checked paths stored no more than `free_bytes`; a pull evicts until
twice-counted space suffices, which still gives less than one largest shard
above the donation. `AckedIsWhole` is about the step that sets `reply`: it holds
because a file is kept only if its length is the payload's.

`FileStoreProofs`: `TypeCorrect`, `ConvergentFilesAreBacked` and `IndexIsSound`
for any clients, owners, contents, paths, nodes and number of shards. The
inductive invariant `Inv` adds to the two properties:

* `Deterministic`: under the id of a convergent file nodes hold only that
  content under the derived key, and so do operations and strays on it. This is
  what makes a late or repeated write harmless: it writes what is there.
* `UploadsHeld`: what an upload in progress has placed is still there, unless a
  delete crossed it. Without it nothing is known when the record is stored.
* `RestIsUnindexed`: over REST the index stays empty, since DELETE_META there
  leaves the index alone.

Assumptions on constants are those named in the modules (`OwnersAssumption`,
`ShardsAssumption`, ...): finite shard names and clients, positive sizes, every client with
one owner, every path derived from one owner. None restricts the code.

`RepairProofs`: `TypeCorrect`, `RepairKeepsRecordsTrue` (`MapHolds`) and
`RepairSpreadsNoDamage` (`DamageStaysPut`), for any number of nodes, files,
shards, full nodes, faults and uploads. The inductive invariant `Inv` adds:

* `InProgress`: the shards placed and those still dead are together no more
  than there are, and the record being repaired is a record. The type of
  `repaired` needs it.
* `SentIsThere`: while the loop waits for an answer, the shard is on the node it
  was sent to, if the record being repaired is the one in the table. This is
  what makes it true to write the node into the record when the answer comes; a
  delete in between takes the record out of the table, and an upload replaces it.
* `KnownVersions`: the loop knows no version later than the last one stored, so
  a new upload can never be the record it already holds.
* `rebuilt = "good"`: the loop holds only shards rebuilt from verified ones.
* the two properties depend on each other: a node that already has the shard
  writes nothing, and if what it has is spoilt, that must be its own damage.

Files' contents and the placement are arbitrary in the proof: the ring of
`Upload` is not used, only that every shard's node has answered.

`DownloadProofs`: `TypeCorrect`, `DownloadsOneVersion`, `SteadyShardsAreEnough`
and `PeersAreCountedFairly`, for any finite set of clients, every k and m, and
any number of versions, faults, restarts and polls. The inductive invariant `Inv` adds:

* `Asks`: no shard is asked of two peers, nor of a node when it has come, so
  that no answer replaces one that verified.
* `InReach`: what is counted as steady can be fetched now. It follows from how
  the history is kept, and is what a request to a node or the proxy needs.
* `Reach`: per round, the steady shards that must be there already or are still
  to be asked for. Over TCP the first round of nodes is the one that counts, over
  REST the proxy's: a node without a URL answers nothing before it.

That the proxy's loop asks for the least index first needs that a finite set of
integers has a least, which `LeastInside` derives by counting.

`WatcherProofs`: `TypeCorrect`, `StateFileMirrors` (`IsMirror`: every behaviour
of `Watcher` is one of `Mirror`, by the initial states and every step) and
`ListedFilesAreStored` (`SyncedIsStored`), for any paths, contents of any number
of chunks, edits and faults. The refinement needs of the invariant only that a
pass has a path in hand which the directory had (`PassKnows`): the hash that is
recorded was seen since the pass took its list, in a look of its own, and the
restart that forgets `db` is a step of the mirror that forgets as well.
`SyncedIsStored` splits by how files are encrypted.

* Convergent files (`ConvergentInv`): what is listed has its content's id, and
  nobody's shards differ under one id; a file is not there only if `spoilt`
  names it. The pass in progress has registered or uploaded what it will list.
* Private files (`PrivateInv`): the file of a path has that path's id, so what
  matters is how far the pass has come in it. `Updates` says, chunk by chunk,
  which shards are of the old record and which of the new one during put_delta,
  and that a failure or a restart in between is in `spoilt` or in `slipped`.

A path that is not in `slipped` and not in hand has the hash of the text its
record was stored from, because `Uploaded` compares the two looks.

`SharingProofs`: `TypeCorrect`, `LastCallStands` (`LastCallHolds`) and
`KeysOpenTheirFiles` (`HandedOutOpens`), for any users, files, tasks, calls,
versions and faults.

* `RecordInv`: what the two record properties say of the tracker's record
  (`Says`, `Fits`) also holds of the record that an update or a repair in
  progress will write back. A call that changes grants or keys in between takes
  its file out of what is promised: `settled` is cleared, or `crossed` set.

`ClientRepairProofs`: `TypeCorrect` and `RepairsKeepDownloads` (`DownloadsHold`),
for any nodes, chunks, k and m, faults and uploads.

* `InHandAt`: the records in hand at each stage, and that nothing is counted as
  repaired outside the stages that place shards; the bound on the count over
  the chunks of a repair needs it.
* `OfOneUpload`: the record, the listing the repair began with and the record it
  will write back are all sound, and of the same upload. Therefore it does no
  harm to take a chunk's placement from any of them: the shards of a placement
  that has been replaced are still on their nodes. `DeleteAside` is why: only a
  deletion takes shards from nodes other than by a fault, as stores skip what
  is there.

The placement `Ring` counts nodes; that it is a node at all (`RingIsAlive`) needs
that each rank below the cardinality of a finite set of numbers is some
member's, and the record of a shard list needs a least element (`LeastIsIn`).

`AdaptiveProofs`: `TypeCorrect`, `UploadsReadBack` (`ReadsBack`) and
`ClientGetsItsOwnBack` (`OverrideEnds`), for any contents of any number of
chunks, any k and m the tracker may recommend, any requests, uploads and faults.

* `OwnInv`: only the watcher's call exchanges k and m, and what it will restore
  is the client's own.
* `OneWriter`: no two uploads write one file. The watcher is one task, private
  and convergent ids differ, and `put` has the restriction named in section 5.
* `CallInv`: for a sound upload, how far it has come (`Progress`): the chunks that
  are done have all their shards, the one in hand those that are answered, and
  what is left to delete is no chunk's that stays.

All of it rests on the numbering: with one k + m, regions of indices of two
chunks of a file are apart (`BasesApart`, `RegionsApart`), which is arithmetic
on products and is stated once. With two values of k + m it is false, and that
is the violated run.

All safety properties of the passing runs are theorems. Model-checked only are
the liveness properties `DeadShardsRepaired`, `Settles` and `SharedArrives`, which
need fairness and ENABLED, outside what the proof system handles here. The
violated runs are counterexamples and need no proof.

## 5. What is abstracted

* All clients of `FileStore` use the same k, m and chunk size. That one content
  may get two codings under one id is in `Adaptive`, for one client; two clients
  with different k and m that upload one content at once are not modelled.
* Chunks are further shard indices. The index limit of 999 is not modelled.
* Nodes in `FileStore` lose nothing and have room; `StorageNode` and `Repair`
  have the nodes that do not. A direct upload that times out and lands later,
  besides those of a failed put, is not modelled; it writes what the fall-back
  writes.
* In `Repair`, upload and deletion are one step and the content of a file never
  changes; a record's chunk-level map, which repair keeps equal to the global
  one, is not separate.
* A shard's bytes are a payload; hashes and authentication tags are perfect.
* Signatures, tokens and TLS are not modelled; every request is from whom it
  says. Mixed TCP and REST deployments are not modelled.
* The server that stages shards for polling nodes is not in the repository; it
  is the external action `StageShard` and the removal on confirmation.
* `Watcher` has one client and nodes that stay alive, so a chunk stored again
  meets the shards it replaces; uploads keep the client's k and m (`Adaptive`
  has the others). Its passes
  end where `_sync_shared_files` and the repair cycle would run: these are in
  `Sharing` and `ClientRepair`, and touch neither the directory's own paths nor
  the state file's entries for them.
* `ClientRepair` takes an upload, a deletion and a repair by the tracker as one
  step each, and one file; all shards have one length, so a node keeps what it
  has.
* `Sharing` has keys as numbers, and a grant's key is what it unwraps to. A
  folder's key opens no file in the code, so its grants have no effect on `copy`.
* `Download` has one chunk, shard i on node i, and a node that does not answer
  is one that is not up: that a running node answers within the timeout is taken
  for granted. Whether every download ends is not checked, as the run is too
  large for a liveness check; every wait in it has a timeout or a count.
* `Adaptive` has nodes that stay alive, so that shard i of a file has one place.
  Two requests do not put one content at once and strays of a failed put are not
  followed, since `FileStore` has both; nothing is deleted but chunks beyond a
  new end. Convergent updates, which are deletion and put, are in `Watcher`.

Not modelled, and why: the tracker's audits change a score that nothing acts
on; quota is reported and nothing is refused for want of it; the advice on k and
m reaches the client over REST only, because over TCP the handler of
QUOTA_QUERY at `tracker.py:1162` comes before the one at 1360; restoring a
directory from a key file is a sequence of downloads. Dashboard (but
for its upload, a request of `Adaptive`), tray, launcher and wire framing hold no
state of the store.

## 6. Plan

1. Quota, uptime and redundancy advice as functions on bounded integers.
2. Composition of `StorageNode` with an upload: what "existed" tells a client.
3. Lemmas about what is rebuilt from which shards, stated once for `Repair`,
   `ClientRepair` and `Download`.
4. Spare shards in `Adaptive`: they are encoded in a thread after put_adaptive
   may have restored k and m.
