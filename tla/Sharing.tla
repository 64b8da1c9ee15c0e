------------------------------ MODULE Sharing ------------------------------
(***************************************************************************)
(* One owner shares the files of a folder: with users, with a group, by    *)
(* public links and by a key of the folder, while the same client uploads, *)
(* updates, repairs and deletes them.  The users' watchers copy what is    *)
(* shared with them into a directory.                                      *)
(*                                                                         *)
(* Calls of the owner overlap (they are tasks of one client); a call is    *)
(* split at each request, and what it fetched before is held in call[p].   *)
(* Files are private: an upload picks a new key, and the file keeps its id.*)
(***************************************************************************)
EXTENDS Integers, Sequences

CONSTANTS
    Users,
    Files,
    Procs,          \* the owner's tasks
    MaxCalls,       \* bound: calls the owner makes
    MaxVersions,    \* bound: contents
    MaxFaults,      \* bound: restarts and deletions of copies
    None

Versions == 1 .. MaxVersions

(* A grant is a wrapped key.  The record's list of grants is only searched *)
(* for one user's, so that each user has a list here.                      *)
Record == [key: Versions, version: Versions, public: BOOLEAN, shares: [Users -> Seq(Versions)]]

ASSUME SharingAssumption ==
    /\ MaxCalls \in Nat /\ MaxVersions \in Nat /\ MaxFaults \in Nat
    /\ None \notin Int /\ None \notin Files /\ None \notin Record /\ None \notin {"in", "out"}

VARIABLES
    files,          \* the tracker's record of each file, or None
    folder_shares,  \* user -> generation of the folder key it was given
    group,          \* the members of the group, or None
    generation,     \* of the folder, in the owner's memory
    call, calls, versions,
    rest,           \* does the users' client use REST, which checks access?
    sync,           \* each user's watcher
    copy,           \* its directory: <<user, file>> -> version
    db,             \* its state file: what it has downloaded
    cache,          \* its cache of plaintexts
    faults,
    settled,        \* history: what the last call said of user and file
    link,           \* history: the key in the last public link of a file
    crossed,        \* history: files shared over an upload
    left            \* history: copies a restart left out of the state file

tracker == <<files, folder_shares, group>>
owner == <<generation, call, calls, versions>>
local == <<sync, copy, db, cache>>
history == <<settled, link, crossed, left>>
vars == <<tracker, owner, rest, local, faults, history>>

SharedWith(f, u) == files[f] # None /\ files[f].shares[u] # <<>>

(* The list is searched from its start; a grant of a key that is not the   *)
(* file's unwraps all the same.                                            *)
_unwrap_file_key(rec, u) == Head(rec.shares[u])

Opens(f, u) == SharedWith(f, u) /\ _unwrap_file_key(files[f], u) = files[f].key

(* Whoever has a link fetches the record and decrypts with the link's key. *)
get_public(f) == files[f].public => link[f] = files[f].key

Idle == [at |-> "idle", todo |-> {}, file |-> None, who |-> {}, rec |-> None, gen |-> 0]

Begin(p, c) ==
    /\ call[p] = Idle /\ calls < MaxCalls
    /\ calls' = calls + 1 /\ call' = [call EXCEPT ![p] = c]

Go(p, c) == call' = [call EXCEPT ![p] = c] /\ UNCHANGED calls

(* Overwriting calls: those that will store the record they have fetched. *)
Overwritten(f) == \E p \in Procs : call[p].at \in {"delta", "repair"} /\ call[p].file = f

Say(f, us, what) ==
    settled' = [x \in DOMAIN settled |->
                  IF x[1] = f /\ x[2] \in us THEN IF Overwritten(f) THEN None ELSE what
                  ELSE settled[x]]

----------------------------------------------------------------------------
(* Sharing. *)

share(p, f, u) ==
    /\ Begin(p, [Idle EXCEPT !.at = "fetch", !.todo = {f}, !.who = {u}])
    /\ UNCHANGED <<tracker, generation, versions, rest, local, faults, history>>

(* share_with_group asks for the members first. *)
share_with_group(p, f) ==
    /\ group \notin {None, {}}
    /\ Begin(p, [Idle EXCEPT !.at = "fetch", !.todo = {f}, !.who = group])
    /\ UNCHANGED <<tracker, generation, versions, rest, local, faults, history>>

(* A file that cannot be fetched is left out. *)
_fetch_file_meta(p, f) ==
    LET c == call[p] IN
    /\ c.at = "fetch" /\ f \in c.todo
    /\ IF files[f] # None
       THEN Go(p, [c EXCEPT !.at = "grant", !.todo = @ \ {f}, !.file = f, !.rec = files[f]])
       ELSE Go(p, IF c.todo = {f} THEN Idle ELSE [c EXCEPT !.todo = @ \ {f}])
    /\ UNCHANGED <<tracker, generation, versions, rest, local, faults, history>>

NextFile(c) == IF c.todo = {} THEN Idle ELSE [c EXCEPT !.at = "fetch", !.file = None, !.rec = None]

(* Grants are appended, whether or not the user has one; a group's come in *)
(* one request.                                                            *)
Granted(f, us, key) ==
    files' = [files EXCEPT ![f].shares =
                [u \in Users |-> IF u \in us THEN Append(@[u], key) ELSE @[u]]]

SHARE_FILE(p) ==
    LET c == call[p]
        f == c.file
    IN /\ c.at = "grant" /\ Go(p, NextFile(c))
       /\ IF files[f] = None THEN UNCHANGED <<files, settled, crossed>>
          ELSE /\ Granted(f, c.who, c.rec.key)
               /\ Say(f, c.who, "in")
               /\ crossed' = IF c.rec.key = files[f].key THEN crossed ELSE crossed \cup {f}
       /\ UNCHANGED <<folder_shares, group, generation, versions, rest, local, faults,
                      link, left>>

(* Seeded bug: only the first of the user's grants is removed. *)
WithoutFirst(shares, u) == [shares EXCEPT ![u] = IF @ = <<>> THEN @ ELSE Tail(@)]

Without(shares, u) == [shares EXCEPT ![u] = <<>>]

Revoked(f, u) ==
    IF files[f] = None THEN UNCHANGED <<files, settled>>
    ELSE files' = [files EXCEPT ![f].shares = Without(@, u)] /\ Say(f, {u}, "out")

revoke_share(p, f, u) ==
    /\ Begin(p, Idle) /\ Revoked(f, u)
    /\ UNCHANGED <<folder_shares, group, generation, versions, rest, local, faults,
                   link, crossed, left>>

SetPublic(f, public) == files' = [files EXCEPT ![f].public = public]

(* make_public fetches the record, sets the flag, and returns a link with  *)
(* the key it had fetched.                                                 *)
make_public(p, f) ==
    /\ files[f] # None
    /\ Begin(p, [Idle EXCEPT !.at = "public", !.file = f, !.rec = files[f]])
    /\ UNCHANGED <<tracker, generation, versions, rest, local, faults, history>>

create_public_link(p) ==
    LET f == call[p].file
        key == call[p].rec.key
    IN /\ call[p].at = "public" /\ Go(p, Idle)
       /\ IF files[f] = None THEN UNCHANGED <<files, link, crossed>>
          ELSE /\ SetPublic(f, TRUE) /\ link' = [link EXCEPT ![f] = key]
               /\ crossed' = IF key = files[f].key /\ ~Overwritten(f)
                             THEN crossed ELSE crossed \cup {f}
       /\ UNCHANGED <<folder_shares, group, generation, versions, rest, local, faults,
                      settled, left>>

make_private(p, f) ==
    /\ files[f] # None /\ files[f].public /\ Begin(p, Idle)
    /\ SetPublic(f, FALSE)
    /\ UNCHANGED <<folder_shares, group, generation, versions, rest, local, faults, history>>

----------------------------------------------------------------------------
(* The folder.  Its key gives access to no file; each file is shared too.  *)

cryptree_share_folder(p, u) ==
    /\ Begin(p, [Idle EXCEPT !.at = "folder.share", !.who = {u}, !.gen = generation])
    /\ UNCHANGED <<tracker, generation, versions, rest, local, faults, history>>

SHARE_FOLDER(p) ==
    LET c == call[p] IN
    /\ c.at = "folder.share" /\ Go(p, [c EXCEPT !.at = "folder.list"])
    /\ folder_shares' = [u \in Users |-> IF u \in c.who THEN c.gen ELSE folder_shares[u]]
    /\ UNCHANGED <<files, group, generation, versions, rest, local, faults, history>>

(* share_folder shares the files that are listed now. *)
share_folder(p) ==
    LET listed == {f \in Files : files[f] # None} IN
    /\ call[p].at = "folder.list"
    /\ Go(p, NextFile([call[p] EXCEPT !.todo = listed, !.gen = 0]))
    /\ UNCHANGED <<tracker, generation, versions, rest, local, faults, history>>

(* The generation is counted up before the grant is removed. *)
cryptree_revoke_folder(p, u) ==
    /\ Begin(p, [Idle EXCEPT !.at = "folder.revoke", !.who = {u}])
    /\ generation' = generation + 1
    /\ UNCHANGED <<tracker, versions, rest, local, faults, history>>

REVOKE_FOLDER(p) ==
    LET c == call[p] IN
    /\ c.at = "folder.revoke" /\ Go(p, [c EXCEPT !.at = "folder.unlist"])
    /\ folder_shares' = [u \in Users |-> IF u \in c.who THEN None ELSE folder_shares[u]]
    /\ UNCHANGED <<files, group, generation, versions, rest, local, faults, history>>

(* revoke_folder goes by the grants in the listing. *)
revoke_folder(p) ==
    LET c == call[p]
        matched == {f \in Files : \E u \in c.who : SharedWith(f, u)}
    IN /\ c.at = "folder.unlist"
       /\ Go(p, IF matched = {} THEN Idle ELSE [c EXCEPT !.at = "revoke", !.todo = matched])
       /\ UNCHANGED <<tracker, generation, versions, rest, local, faults, history>>

REVOKE_SHARE(p, f) ==
    LET c == call[p] IN
    /\ c.at = "revoke" /\ f \in c.todo
    /\ \E u \in c.who : Revoked(f, u)
    /\ Go(p, IF c.todo = {f} THEN Idle ELSE [c EXCEPT !.todo = @ \ {f}])
    /\ UNCHANGED <<folder_shares, group, generation, versions, rest, local, faults,
                   link, crossed, left>>

----------------------------------------------------------------------------
(* Groups are kept by the tracker; the owner of one does not leave it.     *)

StoreGroup(members) ==
    /\ group' = members
    /\ UNCHANGED <<files, folder_shares, owner, rest, local, faults, history>>

Join(u) == group # None /\ u \notin group /\ StoreGroup(group \cup {u})
Leave(u) == group # None /\ u \in group /\ StoreGroup(group \ {u})
DeleteGroup == group # None /\ StoreGroup(None)

----------------------------------------------------------------------------
(* Uploads, updates and repairs, as far as sharing goes. *)

(* STORE_META replaces the record. *)
STORE_META(f, rec) == files' = [files EXCEPT ![f] = rec]

NewVersion == versions < MaxVersions /\ versions' = versions + 1

(* Seeded bug: an upload keeps the grants of the record it replaces. *)
PutKeeping(f) == [key |-> versions + 1, version |-> versions + 1, public |-> FALSE,
                  shares |-> IF files[f] = None THEN [u \in Users |-> <<>>] ELSE files[f].shares]

PutRecord(f) == [key |-> versions + 1, version |-> versions + 1, public |-> FALSE,
                 shares |-> [u \in Users |-> <<>>]]

(* put ends all sharing of the file. *)
put(p, f) ==
    /\ Begin(p, Idle) /\ NewVersion /\ STORE_META(f, PutRecord(f))
    /\ Say(f, Users, "out")
    /\ UNCHANGED <<folder_shares, group, generation, rest, local, faults,
                   link, crossed, left>>

(* put_delta and the repairs fetch the record and store it again later. *)
Update(p, f, what) ==
    /\ files[f] # None
    /\ Begin(p, [Idle EXCEPT !.at = what, !.file = f, !.rec = files[f]])
    /\ UNCHANGED <<tracker, generation, versions, rest, local, faults, history>>

put_delta(p) ==
    LET f == call[p].file IN
    /\ call[p].at = "delta" /\ Go(p, Idle) /\ NewVersion
    /\ STORE_META(f, [call[p].rec EXCEPT !.version = versions + 1, !.public = FALSE])
    /\ UNCHANGED <<folder_shares, group, generation, rest, local, faults, history>>

repair(p) ==
    /\ call[p].at = "repair" /\ Go(p, Idle)
    /\ STORE_META(call[p].file, call[p].rec)
    /\ UNCHANGED <<folder_shares, group, generation, versions, rest, local, faults, history>>

delete(p, f) ==
    /\ files[f] # None /\ Begin(p, Idle) /\ STORE_META(f, None)
    /\ Say(f, Users, "out")
    /\ UNCHANGED <<folder_shares, group, generation, versions, rest, local, faults,
                   link, crossed, left>>

(* The tracker keeps its tables, and the owner the generation, in memory.  *)
TrackerRestart ==
    /\ faults < MaxFaults /\ faults' = faults + 1
    /\ files' = [f \in Files |-> None] /\ folder_shares' = [u \in Users |-> None]
    /\ group' = None /\ settled' = [x \in DOMAIN settled |-> None]
    /\ UNCHANGED <<owner, rest, local, link, crossed, left>>

OwnerRestart ==
    /\ faults < MaxFaults /\ faults' = faults + 1
    /\ call' = [p \in Procs |-> Idle] /\ generation' = 0
    /\ UNCHANGED <<tracker, calls, versions, rest, local, history>>

----------------------------------------------------------------------------
(* The users' watchers: _sync_shared_files, again and again.  A file keeps *)
(* its path in the directory, and has the same id when its contents change.*)

Resting == [at |-> "idle", todo |-> {}, expected |-> {}, file |-> None, rec |-> None]

Step(u, s) == sync' = [sync EXCEPT ![u] = s]

list_files(u) ==
    LET shared == {f \in Files : SharedWith(f, u)} IN
    /\ sync[u].at = "idle"
    /\ Step(u, [Resting EXCEPT !.at = "files", !.todo = shared, !.expected = shared])
    /\ UNCHANGED <<tracker, owner, rest, copy, db, cache, faults, history>>

(* Seeded bug: a file that was downloaded is not looked for on the disk. *)
Recorded(u, f) == <<u, f>> \in db

Present(u, f) == <<u, f>> \in db /\ copy[<<u, f>>] # None

Skip(u, f) ==
    /\ sync[u].at = "files" /\ f \in sync[u].todo /\ Present(u, f)
    /\ Step(u, [sync[u] EXCEPT !.todo = @ \ {f}])
    /\ UNCHANGED <<tracker, owner, rest, copy, db, cache, faults, history>>

(* REST answers to users with a grant; TCP to all. *)
Answered(u, f) == files[f] # None /\ (rest => SharedWith(f, u))

Write(u, f, version) ==
    /\ copy' = [copy EXCEPT ![<<u, f>>] = version]
    /\ cache' = [cache EXCEPT ![<<u, f>>] = version]
    /\ Step(u, [sync[u] EXCEPT !.at = "write", !.todo = @ \ {f}, !.file = f])

NotHere(u, f) == sync[u].at = "files" /\ f \in sync[u].todo /\ ~Present(u, f)

(* Seeded bug: a watcher goes on with what it failed to download. *)
FailedKeeping(u, f) ==
    /\ Step(u, [sync[u] EXCEPT !.at = "files", !.todo = @ \ {f}])
    /\ UNCHANGED <<copy, cache>>

Failed(u, f) ==
    /\ Step(u, [sync[u] EXCEPT !.at = "files", !.todo = @ \ {f}, !.file = None, !.rec = None])
    /\ UNCHANGED <<copy, cache>>

(* A cached plaintext only needs an answer, whatever the record is.        *)
get(u, f) ==
    /\ NotHere(u, f)
    /\ IF ~Answered(u, f) THEN Failed(u, f)
       ELSE IF cache[<<u, f>>] # None THEN Write(u, f, cache[<<u, f>>])
       ELSE IF ~SharedWith(f, u) THEN Failed(u, f)
       ELSE /\ Step(u, [sync[u] EXCEPT !.at = "download", !.file = f, !.rec = files[f]])
            /\ UNCHANGED <<copy, cache>>
    /\ UNCHANGED <<tracker, owner, rest, db, faults, history>>

(* The plaintext is that of the record fetched, if the key opens it and    *)
(* the shards are still there; after an upload they may not be.            *)
_download_and_decode(u) ==
    LET f == sync[u].file
        rec == sync[u].rec
        opens == _unwrap_file_key(rec, u) = rec.key
        current == files[f] # None /\ files[f].version = rec.version
    IN /\ sync[u].at = "download"
       /\ \/ opens /\ Write(u, f, rec.version)
          \/ ~(opens /\ current) /\ Failed(u, f)
       /\ UNCHANGED <<tracker, owner, rest, db, faults, history>>

(* The file is on disk before the state file says so. *)
SyncStatePut(u) ==
    /\ sync[u].at = "write" /\ db' = db \cup {<<u, sync[u].file>>}
    /\ Step(u, [sync[u] EXCEPT !.at = "files", !.file = None, !.rec = None])
    /\ left' = left \ {<<u, sync[u].file>>}
    /\ UNCHANGED <<tracker, owner, rest, copy, cache, faults,
                   settled, link, crossed>>

(* What is in the state file and was not in the listing is deleted. *)
RemoveUnlisted(u) ==
    LET gone == {x \in db : x[1] = u /\ x[2] \notin sync[u].expected} IN
    /\ sync[u].at = "files" /\ sync[u].todo = {} /\ Step(u, Resting)
    /\ copy' = [x \in DOMAIN copy |-> IF x \in gone THEN None ELSE copy[x]]
    /\ db' = db \ gone
    /\ UNCHANGED <<tracker, owner, rest, cache, faults, history>>

(* Users delete copies, and caches evict. *)
DeleteCopy(x) ==
    /\ faults < MaxFaults /\ faults' = faults + 1
    /\ copy[x] # None /\ copy' = [copy EXCEPT ![x] = None]
    /\ UNCHANGED <<tracker, owner, rest, sync, db, cache, history>>

Evict(x) ==
    /\ cache[x] # None /\ cache' = [cache EXCEPT ![x] = None]
    /\ UNCHANGED <<tracker, owner, rest, sync, copy, db, faults, history>>

WatcherRestart(u) ==
    /\ sync[u] # Resting /\ Step(u, Resting)
    /\ faults < MaxFaults /\ faults' = faults + 1
    /\ left' = IF sync[u].at = "write" /\ <<u, sync[u].file>> \notin db
               THEN left \cup {<<u, sync[u].file>>} ELSE left
    /\ UNCHANGED <<tracker, owner, rest, copy, db, cache,
                   settled, link, crossed>>

----------------------------------------------------------------------------
Init ==
    /\ files = [f \in Files |-> None] /\ folder_shares = [u \in Users |-> None]
    /\ group = None /\ generation = 0
    /\ call = [p \in Procs |-> Idle] /\ calls = 0 /\ versions = 0
    /\ rest \in BOOLEAN
    /\ sync = [u \in Users |-> Resting]
    /\ copy = [x \in Users \X Files |-> None] /\ cache = copy /\ db = {}
    /\ faults = 0
    /\ settled = [x \in Files \X Users |-> None] /\ link = [f \in Files |-> None]
    /\ crossed = {} /\ left = {}

OwnerCall(p) ==
    \/ \E f \in Files :
          \/ \E u \in Users : share(p, f, u) \/ revoke_share(p, f, u)
          \/ share_with_group(p, f) \/ make_public(p, f) \/ make_private(p, f)
          \/ put(p, f) \/ delete(p, f)
          \/ \E what \in {"delta", "repair"} : Update(p, f, what)
    \/ \E u \in Users : cryptree_share_folder(p, u) \/ cryptree_revoke_folder(p, u)

OwnerStep(p) ==
    \/ \E f \in Files : _fetch_file_meta(p, f) \/ REVOKE_SHARE(p, f)
    \/ SHARE_FILE(p) \/ create_public_link(p)
    \/ SHARE_FOLDER(p) \/ share_folder(p) \/ REVOKE_FOLDER(p) \/ revoke_folder(p)
    \/ put_delta(p) \/ repair(p)

SyncStep(u) ==
    \/ list_files(u) \/ RemoveUnlisted(u) \/ SyncStatePut(u) \/ _download_and_decode(u)
    \/ \E f \in Files : Skip(u, f) \/ get(u, f)

Next ==
    \/ \E p \in Procs : OwnerCall(p) \/ OwnerStep(p)
    \/ \E u \in Users : SyncStep(u) \/ WatcherRestart(u) \/ Join(u) \/ Leave(u)
    \/ (\E members \in SUBSET Users : StoreGroup(members)) \/ DeleteGroup
    \/ TrackerRestart \/ OwnerRestart
    \/ \E x \in Users \X Files : DeleteCopy(x) \/ Evict(x)

(* The watchers poll for ever. *)
Spec == Init /\ [][Next]_vars /\ \A u \in Users : WF_vars(SyncStep(u))

----------------------------------------------------------------------------
TypeOK ==
    /\ files \in [Files -> Record \cup {None}]
    /\ folder_shares \in [Users -> Nat \cup {None}]
    /\ group = None \/ group \subseteq Users
    /\ generation \in 0 .. calls /\ calls \in 0 .. MaxCalls /\ versions \in 0 .. MaxVersions
    /\ \A p \in Procs : /\ call[p].file \in Files \cup {None} /\ call[p].who \subseteq Users
                        /\ (call[p].rec = None) <=> (call[p].file = None)
    /\ \A u \in Users : /\ sync[u].todo \subseteq sync[u].expected
                        /\ (sync[u].file = None) <=> (sync[u].at \in {"idle", "files"})
    /\ copy \in [Users \X Files -> Versions \cup {None}] /\ DOMAIN cache = DOMAIN copy
    /\ db \subseteq Users \X Files /\ faults \in 0 .. MaxFaults

(* What the last call about a user and a file said holds until the next    *)
(* one: a user it was shared with is in the record's grants, through later *)
(* updates and repairs, and a user it was revoked from is not, however     *)
(* often it had been shared.  This is not so if the call falls between the *)
(* two requests of an update or a repair, which writes back what it read.  *)
LastCallHolds ==
    \A f \in Files, u \in Users :
        /\ settled[<<f, u>>] = "in" => SharedWith(f, u)
        /\ settled[<<f, u>>] = "out" => ~SharedWith(f, u)

(* What the owner hands out opens the file: the grant a user tries first   *)
(* and the last public link of a file that is public have its key, after   *)
(* uploads with new keys too, unless an upload fell into the sharing.      *)
HandedOutOpens ==
    \A f \in Files \ crossed : files[f] # None =>
        /\ \A u \in Users : SharedWith(f, u) => Opens(f, u)
        /\ get_public(f)

(* Once the owner is done, and whatever was deleted or restarted on the    *)
(* way, a user's directory has just the files shared with it: each that    *)
(* opens, and none that is not shared, a copy that a restart left out of   *)
(* the state file excepted.                                                *)
SharedArrives ==
    \A u \in Users, f \in Files :
        <>[](/\ Opens(f, u) => copy[<<u, f>>] # None
             /\ ~SharedWith(f, u) => copy[<<u, f>>] = None \/ <<u, f>> \in left)
=============================================================================
