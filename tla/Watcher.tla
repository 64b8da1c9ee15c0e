------------------------------ MODULE Watcher ------------------------------
(***************************************************************************)
(* The directory watcher (watcher.py): a pass compares the directory with  *)
(* the state file and has the client upload, update or delete what         *)
(* differs, one path after the other, while the user goes on editing.      *)
(*                                                                         *)
(* A file's text is a sequence of chunks.  What the nodes hold of a chunk  *)
(* is the text and the encryption it was made from: 0 is the key and nonce *)
(* derived from the text, others are random and new.  All nodes stay alive *)
(* here, so that a chunk stored again goes to the nodes that have the old  *)
(* one; Repair and ClientRepair have the nodes that do not.  An adaptive   *)
(* upload is taken to keep the client's k and m.                           *)
(***************************************************************************)
EXTENDS Integers, Sequences

CONSTANTS
    Paths,
    Contents,       \* what a file may hold; also the ids of convergent files
    Text,           \* content -> its chunks
    Size,           \* chunk -> length of its shards
    Foreign,        \* contents another owner has stored
    MaxEdits,       \* bound: changes the user makes to the directory
    MaxFaults,      \* bound: requests that fail, and watcher restarts
    None

Chunks == UNION {{Text[h][i] : i \in DOMAIN Text[h]} : h \in Contents}
Positions == UNION {DOMAIN Text[h] : h \in Contents}
Files == Contents \cup Paths
Encryptions == 0 .. 3

FileState == [mtime: 1 .. MaxEdits, hash: Contents, file: Files]
FileMeta == [data: Contents, enc: [Positions -> Encryptions], refs: BOOLEAN, mine: BOOLEAN]

ASSUME TextAssumption ==
    /\ Text \in [Contents -> Seq(Chunks) \ {<<>>}] /\ Size \in [Chunks -> Nat]
    /\ Contents \cap Paths = {} /\ None \notin Files /\ Foreign \subseteq Contents
    /\ MaxEdits \in Nat /\ MaxFaults \in Nat /\ None \notin FileState \cup FileMeta

VARIABLES
    disk,       \* path -> the file there and its mtime, or None
    edits,      \* changes so far; a file's mtime is the change that wrote it
    db,         \* path -> its FileState, or None; saved at every change
    convergent, \* how the watcher was started
    rest,       \* the client speaks REST rather than TCP
    files,      \* tracker: file id -> its record, or None
    held,       \* <<file, position>> -> what its nodes hold, or None
    pass,       \* the pass in progress
    faults,
    slipped,    \* history: paths that changed after they were read for their
                \*          first upload, or between the hash and the read of
                \*          an update, or whose update was not answered
    spoilt      \* history: files that lost shards to a delete, or whose
                \*          record and shards are of different encryptions

store == <<files, held, spoilt>>
mode == <<convergent, rest>>
vars == <<disk, edits, db, mode, store, pass, faults, slipped>>

NoFile == [data |-> None, mtime |-> 0]
Resting ==
    [at |-> "sleep", todo |-> {}, gone |-> {}, path |-> None, data |-> None,
     mtime |-> 0, hash |-> None, enc |-> <<>>, left |-> {}, kept |-> FALSE, touched |-> FALSE]

----------------------------------------------------------------------------
(* The user. *)

FirstUpload(p) == pass.path = p /\ pass.data # None /\ db[p] = None

Edit(p, h) ==
    /\ edits < MaxEdits /\ edits' = edits + 1
    /\ disk' = [disk EXCEPT ![p] =
          IF h = None THEN NoFile ELSE [data |-> h, mtime |-> edits + 1]]
    /\ disk' # disk
    /\ slipped' = slipped \cup {r \in {p} : FirstUpload(r)}
    /\ UNCHANGED <<db, mode, store, pass, faults>>

(* A file that is moved keeps its mtime. *)
Rename(p, q) ==
    /\ p # q /\ disk[p] # NoFile
    /\ edits < MaxEdits /\ edits' = edits + 1
    /\ disk' = [disk EXCEPT ![q] = disk[p], ![p] = NoFile]
    /\ slipped' = slipped \cup {r \in {p, q} : FirstUpload(r)}
    /\ UNCHANGED <<db, mode, store, pass, faults>>

----------------------------------------------------------------------------
(* _sync_once *)

Tracked == {p \in Paths : db[p] # None}
OnDisk == {p \in Paths : disk[p] # NoFile}

(* Seeded bug: what is on disk is not taken off the list of the deleted. *)
AllTracked == Tracked

Deleted == Tracked \ OnDisk

PassStart ==
    /\ pass.at = "sleep"
    /\ pass' = [Resting EXCEPT !.at = "scan", !.todo = OnDisk, !.gone = Deleted]
    /\ UNCHANGED <<disk, edits, db, mode, store, faults, slipped>>

(* The next path, when the one in hand is done with. *)
NextPath(p) ==
    [Resting EXCEPT !.at = "scan", !.todo = pass.todo \ {p}, !.gone = pass.gone \ {p}]

Unchanged(p) == disk[p].mtime = db[p].mtime
SameText(p) == disk[p].data = db[p].hash

(* The user goes on between any two looks at a file: the stat, ...         *)
Stat(p) ==
    /\ pass.at = "scan" /\ p \in pass.todo
    /\ pass' = IF disk[p] = NoFile \/ (db[p] # None /\ Unchanged(p)) THEN NextPath(p)
               ELSE [pass EXCEPT !.at = IF db[p] = None THEN "read" ELSE "hash",
                        !.path = p, !.mtime = disk[p].mtime]
    /\ UNCHANGED <<disk, edits, db, mode, store, faults, slipped>>

(* ... for a path the state file knows, the hash, which ends the whole     *)
(* pass if the file has vanished, ...                                      *)
HashFile ==
    LET p == pass.path IN
    /\ pass.at = "hash"
    /\ db' = IF disk[p] # NoFile /\ SameText(p) THEN [db EXCEPT ![p].mtime = pass.mtime]
             ELSE db
    /\ pass' = IF disk[p] = NoFile THEN Resting
               ELSE IF SameText(p) THEN NextPath(p)
               ELSE [pass EXCEPT !.at = "read", !.hash = disk[p].data]
    /\ UNCHANGED <<disk, edits, mode, store, faults, slipped>>

FileId(p, h) == IF convergent THEN h ELSE p

(* An encryption that neither the record nor the nodes know. *)
NewEncryption(f, i) ==
    LET used == {held[<<f, i>>].enc} \cup
                (IF files[f] = None THEN {0} ELSE {files[f].enc[i]})
    IN CHOOSE e \in Encryptions \ {0} :
          e \notin used /\ \A d \in 1 .. e - 1 : d \in used

(* put_delta keeps the encryption of the chunks that stay as they are. *)
Reused(f, h) ==
    IF files[f] = None \/ db[f] = None THEN {}
    ELSE {i \in DOMAIN Text[h] \cap DOMAIN Text[files[f].data] :
             Text[h][i] = Text[files[f].data][i]}

(* ... and the read: a new file is put, a changed one put_delta, which for *)
(* a convergent file finds no record under the path's id and is a put too. *)
(* A convergent put first asks the tracker for the content.                *)
Read ==
    LET p == pass.path
        h == disk[p].data IN
    /\ pass.at = "read" /\ disk[p] # NoFile
    /\ pass' = [pass EXCEPT !.data = h,
          !.at = IF convergent THEN "check" ELSE "write",
          !.enc = IF convergent THEN [i \in Positions |-> 0]
                  ELSE [i \in Positions |->
                      CASE i \notin DOMAIN Text[h] -> 0
                        [] i \in Reused(p, h)     -> files[p].enc[i]
                        [] OTHER                  -> NewEncryption(p, i)],
          !.left = IF convergent THEN DOMAIN Text[h] ELSE DOMAIN Text[h] \ Reused(p, h)]
    /\ slipped' = slipped \ {q \in {p} : db[q] = None}
    /\ UNCHANGED <<disk, edits, db, mode, store, faults>>

(* Reading a file that has vanished fails, for a new file inside the       *)
(* upload's try, for a changed one outside, which ends the whole pass.     *)
ReadVanished ==
    /\ pass.at = "read" /\ disk[pass.path] = NoFile
    /\ pass' = IF db[pass.path] = None THEN NextPath(pass.path) ELSE Resting
    /\ UNCHANGED <<disk, edits, db, mode, store, faults, slipped>>

InHand == FileId(pass.path, pass.data)

DedupCheck ==
    /\ pass.at = "check"
    /\ pass' = [pass EXCEPT !.at =
          IF ~rest /\ files[pass.data] # None THEN "register" ELSE "write"]
    /\ UNCHANGED <<disk, edits, db, mode, store, faults, slipped>>

(* The owner of a record becomes a reference to it like anybody else. *)
DedupRegister ==
    /\ pass.at = "register"
    /\ files' = [files EXCEPT ![pass.data].refs = TRUE]
    /\ pass' = [pass EXCEPT !.at = "ack"]
    /\ UNCHANGED <<disk, edits, db, mode, held, spoilt, faults, slipped>>

Absent == [data |-> None, enc |-> 0]

(* Chunks are stored one after the other, and a node writes nothing over a *)
(* shard of the same length.                                               *)
StoreChunk(i) ==
    LET x == <<InHand, i>>
        new == [data |-> Text[pass.data][i], enc |-> pass.enc[i]]
        keeps == held[x] # Absent /\ Size[held[x].data] = Size[new.data]
    IN /\ pass.at = "write" /\ i \in pass.left /\ \A j \in pass.left : i <= j
       /\ held' = IF keeps THEN held ELSE [held EXCEPT ![x] = new]
       /\ pass' = [pass EXCEPT !.left = @ \ {i},
                      !.kept = @ \/ (keeps /\ held[x] # new), !.touched = @ \/ held' # held]
       /\ UNCHANGED <<disk, edits, db, mode, files, spoilt, faults, slipped>>

(* put_delta then deletes the chunks beyond the end of the new text, and   *)
(* does not mind when that fails.                                          *)
Trimmed(f, h) ==
    IF convergent \/ files[f] = None \/ db[f] = None THEN {}
    ELSE {<<f, i>> : i \in DOMAIN Text[files[f].data] \ DOMAIN Text[h]}

Trim ==
    /\ pass.at = "write" /\ pass.left = {}
    /\ \E lost \in SUBSET Trimmed(InHand, pass.data) :
          /\ held' = [x \in DOMAIN held |-> IF x \in lost THEN Absent ELSE held[x]]
          /\ pass' = [pass EXCEPT !.at = "store", !.touched = @ \/ lost # {}]
    /\ UNCHANGED <<disk, edits, db, mode, files, spoilt, faults, slipped>>

(* STORE_META.  A chunk that put_delta reuses is as good as it was. *)
StoreMeta ==
    /\ pass.at = "store"
    /\ files' = [files EXCEPT ![InHand] =
          [data |-> pass.data, enc |-> pass.enc, refs |-> FALSE, mine |-> TRUE]]
    /\ spoilt' = IF pass.kept THEN spoilt \cup {InHand}
                 ELSE IF ~convergent /\ db[pass.path] # None THEN spoilt
                 ELSE spoilt \ {InHand}
    /\ pass' = [pass EXCEPT !.at = "ack", !.touched = FALSE]
    /\ UNCHANGED <<disk, edits, db, mode, held, faults, slipped>>

(* Seeded bug: an updated file is recorded with the hash it has afterwards. *)
RecordedNow == disk[pass.path].data

(* Seeded bug: an updated file keeps the hash it had. *)
RecordedBefore == IF db[pass.path] = None THEN disk[pass.path].data ELSE db[pass.path].hash

(* The hash of a new file is taken from the disk after the upload, that of *)
(* a changed one from before it was read.                                  *)
Recorded == IF db[pass.path] = None THEN disk[pass.path].data ELSE pass.hash

(* When a new file has vanished by now, hashing it ends the whole pass. *)
Uploaded ==
    LET p == pass.path IN
    /\ pass.at = "ack"
    /\ IF db[p] = None /\ disk[p] = NoFile
       THEN pass' = Resting /\ UNCHANGED <<db, slipped>>
       ELSE /\ db' = [db EXCEPT ![p] =
                  [mtime |-> pass.mtime, hash |-> Recorded, file |-> InHand]]
            /\ pass' = NextPath(p)
            /\ slipped' = IF db[p] = None THEN slipped
                          ELSE IF pass.data = pass.hash THEN slipped \ {p}
                          ELSE slipped \cup {p}
    /\ UNCHANGED <<disk, edits, mode, store, faults>>

(* Deleted paths come last.  client.delete wants a record of one's own. *)
Erasable(f) == files[f] # None /\ files[f].mine

Erase(p) ==
    /\ pass.at = "scan" /\ pass.todo = {} /\ p \in pass.gone
    /\ pass' = IF Erasable(db[p].file) THEN [pass EXCEPT !.at = "erase", !.path = p]
               ELSE NextPath(p)
    /\ UNCHANGED <<disk, edits, db, mode, store, faults, slipped>>

EraseShards ==
    LET f == db[pass.path].file IN
    /\ pass.at = "erase" /\ pass.left = {}
    /\ \E lost \in SUBSET ({f} \X DOMAIN Text[files[f].data]) :
          held' = [x \in DOMAIN held |-> IF x \in lost THEN Absent ELSE held[x]]
    /\ spoilt' = spoilt \cup {f}
    /\ pass' = [pass EXCEPT !.at = "unlist"]
    /\ UNCHANGED <<disk, edits, db, mode, files, faults, slipped>>

(* DELETE_META names no owner over TCP, so that references keep a record. *)
Unlist ==
    LET f == db[pass.path].file IN
    /\ pass.at = "unlist"
    /\ files' = IF ~rest /\ files[f].refs THEN files ELSE [files EXCEPT ![f] = None]
    /\ pass' = [pass EXCEPT !.at = "unlisted"]
    /\ UNCHANGED <<disk, edits, db, mode, held, spoilt, faults, slipped>>

Erased ==
    /\ pass.at = "unlisted"
    /\ db' = [db EXCEPT ![pass.path] = None]
    /\ pass' = NextPath(pass.path)
    /\ UNCHANGED <<disk, edits, mode, store, faults, slipped>>

PassEnd ==
    /\ pass.at = "scan" /\ pass.todo = {} /\ pass.gone = {}
    /\ pass' = Resting
    /\ UNCHANGED <<disk, edits, db, mode, store, faults, slipped>>

----------------------------------------------------------------------------
(* Faults. *)

(* What an interrupted operation leaves: a private file in which some      *)
(* shards are of the new text and the record is of the old, or a record    *)
(* that the state file does not know.                                      *)
Interrupted ==
    /\ spoilt' = spoilt \cup
          {f \in {InHand} : ~convergent /\ pass.touched /\ files[f] # None}
    /\ slipped' = slipped \cup {p \in {pass.path} :
          ~convergent /\ pass.at = "ack" /\ db[p] # None}
    /\ UNCHANGED <<disk, edits, mode, files, held>>

Looking == {"hash", "read"}
Uploading == {"check", "register", "write", "store", "ack"}
Erasing == {"erase", "unlist", "unlisted"}

(* Seeded bug: a path whose request fails is forgotten. *)
FailForgetting ==
    /\ faults < MaxFaults /\ faults' = faults + 1
    /\ pass.at \in Uploading /\ Interrupted
    /\ pass' = NextPath(pass.path)
    /\ db' = [db EXCEPT ![pass.path] = None]

(* A request fails or its answer is lost: the path waits for another pass. *)
Fail ==
    /\ faults < MaxFaults /\ faults' = faults + 1
    /\ \/ pass.at \in Uploading /\ Interrupted
       \/ pass.at \in Erasing /\ UNCHANGED <<disk, edits, mode, store, slipped>>
    /\ pass' = NextPath(pass.path)
    /\ UNCHANGED db

(* The watcher is restarted, with its state file or, if that cannot be     *)
(* read or is of another key pair, without.                                *)
Restart ==
    /\ faults < MaxFaults /\ faults' = faults + 1
    /\ IF pass.at \in Uploading THEN Interrupted
       ELSE UNCHANGED <<disk, edits, mode, store, slipped>>
    /\ db' \in {db, [p \in Paths |-> None]}
    /\ pass' = Resting

Init ==
    /\ disk = [p \in Paths |-> NoFile] /\ edits = 0
    /\ db = [p \in Paths |-> None]
    /\ convergent \in BOOLEAN /\ rest \in BOOLEAN
    /\ \E others \in {{}, Foreign} :
          /\ others # {} => convergent /\ ~rest
          /\ files = [f \in Files |-> IF f \notin others THEN None ELSE
                [data |-> f, enc |-> [i \in Positions |-> 0], refs |-> FALSE, mine |-> FALSE]]
          /\ held = [x \in Files \X Positions |->
                IF x[1] \in others /\ x[2] \in DOMAIN Text[x[1]]
                THEN [data |-> Text[x[1]][x[2]], enc |-> 0] ELSE Absent]
    /\ pass = Resting /\ faults = 0 /\ slipped = {} /\ spoilt = {}

Work ==
    \/ PassStart \/ PassEnd
    \/ \E p \in Paths : Stat(p) \/ Erase(p)
    \/ HashFile \/ Read \/ ReadVanished
    \/ DedupCheck \/ DedupRegister \/ Trim \/ StoreMeta \/ Uploaded
    \/ \E i \in Positions : StoreChunk(i)
    \/ EraseShards \/ Unlist \/ Erased

Next ==
    \/ Work \/ Fail \/ Restart
    \/ \E p \in Paths, h \in Contents \cup {None} : Edit(p, h)
    \/ \E p, q \in Paths : Rename(p, q)

Spec == Init /\ [][Next]_vars

(* The loop goes on whatever a pass does, and every request is answered or *)
(* fails.                                                                  *)
FairSpec == Spec /\ WF_vars(Work)

----------------------------------------------------------------------------
File == [data: Contents, mtime: 1 .. MaxEdits]
TypeOK ==
    /\ disk \in [Paths -> File \cup {NoFile}] /\ edits \in 0 .. MaxEdits
    /\ db \in [Paths -> FileState \cup {None}]
    /\ files \in [Files -> FileMeta \cup {None}]
    /\ held \in [Files \X Positions -> [data: Chunks, enc: Encryptions] \cup {Absent}]
    /\ faults \in 0 .. MaxFaults /\ slipped \subseteq Paths /\ spoilt \subseteq Files
    /\ pass.at \in {"sleep", "scan"} \cup Looking \cup Uploading \cup Erasing
    /\ pass.todo \cup pass.gone \subseteq Paths /\ pass.todo \cap pass.gone = {}
    /\ pass.at \in Looking => pass.path \in pass.todo
    /\ pass.at \in Uploading => pass.path \in pass.todo /\ pass.data \in Contents
    /\ pass.at \in {"read"} \cup Uploading =>
          IF db[pass.path] = None THEN pass.hash = None ELSE pass.hash \in Contents
    /\ pass.at \in Erasing => pass.path \in pass.gone

Readable(f) ==
    /\ files[f] # None
    /\ \A i \in DOMAIN Text[files[f].data] :
          held[<<f, i>>] = [data |-> Text[files[f].data][i], enc |-> files[f].enc[i]]

Stored(p) == Readable(db[p].file) /\ files[db[p].file].data = db[p].hash

(* What the state file says is stored can be read again with the text it   *)
(* says, however edits, renames, failed requests and restarts fall between *)
(* the steps of a pass - but for the file that is being updated and those  *)
(* of the two histories, for which it is not so.  A path is in slipped if  *)
(* the record was last stored from another text than the state file has    *)
(* the hash of: the text changed between the hash and the read of an       *)
(* update, or after the read of the first upload, or the update was not    *)
(* answered.  A file is in spoilt after a delete that may have stopped     *)
(* half way, an update that did, or one whose new encryption met shards of *)
(* the old length.                                                         *)
SyncedIsStored ==
    \A p \in Tracked \ slipped :
        db[p].file \notin spoilt /\ pass.path # p => Stored(p)

(* Docstring of DirectoryWatcher: "Renamed file -> delete old + upload     *)
(* new".  When a pass without a failed request has ended, what the state   *)
(* file lists is in the store.                                             *)
RenamedFileIsStored ==
    pass.at = "sleep" /\ faults = 0 /\ slipped = {} => \A p \in Tracked : Stored(p)

(* When the user stops and no more requests fail, the state file comes to  *)
(* say what the directory holds; a removed path stays listed only if its   *)
(* record cannot be deleted, because it is gone or another owner's.        *)
Settled(p) ==
    IF disk[p] = NoFile THEN db[p] = None \/ ~Erasable(db[p].file)
    ELSE p \in slipped \/ (db[p] # None /\ db[p].hash = disk[p].data)

Settles == <>[](\A p \in Paths : Settled(p))

(* The state file as the mirror of the directory. *)
M == INSTANCE Mirror WITH
        Values <- Contents,
        dir <- [p \in Paths |-> disk[p].data],
        mirror <- [p \in Paths |-> IF db[p] = None THEN None ELSE db[p].hash],
        seen <- [p \in Paths |->
                   {disk[p].data}
                   \cup {v \in {pass.data, pass.hash} : pass.path = p /\ v # None}
                   \cup {v \in {None} : p \in pass.gone}]

(* A pass writes into the state file only texts that the directory held    *)
(* while the pass was looking at that path.                                *)
IsMirror == M!Spec
=============================================================================
