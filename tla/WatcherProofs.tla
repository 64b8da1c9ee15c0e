--------------------------- MODULE WatcherProofs ---------------------------
(* The directory watcher, for any number of paths, texts and chunks, edits *)
(* and failed requests: the state file mirrors the directory, and what it  *)
(* lists is in the store.                                                  *)
EXTENDS Watcher, TLAPS

----------------------------------------------------------------------------
(* The inductive invariant.                                                *)

Pass == [at: {"sleep", "scan"} \cup Looking \cup Uploading \cup Erasing, todo: SUBSET Paths,
         gone: SUBSET Paths, path: Paths \cup {None}, data: Contents \cup {None},
         mtime: 0 .. MaxEdits, hash: Contents \cup {None}, enc: [Positions -> Encryptions] \cup {<<>>},
         left: SUBSET Positions, kept: BOOLEAN, touched: BOOLEAN]

(* What a pass has in hand in each phase. *)
PassOK ==
    /\ pass \in Pass /\ pass.todo \cap pass.gone = {}
    /\ pass.at \notin Uploading =>
          pass.data = None /\ pass.left = {} /\ ~pass.kept /\ ~pass.touched
    /\ pass.at \notin {"read"} \cup Uploading => pass.hash = None
    /\ pass.at \in {"sleep", "scan"} => pass.path = None
    /\ pass.at \in Looking => pass.path \in pass.todo /\ pass.mtime # 0
    /\ pass.at \in Uploading =>
          /\ pass.path \in pass.todo /\ pass.data \in Contents /\ pass.mtime # 0
          /\ pass.enc \in [Positions -> Encryptions] /\ pass.left \subseteq DOMAIN Text[pass.data]
    /\ pass.at \in Erasing => pass.path \in pass.gone

(* What it has found out, and nobody else changes. *)
PassKnows ==
    /\ pass.gone \subseteq Tracked
    /\ pass.at = "hash" => db[pass.path] # None
    /\ pass.at \in {"read"} \cup Uploading =>
          IF db[pass.path] = None THEN pass.hash = None ELSE pass.hash \in Contents
    /\ pass.at \in {"check", "register"} => convergent
    /\ pass.at = "register" => files[pass.data] # None
    /\ pass.at = "erase" => Erasable(db[pass.path].file)
    /\ pass.at \in {"unlist", "unlisted"} => db[pass.path].file \in spoilt
    /\ pass.at \in Uploading /\ db[pass.path] = None /\ pass.path \notin slipped =>
          disk[pass.path].data = pass.data

VarsTyped ==
    /\ convergent \in BOOLEAN /\ rest \in BOOLEAN
    /\ disk \in [Paths -> File \cup {NoFile}] /\ edits \in 0 .. MaxEdits
    /\ db \in [Paths -> FileState \cup {None}]
    /\ files \in [Files -> FileMeta \cup {None}]
    /\ held \in [Files \X Positions -> [data: Chunks, enc: Encryptions] \cup {Absent}]
    /\ faults \in 0 .. MaxFaults /\ slipped \subseteq Paths /\ spoilt \subseteq Files

Typed == VarsTyped /\ PassOK /\ PassKnows

(* A convergent file is the text it is named after, and all uploads of it  *)
(* write the same shards.  Only a delete takes them away.                  *)
Convergent(h) ==
    /\ files[h] # None => files[h].data = h /\ files[h].enc = [i \in Positions |-> 0]
    /\ \A i \in DOMAIN Text[h] : held[<<h, i>>] \in {Absent, [data |-> Text[h][i], enc |-> 0]}
    /\ files[h] # None /\ h \notin spoilt => Readable(h)

ConvergentFiles == \A h \in Contents : Convergent(h)

ConvergentListed ==
    \A p \in Tracked :
        /\ db[p].file \in Contents
        /\ db[p].file \notin spoilt => files[db[p].file] # None
        /\ p \notin slipped => db[p].hash = db[p].file

ConvergentPass == pass.at \in Uploading =>
    /\ pass.enc = [i \in Positions |-> 0] /\ ~pass.kept
    /\ \A i \in DOMAIN Text[pass.data] \ pass.left :
          held[<<pass.data, i>>] = [data |-> Text[pass.data][i], enc |-> 0]
    /\ pass.at = "store" => pass.left = {}
    /\ pass.at = "ack" => files[pass.data] # None

ConvergentInv == convergent => ConvergentFiles /\ ConvergentListed /\ ConvergentPass

(* A private file that is listed agrees with its record, and its record    *)
(* with the state file, but while its own upload or deletion is under way. *)
Whole(p) == pass.path # p \/ pass.at \in {"erase"} \cup Looking \/ (pass.at \in Uploading /\ ~pass.touched)

Private(p) ==
    /\ db[p].file = p
    /\ p \notin spoilt =>
          /\ files[p] # None
          /\ Whole(p) => Readable(p)
          /\ p \notin slipped /\ ~(pass.path = p /\ pass.at = "ack") => files[p].data = db[p].hash

(* An update has stored what it could not take over from the old text.     *)
Updated(p, i) == held[<<p, i>>] = [data |-> Text[pass.data][i], enc |-> pass.enc[i]]

Updates(p) ==
    /\ pass.at \in {"write", "store"} =>
          /\ pass.left \cap Reused(p, pass.data) = {}
          /\ \A i \in DOMAIN Text[pass.data] \ pass.left :
                IF i \in Reused(p, pass.data)
                THEN /\ pass.enc[i] = files[p].enc[i]
                     /\ p \in spoilt \/ Updated(p, i)
                ELSE pass.kept \/ Updated(p, i)
          /\ pass.at = "store" => pass.left = {}
    /\ pass.at = "ack" =>
          /\ files[p] # None /\ files[p].data = pass.data
          /\ ~pass.touched
          /\ p \notin spoilt => Readable(p)

PrivateListed == \A p \in Tracked : Private(p)

PrivatePass == pass.at \in Uploading => Updates(pass.path)

PrivateInv == ~convergent => PrivateListed /\ PrivatePass

Inv == Typed /\ ConvergentInv /\ PrivateInv

----------------------------------------------------------------------------
(* Types.                                                                  *)

LEMMA TextFacts ==
    /\ \A h \in Contents : /\ Text[h] \in Seq(Chunks) /\ DOMAIN Text[h] \subseteq Positions
                            /\ \A i \in DOMAIN Text[h] : Text[h][i] \in Chunks
    /\ None \notin Contents /\ None \notin Paths /\ Contents \subseteq Files /\ Paths \subseteq Files
<1>1. ASSUME NEW h \in Contents
      PROVE  /\ Text[h] \in Seq(Chunks) /\ DOMAIN Text[h] \subseteq Positions
             /\ \A i \in DOMAIN Text[h] : Text[h][i] \in Chunks
  <2>1. Text[h] \in Seq(Chunks)
    BY TextAssumption
  <2>2. DOMAIN Text[h] \subseteq Positions
    BY DEF Positions
  <2>3. \A i \in DOMAIN Text[h] : Text[h][i] \in Chunks
    BY DEF Chunks
  <2> QED
    BY <2>1, <2>2, <2>3
<1> QED
  BY <1>1, TextAssumption DEF Files

(* Of the three encryptions that are not derived from the text one is      *)
(* neither in the record nor on the nodes.                                 *)
LEMMA NewEncryptionTyped ==
    ASSUME NEW f, NEW i
    PROVE  NewEncryption(f, i) \in Encryptions
<1> DEFINE used == {held[<<f, i>>].enc} \cup (IF files[f] = None THEN {0} ELSE {files[f].enc[i]})
           Free(e) == e \notin used /\ \A d \in 1 .. e - 1 : d \in used
<1>1. PICK a, b : \A e : e \in used <=> e = a \/ e = b
  <2>1. CASE files[f] = None
    BY <2>1
  <2>2. CASE files[f] # None
    BY <2>2
  <2> QED
    BY <2>1, <2>2
<1> HIDE DEF used
<1>2. \E e \in Encryptions \ {0} : Free(e)
  <2>1. CASE 1 \notin used
    <3>1. 1 \in Encryptions \ {0} /\ \A d \in 1 .. 1 - 1 : d \in used
      BY DEF Encryptions
    <3> QED
      BY <2>1, <3>1
  <2>2. CASE 1 \in used /\ 2 \notin used
    <3>1. 2 \in Encryptions \ {0} /\ \A d \in 1 .. 2 - 1 : d = 1
      BY DEF Encryptions
    <3> QED
      BY <2>2, <3>1
  <2>3. CASE 1 \in used /\ 2 \in used
    <3>1. 3 \in Encryptions \ {0} /\ \A d \in 1 .. 3 - 1 : d = 1 \/ d = 2
      BY DEF Encryptions
    <3>2. 3 \notin used
      BY <1>1, <2>3
    <3> QED
      BY <2>3, <3>1, <3>2
  <2> QED
    BY <2>1, <2>2, <2>3
<1>3. NewEncryption(f, i) = CHOOSE e \in Encryptions \ {0} : Free(e)
  BY DEF NewEncryption, used
<1> QED
  BY <1>2, <1>3

(* The phases in which a pass has nothing in hand.                         *)
LEMMA RestingOK ==
    /\ Resting \in Pass /\ Resting.at = "sleep" /\ Resting.path = None /\ Resting.data = None
    /\ Resting.hash = None /\ Resting.left = {} /\ Resting.todo = {} /\ Resting.gone = {}
    /\ ~Resting.kept /\ ~Resting.touched
BY TextAssumption DEF Resting, Pass, Looking, Uploading, Erasing

LEMMA NextPathOK ==
    ASSUME PassOK, NEW p
    PROVE  /\ NextPath(p) \in Pass /\ NextPath(p).at = "scan" /\ NextPath(p).path = None
           /\ NextPath(p).data = None /\ NextPath(p).hash = None /\ NextPath(p).left = {}
           /\ ~NextPath(p).kept /\ ~NextPath(p).touched
           /\ NextPath(p).todo = pass.todo \ {p} /\ NextPath(p).gone = pass.gone \ {p}
<1>1. pass.todo \ {p} \in SUBSET Paths /\ pass.gone \ {p} \in SUBSET Paths
  BY DEF PassOK, Pass
<1> QED
  BY <1>1, RestingOK DEF NextPath, Pass, Resting

(* Files on disk and in the state file are told from None.                 *)
LEMMA EntriesTyped ==
    ASSUME VarsTyped, NEW p \in Paths
    PROVE  /\ disk[p] # NoFile => disk[p].data \in Contents /\ disk[p].mtime \in 1 .. MaxEdits
           /\ disk[p].data \in Contents \cup {None}
           /\ disk[p].data = None <=> disk[p] = NoFile
           /\ db[p] # None => /\ db[p].mtime \in 1 .. MaxEdits /\ db[p].hash \in Contents
                              /\ db[p].file \in Files /\ db[p] \in FileState
BY TextFacts DEF VarsTyped, File, NoFile, FileState

(* What is in hand of an upload.                                           *)
LEMMA InHandTyped ==
    ASSUME Typed, pass.at \in Uploading
    PROVE  /\ pass.path \in Paths /\ pass.data \in Contents /\ InHand \in Files
           /\ InHand = IF convergent THEN pass.data ELSE pass.path
           /\ pass.path \in pass.todo /\ pass.path \notin pass.gone
           /\ pass.mtime \in 1 .. MaxEdits /\ pass.enc \in [Positions -> Encryptions]
           /\ pass.left \subseteq DOMAIN Text[pass.data]
BY TextFacts, TextAssumption DEF Typed, PassOK, Pass, InHand, FileId

LEMMA EditTyped ==
    ASSUME Typed, NEW p \in Paths, NEW h \in Contents \cup {None}, Edit(p, h)
    PROVE  Typed'
<1>1. disk' \in [Paths -> File \cup {NoFile}] /\ edits' \in 0 .. MaxEdits /\ slipped' \subseteq Paths
  BY TextAssumption DEF Edit, Typed, VarsTyped, File
<1>2. VarsTyped'
  BY <1>1 DEF Edit, Typed, VarsTyped, mode, store
<1>3. PassOK'
  BY DEF Edit, Typed, PassOK
<1>4. ASSUME pass.at \in Uploading, db[pass.path] = None, pass.path \notin slipped'
      PROVE  disk'[pass.path].data = pass.data
  BY <1>4, InHandTyped, TextFacts DEF Edit, FirstUpload, Typed, VarsTyped, PassKnows
<1>5. PassKnows'
  BY <1>4 DEF Edit, Typed, PassKnows, Tracked, Erasable, mode, store
<1> QED
  BY <1>2, <1>3, <1>5 DEF Typed

LEMMA RenameTyped ==
    ASSUME Typed, NEW p \in Paths, NEW q \in Paths, Rename(p, q)
    PROVE  Typed'
<1>1. disk' \in [Paths -> File \cup {NoFile}] /\ edits' \in 0 .. MaxEdits /\ slipped' \subseteq Paths
  BY TextAssumption DEF Rename, Typed, VarsTyped
<1>2. VarsTyped'
  BY <1>1 DEF Rename, Typed, VarsTyped, mode, store
<1>3. PassOK'
  BY DEF Rename, Typed, PassOK
<1>4. ASSUME pass.at \in Uploading, db[pass.path] = None, pass.path \notin slipped'
      PROVE  disk'[pass.path].data = pass.data
  BY <1>4, InHandTyped, TextFacts DEF Rename, FirstUpload, Typed, VarsTyped, PassKnows
<1>5. PassKnows'
  BY <1>4 DEF Rename, Typed, PassKnows, Tracked, Erasable, mode, store
<1> QED
  BY <1>2, <1>3, <1>5 DEF Typed

(* A step that ends with nothing in hand.                                  *)
LEMMA NothingInHand ==
    ASSUME VarsTyped', pass'.at \in {"sleep", "scan"}, pass' \in Pass, pass'.path = None,
           pass'.data = None, pass'.hash = None, pass'.left = {}, ~pass'.kept, ~pass'.touched, pass'.todo \cap pass'.gone = {},
           pass'.gone \subseteq Tracked'
    PROVE  Typed'
BY DEF Typed, PassOK, PassKnows, Looking, Uploading, Erasing

LEMMA ScanTyped ==
    ASSUME Typed, PassStart \/ PassEnd
    PROVE  Typed'
<1>1. CASE PassStart
  <2>1. OnDisk \in SUBSET Paths /\ Deleted \in SUBSET Paths
    BY DEF OnDisk, Deleted, Tracked
  <2> DEFINE new == [Resting EXCEPT !.at = "scan", !.todo = OnDisk, !.gone = Deleted]
  <2>2. /\ new \in Pass /\ new.at = "scan" /\ new.path = None /\ new.data = None /\ new.hash = None
        /\ new.left = {}
        /\ new.todo = OnDisk /\ new.gone = Deleted /\ ~new.kept /\ ~new.touched
    BY <2>1, RestingOK DEF Pass, Resting
  <2> HIDE DEF new
  <2>3. pass' = new /\ UNCHANGED <<disk, edits, db, mode, store, faults, slipped>>
    BY <1>1 DEF PassStart, new
  <2>4. VarsTyped'
    BY <2>3 DEF Typed, VarsTyped, mode, store
  <2>5. Tracked' = Tracked /\ OnDisk \cap Deleted = {} /\ Deleted \subseteq Tracked
    BY <2>3 DEF Tracked, Deleted
  <2> QED
    BY <2>2, <2>3, <2>4, <2>5, NothingInHand
<1>2. CASE PassEnd
  <2>1. VarsTyped'
    BY <1>2 DEF PassEnd, Typed, VarsTyped, mode, store
  <2> QED
    BY <1>2, <2>1, RestingOK, NothingInHand DEF PassEnd
<1> QED
  BY <1>1, <1>2

(* A change of one entry of the state file that the pass is done with.     *)
LEMMA EntryWritten ==
    ASSUME Typed, VarsTyped', NEW p, pass' = NextPath(p),
           \A q \in Paths \ {p} : db'[q] = db[q]
    PROVE  Typed'
<1>1. PassOK
  BY DEF Typed
<1>2. pass.gone \ {p} \subseteq Tracked'
  BY DEF Typed, PassKnows, PassOK, Pass, Tracked
<1>3. (pass.todo \ {p}) \cap (pass.gone \ {p}) = {}
  BY DEF Typed, PassOK
<1> QED
  BY <1>1, <1>2, <1>3, NextPathOK, NothingInHand

LEMMA PassEnds ==
    ASSUME Typed, VarsTyped', pass' = Resting
    PROVE  Typed'
BY RestingOK, NothingInHand

(* A look at a file that is followed by another.                           *)
LEMMA LookGoesOn ==
    ASSUME Typed, VarsTyped', UNCHANGED db, pass.at \in {"scan"} \cup Looking, NEW at \in Looking,
           NEW p \in pass.todo, NEW mtime \in 1 .. MaxEdits, NEW hash \in Contents \cup {None},
           pass' = [pass EXCEPT !.at = at, !.path = p, !.mtime = mtime, !.hash = hash],
           at = "hash" => db[p] # None /\ hash = None,
           at = "read" /\ db[p] = None => hash = None,
           at = "read" /\ db[p] # None => hash \in Contents
    PROVE  Typed'
<1>1. /\ pass'.at = at /\ pass'.left = pass.left /\ pass'.todo = pass.todo /\ pass'.gone = pass.gone
      /\ pass'.path = p /\ pass'.data = pass.data /\ pass'.kept = pass.kept /\ pass'.mtime = mtime
      /\ pass'.hash = hash /\ pass'.touched = pass.touched
  BY DEF Typed, PassOK, Pass
<1>2. pass' \in Pass
  <2>1. p \in Paths /\ mtime \in 0 .. MaxEdits
    BY DEF Typed, PassOK, Pass
  <2> QED
    BY <2>1 DEF Typed, PassOK, Pass
<1>3. PassOK'
  BY <1>1, <1>2 DEF Typed, PassOK, Looking, Uploading, Erasing
<1>4. PassKnows'
  BY <1>1 DEF Typed, PassKnows, Tracked, Looking, Uploading
<1> QED
  BY <1>3, <1>4 DEF Typed

(* Hashing a file changes no more than the time in its entry.              *)
LEMMA HashKeeps ==
    ASSUME Typed, HashFile
    PROVE  /\ db' \in [Paths -> FileState \cup {None}] /\ Tracked' = Tracked
           /\ \A q \in Paths \ {pass.path} : db'[q] = db[q]
           /\ \A q \in Paths : db'[q] = None <=> db[q] = None
           /\ \A q \in Tracked : db'[q].hash = db[q].hash /\ db'[q].file = db[q].file
<1>1. CASE UNCHANGED db
  BY <1>1 DEF Tracked, Typed, VarsTyped
<1>2. CASE ~UNCHANGED db
  <2> DEFINE p == pass.path
             new == [db[p] EXCEPT !.mtime = pass.mtime]
  <2>1. db' = [db EXCEPT ![p] = new]
    BY <1>2 DEF HashFile
  <2>2. p \in Paths /\ db[p] \in FileState /\ pass.mtime \in 1 .. MaxEdits
    <3>1. p \in Paths /\ db[p] # None /\ pass.mtime \in 1 .. MaxEdits
      BY DEF HashFile, Typed, PassOK, PassKnows, Pass, Looking
    <3> QED
      BY <3>1, EntriesTyped DEF Typed
  <2>3. new \in FileState /\ new.hash = db[p].hash /\ new.file = db[p].file
    BY <2>2 DEF FileState
  <2> HIDE DEF new, p
  <2>4. db'[p] = new /\ \A q \in Paths \ {p} : db'[q] = db[q]
    BY <2>1, <2>2 DEF Typed, VarsTyped
  <2>5. new # None /\ db[p] # None
    BY <2>2, <2>3, TextAssumption
  <2>6. db' \in [Paths -> FileState \cup {None}]
    BY <2>1, <2>3 DEF Typed, VarsTyped
  <2>7. p = pass.path
    BY DEF p
  <2> QED
    BY <2>2, <2>3, <2>4, <2>5, <2>6, <2>7 DEF Tracked
<1> QED
  BY <1>1, <1>2

LEMMA LookTyped ==
    ASSUME Typed, HashFile \/ ReadVanished \/ \E p \in Paths : Stat(p)
    PROVE  Typed'
<1>0. pass \in Pass
  BY DEF Typed, PassOK
<1>1. ASSUME NEW p \in Paths, Stat(p)
      PROVE  Typed'
  <2>1. pass.at = "scan" /\ p \in pass.todo /\ UNCHANGED <<disk, edits, db, mode, store, faults, slipped>>
    BY <1>1 DEF Stat
  <2>2. VarsTyped'
    BY <2>1 DEF Typed, VarsTyped, mode, store
  <2>3. CASE pass' = NextPath(p)
    BY <2>1, <2>2, <2>3, EntryWritten
  <2>4. CASE pass' # NextPath(p)
    <3>1. disk[p].mtime \in 1 .. MaxEdits
      BY <1>1, <2>4, EntriesTyped DEF Stat, Typed
    <3>2. PICK at \in Looking : /\ pass' = [pass EXCEPT !.at = at, !.path = p, !.mtime = disk[p].mtime]
                                /\ at = IF db[p] = None THEN "read" ELSE "hash"
      BY <1>1, <2>4 DEF Stat, Looking
    <3>3. pass.hash = None
      BY <2>1 DEF Typed, PassOK, Uploading
    <3>4. pass' = [pass EXCEPT !.at = at, !.path = p, !.mtime = disk[p].mtime, !.hash = None]
      BY <1>0, <3>2, <3>3 DEF Pass
    <3>5. /\ at = "hash" => db[p] # None
          /\ at = "read" => db[p] = None
          /\ None \in Contents \cup {None} /\ pass.at \in {"scan"} \cup Looking
      BY <2>1, <3>2
    <3>6. UNCHANGED db /\ p \in pass.todo /\ at \in Looking
      BY <2>1, <3>2
    <3> QED
      BY <2>2, <3>1, <3>4, <3>5, <3>6, LookGoesOn
  <2> QED
    BY <2>3, <2>4
<1>2. CASE HashFile
  <2>1. pass.at = "hash" /\ UNCHANGED <<disk, edits, mode, store, faults, slipped>>
    BY <1>2 DEF HashFile
  <2>2. VarsTyped'
    BY <1>2, <2>1, HashKeeps DEF Typed, VarsTyped, mode, store
  <2>3. CASE pass' = Resting
    BY <2>2, <2>3, PassEnds
  <2>4. CASE pass' = NextPath(pass.path)
    BY <1>2, <2>2, <2>4, HashKeeps, EntryWritten
  <2>5. CASE pass' # Resting /\ pass' # NextPath(pass.path)
    <3>1. /\ disk[pass.path] # NoFile /\ UNCHANGED db
          /\ pass' = [pass EXCEPT !.at = "read", !.hash = disk[pass.path].data]
      BY <1>2, <2>5 DEF HashFile
    <3>2. /\ pass.path \in pass.todo /\ pass.path \in Paths /\ db[pass.path] # None
          /\ pass.mtime \in 1 .. MaxEdits
      BY <1>0, <2>1 DEF Typed, PassOK, PassKnows, Pass, Looking
    <3>3. disk[pass.path].data \in Contents
      BY <3>1, <3>2, EntriesTyped DEF Typed
    <3>4. pass' = [pass EXCEPT !.at = "read", !.path = pass.path, !.mtime = pass.mtime,
                      !.hash = disk[pass.path].data]
      BY <1>0, <3>1 DEF Pass
    <3>5. "read" \in Looking /\ pass.at \in {"scan"} \cup Looking
      BY <2>1 DEF Looking
    <3>6. disk[pass.path].data \in Contents \cup {None} /\ "read" # "hash"
      BY <3>3
    <3>7. PICK h \in Contents \cup {None} : h = disk[pass.path].data
      BY <3>6
    <3>8. pass' = [pass EXCEPT !.at = "read", !.path = pass.path, !.mtime = pass.mtime, !.hash = h]
      BY <3>4, <3>7
    <3>9. UNCHANGED db /\ h \in Contents
      BY <3>1, <3>3, <3>7
    <3> QED
      BY <2>2, <3>2, <3>5, <3>6, <3>8, <3>9, LookGoesOn
  <2> QED
    BY <2>3, <2>4, <2>5
<1>3. CASE ReadVanished
  <2>1. UNCHANGED <<disk, edits, db, mode, store, faults, slipped>>
    BY <1>3 DEF ReadVanished
  <2>2. VarsTyped'
    BY <2>1 DEF Typed, VarsTyped, mode, store
  <2> QED
    BY <1>3, <2>1, <2>2, EntryWritten, PassEnds DEF ReadVanished
<1> QED
  BY <1>1, <1>2, <1>3

LEMMA ReadTyped ==
    ASSUME Typed, Read
    PROVE  Typed'
<1> DEFINE p == pass.path
           h == disk[p].data
           enc == IF convergent THEN [i \in Positions |-> 0]
                  ELSE [i \in Positions |->
                      CASE i \notin DOMAIN Text[h] -> 0
                        [] i \in Reused(p, h)     -> files[p].enc[i]
                        [] OTHER                  -> NewEncryption(p, i)]
           left == IF convergent THEN DOMAIN Text[h] ELSE DOMAIN Text[h] \ Reused(p, h)
           at == IF convergent THEN "check" ELSE "write"
<1>0. pass.at = "read" /\ p \in Paths /\ p \in pass.todo /\ p \notin pass.gone /\ pass.mtime # 0
  BY DEF Read, Typed, PassOK, Pass, Looking
<1>1. h \in Contents
  BY <1>0, EntriesTyped DEF Read, Typed
<1>2. left \subseteq DOMAIN Text[h] /\ left \subseteq Positions
  BY <1>1, TextFacts
<1>3. enc \in [Positions -> Encryptions]
  <2>1. 0 \in Encryptions
    BY DEF Encryptions
  <2>2. ASSUME NEW i \in Positions, i \in Reused(p, h)
        PROVE  files[p].enc[i] \in Encryptions
    <3>1. files[p] # None
      BY <2>2 DEF Reused
    <3>2. files[p] \in FileMeta
      BY <1>0, <3>1, TextFacts DEF Typed, VarsTyped
    <3> QED
      BY <3>2 DEF FileMeta
  <2>3. \A i \in Positions : NewEncryption(p, i) \in Encryptions
    BY NewEncryptionTyped
  <2> QED
    BY <2>1, <2>2, <2>3
<1> HIDE DEF h, enc, left
<1> DEFINE new == [pass EXCEPT !.data = h, !.at = at, !.enc = enc, !.left = left]
<1>4. pass' = new /\ UNCHANGED <<disk, edits, db, mode, store, faults>>
      /\ slipped' = slipped \ {q \in {p} : db[q] = None}
  BY DEF Read, h, enc, left
<1>5. new \in Pass
  <2>1. h \in Contents \cup {None} /\ left \in SUBSET Positions
    BY <1>1, <1>2
  <2>2. at \in {"sleep", "scan"} \cup Looking \cup Uploading \cup Erasing
    BY DEF Uploading
  <2> HIDE DEF at
  <2> QED
    BY <1>3, <2>1, <2>2 DEF Typed, PassOK, Pass
<1>6. /\ new.at = at /\ new.path = p /\ new.data = h /\ new.mtime = pass.mtime /\ new.enc = enc
      /\ new.hash = pass.hash /\ new.left = left /\ new.todo = pass.todo /\ new.gone = pass.gone
  BY DEF Typed, PassOK, Pass
<1>7. at = IF convergent THEN "check" ELSE "write"
  OBVIOUS
<1> HIDE DEF new, at
<1>8. VarsTyped'
  BY <1>4 DEF Typed, VarsTyped, mode, store
<1>9. PassOK'
  BY <1>0, <1>1, <1>2, <1>3, <1>4, <1>5, <1>6, <1>7 DEF Typed, PassOK, Looking, Uploading, Erasing
<1>10. PassKnows'
  BY <1>0, <1>4, <1>6, <1>7 DEF Typed, PassKnows, Tracked, mode, h, Looking, Uploading
<1> QED
  BY <1>8, <1>9, <1>10 DEF Typed

(* A step of an upload that goes on to another phase of it.                *)
LEMMA UploadGoesOn ==
    ASSUME Typed, VarsTyped', pass.at \in Uploading, NEW at \in Uploading, NEW left \in SUBSET pass.left,
           NEW kept \in BOOLEAN, NEW touched \in BOOLEAN,
           pass' = [pass EXCEPT !.at = at, !.left = left, !.kept = kept, !.touched = touched],
           UNCHANGED <<disk, db, slipped, convergent>>,
           at \in {"check", "register"} => convergent,
           at = "register" => files'[pass.data] # None
    PROVE  Typed'
<1>1. /\ pass'.at = at /\ pass'.left = left /\ pass'.todo = pass.todo /\ pass'.gone = pass.gone
      /\ pass'.path = pass.path /\ pass'.data = pass.data /\ pass'.mtime = pass.mtime
      /\ pass'.enc = pass.enc /\ pass'.hash = pass.hash
  BY DEF Typed, PassOK, Pass
<1>2. pass' \in Pass
  <2>1. left \in SUBSET Positions
    BY DEF Typed, PassOK, Pass
  <2> QED
    BY <2>1 DEF Typed, PassOK, Pass
<1>3. PassOK'
  BY <1>1, <1>2 DEF Typed, PassOK, Looking, Uploading, Erasing
<1>4. PassKnows'
  BY <1>1 DEF Typed, PassKnows, Tracked, Uploading
<1> QED
  BY <1>3, <1>4 DEF Typed

LEMMA UploadTyped ==
    ASSUME Typed, DedupCheck \/ DedupRegister \/ Trim \/ StoreMeta \/ \E i \in Positions : StoreChunk(i)
    PROVE  Typed'
<1>0. pass \in Pass
  BY DEF Typed, PassOK
<1>1. CASE DedupCheck
  <2>1. pass.at = "check" /\ convergent /\ UNCHANGED <<disk, edits, db, mode, store, faults, slipped>>
    BY <1>1 DEF DedupCheck, Typed, PassKnows
  <2>2. PICK at \in {"register", "write"} :
           pass' = [pass EXCEPT !.at = at] /\ (at = "register" => files[pass.data] # None)
    BY <1>1 DEF DedupCheck
  <2>3. pass' = [pass EXCEPT !.at = at, !.left = pass.left, !.kept = pass.kept, !.touched = pass.touched]
    BY <1>0, <2>2 DEF Pass
  <2>4. VarsTyped'
    BY <2>1 DEF Typed, VarsTyped, mode, store
  <2>5. pass.kept \in BOOLEAN /\ pass.touched \in BOOLEAN
    BY <1>0 DEF Pass
  <2> QED
    BY <2>1, <2>2, <2>3, <2>4, <2>5, UploadGoesOn DEF Uploading, mode, store
<1>2. CASE DedupRegister
  <2>1. /\ pass.at = "register" /\ UNCHANGED <<disk, edits, db, mode, held, spoilt, faults, slipped>>
        /\ files' = [files EXCEPT ![pass.data].refs = TRUE] /\ pass' = [pass EXCEPT !.at = "ack"]
    BY <1>2 DEF DedupRegister
  <2>2. files[pass.data] \in FileMeta
    BY <2>1, InHandTyped, TextFacts DEF Typed, PassKnows, VarsTyped, Uploading
  <2>3. [files[pass.data] EXCEPT !.refs = TRUE] \in FileMeta
    BY <2>2 DEF FileMeta
  <2>4. files' = [files EXCEPT ![pass.data] = [files[pass.data] EXCEPT !.refs = TRUE]]
    BY <2>1
  <2>5. VarsTyped'
    BY <2>1, <2>3, <2>4 DEF Typed, VarsTyped, mode
  <2>6. pass' = [pass EXCEPT !.at = "ack", !.left = pass.left, !.kept = pass.kept, !.touched = pass.touched]
    BY <1>0, <2>1 DEF Pass
  <2>7. pass.kept \in BOOLEAN /\ pass.touched \in BOOLEAN
    BY <1>0 DEF Pass
  <2> QED
    BY <2>1, <2>5, <2>6, <2>7, UploadGoesOn DEF Uploading, mode
<1>3. CASE Trim
  <2>1. PICK lost \in SUBSET Trimmed(InHand, pass.data) :
           /\ held' = [x \in DOMAIN held |-> IF x \in lost THEN Absent ELSE held[x]]
           /\ pass' = [pass EXCEPT !.at = "store", !.touched = @ \/ lost # {}]
    BY <1>3 DEF Trim
  <2>2. pass.at = "write" /\ UNCHANGED <<disk, edits, db, mode, files, spoilt, faults, slipped>>
    BY <1>3 DEF Trim
  <2>3. VarsTyped'
    BY <2>1, <2>2 DEF Typed, VarsTyped, mode
  <2>4. PICK touched \in BOOLEAN : touched = (pass.touched \/ lost # {})
    BY <1>0 DEF Pass
  <2>5. pass' = [pass EXCEPT !.at = "store", !.left = pass.left, !.kept = pass.kept, !.touched = touched]
    BY <1>0, <2>1, <2>4 DEF Pass
  <2>6. pass.kept \in BOOLEAN
    BY <1>0 DEF Pass
  <2> QED
    BY <2>2, <2>3, <2>5, <2>6, UploadGoesOn DEF Uploading, mode
<1>4. CASE StoreMeta
  <2>1. /\ pass.at = "store" /\ UNCHANGED <<disk, edits, db, mode, held, faults, slipped>>
        /\ pass' = [pass EXCEPT !.at = "ack", !.touched = FALSE]
    BY <1>4 DEF StoreMeta
  <2>2. files' \in [Files -> FileMeta \cup {None}]
    <3>1. [data |-> pass.data, enc |-> pass.enc, refs |-> FALSE, mine |-> TRUE] \in FileMeta
      BY <2>1, InHandTyped DEF FileMeta, Uploading
    <3> QED
      BY <1>4, <3>1 DEF StoreMeta, Typed, VarsTyped
  <2>3. spoilt' \subseteq Files
    BY <1>4, <2>1, InHandTyped DEF StoreMeta, Typed, VarsTyped, Uploading
  <2>4. VarsTyped'
    BY <2>1, <2>2, <2>3 DEF Typed, VarsTyped, mode
  <2>5. pass' = [pass EXCEPT !.at = "ack", !.left = pass.left, !.kept = pass.kept, !.touched = FALSE]
    BY <1>0, <2>1 DEF Pass
  <2>6. pass.kept \in BOOLEAN
    BY <1>0 DEF Pass
  <2> QED
    BY <2>1, <2>4, <2>5, <2>6, UploadGoesOn DEF Uploading, mode
<1>5. ASSUME NEW i \in Positions, StoreChunk(i)
      PROVE  Typed'
  <2> DEFINE new == [data |-> Text[pass.data][i], enc |-> pass.enc[i]]
             keeps == held[<<InHand, i>>] # Absent /\ Size[held[<<InHand, i>>].data] = Size[new.data]
  <2>1. /\ pass.at = "write" /\ i \in pass.left
        /\ held' = IF keeps THEN held ELSE [held EXCEPT ![<<InHand, i>>] = new]
        /\ UNCHANGED <<disk, edits, db, mode, files, spoilt, faults, slipped>>
    BY <1>5 DEF StoreChunk
  <2>2. new \in [data: Chunks, enc: Encryptions]
    <3>1. i \in DOMAIN Text[pass.data] /\ pass.data \in Contents /\ pass.enc[i] \in Encryptions
      BY <2>1, InHandTyped DEF Uploading
    <3> QED
      BY <3>1, TextFacts
  <2>3. PICK kept \in BOOLEAN, touched \in BOOLEAN :
           pass' = [pass EXCEPT !.left = @ \ {i}, !.kept = kept, !.touched = touched]
    <3>1. pass' = [pass EXCEPT !.left = @ \ {i}, !.kept = @ \/ (keeps /\ held[<<InHand, i>>] # new),
                               !.touched = @ \/ held' # held]
      BY <1>5 DEF StoreChunk
    <3> QED
      BY <3>1
  <2> HIDE DEF new, keeps
  <2>4. VarsTyped'
    BY <2>1, <2>2 DEF Typed, VarsTyped, mode
  <2>5. pass' = [pass EXCEPT !.at = "write", !.left = pass.left \ {i}, !.kept = kept, !.touched = touched]
    BY <1>0, <2>1, <2>3 DEF Pass
  <2>6. pass.left \ {i} \in SUBSET pass.left
    OBVIOUS
  <2> QED
    BY <2>1, <2>4, <2>5, <2>6, UploadGoesOn DEF Uploading, mode
<1> QED
  BY <1>1, <1>2, <1>3, <1>4, <1>5

LEMMA UploadedTyped ==
    ASSUME Typed, Uploaded
    PROVE  Typed'
<1> DEFINE p == pass.path
           new == [mtime |-> pass.mtime, hash |-> Recorded, file |-> InHand]
<1>1. pass.at = "ack" /\ UNCHANGED <<disk, edits, mode, store, faults>>
  BY DEF Uploaded
<1>2. CASE db[p] = None /\ disk[p] = NoFile
  <2>1. pass' = Resting /\ UNCHANGED <<db, slipped>>
    BY <1>2 DEF Uploaded
  <2>2. VarsTyped'
    BY <1>1, <2>1 DEF Typed, VarsTyped, mode, store
  <2> QED
    BY <2>1, <2>2, PassEnds
<1>3. CASE ~(db[p] = None /\ disk[p] = NoFile)
  <2>1. /\ pass' = NextPath(p) /\ db' = [db EXCEPT ![p] = new]
        /\ slipped' \in {slipped, slipped \ {p}, slipped \cup {p}}
    BY <1>3 DEF Uploaded
  <2>2. Recorded \in Contents
    <3>1. p \in Paths /\ (db[p] # None => pass.hash \in Contents) /\ (db[p] = None => disk[p] # NoFile)
      BY <1>1, <1>3, InHandTyped DEF Uploading, Typed, PassKnows
    <3>2. VarsTyped
      BY DEF Typed
    <3> QED
      BY <3>1, <3>2, EntriesTyped DEF Recorded
  <2>3. new \in FileState
    BY <1>1, <2>2, InHandTyped DEF FileState, Uploading
  <2> HIDE DEF new
  <2>4. VarsTyped'
    <3>1. p \in Paths
      BY <1>1, InHandTyped DEF Uploading
    <3> QED
      BY <1>1, <2>1, <2>3, <3>1 DEF Typed, VarsTyped, mode, store
  <2>5. \A q \in Paths \ {p} : db'[q] = db[q]
    BY <2>1 DEF Typed, VarsTyped
  <2> QED
    BY <2>1, <2>4, <2>5, EntryWritten
<1> QED
  BY <1>2, <1>3

(* A deletion in progress goes on.                                         *)
LEMMA EraseGoesOn ==
    ASSUME Typed, VarsTyped', pass.at \in {"scan"} \cup Erasing, NEW at \in Erasing, NEW p \in pass.gone,
           pass' = [pass EXCEPT !.at = at, !.path = p], UNCHANGED db,
           at = "erase" => Erasable(db[p].file)',
           at # "erase" => db[p].file \in spoilt'
    PROVE  Typed'
<1>1. /\ pass'.at = at /\ pass'.left = pass.left /\ pass'.todo = pass.todo /\ pass'.gone = pass.gone
      /\ pass'.path = p /\ pass'.data = pass.data /\ pass'.kept = pass.kept
      /\ pass'.touched = pass.touched /\ pass'.hash = pass.hash
  BY DEF Typed, PassOK, Pass
<1>2. pass' \in Pass
  <2>1. p \in Paths
    BY DEF Typed, PassOK, Pass
  <2> QED
    BY <2>1 DEF Typed, PassOK, Pass
<1>3. PassOK'
  BY <1>1, <1>2 DEF Typed, PassOK, Looking, Uploading, Erasing
<1>4. PassKnows'
  BY <1>1 DEF Typed, PassKnows, Tracked, Uploading, Erasing
<1> QED
  BY <1>3, <1>4 DEF Typed

LEMMA EraseTyped ==
    ASSUME Typed, EraseShards \/ Unlist \/ Erased \/ \E p \in Paths : Erase(p)
    PROVE  Typed'
<1>0. pass \in Pass /\ (pass.at \in Erasing => pass.path \in pass.gone /\ pass.path \in Paths)
  BY DEF Typed, PassOK, Pass
<1>00. \A p \in pass.gone : p \in Paths /\ db[p] # None /\ db[p].file \in Files
  BY EntriesTyped DEF Typed, PassKnows, PassOK, Pass, Tracked
<1>1. ASSUME NEW p \in Paths, Erase(p)
      PROVE  Typed'
  <2>1. pass.at = "scan" /\ p \in pass.gone /\ UNCHANGED <<disk, edits, db, mode, store, faults, slipped>>
    BY <1>1 DEF Erase
  <2>2. VarsTyped'
    BY <2>1 DEF Typed, VarsTyped, mode, store
  <2>3. CASE Erasable(db[p].file)
    <3>1. pass' = [pass EXCEPT !.at = "erase", !.path = p]
      BY <1>1, <2>3 DEF Erase
    <3>2. Erasable(db[p].file)'
      BY <2>1, <2>3 DEF Erasable, store
    <3> QED
      BY <2>1, <2>2, <3>1, <3>2, EraseGoesOn DEF Erasing
  <2>4. CASE ~Erasable(db[p].file)
    <3>1. pass' = NextPath(p)
      BY <1>1, <2>4 DEF Erase
    <3> QED
      BY <2>1, <2>2, <3>1, EntryWritten
  <2> QED
    BY <2>3, <2>4
<1>2. CASE EraseShards
  <2> DEFINE f == db[pass.path].file
  <2>1. /\ pass.at = "erase" /\ spoilt' = spoilt \cup {f} /\ pass' = [pass EXCEPT !.at = "unlist"]
        /\ UNCHANGED <<disk, edits, db, mode, files, faults, slipped>>
    BY <1>2 DEF EraseShards
  <2>2. PICK lost \in SUBSET ({f} \X DOMAIN Text[files[f].data]) :
           held' = [x \in DOMAIN held |-> IF x \in lost THEN Absent ELSE held[x]]
    BY <1>2 DEF EraseShards
  <2>3. pass.path \in pass.gone /\ f \in Files
    BY <1>0, <1>00, <2>1 DEF Erasing
  <2>4. VarsTyped'
    BY <2>1, <2>2, <2>3 DEF Typed, VarsTyped, mode
  <2>5. pass' = [pass EXCEPT !.at = "unlist", !.path = pass.path]
    BY <1>0, <2>1 DEF Pass
  <2> QED
    BY <2>1, <2>3, <2>4, <2>5, EraseGoesOn DEF Erasing
<1>3. CASE Unlist
  <2>1. /\ pass.at = "unlist" /\ UNCHANGED <<disk, edits, db, mode, held, spoilt, faults, slipped>>
        /\ pass' = [pass EXCEPT !.at = "unlisted"]
        /\ files' = files \/ files' = [files EXCEPT ![db[pass.path].file] = None]
    BY <1>3 DEF Unlist
  <2>2. VarsTyped'
    BY <2>1 DEF Typed, VarsTyped, mode
  <2>3. pass' = [pass EXCEPT !.at = "unlisted", !.path = pass.path] /\ pass.path \in pass.gone
    BY <1>0, <2>1 DEF Pass, Erasing
  <2>4. db[pass.path].file \in spoilt'
    BY <2>1 DEF Typed, PassKnows
  <2> QED
    BY <2>1, <2>2, <2>3, <2>4, EraseGoesOn DEF Erasing
<1>4. CASE Erased
  <2>1. /\ pass.at = "unlisted" /\ UNCHANGED <<disk, edits, mode, store, faults, slipped>>
        /\ db' = [db EXCEPT ![pass.path] = None] /\ pass' = NextPath(pass.path)
    BY <1>4 DEF Erased
  <2>2. VarsTyped'
    BY <2>1 DEF Typed, VarsTyped, mode, store
  <2>3. \A q \in Paths \ {pass.path} : db'[q] = db[q]
    BY <2>1 DEF Typed, VarsTyped
  <2> QED
    BY <2>1, <2>2, <2>3, EntryWritten
<1> QED
  BY <1>1, <1>2, <1>3, <1>4

LEMMA InterruptedTyped ==
    ASSUME Typed, pass.at \in Uploading, Interrupted
    PROVE  slipped' \subseteq Paths /\ spoilt' \subseteq Files
BY InHandTyped DEF Interrupted, Typed, VarsTyped

LEMMA FaultsTyped ==
    ASSUME Typed, Fail \/ Restart
    PROVE  Typed'
<1>1. /\ slipped' \subseteq Paths /\ spoilt' \subseteq Files
      /\ UNCHANGED <<disk, edits, mode, files, held>> /\ faults' = faults + 1 /\ faults < MaxFaults
  <2>1. CASE Interrupted /\ pass.at \in Uploading
    BY <2>1, InterruptedTyped DEF Interrupted, Fail, Restart
  <2>2. CASE UNCHANGED <<disk, edits, mode, store, slipped>>
    BY <2>2 DEF Fail, Restart, store, Typed, VarsTyped
  <2> QED
    BY <2>1, <2>2 DEF Fail, Restart
<1>2. faults' \in 0 .. MaxFaults
  BY <1>1, TextAssumption DEF Typed, VarsTyped
<1>3. CASE Fail
  <2>1. VarsTyped'
    BY <1>1, <1>2, <1>3 DEF Fail, Typed, VarsTyped, mode
  <2> QED
    BY <1>3, <2>1, EntryWritten DEF Fail
<1>4. CASE Restart
  <2>1. VarsTyped'
    BY <1>1, <1>2, <1>4 DEF Restart, Typed, VarsTyped, mode
  <2> QED
    BY <1>4, <2>1, PassEnds DEF Restart
<1> QED
  BY <1>3, <1>4

LEMMA TypedInit == Init => Typed
<1> SUFFICES ASSUME Init PROVE Typed
  OBVIOUS
<1>1. PICK others \in {{}, Foreign} :
         /\ files = [f \in Files |-> IF f \notin others THEN None ELSE
               [data |-> f, enc |-> [i \in Positions |-> 0], refs |-> FALSE, mine |-> FALSE]]
         /\ held = [x \in Files \X Positions |->
               IF x[1] \in others /\ x[2] \in DOMAIN Text[x[1]]
               THEN [data |-> Text[x[1]][x[2]], enc |-> 0] ELSE Absent]
  BY DEF Init
<1>2. others \subseteq Contents /\ 0 \in Encryptions
  BY <1>1, TextAssumption DEF Encryptions
<1>3. files \in [Files -> FileMeta \cup {None}]
  <2>1. \A f \in Contents :
           [data |-> f, enc |-> [i \in Positions |-> 0], refs |-> FALSE, mine |-> FALSE] \in FileMeta
    BY <1>2 DEF FileMeta
  <2> QED
    BY <1>1, <1>2, <2>1
<1>4. held \in [Files \X Positions -> [data: Chunks, enc: Encryptions] \cup {Absent}]
  <2>1. ASSUME NEW x \in Files \X Positions, x[1] \in others, x[2] \in DOMAIN Text[x[1]]
        PROVE  [data |-> Text[x[1]][x[2]], enc |-> 0] \in [data: Chunks, enc: Encryptions]
    <3>1. Text[x[1]][x[2]] \in Chunks
      BY <1>2, <2>1, TextFacts
    <3> QED
      BY <1>2, <3>1
  <2> QED
    BY <1>1, <2>1
<1>5. VarsTyped
  BY <1>3, <1>4, TextAssumption DEF Init, VarsTyped
<1>6. PassOK /\ PassKnows
  BY RestingOK DEF Init, PassOK, PassKnows, Looking, Uploading, Erasing
<1> QED
  BY <1>5, <1>6 DEF Typed

LEMMA TypedNext == Typed /\ [Next]_vars => Typed'
<1> SUFFICES ASSUME Typed, [Next]_vars PROVE Typed'
  OBVIOUS
<1>1. CASE UNCHANGED vars
  BY <1>1 DEF vars, mode, store, Typed, VarsTyped, PassOK, PassKnows, Tracked, Erasable
<1>2. CASE Work
  BY <1>2, ScanTyped, LookTyped, ReadTyped, UploadTyped, UploadedTyped, EraseTyped DEF Work
<1>3. CASE Fail \/ Restart
  BY <1>3, FaultsTyped
<1>4. CASE \E p \in Paths, h \in Contents \cup {None} : Edit(p, h)
  BY <1>4, EditTyped
<1>5. CASE \E p, q \in Paths : Rename(p, q)
  BY <1>5, RenameTyped
<1> QED
  BY <1>1, <1>2, <1>3, <1>4, <1>5 DEF Next

LEMMA AlwaysTyped == Spec => []Typed
<1> QED
  BY TypedInit, TypedNext, PTL DEF Spec

(* Every table, and the pass in each of its phases, has its type.          *)
THEOREM TypeCorrect == Spec => []TypeOK
<1>1. Typed => TypeOK
  BY InHandTyped DEF Typed, VarsTyped, PassOK, PassKnows, Pass, TypeOK, File, FileState
<1> QED
  BY <1>1, AlwaysTyped, PTL

----------------------------------------------------------------------------
(* The mirror.                                                             *)

Hash(p) == IF db[p] = None THEN None ELSE db[p].hash

Seen(p) == {disk[p].data} \cup {v \in {pass.data, pass.hash} : pass.path = p /\ v # None}
                          \cup {v \in {None} : p \in pass.gone}

(* What a step shows of the tables to be a step of the mirror.             *)
LEMMA Looks ==
    ASSUME UNCHANGED disk, \A p \in Paths : Hash(p)' = Hash(p), \A p \in Paths : Seen(p)' \subseteq Seen(p)
    PROVE  M!Look
BY DEF M!Look, Hash, Seen

LEMMA Records ==
    ASSUME UNCHANGED disk, NEW p \in Paths, Hash(p)' \in Seen(p),
           \A q \in Paths : q # p => Hash(q)' = Hash(q), \A q \in Paths : Seen(q)' \subseteq Seen(q)
    PROVE  M!Record(p)
<1> DEFINE mirror == [q \in Paths |-> Hash(q)]
<1>1. mirror' = [mirror EXCEPT ![p] = Hash(p)']
  OBVIOUS
<1>2. \E v \in Seen(p) : mirror' = [mirror EXCEPT ![p] = v]
  BY <1>1
<1> QED
  BY <1>2 DEF M!Record, Hash, Seen

LEMMA Changes ==
    ASSUME Typed', UNCHANGED <<db, pass>>
    PROVE  M!Change
<1>1. \A p \in Paths : disk'[p].data \in Contents \cup {None}
  BY DEF Typed, VarsTyped, File, NoFile
<1> QED
  BY <1>1 DEF M!Change

(* A pass that is done with a path, or with all of them, has nothing more  *)
(* in sight.                                                               *)
LEMMA DoneWith ==
    ASSUME Typed, UNCHANGED disk, NEW p, pass' = NextPath(p) \/ pass' = Resting
    PROVE  \A q \in Paths : Seen(q)' \subseteq Seen(q)
<1>1. pass'.path = None /\ pass'.data = None /\ pass'.hash = None /\ pass'.gone \subseteq pass.gone
  BY NextPathOK, RestingOK DEF Typed
<1> QED
  BY <1>1 DEF Seen

LEMMA GoesOn ==
    ASSUME UNCHANGED disk, pass'.path = pass.path, pass'.data = pass.data, pass'.hash = pass.hash,
           pass'.gone = pass.gone
    PROVE  \A q \in Paths : Seen(q)' \subseteq Seen(q)
BY DEF Seen

LEMMA WorkMirrors ==
    ASSUME Typed, Work
    PROVE  [M!Next]_M!vars
<1>0. pass \in Pass
  BY DEF Typed, PassOK
<1>1. CASE PassStart
  <2>1. /\ pass'.gone = Deleted /\ pass'.path = None /\ pass'.data = None /\ pass'.hash = None
        /\ UNCHANGED <<disk, db>>
    BY <1>1 DEF PassStart, Resting
  <2>2. \A q \in Deleted : disk[q].data = None
    BY DEF Deleted, Tracked, OnDisk, NoFile
  <2>3. \A q \in Paths : Seen(q)' \subseteq Seen(q)
    BY <2>1, <2>2 DEF Seen
  <2>4. \A q \in Paths : Hash(q)' = Hash(q)
    BY <2>1 DEF Hash
  <2> QED
    BY <2>1, <2>3, <2>4, Looks DEF M!Next
<1>2. CASE PassEnd
  <2>1. pass' = Resting /\ UNCHANGED <<disk, db>>
    BY <1>2 DEF PassEnd
  <2>2. \A q \in Paths : Hash(q)' = Hash(q)
    BY <2>1 DEF Hash
  <2> QED
    BY <2>1, <2>2, DoneWith, Looks DEF M!Next
<1>3. ASSUME NEW p \in Paths, Stat(p)
      PROVE  [M!Next]_M!vars
  <2>1. UNCHANGED <<disk, db>> /\ \A q \in Paths : Hash(q)' = Hash(q)
    BY <1>3 DEF Stat, Hash
  <2>2. CASE pass' = NextPath(p)
    BY <2>1, <2>2, DoneWith, Looks DEF M!Next
  <2>3. CASE pass' # NextPath(p)
    <3>1. pass'.data = None /\ pass'.hash = None /\ pass'.gone = pass.gone
      BY <1>0, <1>3, <2>3 DEF Stat, Typed, PassOK, Pass, Uploading
    <3>2. \A q \in Paths : Seen(q)' \subseteq Seen(q)
      BY <2>1, <3>1 DEF Seen
    <3> QED
      BY <2>1, <3>2, Looks DEF M!Next
  <2> QED
    BY <2>2, <2>3
<1>4. CASE HashFile \/ ReadVanished
  <2>1. UNCHANGED disk
    BY <1>4 DEF HashFile, ReadVanished
  <2>2. \A q \in Paths : Hash(q)' = Hash(q)
    <3>1. CASE HashFile
      BY <3>1, HashKeeps DEF Hash, Tracked
    <3>2. CASE ReadVanished
      BY <3>2 DEF ReadVanished, Hash
    <3> QED
      BY <1>4, <3>1, <3>2
  <2>3. CASE pass' = NextPath(pass.path) \/ pass' = Resting
    BY <2>1, <2>2, <2>3, DoneWith, Looks DEF M!Next
  <2>4. CASE ~(pass' = NextPath(pass.path) \/ pass' = Resting)
    <3>1. /\ pass'.path = pass.path /\ pass'.data = pass.data /\ pass'.gone = pass.gone
          /\ pass'.hash = disk[pass.path].data
      BY <1>0, <1>4, <2>4 DEF HashFile, ReadVanished, Pass
    <3>2. \A q \in Paths : Seen(q)' \subseteq Seen(q)
      BY <2>1, <3>1 DEF Seen
    <3> QED
      BY <2>1, <2>2, <3>2, Looks DEF M!Next
  <2> QED
    BY <2>3, <2>4
<1>9. CASE Read
  <2>1. /\ pass'.path = pass.path /\ pass'.data = disk[pass.path].data /\ pass'.hash = pass.hash
        /\ pass'.gone = pass.gone /\ UNCHANGED <<disk, db>>
    BY <1>0, <1>9 DEF Read, Pass
  <2>2. \A q \in Paths : Seen(q)' \subseteq Seen(q)
    BY <2>1 DEF Seen
  <2>3. \A q \in Paths : Hash(q)' = Hash(q)
    BY <2>1 DEF Hash
  <2> QED
    BY <2>1, <2>2, <2>3, Looks DEF M!Next
<1>5. CASE DedupCheck \/ DedupRegister \/ Trim \/ StoreMeta \/ (\E i \in Positions : StoreChunk(i))
           \/ EraseShards \/ Unlist
  <2>1. /\ pass'.path = pass.path /\ pass'.data = pass.data /\ pass'.hash = pass.hash
        /\ pass'.gone = pass.gone /\ UNCHANGED <<disk, db>>
    BY <1>0, <1>5 DEF DedupCheck, DedupRegister, Trim, StoreMeta, StoreChunk, EraseShards, Unlist, Pass
  <2>2. \A q \in Paths : Hash(q)' = Hash(q)
    BY <2>1 DEF Hash
  <2> QED
    BY <2>1, <2>2, GoesOn, Looks DEF M!Next
<1>6. CASE Uploaded
  <2>0. PICK p \in Paths : p = pass.path
    BY <1>6, InHandTyped DEF Uploaded, Uploading
  <2>1. UNCHANGED disk /\ (db[p] # None => pass.hash \in Contents /\ pass.hash # None)
    BY <1>6, <2>0, TextFacts DEF Uploaded, Uploading, Typed, PassKnows
  <2>2. CASE UNCHANGED db
    <3>1. \A q \in Paths : Hash(q)' = Hash(q)
      BY <2>2 DEF Hash
    <3>2. pass' = NextPath(p) \/ pass' = Resting
      BY <1>6, <2>0 DEF Uploaded
    <3> QED
      BY <2>1, <3>1, <3>2, DoneWith, Looks DEF M!Next
  <2>3. CASE ~UNCHANGED db
    <3>1. /\ db' = [db EXCEPT ![p] = [mtime |-> pass.mtime, hash |-> Recorded, file |-> InHand]]
          /\ pass' = NextPath(p)
      BY <1>6, <2>0, <2>3 DEF Uploaded
    <3>2. Recorded \in Seen(p)
      BY <2>0, <2>1 DEF Recorded, Seen
    <3>3. db'[p] # None /\ db'[p].hash = Recorded
      <4>1. Typed'
        BY <1>6, UploadedTyped
      <4>2. [mtime |-> pass.mtime, hash |-> Recorded, file |-> InHand] \in FileState
        <5>1. Recorded \in Contents
          <6>1. db[p] = None => disk[p].data \in Contents
            BY <1>6, <2>0, <2>3, EntriesTyped DEF Uploaded, Typed
          <6> QED
            BY <2>0, <2>1, <6>1 DEF Recorded
        <5> QED
          BY <1>6, <5>1, InHandTyped DEF FileState, Uploaded, Uploading
      <4> QED
        BY <3>1, <4>2, TextAssumption DEF Typed, VarsTyped
    <3>4. Hash(p)' \in Seen(p)
      BY <3>2, <3>3 DEF Hash
    <3>5. \A q \in Paths : q # p => Hash(q)' = Hash(q)
      BY <3>1 DEF Hash, Typed, VarsTyped
    <3> QED
      BY <2>1, <3>1, <3>4, <3>5, DoneWith, Records DEF M!Next
  <2> QED
    BY <2>2, <2>3
<1>7. ASSUME NEW p \in Paths, Erase(p)
      PROVE  [M!Next]_M!vars
  <2>1. UNCHANGED <<disk, db>> /\ \A q \in Paths : Hash(q)' = Hash(q)
    BY <1>7 DEF Erase, Hash
  <2>2. CASE pass' = NextPath(p)
    BY <2>1, <2>2, DoneWith, Looks DEF M!Next
  <2>3. CASE pass' = [pass EXCEPT !.at = "erase", !.path = p]
    <3>1. pass'.data = None /\ pass'.hash = None /\ pass'.gone = pass.gone
      BY <1>0, <1>7, <2>3 DEF Erase, Typed, PassOK, Pass, Uploading
    <3>2. \A q \in Paths : Seen(q)' \subseteq Seen(q)
      BY <2>1, <3>1 DEF Seen
    <3> QED
      BY <2>1, <3>2, Looks DEF M!Next
  <2> QED
    BY <1>7, <2>2, <2>3 DEF Erase
<1>8. CASE Erased
  <2>0. PICK p \in Paths : p = pass.path /\ p \in pass.gone
    BY <1>0, <1>8 DEF Erased, Typed, PassOK, Pass, Erasing
  <2>1. UNCHANGED disk /\ db' = [db EXCEPT ![p] = None] /\ pass' = NextPath(p)
    BY <1>8, <2>0 DEF Erased
  <2>2. Hash(p)' \in Seen(p) /\ \A q \in Paths : q # p => Hash(q)' = Hash(q)
    BY <2>0, <2>1 DEF Hash, Seen, Typed, VarsTyped
  <2> QED
    BY <2>1, <2>2, DoneWith, Records DEF M!Next
<1> QED
  BY <1>1, <1>2, <1>3, <1>4, <1>5, <1>6, <1>7, <1>8, <1>9 DEF Work

LEMMA FaultsMirror ==
    ASSUME Typed, Fail \/ Restart
    PROVE  [M!Next]_M!vars
<1>1. UNCHANGED disk /\ \A q \in Paths : Seen(q)' \subseteq Seen(q)
  <2>1. UNCHANGED disk
    BY DEF Fail, Restart, Interrupted
  <2>2. pass' = NextPath(pass.path) \/ pass' = Resting
    BY DEF Fail, Restart
  <2> QED
    BY <2>1, <2>2, DoneWith
<1>2. CASE UNCHANGED db
  <2>1. \A q \in Paths : Hash(q)' = Hash(q)
    BY <1>2 DEF Hash
  <2> QED
    BY <1>1, <2>1, Looks DEF M!Next
<1>3. CASE db' = [p \in Paths |-> None]
  <2>1. M!Lose
    BY <1>1, <1>3 DEF M!Lose, Seen
  <2> QED
    BY <2>1 DEF M!Next
<1> QED
  BY <1>2, <1>3 DEF Fail, Restart

LEMMA StepMirrors == Typed /\ Typed' /\ [Next]_vars => [M!Next]_M!vars
<1> SUFFICES ASSUME Typed, Typed', [Next]_vars PROVE [M!Next]_M!vars
  OBVIOUS
<1>1. CASE UNCHANGED vars
  BY <1>1 DEF vars, M!vars
<1>2. CASE \/ \E p \in Paths, h \in Contents \cup {None} : Edit(p, h)
           \/ \E p, q \in Paths : Rename(p, q)
  <2>1. UNCHANGED <<db, pass>>
    BY <1>2 DEF Edit, Rename
  <2> QED
    BY <2>1, Changes DEF M!Next
<1> QED
  BY <1>1, <1>2, WorkMirrors, FaultsMirror DEF Next

(* The state file comes to say of a path only what the directory held      *)
(* there while the pass was looking at it: the watcher implements Mirror.  *)
THEOREM StateFileMirrors == Spec => IsMirror
<1>1. Init => M!Init
  BY DEF Init, M!Init, NoFile, Resting
<1> QED
  BY <1>1, AlwaysTyped, StepMirrors, PTL DEF Spec, IsMirror, M!Spec

----------------------------------------------------------------------------
(* Convergent files.                                                       *)

(* Steps that write nothing into the store, or nothing into the state file.*)
LEMMA ConvergentStored ==
    ASSUME ConvergentFiles, UNCHANGED store
    PROVE  ConvergentFiles'
BY DEF ConvergentFiles, Convergent, Readable, store

LEMMA ConvergentEntries ==
    ASSUME Typed, ConvergentListed, UNCHANGED store, Tracked' \subseteq Tracked,
           \A q \in Tracked' : db'[q].hash = db[q].hash /\ db'[q].file = db[q].file,
           \A q \in Tracked : q \in slipped => q \in slipped'
    PROVE  ConvergentListed'
BY DEF ConvergentListed, store

(* The looks at a file store nothing and are not part of an upload yet.    *)
LEMMA LookStays ==
    ASSUME Typed, HashFile \/ ReadVanished \/ \E p \in Paths : Stat(p)
    PROVE  /\ UNCHANGED <<store, slipped>> /\ pass'.at \notin Uploading
           /\ pass.at \in {"scan"} \cup Looking /\ Tracked' = Tracked
           /\ \A q \in Tracked : db'[q].hash = db[q].hash /\ db'[q].file = db[q].file
<1>0. PassOK /\ pass \in Pass
  BY DEF Typed, PassOK
<1>1. CASE HashFile
  <2>1. UNCHANGED <<store, slipped>> /\ pass.at = "hash"
    BY <1>1 DEF HashFile
  <2>2. pass'.at \in {"sleep", "scan", "read"}
    BY <1>0, <1>1, NextPathOK, RestingOK DEF HashFile, Pass
  <2> QED
    BY <1>1, <2>1, <2>2, HashKeeps DEF Uploading, Looking
<1>2. CASE ReadVanished
  <2>1. UNCHANGED <<store, slipped, db>> /\ pass.at = "read"
    BY <1>2 DEF ReadVanished
  <2>2. pass'.at \in {"sleep", "scan"}
    BY <1>0, <1>2, NextPathOK, RestingOK DEF ReadVanished
  <2> QED
    BY <2>1, <2>2 DEF Uploading, Looking, Tracked
<1>3. ASSUME NEW p \in Paths, Stat(p)
      PROVE  /\ UNCHANGED <<store, slipped, db>> /\ pass.at = "scan" /\ pass'.at \in {"scan", "hash", "read"}
  BY <1>0, <1>3, NextPathOK DEF Stat, Pass
<1> QED
  BY <1>1, <1>2, <1>3 DEF Uploading, Looking, Tracked

LEMMA ConvergentLooks ==
    ASSUME Typed, convergent, ConvergentInv, UNCHANGED convergent,
           \/ PassStart \/ PassEnd \/ HashFile \/ Read \/ ReadVanished
           \/ \E p \in Paths : Stat(p) \/ Erase(p)
    PROVE  ConvergentInv'
<1>0. ConvergentFiles /\ ConvergentListed /\ PassOK
  BY DEF ConvergentInv, Typed
<1>1. CASE PassStart \/ PassEnd
  <2>1. UNCHANGED <<db, store, slipped>> /\ pass'.at \notin Uploading
    <3>1. [Resting EXCEPT !.at = "scan", !.todo = OnDisk, !.gone = Deleted].at = "scan"
      BY DEF Resting
    <3> QED
      BY <1>1, <3>1, RestingOK DEF PassStart, PassEnd, Uploading
  <2>2. ConvergentListed' /\ ConvergentFiles'
    BY <1>0, <2>1, ConvergentStored, ConvergentEntries DEF Tracked
  <2> QED
    BY <2>1, <2>2 DEF ConvergentInv, ConvergentPass
<1>2. CASE HashFile \/ ReadVanished \/ \E p \in Paths : Stat(p)
  <2>1. UNCHANGED <<store, slipped>> /\ pass'.at \notin Uploading
    BY <1>0, <1>2, LookStays
  <2>2. ConvergentListed' /\ ConvergentFiles'
    BY <1>0, <1>2, <2>1, LookStays, ConvergentStored, ConvergentEntries
  <2> QED
    BY <2>1, <2>2 DEF ConvergentInv, ConvergentPass
<1>3. ASSUME NEW p \in Paths, Erase(p)
      PROVE  ConvergentInv'
  <2>1. UNCHANGED <<db, store, slipped>>
    BY <1>3 DEF Erase
  <2>2. pass'.at \notin Uploading
    <3>1. [pass EXCEPT !.at = "erase", !.path = p].at = "erase"
      BY <1>0 DEF PassOK, Pass
    <3> QED
      BY <1>0, <1>3, <3>1, NextPathOK DEF Erase, Uploading
  <2>3. ConvergentListed' /\ ConvergentFiles'
    BY <1>0, <2>1, ConvergentStored, ConvergentEntries DEF Tracked
  <2> QED
    BY <2>2, <2>3 DEF ConvergentInv, ConvergentPass
<1>4. CASE Read
  <2> DEFINE p == pass.path
  <2>1. /\ UNCHANGED <<db, store>> /\ slipped' = slipped \ {q \in {p} : db[q] = None}
        /\ pass'.at = "check" /\ pass'.data = disk[p].data /\ pass'.enc = [i \in Positions |-> 0]
        /\ pass'.left = DOMAIN Text[disk[p].data] /\ pass'.kept = pass.kept /\ pass.at = "read"
    BY <1>0, <1>4 DEF Read, PassOK, Pass
  <2>2. ConvergentListed' /\ ConvergentFiles'
    BY <1>0, <2>1, ConvergentStored, ConvergentEntries DEF Tracked
  <2>3. ConvergentPass'
    BY <1>0, <2>1 DEF ConvergentPass, PassOK, Uploading
  <2> QED
    BY <2>2, <2>3 DEF ConvergentInv
<1> QED
  BY <1>1, <1>2, <1>3, <1>4

LEMMA ConvergentUploads ==
    ASSUME Typed, Typed', convergent, ConvergentInv, UNCHANGED convergent,
           DedupCheck \/ DedupRegister \/ Trim \/ StoreMeta \/ \E i \in Positions : StoreChunk(i)
    PROVE  ConvergentInv'
<1>0. /\ ConvergentFiles /\ ConvergentListed /\ ConvergentPass /\ pass \in Pass
      /\ pass.at \in Uploading /\ pass.data \in Contents /\ InHand = pass.data
      /\ Tracked' = Tracked /\ UNCHANGED <<db, slipped>>
  BY InHandTyped DEF ConvergentInv, Typed, PassOK, DedupCheck, DedupRegister, Trim, StoreMeta, StoreChunk,
                     Uploading, Tracked
<1> DEFINE h == pass.data
           new(i) == [data |-> Text[pass.data][i], enc |-> 0]
<1>1. CASE DedupCheck
  <2>1. /\ UNCHANGED store /\ pass'.at \in {"register", "write"}
        /\ pass'.data = pass.data /\ pass'.enc = pass.enc /\ pass'.left = pass.left /\ pass'.kept = pass.kept
    BY <1>0, <1>1 DEF DedupCheck, Pass
  <2>2. ConvergentListed' /\ ConvergentFiles'
    BY <1>0, <2>1, ConvergentStored, ConvergentEntries
  <2>3. ConvergentPass'
    BY <1>0, <2>1 DEF ConvergentPass, store
  <2> QED
    BY <2>2, <2>3 DEF ConvergentInv
<1>2. CASE DedupRegister
  <2>1. /\ UNCHANGED <<held, spoilt>> /\ pass'.at = "ack"
        /\ pass'.data = pass.data /\ pass'.enc = pass.enc /\ pass'.left = pass.left /\ pass'.kept = pass.kept
        /\ files' = [files EXCEPT ![pass.data].refs = TRUE] /\ files[pass.data] # None
    BY <1>0, <1>2 DEF DedupRegister, Pass, Typed, PassKnows
  <2>2. files[pass.data] \in FileMeta
    BY <1>0, <2>1, TextFacts DEF Typed, VarsTyped
  <2>3. [files[pass.data] EXCEPT !.refs = TRUE] \in FileMeta
    BY <2>2 DEF FileMeta
  <2>4. /\ files'[pass.data] # None /\ files'[pass.data].data = files[pass.data].data
        /\ files'[pass.data].enc = files[pass.data].enc
        /\ \A f \in Files : f # pass.data => files'[f] = files[f]
    BY <1>0, <2>1, <2>2, <2>3, TextAssumption, TextFacts DEF Typed, VarsTyped, FileMeta
  <2>5. ConvergentFiles'
    <3> SUFFICES ASSUME NEW g \in Contents PROVE Convergent(g)'
      BY DEF ConvergentFiles
    <3>1. Convergent(g) /\ g \in Files
      BY <1>0, TextFacts DEF ConvergentFiles
    <3>2. /\ files'[g] # None <=> files[g] # None
          /\ files[g] # None => files'[g].data = files[g].data /\ files'[g].enc = files[g].enc
      BY <2>1, <2>4, <3>1
    <3> QED
      BY <2>1, <3>1, <3>2 DEF Convergent, Readable
  <2>6. ConvergentListed'
    BY <1>0, <2>1, <2>4, TextFacts DEF ConvergentListed
  <2>7. ConvergentPass'
    BY <1>0, <2>1, <2>4 DEF ConvergentPass
  <2> QED
    BY <2>5, <2>6, <2>7 DEF ConvergentInv
<1>3. CASE Trim
  <2>1. /\ UNCHANGED <<files, spoilt>> /\ pass'.at = "store" /\ pass.left = {}
        /\ pass'.data = pass.data /\ pass'.enc = pass.enc /\ pass'.left = pass.left /\ pass'.kept = pass.kept
        /\ UNCHANGED held
    <3>1. Trimmed(InHand, pass.data) = {}
      BY DEF Trimmed
    <3>2. held' = [x \in DOMAIN held |-> held[x]]
      BY <1>3, <3>1 DEF Trim
    <3>3. UNCHANGED held
      BY <3>2 DEF Typed, VarsTyped
    <3> QED
      BY <1>0, <1>3, <3>3 DEF Trim, Pass
  <2>2. ConvergentListed' /\ ConvergentFiles'
    BY <1>0, <2>1, ConvergentStored, ConvergentEntries DEF store
  <2>3. ConvergentPass'
    BY <1>0, <2>1 DEF ConvergentPass
  <2> QED
    BY <2>2, <2>3 DEF ConvergentInv
<1>4. CASE StoreMeta
  <2> DEFINE rec == [data |-> pass.data, enc |-> pass.enc, refs |-> FALSE, mine |-> TRUE]
  <2>1. /\ UNCHANGED held /\ pass'.at = "ack" /\ pass.at = "store"
        /\ pass'.data = pass.data /\ pass'.enc = pass.enc /\ pass'.left = pass.left /\ pass'.kept = pass.kept
        /\ files' = [files EXCEPT ![h] = rec] /\ spoilt' = spoilt \ {h}
    BY <1>0, <1>4 DEF StoreMeta, Pass, ConvergentPass
  <2>2. rec \in FileMeta
    BY <1>0, InHandTyped DEF FileMeta
  <2>3. /\ files'[h] # None /\ files'[h].data = h /\ files'[h].enc = [i \in Positions |-> 0]
        /\ \A f \in Files : f # h => files'[f] = files[f]
    BY <1>0, <2>1, <2>2, TextAssumption, TextFacts DEF Typed, VarsTyped, ConvergentPass
  <2>4. ConvergentFiles'
    <3> SUFFICES ASSUME NEW g \in Contents PROVE Convergent(g)'
      BY DEF ConvergentFiles
    <3>1. Convergent(g) /\ g \in Files
      BY <1>0, TextFacts DEF ConvergentFiles
    <3>2. CASE g = h
      <4>1. \A i \in DOMAIN Text[g] : held'[<<g, i>>] = [data |-> Text[g][i], enc |-> 0] /\ i \in Positions
        BY <1>0, <2>1, <3>2, TextFacts DEF ConvergentPass
      <4> QED
        BY <2>3, <3>2, <4>1 DEF Convergent, Readable
    <3>3. CASE g # h
      BY <2>1, <2>3, <3>1, <3>3 DEF Convergent, Readable
    <3> QED
      BY <3>2, <3>3
  <2>5. ConvergentListed'
    BY <1>0, <2>1, <2>3, TextFacts DEF ConvergentListed
  <2>6. ConvergentPass'
    BY <1>0, <2>1, <2>3 DEF ConvergentPass
  <2> QED
    BY <2>4, <2>5, <2>6 DEF ConvergentInv
<1>5. ASSUME NEW i \in Positions, StoreChunk(i)
      PROVE  ConvergentInv'
  <2> DEFINE x == <<h, i>>
             keeps == held[x] # Absent /\ Size[held[x].data] = Size[new(i).data]
  <2>1. /\ pass.at = "write" /\ i \in pass.left /\ pass.enc[i] = 0 /\ ~pass.kept
        /\ i \in DOMAIN Text[h] /\ UNCHANGED <<files, spoilt>>
    BY <1>0, <1>5, InHandTyped DEF StoreChunk, ConvergentPass
  <2>2. /\ held' = IF keeps THEN held ELSE [held EXCEPT ![x] = new(i)]
        /\ pass'.kept = (pass.kept \/ (keeps /\ held[x] # new(i)))
        /\ pass'.at = pass.at /\ pass'.data = h /\ pass'.enc = pass.enc /\ pass'.left = pass.left \ {i}
    BY <1>0, <1>5, <2>1 DEF StoreChunk, Pass
  <2>3. held[x] \in {Absent, new(i)}
    BY <1>0, <2>1 DEF ConvergentFiles, Convergent
  <2>4. x \in Files \X Positions
    BY <1>0, TextFacts
  <2>5. held'[x] = new(i) /\ ~pass'.kept /\ \A y \in Files \X Positions : y # x => held'[y] = held[y]
    BY <2>1, <2>2, <2>3, <2>4 DEF Typed, VarsTyped
  <2>6. \A g \in Contents : \A j \in DOMAIN Text[g] : <<g, j>> \in Files \X Positions
    BY TextFacts
  <2>7. \A g \in Contents : \A j \in DOMAIN Text[g] :
           held'[<<g, j>>] = held[<<g, j>>] \/ (g = h /\ j = i /\ held'[<<g, j>>] = new(i))
    BY <2>5, <2>6
  <2>8. ConvergentFiles'
    <3> SUFFICES ASSUME NEW g \in Contents PROVE Convergent(g)'
      BY DEF ConvergentFiles
    <3>1. Convergent(g)
      BY <1>0 DEF ConvergentFiles
    <3>2. \A j \in DOMAIN Text[g] : held'[<<g, j>>] \in {Absent, [data |-> Text[g][j], enc |-> 0]}
      BY <2>7, <3>1 DEF Convergent
    <3>3. Readable(g) /\ files[g] # None => Readable(g)'
      <4> SUFFICES ASSUME Readable(g), files[g] # None, NEW j \in DOMAIN Text[g]
                   PROVE  held'[<<g, j>>] = [data |-> Text[g][j], enc |-> files[g].enc[j]]
        BY <2>1, <3>1 DEF Readable, Convergent
      <4>1. files[g].data = g /\ files[g].enc = [k \in Positions |-> 0] /\ j \in Positions
        BY <3>1, TextFacts DEF Convergent
      <4> QED
        BY <2>7, <4>1 DEF Readable
    <3> QED
      BY <2>1, <3>1, <3>2, <3>3 DEF Convergent
  <2>9. ConvergentListed'
    BY <1>0, <2>1 DEF ConvergentListed
  <2>10. ConvergentPass'
    BY <1>0, <2>1, <2>2, <2>5, <2>7 DEF ConvergentPass
  <2> QED
    BY <2>8, <2>9, <2>10 DEF ConvergentInv
<1> QED
  BY <1>1, <1>2, <1>3, <1>4, <1>5

LEMMA ConvergentEnds ==
    ASSUME Typed, Typed', convergent, ConvergentInv, UNCHANGED convergent,
           Uploaded \/ EraseShards \/ Unlist \/ Erased
    PROVE  ConvergentInv'
<1>0. ConvergentFiles /\ ConvergentListed /\ ConvergentPass /\ PassOK /\ pass \in Pass
  BY DEF ConvergentInv, Typed, PassOK
<1>1. CASE Uploaded
  <2>1. /\ UNCHANGED <<store, disk>> /\ pass.at = "ack" /\ pass.path \in Paths /\ pass.data \in Contents
        /\ InHand = pass.data /\ files[pass.data] # None
    BY <1>0, <1>1, InHandTyped DEF Uploaded, ConvergentPass, Uploading
  <2>2. pass'.at \notin Uploading
    BY <1>0, <1>1, NextPathOK, RestingOK DEF Uploaded, Uploading
  <2>3. ConvergentListed'
    <3>1. CASE UNCHANGED <<db, slipped>>
      BY <1>0, <2>1, <3>1, ConvergentEntries DEF Tracked
    <3>2. CASE ~UNCHANGED <<db, slipped>>
      <4>1. /\ db' = [db EXCEPT ![pass.path] = [mtime |-> pass.mtime, hash |-> Recorded, file |-> pass.data]]
            /\ slipped' = IF db[pass.path] = None THEN slipped
                          ELSE IF pass.data = pass.hash THEN slipped \ {pass.path}
                          ELSE slipped \cup {pass.path}
        BY <1>1, <2>1, <3>2 DEF Uploaded
      <4>2. /\ db'[pass.path].file = pass.data /\ db'[pass.path].hash = Recorded
            /\ \A q \in Paths : q # pass.path => db'[q] = db[q] /\ (q \in slipped' <=> q \in slipped)
        BY <2>1, <4>1 DEF Typed, VarsTyped
      <4>3. pass.path \notin slipped' => Recorded = pass.data
        BY <2>1, <4>1 DEF Recorded, Typed, PassKnows, Uploading
      <4> QED
        BY <1>0, <2>1, <4>2, <4>3 DEF ConvergentListed, Tracked, store
    <3> QED
      BY <3>1, <3>2
  <2> QED
    BY <1>0, <2>1, <2>2, <2>3, ConvergentStored DEF ConvergentInv, ConvergentPass
<1>2. CASE EraseShards
  <2>1. PICK f : f = db[pass.path].file
    OBVIOUS
  <2>2. PICK lost \in SUBSET ({f} \X DOMAIN Text[files[f].data]) :
           held' = [x \in DOMAIN held |-> IF x \in lost THEN Absent ELSE held[x]]
    BY <1>2, <2>1 DEF EraseShards
  <2>3. UNCHANGED <<db, files, slipped>> /\ spoilt' = spoilt \cup {f} /\ pass'.at = "unlist"
    BY <1>0, <1>2, <2>1 DEF EraseShards, Pass
  <2>4. \A x \in Files \X Positions :
           held'[x] = held[x] \/ (x[1] = f /\ held'[x] = Absent)
    BY <2>2 DEF Typed, VarsTyped
  <2>5. \A g \in Contents : \A j \in DOMAIN Text[g] :
           held'[<<g, j>>] = held[<<g, j>>] \/ (g = f /\ held'[<<g, j>>] = Absent)
    BY <2>4, TextFacts
  <2>6. ConvergentFiles'
    <3> SUFFICES ASSUME NEW g \in Contents PROVE Convergent(g)'
      BY DEF ConvergentFiles
    <3>1. Convergent(g)
      BY <1>0 DEF ConvergentFiles
    <3>2. \A j \in DOMAIN Text[g] : held'[<<g, j>>] \in {Absent, [data |-> Text[g][j], enc |-> 0]}
      BY <2>5, <3>1 DEF Convergent
    <3>3. g # f /\ files[g] # None /\ Readable(g) => Readable(g)'
      BY <2>3, <2>5, <3>1 DEF Convergent, Readable
    <3> QED
      BY <2>3, <3>1, <3>2, <3>3 DEF Convergent
  <2>7. ConvergentListed'
    BY <1>0, <2>3 DEF ConvergentListed, Tracked
  <2> QED
    BY <2>3, <2>6, <2>7 DEF ConvergentInv, ConvergentPass, Uploading
<1>3. CASE Unlist
  <2>1. PICK f : f = db[pass.path].file /\ f \in spoilt
    BY <1>3 DEF Unlist, Typed, PassKnows
  <2>2. /\ UNCHANGED <<db, held, spoilt, slipped>> /\ pass'.at = "unlisted"
        /\ files' = files \/ files' = [files EXCEPT ![f] = None]
    BY <1>0, <1>3, <2>1 DEF Unlist, Pass
  <2>3. \A g \in Files : files'[g] = files[g] \/ (g = f /\ files'[g] = None)
    BY <2>2 DEF Typed, VarsTyped
  <2>4. ConvergentFiles'
    BY <1>0, <2>2, <2>3, TextFacts DEF ConvergentFiles, Convergent, Readable
  <2>5. ConvergentListed'
    BY <1>0, <2>1, <2>2, <2>3, TextFacts DEF ConvergentListed, Tracked
  <2> QED
    BY <2>2, <2>4, <2>5 DEF ConvergentInv, ConvergentPass, Uploading
<1>4. CASE Erased
  <2>1. /\ UNCHANGED <<store, slipped>> /\ db' = [db EXCEPT ![pass.path] = None]
        /\ pass'.at \notin Uploading
    BY <1>0, <1>4, NextPathOK DEF Erased, Uploading
  <2>2. Tracked' \subseteq Tracked /\ \A q \in Tracked' : db'[q] = db[q]
    BY <2>1 DEF Tracked, Typed, VarsTyped
  <2>3. ConvergentListed'
    BY <1>0, <2>1, <2>2, ConvergentEntries
  <2> QED
    BY <1>0, <2>1, <2>3, ConvergentStored DEF ConvergentInv, ConvergentPass
<1> QED
  BY <1>1, <1>2, <1>3, <1>4

(* How the watcher was started stays.                                      *)
LEMMA ModeKept == [Next]_vars => UNCHANGED convergent
BY DEF Next, vars, mode, Work, PassStart, PassEnd, Stat, HashFile, Read, ReadVanished, Erase, DedupCheck, DedupRegister, Trim,
       StoreMeta, Uploaded, StoreChunk, EraseShards, Unlist, Erased, Fail, Restart, Interrupted, Edit, Rename

LEMMA ConvergentNext == Typed /\ Typed' /\ ConvergentInv /\ [Next]_vars => ConvergentInv'
<1> SUFFICES ASSUME Typed, Typed', ConvergentInv, [Next]_vars, convergent PROVE ConvergentInv'
  BY ModeKept DEF ConvergentInv
<1>0. ConvergentFiles /\ ConvergentListed /\ ConvergentPass
  BY DEF ConvergentInv
<1>1. UNCHANGED convergent
  BY ModeKept
<1>2. CASE Work
  BY <1>1, <1>2, ConvergentLooks, ConvergentUploads, ConvergentEnds DEF Work
<1>3. CASE \/ UNCHANGED vars
           \/ \E p \in Paths, h \in Contents \cup {None} : Edit(p, h)
           \/ \E p, q \in Paths : Rename(p, q)
  <2>1. UNCHANGED <<db, store, pass>> /\ \A q \in Tracked : q \in slipped => q \in slipped'
    BY <1>3 DEF vars, Edit, Rename
  <2>2. ConvergentListed' /\ ConvergentFiles'
    BY <1>0, <2>1, ConvergentStored, ConvergentEntries DEF Tracked
  <2> QED
    BY <1>0, <2>1, <2>2 DEF ConvergentInv, ConvergentPass, store
<1>4. CASE Fail \/ Restart
  <2>1. UNCHANGED <<store, slipped>>
    <3>1. CASE Interrupted
      BY <3>1 DEF Interrupted, store
    <3>2. CASE UNCHANGED <<disk, edits, mode, store, slipped>>
      BY <3>2
    <3> QED
      BY <1>4, <3>1, <3>2 DEF Fail, Restart
  <2>2. pass'.at \notin Uploading
    BY <1>4, NextPathOK, RestingOK DEF Fail, Restart, Typed, Uploading
  <2>3. Tracked' \subseteq Tracked /\ \A q \in Tracked' : db'[q] = db[q]
    BY <1>4 DEF Fail, Restart, Tracked
  <2>4. ConvergentListed' /\ ConvergentFiles'
    BY <1>0, <2>1, <2>3, ConvergentStored, ConvergentEntries
  <2> QED
    BY <2>2, <2>4 DEF ConvergentInv, ConvergentPass
<1> QED
  BY <1>2, <1>3, <1>4 DEF Next

----------------------------------------------------------------------------
(* Private files.                                                          *)

Acknowledged(p) == pass.path = p /\ pass.at = "ack"

(* What a step must show that writes nothing about a path.                 *)
LEMMA PrivateKept ==
    ASSUME Typed, NEW p \in Paths, Private(p), db'[p].hash = db[p].hash, db'[p].file = db[p].file,
           UNCHANGED files[p], p \in spoilt => p \in spoilt', p \in slipped => p \in slipped',
           Whole(p)' /\ p \notin spoilt' =>
              Whole(p) /\ \A i \in Positions : held'[<<p, i>>] = held[<<p, i>>],
           Acknowledged(p) /\ p \notin spoilt' /\ p \notin slipped' => Acknowledged(p)'
    PROVE  Private(p)'
<1>1. db'[p].file = p
  BY DEF Private
<1>2. ASSUME p \notin spoilt'
      PROVE  /\ files'[p] # None
             /\ p \notin slipped' /\ ~Acknowledged(p)' => files'[p].data = db'[p].hash
  BY <1>2 DEF Private, Acknowledged
<1>3. ASSUME p \notin spoilt', Whole(p)'
      PROVE  Readable(p)'
  <2>1. files[p] # None /\ Readable(p) /\ DOMAIN Text[files[p].data] \subseteq Positions
    <3>1. files[p] # None /\ Readable(p)
      BY <1>3 DEF Private
    <3>2. files[p].data \in Contents
      BY <3>1, TextFacts DEF Typed, VarsTyped, FileMeta
    <3> QED
      BY <3>1, <3>2, TextFacts
  <2> QED
    BY <1>3, <2>1 DEF Readable
<1> QED
  BY <1>1, <1>2, <1>3 DEF Private, Acknowledged

(* What a step must show after which no upload is in hand.                 *)
LEMMA PrivateRest ==
    ASSUME Typed, PrivateListed, UNCHANGED <<files, held>>, pass'.at \notin Uploading,
           Tracked' \subseteq Tracked,
           \A q \in Tracked' : db'[q].hash = db[q].hash /\ db'[q].file = db[q].file,
           \A q \in Tracked' : /\ q \in spoilt => q \in spoilt'
                               /\ q \in slipped => q \in slipped'
                               /\ q \notin spoilt' => Whole(q)
                               /\ Acknowledged(q) => q \in spoilt' \cup slipped'
    PROVE  PrivateInv'
<1>1. ASSUME NEW q \in Tracked'
      PROVE  Private(q)'
  <2>1. q \in Paths /\ Private(q)
    BY <1>1 DEF PrivateListed, Tracked
  <2> QED
    BY <1>1, <2>1, PrivateKept
<1> QED
  BY <1>1 DEF PrivateInv, PrivateListed, PrivatePass

LEMMA PrivateLooks ==
    ASSUME Typed, ~convergent, PrivateInv, UNCHANGED convergent,
           \/ PassStart \/ PassEnd \/ Erased \/ HashFile \/ Read \/ ReadVanished
           \/ \E p \in Paths : Stat(p) \/ Erase(p)
    PROVE  PrivateInv'
<1>0. PrivateListed /\ PrivatePass /\ PassOK /\ pass \in Pass
  BY DEF PrivateInv, Typed, PassOK
<1>00. pass.at \in {"sleep", "scan"} \cup Looking => \A q \in Tracked : Whole(q) /\ ~Acknowledged(q)
  BY <1>0, TextAssumption DEF PassOK, Whole, Acknowledged, Tracked, Files, Looking
<1>1. CASE PassStart \/ PassEnd
  <2>1. UNCHANGED <<db, store, slipped>> /\ pass'.at \notin Uploading /\ pass.at \in {"sleep", "scan"}
    <3>1. [Resting EXCEPT !.at = "scan", !.todo = OnDisk, !.gone = Deleted].at = "scan"
      BY DEF Resting
    <3> QED
      BY <1>1, <3>1, RestingOK DEF PassStart, PassEnd, Uploading
  <2> QED
    BY <1>0, <1>00, <2>1, PrivateRest DEF Tracked, store
<1>2. CASE HashFile \/ ReadVanished \/ \E p \in Paths : Stat(p)
  <2>1. /\ UNCHANGED <<store, slipped>> /\ pass'.at \notin Uploading /\ pass.at \in {"scan"} \cup Looking
        /\ Tracked' = Tracked
        /\ \A q \in Tracked : db'[q].hash = db[q].hash /\ db'[q].file = db[q].file
    BY <1>2, LookStays
  <2> QED
    BY <1>0, <1>00, <2>1, PrivateRest DEF store
<1>3. ASSUME NEW p \in Paths, Erase(p)
      PROVE  PrivateInv'
  <2>1. UNCHANGED <<db, store, slipped>> /\ pass.at = "scan"
    BY <1>3 DEF Erase
  <2>2. pass'.at \notin Uploading
    <3>1. [pass EXCEPT !.at = "erase", !.path = p].at = "erase"
      BY <1>0 DEF PassOK, Pass
    <3> QED
      BY <1>0, <1>3, <3>1, NextPathOK DEF Erase, Uploading
  <2> QED
    BY <1>0, <1>00, <2>1, <2>2, PrivateRest DEF Tracked, store
<1>4. CASE Erased
  <2>1. /\ UNCHANGED <<store, slipped>> /\ db' = [db EXCEPT ![pass.path] = None]
        /\ pass'.at \notin Uploading /\ pass.at = "unlisted"
    BY <1>0, <1>4, NextPathOK DEF Erased, Uploading
  <2>2. /\ Tracked' \subseteq Tracked
        /\ \A q \in Tracked' : db'[q] = db[q] /\ Whole(q) /\ ~Acknowledged(q)
    BY <2>1 DEF Tracked, Typed, VarsTyped, Whole, Acknowledged
  <2> QED
    BY <1>0, <2>1, <2>2, PrivateRest DEF store
<1>5. CASE Read
  <2>0. PICK p \in Paths : p = pass.path
    BY <1>0, <1>5 DEF Read, PassOK, Pass, Looking
  <2> DEFINE h == disk[p].data
  <2>1. /\ UNCHANGED <<db, store>> /\ slipped' = slipped \ {q \in {p} : db[q] = None}
        /\ pass'.at = "write" /\ pass'.path = p /\ pass'.data = h
        /\ pass'.left = DOMAIN Text[h] \ Reused(p, h) /\ pass'.kept = pass.kept /\ pass.at = "read"
        /\ pass'.touched = pass.touched
    BY <1>0, <1>5, <2>0 DEF Read, PassOK, Pass
  <2>2. h \in Contents
    BY <1>5, <2>0, EntriesTyped DEF Read, Typed
  <2>3. \A i \in Reused(p, h) : pass'.enc[i] = files[p].enc[i]
    <3>1. pass'.enc = [i \in Positions |->
             CASE i \notin DOMAIN Text[h] -> 0
               [] i \in Reused(p, h)     -> files[p].enc[i]
               [] OTHER                  -> NewEncryption(p, i)]
      BY <1>0, <1>5, <2>0 DEF Read, PassOK, Pass
    <3>2. Reused(p, h) \subseteq DOMAIN Text[h] /\ Reused(p, h) \subseteq Positions
      BY <2>2, TextFacts DEF Reused
    <3> QED
      BY <3>1, <3>2
  <2>4. PrivateListed'
    <3> SUFFICES ASSUME NEW q \in Tracked' PROVE Private(q)'
      BY DEF PrivateListed
    <3>1. q \in Paths /\ Private(q) /\ Whole(q) /\ ~Acknowledged(q) /\ db[q] # None
      BY <1>0, <1>00, <2>1 DEF PrivateListed, Tracked, Looking
    <3>2. q \in slipped => q \in slipped'
      BY <2>1, <3>1
    <3> QED
      BY <2>1, <3>1, <3>2, PrivateKept DEF store
  <2>5. \A i \in Reused(p, h) : p \in spoilt \/ held[<<p, i>>] = [data |-> Text[h][i], enc |-> files[p].enc[i]]
    <3> SUFFICES ASSUME NEW i \in Reused(p, h), p \notin spoilt
                 PROVE  held[<<p, i>>] = [data |-> Text[h][i], enc |-> files[p].enc[i]]
      OBVIOUS
    <3>1. /\ db[p] # None /\ files[p] # None /\ i \in DOMAIN Text[files[p].data]
          /\ Text[h][i] = Text[files[p].data][i]
      BY DEF Reused
    <3>2. Readable(p)
      BY <1>0, <1>00, <2>1, <3>1 DEF PrivateListed, Private, Tracked, Looking
    <3> QED
      BY <3>1, <3>2 DEF Readable
  <2>6. Updates(p)'
    <3>1. Reused(p, pass.data)' = Reused(p, h)
      BY <2>1 DEF Reused, store
    <3> QED
      BY <2>1, <2>3, <2>5, <3>1 DEF Updates, Updated, store
  <2> QED
    BY <2>1, <2>4, <2>6 DEF PrivateInv, PrivatePass
<1> QED
  BY <1>1, <1>2, <1>3, <1>4, <1>5

LEMMA PrivateUploads ==
    ASSUME Typed, Typed', ~convergent, PrivateInv, UNCHANGED convergent,
           Trim \/ StoreMeta \/ \E i \in Positions : StoreChunk(i)
    PROVE  PrivateInv'
<1>0. /\ PrivateListed /\ pass \in Pass /\ pass.at \in Uploading
      /\ Tracked' = Tracked /\ UNCHANGED <<db, slipped>>
  BY DEF PrivateInv, Typed, PassOK, Trim, StoreMeta, StoreChunk, Uploading, Tracked
<1>00. PICK p \in Paths : p = pass.path
  BY <1>0, InHandTyped
<1>000. /\ InHand = p /\ pass.data \in Contents /\ pass.enc \in [Positions -> Encryptions] /\ Updates(p)
        /\ p \in Files
  BY <1>0, <1>00, InHandTyped, TextFacts DEF PrivateInv, PrivatePass
<1> DEFINE h == pass.data
<1>1. CASE Trim
  <2>1. PICK lost \in SUBSET Trimmed(p, h) :
           /\ held' = [x \in DOMAIN held |-> IF x \in lost THEN Absent ELSE held[x]]
           /\ pass' = [pass EXCEPT !.at = "store", !.touched = @ \/ lost # {}]
    BY <1>1, <1>000 DEF Trim
  <2>2. /\ pass.at = "write" /\ pass.left = {} /\ UNCHANGED <<files, spoilt>>
        /\ pass'.at = "store" /\ pass'.path = p /\ pass'.data = pass.data /\ pass'.enc = pass.enc
        /\ pass'.left = pass.left /\ pass'.kept = pass.kept
        /\ ~pass'.touched => ~pass.touched /\ lost = {}
    BY <1>0, <1>00, <1>1, <2>1 DEF Trim, Pass
  <2>3. \A q \in Paths : \A i \in Positions :
           \/ held'[<<q, i>>] = held[<<q, i>>]
           \/ q = p /\ i \notin DOMAIN Text[h] /\ lost # {}
    <3>1. \A x \in Files \X Positions : held'[x] = IF x \in lost THEN Absent ELSE held[x]
      BY <2>1 DEF Typed, VarsTyped
    <3>2. \A x \in lost : x[1] = p /\ x[2] \notin DOMAIN Text[h]
      BY <2>1 DEF Trimmed
    <3> QED
      BY <3>1, <3>2, TextFacts
  <2>4. ASSUME NEW q \in Tracked
        PROVE  Private(q)'
    <3>1. q \in Paths /\ Private(q)
      BY <1>0, <2>4 DEF PrivateListed, Tracked
    <3>2. Whole(q)' => Whole(q) /\ \A i \in Positions : held'[<<q, i>>] = held[<<q, i>>]
      BY <1>0, <1>00, <2>2, <2>3, <3>1 DEF Whole, Looking
    <3>3. ~Acknowledged(q)
      BY <2>2 DEF Acknowledged
    <3> QED
      BY <1>0, <2>2, <3>1, <3>2, <3>3, PrivateKept
  <2>5. \A i \in DOMAIN Text[h] : held'[<<p, i>>] = held[<<p, i>>]
    BY <1>000, <2>3, TextFacts
  <2>6. Updates(p)'
    <3>1. Reused(p, pass.data)' = Reused(p, h)
      BY <1>0, <2>2 DEF Reused
    <3> QED
      BY <1>000, <2>2, <2>5, <3>1 DEF Updates, Updated
  <2> QED
    BY <1>0, <2>2, <2>4, <2>6 DEF PrivateInv, PrivateListed, PrivatePass
<1>2. CASE StoreMeta
  <2> DEFINE rec == [data |-> pass.data, enc |-> pass.enc, refs |-> FALSE, mine |-> TRUE]
  <2>1. /\ UNCHANGED held /\ pass'.at = "ack" /\ pass.at = "store" /\ ~pass'.touched
        /\ pass'.path = p /\ pass'.data = pass.data /\ files' = [files EXCEPT ![p] = rec]
        /\ spoilt' = IF pass.kept THEN spoilt \cup {p} ELSE IF db[p] # None THEN spoilt ELSE spoilt \ {p}
    BY <1>0, <1>00, <1>000, <1>2 DEF StoreMeta, Pass
  <2>2. rec \in FileMeta
    BY <1>000 DEF FileMeta
  <2>3. /\ files'[p] # None /\ files'[p].data = h /\ files'[p].enc = pass.enc
        /\ \A f \in Files : f # p => files'[f] = files[f]
    BY <1>000, <2>1, <2>2, TextAssumption DEF Typed, VarsTyped
  <2>4. p \notin spoilt' => Readable(p)'
    <3> SUFFICES ASSUME p \notin spoilt', NEW i \in DOMAIN Text[h]
                 PROVE  held[<<p, i>>] = [data |-> Text[h][i], enc |-> pass.enc[i]]
      BY <2>1, <2>3 DEF Readable
    <3>1. ~pass.kept /\ (db[p] # None => p \notin spoilt)
      BY <2>1
    <3>2. i \in Reused(p, h) => p \notin spoilt
      BY <3>1 DEF Reused
    <3>3. i \in DOMAIN Text[h] \ pass.left
      BY <1>000, <2>1 DEF Updates
    <3> QED
      BY <1>000, <2>1, <3>1, <3>2, <3>3 DEF Updates, Updated
  <2>5. ASSUME NEW q \in Tracked
        PROVE  Private(q)'
    <3>1. q \in Paths /\ Private(q) /\ q \in Files
      BY <1>0, <2>5, TextFacts DEF PrivateListed, Tracked
    <3>2. CASE q = p
      BY <1>0, <2>1, <2>3, <2>4, <3>1, <3>2 DEF Private
    <3>3. CASE q # p
      <4>1. UNCHANGED files[q] /\ (q \in spoilt => q \in spoilt')
        BY <2>1, <2>3, <3>1, <3>3
      <4>2. Whole(q) /\ ~Acknowledged(q)
        BY <1>00, <3>3 DEF Whole, Acknowledged
      <4> QED
        BY <1>0, <2>1, <3>1, <4>1, <4>2, PrivateKept
    <3> QED
      BY <3>2, <3>3
  <2>6. Updates(p)'
    BY <2>1, <2>3, <2>4 DEF Updates
  <2> QED
    BY <1>0, <2>1, <2>5, <2>6 DEF PrivateInv, PrivateListed, PrivatePass
<1>3. ASSUME NEW i \in Positions, StoreChunk(i)
      PROVE  PrivateInv'
  <2> DEFINE x == <<p, i>>
             new == [data |-> Text[h][i], enc |-> pass.enc[i]]
             keeps == held[x] # Absent /\ Size[held[x].data] = Size[new.data]
  <2>1. pass.at = "write" /\ i \in pass.left /\ UNCHANGED <<files, spoilt>> /\ x \in Files \X Positions
    BY <1>000, <1>3 DEF StoreChunk
  <2>2. /\ held' = IF keeps THEN held ELSE [held EXCEPT ![x] = new]
        /\ pass'.kept = (pass.kept \/ (keeps /\ held[x] # new))
        /\ pass'.touched = (pass.touched \/ held' # held) /\ pass'.path = p
        /\ pass'.at = pass.at /\ pass'.data = h /\ pass'.enc = pass.enc /\ pass'.left = pass.left \ {i}
    BY <1>0, <1>00, <1>000, <1>3 DEF StoreChunk, Pass
  <2> HIDE DEF keeps
  <2>3. \A y \in Files \X Positions : y # x => held'[y] = held[y]
    BY <2>2 DEF Typed, VarsTyped
  <2>4. pass'.kept \/ held'[x] = new
    BY <2>1, <2>2 DEF Typed, VarsTyped
  <2>5. ASSUME NEW q \in Tracked
        PROVE  Private(q)'
    <3>1. q \in Paths /\ Private(q) /\ \A j \in Positions : <<q, j>> \in Files \X Positions
      BY <1>0, <2>5, TextFacts DEF PrivateListed, Tracked
    <3>2. CASE q = p
      <4>1. Whole(q)' => held' = held /\ Whole(q)
        BY <1>0, <1>00, <2>1, <2>2, <3>2 DEF Whole, Looking
      <4>2. ~Acknowledged(q)
        BY <2>1 DEF Acknowledged
      <4> QED
        BY <1>0, <2>1, <3>1, <4>1, <4>2, PrivateKept
    <3>3. CASE q # p
      <4>1. \A j \in Positions : held'[<<q, j>>] = held[<<q, j>>]
        BY <2>3, <3>1, <3>3
      <4>2. Whole(q) /\ ~Acknowledged(q)
        BY <1>00, <3>3 DEF Whole, Acknowledged
      <4> QED
        BY <1>0, <2>1, <3>1, <4>1, <4>2, PrivateKept
    <3> QED
      BY <3>2, <3>3
  <2>6. Updates(p)'
    <3>1. Reused(p, pass.data)' = Reused(p, h)
      BY <1>0, <2>1, <2>2 DEF Reused
    <3>2. \A j \in DOMAIN Text[h] : j # i => held'[<<p, j>>] = held[<<p, j>>]
      BY <1>000, <2>3, TextFacts
    <3>3. i \notin Reused(p, h)
      BY <1>000, <2>1 DEF Updates
    <3>4. ASSUME NEW j \in DOMAIN Text[h] \ pass'.left
          PROVE  IF j \in Reused(p, h)
                 THEN pass.enc[j] = files[p].enc[j] /\ (p \in spoilt \/ Updated(p, j)')
                 ELSE pass'.kept \/ Updated(p, j)'
      <4>1. CASE j = i
        BY <2>2, <2>4, <3>3, <4>1 DEF Updated
      <4>2. CASE j # i
        <5>1. j \in DOMAIN Text[h] \ pass.left /\ (Updated(p, j) => Updated(p, j)')
          BY <2>2, <3>2, <3>4, <4>2 DEF Updated
        <5> QED
          BY <1>000, <2>1, <2>2, <5>1 DEF Updates
      <4> QED
        BY <4>1, <4>2
    <3>5. pass'.left \cap Reused(p, h) = {}
      BY <1>000, <2>1, <2>2 DEF Updates
    <3>6. /\ pass'.at \notin {"store", "ack"} /\ pass'.data = h /\ pass'.enc = pass.enc
          /\ UNCHANGED <<files, spoilt>>
      BY <2>1, <2>2
    <3> QED
      BY <3>1, <3>4, <3>5, <3>6 DEF Updates
  <2> QED
    BY <1>0, <2>2, <2>5, <2>6 DEF PrivateInv, PrivateListed, PrivatePass
<1> QED
  BY <1>1, <1>2, <1>3

LEMMA PrivateEnds ==
    ASSUME Typed, Typed', ~convergent, PrivateInv, UNCHANGED convergent, Uploaded \/ EraseShards \/ Unlist
    PROVE  PrivateInv'
<1>0. PrivateListed /\ PrivatePass /\ PassOK /\ pass \in Pass
  BY DEF PrivateInv, Typed, PassOK
<1>1. CASE Uploaded
  <2>0. PICK p \in Paths : p = pass.path
    BY <1>1, InHandTyped DEF Uploaded, Uploading
  <2>1. UNCHANGED <<store, disk>> /\ pass.at = "ack" /\ InHand = p /\ Updates(p) /\ p \in Files
    BY <1>0, <1>1, <2>0, InHandTyped, TextFacts DEF Uploaded, PrivatePass, Uploading
  <2>2. pass'.at \notin Uploading /\ pass'.path = None /\ p # None
    BY <1>0, <1>1, NextPathOK, RestingOK, TextFacts DEF Uploaded, Uploading
  <2>3. CASE db[p] = None /\ disk[p] = NoFile
    <3>1. UNCHANGED <<db, slipped>>
      BY <1>1, <2>0, <2>3 DEF Uploaded
    <3>2. \A q \in Tracked : Whole(q) /\ ~Acknowledged(q)
      BY <2>0, <2>3 DEF Tracked, Whole, Acknowledged
    <3> QED
      BY <1>0, <2>1, <2>2, <3>1, <3>2, PrivateRest DEF Tracked, store
  <2>4. CASE ~(db[p] = None /\ disk[p] = NoFile)
    <3>1. /\ db' = [db EXCEPT ![p] = [mtime |-> pass.mtime, hash |-> Recorded, file |-> p]]
          /\ slipped' = IF db[p] = None THEN slipped
                        ELSE IF pass.data = pass.hash THEN slipped \ {p} ELSE slipped \cup {p}
      BY <1>1, <2>0, <2>1, <2>4 DEF Uploaded
    <3>2. /\ db'[p].file = p /\ db'[p].hash = Recorded
          /\ \A q \in Paths : q # p => db'[q] = db[q] /\ (q \in slipped' <=> q \in slipped)
      BY <3>1 DEF Typed, VarsTyped
    <3>3. p \notin slipped' => Recorded = pass.data
      BY <2>0, <2>1, <3>1 DEF Recorded, Typed, PassKnows, Uploading
    <3>4. Private(p)'
      <4>1. /\ files'[p] # None /\ files'[p].data = pass.data
            /\ p \notin spoilt => Readable(p)'
        BY <2>1 DEF Updates, Readable, store
      <4> QED
        BY <2>1, <3>2, <3>3, <4>1 DEF Private, store
    <3>5. ASSUME NEW q \in Tracked', q # p
          PROVE  Private(q)'
      <4>1. q \in Paths /\ db'[q] = db[q] /\ (q \in slipped => q \in slipped')
        BY <3>2, <3>5 DEF Tracked
      <4>2. Private(q)
        BY <1>0, <3>5, <4>1 DEF PrivateListed, Tracked
      <4>3. Whole(q) /\ ~Acknowledged(q)
        BY <2>0, <3>5 DEF Whole, Acknowledged
      <4> QED
        BY <2>1, <4>1, <4>2, <4>3, PrivateKept DEF store
    <3>6. PrivateListed'
      <4>1. \A q \in Tracked' : Private(q)'
        BY <3>4, <3>5
      <4> QED
        BY <4>1 DEF PrivateListed
    <3> QED
      BY <2>2, <3>6 DEF PrivateInv, PrivatePass
  <2> QED
    BY <2>3, <2>4
<1>2. CASE EraseShards \/ Unlist
  <2>0. PICK p \in Paths : p = pass.path
    BY <1>0, <1>2 DEF EraseShards, Unlist, PassOK, Pass, Erasing
  <2>00. db[p].file = p /\ p \in Tracked
    <3>1. p \in Tracked
      BY <1>0, <1>2, <2>0 DEF Typed, PassKnows, PassOK, EraseShards, Unlist, Erasing
    <3> QED
      BY <1>0, <3>1 DEF PrivateListed, Private
  <2>1. /\ UNCHANGED <<db, slipped>> /\ p \in spoilt' /\ spoilt \subseteq spoilt'
        /\ pass'.at \notin Uploading
    <3>1. CASE EraseShards
      BY <1>0, <2>0, <2>00, <3>1 DEF EraseShards, Pass, Uploading
    <3>2. CASE Unlist
      BY <1>0, <2>0, <2>00, <3>2 DEF Unlist, Pass, Uploading, Typed, PassKnows
    <3> QED
      BY <1>2, <3>1, <3>2
  <2>2. ASSUME NEW q \in Paths, q # p
        PROVE  UNCHANGED files[q] /\ \A i \in Positions : held'[<<q, i>>] = held[<<q, i>>]
    <3>0. q \in Files /\ \A i \in Positions : <<q, i>> \in Files \X Positions
      BY TextFacts
    <3>1. CASE EraseShards
      <4>1. PICK lost \in SUBSET ({p} \X DOMAIN Text[files[p].data]) :
               held' = [x \in DOMAIN held |-> IF x \in lost THEN Absent ELSE held[x]]
        BY <2>0, <2>00, <3>1 DEF EraseShards
      <4>2. UNCHANGED files
        BY <3>1 DEF EraseShards
      <4>3. \A x \in Files \X Positions : x[1] # p => held'[x] = held[x]
        BY <4>1 DEF Typed, VarsTyped
      <4> QED
        BY <2>2, <3>0, <4>2, <4>3
    <3>2. CASE Unlist
      BY <2>0, <2>00, <2>2, <3>0, <3>2 DEF Unlist, Typed, VarsTyped
    <3> QED
      BY <1>2, <3>1, <3>2
  <2>3. ASSUME NEW q \in Tracked
        PROVE  Private(q)'
    <3>1. q \in Paths /\ Private(q)
      BY <1>0, <2>3 DEF PrivateListed, Tracked
    <3>2. CASE q = p
      BY <2>1, <3>1, <3>2 DEF Private
    <3>3. CASE q # p
      <4>1. Whole(q) /\ ~Acknowledged(q)
        BY <2>0, <3>3 DEF Whole, Acknowledged
      <4> QED
        BY <2>1, <2>2, <3>1, <3>3, <4>1, PrivateKept
    <3> QED
      BY <3>2, <3>3
  <2> QED
    BY <2>1, <2>3 DEF PrivateInv, PrivateListed, PrivatePass, Tracked
<1> QED
  BY <1>1, <1>2

LEMMA PrivateFaults ==
    ASSUME Typed, ~convergent, PrivateInv, UNCHANGED convergent, Fail \/ Restart
    PROVE  PrivateInv'
<1>0. PrivateListed /\ PassOK /\ pass \in Pass
  BY DEF PrivateInv, Typed, PassOK
<1>1. /\ pass'.at \notin Uploading /\ Tracked' \subseteq Tracked
      /\ \A q \in Tracked' : db'[q] = db[q]
  BY <1>0, NextPathOK, RestingOK DEF Fail, Restart, Uploading, Tracked
<1>2. CASE Interrupted /\ pass.at \in Uploading
  <2>0. PICK p \in Paths : p = pass.path /\ InHand = p
    BY <1>2, InHandTyped
  <2>1. /\ UNCHANGED <<files, held>> /\ spoilt \subseteq spoilt' /\ slipped \subseteq slipped'
        /\ pass.touched /\ files[p] # None => p \in spoilt'
        /\ pass.at = "ack" /\ db[p] # None => p \in slipped'
    BY <1>2, <2>0 DEF Interrupted
  <2>2. ASSUME NEW q \in Tracked
        PROVE  /\ q \notin spoilt' => Whole(q)
               /\ Acknowledged(q) => q \in spoilt' \cup slipped'
    <3>1. Private(q) /\ db[q] # None
      BY <1>0, <2>2 DEF PrivateListed, Tracked
    <3>2. q \notin spoilt => files[q] # None
      BY <3>1 DEF Private
    <3> QED
      BY <1>2, <2>0, <2>1, <3>1, <3>2 DEF Whole, Acknowledged
  <2> QED
    BY <1>0, <1>1, <2>1, <2>2, PrivateRest
<1>3. CASE UNCHANGED <<disk, edits, mode, store, slipped>> /\ pass.at \notin Uploading
  <2>1. ASSUME NEW q \in Tracked, q \notin spoilt
        PROVE  Whole(q)
    <3>1. CASE pass.at \in {"sleep", "scan", "erase"} \cup Looking
      BY <1>0, <3>1, <2>1, TextFacts DEF PassOK, Whole, Tracked
    <3>2. CASE pass.at \in {"unlist", "unlisted"}
      <4>1. db[pass.path].file \in spoilt
        BY <3>2 DEF Typed, PassKnows
      <4>2. db[q].file = q
        BY <1>0, <2>1 DEF PrivateListed, Private
      <4> QED
        BY <2>1, <4>1, <4>2 DEF Whole
    <3> QED
      BY <1>0, <1>3, <3>1, <3>2 DEF Pass, Erasing
  <2>2. \A q \in Tracked : ~Acknowledged(q)
    BY <1>3 DEF Acknowledged, Uploading
  <2> QED
    BY <1>0, <1>1, <1>3, <2>1, <2>2, PrivateRest DEF store
<1>4. pass.at \in Erasing => pass.at \notin Uploading
  BY DEF Uploading, Erasing
<1> QED
  BY <1>2, <1>3, <1>4 DEF Fail, Restart

LEMMA PrivateNext == Typed /\ Typed' /\ PrivateInv /\ [Next]_vars => PrivateInv'
<1> SUFFICES ASSUME Typed, Typed', PrivateInv, [Next]_vars, ~convergent PROVE PrivateInv'
  BY ModeKept DEF PrivateInv
<1>0. PrivateListed /\ PrivatePass /\ UNCHANGED convergent
  BY ModeKept DEF PrivateInv
<1>1. CASE Work
  <2>1. ~DedupCheck /\ ~DedupRegister
    BY DEF DedupCheck, DedupRegister, Typed, PassKnows
  <2> QED
    BY <1>0, <1>1, <2>1, PrivateLooks, PrivateUploads, PrivateEnds DEF Work
<1>2. CASE \/ UNCHANGED vars
           \/ \E p \in Paths, h \in Contents \cup {None} : Edit(p, h)
           \/ \E p, q \in Paths : Rename(p, q)
  <2>1. UNCHANGED <<db, store, pass, convergent>> /\ \A q \in Tracked : q \in slipped => q \in slipped'
    BY <1>2, <1>0 DEF vars, Edit, Rename
  <2>2. ASSUME NEW q \in Tracked
        PROVE  Private(q)'
    <3>1. q \in Paths /\ Private(q) /\ (Whole(q)' <=> Whole(q)) /\ (Acknowledged(q)' <=> Acknowledged(q))
      BY <1>0, <2>1, <2>2 DEF PrivateListed, Tracked, Whole, Acknowledged
    <3> QED
      BY <2>1, <2>2, <3>1, PrivateKept DEF store
  <2>3. PrivatePass'
    BY <1>0, <2>1 DEF PrivatePass, Updates, Updated, Reused, Readable, store
  <2> QED
    BY <2>1, <2>2, <2>3 DEF PrivateInv, PrivateListed, Tracked
<1> QED
  BY <1>0, <1>1, <1>2, PrivateFaults DEF Next

----------------------------------------------------------------------------
LEMMA InvInit == Init => Inv
<1> SUFFICES ASSUME Init PROVE Inv
  OBVIOUS
<1>1. Typed
  BY TypedInit
<1>2. Tracked = {} /\ pass.at \notin Uploading
  BY DEF Init, Tracked, Resting, Uploading
<1>3. PrivateInv
  BY <1>2 DEF PrivateInv, PrivateListed, PrivatePass
<1>4. PICK others \in {{}, Foreign} :
         /\ files = [f \in Files |-> IF f \notin others THEN None ELSE
               [data |-> f, enc |-> [i \in Positions |-> 0], refs |-> FALSE, mine |-> FALSE]]
         /\ held = [x \in Files \X Positions |->
               IF x[1] \in others /\ x[2] \in DOMAIN Text[x[1]]
               THEN [data |-> Text[x[1]][x[2]], enc |-> 0] ELSE Absent]
  BY DEF Init
<1>5. ASSUME NEW g \in Contents
      PROVE  Convergent(g)
  <2>1. files[g] = IF g \notin others THEN None ELSE
           [data |-> g, enc |-> [i \in Positions |-> 0], refs |-> FALSE, mine |-> FALSE]
    BY <1>4, TextFacts
  <2>2. \A i \in DOMAIN Text[g] : /\ i \in Positions /\ <<g, i>> \in Files \X Positions
                                  /\ held[<<g, i>>] = IF g \in others THEN [data |-> Text[g][i], enc |-> 0]
                                                      ELSE Absent
    BY <1>4, TextFacts
  <2>3. CASE g \notin others
    BY <2>1, <2>2, <2>3 DEF Convergent
  <2>4. CASE g \in others
    <3>1. files[g].data = g /\ files[g].enc = [i \in Positions |-> 0]
      BY <2>1, <2>4
    <3>2. \A i \in DOMAIN Text[g] : held[<<g, i>>] = [data |-> Text[g][i], enc |-> files[g].enc[i]]
      BY <2>2, <2>4, <3>1
    <3> QED
      BY <2>2, <2>4, <3>1, <3>2 DEF Convergent, Readable
  <2> QED
    BY <2>3, <2>4
<1>6. ConvergentInv
  BY <1>2, <1>5 DEF ConvergentInv, ConvergentFiles, ConvergentListed, ConvergentPass
<1> QED
  BY <1>1, <1>3, <1>6 DEF Inv

LEMMA InvNext == Inv /\ [Next]_vars => Inv'
BY TypedNext, ConvergentNext, PrivateNext DEF Inv

LEMMA ListedIsStored == Inv => SyncedIsStored
<1> SUFFICES ASSUME Inv, NEW p \in Tracked \ slipped, db[p].file \notin spoilt, pass.path # p
             PROVE  Stored(p)
  BY DEF SyncedIsStored
<1>1. CASE convergent
  <2>1. /\ db[p].file \in Contents /\ files[db[p].file] # None /\ db[p].hash = db[p].file
        /\ Convergent(db[p].file)
    BY <1>1 DEF Inv, ConvergentInv, ConvergentListed, ConvergentFiles
  <2> QED
    BY <2>1 DEF Convergent, Stored
<1>2. CASE ~convergent
  <2>1. Private(p) /\ Whole(p)
    BY <1>2 DEF Inv, PrivateInv, PrivateListed, Whole
  <2> QED
    BY <2>1 DEF Private, Stored
<1> QED
  BY <1>1, <1>2

(* Whatever the state file lists as stored can be read again with the text *)
(* it says, wherever the user's edits and renames, failed requests and     *)
(* restarts fall between the looks and the requests of a pass: but for the *)
(* paths and files that slipped and spoilt name, and one being updated.    *)
THEOREM ListedFilesAreStored == Spec => []SyncedIsStored
<1> QED
  BY InvInit, InvNext, ListedIsStored, PTL DEF Spec

=============================================================================
