--------------------------- MODULE SharingProofs ---------------------------
(***************************************************************************)
(* What sharing promises, for any users, files and tasks of the owner, and *)
(* any number of calls, versions and faults.                               *)
(***************************************************************************)
EXTENDS Sharing, SequenceTheorems, TLAPS

----------------------------------------------------------------------------
(* Types. *)

Steps == {"idle", "fetch", "grant", "public", "folder.share", "folder.list",
          "folder.revoke", "folder.unlist", "revoke", "delta", "repair"}

Call == [at: Steps, todo: SUBSET Files, file: Files \cup {None}, who: SUBSET Users,
         rec: Record \cup {None}, gen: Nat]

(* A call that is between its two requests has the record it fetched.      *)
CallOK(c) ==
    /\ c \in Call
    /\ (c.rec = None) <=> (c.file = None)
    /\ c.at \in {"grant", "public", "delta", "repair"} => c.rec # None

Sync == [at: {"idle", "files", "download", "write"}, todo: SUBSET Files,
         expected: SUBSET Files, file: Files \cup {None}, rec: Record \cup {None}]

SyncOK(s) ==
    /\ s \in Sync /\ s.todo \subseteq s.expected
    /\ (s.file = None) <=> (s.at \in {"idle", "files"})
    /\ s.at = "download" => s.rec # None

TrackerTyped ==
    /\ files \in [Files -> Record \cup {None}]
    /\ folder_shares \in [Users -> Nat \cup {None}]
    /\ group = None \/ group \subseteq Users

OwnerTyped ==
    /\ generation \in 0 .. calls /\ calls \in 0 .. MaxCalls /\ versions \in 0 .. MaxVersions
    /\ DOMAIN call = Procs /\ call = [p \in Procs |-> call[p]]
    /\ \A p \in Procs : CallOK(call[p])

LocalTyped ==
    /\ sync = [u \in Users |-> sync[u]]
    /\ \A u \in Users : SyncOK(sync[u])
    /\ copy \in [Users \X Files -> Versions \cup {None}]
    /\ cache \in [Users \X Files -> Versions \cup {None}]
    /\ db \subseteq Users \X Files
    /\ faults \in 0 .. MaxFaults

HistoryTyped ==
    /\ settled \in [Files \X Users -> {None, "in", "out"}]
    /\ link \in [Files -> Versions \cup {None}]

Typed == TrackerTyped /\ OwnerTyped /\ LocalTyped /\ HistoryTyped

----------------------------------------------------------------------------
(* Every call begins and goes on with a call of the right type.            *)
LEMMA CallTyped ==
    ASSUME OwnerTyped, NEW p \in Procs, NEW c, CallOK(c),
           call' = [call EXCEPT ![p] = c],
           calls' = calls \/ (calls < MaxCalls /\ calls' = calls + 1),
           versions' = versions \/ (versions < MaxVersions /\ versions' = versions + 1),
           generation' = generation \/ (generation' = generation + 1 /\ calls' = calls + 1)
    PROVE  OwnerTyped'
<1>1. \A q \in Procs : CallOK(call'[q])
  BY DEF OwnerTyped
<1>2. call' = [q \in Procs |-> call'[q]]
  BY DEF OwnerTyped
<1> QED
  BY <1>1, <1>2, SharingAssumption DEF OwnerTyped

LEMMA IdleOK == CallOK(Idle)
BY DEF CallOK, Idle, Call, Steps

(* What a call writes into the tracker's tables is of their types.         *)
LEMMA RecordsTyped ==
    ASSUME Typed, NEW f \in Files
    PROVE  /\ \A r \in Record \cup {None} : [files EXCEPT ![f] = r] \in [Files -> Record \cup {None}]
           /\ files[f] # None => files[f] \in Record
           /\ \A us \in SUBSET Users, key \in Versions :
                 files[f] # None /\ Granted(f, us, key) => files' \in [Files -> Record \cup {None}]
           /\ \A u \in Users : files[f] # None /\ files' = [files EXCEPT ![f].shares = Without(@, u)]
                 => files' \in [Files -> Record \cup {None}]
           /\ \A public \in BOOLEAN : files[f] # None /\ SetPublic(f, public) =>
                 files' \in [Files -> Record \cup {None}]
<1>1. files[f] # None => files[f] \in Record
  BY DEF Typed, TrackerTyped
<1>2. ASSUME NEW us \in SUBSET Users, NEW key \in Versions, files[f] # None
      PROVE  [files[f] EXCEPT !.shares =
                [u \in Users |-> IF u \in us THEN Append(@[u], key) ELSE @[u]]] \in Record
  <2>1. \A u \in Users : files[f].shares[u] \in Seq(Versions)
    BY <1>1, <1>2 DEF Record
  <2>2. \A u \in Users : Append(files[f].shares[u], key) \in Seq(Versions)
    BY <2>1, AppendProperties
  <2> QED
    BY <1>1, <1>2, <2>1, <2>2 DEF Record
<1>3. ASSUME NEW u \in Users, files[f] # None
      PROVE  [files[f] EXCEPT !.shares = Without(@, u)] \in Record
  BY <1>1, <1>3, EmptySeq DEF Record, Without
<1>4. \A r \in Record \cup {None} : [files EXCEPT ![f] = r] \in [Files -> Record \cup {None}]
  BY DEF Typed, TrackerTyped
<1>5. ASSUME NEW us \in SUBSET Users, NEW key \in Versions, files[f] # None, Granted(f, us, key)
      PROVE  files' \in [Files -> Record \cup {None}]
  <2>1. files' = [files EXCEPT ![f] = [files[f] EXCEPT !.shares =
                    [u \in Users |-> IF u \in us THEN Append(@[u], key) ELSE @[u]]]]
    BY <1>5 DEF Granted
  <2> QED
    BY <1>2, <1>4, <1>5, <2>1
<1>6. ASSUME NEW u \in Users, files[f] # None, files' = [files EXCEPT ![f].shares = Without(@, u)]
      PROVE  files' \in [Files -> Record \cup {None}]
  <2>1. files' = [files EXCEPT ![f] = [files[f] EXCEPT !.shares = Without(@, u)]]
    BY <1>6
  <2> QED
    BY <1>3, <1>4, <1>6, <2>1
<1>7. ASSUME NEW public \in BOOLEAN, files[f] # None, SetPublic(f, public)
      PROVE  files' \in [Files -> Record \cup {None}]
  <2>1. files' = [files EXCEPT ![f] = [files[f] EXCEPT !.public = public]]
    BY <1>7 DEF SetPublic
  <2>2. [files[f] EXCEPT !.public = public] \in Record
    BY <1>1, <1>7 DEF Record
  <2> QED
    BY <1>4, <2>1, <2>2
<1> QED
  BY <1>1, <1>4, <1>5, <1>6, <1>7

LEMMA SayTyped ==
    ASSUME Typed, NEW f \in Files, NEW us, NEW what \in {"in", "out"}, Say(f, us, what)
    PROVE  settled' \in [Files \X Users -> {None, "in", "out"}]
BY DEF Typed, HistoryTyped, Say

LEMMA RevokedTyped ==
    ASSUME Typed, NEW f \in Files, NEW u \in Users, Revoked(f, u)
    PROVE  /\ files' \in [Files -> Record \cup {None}]
           /\ settled' \in [Files \X Users -> {None, "in", "out"}]
<1>1. CASE files[f] = None
  BY <1>1 DEF Revoked, Typed, TrackerTyped, HistoryTyped
<1>2. CASE files[f] # None
  BY <1>2, RecordsTyped, SayTyped DEF Revoked, Typed, TrackerTyped
<1> QED
  BY <1>1, <1>2

LEMMA OwnerCallTyped ==
    ASSUME Typed, NEW p \in Procs, OwnerCall(p)
    PROVE  Typed'
<1> USE DEF Typed, tracker, local, history
<1>1. ASSUME NEW f \in Files, NEW u \in Users, share(p, f, u)
      PROVE  Typed'
  <2>1. CallOK([Idle EXCEPT !.at = "fetch", !.todo = {f}, !.who = {u}])
    BY DEF CallOK, Idle, Call, Steps
  <2>2. OwnerTyped'
    BY <1>1, <2>1, CallTyped DEF share, Begin
  <2> QED
    BY <1>1, <2>2 DEF share, TrackerTyped, LocalTyped, HistoryTyped
<1>2. ASSUME NEW f \in Files, NEW u \in Users, revoke_share(p, f, u)
      PROVE  Typed'
  <2>1. OwnerTyped'
    BY <1>2, IdleOK, CallTyped DEF revoke_share, Begin
  <2> QED
    BY <1>2, <2>1, RevokedTyped DEF revoke_share, TrackerTyped, LocalTyped, HistoryTyped
<1>3. ASSUME NEW f \in Files, share_with_group(p, f)
      PROVE  Typed'
  <2>1. CallOK([Idle EXCEPT !.at = "fetch", !.todo = {f}, !.who = group])
    BY <1>3 DEF CallOK, Idle, Call, Steps, share_with_group, TrackerTyped
  <2>2. OwnerTyped'
    BY <1>3, <2>1, CallTyped DEF share_with_group, Begin
  <2> QED
    BY <1>3, <2>2 DEF share_with_group, TrackerTyped, LocalTyped, HistoryTyped
<1>4. ASSUME NEW f \in Files, NEW what \in {"public", "delta", "repair"}, files[f] # None,
             Begin(p, [Idle EXCEPT !.at = what, !.file = f, !.rec = files[f]]),
             UNCHANGED <<tracker, generation, versions, rest, local, faults, history>>
      PROVE  Typed'
  <2>1. CallOK([Idle EXCEPT !.at = what, !.file = f, !.rec = files[f]])
    BY <1>4, SharingAssumption DEF CallOK, Idle, Call, Steps, TrackerTyped
  <2>2. OwnerTyped'
    BY <1>4, <2>1, CallTyped DEF Begin
  <2> QED
    BY <1>4, <2>2 DEF TrackerTyped, LocalTyped, HistoryTyped
<1>5. ASSUME NEW f \in Files, make_private(p, f)
      PROVE  Typed'
  <2>1. OwnerTyped'
    BY <1>5, IdleOK, CallTyped DEF make_private, Begin
  <2> QED
    BY <1>5, <2>1, RecordsTyped DEF make_private, SetPublic, TrackerTyped, LocalTyped, HistoryTyped
<1>6. ASSUME NEW f \in Files, put(p, f)
      PROVE  Typed'
  <2>1. OwnerTyped'
    BY <1>6, IdleOK, CallTyped DEF put, NewVersion, Begin
  <2>2. PutRecord(f) \in Record
    BY <1>6, SharingAssumption, EmptySeq DEF put, NewVersion, PutRecord, Record, Versions, OwnerTyped
  <2> QED
    BY <1>6, <2>1, <2>2, RecordsTyped, SayTyped
       DEF put, STORE_META, TrackerTyped, LocalTyped, HistoryTyped
<1>7. ASSUME NEW f \in Files, delete(p, f)
      PROVE  Typed'
  <2>1. OwnerTyped'
    BY <1>7, IdleOK, CallTyped DEF delete, Begin
  <2> QED
    BY <1>7, <2>1, RecordsTyped, SayTyped
       DEF delete, STORE_META, TrackerTyped, LocalTyped, HistoryTyped
<1>8. ASSUME NEW u \in Users, cryptree_share_folder(p, u)
      PROVE  Typed'
  <2>0. generation \in Nat
    BY SharingAssumption DEF OwnerTyped
  <2>1. CallOK([Idle EXCEPT !.at = "folder.share", !.who = {u}, !.gen = generation])
    BY <2>0 DEF CallOK, Idle, Call, Steps
  <2>2. OwnerTyped'
    BY <1>8, <2>1, CallTyped DEF cryptree_share_folder, Begin
  <2> QED
    BY <1>8, <2>2 DEF cryptree_share_folder, TrackerTyped, LocalTyped, HistoryTyped
<1>9. ASSUME NEW u \in Users, cryptree_revoke_folder(p, u)
      PROVE  Typed'
  <2>1. CallOK([Idle EXCEPT !.at = "folder.revoke", !.who = {u}])
    BY DEF CallOK, Idle, Call, Steps
  <2>2. OwnerTyped'
    BY <1>9, <2>1, CallTyped DEF cryptree_revoke_folder, Begin
  <2> QED
    BY <1>9, <2>2 DEF cryptree_revoke_folder, TrackerTyped, LocalTyped, HistoryTyped
<1> QED
  BY <1>1, <1>2, <1>3, <1>4, <1>5, <1>6, <1>7, <1>8, <1>9 DEF OwnerCall, make_public, Update

(* A call that has fetched a record goes on to the next file, or ends.     *)
LEMMA NextFileOK ==
    ASSUME NEW c, CallOK(c)
    PROVE  CallOK(NextFile(c))
BY IdleOK DEF CallOK, NextFile, Idle, Call, Steps

LEMMA OwnerStepTyped ==
    ASSUME Typed, NEW p \in Procs, OwnerStep(p)
    PROVE  Typed'
<1> USE DEF Typed, tracker, local, history
<1>0. CallOK(call[p])
  BY DEF OwnerTyped
<1>1. ASSUME NEW f \in Files, _fetch_file_meta(p, f)
      PROVE  Typed'
  <2> DEFINE c == call[p]
  <2>1. /\ files[f] # None => CallOK([c EXCEPT !.at = "grant", !.todo = @ \ {f}, !.file = f, !.rec = files[f]])
        /\ CallOK([c EXCEPT !.todo = @ \ {f}])
    BY <1>0, SharingAssumption DEF CallOK, Call, Steps, TrackerTyped
  <2>2. OwnerTyped'
    BY <1>1, <2>1, IdleOK, CallTyped DEF _fetch_file_meta, Go
  <2> QED
    BY <1>1, <2>2 DEF _fetch_file_meta, TrackerTyped, LocalTyped, HistoryTyped
<1>2. ASSUME NEW f \in Files, REVOKE_SHARE(p, f)
      PROVE  Typed'
  <2>1. CallOK([call[p] EXCEPT !.todo = @ \ {f}])
    BY <1>0 DEF CallOK, Call
  <2>2. OwnerTyped'
    BY <1>2, <2>1, IdleOK, CallTyped DEF REVOKE_SHARE, Go
  <2>3. PICK u \in call[p].who : Revoked(f, u)
    BY <1>2 DEF REVOKE_SHARE
  <2>4. u \in Users
    BY <1>0, <2>3 DEF CallOK, Call
  <2> QED
    BY <1>2, <2>2, <2>3, <2>4, RevokedTyped DEF REVOKE_SHARE, TrackerTyped, LocalTyped, HistoryTyped
<1>3. ASSUME SHARE_FILE(p)
      PROVE  Typed'
  <2> DEFINE c == call[p]
             f == c.file
  <2>1. f \in Files /\ c.rec \in Record /\ c.who \in SUBSET Users /\ c.rec.key \in Versions
    BY <1>0, <1>3 DEF SHARE_FILE, CallOK, Call, Record
  <2>2. OwnerTyped'
    BY <1>0, <1>3, NextFileOK, CallTyped DEF SHARE_FILE, Go
  <2>3. /\ files' \in [Files -> Record \cup {None}]
        /\ settled' \in [Files \X Users -> {None, "in", "out"}]
    <3>1. CASE files[f] = None
      BY <1>3, <3>1 DEF SHARE_FILE, TrackerTyped, HistoryTyped
    <3>2. CASE files[f] # None
      BY <1>3, <2>1, <3>2, RecordsTyped, SayTyped DEF SHARE_FILE
    <3> QED
      BY <3>1, <3>2
  <2> QED
    BY <1>3, <2>2, <2>3 DEF SHARE_FILE, TrackerTyped, LocalTyped, HistoryTyped
<1>4. ASSUME create_public_link(p)
      PROVE  Typed'
  <2> DEFINE f == call[p].file
  <2>1. f \in Files /\ call[p].rec.key \in Versions
    BY <1>0, <1>4 DEF create_public_link, CallOK, Call, Record
  <2>2. OwnerTyped'
    BY <1>4, IdleOK, CallTyped DEF create_public_link, Go
  <2>3. files' \in [Files -> Record \cup {None}] /\ link' \in [Files -> Versions \cup {None}]
    BY <1>4, <2>1, RecordsTyped DEF create_public_link, SetPublic, TrackerTyped, HistoryTyped
  <2> QED
    BY <1>4, <2>2, <2>3 DEF create_public_link, TrackerTyped, LocalTyped, HistoryTyped
<1>5. ASSUME SHARE_FOLDER(p)
      PROVE  Typed'
  <2>1. CallOK([call[p] EXCEPT !.at = "folder.list"]) /\ call[p].gen \in Nat
    BY <1>0 DEF CallOK, Call, Steps
  <2>2. OwnerTyped'
    BY <1>5, <2>1, CallTyped DEF SHARE_FOLDER, Go
  <2> QED
    BY <1>5, <2>1, <2>2 DEF SHARE_FOLDER, TrackerTyped, LocalTyped, HistoryTyped
<1>6. ASSUME share_folder(p)
      PROVE  Typed'
  <2>1. CallOK([call[p] EXCEPT !.todo = {f \in Files : files[f] # None}, !.gen = 0])
    BY <1>0 DEF CallOK, Call
  <2>2. OwnerTyped'
    BY <1>6, <2>1, NextFileOK, CallTyped DEF share_folder, Go
  <2> QED
    BY <1>6, <2>2 DEF share_folder, TrackerTyped, LocalTyped, HistoryTyped
<1>7. ASSUME REVOKE_FOLDER(p)
      PROVE  Typed'
  <2>1. CallOK([call[p] EXCEPT !.at = "folder.unlist"])
    BY <1>0 DEF CallOK, Call, Steps
  <2>2. OwnerTyped'
    BY <1>7, <2>1, CallTyped DEF REVOKE_FOLDER, Go
  <2> QED
    BY <1>7, <2>2 DEF REVOKE_FOLDER, TrackerTyped, LocalTyped, HistoryTyped
<1>8. ASSUME revoke_folder(p)
      PROVE  Typed'
  <2>1. \A matched \in SUBSET Files : CallOK([call[p] EXCEPT !.at = "revoke", !.todo = matched])
    BY <1>0 DEF CallOK, Call, Steps
  <2>2. OwnerTyped'
    BY <1>8, <2>1, IdleOK, CallTyped DEF revoke_folder, Go
  <2> QED
    BY <1>8, <2>2 DEF revoke_folder, TrackerTyped, LocalTyped, HistoryTyped
<1>9. ASSUME put_delta(p)
      PROVE  Typed'
  <2> DEFINE f == call[p].file
             r == [call[p].rec EXCEPT !.version = versions + 1, !.public = FALSE]
  <2>1. f \in Files /\ call[p].rec \in Record
    BY <1>0, <1>9 DEF put_delta, CallOK, Call
  <2>2. OwnerTyped'
    BY <1>9, IdleOK, CallTyped DEF put_delta, NewVersion, Go
  <2>3. versions + 1 \in Versions
    BY <1>9, SharingAssumption DEF put_delta, NewVersion, OwnerTyped, Versions
  <2>4. r \in Record
    BY <2>1, <2>3 DEF Record
  <2> QED
    BY <1>9, <2>1, <2>2, <2>4, RecordsTyped
       DEF put_delta, STORE_META, TrackerTyped, LocalTyped, HistoryTyped
<1>10. ASSUME repair(p)
       PROVE  Typed'
  <2>1. call[p].file \in Files /\ call[p].rec \in Record
    BY <1>0, <1>10 DEF repair, CallOK, Call
  <2>2. OwnerTyped'
    BY <1>10, IdleOK, CallTyped DEF repair, Go
  <2> QED
    BY <1>10, <2>1, <2>2, RecordsTyped
       DEF repair, STORE_META, TrackerTyped, LocalTyped, HistoryTyped
<1> QED
  BY <1>1, <1>2, <1>3, <1>4, <1>5, <1>6, <1>7, <1>8, <1>9, <1>10 DEF OwnerStep

LEMMA SyncStepTyped ==
    ASSUME Typed, NEW u \in Users, SyncStep(u)
    PROVE  Typed'
<1> USE DEF Typed, tracker, owner, history, TrackerTyped, OwnerTyped, HistoryTyped
<1>0. /\ SyncOK(sync[u])
      /\ \A s : SyncOK(s) /\ Step(u, s) =>
            sync' = [v \in Users |-> sync'[v]] /\ \A v \in Users : SyncOK(sync'[v])
      /\ SyncOK(Resting)
  BY SharingAssumption DEF LocalTyped, Step, SyncOK, Sync, Resting
<1>1. CASE list_files(u)
  <2> DEFINE shared == {f \in Files : SharedWith(f, u)}
  <2>1. SyncOK([Resting EXCEPT !.at = "files", !.todo = shared, !.expected = shared])
    BY DEF SyncOK, Sync, Resting
  <2> QED
    BY <1>0, <1>1, <2>1 DEF list_files, LocalTyped
<1>2. CASE RemoveUnlisted(u)
  <2>1. copy' \in [Users \X Files -> Versions \cup {None}] /\ db' \subseteq Users \X Files
    BY <1>2 DEF RemoveUnlisted, LocalTyped
  <2> QED
    BY <1>0, <1>2, <2>1 DEF RemoveUnlisted, LocalTyped
<1>3. CASE SyncStatePut(u)
  <2>1. SyncOK([sync[u] EXCEPT !.at = "files", !.file = None, !.rec = None])
    BY <1>0 DEF SyncOK, Sync
  <2>2. sync[u].file \in Files
    BY <1>0, <1>3 DEF SyncStatePut, SyncOK, Sync
  <2> QED
    BY <1>0, <1>3, <2>1, <2>2 DEF SyncStatePut, LocalTyped
<1>4. ASSUME NEW f \in Files, NEW version \in Versions, Write(u, f, version),
             UNCHANGED <<tracker, owner, rest, db, faults, history>>
      PROVE  Typed'
  <2>1. SyncOK([sync[u] EXCEPT !.at = "write", !.todo = @ \ {f}, !.file = f])
    BY <1>0, SharingAssumption DEF SyncOK, Sync
  <2>2. /\ copy' \in [Users \X Files -> Versions \cup {None}]
        /\ cache' \in [Users \X Files -> Versions \cup {None}]
    BY <1>4 DEF Write, LocalTyped
  <2> QED
    BY <1>0, <1>4, <2>1, <2>2 DEF Write, LocalTyped
<1>5. ASSUME NEW f \in Files, Failed(u, f), UNCHANGED <<tracker, owner, rest, db, faults, history>>
      PROVE  Typed'
  <2>1. SyncOK([sync[u] EXCEPT !.at = "files", !.todo = @ \ {f}, !.file = None, !.rec = None])
    BY <1>0 DEF SyncOK, Sync
  <2> QED
    BY <1>0, <1>5, <2>1 DEF Failed, LocalTyped
<1>6. CASE _download_and_decode(u)
  <2>1. sync[u].file \in Files /\ sync[u].rec.version \in Versions
    BY <1>0, <1>6 DEF _download_and_decode, SyncOK, Sync, Record
  <2> QED
    BY <1>4, <1>5, <1>6, <2>1 DEF _download_and_decode
<1>7. ASSUME NEW f \in Files, Skip(u, f)
      PROVE  Typed'
  <2>1. SyncOK([sync[u] EXCEPT !.todo = @ \ {f}])
    BY <1>0 DEF SyncOK, Sync
  <2> QED
    BY <1>0, <1>7, <2>1 DEF Skip, LocalTyped
<1>8. ASSUME NEW f \in Files, get(u, f)
      PROVE  Typed'
  <2>1. CASE cache[<<u, f>>] # None /\ Write(u, f, cache[<<u, f>>])
    <3>1. cache[<<u, f>>] \in Versions
      BY <2>1 DEF LocalTyped
    <3> QED
      BY <1>4, <1>8, <2>1, <3>1 DEF get
  <2>2. CASE Failed(u, f)
    BY <1>5, <1>8, <2>2 DEF get
  <2>3. CASE /\ SharedWith(f, u)
             /\ Step(u, [sync[u] EXCEPT !.at = "download", !.file = f, !.rec = files[f]])
             /\ UNCHANGED <<copy, cache>>
    <3>1. files[f] \in Record /\ files[f] # None
      BY <2>3 DEF SharedWith
    <3>2. SyncOK([sync[u] EXCEPT !.at = "download", !.file = f, !.rec = files[f]])
      BY <1>0, <3>1, SharingAssumption DEF SyncOK, Sync
    <3> QED
      BY <1>0, <1>8, <2>3, <3>2 DEF get, LocalTyped
  <2> QED
    BY <1>8, <2>1, <2>2, <2>3 DEF get
<1> QED
  BY <1>1, <1>2, <1>3, <1>6, <1>7, <1>8 DEF SyncStep

LEMMA OthersTyped ==
    ASSUME Typed,
           \/ \E u \in Users : WatcherRestart(u) \/ Join(u) \/ Leave(u)
           \/ \E members \in SUBSET Users : StoreGroup(members)
           \/ DeleteGroup \/ TrackerRestart \/ OwnerRestart
           \/ \E x \in Users \X Files : DeleteCopy(x) \/ Evict(x)
    PROVE  Typed'
<1> USE DEF Typed, tracker, owner, history, local, TrackerTyped
<1>1. ASSUME NEW u \in Users, WatcherRestart(u)
      PROVE  Typed'
  <2>1. SyncOK(Resting)
    BY SharingAssumption DEF SyncOK, Sync, Resting
  <2> QED
    BY <1>1, <2>1, SharingAssumption DEF WatcherRestart, Step, LocalTyped, OwnerTyped, HistoryTyped
<1>2. ASSUME NEW members, members = None \/ members \in SUBSET Users, StoreGroup(members)
      PROVE  Typed'
  BY <1>2 DEF StoreGroup, LocalTyped, OwnerTyped, HistoryTyped
<1>3. CASE TrackerRestart
  <2>1. /\ files' \in [Files -> Record \cup {None}]
        /\ folder_shares' \in [Users -> Nat \cup {None}] /\ group' = None
    BY <1>3 DEF TrackerRestart
  <2>2. settled' \in [Files \X Users -> {None, "in", "out"}]
    BY <1>3 DEF TrackerRestart, HistoryTyped
  <2>3. faults' \in 0 .. MaxFaults
    BY <1>3, SharingAssumption DEF TrackerRestart, LocalTyped
  <2> QED
    BY <1>3, <2>1, <2>2, <2>3 DEF TrackerRestart, LocalTyped, OwnerTyped, HistoryTyped
<1>4. CASE OwnerRestart
  <2>1. faults' \in 0 .. MaxFaults
    BY <1>4, SharingAssumption DEF OwnerRestart, LocalTyped
  <2>2. OwnerTyped'
    BY <1>4, IdleOK, SharingAssumption DEF OwnerRestart, OwnerTyped
  <2> QED
    BY <1>4, <2>1, <2>2 DEF OwnerRestart, LocalTyped, HistoryTyped
<1>5. ASSUME NEW x \in Users \X Files, DeleteCopy(x) \/ Evict(x)
      PROVE  Typed'
  <2>1. faults' \in 0 .. MaxFaults
    BY <1>5, SharingAssumption DEF DeleteCopy, Evict, LocalTyped
  <2> QED
    BY <1>5, <2>1 DEF DeleteCopy, Evict, LocalTyped, OwnerTyped, HistoryTyped
<1> QED
  BY <1>1, <1>2, <1>3, <1>4, <1>5 DEF Join, Leave, DeleteGroup

LEMMA TypedInit == Init => Typed
<1> SUFFICES ASSUME Init PROVE Typed
  OBVIOUS
<1>1. TrackerTyped /\ HistoryTyped
  BY DEF Init, TrackerTyped, HistoryTyped
<1>2. OwnerTyped
  BY IdleOK, SharingAssumption DEF Init, OwnerTyped
<1>3. SyncOK(Resting)
  BY SharingAssumption DEF SyncOK, Sync, Resting
<1>4. LocalTyped
  BY <1>3, SharingAssumption DEF Init, LocalTyped
<1> QED
  BY <1>1, <1>2, <1>4 DEF Typed

LEMMA TypedNext == Typed /\ [Next]_vars => Typed'
<1> SUFFICES ASSUME Typed, [Next]_vars PROVE Typed'
  OBVIOUS
<1>1. CASE Next
  BY <1>1, OwnerCallTyped, OwnerStepTyped, SyncStepTyped, OthersTyped DEF Next
<1>2. CASE UNCHANGED vars
  BY <1>2 DEF vars, tracker, owner, local, history, Typed, TrackerTyped, OwnerTyped,
              LocalTyped, HistoryTyped
<1> QED
  BY <1>1, <1>2

LEMMA AlwaysTyped == Spec => []Typed
BY TypedInit, TypedNext, PTL DEF Spec

(* The state, and that of each call and each watcher, is well formed: a    *)
(* call has fetched a record exactly if it is about to use it, and a       *)
(* watcher downloads only what was listed.                                 *)
THEOREM TypeCorrect == Spec => []TypeOK
<1>1. Typed => TypeOK
  BY DEF Typed, TrackerTyped, OwnerTyped, LocalTyped, CallOK, Call, SyncOK, TypeOK
<1> QED
  BY <1>1, AlwaysTyped, PTL

----------------------------------------------------------------------------
(* Grants.                                                                 *)

(* A call of one task leaves the others' alone. *)
LEMMA CallAfter ==
    ASSUME Typed, NEW p \in Procs, NEW c, call' = [call EXCEPT ![p] = c]
    PROVE  \A q \in Procs : call'[q] = IF q = p THEN c ELSE call[q]
BY DEF Typed, OwnerTyped

(* A record of a file agrees with what was last said of it.                *)
Says(f, r) ==
    \A u \in Users :
        /\ settled[<<f, u>>] = "in" => r # None /\ r.shares[u] # <<>>
        /\ settled[<<f, u>>] = "out" => r = None \/ r.shares[u] = <<>>

(* All grants in it, and the link to it if it is public, are of its key.   *)
Fits(f, r) ==
    f \notin crossed /\ r # None =>
        /\ \A u \in Users : \A i \in 1 .. Len(r.shares[u]) : r.shares[u][i] = r.key
        /\ r.public => link[f] = r.key

Kept(f, r) == Says(f, r) /\ Fits(f, r)

(* This is so of the tracker's records and of those that will be written   *)
(* back.                                                                   *)
Overwrites(c) == c.at \in {"delta", "repair"}

RecordInv ==
    /\ \A f \in Files : Kept(f, files[f])
    /\ \A p \in Procs : Overwrites(call[p]) => Kept(call[p].file, call[p].rec)

(* What a step must show that writes about one file only.                  *)
LEMMA OneFileWritten ==
    ASSUME Typed, RecordInv, NEW p \in Procs, NEW c, ~Overwrites(c),
           call' = [call EXCEPT ![p] = c], NEW f \in Files, crossed \subseteq crossed',
           \A g \in Files : g # f => files'[g] = files[g] /\ link'[g] = link[g],
           \A g \in Files, u \in Users : g # f => settled'[<<g, u>>] = settled[<<g, u>>],
           Kept(f, files[f])',
           \A q \in Procs : \A r :
              q # p /\ Overwrites(call[q]) /\ call[q].file = f /\ call[q].rec = r => Kept(f, r)'
    PROVE  RecordInv'
<1>1. \A g \in Files : \A r : g # f /\ Kept(g, r) => Kept(g, r)'
  BY DEF Kept, Says, Fits
<1>2. ASSUME NEW g \in Files
      PROVE  Kept(g, files[g])'
  <2>1. CASE g = f
    BY <2>1
  <2>2. CASE g # f
    <3>1. Kept(g, files[g]) /\ files'[g] = files[g]
      BY <2>2 DEF RecordInv
    <3> QED
      BY <2>2, <3>1 DEF Kept, Says, Fits
  <2> QED
    BY <2>1, <2>2
<1>3. ASSUME NEW q \in Procs, Overwrites(call'[q])
      PROVE  Kept(call[q].file, call[q].rec)'
  <2>0. call'[q] = IF q = p THEN c ELSE call[q]
    BY DEF Typed, OwnerTyped
  <2>1. q # p /\ call'[q] = call[q] /\ Overwrites(call[q])
    BY <1>3, <2>0 DEF Overwrites
  <2>2. call[q].file \in Files
    BY <2>1 DEF Typed, OwnerTyped, CallOK, Call, Overwrites
  <2>3. Kept(call[q].file, call[q].rec)
    BY <2>1 DEF RecordInv
  <2>4. \A g, r : g = call[q].file /\ r = call[q].rec => Kept(g, r)'
    BY <1>1, <2>1, <2>2, <2>3
  <2> QED
    BY <2>1, <2>4
<1> QED
  BY <1>2, <1>3 DEF RecordInv, Overwrites

(* A call that says something of a file says it of no record that is still *)
(* to be written back.                                                     *)
LEMMA OneFileSaid ==
    ASSUME Typed, RecordInv, NEW p \in Procs, NEW c, ~Overwrites(c),
           call' = [call EXCEPT ![p] = c], NEW f \in Files, crossed \subseteq crossed',
           NEW us, NEW what, Say(f, us, what), UNCHANGED link,
           \A g \in Files : g # f => files'[g] = files[g],
           Kept(f, files[f])'
    PROVE  RecordInv'
<1>1. \A g \in Files, u \in Users :
         settled'[<<g, u>>] = IF g = f /\ u \in us THEN IF Overwritten(f) THEN None ELSE what
                              ELSE settled[<<g, u>>]
  BY DEF Say, Typed, HistoryTyped
<1>2. ASSUME NEW q \in Procs, NEW r, Overwrites(call[q]), call[q].file = f, call[q].rec = r
      PROVE  Kept(f, r)'
  <2>1. Overwritten(f)
    BY <1>2 DEF Overwritten, Overwrites
  <2>2. Kept(f, r)
    BY <1>2 DEF RecordInv
  <2> QED
    BY <1>1, <2>1, <2>2, SharingAssumption DEF Kept, Says, Fits
<1>3. /\ \A g \in Files, u \in Users : g # f => settled'[<<g, u>>] = settled[<<g, u>>]
      /\ \A g \in Files : g # f => files'[g] = files[g] /\ link'[g] = link[g]
  BY <1>1
<1> QED
  BY <1>2, <1>3, OneFileWritten

(* A step that writes nothing may fetch a record for writing it back.      *)
LEMMA NothingWritten ==
    ASSUME Typed, RecordInv, NEW p \in Procs, NEW c, call' = [call EXCEPT ![p] = c],
           UNCHANGED <<files, settled, link, crossed>>,
           Overwrites(c) => c.file \in Files /\ c.rec = files[c.file]
    PROVE  RecordInv'
<1>1. \A g, r : Kept(g, r)' <=> Kept(g, r)
  BY DEF Kept, Says, Fits
<1>2. ASSUME NEW q \in Procs, Overwrites(call'[q])
      PROVE  Kept(call'[q].file, call'[q].rec)
  BY <1>2, CallAfter DEF RecordInv
<1>3. \A g \in Files : Kept(g, files[g])'
  BY <1>1 DEF RecordInv
<1>4. \A q \in Procs : Overwrites(call[q])' => Kept(call[q].file, call[q].rec)'
  BY <1>1, <1>2
<1> QED
  BY <1>3, <1>4 DEF RecordInv

LEMMA RevokedKeeps ==
    ASSUME Typed, RecordInv, NEW p \in Procs, NEW c, ~Overwrites(c),
           call' = [call EXCEPT ![p] = c], NEW f \in Files, NEW u \in Users,
           Revoked(f, u), UNCHANGED <<link, crossed>>
    PROVE  RecordInv'
<1>1. CASE files[f] = None
  BY <1>1, NothingWritten DEF Revoked
<1>2. CASE files[f] # None
  <2>1. /\ files[f] \in Record /\ Kept(f, files[f]) /\ Say(f, {u}, "out")
        /\ files' = [files EXCEPT ![f].shares = Without(@, u)]
    BY <1>2, RecordsTyped DEF Revoked, RecordInv
  <2>2. /\ files'[f] = [files[f] EXCEPT !.shares = [files[f].shares EXCEPT ![u] = <<>>]]
        /\ \A g \in Files : g # f => files'[g] = files[g]
    BY <2>1 DEF Without, Typed, TrackerTyped
  <2>3. /\ files'[f].key = files[f].key /\ files'[f].public = files[f].public
        /\ \A v \in Users : files'[f].shares[v] = IF v = u THEN <<>> ELSE files[f].shares[v]
    BY <2>1, <2>2 DEF Record
  <2>4. \A v \in Users : settled'[<<f, v>>] =
           IF v = u THEN IF Overwritten(f) THEN None ELSE "out" ELSE settled[<<f, v>>]
    BY <2>1 DEF Say, Typed, HistoryTyped
  <2>5. Says(f, files[f])'
    <3> SUFFICES ASSUME NEW v \in Users
                 PROVE  /\ settled'[<<f, v>>] = "in" => files'[f] # None /\ files'[f].shares[v] # <<>>
                        /\ settled'[<<f, v>>] = "out" => files'[f] = None \/ files'[f].shares[v] = <<>>
      BY DEF Says
    <3>1. files'[f] # None
      <4>1. files[f].shares \in [Users -> Seq(Versions)]
        BY <2>1 DEF Record
      <4> DEFINE shares == [files[f].shares EXCEPT ![u] = <<>>]
      <4>2. shares \in [Users -> Seq(Versions)]
        BY <4>1, EmptySeq
      <4> HIDE DEF shares
      <4>3. [files[f] EXCEPT !.shares = shares] \in Record
        BY <2>1, <4>2 DEF Record
      <4>4. files'[f] \in Record
        BY <2>2, <4>3 DEF shares
      <4> QED
        BY <4>4, SharingAssumption
    <3>2. CASE v = u
      BY <2>3, <2>4, <3>2, SharingAssumption
    <3>3. CASE v # u
      BY <1>2, <2>1, <2>3, <2>4, <3>1, <3>3 DEF Kept, Says
    <3> QED
      BY <3>2, <3>3
  <2>6. Fits(f, files[f])'
    BY <1>2, <2>1, <2>3, EmptySeq DEF Kept, Fits
  <2> QED
    BY <2>1, <2>2, <2>5, <2>6, OneFileSaid DEF Kept
<1> QED
  BY <1>1, <1>2

LEMMA RecordsOwnerCall ==
    ASSUME Typed, RecordInv, NEW p \in Procs, OwnerCall(p)
    PROVE  RecordInv'
<1> USE DEF Begin
<1>0. ~Overwrites(Idle)
  BY DEF Overwrites, Idle
<1>1. ASSUME NEW f \in Files, NEW u \in Users, revoke_share(p, f, u)
      PROVE  RecordInv'
  BY <1>0, <1>1, RevokedKeeps DEF revoke_share
<1>2. ASSUME NEW f \in Files, put(p, f)
      PROVE  RecordInv'
  <2>1. /\ call' = [call EXCEPT ![p] = Idle] /\ Say(f, Users, "out") /\ UNCHANGED <<link, crossed>>
        /\ files'[f] = PutRecord(f) /\ \A g \in Files : g # f => files'[g] = files[g]
    BY <1>2 DEF put, STORE_META, Typed, TrackerTyped
  <2>2. \A u \in Users : settled'[<<f, u>>] \in {None, "out"}
    BY <2>1 DEF Say, Typed, HistoryTyped
  <2>3. Kept(f, files[f])'
    BY <2>1, <2>2, EmptySeq, SharingAssumption DEF Kept, Says, Fits, PutRecord
  <2> QED
    BY <1>0, <2>1, <2>3, OneFileSaid
<1>3. ASSUME NEW f \in Files, delete(p, f)
      PROVE  RecordInv'
  <2>1. /\ call' = [call EXCEPT ![p] = Idle] /\ Say(f, Users, "out") /\ UNCHANGED <<link, crossed>>
        /\ files'[f] = None /\ \A g \in Files : g # f => files'[g] = files[g]
    BY <1>3 DEF delete, STORE_META, Typed, TrackerTyped
  <2>2. \A u \in Users : settled'[<<f, u>>] \in {None, "out"}
    BY <2>1 DEF Say, Typed, HistoryTyped
  <2>3. Kept(f, files[f])'
    BY <2>1, <2>2, SharingAssumption DEF Kept, Says, Fits
  <2> QED
    BY <1>0, <2>1, <2>3, OneFileSaid
<1>4. ASSUME NEW f \in Files, make_private(p, f)
      PROVE  RecordInv'
  <2>1. /\ call' = [call EXCEPT ![p] = Idle] /\ UNCHANGED <<settled, link, crossed>>
        /\ files[f] # None /\ files[f] \in Record /\ Kept(f, files[f])
        /\ files'[f] = [files[f] EXCEPT !.public = FALSE]
        /\ \A g \in Files : g # f => files'[g] = files[g]
    BY <1>4, RecordsTyped DEF make_private, SetPublic, history, RecordInv, Typed, TrackerTyped
  <2>2. /\ files'[f] # None /\ files'[f].shares = files[f].shares
        /\ files'[f].key = files[f].key /\ ~files'[f].public
    BY <2>1, SharingAssumption DEF Record
  <2>3. Kept(f, files[f])'
    BY <2>1, <2>2 DEF Kept, Says, Fits
  <2>4. \A g, r : Kept(g, r) => Kept(g, r)'
    BY <2>1 DEF Kept, Says, Fits
  <2>5. \A q \in Procs : \A r :
           q # p /\ Overwrites(call[q]) /\ call[q].file = f /\ call[q].rec = r => Kept(f, r)'
    BY <2>4 DEF RecordInv
  <2>6. /\ crossed \subseteq crossed'
        /\ \A g \in Files : g # f => files'[g] = files[g] /\ link'[g] = link[g]
        /\ \A g \in Files, u \in Users : g # f => settled'[<<g, u>>] = settled[<<g, u>>]
    BY <2>1
  <2> QED
    BY <1>0, <2>1, <2>3, <2>5, <2>6, OneFileWritten
<1>5. ASSUME NEW f \in Files, NEW what \in {"public", "delta", "repair"}, files[f] # None,
             Begin(p, [Idle EXCEPT !.at = what, !.file = f, !.rec = files[f]]), UNCHANGED <<tracker, history>>
      PROVE  RecordInv'
  <2> DEFINE c == [Idle EXCEPT !.at = what, !.file = f, !.rec = files[f]]
  <2>1. c.file = f /\ c.rec = files[f]
    BY DEF Idle
  <2>2. call' = [call EXCEPT ![p] = c] /\ UNCHANGED <<files, settled, link, crossed>>
    BY <1>5 DEF tracker, history
  <2> HIDE DEF c
  <2> QED
    BY <2>1, <2>2, NothingWritten
<1>7. ASSUME NEW f \in Files, share_with_group(p, f) \/ \E u \in Users : share(p, f, u)
      PROVE  RecordInv'
  <2>1. \A who : [Idle EXCEPT !.at = "fetch", !.todo = {f}, !.who = who].at = "fetch"
    BY DEF Idle
  <2>2. PICK c : call' = [call EXCEPT ![p] = c] /\ c.at = "fetch"
    BY <1>7, <2>1 DEF share, share_with_group
  <2>3. UNCHANGED <<files, settled, link, crossed>>
    BY <1>7 DEF share, share_with_group, tracker, history
  <2> QED
    BY <2>2, <2>3, NothingWritten DEF Overwrites
<1>8. ASSUME NEW u \in Users, cryptree_share_folder(p, u) \/ cryptree_revoke_folder(p, u)
      PROVE  RecordInv'
  <2>1. /\ [Idle EXCEPT !.at = "folder.share", !.who = {u}, !.gen = generation].at = "folder.share"
        /\ [Idle EXCEPT !.at = "folder.revoke", !.who = {u}].at = "folder.revoke"
    BY DEF Idle
  <2>2. PICK c : call' = [call EXCEPT ![p] = c] /\ c.at \in {"folder.share", "folder.revoke"}
    BY <1>8, <2>1 DEF cryptree_share_folder, cryptree_revoke_folder
  <2>3. UNCHANGED <<files, settled, link, crossed>>
    BY <1>8 DEF cryptree_share_folder, cryptree_revoke_folder, tracker, history
  <2> QED
    BY <2>2, <2>3, NothingWritten DEF Overwrites
<1> QED
  BY <1>1, <1>2, <1>3, <1>4, <1>5, <1>7, <1>8 DEF OwnerCall, make_public, Update

LEMMA RecordsOwnerStep ==
    ASSUME Typed, RecordInv, NEW p \in Procs, OwnerStep(p)
    PROVE  RecordInv'
<1> USE DEF Go
<1>0. /\ CallOK(call[p]) /\ ~Overwrites(Idle)
      /\ \A c : ~Overwrites(c) => ~Overwrites(NextFile(c))
  BY DEF Typed, OwnerTyped, Overwrites, Idle, NextFile
<1>1. ASSUME NEW f \in Files, _fetch_file_meta(p, f)
      PROVE  RecordInv'
  <2>1. PICK c : call' = [call EXCEPT ![p] = c] /\ ~Overwrites(c)
    <3>1. /\ ~Overwrites([call[p] EXCEPT !.at = "grant", !.todo = @ \ {f}, !.file = f, !.rec = files[f]])
          /\ ~Overwrites([call[p] EXCEPT !.todo = @ \ {f}])
      BY <1>0, <1>1 DEF _fetch_file_meta, CallOK, Call, Overwrites
    <3> QED
      BY <1>0, <1>1, <3>1 DEF _fetch_file_meta
  <2> QED
    BY <1>1, <2>1, NothingWritten DEF _fetch_file_meta, tracker, history
<1>2. ASSUME NEW f \in Files, REVOKE_SHARE(p, f)
      PROVE  RecordInv'
  <2>1. ~Overwrites([call[p] EXCEPT !.todo = @ \ {f}])
    BY <1>0, <1>2 DEF REVOKE_SHARE, CallOK, Call, Overwrites
  <2>2. PICK c : call' = [call EXCEPT ![p] = c] /\ ~Overwrites(c)
    BY <1>0, <1>2, <2>1 DEF REVOKE_SHARE
  <2>3. PICK u \in call[p].who : Revoked(f, u)
    BY <1>2 DEF REVOKE_SHARE
  <2>4. u \in Users /\ UNCHANGED <<link, crossed>>
    BY <1>0, <1>2, <2>3 DEF CallOK, Call, REVOKE_SHARE
  <2> QED
    BY <2>2, <2>3, <2>4, RevokedKeeps
<1>3. ASSUME SHARE_FILE(p)
      PROVE  RecordInv'
  <2> DEFINE c == call[p]
             key == c.rec.key
  <2>0. PICK f \in Files : f = c.file
    BY <1>0, <1>3 DEF SHARE_FILE, CallOK, Call
  <2>1. /\ c.who \in SUBSET Users /\ key \in Versions /\ ~Overwrites(NextFile(c))
        /\ call' = [call EXCEPT ![p] = NextFile(c)] /\ UNCHANGED link
    <3>1. c.at = "grant" /\ call' = [call EXCEPT ![p] = NextFile(c)] /\ UNCHANGED link
      BY <1>3 DEF SHARE_FILE
    <3> QED
      BY <1>0, <3>1 DEF CallOK, Call, Record, Overwrites
  <2>2. CASE files[f] = None
    <3>1. UNCHANGED <<files, settled, crossed>>
      BY <1>3, <2>0, <2>2 DEF SHARE_FILE
    <3> QED
      BY <2>1, <3>1, NothingWritten
  <2>3. CASE files[f] # None
    <3>1. /\ Granted(f, c.who, key) /\ Say(f, c.who, "in")
          /\ crossed' = IF key = files[f].key THEN crossed ELSE crossed \cup {f}
      BY <1>3, <2>0, <2>3 DEF SHARE_FILE
    <3>2. files[f] \in Record /\ Kept(f, files[f])
      BY <2>1, <2>3, RecordsTyped DEF RecordInv
    <3>3. /\ files'[f] = [files[f] EXCEPT !.shares =
                [u \in Users |-> IF u \in c.who THEN Append(files[f].shares[u], key)
                                 ELSE files[f].shares[u]]]
          /\ \A g \in Files : g # f => files'[g] = files[g]
      BY <2>1, <3>1 DEF Granted, Typed, TrackerTyped
    <3>4. /\ files'[f].key = files[f].key /\ files'[f].public = files[f].public
          /\ \A u \in Users : files'[f].shares[u] =
                IF u \in c.who THEN Append(files[f].shares[u], key) ELSE files[f].shares[u]
      BY <3>2, <3>3 DEF Record
    <3>5. \A u \in Users : settled'[<<f, u>>] =
             IF u \in c.who THEN IF Overwritten(f) THEN None ELSE "in" ELSE settled[<<f, u>>]
      BY <2>1, <3>1 DEF Say, Typed, HistoryTyped
    <3>6. \A u \in Users :
             LET s == files[f].shares[u]
             IN  /\ s \in Seq(Versions) /\ Append(s, key) # <<>> /\ Len(Append(s, key)) = Len(s) + 1
                 /\ Len(s) \in Nat /\ \A i \in 1 .. Len(s) : Append(s, key)[i] = s[i]
                 /\ Append(s, key)[Len(s) + 1] = key
      BY <2>1, <3>2, AppendProperties, LenProperties DEF Record
    <3>7. files'[f] # None
      <4>1. files' \in [Files -> Record \cup {None}]
        BY <2>1, <2>3, <3>1, RecordsTyped
      <4>2. [u \in Users |-> IF u \in c.who THEN Append(files[f].shares[u], key)
                             ELSE files[f].shares[u]] \in [Users -> Seq(Versions)]
        BY <2>1, <3>2, <3>6, AppendProperties DEF Record
      <4>3. files'[f] \in Record
        BY <3>2, <3>3, <4>2 DEF Record
      <4> QED
        BY <4>3, SharingAssumption
    <3>8. Says(f, files[f])'
      <4> SUFFICES ASSUME NEW u \in Users
                   PROVE  /\ settled'[<<f, u>>] = "in" => files'[f] # None /\ files'[f].shares[u] # <<>>
                          /\ settled'[<<f, u>>] = "out" => files'[f] = None \/ files'[f].shares[u] = <<>>
        BY DEF Says
      <4>1. CASE u \in c.who
        BY <3>4, <3>5, <3>6, <3>7, <4>1, SharingAssumption
      <4>2. CASE u \notin c.who
        BY <2>3, <3>2, <3>4, <3>5, <3>7, <4>2 DEF Kept, Says
      <4> QED
        BY <4>1, <4>2
    <3>9. Fits(f, files[f])'
      <4> SUFFICES ASSUME f \notin crossed'
                   PROVE  /\ \A u \in Users : \A i \in 1 .. Len(files'[f].shares[u]) :
                                files'[f].shares[u][i] = files'[f].key
                          /\ files'[f].public => link'[f] = files'[f].key
        BY DEF Fits
      <4>1. key = files[f].key /\ Fits(f, files[f]) /\ f \notin crossed
        BY <3>1, <3>2 DEF Kept
      <4>2. /\ files[f].public => link[f] = files[f].key
            /\ \A u \in Users : \A i \in 1 .. Len(files[f].shares[u]) : files[f].shares[u][i] = files[f].key
        BY <2>3, <4>1 DEF Fits
      <4>3. ASSUME NEW u \in Users, NEW i \in 1 .. Len(files'[f].shares[u])
            PROVE  files'[f].shares[u][i] = files'[f].key
        <5>1. CASE u \in c.who
          <6> DEFINE s == files[f].shares[u]
          <6>1. files'[f].shares[u] = Append(s, key) /\ files'[f].key = key
            BY <3>4, <4>1, <5>1
          <6>2. i \in 1 .. Len(s) + 1 /\ Len(s) \in Nat
            BY <3>6, <4>3, <6>1
          <6>3. CASE i = Len(s) + 1
            BY <3>6, <6>1, <6>3
          <6>4. CASE i # Len(s) + 1
            <7>1. i \in 1 .. Len(s)
              BY <6>2, <6>4
            <7>2. Append(s, key)[i] = s[i] /\ s[i] = key
              BY <3>6, <4>1, <4>2, <7>1
            <7> QED
              BY <6>1, <7>2
          <6> QED
            BY <6>3, <6>4
        <5>2. CASE u \notin c.who
          BY <3>4, <4>2, <4>3, <5>2
        <5> QED
          BY <5>1, <5>2
      <4> QED
        BY <2>1, <3>4, <4>2, <4>3
    <3> QED
      <4>1. crossed \subseteq crossed'
        BY <3>1
      <4>2. Kept(f, files[f])'
        BY <3>8, <3>9 DEF Kept
      <4> QED
        BY <2>1, <3>1, <3>3, <4>1, <4>2, OneFileSaid
  <2> QED
    BY <2>2, <2>3
<1>4. ASSUME create_public_link(p)
      PROVE  RecordInv'
  <2> DEFINE key == call[p].rec.key
  <2>0. PICK f \in Files : f = call[p].file
    BY <1>0, <1>4 DEF create_public_link, CallOK, Call
  <2>1. call' = [call EXCEPT ![p] = Idle] /\ UNCHANGED settled
    BY <1>4 DEF create_public_link
  <2>2. CASE files[f] = None
    BY <1>0, <1>4, <2>0, <2>1, <2>2, NothingWritten DEF create_public_link
  <2>3. CASE files[f] # None
    <3>1. /\ SetPublic(f, TRUE) /\ link' = [link EXCEPT ![f] = key]
          /\ crossed' = IF key = files[f].key /\ ~Overwritten(f) THEN crossed ELSE crossed \cup {f}
      BY <1>4, <2>0, <2>3 DEF create_public_link
    <3>2. /\ files'[f] = [files[f] EXCEPT !.public = TRUE] /\ link'[f] = key
          /\ \A g \in Files : g # f => files'[g] = files[g] /\ link'[g] = link[g]
      BY <2>1, <3>1 DEF SetPublic, Typed, TrackerTyped, HistoryTyped
    <3>3. files[f] \in Record /\ Kept(f, files[f])
      BY <2>1, <2>3, RecordsTyped DEF RecordInv
    <3>4. /\ files'[f] # None /\ files'[f].shares = files[f].shares
          /\ files'[f].key = files[f].key
      BY <3>2, <3>3, SharingAssumption DEF Record
    <3>5. Kept(f, files[f])'
      BY <2>1, <2>3, <3>1, <3>2, <3>3, <3>4 DEF Kept, Says, Fits
    <3>6. ASSUME NEW q \in Procs, NEW r, Overwrites(call[q]), call[q].file = f, call[q].rec = r
          PROVE  Kept(f, r)'
      <4>1. Overwritten(f) /\ Kept(f, r)
        BY <3>6 DEF Overwritten, Overwrites, RecordInv
      <4> QED
        BY <2>1, <3>1, <4>1 DEF Kept, Says, Fits
    <3>7. crossed \subseteq crossed'
      BY <3>1
    <3> QED
      BY <1>0, <2>1, <3>2, <3>5, <3>6, <3>7, OneFileWritten
  <2> QED
    BY <2>2, <2>3
<1>5. ASSUME NEW r, Overwrites(call[p]), call' = [call EXCEPT ![p] = Idle],
             UNCHANGED <<settled, link, crossed>>, STORE_META(call[p].file, r),
             \/ r = call[p].rec
             \/ \E v \in Versions : r = [call[p].rec EXCEPT !.version = v, !.public = FALSE]
      PROVE  RecordInv'
  <2>0. PICK f \in Files : f = call[p].file
    BY <1>0, <1>5 DEF CallOK, Call, Overwrites
  <2>1. /\ call[p].rec \in Record /\ Kept(f, call[p].rec)
        /\ files'[f] = r /\ \A g \in Files : g # f => files'[g] = files[g]
    BY <1>0, <1>5, <2>0 DEF STORE_META, CallOK, Call, Overwrites, RecordInv, Typed, TrackerTyped
  <2>2. /\ call[p].rec # None /\ r.shares = call[p].rec.shares /\ r.key = call[p].rec.key
        /\ r.public => call[p].rec.public
    BY <1>5, <2>1, SharingAssumption DEF Record
  <2>3. Kept(f, files[f])'
    <3>1. r # None
      <4>1. CASE r = call[p].rec
        BY <2>2, <4>1
      <4>2. ASSUME NEW v \in Versions, r = [call[p].rec EXCEPT !.version = v, !.public = FALSE]
            PROVE  r # None
        <5>1. r \in Record
          BY <2>1, <4>2 DEF Record
        <5> QED
          BY <5>1, SharingAssumption
      <4> QED
        BY <1>5, <4>1, <4>2
    <3>2. Says(f, files[f])'
      BY <1>5, <2>1, <2>2, <3>1 DEF Kept, Says
    <3>3. Fits(f, files[f])'
      BY <1>5, <2>1, <2>2, <3>1 DEF Kept, Fits
    <3> QED
      BY <3>2, <3>3 DEF Kept
  <2>4. \A g, s : Kept(g, s) => Kept(g, s)'
    BY <1>5 DEF Kept, Says, Fits
  <2>5. \A q \in Procs : \A s :
           q # p /\ Overwrites(call[q]) /\ call[q].file = f /\ call[q].rec = s => Kept(f, s)'
    BY <2>4 DEF RecordInv
  <2>6. /\ crossed \subseteq crossed'
        /\ \A g \in Files : g # f => files'[g] = files[g] /\ link'[g] = link[g]
        /\ \A g \in Files, u \in Users : g # f => settled'[<<g, u>>] = settled[<<g, u>>]
        /\ call' = [call EXCEPT ![p] = Idle]
    BY <1>5, <2>1
  <2> QED
    BY <1>0, <2>3, <2>5, <2>6, OneFileWritten
<1>6. CASE put_delta(p)
  <2>1. PICK r : r = [call[p].rec EXCEPT !.version = versions + 1, !.public = FALSE]
    OBVIOUS
  <2>2. /\ Overwrites(call[p]) /\ call' = [call EXCEPT ![p] = Idle]
        /\ UNCHANGED <<settled, link, crossed>> /\ STORE_META(call[p].file, r)
    BY <1>6, <2>1 DEF put_delta, Overwrites, history
  <2>3. versions + 1 \in Versions
    BY <1>6, SharingAssumption DEF put_delta, NewVersion, Typed, OwnerTyped, Versions
  <2> QED
    BY <1>5, <2>1, <2>2, <2>3
<1>7. CASE repair(p)
  <2>1. PICK r : r = call[p].rec
    OBVIOUS
  <2>2. /\ Overwrites(call[p]) /\ call' = [call EXCEPT ![p] = Idle]
        /\ UNCHANGED <<settled, link, crossed>> /\ STORE_META(call[p].file, r)
    BY <1>7, <2>1 DEF repair, Overwrites, history
  <2> QED
    BY <1>5, <2>1, <2>2
<1>8. CASE SHARE_FOLDER(p) \/ share_folder(p) \/ REVOKE_FOLDER(p) \/ revoke_folder(p)
  <2>1. /\ \A todo : ~Overwrites([call[p] EXCEPT !.at = "revoke", !.todo = todo])
        /\ ~Overwrites([call[p] EXCEPT !.at = "folder.unlist"])
        /\ ~Overwrites([call[p] EXCEPT !.at = "folder.list"])
        /\ share_folder(p) =>
              ~Overwrites([call[p] EXCEPT !.todo = {f \in Files : files[f] # None}, !.gen = 0])
    BY <1>0 DEF CallOK, Call, Overwrites, share_folder
  <2>2. PICK c : call' = [call EXCEPT ![p] = c] /\ ~Overwrites(c)
    <3>1. CASE SHARE_FOLDER(p) \/ REVOKE_FOLDER(p)
      BY <2>1, <3>1 DEF SHARE_FOLDER, REVOKE_FOLDER
    <3>2. CASE share_folder(p)
      BY <1>0, <2>1, <3>2 DEF share_folder
    <3>3. CASE revoke_folder(p)
      BY <1>0, <2>1, <3>3 DEF revoke_folder
    <3> QED
      BY <1>8, <3>1, <3>2, <3>3
  <2>3. UNCHANGED <<files, settled, link, crossed>>
    BY <1>8 DEF SHARE_FOLDER, share_folder, REVOKE_FOLDER, revoke_folder, tracker, history
  <2> QED
    BY <2>2, <2>3, NothingWritten
<1> QED
  BY <1>1, <1>2, <1>3, <1>4, <1>6, <1>7, <1>8 DEF OwnerStep

LEMMA RecordsNext == Typed /\ RecordInv /\ [Next]_vars => RecordInv'
<1> SUFFICES ASSUME Typed, RecordInv, [Next]_vars PROVE RecordInv'
  OBVIOUS
<1>1. ASSUME UNCHANGED <<files, call, settled, link, crossed>>
      PROVE  RecordInv'
  BY <1>1 DEF RecordInv, Kept, Says, Fits
<1>2. ASSUME NEW u \in Users, SyncStep(u) \/ WatcherRestart(u) \/ Join(u) \/ Leave(u)
      PROVE  RecordInv'
  BY <1>1, <1>2 DEF SyncStep, list_files, RemoveUnlisted, SyncStatePut, _download_and_decode, Skip,
                    get, WatcherRestart, Join, Leave, StoreGroup, tracker, owner, history
<1>3. CASE \/ \E members \in SUBSET Users : StoreGroup(members)
           \/ DeleteGroup
           \/ \E x \in Users \X Files : DeleteCopy(x) \/ Evict(x)
           \/ UNCHANGED vars
  BY <1>1, <1>3 DEF StoreGroup, DeleteGroup, DeleteCopy, Evict, tracker, owner, history, vars
<1>4. CASE TrackerRestart
  <2>1. /\ \A f \in Files : files'[f] = None
        /\ \A f \in Files, u \in Users : settled'[<<f, u>>] = None
        /\ UNCHANGED <<call, link, crossed>>
    BY <1>4 DEF TrackerRestart, owner, Typed, HistoryTyped
  <2>2. \A f \in Files : Kept(f, files[f])'
    BY <2>1, SharingAssumption DEF Kept, Says, Fits
  <2>3. \A f \in Files : \A r : Kept(f, r) => Kept(f, r)'
    BY <2>1, SharingAssumption DEF Kept, Says, Fits
  <2>4. \A p \in Procs : Overwrites(call[p]) => call[p].file \in Files
    BY DEF Typed, OwnerTyped, CallOK, Call, Overwrites
  <2>5. \A p \in Procs : Overwrites(call[p])' => Kept(call[p].file, call[p].rec)'
    BY <2>1, <2>3, <2>4 DEF RecordInv
  <2> QED
    BY <2>2, <2>5 DEF RecordInv
<1>5. CASE OwnerRestart
  <2>1. /\ UNCHANGED <<files, settled, link, crossed>>
        /\ \A p \in Procs : ~Overwrites(call'[p])
    BY <1>5 DEF OwnerRestart, tracker, history, Overwrites, Idle
  <2>2. \A f \in Files : Kept(f, files[f])'
    BY <2>1 DEF RecordInv, Kept, Says, Fits
  <2> QED
    BY <2>1, <2>2 DEF RecordInv
<1> QED
  BY <1>2, <1>3, <1>4, <1>5, RecordsOwnerCall, RecordsOwnerStep DEF Next

LEMMA RecordsAlways == Spec => [](Typed /\ RecordInv)
<1>1. Init => RecordInv
  BY SharingAssumption DEF Init, RecordInv, Kept, Says, Fits, Overwrites, Idle
<1> QED
  BY <1>1, AlwaysTyped, RecordsNext, PTL DEF Spec

(* What the last call said of a user and a file holds until the next one,  *)
(* through updates and repairs that write back an older record.            *)
THEOREM LastCallStands == Spec => []LastCallHolds
<1>1. RecordInv => LastCallHolds
  BY DEF RecordInv, Kept, Says, LastCallHolds, SharedWith
<1> QED
  BY <1>1, RecordsAlways, PTL

(* Grants and public links open the file they were given for, unless an    *)
(* upload with a new key fell between the requests of the sharing.         *)
THEOREM KeysOpenTheirFiles == Spec => []HandedOutOpens
<1>1. ASSUME Typed, RecordInv
      PROVE  HandedOutOpens
  <2> SUFFICES ASSUME NEW f \in Files, f \notin crossed, files[f] # None
               PROVE  /\ \A u \in Users : SharedWith(f, u) => Opens(f, u)
                      /\ get_public(f)
    BY DEF HandedOutOpens
  <2>1. files[f] \in Record /\ Fits(f, files[f])
    BY <1>1, RecordsTyped DEF RecordInv, Kept
  <2>2. ASSUME NEW u \in Users, SharedWith(f, u)
        PROVE  Opens(f, u)
    <3>1. files[f].shares[u] \in Seq(Versions) /\ files[f].shares[u] # <<>>
      BY <2>1, <2>2 DEF SharedWith, Record
    <3>2. 1 \in 1 .. Len(files[f].shares[u])
      BY <3>1, EmptySeq, LenProperties
    <3> QED
      BY <2>1, <2>2, <3>1, <3>2 DEF Fits, Opens, _unwrap_file_key
  <2> QED
    BY <2>1, <2>2 DEF Fits, get_public
<1> QED
  BY <1>1, RecordsAlways, PTL
=============================================================================
