--------------------------- MODULE AdaptiveProofs ---------------------------
(***************************************************************************)
(* Proofs about Adaptive, for any k and m, files, contents and requests.   *)
(* The inductive invariant says how far an undisturbed upload has come     *)
(* (Undisturbed), that no two tasks write one file (OneWriter), and whose  *)
(* k and m finally restores (OwnInv).                                      *)
(***************************************************************************)
EXTENDS Adaptive, TLAPS

OwnInv ==
    /\ \A r \in Requests : call[r].over = None /\ call[r].at # "asking"
    /\ IF call[Watch].over = None THEN params = Own ELSE call[Watch].over = Own
    /\ call[Watch].at \in {"idle", "asking"} => call[Watch].over = None

OneWriter ==
    /\ call[Watch].at # "idle" => call[Watch].file \in Private
    /\ \A r \in Requests : call[r].at # "idle" => call[r].file \in Contents
    /\ \A p, q \in Procs : p # q /\ call[p].at # "idle" /\ call[q].at # "idle" =>
          call[p].file # call[q].file

(* The chunks that are done: all but those to do and the one in hand. *)
Done(c) == DOMAIN c.data \ (c.todo \cup (IF c.at = "write" THEN {c.cur.pos} ELSE {}))

Progress(c) ==
    c.at \in Writing =>
        /\ c.todo \subseteq DOMAIN c.data
        /\ c.at # "write" => c.todo = {}
        /\ c.at = "write" => c.cur.pos \in DOMAIN c.data \ c.todo
        /\ \A i \in Done(c) : c.done[i] \in Chunk

(* Chunk ch is one of scheme s, at the place of chunk i. *)
Placed(ch, i, s) == ch.scheme = s /\ ch.base = Base(i, s)

Undisturbed(c) ==
    c.at \in Writing /\ c.sound =>
        /\ c.file \notin failed
        /\ IF c.at = "store" THEN c.header = c.scheme ELSE params = c.scheme
        /\ \A i \in Done(c) : Placed(c.done[i], i, c.scheme) /\ Whole(c.file, c.done[i])
        /\ c.at = "write" =>
              /\ Placed(c.cur, c.cur.pos, c.scheme)
              /\ \A i \in Region(c.cur) \ c.left : Shard(c.file, i, c.cur) \in held
        /\ c.at # "store" => \A i \in c.trim : i >= Base(Len(c.data) + 1, c.scheme)

CallInv == \A p \in Procs : Progress(call[p]) /\ Undisturbed(call[p])

Inv == TypeOK /\ OwnInv /\ OneWriter /\ CallInv /\ ReadsBack

----------------------------------------------------------------------------
(* Numbering of shards.                                                    *)

LEMMA SchemeFacts ==
    ASSUME NEW s \in Schemes
    PROVE  Shards(s) \in Nat \ {0}
BY AdaptiveAssumption DEF Shards

LEMMA BaseFacts ==
    ASSUME NEW s \in Schemes, NEW i \in Nat \ {0}
    PROVE  Base(i, s) \in Nat
<1> DEFINE n == Shards(s)
<1>1. n \in Nat /\ i - 1 \in Nat
  BY SchemeFacts
<1>2. \A a, b \in Nat : a * b \in Nat
  OBVIOUS
<1> QED
  BY <1>1, <1>2 DEF Base

(* Chunk j's shards come after those of an earlier chunk i. *)
LEMMA BasesApart ==
    ASSUME NEW s \in Schemes, NEW i \in Nat \ {0}, NEW j \in Nat \ {0}, i < j
    PROVE  Base(i, s) + Shards(s) <= Base(j, s)
<1> DEFINE n == Shards(s)
           e == j - i - 1
<1>1. n \in Nat /\ e \in Nat /\ i - 1 \in Nat /\ j - 1 = (i - 1) + 1 + e
  BY SchemeFacts
<1> HIDE DEF n, e
<1>2. e * n \in Nat
  BY <1>1
<1>3. ((i - 1) + 1 + e) * n = (i - 1) * n + n + e * n
  BY <1>1
<1>4. (j - 1) * n = (i - 1) * n + n + e * n
  BY <1>1, <1>3
<1>5. (i - 1) * n + n <= (j - 1) * n
  <2>1. (i - 1) * n \in Nat
    BY <1>1
  <2> QED
    BY <1>1, <1>2, <1>4, <2>1
<1> QED
  BY <1>5 DEF Base, n

LEMMA RegionFacts ==
    ASSUME NEW c \in Chunk
    PROVE  /\ Region(c) \subseteq Nat /\ c.base \in Nat /\ c.scheme \in Schemes
           /\ \A i \in Region(c) : c.base <= i /\ i < c.base + Shards(c.scheme)
BY SchemeFacts DEF Chunk, Region

(* Two chunks of a file that are placed by one scheme share no index.      *)
LEMMA RegionsApart ==
    ASSUME NEW s \in Schemes, NEW i \in Nat \ {0}, NEW j \in Nat \ {0}, i # j,
           NEW a \in Chunk, NEW b \in Chunk, Placed(a, i, s), Placed(b, j, s)
    PROVE  Region(a) \cap Region(b) = {}
<1>1. Base(i, s) \in Nat /\ Base(j, s) \in Nat /\ Shards(s) \in Nat
  BY BaseFacts, SchemeFacts
<1>2. \/ Base(i, s) + Shards(s) <= Base(j, s)
      \/ Base(j, s) + Shards(s) <= Base(i, s)
  BY BasesApart
<1>3. \A x \in Region(a) : x \in Nat /\ Base(i, s) <= x /\ x < Base(i, s) + Shards(s)
  BY RegionFacts DEF Placed
<1>4. \A x \in Region(b) : x \in Nat /\ Base(j, s) <= x /\ x < Base(j, s) + Shards(s)
  BY RegionFacts DEF Placed
<1> QED
  BY <1>1, <1>2, <1>3, <1>4

LEMMA ContentFacts ==
    ASSUME NEW d \in Contents
    PROVE  /\ d \in Seq(Texts) /\ Len(d) \in Nat \ {0} /\ DOMAIN d = 1 .. Len(d)
           /\ \A i \in DOMAIN d : i \in Nat \ {0} /\ d[i] \in Texts
BY AdaptiveAssumption

----------------------------------------------------------------------------
(* How a call goes on.                                                     *)

(* What Continue makes of call c: nothing but where it is has changed.     *)
Follows(c, e) ==
    /\ e.at \in Writing /\ e.file = c.file /\ e.data = c.data /\ e.over = c.over
    /\ e.scheme = c.scheme /\ e.done = c.done /\ e.trim = c.trim /\ e.whole = c.whole
    /\ e.sound = c.sound
    /\ e.at = "write" =>
          /\ e.cur.pos \in c.todo /\ e.cur = Encode(c, e.cur.pos)
          /\ e.left = Region(e.cur) /\ e.todo = c.todo \ {e.cur.pos}
    /\ e.at # "write" => c.todo = {} /\ e.todo = {}
    /\ e.at = "store" => e.header = params

(* A call whose chunks that are not to do are done. *)
Ready(c) ==
    /\ \E d \in Contents : c \in Call(d)
    /\ c.file \in Files /\ c.scheme \in Schemes
    /\ c.todo \subseteq DOMAIN c.data /\ c.done \in [DOMAIN c.data -> Maybe(Chunk)]
    /\ \A i \in DOMAIN c.data \ c.todo : c.done[i] \in Chunk

LEMMA EncodeTyped ==
    ASSUME NEW c, Ready(c), params \in Schemes, NEW i \in c.todo
    PROVE  /\ Encode(c, i) \in Chunk /\ Encode(c, i).pos = i
           /\ Encode(c, i).scheme = params /\ Encode(c, i).base = Base(i, c.scheme)
<1>1. PICK d \in Contents : c \in Call(d)
  BY DEF Ready
<1>2. c.data = d /\ c.nonce \in 0 .. MaxCalls
  BY <1>1 DEF Call
<1>3. i \in DOMAIN d /\ i \in Nat \ {0} /\ d[i] \in Texts
  BY <1>1, <1>2, ContentFacts DEF Ready
<1>4. Base(i, c.scheme) \in Nat
  BY <1>3, BaseFacts DEF Ready
<1> QED
  BY <1>2, <1>3, <1>4 DEF Encode, Chunk

LEMMA Continued ==
    ASSUME NEW c, Ready(c), params \in Schemes, NEW e \in Continue(c)
    PROVE  CallOK(e) /\ Progress(e) /\ Follows(c, e)
<1>1. PICK d \in Contents : c \in Call(d)
  BY DEF Ready
<1>2. c.data = d
  BY <1>1 DEF Call
<1>3. CASE c.todo # {}
  <2>1. PICK i \in c.todo :
            e = [c EXCEPT !.at = "write", !.cur = Encode(c, i), !.left = Region(Encode(c, i)),
                          !.todo = c.todo \ {i}]
    BY <1>3 DEF Continue
  <2>2. Encode(c, i) \in Chunk /\ Encode(c, i).pos = i
    BY EncodeTyped
  <2>3. Region(Encode(c, i)) \in SUBSET Nat
    BY <2>2, RegionFacts
  <2>4. e \in Call(d) /\ e.at = "write" /\ e.cur = Encode(c, i) /\ e.left = Region(Encode(c, i))
        /\ e.todo = c.todo \ {i}
    BY <1>1, <2>1, <2>2, <2>3 DEF Call, Writing, Maybe
  <2>5. /\ e.file = c.file /\ e.data = c.data /\ e.over = c.over
        /\ e.scheme = c.scheme /\ e.done = c.done /\ e.trim = c.trim /\ e.whole = c.whole
        /\ e.sound = c.sound
    BY <1>1, <2>1 DEF Call
  <2>6. CallOK(e)
    BY <1>2, <2>2, <2>4, <2>5 DEF CallOK, Ready
  <2>7. Progress(e)
    BY <2>2, <2>4, <2>5 DEF Progress, Ready, Done
  <2>8. Follows(c, e)
    BY <2>2, <2>4, <2>5 DEF Follows, Writing
  <2> QED
    BY <2>6, <2>7, <2>8
<1>4. CASE c.todo = {}
  <2>1. e = [c EXCEPT !.at = IF c.trim = {} THEN "store" ELSE "trim", !.cur = None,
                      !.header = IF c.trim = {} THEN params ELSE None]
    BY <1>4 DEF Continue
  <2>2. e \in Call(d) /\ e.at = (IF c.trim = {} THEN "store" ELSE "trim") /\ e.todo = {}
        /\ (e.at = "store" => e.header = params)
    <3>1. CASE c.trim = {}
      <4>1. e = [c EXCEPT !.at = "store", !.cur = None, !.header = params]
        BY <2>1, <3>1
      <4> QED
        BY <1>1, <1>4, <3>1, <4>1 DEF Call, Writing, Maybe
    <3>2. CASE c.trim # {}
      <4>1. e = [c EXCEPT !.at = "trim", !.cur = None, !.header = None]
        BY <2>1, <3>2
      <4> QED
        BY <1>1, <1>4, <3>2, <4>1 DEF Call, Writing, Maybe
    <3> QED
      BY <3>1, <3>2
  <2>3. /\ e.file = c.file /\ e.data = c.data /\ e.over = c.over
        /\ e.scheme = c.scheme /\ e.done = c.done /\ e.trim = c.trim /\ e.whole = c.whole
        /\ e.sound = c.sound
    BY <1>1, <2>1 DEF Call
  <2>4. e.done \in ChunksOf(e.data)
    BY <1>4, <2>3 DEF Ready, ChunksOf
  <2>5. CallOK(e)
    BY <1>2, <2>2, <2>3, <2>4 DEF CallOK, Ready
  <2>6. Progress(e)
    BY <1>4, <2>2, <2>3 DEF Progress, Ready, Done
  <2>7. Follows(c, e)
    BY <1>4, <2>2, <2>3 DEF Follows, Writing
  <2> QED
    BY <2>5, <2>6, <2>7
<1> QED
  BY <1>3, <1>4

(* A call that this step only watches: k and m change, or another task     *)
(* writes another file.                                                    *)
LEMMA Watches ==
    ASSUME TypeOK, CallInv, NEW q \in Procs,
           call'[q] = call[q] \/ call'[q] = [call[q] EXCEPT !.sound = FALSE],
           params' = params \/ call[q].at \notin {"write", "trim"} \/ ~call'[q].sound,
           call[q].file \in failed' => call[q].file \in failed,
           \A h \in held : h.file = call[q].file => h \in held'
    PROVE  /\ CallOK(call'[q]) /\ Progress(call'[q]) /\ Undisturbed(call[q])'
           /\ call'[q].at = call[q].at /\ call'[q].file = call[q].file
           /\ call'[q].over = call[q].over
<1> DEFINE c == call[q]
           e == call'[q]
<1>1. PICK d \in Contents \cup {<<>>} : c \in Call(d)
  BY DEF TypeOK, CallOK
<1>2. e \in Call(d) /\ (c.sound \/ ~e.sound)
  BY <1>1 DEF Call
<1>3. /\ e.at = c.at /\ e.file = c.file /\ e.over = c.over /\ e.data = c.data
      /\ e.scheme = c.scheme /\ e.header = c.header /\ e.cur = c.cur /\ e.left = c.left
      /\ e.todo = c.todo /\ e.trim = c.trim /\ e.done = c.done
  BY <1>1 DEF Call
<1>4. CallOK(e)
  BY <1>2, <1>3 DEF TypeOK, CallOK
<1>5. Progress(e)
  <2>1. Progress(c)
    BY DEF CallInv
  <2> QED
    BY <1>3, <2>1 DEF Progress, Done
<1>6. ASSUME e.at \in Writing, e.sound
      PROVE  Undisturbed(call[q])'
  <2>1. c.sound /\ c.at \in Writing /\ Undisturbed(c)
    BY <1>2, <1>3, <1>6 DEF CallInv
  <2>2. e.at # "store" => params' = params
    BY <1>3, <1>6 DEF Writing
  <2>3. \A f, i, x : f = c.file /\ Shard(f, i, x) \in held => Shard(f, i, x) \in held'
    BY DEF Shard
  <2>4. \A f, x : f = c.file /\ Whole(f, x) => Whole(f, x)'
    BY <2>3 DEF Whole
  <2> QED
    BY <1>3, <2>1, <2>2, <2>3, <2>4 DEF Undisturbed, Done
<1>7. Undisturbed(call[q])'
  BY <1>6 DEF Undisturbed
<1> QED
  BY <1>3, <1>4, <1>5, <1>7

LEMMA IdleFacts == CallOK(Idle) /\ Progress(Idle) /\ Idle.at = "idle" /\ Idle.over = None
<1>1. Idle \in Call(<<>>)
  BY AdaptiveAssumption DEF Idle, Call, Maybe
<1> QED
  BY <1>1 DEF CallOK, Progress, Idle, Writing

(* No call turns to another file. *)
LEMMA WritersStay ==
    ASSUME OneWriter,
           \A q \in Procs : call'[q].at = "idle" \/ (call[q].at # "idle" /\ call'[q].file = call[q].file)
    PROVE  OneWriter'
BY DEF OneWriter, Procs

(* A file that no task has finished with in this step reads back as before. *)
LEMMA StillReads ==
    ASSUME ReadsBack, NEW f \in Files, files'[f] = files[f], f \notin spoilt \cup failed,
           files[f] # None, ~Busy(f), \A h \in held : h.file = f => h \in held'
    PROVE  /\ Aligned(files'[f])
           /\ \A i \in DOMAIN files'[f].chunks : Whole(f, files[f].chunks[i])'
<1>1. /\ Aligned(files[f])
      /\ \A i \in DOMAIN files[f].chunks : Whole(f, files[f].chunks[i])
  BY DEF ReadsBack
<1>2. \A i, x : Shard(f, i, x) \in held => Shard(f, i, x) \in held'
  BY DEF Shard
<1>3. \A x : Whole(f, x) => (\A i \in Region(x) : Shard(f, i, x) \in held')
  BY <1>2 DEF Whole
<1> QED
  BY <1>1, <1>3 DEF Whole

(* Steps that leave the tracker's records alone.                           *)
LEMMA RecordsStay ==
    ASSUME ReadsBack, UNCHANGED <<files, spoilt>>, failed \subseteq failed',
           \A f \in Files \ failed' : Busy(f) => Busy(f)',
           \A f \in Files, h \in held : ~Busy(f) /\ h.file = f => h \in held'
    PROVE  ReadsBack'
<1> SUFFICES ASSUME NEW f \in Files \ (spoilt' \cup failed'), files'[f] # None, ~Busy(f)'
             PROVE  /\ Aligned(files'[f])
                    /\ \A i \in DOMAIN files'[f].chunks : Whole(f, files[f].chunks[i])'
  BY DEF ReadsBack, Aligned
<1>1. f \in Files /\ f \notin spoilt \cup failed /\ files[f] # None /\ files'[f] = files[f]
  OBVIOUS
<1>2. ~Busy(f)
  OBVIOUS
<1> QED
  BY <1>1, <1>2, StillReads

LEMMA Exchanged ==
    ASSUME TypeOK, CallInv, NEW s \in Schemes, params' = s, NEW q \in Procs,
           call'[q] = Exchange(s)[q],
           call[q].file \in failed' => call[q].file \in failed, held' = held
    PROVE  /\ CallOK(call'[q]) /\ Progress(call'[q]) /\ Undisturbed(call[q])'
           /\ call'[q].at = call[q].at /\ call'[q].file = call[q].file
           /\ call'[q].over = call[q].over
<1>1. call'[q] = IF s # params /\ call[q].at \in {"write", "trim"}
                 THEN [call[q] EXCEPT !.sound = FALSE] ELSE call[q]
  BY DEF Exchange
<1>2. call'[q] = call[q] \/ call'[q] = [call[q] EXCEPT !.sound = FALSE]
  BY <1>1
<1>3. params' = params \/ call[q].at \notin {"write", "trim"} \/ ~call'[q].sound
  <2>1. CASE s # params /\ call[q].at \in {"write", "trim"}
    <3>1. PICK d \in Contents \cup {<<>>} : call[q] \in Call(d)
      BY DEF TypeOK, CallOK
    <3> QED
      BY <1>1, <2>1, <3>1 DEF Call
  <2> QED
    BY <1>1, <2>1
<1> QED
  BY <1>2, <1>3, Watches

LEMMA Ended ==
    ASSUME Inv, NEW p \in Procs, End(p), UNCHANGED <<files, held, spoilt>>,
           \/ failed' = failed /\ call[p].at \notin Writing
           \/ failed' = failed \cup Unfinished({p})
    PROVE  /\ params' \in Schemes /\ DOMAIN call' = Procs
           /\ \A q \in Procs : CallOK(call'[q])
           /\ failed' \subseteq Files
           /\ OwnInv' /\ OneWriter' /\ CallInv' /\ ReadsBack'
<1> DEFINE s == Restored(p)
<1>1. params' = s /\ DOMAIN call' = Procs /\ call'[p] = Idle
      /\ \A q \in Procs \ {p} : call'[q] = Exchange(s)[q]
  BY DEF End, Exchange
<1>2. s \in Schemes /\ params' \in Schemes
  <2>1. params \in Schemes
    BY DEF Inv, TypeOK
  <2>2. PICK d \in Contents \cup {<<>>} : call[p] \in Call(d)
    BY DEF Inv, TypeOK, CallOK
  <2>3. call[p].over \in Schemes \cup {None}
    BY <2>2 DEF Call, Maybe
  <2> QED
    BY <1>1, <2>1, <2>3 DEF Restored
<1> HIDE DEF s
<1>3. Unfinished({p}) = IF call[p].at \in Writing THEN {call[p].file} ELSE {}
  BY DEF Unfinished, Writing
<1>4. failed' = failed \cup Unfinished({p})
  BY <1>3
<1>5. \A q \in Procs \ {p} : call[q].at # "idle" /\ call[q].file \in failed' => call[q].file \in failed
  BY <1>3, <1>4 DEF Inv, OneWriter, Writing
<1>6. ASSUME NEW q \in Procs \ {p}
      PROVE  /\ CallOK(call'[q]) /\ Progress(call'[q]) /\ Undisturbed(call[q])'
             /\ call'[q].at = call[q].at /\ call'[q].file = call[q].file
             /\ call'[q].over = call[q].over
  <2>1. CASE call[q].at # "idle"
    BY <1>1, <1>2, <1>5, <1>6, <2>1, Exchanged DEF Inv
  <2>2. CASE call[q].at = "idle"
    <3>1. call'[q] = call[q]
      BY <1>1, <1>6, <2>2 DEF Exchange
    <3>2. CallOK(call[q]) /\ Progress(call[q])
      BY DEF Inv, TypeOK, CallInv
    <3> QED
      BY <2>2, <3>1, <3>2 DEF Undisturbed, Writing
  <2> QED
    BY <2>1, <2>2
<1>7. \A q \in Procs : CallOK(call'[q])
  BY <1>1, <1>6, IdleFacts
<1>8. CallInv'
  <2>1. \A q \in Procs : Progress(call'[q]) /\ Undisturbed(call[q])'
    BY <1>1, <1>6, IdleFacts DEF Undisturbed, Writing
  <2> QED
    BY <1>1, <2>1 DEF CallInv, Progress, Done
<1>9. OneWriter'
  BY <1>1, <1>6, IdleFacts, WritersStay DEF Inv
<1>10. OwnInv'
  <2>1. CASE p = Watch
    <3>1. s = Own
      BY <2>1 DEF Inv, OwnInv, s, Restored
    <3>2. \A r \in Requests : r \in Procs \ {p}
      BY <2>1, AdaptiveAssumption DEF Procs
    <3> QED
      BY <1>1, <1>6, <2>1, <3>1, <3>2, IdleFacts DEF Inv, OwnInv
  <2>2. CASE p \in Requests
    <3>1. s = params
      BY <2>2 DEF Inv, OwnInv, s, Restored
    <3>2. Watch \in Procs \ {p}
      BY <2>2, AdaptiveAssumption DEF Procs
    <3> QED
      BY <1>1, <1>6, <2>2, <3>1, <3>2, IdleFacts DEF Inv, OwnInv, Procs
  <2> QED
    BY <2>1, <2>2 DEF Procs
<1>11. \A f \in Files \ failed' : Busy(f) => Busy(f)'
  BY <1>3, <1>4, <1>6 DEF Busy
<1>12. ReadsBack'
  BY <1>4, <1>11, RecordsStay DEF Inv
<1>13. failed' \subseteq Files
  BY <1>3, <1>4 DEF Inv, TypeOK, CallOK, Writing
<1> QED
  BY <1>1, <1>2, <1>7, <1>8, <1>9, <1>10, <1>12, <1>13

(* A step of task p alone, which may write its own file.                   *)
LEMMA OneCall ==
    ASSUME Inv, NEW p \in Procs, NEW e, call' = [call EXCEPT ![p] = e],
           UNCHANGED <<params, failed>>,
           \/ held' = held
           \/ call[p].at # "idle" /\ \A h \in held : h.file # call[p].file => h \in held',
           CallOK(e), Progress(e), Undisturbed(call[p])'
    PROVE  /\ DOMAIN call' = Procs /\ call'[p] = e
           /\ \A q \in Procs \ {p} : call'[q] = call[q]
           /\ \A q \in Procs : CallOK(call'[q])
           /\ CallInv'
<1>1. /\ DOMAIN call' = Procs /\ call'[p] = e
      /\ \A q \in Procs \ {p} : call'[q] = call[q]
  BY DEF Inv, TypeOK
<1>2. ASSUME NEW q \in Procs \ {p}
      PROVE  CallOK(call'[q]) /\ Progress(call'[q]) /\ Undisturbed(call[q])'
  <2>1. CASE call[q].at # "idle"
    <3>1. \A h \in held : h.file = call[q].file => h \in held'
      BY <1>2, <2>1 DEF Inv, OneWriter
    <3> QED
      BY <1>1, <1>2, <3>1, Watches DEF Inv
  <2>2. CASE call[q].at = "idle"
    <3>1. CallOK(call[q]) /\ Progress(call[q])
      BY DEF Inv, TypeOK, CallInv
    <3> QED
      BY <1>1, <1>2, <2>2, <3>1 DEF Undisturbed, Writing
  <2> QED
    BY <2>1, <2>2
<1>3. \A q \in Procs : CallOK(call'[q]) /\ Progress(call'[q]) /\ Undisturbed(call[q])'
  BY <1>1, <1>2
<1>4. CallInv'
  BY <1>1, <1>3 DEF CallInv, Progress, Done
<1> QED
  BY <1>1, <1>3, <1>4

(* Only the call of one task has changed, and not whom it may restore.     *)
LEMMA OwnStays ==
    ASSUME OwnInv, params' = params, NEW p \in Procs, NEW e,
           call'[p] = e, \A q \in Procs \ {p} : call'[q] = call[q],
           e.over = call[p].over, e.at \notin {"idle", "asking"}
    PROVE  OwnInv'
BY AdaptiveAssumption DEF OwnInv, Procs

----------------------------------------------------------------------------
(* The actions keep the invariant.                                         *)

LEMMA Begun ==
    ASSUME Inv, NEW p \in Procs, NEW e, Begin(p, e),
           CallOK(e), e.at \in {"asking", "opening"}, e.over = None,
           IF p = Watch THEN e.file \in Private
           ELSE /\ e.file \in Contents /\ e.at = "opening"
                /\ \A q \in Requests : call[q].file # e.file
    PROVE  Inv'
<1>1. /\ call[p].at = "idle" /\ call' = [call EXCEPT ![p] = e]
      /\ calls < MaxCalls /\ calls' = calls + 1
      /\ UNCHANGED <<params, files, held, faults, spoilt, failed>>
  BY DEF Begin
<1>2. /\ DOMAIN call' = Procs /\ call'[p] = e
      /\ \A q \in Procs \ {p} : call'[q] = call[q]
  BY <1>1 DEF Inv, TypeOK
<1>3. Progress(e) /\ Undisturbed(call[p])'
  BY <1>2 DEF Progress, Undisturbed, Writing
<1>4. (\A q \in Procs : CallOK(call'[q])) /\ CallInv'
  BY <1>1, <1>3, OneCall
<1>5. TypeOK'
  <2>1. calls' \in 0 .. MaxCalls
    BY <1>1, AdaptiveAssumption DEF Inv, TypeOK
  <2> QED
    BY <1>1, <1>2, <1>4, <2>1 DEF Inv, TypeOK
<1>6. OwnInv'
  BY <1>1, <1>2, AdaptiveAssumption DEF Inv, OwnInv, Procs
<1>7. OneWriter'
  BY <1>1, <1>2, AdaptiveAssumption DEF Inv, OneWriter, Procs
<1>8. ReadsBack'
  <2>1. \A f \in Files : Busy(f) => Busy(f)'
    BY <1>1, <1>2 DEF Busy, Writing
  <2> QED
    BY <1>1, <2>1, RecordsStay DEF Inv
<1> QED
  BY <1>4, <1>5, <1>6, <1>7, <1>8 DEF Inv

LEMMA BeginKeeps ==
    ASSUME Inv, NEW d \in Contents,
           \/ \E f \in Private : put_adaptive(f, d) \/ put_delta(f, d)
           \/ \E r \in Requests : put(r, d)
    PROVE  Inv'
<1>1. calls < MaxCalls /\ calls \in Nat => calls + 1 \in 0 .. MaxCalls
  BY AdaptiveAssumption
<1>2. calls \in Nat /\ 0 \in 0 .. MaxCalls
  BY AdaptiveAssumption DEF Inv, TypeOK
<1>3. ASSUME NEW f \in Private, put_adaptive(f, d)
      PROVE  Inv'
  <2> DEFINE e == [Idle EXCEPT !.at = "asking", !.file = f, !.data = d, !.nonce = calls + 1]
  <2>1. Begin(Watch, e) /\ calls < MaxCalls
    BY <1>3 DEF put_adaptive, Begin
  <2>2. e \in Call(d) /\ e.at = "asking" /\ e.file = f /\ e.data = d /\ e.over = None
    BY <1>1, <1>2, <2>1 DEF Idle, Call, Maybe, Files
  <2>3. CallOK(e)
    BY <2>2 DEF CallOK, Writing, Files
  <2> HIDE DEF e
  <2> QED
    BY <2>1, <2>2, <2>3, Begun DEF Procs
<1>4. ASSUME NEW f \in Private, put_delta(f, d)
      PROVE  Inv'
  <2> DEFINE e == [Idle EXCEPT !.at = "opening", !.delta = TRUE, !.file = f, !.data = d,
                              !.nonce = calls + 1]
  <2>1. Begin(Watch, e) /\ calls < MaxCalls
    BY <1>4 DEF put_delta, Begin
  <2>2. e \in Call(d) /\ e.at = "opening" /\ e.file = f /\ e.data = d /\ e.over = None
    BY <1>1, <1>2, <2>1 DEF Idle, Call, Maybe, Files
  <2>3. CallOK(e)
    BY <2>2 DEF CallOK, Writing, Files
  <2> HIDE DEF e
  <2> QED
    BY <2>1, <2>2, <2>3, Begun DEF Procs
<1>5. ASSUME NEW r \in Requests, put(r, d)
      PROVE  Inv'
  <2> DEFINE e == [Idle EXCEPT !.at = "opening", !.file = d, !.data = d]
  <2>1. Begin(r, e) /\ \A q \in Requests : call[q].file # d
    BY <1>5 DEF put
  <2>2. e \in Call(d) /\ e.at = "opening" /\ e.file = d /\ e.data = d /\ e.over = None
    BY <1>2, <2>1 DEF Idle, Call, Maybe, Files
  <2>3. CallOK(e)
    BY <2>2 DEF CallOK, Writing, Files
  <2>4. r # Watch /\ r \in Procs
    BY AdaptiveAssumption DEF Procs
  <2> HIDE DEF e
  <2> QED
    BY <2>1, <2>2, <2>3, <2>4, Begun
<1> QED
  BY <1>3, <1>4, <1>5

LEMMA OverrideKeeps ==
    ASSUME Inv, NEW s \in Schemes, Override(s)
    PROVE  Inv'
<1> DEFINE c == call[Watch]
           o == IF s = params THEN None ELSE params
           e == [c EXCEPT !.at = "opening", !.over = o]
<1>1. /\ c.at = "asking" /\ params' = s
      /\ UNCHANGED <<files, held, calls, faults, spoilt, failed>>
  BY DEF Override
<1>2. /\ DOMAIN call' = Procs /\ call'[Watch] = e
      /\ \A q \in Procs \ {Watch} : call'[q] = Exchange(s)[q]
  BY <1>1 DEF Override, Exchange, Procs
<1>3. params \in Schemes /\ CallOK(c) /\ c.over = None /\ params = Own
  BY <1>1 DEF Inv, TypeOK, OwnInv, Procs
<1>4. PICK d \in Contents \cup {<<>>} : c \in Call(d)
  BY <1>3 DEF CallOK
<1>5. /\ e \in Call(d) /\ e.at = "opening" /\ e.file = c.file /\ e.data = c.data
      /\ e.over = o
  <2>1. o \in Schemes \cup {None}
    BY <1>3
  <2> HIDE DEF o
  <2> QED
    BY <1>4, <2>1 DEF Call, Maybe
<1>6. CallOK(e)
  BY <1>1, <1>3, <1>5 DEF CallOK, Writing
<1> HIDE DEF e
<1>7. \A q \in Procs \ {Watch} :
          /\ CallOK(call'[q]) /\ Progress(call'[q]) /\ Undisturbed(call[q])'
          /\ call'[q].at = call[q].at /\ call'[q].file = call[q].file
          /\ call'[q].over = call[q].over
  BY <1>1, <1>2, Exchanged DEF Inv
<1>8. \A q \in Procs : CallOK(call'[q]) /\ Progress(call'[q]) /\ Undisturbed(call[q])'
  BY <1>2, <1>5, <1>6, <1>7 DEF Progress, Undisturbed, Writing
<1>9. CallInv'
  BY <1>8 DEF CallInv, Progress, Done
<1>10. TypeOK'
  BY <1>1, <1>2, <1>8 DEF Inv, TypeOK
<1>11. OwnInv'
  <2>1. \A r \in Requests : r \in Procs \ {Watch}
    BY AdaptiveAssumption DEF Procs
  <2> QED
    BY <1>1, <1>2, <1>3, <1>5, <1>7, <2>1, AdaptiveAssumption DEF Inv, OwnInv
<1>12. OneWriter'
  <2>1. \A q \in Procs : call'[q].at = "idle" \/ (call[q].at # "idle" /\ call'[q].file = call[q].file)
    BY <1>1, <1>2, <1>5, <1>7
  <2> QED
    BY <2>1, WritersStay DEF Inv
<1>13. ReadsBack'
  <2>1. \A f \in Files : Busy(f) => Busy(f)'
    BY <1>1, <1>7 DEF Busy, Writing
  <2> QED
    BY <1>1, <2>1, RecordsStay DEF Inv
<1> QED
  BY <1>9, <1>10, <1>11, <1>12, <1>13 DEF Inv

(* An upload that goes on is undisturbed if what it has done is in place.  *)
LEMMA Onward ==
    ASSUME NEW c, Ready(c), params \in Schemes, params' = params, NEW e \in Continue(c),
           NEW p \in Procs, call'[p] = e,
           c.sound =>
              /\ c.file \notin failed' /\ params = c.scheme
              /\ \A i \in DOMAIN c.data \ c.todo :
                    /\ Placed(c.done[i], i, c.scheme)
                    /\ \A j \in Region(c.done[i]) : Shard(c.file, j, c.done[i]) \in held'
              /\ \A i \in c.trim : i >= Base(Len(c.data) + 1, c.scheme)
    PROVE  Undisturbed(call[p])'
<1>1. CallOK(e) /\ Progress(e) /\ Follows(c, e)
  BY Continued
<1>2. Done(e) = DOMAIN c.data \ c.todo
  BY <1>1 DEF Follows, Done, Ready
<1>3. ASSUME e.at = "write"
      PROVE  e.cur.scheme = params /\ e.cur.base = Base(e.cur.pos, c.scheme) /\ e.left = Region(e.cur)
  BY <1>1, <1>3, EncodeTyped DEF Follows
<1>4. ASSUME e.sound
      PROVE  /\ e.file \notin failed'
             /\ IF e.at = "store" THEN e.header = e.scheme ELSE params = e.scheme
             /\ \A i \in Done(e) : /\ Placed(e.done[i], i, e.scheme)
                                   /\ \A j \in Region(e.done[i]) : Shard(e.file, j, e.done[i]) \in held'
             /\ e.at = "write" => Placed(e.cur, e.cur.pos, e.scheme) /\ e.left = Region(e.cur)
             /\ \A i \in e.trim : i >= Base(Len(e.data) + 1, e.scheme)
  <2>1. c.sound /\ e.scheme = c.scheme /\ e.file = c.file /\ e.done = c.done /\ e.trim = c.trim
        /\ e.data = c.data
    BY <1>1, <1>4 DEF Follows
  <2>2. IF e.at = "store" THEN e.header = e.scheme ELSE params = e.scheme
    BY <1>1, <2>1 DEF Follows
  <2>3. e.at = "write" => Placed(e.cur, e.cur.pos, e.scheme) /\ e.left = Region(e.cur)
    BY <1>3, <2>1 DEF Placed
  <2> QED
    BY <1>2, <2>1, <2>2, <2>3
<1> HIDE DEF Follows
<1> QED
  BY <1>4 DEF Undisturbed, Done, Whole

LEMMA RecordFacts ==
    ASSUME TypeOK, NEW f \in Files, files[f] # None
    PROVE  \E d \in Contents : /\ files[f].scheme \in Schemes /\ files[f].chunks \in [DOMAIN d -> Chunk]
                               /\ files[f] \in Records(d)
BY DEF TypeOK, Records, ChunksOf

LEMMA OpenKeeps ==
    ASSUME Inv, NEW p \in Procs, Open(p)
    PROVE  Inv'
<1> DEFINE c == call[p]
           f == c.file
           r == files[f]
           d == c.data
           updates == c.delta /\ r # None
           kept == IF updates THEN Reused(r, d) ELSE {}
           done == [i \in DOMAIN d |-> IF i \in kept THEN r.chunks[i] ELSE None]
           trim == IF updates THEN Trimmed(r, d) ELSE {}
           whole == {i \in kept : Whole(f, r.chunks[i])}
           sound == f \notin failed /\ (updates => f \notin spoilt /\ r.scheme = params)
           n == [c EXCEPT !.scheme = params, !.todo = DOMAIN d \ kept, !.done = done,
                          !.trim = trim, !.whole = whole, !.sound = sound]
<1>1. c.at = "opening" /\ UNCHANGED <<files, held, calls, faults, spoilt, failed>>
  BY DEF Open
<1>2. f \in Files /\ d \in Contents /\ CallOK(c) /\ params \in Schemes
  BY <1>1 DEF Inv, TypeOK, CallOK
<1>3. CASE End(p)
  <2>1. c.at \notin Writing
    BY <1>1 DEF Writing
  <2>2. /\ params' \in Schemes /\ DOMAIN call' = Procs
        /\ \A q \in Procs : CallOK(call'[q])
        /\ OwnInv' /\ OneWriter' /\ CallInv' /\ ReadsBack'
    BY <1>1, <1>3, <2>1, Ended
  <2> QED
    BY <1>1, <2>2 DEF Inv, TypeOK
<1>4. ASSUME NEW e \in Continue(n), call' = [call EXCEPT ![p] = e], params' = params
      PROVE  Inv'
  <2>1. PICK d0 \in Contents \cup {<<>>} : c \in Call(d0)
    BY <1>2 DEF CallOK
  <2>2. c \in Call(d) /\ d = d0
    BY <2>1 DEF Call
  <2>3. ASSUME updates
        PROVE  \E b \in Contents : r.scheme \in Schemes /\ r.chunks \in [DOMAIN b -> Chunk]
    BY <1>2, <2>3, RecordFacts DEF Inv
  <2>4. /\ kept \subseteq DOMAIN d /\ DOMAIN d \subseteq Nat
        /\ \A i \in kept : r.chunks[i] \in Chunk
    BY <1>2, <2>3, ContentFacts DEF Reused
  <2>5. trim \in SUBSET Nat
    <3>1. ASSUME updates, NEW x \in Trimmed(r, d)
          PROVE  x \in Nat
      <4>1. PICK i \in DOMAIN r.chunks : x \in Region(r.chunks[i])
        BY <3>1 DEF Trimmed
      <4>2. r.chunks[i] \in Chunk
        BY <2>3, <3>1
      <4> QED
        BY <4>1, <4>2, RegionFacts
    <3> QED
      BY <3>1
  <2>6. done \in [DOMAIN d -> Maybe(Chunk)] /\ whole \in SUBSET Nat /\ sound \in BOOLEAN
        /\ DOMAIN d \ kept \in SUBSET Nat
    BY <2>4 DEF Maybe
  <2>7. /\ n \in Call(d) /\ n.file = f /\ n.data = d /\ n.scheme = params /\ n.over = c.over
        /\ n.todo = DOMAIN d \ kept /\ n.done = done /\ n.trim = trim /\ n.sound = sound
    <3> HIDE DEF kept, done, trim, whole, sound
    <3>1. /\ n.at = c.at /\ n.delta = c.delta /\ n.file = f /\ n.data = d /\ n.nonce = c.nonce
          /\ n.over = c.over /\ n.header = c.header /\ n.cur = c.cur /\ n.left = c.left
          /\ n.scheme = params /\ n.todo = DOMAIN d \ kept /\ n.done = done
          /\ n.trim = trim /\ n.whole = whole /\ n.sound = sound
      BY <2>2 DEF Call
    <3>2. n \in Call(d)
      BY <1>2, <2>2, <2>5, <2>6 DEF Call, Maybe
    <3> QED
      BY <3>1, <3>2
  <2>8. \A i \in DOMAIN d \ n.todo : i \in kept /\ n.done[i] = r.chunks[i] /\ n.done[i] \in Chunk
    BY <2>4, <2>7
  <2>9. Ready(n)
    BY <1>2, <2>4, <2>6, <2>7, <2>8 DEF Ready
  <2> HIDE DEF n
  <2>10. CallOK(e) /\ Progress(e) /\ Follows(n, e)
    BY <1>2, <1>4, <2>9, Continued
  <2>11. call'[p] = e
    BY <1>4 DEF Inv, TypeOK
  <2>12. ASSUME n.sound, updates
         PROVE  /\ \A i \in DOMAIN r.chunks :
                      /\ Placed(r.chunks[i], i, params)
                      /\ \A j \in Region(r.chunks[i]) : Shard(f, j, r.chunks[i]) \in held
                /\ \A i \in trim : i >= Base(Len(d) + 1, params)
    <3>1. f \notin spoilt \cup failed /\ r.scheme = params
      BY <2>7, <2>12
    <3>2. ~Busy(f)
      BY <1>1 DEF Inv, OneWriter, Busy, Writing
    <3>3. Aligned(r) /\ \A i \in DOMAIN r.chunks : Whole(f, r.chunks[i])
      BY <1>2, <2>12, <3>1, <3>2 DEF Inv, ReadsBack
    <3>4. ASSUME NEW x \in trim
          PROVE  x >= Base(Len(d) + 1, params)
      <4>1. PICK i \in DOMAIN r.chunks \ DOMAIN d : x \in Region(r.chunks[i])
        BY <2>12, <3>4 DEF Trimmed
      <4>2. PICK b \in Contents : r.chunks \in [DOMAIN b -> Chunk]
        BY <2>3, <2>12
      <4>3. i \in Nat \ {0} /\ Len(d) \in Nat /\ i > Len(d)
        BY <1>2, <4>1, <4>2, ContentFacts
      <4>4. r.chunks[i].base = Base(i, params) /\ r.chunks[i] \in Chunk
        BY <3>1, <3>3, <4>1, <4>2 DEF Aligned
      <4>5. x \in Nat /\ x >= Base(i, params)
        BY <4>1, <4>4, RegionFacts
      <4>6. Base(i, params) >= Base(Len(d) + 1, params)
        <5>1. CASE i = Len(d) + 1
          BY <5>1, <4>3, <1>2, BaseFacts
        <5>2. CASE i > Len(d) + 1
          <6>1. Base(Len(d) + 1, params) + Shards(params) <= Base(i, params)
            BY <1>2, <4>3, <5>2, BasesApart
          <6> QED
            BY <1>2, <4>3, <6>1, BaseFacts, SchemeFacts
        <5> QED
          BY <4>3, <5>1, <5>2
      <4> QED
        BY <1>2, <4>3, <4>5, <4>6, BaseFacts
    <3> QED
      BY <3>1, <3>3, <3>4 DEF Aligned, Placed, Whole
  <2>13. n.sound =>
            /\ n.file \notin failed' /\ params = n.scheme
            /\ \A i \in DOMAIN n.data \ n.todo :
                  /\ Placed(n.done[i], i, n.scheme)
                  /\ \A j \in Region(n.done[i]) : Shard(n.file, j, n.done[i]) \in held'
            /\ \A i \in n.trim : i >= Base(Len(n.data) + 1, n.scheme)
    <3>1. ~updates => kept = {} /\ trim = {}
      OBVIOUS
    <3>2. n.sound => f \notin failed
      BY <2>7
    <3>3. updates => kept \subseteq DOMAIN r.chunks
      BY DEF Reused
    <3> HIDE DEF kept, trim, updates, done, sound, whole
    <3> QED
      BY <1>1, <2>7, <2>8, <2>12, <3>1, <3>2, <3>3
  <2>14. Undisturbed(call[p])'
    BY <1>2, <1>4, <2>9, <2>11, <2>13, Onward
  <2>15. /\ DOMAIN call' = Procs /\ \A q \in Procs \ {p} : call'[q] = call[q]
         /\ \A q \in Procs : CallOK(call'[q])
         /\ CallInv'
    BY <1>1, <1>4, <2>10, <2>14, OneCall
  <2>16. e.at \in Writing /\ e.file = f /\ e.over = c.over
    BY <2>7, <2>10 DEF Follows
  <2>17. TypeOK'
    BY <1>1, <1>4, <2>15 DEF Inv, TypeOK
  <2>18. OwnInv'
    BY <1>4, <2>11, <2>15, <2>16, OwnStays DEF Inv, Writing
  <2>19. OneWriter'
    <3>1. \A q \in Procs : call'[q].at = "idle" \/ (call[q].at # "idle" /\ call'[q].file = call[q].file)
      BY <1>1, <2>11, <2>15, <2>16
    <3> QED
      BY <3>1, WritersStay DEF Inv
  <2>20. ReadsBack'
    <3>1. \A g \in Files : Busy(g) => Busy(g)'
      BY <1>1, <2>15 DEF Busy, Writing
    <3> QED
      BY <1>1, <3>1, RecordsStay DEF Inv
  <2> QED
    BY <2>15, <2>17, <2>18, <2>19, <2>20 DEF Inv
<1>5. CASE ~(f \in Contents /\ r # None)
  <2>1. \E e \in Continue(n) : call' = [call EXCEPT ![p] = e]
    BY <1>5 DEF Open
  <2>2. params' = params
    BY <1>5 DEF Open
  <2> QED
    BY <1>4, <2>1, <2>2
<1>6. CASE f \in Contents /\ r # None
  BY <1>3, <1>6 DEF Open
<1> QED
  BY <1>5, <1>6

LEMMA StoredFacts ==
    ASSUME NEW f, NEW i, NEW ch, held' = Stored(f, i, ch)
    PROVE  /\ \A h \in held : h.file # f => h \in held'
           /\ \A j, x : Shard(f, j, x) \in held /\ j # i => Shard(f, j, x) \in held'
           /\ \A h \in held' : h \in held \/ h = Shard(f, i, ch)
BY DEF Stored, Shard

LEMMA StoreShardKeeps ==
    ASSUME Inv, NEW p \in Procs, NEW i \in call[p].left, StoreShard(p, i)
    PROVE  Inv'
<1> DEFINE c == call[p]
           f == c.file
           d == c.data
           sound == c.sound /\ Shard(f, i, c.cur) \in held'
           left == c.left \ {i}
           now == [c EXCEPT !.left = left, !.sound = sound]
           last == [now EXCEPT !.done[c.cur.pos] = c.cur]
<1>1. /\ c.at = "write" /\ held' = Stored(f, i, c.cur)
      /\ UNCHANGED <<params, files, calls, faults, spoilt, failed>>
  BY DEF StoreShard
<1>2. /\ f \in Files /\ d \in Contents /\ CallOK(c) /\ params \in Schemes
      /\ c.scheme \in Schemes /\ c.done \in [DOMAIN d -> Maybe(Chunk)]
      /\ c.cur \in Chunk /\ c.left \subseteq Region(c.cur)
  BY <1>1 DEF Inv, TypeOK, CallOK, Writing
<1>3. /\ c.todo \subseteq DOMAIN d /\ c.cur.pos \in DOMAIN d \ c.todo
      /\ \A j \in DOMAIN d \ (c.todo \cup {c.cur.pos}) : c.done[j] \in Chunk
  BY <1>1 DEF Inv, CallInv, Progress, Done, Writing
<1>4. c \in Call(d)
  BY <1>2 DEF CallOK, Call
<1>5. /\ sound \in BOOLEAN /\ left \in SUBSET Nat /\ left \subseteq Region(c.cur)
  <2>1. c.sound \in BOOLEAN
    BY <1>4 DEF Call
  <2> QED
    BY <1>2, <2>1, RegionFacts
<1>6. /\ now \in Call(d) /\ now.at = "write" /\ now.file = f /\ now.data = d
      /\ now.over = c.over /\ now.scheme = c.scheme /\ now.todo = c.todo
      /\ now.done = c.done /\ now.trim = c.trim /\ now.cur = c.cur
      /\ now.left = left /\ now.sound = sound
  <2> HIDE DEF sound, left
  <2>1. now \in Call(d)
    BY <1>4, <1>5 DEF Call
  <2> QED
    BY <1>1, <1>4, <2>1 DEF Call
<1>7. ASSUME sound
      PROVE  /\ f \notin failed' /\ params = c.scheme
             /\ \A j \in DOMAIN d \ (c.todo \cup {c.cur.pos}) :
                   /\ Placed(c.done[j], j, c.scheme)
                   /\ \A l \in Region(c.done[j]) : Shard(f, l, c.done[j]) \in held'
             /\ Placed(c.cur, c.cur.pos, c.scheme)
             /\ \A l \in Region(c.cur) \ left : Shard(f, l, c.cur) \in held'
             /\ \A j \in c.trim : j >= Base(Len(d) + 1, c.scheme)
  <2>1. /\ f \notin failed' /\ params = c.scheme
        /\ \A j \in DOMAIN d \ (c.todo \cup {c.cur.pos}) :
              Placed(c.done[j], j, c.scheme) /\ Whole(f, c.done[j])
        /\ Placed(c.cur, c.cur.pos, c.scheme)
        /\ \A l \in Region(c.cur) \ c.left : Shard(f, l, c.cur) \in held
        /\ \A j \in c.trim : j >= Base(Len(d) + 1, c.scheme)
    BY <1>1, <1>7 DEF Inv, CallInv, Undisturbed, Done, Writing
  <2>2. \A j, x : Shard(f, j, x) \in held /\ j # i => Shard(f, j, x) \in held'
    BY <1>1, StoredFacts
  <2>3. ASSUME NEW j \in DOMAIN d \ (c.todo \cup {c.cur.pos}), NEW l \in Region(c.done[j])
        PROVE  Shard(f, l, c.done[j]) \in held'
    <3>1. j \in Nat \ {0} /\ c.cur.pos \in Nat \ {0} /\ j # c.cur.pos
      BY <1>2, <1>3, ContentFacts
    <3>2. Region(c.done[j]) \cap Region(c.cur) = {}
      BY <1>2, <1>3, <2>1, <3>1, RegionsApart
    <3>3. l # i /\ Shard(f, l, c.done[j]) \in held
      BY <1>2, <2>1, <3>2 DEF Whole
    <3> QED
      BY <2>2, <3>3
  <2>4. ASSUME NEW l \in Region(c.cur) \ left
        PROVE  Shard(f, l, c.cur) \in held'
    BY <1>7, <2>1, <2>2
  <2> QED
    BY <2>1, <2>3, <2>4
<1>8. ASSUME NEW e, CallOK(e), Progress(e), Undisturbed(call[p])',
             call' = [call EXCEPT ![p] = e], e.at \in Writing, e.file = f, e.over = c.over
      PROVE  Inv'
  <2>1. \A h \in held : h.file # f => h \in held'
    BY <1>1, StoredFacts
  <2>2. /\ DOMAIN call' = Procs /\ call'[p] = e /\ \A q \in Procs \ {p} : call'[q] = call[q]
        /\ \A q \in Procs : CallOK(call'[q])
        /\ CallInv'
    BY <1>1, <1>8, <2>1, OneCall
  <2>3. TypeOK'
    <3>1. i \in Nat
      BY <1>2, RegionFacts
    <3>2. \A h \in held' : h \in held \/ h = Shard(f, i, c.cur)
      BY <1>1, StoredFacts
    <3>3. \A h \in held' : h.file \in Files /\ h.index \in Nat /\ h.of \in Chunk
      BY <1>2, <3>1, <3>2 DEF Inv, TypeOK, Shard
    <3> QED
      BY <1>1, <2>2, <3>3 DEF Inv, TypeOK
  <2>4. OwnInv'
    BY <1>1, <1>8, <2>2, OwnStays DEF Inv, Writing
  <2>5. OneWriter'
    <3>1. \A q \in Procs : call'[q].at = "idle" \/ (call[q].at # "idle" /\ call'[q].file = call[q].file)
      BY <1>1, <1>8, <2>2
    <3> QED
      BY <3>1, WritersStay DEF Inv
  <2>6. ReadsBack'
    <3>1. \A g \in Files : Busy(g) => Busy(g)'
      BY <1>8, <2>2 DEF Busy
    <3>2. \A g \in Files, h \in held : ~Busy(g) /\ h.file = g => h \in held'
      BY <1>1, <2>1 DEF Busy, Writing
    <3> QED
      BY <1>1, <3>1, <3>2, RecordsStay DEF Inv
  <2> QED
    BY <2>2, <2>3, <2>4, <2>5, <2>6 DEF Inv
<1>9. CASE c.left = {i}
  <2>1. last \in Call(d) /\ last.file = f /\ last.data = d /\ last.over = c.over
        /\ last.scheme = c.scheme /\ last.todo = c.todo /\ last.trim = c.trim
        /\ last.sound = sound /\ last.done = [c.done EXCEPT ![c.cur.pos] = c.cur]
    <3>1. last = [now EXCEPT !.done = [now.done EXCEPT ![c.cur.pos] = c.cur]]
      OBVIOUS
    <3>2. [now.done EXCEPT ![c.cur.pos] = c.cur] \in [DOMAIN d -> Maybe(Chunk)]
      BY <1>2, <1>3, <1>6 DEF Maybe
    <3> DEFINE done == [now.done EXCEPT ![c.cur.pos] = c.cur]
    <3>3. done = [c.done EXCEPT ![c.cur.pos] = c.cur] /\ last = [now EXCEPT !.done = done]
      BY <1>6, <3>1
    <3> HIDE DEF done, last, now, sound
    <3>4. last \in Call(d)
      BY <1>6, <3>2, <3>3 DEF Call, done
    <3> QED
      BY <1>6, <3>3, <3>4 DEF Call
  <2>2. \A j \in DOMAIN d : last.done[j] = IF j = c.cur.pos THEN c.cur ELSE c.done[j]
    BY <1>2, <2>1
  <2>3. Ready(last)
    <3>1. last.done \in [DOMAIN d -> Maybe(Chunk)]
      BY <1>2, <1>3, <2>1 DEF Maybe
    <3>2. \A j \in DOMAIN d \ c.todo : last.done[j] \in Chunk
      BY <1>2, <1>3, <2>2
    <3> HIDE DEF last
    <3> QED
      BY <1>2, <1>3, <2>1, <3>1, <3>2 DEF Ready
  <2>4. \E e \in Continue(last) : call' = [call EXCEPT ![p] = e]
    BY <1>9 DEF StoreShard
  <2> HIDE DEF last
  <2>5. PICK e \in Continue(last) : call' = [call EXCEPT ![p] = e]
    BY <2>4
  <2>6. CallOK(e) /\ Progress(e) /\ Follows(last, e)
    BY <1>2, <2>3, Continued
  <2>7. call'[p] = e
    BY <2>5 DEF Inv, TypeOK
  <2>8. last.sound =>
            /\ last.file \notin failed' /\ params = last.scheme
            /\ \A j \in DOMAIN last.data \ last.todo :
                  /\ Placed(last.done[j], j, last.scheme)
                  /\ \A l \in Region(last.done[j]) : Shard(last.file, l, last.done[j]) \in held'
            /\ \A j \in last.trim : j >= Base(Len(last.data) + 1, last.scheme)
    <3>1. left = {}
      BY <1>9
    <3> HIDE DEF sound, left
    <3> QED
      BY <1>7, <2>1, <2>2, <3>1
  <2>9. Undisturbed(call[p])'
    BY <1>1, <1>2, <2>3, <2>7, <2>8, Onward
  <2> QED
    BY <1>8, <2>1, <2>5, <2>6, <2>9 DEF Follows
<1>10. CASE c.left # {i}
  <2>1. call' = [call EXCEPT ![p] = now]
    BY <1>10 DEF StoreShard
  <2> HIDE DEF now
  <2>2. CallOK(now)
    BY <1>2, <1>5, <1>6 DEF CallOK
  <2>3. Progress(now)
    BY <1>3, <1>6 DEF Progress, Done
  <2>4. call'[p] = now
    BY <2>1 DEF Inv, TypeOK
  <2>5. Undisturbed(call[p])'
    <3> HIDE DEF sound, left
    <3> QED
      BY <1>1, <1>6, <1>7, <2>4 DEF Undisturbed, Done, Whole
  <2>6. now.at \in Writing
    BY <1>6 DEF Writing
  <2> QED
    BY <1>6, <1>8, <2>1, <2>2, <2>3, <2>5, <2>6
<1> QED
  BY <1>9, <1>10

LEMMA TrimKeeps ==
    ASSUME Inv, NEW p \in Procs, Trim(p)
    PROVE  Inv'
<1> DEFINE c == call[p]
           f == c.file
           d == c.data
           e == [c EXCEPT !.at = "store", !.header = params]
<1>1. /\ c.at = "trim" /\ call' = [call EXCEPT ![p] = e]
      /\ UNCHANGED <<params, files, calls, faults, spoilt, failed>>
  BY DEF Trim, Inv, TypeOK
<1>2. PICK gone \in SUBSET c.trim : held' = {h \in held : h.file = f => h.index \notin gone}
  BY DEF Trim
<1>3. /\ f \in Files /\ d \in Contents /\ CallOK(c) /\ params \in Schemes
      /\ c.scheme \in Schemes /\ c.done \in [DOMAIN d -> Maybe(Chunk)]
  BY <1>1 DEF Inv, TypeOK, CallOK, Writing
<1>4. c.todo = {} /\ \A j \in DOMAIN d : c.done[j] \in Chunk
  BY <1>1 DEF Inv, CallInv, Progress, Done, Writing
<1>5. c \in Call(d)
  BY <1>3 DEF CallOK, Call
<1>6. /\ e \in Call(d) /\ e.at = "store" /\ e.file = f /\ e.data = d /\ e.over = c.over
      /\ e.scheme = c.scheme /\ e.header = params /\ e.todo = {} /\ e.done = c.done
      /\ e.sound = c.sound
  BY <1>3, <1>4, <1>5 DEF Call, Writing, Maybe
<1> HIDE DEF e
<1>7. CallOK(e)
  <2>1. e.done \in ChunksOf(e.data)
    BY <1>3, <1>4, <1>6 DEF ChunksOf
  <2> QED
    BY <1>3, <1>6, <2>1 DEF CallOK
<1>8. Progress(e)
  BY <1>4, <1>6 DEF Progress, Done
<1>9. call'[p] = e
  BY <1>1 DEF Inv, TypeOK
<1>10. Undisturbed(call[p])'
  <2>1. ASSUME c.sound
        PROVE  /\ f \notin failed' /\ params = c.scheme
               /\ \A j \in DOMAIN d :
                     /\ Placed(c.done[j], j, c.scheme)
                     /\ \A l \in Region(c.done[j]) : Shard(f, l, c.done[j]) \in held'
    <3>1. /\ f \notin failed' /\ params = c.scheme
          /\ \A j \in DOMAIN d : Placed(c.done[j], j, c.scheme) /\ Whole(f, c.done[j])
          /\ \A j \in c.trim : j >= Base(Len(d) + 1, c.scheme)
      BY <1>1, <1>4, <2>1 DEF Inv, CallInv, Undisturbed, Done, Writing
    <3>2. ASSUME NEW j \in DOMAIN d, NEW l \in Region(c.done[j])
          PROVE  Shard(f, l, c.done[j]) \in held'
      <4>1. j \in Nat \ {0} /\ Len(d) + 1 \in Nat \ {0} /\ j < Len(d) + 1
        BY <1>3, ContentFacts
      <4>2. /\ Base(j, c.scheme) + Shards(c.scheme) <= Base(Len(d) + 1, c.scheme)
            /\ Base(j, c.scheme) \in Nat /\ Base(Len(d) + 1, c.scheme) \in Nat
            /\ Shards(c.scheme) \in Nat
        BY <1>3, <4>1, BasesApart, BaseFacts, SchemeFacts
      <4>3. l \in Nat /\ l < Base(j, c.scheme) + Shards(c.scheme)
        BY <1>4, <3>1, RegionFacts DEF Placed
      <4>4. l \notin gone
        BY <3>1, <4>2, <4>3
      <4> QED
        BY <1>2, <3>1, <4>4 DEF Whole, Shard
    <3> QED
      BY <3>1, <3>2
  <2> QED
    BY <1>1, <1>6, <1>9, <2>1 DEF Undisturbed, Done, Whole
<1>11. \A h \in held : h.file # f => h \in held'
  BY <1>2
<1>12. /\ DOMAIN call' = Procs /\ \A q \in Procs \ {p} : call'[q] = call[q]
       /\ \A q \in Procs : CallOK(call'[q])
       /\ CallInv'
  BY <1>1, <1>7, <1>8, <1>10, <1>11, OneCall
<1>13. TypeOK'
  BY <1>1, <1>2, <1>12 DEF Inv, TypeOK
<1>14. OwnInv'
  BY <1>1, <1>6, <1>9, <1>12, OwnStays DEF Inv
<1>15. OneWriter'
  <2>1. \A q \in Procs : call'[q].at = "idle" \/ (call[q].at # "idle" /\ call'[q].file = call[q].file)
    BY <1>1, <1>6, <1>9, <1>12
  <2> QED
    BY <2>1, WritersStay DEF Inv
<1>16. ReadsBack'
  <2>1. \A g \in Files : Busy(g) => Busy(g)'
    BY <1>6, <1>9, <1>12 DEF Busy, Writing
  <2>2. \A g \in Files, h \in held : ~Busy(g) /\ h.file = g => h \in held'
    BY <1>1, <1>11 DEF Busy, Writing
  <2> QED
    BY <1>1, <2>1, <2>2, RecordsStay DEF Inv
<1> QED
  BY <1>12, <1>13, <1>14, <1>15, <1>16 DEF Inv

LEMMA StoreMetaKeeps ==
    ASSUME Inv, NEW p \in Procs, StoreMeta(p)
    PROVE  Inv'
<1> DEFINE c == call[p]
           f == c.file
           d == c.data
           e == [c EXCEPT !.at = "ack"]
           r == [scheme |-> c.header, chunks |-> c.done]
<1>1. /\ c.at = "store" /\ call' = [call EXCEPT ![p] = e]
      /\ files' = [files EXCEPT ![f] = r]
      /\ spoilt' = IF c.sound THEN spoilt \ {f} ELSE spoilt \cup {f}
      /\ UNCHANGED <<params, held, calls, faults, failed>>
  BY DEF StoreMeta, Inv, TypeOK
<1>2. /\ f \in Files /\ d \in Contents /\ CallOK(c) /\ r \in Records(d)
  BY <1>1 DEF Inv, TypeOK, CallOK, Records
<1>3. c.todo = {}
  BY <1>1 DEF Inv, CallInv, Progress, Writing
<1>4. c \in Call(d)
  BY <1>2 DEF CallOK, Call
<1>5. /\ e \in Call(d) /\ e.at = "ack" /\ e.file = f /\ e.data = d /\ e.over = c.over
      /\ e.scheme = c.scheme /\ e.header = c.header /\ e.done = c.done
  BY <1>4 DEF Call
<1>6. CallOK(e)
  BY <1>1, <1>2, <1>5 DEF CallOK, Writing
<1> HIDE DEF e
<1>7. call'[p] = e /\ Progress(e) /\ Undisturbed(call[p])'
  BY <1>1, <1>5 DEF Inv, TypeOK, Progress, Undisturbed, Writing
<1>8. /\ DOMAIN call' = Procs /\ \A q \in Procs \ {p} : call'[q] = call[q]
      /\ \A q \in Procs : CallOK(call'[q])
      /\ CallInv'
  BY <1>1, <1>6, <1>7, OneCall
<1>9. /\ DOMAIN files' = Files /\ files'[f] = r
      /\ \A g \in Files \ {f} : files'[g] = files[g]
  BY <1>1, <1>2 DEF Inv, TypeOK
<1>10. TypeOK'
  <2>1. \A g \in Files : files'[g] = None \/ \E b \in Contents : files'[g] \in Records(b)
    BY <1>2, <1>9 DEF Inv, TypeOK
  <2> QED
    BY <1>1, <1>2, <1>8, <1>9, <2>1 DEF Inv, TypeOK
<1>11. OwnInv'
  BY <1>1, <1>5, <1>7, <1>8, OwnStays DEF Inv
<1>12. OneWriter'
  <2>1. \A q \in Procs : call'[q].at = "idle" \/ (call[q].at # "idle" /\ call'[q].file = call[q].file)
    BY <1>1, <1>5, <1>7, <1>8
  <2> QED
    BY <2>1, WritersStay DEF Inv
<1>13. ASSUME c.sound
       PROVE  Aligned(r) /\ \A i \in DOMAIN r.chunks : Whole(f, r.chunks[i])
  <2>1. /\ c.header = c.scheme
        /\ \A i \in DOMAIN d : Placed(c.done[i], i, c.scheme) /\ Whole(f, c.done[i])
    BY <1>1, <1>3, <1>13 DEF Inv, CallInv, Undisturbed, Done, Writing
  <2>2. DOMAIN c.done = DOMAIN d
    BY <1>1, <1>2 DEF CallOK, ChunksOf
  <2> QED
    BY <2>1, <2>2 DEF Aligned, Placed
<1>14. ReadsBack'
  <2> SUFFICES ASSUME NEW g \in Files \ (spoilt' \cup failed'), files'[g] # None, ~Busy(g)'
               PROVE  /\ Aligned(files'[g])
                      /\ \A i \in DOMAIN files'[g].chunks : Whole(g, files[g].chunks[i])'
    BY DEF ReadsBack, Aligned
  <2>1. CASE g = f
    <3>1. c.sound
      BY <1>1, <2>1
    <3> QED
      BY <1>1, <1>9, <1>13, <2>1, <3>1 DEF Whole
  <2>2. CASE g # f
    <3>1. g \notin spoilt \cup failed /\ files'[g] = files[g]
      BY <1>1, <1>9, <2>2
    <3>2. ~Busy(g)
      BY <1>8, <2>2 DEF Busy
    <3> QED
      BY <1>1, <3>1, <3>2, StillReads DEF Inv
  <2> QED
    BY <2>1, <2>2
<1> QED
  BY <1>8, <1>10, <1>11, <1>12, <1>14 DEF Inv

LEMMA AnsweredKeeps ==
    ASSUME Inv, NEW p \in Procs, Answered(p)
    PROVE  Inv'
<1>1. End(p) /\ call[p].at \notin Writing /\ UNCHANGED <<files, held, calls, faults, spoilt, failed>>
  BY DEF Answered, Writing
<1>2. /\ params' \in Schemes /\ DOMAIN call' = Procs
      /\ \A q \in Procs : CallOK(call'[q])
      /\ OwnInv' /\ OneWriter' /\ CallInv' /\ ReadsBack'
  BY <1>1, Ended
<1> QED
  BY <1>1, <1>2 DEF Inv, TypeOK

LEMMA FailsKeeps ==
    ASSUME Inv, NEW p \in Procs, Fails(p)
    PROVE  Inv'
<1>1. /\ End(p) /\ failed' = failed \cup Unfinished({p})
      /\ UNCHANGED <<files, held, calls, spoilt>>
  BY DEF Fails
<1>2. faults' \in 0 .. MaxFaults
  BY AdaptiveAssumption DEF Fails, Inv, TypeOK
<1>3. /\ params' \in Schemes /\ DOMAIN call' = Procs
      /\ \A q \in Procs : CallOK(call'[q])
      /\ failed' \subseteq Files
      /\ OwnInv' /\ OneWriter' /\ CallInv' /\ ReadsBack'
  BY <1>1, Ended
<1> QED
  BY <1>1, <1>2, <1>3 DEF Inv, TypeOK

LEMMA RestartKeeps ==
    ASSUME Inv, Restart
    PROVE  Inv'
<1>1. /\ params' = Own /\ call' = [p \in Procs |-> Idle]
      /\ failed' = failed \cup Unfinished(Procs)
      /\ UNCHANGED <<files, held, calls, spoilt>>
  BY DEF Restart
<1>2. \A p \in Procs : call'[p] = Idle
  BY <1>1
<1>3. \A f \in Files : Busy(f) => f \in Unfinished(Procs)
  BY DEF Busy, Unfinished, Writing
<1>4. Unfinished(Procs) \subseteq Files
  BY DEF Unfinished, Inv, TypeOK, CallOK
<1>5. TypeOK'
  <2>1. faults' \in 0 .. MaxFaults
    BY AdaptiveAssumption DEF Restart, Inv, TypeOK
  <2>2. DOMAIN call' = Procs /\ params' \in Schemes
    BY <1>1, AdaptiveAssumption
  <2> QED
    BY <1>1, <1>2, <1>4, <2>1, <2>2, IdleFacts DEF Inv, TypeOK
<1>6. CallInv'
  BY <1>2, IdleFacts DEF CallInv, Progress, Undisturbed, Writing
<1>7. OwnInv'
  BY <1>1, <1>2, IdleFacts DEF OwnInv, Procs
<1>8. OneWriter'
  BY <1>2, IdleFacts DEF OneWriter, Procs
<1>9. ReadsBack'
  <2>1. \A f \in Files \ failed' : Busy(f) => Busy(f)'
    BY <1>1, <1>3
  <2> QED
    BY <1>1, <2>1, RecordsStay DEF Inv
<1> QED
  BY <1>5, <1>6, <1>7, <1>8, <1>9 DEF Inv

LEMMA InitInv == Init => Inv
<1> SUFFICES ASSUME Init
             PROVE  Inv
  OBVIOUS
<1>1. params = Own /\ \A p \in Procs : call[p] = Idle
  BY DEF Init
<1>2. TypeOK
  <2>1. calls \in 0 .. MaxCalls /\ faults \in 0 .. MaxFaults /\ params \in Schemes
    BY AdaptiveAssumption DEF Init
  <2> QED
    BY <1>1, <2>1, IdleFacts DEF Init, TypeOK
<1>3. CallInv
  BY <1>1, IdleFacts DEF CallInv, Undisturbed, Writing
<1>4. OwnInv /\ OneWriter
  BY <1>1, IdleFacts DEF OwnInv, OneWriter, Procs
<1>5. ReadsBack
  BY DEF Init, ReadsBack
<1> QED
  BY <1>2, <1>3, <1>4, <1>5 DEF Inv

LEMMA NextInv == Inv /\ [Next]_vars => Inv'
<1> SUFFICES ASSUME Inv, [Next]_vars
             PROVE  Inv'
  OBVIOUS
<1>1. CASE \E f \in Private, d \in Contents : put_adaptive(f, d) \/ put_delta(f, d)
  BY <1>1, BeginKeeps
<1>2. CASE \E r \in Requests, d \in Contents : put(r, d)
  BY <1>2, BeginKeeps
<1>3. CASE \E s \in Schemes : Override(s)
  BY <1>3, OverrideKeeps
<1>4. CASE \E p \in Procs : Open(p)
  BY <1>4, OpenKeeps
<1>5. CASE \E p \in Procs : \E i \in call[p].left : StoreShard(p, i)
  BY <1>5, StoreShardKeeps
<1>6. CASE \E p \in Procs : Trim(p)
  BY <1>6, TrimKeeps
<1>7. CASE \E p \in Procs : StoreMeta(p)
  BY <1>7, StoreMetaKeeps
<1>8. CASE \E p \in Procs : Answered(p)
  BY <1>8, AnsweredKeeps
<1>9. CASE \E p \in Procs : Fails(p)
  BY <1>9, FailsKeeps
<1>10. CASE Restart
  BY <1>10, RestartKeeps
<1>11. CASE UNCHANGED vars
  BY <1>11 DEF vars, Inv, TypeOK, OwnInv, OneWriter, CallInv, Progress, Undisturbed, Done,
               ReadsBack, Aligned, Whole, Busy
<1> QED
  BY <1>1, <1>2, <1>3, <1>4, <1>5, <1>6, <1>7, <1>8, <1>9, <1>10, <1>11 DEF Next

(* The invariant holds in every state.                                     *)
LEMMA InvAlways == Spec => []Inv
BY InitInv, NextInv, PTL DEF Spec

----------------------------------------------------------------------------
(* The variables keep their types: in particular no shard gets an index    *)
(* below 0, and every chunk of a stored record was uploaded by some call.  *)
THEOREM TypeCorrect == Spec => []TypeOK
<1>1. Inv => TypeOK
  BY DEF Inv
<1> QED
  BY <1>1, InvAlways, PTL

(* put, put_adaptive and put_delta leave files that can be read with the   *)
(* k and m of their records, for any k and m that are recommended, if the  *)
(* upload was not disturbed in one of the ways spoilt and failed name.     *)
THEOREM UploadsReadBack == Spec => []ReadsBack
<1>1. Inv => ReadsBack
  BY DEF Inv
<1> QED
  BY <1>1, InvAlways, PTL

(* put_adaptive always gives the client its own k and m back, failures and *)
(* restarts included.                                                      *)
THEOREM ClientGetsItsOwnBack == Spec => []OverrideEnds
<1>1. Inv => OverrideEnds
  BY DEF Inv, OwnInv, OverrideEnds, Procs
<1> QED
  BY <1>1, InvAlways, PTL

=============================================================================
