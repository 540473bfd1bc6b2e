------------------------ MODULE KnowledgeIndexProofs ------------------------
(***************************************************************************)
(* Proofs of CompletedIsIndexed and CompletedIsFinal, from the invariants  *)
(* of KnowledgePipelineProofs, then of ErrorMatchesStatus and of the       *)
(* refinement of KnowledgeBase (KnowledgeRefinement).                      *)
(***************************************************************************)
EXTENDS KnowledgePipelineProofs, KnowledgeRefinement

(***************************************************************************)
(* A quiet file is written by its own run alone.  Its chunks are always    *)
(* those of its own chatbot and document; past bulk_create they are all    *)
(* there, and the batches before next have their embeddings.               *)
(***************************************************************************)
Indexing == {"count", "nokey", "embed", "complete"}

RunInv(w, f) ==
    LET t == exec[w] IN
    /\ files[f] # NULL
    /\ t.inst.bot = files[f].bot
    /\ t.inst.doc = files[f].doc
    /\ t.inst.status # "completed"
    /\ t.step \in Indexing =>
          /\ {c.index : c \in ChunksOf(f)} = 0 .. NChunks[t.inst.doc] - 1
          /\ \A c \in ChunksOf(f) : c.by = w
    /\ t.step \in Indexing \ {"count"} => t.inst.count = NChunks[t.inst.doc]
    /\ t.step = "embed" => \A c \in ChunksOf(f) : c.index < t.next => c.emb
    /\ t.step = "complete" => \A c \in ChunksOf(f) : c.emb
    /\ t.step \in {"mark", "extract", "purge", "create", "count"} => t.next = 0

ChunkInv(f) ==
    \A c \in ChunksOf(f) :
        files[f] # NULL /\ c.bot = files[f].bot /\ c.doc = files[f].doc

Settled(f) == files[f] # NULL /\ files[f].status = "completed" => ~Attended(f)

CompleteInv(f) ==
    LET r == files[f] IN
    r # NULL /\ r.status = "completed" =>
        /\ r.count = NChunks[r.doc]
        /\ {c.index : c \in ChunksOf(f)} = 0 .. r.count - 1
        /\ \A c \in ChunksOf(f) : c.emb \/ r.error = "nokey"

QuietFile(f) ==
    /\ \A w \in Workers : Handling(w, f) => RunInv(w, f)
    /\ ChunkInv(f)
    /\ Settled(f)
    /\ CompleteInv(f)

QuietInv == \A f \in Quiet : QuietFile(f)

\* Only the files their owner may PATCH have a PATCH under way.
PatchInv == \A f \in Files \ Patchable : patch[f] = NULL

\* No step starts a PATCH on a file that its owner may not PATCH.
LEMMA PatchStep == TypeOK /\ PatchInv /\ [Next]_vars => PatchInv'
<1> SUFFICES ASSUME TypeOK, PatchInv, [Next]_vars PROVE PatchInv'
  OBVIOUS
<1>1. ASSUME NEW g \in Files, PatchRead(g)
      PROVE  PatchInv'
  BY <1>1 DEF PatchRead, PatchInv, TypeOK
<1>2. ASSUME NEW g \in Files, NEW b \in Bots, NEW d \in Docs, PatchSave(g, b, d)
      PROVE  PatchInv'
  BY <1>2 DEF PatchSave, PatchInv, TypeOK
<1>3. CASE patch' = patch
  BY <1>3 DEF PatchInv
<1>4. ASSUME Request
      PROVE  PatchInv'
  BY <1>1, <1>2, <1>3, <1>4
  DEF Request, Upload, UploadToBot, Create, SendTask, SendFails, DeleteFile, DeleteBot
<1>5. ASSUME NEW w \in Workers, Work(w) \/ Crash(w)
      PROVE  patch' = patch
  BY <1>5 DEF Work, Crash, Fetch, FetchFails, MarkProcessing, Extract, NoText,
         PurgeChunks, CreateChunks, SaveCount, CompleteWithoutKey, EmbedBatch, Complete,
         Raise, HandleException, HandlerFails, SaveInstance, apiUnchanged
<1> QED
  BY <1>3, <1>4, <1>5 DEF Next, vars

\* A step that leaves the row, the chunks and the runs of a file as they are.
LEMMA QuietFrame ==
  ASSUME NEW f \in Files, QuietFile(f), files'[f] = files[f], ChunksOf(f)' = ChunksOf(f),
         Attended(f)' => Attended(f),
         \A v \in Workers : Handling(v, f)' => Handling(v, f) /\ exec'[v] = exec[v]
  PROVE  QuietFile(f)'
<1>1. \A w \in Workers : Handling(w, f)' => RunInv(w, f)'
  BY DEF QuietFile, RunInv
<1>2. ChunkInv(f)'
  BY DEF QuietFile, ChunkInv
<1>3. Settled(f)'
  BY DEF QuietFile, Settled
<1>4. CompleteInv(f)'
  BY DEF QuietFile, CompleteInv
<1> QED
  BY <1>1, <1>2, <1>3, <1>4 DEF QuietFile

\* A request (upload, create, PATCH, DELETE) keeps the invariant of every
\* quiet file.
LEMMA RequestQuiet ==
  ASSUME TypeOK, PatchInv, Request, NEW f \in Quiet', f \in Quiet, OneRun(f), QuietFile(f)
  PROVE  QuietFile(f)'
<1>0. f \in Files /\ f \notin removed' /\ patch[f] = NULL
  BY DEF Quiet, PatchInv
<1>1. ASSUME NEW g \in Files, NEW b \in Bots, NEW d \in Docs,
             InsertFile(g, b, d), sending' \subseteq sending \cup {g},
             chunks' = chunks, queue' = queue, exec' = exec
      PROVE  QuietFile(f)'
  <2>1. NewRow(b, d).status = "pending"
    BY DEF NewRow
  <2>2. CASE f # g
    <3>1. files'[f] = files[f]
      BY <1>1, <2>2 DEF InsertFile, TypeOK
    <3> QED
      BY <1>0, <1>1, <2>2, <3>1, QuietFrame DEF ChunksOf, Attended, Handling
  <2>3. CASE f = g
    <3>1. files'[f].status = "pending" /\ files[f] = NULL /\ f \notin removed
      BY <1>0, <1>1, <2>1, <2>3 DEF InsertFile, TypeOK
    <3>2. ~Attended(f)
      BY <3>1 DEF OneRun, Fresh
    <3>3. \A w \in Workers : ~Handling(w, f)'
      BY <3>2, <1>1 DEF Attended, Handling
    <3>4. ChunksOf(f)' = {}
      BY <3>1, <1>1 DEF QuietFile, ChunkInv, ChunksOf
    <3> QED
      BY <3>1, <3>3, <3>4 DEF QuietFile, ChunkInv, Settled, CompleteInv
  <2> QED
    BY <2>2, <2>3
<1>2. ASSUME NEW g \in Files, NEW b \in Bots, NEW d \in Docs,
             Upload(g, b, d) \/ UploadToBot(g, b, d) \/ Create(g, b, d)
      PROVE  QuietFile(f)'
  BY <1>1, <1>2 DEF Upload, UploadToBot, Create
<1>3. ASSUME NEW g \in Files, NEW b \in Bots, NEW d \in Docs, PatchSave(g, b, d)
      PROVE  QuietFile(f)'
  <2>1. f # g
    BY <1>0, <1>3 DEF PatchSave
  <2>2. files'[f] = files[f]
    BY <1>3, <2>1 DEF PatchSave, Save, TypeOK
  <2> QED
    BY <1>0, <1>3, <2>2, QuietFrame DEF PatchSave, ChunksOf, Attended, Handling
<1>4. ASSUME NEW g \in Files, SendTask(g)
      PROVE  QuietFile(f)'
  <2>1. [file |-> g, retries |-> 0].file = g
    OBVIOUS
  <2>2. Attended(f)' => Attended(f)
    BY <1>4, <2>1 DEF SendTask, Attended
  <2> QED
    BY <1>0, <1>4, <2>2, QuietFrame DEF SendTask, ChunksOf, Handling
<1>5. ASSUME NEW g \in Files, SendFails(g)
      PROVE  QuietFile(f)'
  BY <1>0, <1>5, QuietFrame DEF SendFails, ChunksOf, Attended, Handling
<1>6. ASSUME NEW g \in Files, PatchRead(g)
      PROVE  QuietFile(f)'
  BY <1>0, <1>6, QuietFrame DEF PatchRead, ChunksOf, Attended, Handling
<1>7. ASSUME NEW g \in Files, DeleteFile(g)
      PROVE  QuietFile(f)'
  <2>1. f # g
    BY <1>0, <1>7 DEF DeleteFile
  <2>2. files'[f] = files[f] /\ ChunksOf(f)' = ChunksOf(f)
    BY <1>7, <2>1 DEF DeleteFile, ChunksOf, TypeOK
  <2> QED
    BY <1>0, <1>7, <2>2, QuietFrame DEF DeleteFile, Attended, Handling
<1>8. ASSUME NEW b \in Bots, DeleteBot(b)
      PROVE  QuietFile(f)'
  <2>1. ~(files[f] # NULL /\ files[f].bot = b)
    BY <1>0, <1>8 DEF DeleteBot
  <2>2. files'[f] = files[f]
    BY <1>0, <1>8, <2>1 DEF DeleteBot
  <2>3. \A c \in ChunksOf(f) : c.bot # b
    BY <2>1 DEF QuietFile, ChunkInv
  <2>4. ChunksOf(f)' = ChunksOf(f)
    BY <1>0, <1>8, <2>1, <2>3 DEF DeleteBot, ChunksOf
  <2> QED
    BY <1>0, <1>8, <2>2, <2>4, QuietFrame DEF DeleteBot, Attended, Handling
<1> QED
  BY <1>2, <1>3, <1>4, <1>5, <1>6, <1>7, <1>8 DEF Request

\* A delivery, and a step of a worker that is busy with another file.
LEMMA OtherQuiet ==
  ASSUME TypeOK, NEW w \in Workers, Work(w) \/ Crash(w),
         NEW f \in Files, f \notin Redeliverable, OneRun(f), QuietFile(f), ~Handling(w, f)
  PROVE  QuietFile(f)'
<1>0. ChunksOf(f)' = ChunksOf(f)
  BY OwnChunksOnly DEF Handling
<1>1. CASE exec[w] # NULL
  <2>1. OwnFileOnly(w) /\ f # exec[w].file
    BY <1>1, WorkShape DEF Handling
  <2>2. \A v \in Workers : v # w => exec'[v] = exec[v]
    BY <2>1 DEF OwnFileOnly, Ends, Continues, TypeOK
  <2>3. exec'[w] = NULL \/ exec'[w].file = exec[w].file
    BY <2>1 DEF OwnFileOnly, Ends, Continues, TypeOK
  <2>4. \A v \in Workers : Handling(v, f)' => Handling(v, f) /\ exec'[v] = exec[v]
    BY <2>1, <2>2, <2>3 DEF Handling
  <2>5. \A m \in queue' : m.file = f => m \in queue
    BY <2>1 DEF OwnFileOnly, Ends, Continues
  <2>6. files'[f] = files[f] /\ sending' = sending
    BY <2>1 DEF OwnFileOnly
  <2>7. Attended(f)' => Attended(f)
    BY <2>4, <2>5, <2>6 DEF Attended, Handling
  <2> QED
    BY <1>0, <2>4, <2>6, <2>7, QuietFrame
<1>2. CASE exec[w] = NULL
  <2>1. PICK m \in queue : Fetch(w, m) \/ FetchFails(w, m)
    BY <1>2 DEF Work, Crash, MarkProcessing, Extract, NoText, PurgeChunks, CreateChunks,
           SaveCount, CompleteWithoutKey, EmbedBatch, Complete, Raise, HandleException,
           HandlerFails, At
  <2>2. files' = files /\ sending' = sending
    BY <2>1 DEF Fetch, FetchFails, apiUnchanged
  <2>3. m \in Message /\ m.file \in Files /\ m.retries \in 0 .. MaxRetries
    BY DEF TypeOK, Message
  <2>4. CASE Fetch(w, m) /\ files[m.file] # NULL
    <3> DEFINE t == [file |-> m.file, retries |-> m.retries, step |-> "mark",
                     inst |-> files[m.file], next |-> 0]
    <3>1. t.file = m.file /\ t.step = "mark" /\ t.inst = files[m.file] /\ t.next = 0
      OBVIOUS
    <3>2. exec' = [exec EXCEPT ![w] = t] /\ queue' \subseteq queue
      BY <2>4 DEF Fetch
    <3> HIDE DEF t
    <3>3. exec'[w] = t /\ \A v \in Workers : v # w => exec'[v] = exec[v]
      BY <3>2 DEF TypeOK
    <3>4. CASE m.file # f
      <4>1. \A v \in Workers : Handling(v, f)' => Handling(v, f) /\ exec'[v] = exec[v]
        BY <3>1, <3>3, <3>4 DEF Handling
      <4> QED
        BY <1>0, <2>2, <3>2, <4>1, QuietFrame DEF Attended, Handling
    <3>5. CASE m.file = f
      <4>1. \A v \in Workers : ~Handling(v, f)
        BY <3>5 DEF OneRun, Single
      <4>2. \A v \in Workers : Handling(v, f)' => v = w
        BY <4>1, <3>3 DEF Handling
      <4>3. files[f].status # "completed"
        BY <2>4, <3>5 DEF QuietFile, Settled, Attended
      <4>4. RunInv(w, f)'
        BY <2>2, <2>4, <3>1, <3>3, <3>5, <4>3 DEF RunInv, Indexing
      <4> QED
        BY <1>0, <2>2, <4>2, <4>3, <4>4
        DEF QuietFile, ChunkInv, Settled, CompleteInv
    <3> QED
      BY <3>4, <3>5
  <2>5. CASE Fetch(w, m) /\ files[m.file] = NULL
    <3>1. exec' = exec /\ queue' \subseteq queue
      BY <2>5 DEF Fetch
    <3> QED
      BY <1>0, <2>2, <3>1, QuietFrame DEF Attended, Handling
  <2>6. CASE FetchFails(w, m)
    <3> DEFINE n == [file |-> m.file, retries |-> m.retries + 1]
    <3>1. n.file = m.file
      OBVIOUS
    <3>2. exec' = exec /\ queue' \subseteq queue \cup {n}
      BY <2>6 DEF FetchFails
    <3> HIDE DEF n
    <3>3. Attended(f)' => Attended(f)
      BY <2>2, <3>1, <3>2 DEF Attended
    <3> QED
      BY <1>0, <2>2, <3>2, <3>3, QuietFrame DEF Handling
  <2> QED
    BY <2>1, <2>4, <2>5, <2>6
<1> QED
  BY <1>1, <1>2

\* A step of the file's own run that does not complete it: the run's invariant
\* and the chunks are all there is to show.
LEMMA BusyQuiet ==
  ASSUME TypeOK, NEW w \in Workers, NEW f \in Files, Handling(w, f), OneRun(f),
         OwnFileOnly(w), files'[f] # NULL, files'[f].status # "completed",
         exec'[w] # NULL => RunInv(w, f)', ChunkInv(f)'
  PROVE  QuietFile(f)'
<1>1. \A v \in Workers : v # w => exec'[v] = exec[v]
  BY DEF OwnFileOnly, Ends, Continues, TypeOK
<1>2. \A v \in Workers : Handling(v, f)' => v = w
  BY <1>1 DEF OneRun, Single, Handling
<1> QED
  BY <1>2 DEF QuietFile, Settled, CompleteInv, Handling

\* The run ends with the file completed: nobody is left who attends to it.
LEMMA CompleteQuiet ==
  ASSUME TypeOK, NEW w \in Workers, NEW f \in Files, Handling(w, f), OneRun(f),
         Ends(w), queue' = queue, sending' = sending, ChunkInv(f)', CompleteInv(f)'
  PROVE  QuietFile(f)'
<1>1. exec'[w] = NULL /\ \A v \in Workers : v # w => exec'[v] = exec[v]
  BY DEF Ends, TypeOK
<1>2. \A v \in Workers : ~Handling(v, f)'
  BY <1>1 DEF OneRun, Single, Handling
<1>3. ~Attended(f)'
  BY <1>2 DEF OneRun, Single, Attended, Handling
<1> QED
  BY <1>2, <1>3 DEF QuietFile, Settled

\* save() of the run's object with the row's chatbot and document keeps the
\* chunks in agreement with the row.
LEMMA SaveKeepsChunks ==
  ASSUME TypeOK, NEW w \in Workers, NEW f \in Files, Handling(w, f), QuietFile(f),
         NEW inst \in Row, NEW next \in Step \cup {"return"}, SaveInstance(w, inst, next),
         inst.bot = exec[w].inst.bot, inst.doc = exec[w].inst.doc
  PROVE  /\ OwnFileOnly(w) /\ files'[f] = inst /\ inst # NULL
         /\ ChunksOf(f)' = ChunksOf(f) /\ ChunkInv(f)'
<1>1. exec[w] # NULL /\ exec[w].file = f /\ RunInv(w, f)
  BY DEF Handling, QuietFile
<1>2. OwnFileOnly(w) /\ files'[f] = inst /\ chunks' = chunks
  BY <1>1, SaveInstanceShape
<1>3. ChunksOf(f)' = ChunksOf(f) /\ inst # NULL
  BY <1>2, NullIsNothing DEF ChunksOf
<1>4. ChunkInv(f)'
  BY <1>1, <1>2, <1>3 DEF QuietFile, ChunkInv, RunInv
<1> QED
  BY <1>2, <1>3, <1>4

\* The steps of the file's own run, one by one.
LEMMA OwnQuiet ==
  ASSUME TypeOK, NEW w \in Workers, Work(w) \/ Crash(w),
         NEW f \in Files, OneRun(f), QuietFile(f), Handling(w, f)
  PROVE  QuietFile(f)'
<1>1. exec[w] # NULL /\ exec[w].file = f /\ RunInv(w, f) /\ OwnFileOnly(w)
  BY WorkShape DEF Handling, QuietFile
<1>2. /\ exec[w] \in Task /\ exec[w].inst \in Row /\ exec[w].next \in Nat
      /\ NChunks[exec[w].inst.doc] \in Nat /\ exec[w].step \in Step
  BY <1>1, ExecTypes
<1>3. files[f] # NULL /\ files[f].status # "completed" /\ ChunkInv(f)
  BY <1>1 DEF RunInv, QuietFile, Settled, Attended
<1>4. ASSUME files' = files, ChunksOf(f)' = ChunksOf(f), exec'[w] # NULL => RunInv(w, f)'
      PROVE  QuietFile(f)'
  BY <1>1, <1>3, <1>4, BusyQuiet DEF ChunkInv
<1>save. ASSUME NEW inst \in Row, NEW next \in Step \cup {"return"},
              SaveInstance(w, inst, next),
              inst.bot = exec[w].inst.bot, inst.doc = exec[w].inst.doc
       PROVE  /\ files'[f] = inst /\ inst # NULL
              /\ ChunksOf(f)' = ChunksOf(f) /\ ChunkInv(f)'
              /\ next = "return" => Ends(w) /\ exec'[w] = NULL
              /\ next # "return" => exec'[w] = [exec[w] EXCEPT !.inst = inst, !.step = next]
  <2>1. /\ files'[f] = inst /\ inst # NULL
        /\ ChunksOf(f)' = ChunksOf(f) /\ ChunkInv(f)'
    BY <1>save, SaveKeepsChunks
  <2>2. CASE next = "return"
    <3>1. Ends(w)
      BY <1>1, <1>save, <2>2, SaveInstanceShape
    <3> QED
      BY <2>1, <2>2, <3>1 DEF Ends, TypeOK
  <2>3. CASE next # "return"
    <3>1. exec'[w] = [exec[w] EXCEPT !.inst = inst, !.step = next]
      BY <1>save, <2>3 DEF SaveInstance, TypeOK
    <3> QED
      BY <2>1, <2>3, <3>1
  <2> QED
    BY <2>2, <2>3
<1>5. CASE MarkProcessing(w)
  <2> DEFINE r == Marked(exec[w].inst)
             t == [exec[w] EXCEPT !.inst = r, !.step = "extract"]
  <2>1. /\ r \in Row /\ r.bot = exec[w].inst.bot /\ r.doc = exec[w].inst.doc
        /\ r.status = "processing"
    BY <1>2, Names DEF Marked, Row
  <2>2. SaveInstance(w, r, "extract") /\ exec[w].step = "mark"
    BY <1>5 DEF MarkProcessing, At
  <2> HIDE DEF r
  <2>3. /\ files'[f] = r /\ r # NULL /\ ChunkInv(f)' /\ exec'[w] = t
    <3>1. "extract" \in Step \cup {"return"} /\ "extract" # "return"
      BY Names
    <3> QED
      BY <2>1, <2>2, <3>1, <1>save
  <2>4. t.step = "extract" /\ t.inst = r /\ t.next = exec[w].next
    BY <1>2 DEF Task
  <2> HIDE DEF t
  <2>5. RunInv(w, f)'
    BY <1>1, <2>1, <2>2, <2>3, <2>4 DEF RunInv, Indexing
  <2> QED
    BY <1>1, <2>1, <2>3, <2>5, BusyQuiet
<1>6. CASE Extract(w)
  <2> DEFINE s == IF exec[w].inst.doc \in disk /\ NChunks[exec[w].inst.doc] > 0
                  THEN "purge" ELSE "empty"
             t == [exec[w] EXCEPT !.step = s]
  <2>1. GoTo(w, s) /\ files' = files /\ chunks' = chunks /\ exec[w].step = "extract"
        /\ s \in Step /\ s \in {"purge", "empty"}
    BY <1>6, Names DEF Extract, At
  <2> HIDE DEF s
  <2>2. exec'[w] = t
    BY <2>1 DEF GoTo, TypeOK
  <2>3. t.step = s /\ t.inst = exec[w].inst /\ t.next = exec[w].next
    BY <1>2 DEF Task
  <2> HIDE DEF t
  <2>4. RunInv(w, f)'
    BY <1>1, <2>1, <2>2, <2>3 DEF RunInv, Indexing
  <2> QED
    BY <1>4, <2>1, <2>4 DEF ChunksOf
<1>7. CASE NoText(w)
  <2> DEFINE r == [exec[w].inst EXCEPT !.status = "failed", !.error = "notext"]
  <2>1. /\ r \in Row /\ r.bot = exec[w].inst.bot /\ r.doc = exec[w].inst.doc
        /\ r.status = "failed"
    BY <1>2, Names DEF Row
  <2>2. SaveInstance(w, r, "return")
    BY <1>7 DEF NoText
  <2> HIDE DEF r
  <2>3. files'[f] = r /\ ChunkInv(f)' /\ Ends(w)
    BY <2>1, <2>2, <1>save
  <2>4. r # NULL /\ exec'[w] = NULL
    BY <2>1, <2>3, NullIsNothing DEF Ends, TypeOK
  <2> QED
    BY <1>1, <2>1, <2>3, <2>4, BusyQuiet
<1>8. CASE PurgeChunks(w)
  <2> DEFINE t == [exec[w] EXCEPT !.step = "create"]
  <2>1. /\ GoTo(w, "create") /\ files' = files /\ exec[w].step = "purge"
        /\ ChunksOf(f)' = {}
    BY <1>1, <1>8 DEF PurgeChunks, At, ChunksOf
  <2>2. exec'[w] = t
    BY <2>1 DEF GoTo, TypeOK
  <2>3. t.step = "create" /\ t.inst = exec[w].inst /\ t.next = exec[w].next
    BY <1>2 DEF Task
  <2> HIDE DEF t
  <2>4. RunInv(w, f)'
    BY <1>1, <2>1, <2>2, <2>3 DEF RunInv, Indexing
  <2>5. ChunkInv(f)'
    BY <2>1 DEF ChunkInv
  <2> QED
    BY <1>1, <1>3, <2>1, <2>4, <2>5, BusyQuiet
<1>9. CASE CreateChunks(w)
  <2> DEFINE t == [exec[w] EXCEPT !.step = "count"]
             new(i) == [kf |-> f, index |-> i, by |-> w, bot |-> exec[w].inst.bot,
                        doc |-> exec[w].inst.doc, emb |-> FALSE]
             N == NChunks[exec[w].inst.doc]
  <2>1. /\ GoTo(w, "count") /\ files' = files /\ exec[w].step = "create"
        /\ chunks' = chunks \cup {new(i) : i \in 0 .. N - 1}
    BY <1>1, <1>9 DEF CreateChunks, At
  <2>2. ChunksOf(f) = {}
    BY <1>1, <2>1 DEF OneRun, Wiped, Handling
  <2>3. \A i : /\ new(i).kf = f /\ new(i).index = i /\ new(i).by = w
               /\ new(i).bot = exec[w].inst.bot /\ new(i).doc = exec[w].inst.doc
    OBVIOUS
  <2> HIDE DEF new
  <2>4. ChunksOf(f)' = {new(i) : i \in 0 .. N - 1}
    BY <2>1, <2>2, <2>3 DEF ChunksOf
  <2>5. {c.index : c \in ChunksOf(f)'} = 0 .. N - 1
    BY <2>3, <2>4
  <2>6. exec'[w] = t
    BY <2>1 DEF GoTo, TypeOK
  <2>7. t.step = "count" /\ t.inst = exec[w].inst /\ t.next = exec[w].next
    BY <1>2 DEF Task
  <2> HIDE DEF t
  <2>8. RunInv(w, f)'
    BY <1>1, <2>1, <2>3, <2>4, <2>5, <2>6, <2>7 DEF RunInv, Indexing
  <2>9. ChunkInv(f)'
    BY <1>1, <2>1, <2>3, <2>4 DEF ChunkInv, RunInv
  <2> QED
    BY <1>1, <1>3, <2>1, <2>8, <2>9, BusyQuiet
<1>10. CASE SaveCount(w)
  <2> DEFINE r == [exec[w].inst EXCEPT !.count = NChunks[exec[w].inst.doc]]
             s == IF w \in Keyed THEN "embed" ELSE "nokey"
             t == [exec[w] EXCEPT !.inst = r, !.step = s]
  <2>1. /\ r \in Row /\ r.bot = exec[w].inst.bot /\ r.doc = exec[w].inst.doc
        /\ r.status = exec[w].inst.status /\ r.count = NChunks[exec[w].inst.doc]
    BY <1>2 DEF Row
  <2>2. SaveInstance(w, r, s) /\ exec[w].step = "count" /\ s \in {"embed", "nokey"}
    BY <1>10 DEF SaveCount, At
  <2> HIDE DEF r, s
  <2>3. /\ files'[f] = r /\ r # NULL /\ ChunkInv(f)' /\ exec'[w] = t
        /\ ChunksOf(f)' = ChunksOf(f)
    <3>1. s \in Step \cup {"return"} /\ s # "return"
      BY <2>2, Names
    <3> QED
      BY <2>1, <2>2, <3>1, <1>save
  <2>4. t.step = s /\ t.inst = r /\ t.next = exec[w].next
    BY <1>2 DEF Task
  <2> HIDE DEF t
  <2>5. \A c \in ChunksOf(f) : ~(c.index < 0)
    BY DEF ChunksOf, TypeOK, Chunk
  <2>6. RunInv(w, f)'
    BY <1>1, <2>1, <2>2, <2>3, <2>4, <2>5 DEF RunInv, Indexing
  <2>7. r.status # "completed"
    BY <1>1, <2>1, <2>2 DEF RunInv
  <2> QED
    BY <1>1, <2>3, <2>6, <2>7, BusyQuiet
<1>11. CASE CompleteWithoutKey(w)
  <2> DEFINE r == [exec[w].inst EXCEPT !.status = "completed", !.error = "nokey"]
  <2>1. /\ r \in Row /\ r.bot = exec[w].inst.bot /\ r.doc = exec[w].inst.doc
        /\ r.error = "nokey" /\ r.count = exec[w].inst.count
    BY <1>2, Names DEF Row
  <2>2. SaveInstance(w, r, "return") /\ exec[w].step = "nokey"
    BY <1>11 DEF CompleteWithoutKey, At
  <2> HIDE DEF r
  <2>3. /\ files'[f] = r /\ ChunkInv(f)' /\ Ends(w) /\ ChunksOf(f)' = ChunksOf(f)
    BY <2>1, <2>2, <1>save
  <2>4. CompleteInv(f)'
    BY <1>1, <2>1, <2>2, <2>3 DEF CompleteInv, RunInv, Indexing
  <2> QED
    BY <2>2, <2>3, <2>4, CompleteQuiet DEF SaveInstance, apiUnchanged
<1>12. CASE EmbedBatch(w)
  <2> DEFINE mine(c) == /\ c.kf = f /\ c.by = w
                        /\ c.index \in exec[w].next .. exec[w].next + BatchSize - 1
             new(c) == IF mine(c) THEN [c EXCEPT !.emb = TRUE] ELSE c
             N == NChunks[exec[w].inst.doc]
  <2>1. /\ chunks' = {new(c) : c \in chunks} /\ files' = files /\ exec[w].step = "embed"
    BY <1>1, <1>12 DEF EmbedBatch, At
  <2>2. \A c \in chunks : /\ new(c).kf = c.kf /\ new(c).index = c.index /\ new(c).by = c.by
                          /\ new(c).bot = c.bot /\ new(c).doc = c.doc
                          /\ c.emb => new(c).emb
                          /\ mine(c) => new(c).emb
    BY DEF TypeOK, Chunk
  <2> HIDE DEF new
  <2>3. ChunksOf(f)' = {new(c) : c \in ChunksOf(f)} /\ ChunksOf(f) \subseteq chunks
    BY <2>1, <2>2 DEF ChunksOf
  <2>4. {c.index : c \in ChunksOf(f)'} = {c.index : c \in ChunksOf(f)}
    BY <2>2, <2>3
  <2>5. ChunkInv(f)'
    BY <1>3, <2>1, <2>2, <2>3 DEF ChunkInv
  <2>6. PICK t \in Task : /\ Continues(w, t) /\ t.inst = exec[w].inst
                          /\ t.next = exec[w].next + BatchSize
                          /\ t.step = IF t.next < N THEN "embed" ELSE "complete"
    BY <1>12, EmbedShape
  <2>7. exec'[w] = t
    BY <2>6 DEF Continues, TypeOK
  <2>8. \A c \in ChunksOf(f)' : c.index < t.next => c.emb
    <3> SUFFICES ASSUME NEW c \in ChunksOf(f), new(c).index < t.next
                 PROVE  new(c).emb
      BY <2>3
    <3>1. c \in chunks /\ c.kf = f /\ c.index \in Nat /\ c.by = w
      BY <1>1, <2>1 DEF ChunksOf, TypeOK, Chunk, RunInv, Indexing
    <3>2. CASE c.index < exec[w].next
      BY <3>1, <3>2, <2>1, <2>2, <1>1 DEF RunInv
    <3>3. CASE ~(c.index < exec[w].next)
      <4>1. mine(c)
        BY <3>1, <3>3, <2>2, <2>6, <1>2, KnowledgeConstants
      <4> QED
        BY <3>1, <4>1, <2>2
    <3> QED
      BY <3>2, <3>3
  <2>9. \A c \in ChunksOf(f)' : c.index \in 0 .. N - 1 /\ c.by = w
    BY <1>1, <2>1, <2>2, <2>3, <2>4 DEF RunInv, Indexing
  <2>10. t.step = "complete" => \A c \in ChunksOf(f)' : c.emb
    <3> SUFFICES ASSUME t.step = "complete", NEW c \in ChunksOf(f)' PROVE c.emb
      OBVIOUS
    <3>1. ~(t.next < N) /\ t.next \in Nat /\ N \in Nat
      BY <1>2, <2>6, KnowledgeConstants
    <3>2. c.index \in 0 .. N - 1
      BY <2>9
    <3>3. c.index < t.next
      BY <3>1, <3>2
    <3> QED
      BY <3>3, <2>8
  <2>11. RunInv(w, f)'
    BY <1>1, <2>1, <2>4, <2>6, <2>7, <2>8, <2>9, <2>10 DEF RunInv, Indexing
  <2> QED
    BY <1>1, <1>3, <2>1, <2>5, <2>11, BusyQuiet
<1>13. CASE Complete(w)
  <2> DEFINE r == [exec[w].inst EXCEPT !.status = "completed"]
  <2>1. /\ r \in Row /\ r.bot = exec[w].inst.bot /\ r.doc = exec[w].inst.doc
        /\ r.count = exec[w].inst.count
    BY <1>2, Names DEF Row
  <2>2. SaveInstance(w, r, "return") /\ exec[w].step = "complete"
    BY <1>13 DEF Complete, At
  <2> HIDE DEF r
  <2>3. /\ files'[f] = r /\ ChunkInv(f)' /\ Ends(w) /\ ChunksOf(f)' = ChunksOf(f)
    BY <2>1, <2>2, <1>save
  <2>4. CompleteInv(f)'
    BY <1>1, <2>1, <2>2, <2>3 DEF CompleteInv, RunInv, Indexing
  <2> QED
    BY <2>2, <2>3, <2>4, CompleteQuiet DEF SaveInstance, apiUnchanged
<1>14. CASE Raise(w)
  <2>1. PICK t \in Task : /\ Continues(w, t) /\ t.step = "except"
                          /\ t.inst.bot = exec[w].inst.bot
                          /\ t.inst.doc = exec[w].inst.doc
                          /\ t.inst.status = exec[w].inst.status
    BY <1>14, RaiseShape
  <2>2. exec'[w] = t /\ files' = files /\ chunks' = chunks
    BY <1>14, <2>1 DEF Continues, TypeOK, Raise
  <2>3. RunInv(w, f)'
    BY <1>1, <2>1, <2>2 DEF RunInv, Indexing
  <2> QED
    BY <1>4, <2>2, <2>3 DEF ChunksOf
<1>15. CASE HandleException(w)
  <2> DEFINE r == [exec[w].inst EXCEPT !.status = "failed", !.error = "exception"]
  <2>1. /\ r \in Row /\ r.bot = exec[w].inst.bot /\ r.doc = exec[w].inst.doc
        /\ r.status = "failed"
    BY <1>2, Names DEF Row
  <2>2. files' = [files EXCEPT ![f] = r] /\ chunks' = chunks
    BY <1>1, <1>15 DEF HandleException, Save
  <2> HIDE DEF r
  <2>3. files'[f] = r /\ r # NULL /\ ChunksOf(f)' = ChunksOf(f)
    BY <2>1, <2>2, NullIsNothing DEF TypeOK, ChunksOf
  <2>4. ChunkInv(f)'
    BY <1>1, <1>3, <2>1, <2>3 DEF ChunkInv, RunInv
  <2>5. exec'[w] = NULL
    BY <1>15 DEF HandleException, RaiseOut, TypeOK
  <2> QED
    BY <1>1, <2>1, <2>3, <2>4, <2>5, BusyQuiet
<1>16. CASE HandlerFails(w)
  BY <1>4, <1>16 DEF HandlerFails, RaiseOut, TypeOK, ChunksOf
<1>17. CASE Crash(w)
  BY <1>4, <1>17 DEF Crash, TypeOK, ChunksOf
<1> QED
  BY <1>1, <1>5, <1>6, <1>7, <1>8, <1>9, <1>10, <1>11, <1>12, <1>13, <1>14, <1>15,
     <1>16, <1>17 DEF Work, Fetch, FetchFails

-----------------------------------------------------------------------------
\* removed only grows: it is a history variable.
LEMMA RemovedGrows == Next => removed \subseteq removed'
<1>1. Request => removed \subseteq removed'
  BY DEF Request, Upload, UploadToBot, Create, PatchSave, SendTask, SendFails,
         PatchRead, DeleteFile, DeleteBot
<1>2. \A w \in Workers : Work(w) \/ Crash(w) => removed' = removed
  BY DEF Work, Crash, Fetch, FetchFails, MarkProcessing, Extract, NoText, PurgeChunks,
         CreateChunks, SaveCount, CompleteWithoutKey, EmbedBatch, Complete, Raise,
         HandleException, HandlerFails, SaveInstance, apiUnchanged
<1> QED
  BY <1>1, <1>2 DEF Next

\* Everything the steps need at once.
IndexInv == TypeOK /\ OneRunInv /\ PatchInv /\ QuietInv

\* The invariant of the files nobody patches, deletes or delivers twice.
THEOREM KnowledgeIndexInvariant == Spec => []IndexInv
<1>1. Init => PatchInv /\ QuietInv
  BY DEF Init, PatchInv, QuietInv, Quiet, QuietFile, ChunkInv, Settled, CompleteInv,
         Handling, ChunksOf
<1>2. TypeOK /\ OneRunInv /\ PatchInv /\ QuietInv /\ Next => QuietInv'
  <2> SUFFICES ASSUME TypeOK, OneRunInv, PatchInv, QuietInv, Next, NEW f \in Quiet'
               PROVE  QuietFile(f)'
    BY DEF QuietInv
  <2>1. f \in Quiet /\ f \in Files /\ f \notin Redeliverable
    BY RemovedGrows DEF Quiet
  <2>2. OneRun(f) /\ QuietFile(f)
    BY <2>1 DEF OneRunInv, QuietInv
  <2>3. ASSUME NEW w \in Workers, Work(w) \/ Crash(w)
        PROVE  QuietFile(f)'
    BY <2>1, <2>2, <2>3, OwnQuiet, OtherQuiet
  <2> QED
    BY <2>1, <2>2, <2>3, RequestQuiet DEF Next
<1>3. QuietInv /\ UNCHANGED vars => QuietInv'
  BY DEF QuietInv, Quiet, QuietFile, RunInv, ChunkInv, Settled, CompleteInv, Attended,
         Handling, ChunksOf, vars
<1> QED
  BY <1>1, <1>2, <1>3, PatchStep, KnowledgeTypes, KnowledgeOneRun, PTL DEF Spec, IndexInv

\* A completed file that nobody patches, deletes or delivers twice has exactly
\* the chunks of its document, counted, under its chatbot, and embedded.
THEOREM KnowledgeCompletedIsIndexed == Spec => []CompletedIsIndexed
<1>1. QuietInv => CompletedIsIndexed
  BY DEF QuietInv, QuietFile, ChunkInv, CompleteInv, CompletedIsIndexed
<1> QED
  BY <1>1, KnowledgeIndexInvariant, PTL DEF IndexInv

\* No retry, late message or other file's run changes a completed file.
THEOREM KnowledgeCompletedIsFinal == Spec => CompletedIsFinal
<1> DEFINE Keeps == \A f \in Quiet :
                       files[f] # NULL /\ files[f].status = "completed"
                       => files'[f] \in {files[f], NULL}
<1>1. IndexInv /\ [Next]_vars => [Keeps]_vars
  <2> SUFFICES ASSUME IndexInv, Next, NEW f \in Quiet, files[f] # NULL,
                      files[f].status = "completed"
               PROVE  files'[f] \in {files[f], NULL}
    OBVIOUS
  <2>1. /\ TypeOK /\ f \in Files /\ patch[f] = NULL
        /\ \A w \in Workers : ~Handling(w, f)
    BY DEF IndexInv, Quiet, PatchInv, QuietInv, QuietFile, Settled, Attended, Handling
  <2>2. CASE Request
    <3>1. ASSUME NEW g \in Files, NEW b \in Bots, NEW d \in Docs,
                 InsertFile(g, b, d) \/ PatchSave(g, b, d)
          PROVE  files'[f] = files[f]
      BY <2>1, <3>1 DEF InsertFile, PatchSave, Save, TypeOK
    <3>2. ASSUME NEW g \in Files, SendTask(g) \/ SendFails(g) \/ PatchRead(g)
          PROVE  files'[f] = files[f]
      BY <3>2 DEF SendTask, SendFails, PatchRead
    <3>3. ASSUME NEW g \in Files, DeleteFile(g)
          PROVE  files'[f] \in {files[f], NULL}
      BY <2>1, <3>3 DEF DeleteFile, TypeOK
    <3>4. ASSUME NEW b \in Bots, DeleteBot(b)
          PROVE  files'[f] \in {files[f], NULL}
      BY <2>1, <3>4 DEF DeleteBot
    <3> QED
      BY <2>2, <3>1, <3>2, <3>3, <3>4 DEF Request, Upload, UploadToBot, Create
  <2>3. ASSUME NEW w \in Workers, Work(w) \/ Crash(w)
        PROVE  files'[f] = files[f]
    <3>1. CASE exec[w] # NULL
      BY <2>1, <2>3, <3>1, WorkShape DEF OwnFileOnly, Handling
    <3>2. CASE exec[w] = NULL
      BY <2>3, <3>2 DEF Work, Crash, Fetch, FetchFails, MarkProcessing, Extract, NoText,
             PurgeChunks, CreateChunks, SaveCount, CompleteWithoutKey, EmbedBatch,
             Complete, Raise, HandleException, HandlerFails, At
    <3> QED
      BY <3>1, <3>2
  <2> QED
    BY <2>2, <2>3 DEF Next
<1>2. CompletedIsFinal <=> [][Keeps]_vars
  BY DEF CompletedIsFinal
<1> QED
  BY <1>1, <1>2, KnowledgeIndexInvariant, PTL DEF Spec

-----------------------------------------------------------------------------
(* The status of a file. *)


\* The steps between the save that marks the file and the end of the try block.
Marking == {"extract", "empty", "purge", "create", "count", "nokey", "embed", "complete"}

(***************************************************************************)
(* What a step of a busy worker does to the status of its file: nothing,   *)
(* or it saves an object r that is failed, completed, or still processing. *)
(***************************************************************************)
Moves(w) ==
    \/ exec'[w] = NULL
    \/ exec'[w].step = "except"
    \/ exec'[w].step \in Marking /\ exec[w].step \in Marking /\ exec'[w].inst = exec[w].inst

SavesFailed(w, r) ==
    /\ r.status = "failed" /\ r.error \in {"notext", "exception"}
    /\ exec[w].step \in Marking \cup {"except"}
    /\ exec'[w] = NULL

SavesCompleted(w, r) ==
    /\ r.status = "completed" /\ r.error \in {exec[w].inst.error, "nokey"}
    /\ exec[w].step \in Marking
    /\ exec'[w] = NULL

SavesProcessing(w, r) ==
    /\ \/ exec[w].step = "mark" /\ r.status = "processing" /\ r.error = "none"
       \/ /\ exec[w].step \in Marking
          /\ r.status = exec[w].inst.status /\ r.error = exec[w].inst.error
    /\ exec'[w] # NULL /\ exec'[w].step \in Marking /\ exec'[w].inst = r

Saves(w, r) ==
    /\ r # NULL
    /\ files'[exec[w].file] = r
    /\ r.bot = exec[w].inst.bot /\ r.doc = exec[w].inst.doc
    /\ SavesFailed(w, r) \/ SavesCompleted(w, r) \/ SavesProcessing(w, r)

\* What save() in the task leaves in memory.
LEMMA SaveInstanceMoves ==
  ASSUME TypeOK, NEW w \in Workers, exec[w] # NULL, NEW r \in Row,
         NEW next \in Step \cup {"return"}, SaveInstance(w, r, next)
  PROVE  /\ r # NULL /\ files'[exec[w].file] = r
         /\ next = "return" => exec'[w] = NULL
         /\ next # "return" => /\ exec'[w] # NULL /\ exec'[w].step = next
                               /\ exec'[w].inst = r
<1>1. r # NULL /\ files'[exec[w].file] = r
  BY SaveInstanceShape, NullIsNothing
<1>2. CASE next = "return"
  BY <1>1, <1>2 DEF SaveInstance, TypeOK
<1>3. CASE next # "return"
  <2> DEFINE t == [exec[w] EXCEPT !.inst = r, !.step = next]
  <2>1. t \in Task /\ t.step = next /\ t.inst = r
    BY <1>3, ExecTypes, TaskUpdates DEF Task
  <2>2. exec'[w] = t
    BY <1>3 DEF SaveInstance, TypeOK
  <2> HIDE DEF t
  <2> QED
    BY <1>1, <1>3, <2>1, <2>2, NullIsNothing
<1> QED
  BY <1>2, <1>3

\* A statement that only moves on inside the try block.
LEMMA GoToMoves ==
  ASSUME TypeOK, NEW w \in Workers, exec[w] # NULL, exec[w].step \in Marking,
         NEW s \in Marking, GoTo(w, s)
  PROVE  Moves(w)
<1> DEFINE t == [exec[w] EXCEPT !.step = s]
<1>1. exec'[w] = t
  BY DEF GoTo, TypeOK
<1>2. t.step = s /\ t.inst = exec[w].inst
  BY ExecTypes DEF Task
<1> HIDE DEF t
<1> QED
  BY <1>1, <1>2 DEF Moves

\* Every step of a busy worker moves on or saves.
LEMMA WorkStatus ==
  ASSUME TypeOK, NEW w \in Workers, exec[w] # NULL, Work(w) \/ Crash(w)
  PROVE  \/ files' = files /\ Moves(w)
         \/ \E r \in Row : Saves(w, r)
<1> DEFINE t == exec[w]
<1>1. t \in Task /\ t.inst \in Row /\ t.step \in Step /\ NChunks[t.inst.doc] \in Nat
  BY ExecTypes
<1> HIDE DEF t
<1>2. t = exec[w]
  BY DEF t
<1>3. CASE MarkProcessing(w)
  <2> DEFINE r == Marked(t.inst)
  <2>1. /\ r \in Row /\ r.status = "processing" /\ r.error = "none"
        /\ r.bot = t.inst.bot /\ r.doc = t.inst.doc
    BY <1>1, Names DEF Marked, Row
  <2>2. SaveInstance(w, r, "extract") /\ t.step = "mark"
    BY <1>2, <1>3 DEF MarkProcessing, At
  <2> HIDE DEF r
  <2>3. "extract" \in Step \cup {"return"} /\ "extract" # "return" /\ "extract" \in Marking
    BY Names DEF Marking
  <2>4. /\ r # NULL /\ files'[t.file] = r /\ exec'[w] # NULL
        /\ exec'[w].step = "extract" /\ exec'[w].inst = r
    BY <2>1, <2>2, <2>3, <1>2, SaveInstanceMoves
  <2> QED
    BY <2>1, <2>2, <2>3, <2>4, <1>2 DEF Saves, SavesProcessing
<1>4. CASE Extract(w)
  <2>1. t.step = "extract" /\ files' = files
    BY <1>2, <1>4 DEF Extract, At
  <2>2. \E s \in Marking : GoTo(w, s)
    BY <1>4 DEF Extract, Marking
  <2> QED
    BY <1>2, <2>1, <2>2, GoToMoves DEF Marking
<1>5. CASE NoText(w)
  <2> DEFINE r == [t.inst EXCEPT !.status = "failed", !.error = "notext"]
  <2>1. /\ r \in Row /\ r.status = "failed" /\ r.error = "notext"
        /\ r.bot = t.inst.bot /\ r.doc = t.inst.doc
    BY <1>1, Names DEF Row
  <2>2. SaveInstance(w, r, "return") /\ t.step = "empty"
    BY <1>2, <1>5 DEF NoText, At
  <2> HIDE DEF r
  <2>3. r # NULL /\ files'[t.file] = r /\ exec'[w] = NULL
    BY <2>1, <2>2, <1>2, SaveInstanceMoves
  <2> QED
    BY <2>1, <2>2, <2>3, <1>2 DEF Saves, SavesFailed, Marking
<1>6. CASE PurgeChunks(w) \/ CreateChunks(w)
  <2>1. t.step \in Marking /\ files' = files
    BY <1>2, <1>6 DEF PurgeChunks, CreateChunks, At, Marking
  <2>2. GoTo(w, "create") \/ GoTo(w, "count")
    BY <1>6 DEF PurgeChunks, CreateChunks
  <2> QED
    BY <1>2, <2>1, <2>2, GoToMoves DEF Marking
<1>7. CASE SaveCount(w)
  <2> DEFINE r == [t.inst EXCEPT !.count = NChunks[t.inst.doc]]
             s == IF w \in Keyed THEN "embed" ELSE "nokey"
  <2>1. /\ r \in Row /\ r.status = t.inst.status /\ r.error = t.inst.error
        /\ r.bot = t.inst.bot /\ r.doc = t.inst.doc
    BY <1>1 DEF Row
  <2>2. SaveInstance(w, r, s) /\ t.step = "count"
    BY <1>2, <1>7 DEF SaveCount, At
  <2>3. s \in Step \cup {"return"} /\ s # "return" /\ s \in Marking
    BY Names DEF Marking
  <2> HIDE DEF r, s
  <2>4. /\ r # NULL /\ files'[t.file] = r /\ exec'[w] # NULL
        /\ exec'[w].step = s /\ exec'[w].inst = r
    BY <2>1, <2>2, <2>3, <1>2, SaveInstanceMoves
  <2>5. "count" \in Marking
    BY DEF Marking
  <2> QED
    BY <2>1, <2>2, <2>3, <2>4, <2>5, <1>2 DEF Saves, SavesProcessing
<1>8. CASE CompleteWithoutKey(w)
  <2> DEFINE r == [t.inst EXCEPT !.status = "completed", !.error = "nokey"]
  <2>1. /\ r \in Row /\ r.status = "completed" /\ r.error = "nokey"
        /\ r.bot = t.inst.bot /\ r.doc = t.inst.doc
    BY <1>1, Names DEF Row
  <2>2. SaveInstance(w, r, "return") /\ t.step = "nokey"
    BY <1>2, <1>8 DEF CompleteWithoutKey, At
  <2> HIDE DEF r
  <2>3. r # NULL /\ files'[t.file] = r /\ exec'[w] = NULL
    BY <2>1, <2>2, <1>2, SaveInstanceMoves
  <2> QED
    BY <2>1, <2>2, <2>3, <1>2 DEF Saves, SavesCompleted, Marking
<1>9. CASE EmbedBatch(w)
  <2>1. PICK u \in Task : /\ Continues(w, u) /\ u.inst = exec[w].inst
                          /\ u.step \in {"embed", "complete"}
    BY <1>9, EmbedShape
  <2>2. exec'[w] = u
    BY <2>1 DEF Continues, TypeOK
  <2>3. t.step = "embed" /\ files' = files
    BY <1>2, <1>9 DEF EmbedBatch, At
  <2> QED
    BY <1>2, <2>1, <2>2, <2>3 DEF Moves, Marking
<1>10. CASE Complete(w)
  <2> DEFINE r == [t.inst EXCEPT !.status = "completed"]
  <2>1. /\ r \in Row /\ r.status = "completed" /\ r.error = t.inst.error
        /\ r.bot = t.inst.bot /\ r.doc = t.inst.doc
    BY <1>1, Names DEF Row
  <2>2. SaveInstance(w, r, "return") /\ t.step = "complete"
    BY <1>2, <1>10 DEF Complete, At
  <2> HIDE DEF r
  <2>3. r # NULL /\ files'[t.file] = r /\ exec'[w] = NULL
    BY <2>1, <2>2, <1>2, SaveInstanceMoves
  <2> QED
    BY <2>1, <2>2, <2>3, <1>2 DEF Saves, SavesCompleted, Marking
<1>11. CASE Raise(w)
  <2>1. PICK u \in Task : Continues(w, u) /\ u.step = "except"
    BY <1>11, RaiseShape
  <2>2. exec'[w] = u
    BY <2>1 DEF Continues, TypeOK
  <2> QED
    BY <1>11, <2>1, <2>2 DEF Moves, Raise
<1>12. CASE HandleException(w)
  <2> DEFINE r == [t.inst EXCEPT !.status = "failed", !.error = "exception"]
  <2>1. /\ r \in Row /\ r.status = "failed" /\ r.error = "exception"
        /\ r.bot = t.inst.bot /\ r.doc = t.inst.doc
    BY <1>1, Names DEF Row
  <2>2. /\ Save(t.file, r) /\ t.step = "except" /\ t.file \in Files
        /\ RaiseOut(w, t.file, t.retries)
    BY <1>2, <1>12, ExecTypes DEF HandleException, At
  <2> HIDE DEF r
  <2>3. r # NULL /\ files'[t.file] = r /\ exec'[w] = NULL
    BY <2>1, <2>2, NullIsNothing DEF Save, RaiseOut, TypeOK
  <2> QED
    BY <2>1, <2>2, <2>3, <1>2 DEF Saves, SavesFailed
<1>13. CASE HandlerFails(w) \/ Crash(w)
  BY <1>13 DEF HandlerFails, Crash, RaiseOut, Moves, TypeOK
<1> QED
  BY <1>3, <1>4, <1>5, <1>6, <1>7, <1>8, <1>9, <1>10, <1>11, <1>12, <1>13
  DEF Work, Fetch, FetchFails

-----------------------------------------------------------------------------
(***************************************************************************)
(* ErrorMatchesStatus is about rows that save() writes whole, so it needs  *)
(* the same of the objects in memory: one just read agrees with itself,    *)
(* and from the save that marks the file to the end of the try block it is *)
(* processing without an error.  What a task holds in the handler does not *)
(* matter: the handler overwrites both columns.                            *)
(***************************************************************************)
Agrees(r) ==
    r.error \in CASE r.status = "failed" -> {"notext", "exception"}
                  [] r.status = "completed" -> {"none", "nokey"}
                  [] OTHER -> {"none"}

TaskAgrees(t) ==
    /\ t.step = "mark" => Agrees(t.inst)
    /\ t.step \in Marking => t.inst.status = "processing" /\ t.inst.error = "none"

ErrorInv ==
    /\ \A f \in Files : files[f] # NULL => Agrees(files[f])
    /\ \A f \in Files : patch[f] # NULL => Agrees(patch[f])
    /\ \A w \in Workers : exec[w] # NULL => TaskAgrees(exec[w])

\* What a worker saves agrees, whatever its task holds.
LEMMA SavedAgrees ==
  ASSUME NEW w \in Workers, exec[w] # NULL, TaskAgrees(exec[w]), NEW r \in Row, Saves(w, r)
  PROVE  Agrees(r) /\ (exec'[w] # NULL => TaskAgrees(exec'[w]))
<1>1. CASE SavesFailed(w, r)
  BY <1>1 DEF SavesFailed, Agrees
<1>2. CASE SavesCompleted(w, r)
  BY <1>2 DEF SavesCompleted, Agrees, TaskAgrees
<1>3. CASE SavesProcessing(w, r)
  <2>1. r.status = "processing" /\ r.error = "none"
    BY <1>3 DEF SavesProcessing, TaskAgrees
  <2>2. exec'[w].step \in Marking /\ exec'[w].step # "mark" /\ exec'[w].inst = r
    BY <1>3 DEF SavesProcessing, Marking
  <2> QED
    BY <2>1, <2>2 DEF Agrees, TaskAgrees
<1> QED
  BY <1>1, <1>2, <1>3 DEF Saves

\* A worker's step keeps the errors next to their statuses.
LEMMA WorkErrors ==
  ASSUME TypeOK, ErrorInv, NEW w \in Workers, Work(w) \/ Crash(w)
  PROVE  ErrorInv'
<1>0. patch' = patch
  BY DEF Work, Crash, Fetch, FetchFails, MarkProcessing, Extract, NoText,
         PurgeChunks, CreateChunks, SaveCount, CompleteWithoutKey, EmbedBatch, Complete,
         Raise, HandleException, HandlerFails, SaveInstance, apiUnchanged
<1>1. CASE exec[w] # NULL
  <2> DEFINE g == exec[w].file
  <2>1. /\ OwnFileOnly(w) /\ g \in Files /\ TaskAgrees(exec[w])
        /\ \A v \in Workers : v # w => exec'[v] = exec[v]
        /\ \A f \in Files : f # g => files'[f] = files[f]
    BY <1>1, WorkShape, ExecTypes DEF OwnFileOnly, Ends, Continues, TypeOK, ErrorInv
  <2>2. CASE files' = files /\ Moves(w)
    <3>1. exec'[w] # NULL => TaskAgrees(exec'[w])
      <4>1. "except" # "mark" /\ "except" \notin Marking /\ "mark" \notin Marking
        BY DEF Marking
      <4> QED
        BY <2>1, <2>2, <4>1 DEF Moves, TaskAgrees
    <3> QED
      BY <1>0, <2>1, <2>2, <3>1 DEF ErrorInv
  <2>3. ASSUME NEW r \in Row, Saves(w, r)
        PROVE  ErrorInv'
    <3>1. Agrees(r) /\ (exec'[w] # NULL => TaskAgrees(exec'[w])) /\ files'[g] = r
      BY <1>1, <2>1, <2>3, SavedAgrees DEF Saves
    <3> QED
      BY <1>0, <2>1, <3>1 DEF ErrorInv
  <2> QED
    BY <1>1, <2>2, <2>3, WorkStatus
<1>2. CASE exec[w] = NULL
  <2>1. PICK m \in queue : Fetch(w, m) \/ FetchFails(w, m)
    BY <1>2 DEF Work, Crash, MarkProcessing, Extract, NoText, PurgeChunks, CreateChunks,
           SaveCount, CompleteWithoutKey, EmbedBatch, Complete, Raise, HandleException,
           HandlerFails, At
  <2>2. files' = files /\ m.file \in Files
    BY <2>1 DEF Fetch, FetchFails, TypeOK, Message
  <2>3. CASE exec' = exec
    BY <1>0, <2>2, <2>3 DEF ErrorInv
  <2>4. CASE exec' # exec
    <3> DEFINE t == [file |-> m.file, retries |-> m.retries, step |-> "mark",
                     inst |-> files[m.file], next |-> 0]
    <3>1. files[m.file] # NULL /\ exec' = [exec EXCEPT ![w] = t]
      BY <2>1, <2>4 DEF Fetch, FetchFails
    <3>2. t.step = "mark" /\ t.inst = files[m.file] /\ "mark" \notin Marking
      BY DEF Marking
    <3> HIDE DEF t
    <3>3. TaskAgrees(t)
      BY <2>2, <3>1, <3>2 DEF ErrorInv, TaskAgrees
    <3>4. \A v \in Workers : exec'[v] = IF v = w THEN t ELSE exec[v]
      BY <3>1 DEF TypeOK
    <3> QED
      BY <1>0, <2>2, <3>3, <3>4 DEF ErrorInv
  <2> QED
    BY <2>3, <2>4
<1> QED
  BY <1>1, <1>2

\* So does a request: a new row has no error, and a PATCH keeps both columns.
LEMMA RequestErrors ==
  ASSUME TypeOK, ErrorInv, Request
  PROVE  ErrorInv'
<1>1. ASSUME NEW f \in Files, NEW b \in Bots, NEW d \in Docs,
             Upload(f, b, d) \/ UploadToBot(f, b, d) \/ Create(f, b, d)
      PROVE  ErrorInv'
  <2>1. Agrees(NewRow(b, d))
    BY DEF Agrees, NewRow
  <2>2. files' = [files EXCEPT ![f] = NewRow(b, d)] /\ patch' = patch /\ exec' = exec
    BY <1>1 DEF Upload, UploadToBot, Create, InsertFile
  <2> QED
    BY <2>1, <2>2 DEF ErrorInv, TypeOK
<1>2. ASSUME NEW f \in Files, NEW b \in Bots, NEW d \in Docs, PatchSave(f, b, d)
      PROVE  ErrorInv'
  <2> DEFINE r == [patch[f] EXCEPT !.bot = b, !.doc = d]
  <2>1. patch[f] \in Row /\ Agrees(patch[f])
    BY <1>2 DEF PatchSave, ErrorInv, TypeOK
  <2>2. r.status = patch[f].status /\ r.error = patch[f].error
    BY <2>1 DEF Row
  <2>3. /\ files' = [files EXCEPT ![f] = r] /\ exec' = exec
        /\ patch' = [patch EXCEPT ![f] = NULL]
    BY <1>2 DEF PatchSave, Save
  <2> HIDE DEF r
  <2>4. Agrees(r)
    BY <2>1, <2>2 DEF Agrees
  <2> QED
    BY <2>3, <2>4 DEF ErrorInv, TypeOK
<1>3. ASSUME NEW f \in Files, PatchRead(f)
      PROVE  ErrorInv'
  BY <1>3 DEF PatchRead, ErrorInv, TypeOK
<1>4. ASSUME NEW f \in Files, SendTask(f) \/ SendFails(f)
      PROVE  ErrorInv'
  BY <1>4 DEF SendTask, SendFails, ErrorInv
<1>5. ASSUME NEW f \in Files, DeleteFile(f)
      PROVE  ErrorInv'
  BY <1>5 DEF DeleteFile, ErrorInv, TypeOK
<1>6. ASSUME NEW b \in Bots, DeleteBot(b)
      PROVE  ErrorInv'
  BY <1>6 DEF DeleteBot, ErrorInv
<1> QED
  BY <1>1, <1>2, <1>3, <1>4, <1>5, <1>6 DEF Request

\* The rows and the objects in memory agree, always.
THEOREM KnowledgeErrorInvariant == Spec => []ErrorInv
<1>1. Init => ErrorInv
  BY DEF Init, ErrorInv
<1>2. TypeOK /\ ErrorInv /\ Next => ErrorInv'
  BY WorkErrors, RequestErrors DEF Next
<1>3. ErrorInv /\ UNCHANGED vars => ErrorInv'
  BY DEF ErrorInv, vars
<1> QED
  BY <1>1, <1>2, <1>3, KnowledgeTypes, PTL DEF Spec

\* processing_error always belongs to the status next to it, for every number of
\* workers and retries, with PATCH requests and duplicate deliveries included.
THEOREM KnowledgeErrors == Spec => []ErrorMatchesStatus
<1>1. ErrorInv => ErrorMatchesStatus
  BY DEF ErrorInv, Agrees, ErrorMatchesStatus
<1> QED
  BY <1>1, KnowledgeErrorInvariant, PTL

-----------------------------------------------------------------------------
(***************************************************************************)
(* The refinement.  Beyond IndexInv and ErrorInv it needs that the row of  *)
(* a quiet file says "processing" from the save that marks it to the end   *)
(* of its run: then NoText, Complete and the handler are steps from        *)
(* "working", and never from "failed" or "ready".                          *)
(***************************************************************************)
ProcessingInv ==
    \A f \in Quiet, w \in Workers :
        Handling(w, f) /\ exec[w].step \in Marking => files[f].status = "processing"

\* A step that keeps the runs of a file that are past their mark, and its row.
LEMMA ProcessingFrame ==
  ASSUME ProcessingInv, NEW f \in Quiet, files'[f] = files[f],
         NEW v \in Workers, exec'[v] = exec[v], Handling(v, f)', exec'[v].step \in Marking
  PROVE  files'[f].status = "processing"
  BY DEF ProcessingInv, Handling

\* A worker's step keeps it.
LEMMA WorkProcessing ==
  ASSUME IndexInv, ErrorInv, ProcessingInv, NEW w \in Workers, Work(w) \/ Crash(w)
  PROVE  ProcessingInv'
<1> SUFFICES ASSUME NEW f \in Quiet', NEW v \in Workers, Handling(v, f)',
                    exec'[v].step \in Marking
             PROVE  files'[f].status = "processing"
  BY DEF ProcessingInv
<1>0. TypeOK /\ f \in Quiet /\ f \in Files /\ f \notin Redeliverable
  BY RemovedGrows DEF Quiet, IndexInv, Next
<1>1. CASE exec[w] # NULL
  <2>1. /\ OwnFileOnly(w) /\ TaskAgrees(exec[w]) /\ exec[w].file \in Files
        /\ \A u \in Workers : u # w => exec'[u] = exec[u]
        /\ \A g \in Files : g # exec[w].file => files'[g] = files[g]
    BY <1>0, <1>1, WorkShape, ExecTypes DEF OwnFileOnly, Ends, Continues, TypeOK, ErrorInv
  <2>2. CASE v # w
    <3>1. Handling(v, f) /\ exec'[v] = exec[v]
      BY <2>1, <2>2 DEF Handling
    <3>2. exec[w].file # f
      BY <1>0, <1>1, <2>2, <3>1 DEF IndexInv, OneRunInv, OneRun, Single, Handling
    <3> QED
      BY <1>0, <2>1, <3>1, <3>2, ProcessingFrame
  <2>3. CASE v = w
    <3>1. exec'[w] # NULL /\ exec'[w].file = f /\ exec'[w].step \in Marking
      BY <2>3 DEF Handling
    <3>2. exec[w].file = f
      BY <1>0, <1>1, <2>1, <3>1 DEF OwnFileOnly, Ends, Continues, TypeOK
    <3>3. CASE files' = files /\ Moves(w)
      <4>1. exec[w].step \in Marking
        BY <3>1, <3>3 DEF Moves, Marking
      <4> QED
        BY <1>0, <1>1, <3>2, <3>3, <4>1 DEF ProcessingInv, Handling
    <3>4. ASSUME NEW r \in Row, Saves(w, r)
          PROVE  files'[f].status = "processing"
      <4>1. SavesProcessing(w, r) /\ files'[f] = r
        BY <3>1, <3>2, <3>4 DEF Saves, SavesFailed, SavesCompleted
      <4> QED
        BY <2>1, <4>1 DEF SavesProcessing, TaskAgrees
    <3> QED
      BY <1>0, <1>1, <3>3, <3>4, WorkStatus
  <2> QED
    BY <2>2, <2>3
<1>2. CASE exec[w] = NULL
  <2>1. PICK m \in queue : Fetch(w, m) \/ FetchFails(w, m)
    BY <1>2 DEF Work, Crash, MarkProcessing, Extract, NoText, PurgeChunks, CreateChunks,
           SaveCount, CompleteWithoutKey, EmbedBatch, Complete, Raise, HandleException,
           HandlerFails, At
  <2>2. files' = files
    BY <2>1 DEF Fetch, FetchFails
  <2>3. exec'[v] = exec[v] \/ exec'[v].step = "mark"
    BY <1>0, <2>1 DEF Fetch, FetchFails, TypeOK
  <2>4. exec'[v] = exec[v]
    BY <2>3 DEF Marking
  <2> QED
    BY <1>0, <2>2, <2>4, ProcessingFrame
<1> QED
  BY <1>1, <1>2

\* What a request does to the row of a file that is not being patched: it stays,
\* is inserted, or is deleted.
LEMMA RequestRow ==
  ASSUME TypeOK, Request, NEW f \in Files, patch[f] = NULL
  PROVE  \/ files'[f] = files[f] /\ (f \in removed' <=> f \in removed)
         \/ /\ files[f] = NULL /\ f \notin removed'
            /\ \E b \in Bots, d \in Docs : files'[f] = NewRow(b, d)
         \/ files[f] # NULL /\ files'[f] = NULL /\ f \in removed'
<1>1. ASSUME NEW g \in Files, NEW b \in Bots, NEW d \in Docs,
             Upload(g, b, d) \/ UploadToBot(g, b, d) \/ Create(g, b, d)
      PROVE  \/ files'[f] = files[f] /\ (f \in removed' <=> f \in removed)
             \/ files[f] = NULL /\ f \notin removed' /\ files'[f] = NewRow(b, d)
  BY <1>1 DEF Upload, UploadToBot, Create, InsertFile, TypeOK
<1>2. ASSUME NEW g \in Files, NEW b \in Bots, NEW d \in Docs, PatchSave(g, b, d)
      PROVE  files'[f] = files[f] /\ removed' = removed
  BY <1>2 DEF PatchSave, Save, TypeOK
<1>3. ASSUME NEW g \in Files, SendTask(g) \/ SendFails(g) \/ PatchRead(g)
      PROVE  files'[f] = files[f] /\ removed' = removed
  BY <1>3 DEF SendTask, SendFails, PatchRead
<1>4. ASSUME NEW g \in Files, DeleteFile(g)
      PROVE  \/ files'[f] = files[f] /\ (f \in removed' <=> f \in removed)
             \/ files[f] # NULL /\ files'[f] = NULL /\ f \in removed'
  BY <1>4 DEF DeleteFile, TypeOK
<1>5. ASSUME NEW b \in Bots, DeleteBot(b)
      PROVE  \/ files'[f] = files[f] /\ (f \in removed' <=> f \in removed)
             \/ files[f] # NULL /\ files'[f] = NULL /\ f \in removed'
  BY <1>5 DEF DeleteBot
<1> QED
  BY <1>1, <1>2, <1>3, <1>4, <1>5 DEF Request

\* So does a request: a quiet file that has a run is neither inserted nor
\* patched, and a deleted one is no longer quiet.
LEMMA RequestProcessing ==
  ASSUME IndexInv, ProcessingInv, Request
  PROVE  ProcessingInv'
<1> SUFFICES ASSUME NEW f \in Quiet', NEW v \in Workers, Handling(v, f)',
                    exec'[v].step \in Marking
             PROVE  files'[f].status = "processing"
  BY DEF ProcessingInv
<1>0. TypeOK /\ f \in Quiet /\ f \in Files /\ f \notin removed' /\ patch[f] = NULL
  BY RemovedGrows DEF Quiet, IndexInv, Next, PatchInv
<1>1. exec' = exec
  BY DEF Request, Upload, UploadToBot, Create, PatchSave, SendTask, SendFails, PatchRead,
         DeleteFile, DeleteBot
<1>2. files[f] # NULL
  BY <1>0, <1>1 DEF IndexInv, QuietInv, QuietFile, RunInv, Handling
<1>3. files'[f] = files[f]
  BY <1>0, <1>2, RequestRow
<1> QED
  BY <1>0, <1>1, <1>3, ProcessingFrame

RefinementInv == IndexInv /\ ErrorInv /\ ProcessingInv

\* What the refinement rests on holds of every reachable state.
LEMMA KnowledgeRefinementInvariant == Spec => []RefinementInv
<1>1. Init => ProcessingInv
  BY DEF Init, ProcessingInv, Handling
<1>2. IndexInv /\ ErrorInv /\ ProcessingInv /\ Next => ProcessingInv'
  BY WorkProcessing, RequestProcessing DEF Next
<1>3. ProcessingInv /\ UNCHANGED vars => ProcessingInv'
  BY DEF ProcessingInv, Quiet, Handling, vars
<1> QED
  BY <1>1, <1>2, <1>3, KnowledgeIndexInvariant, KnowledgeErrorInvariant, PTL
  DEF Spec, RefinementInv

-----------------------------------------------------------------------------
\* The entry of a file whose row stays, and whose chunks stay if they count.
LEMMA EntryStays ==
  ASSUME NEW f \in Files, files'[f] = files[f], f \in removed' <=> f \in removed,
         f \in Quiet /\ files[f] # NULL /\ files[f].status = "completed"
             => ChunksOf(f)' = ChunksOf(f)
  PROVE  EntryOf(f)' = EntryOf(f)
<1>1. CASE f \notin Quiet
  BY <1>1 DEF EntryOf, Quiet
<1>2. CASE files[f] = NULL
  BY <1>2 DEF EntryOf
<1>3. CASE f \in Quiet /\ files[f] # NULL /\ files[f].status # "completed"
  BY <1>3 DEF EntryOf, Quiet
<1>4. CASE f \in Quiet /\ files[f] # NULL /\ files[f].status = "completed"
  <2>1. IndexOf(f)' = IndexOf(f)
    BY <1>4 DEF IndexOf
  <2> QED
    BY <1>4, <2>1 DEF EntryOf, Quiet
<1> QED
  BY <1>1, <1>2, <1>3, <1>4

\* Nothing is promised of a file that may be patched or delivered twice, or that
\* was deleted.
LEMMA EntryLoud ==
  ASSUME Next, NEW f \in Files, f \notin Quiet
  PROVE  EntryOf(f)' = EntryOf(f)
  BY RemovedGrows DEF EntryOf, Quiet

\* The entry of a file with a row that is not completed, and of a completed one.
Open(x, b, d) == [state |-> x, bot |-> b, doc |-> d, index |-> {}]

Ready(b, d) == [state |-> "ready", bot |-> b, doc |-> d, index |-> 0 .. NChunks[d] - 1]

\* The entry of a quiet file that has a row and is not completed.
LEMMA EntryOpen ==
  ASSUME NEW f \in Quiet, files[f] # NULL, files[f].status # "completed"
  PROVE  EntryOf(f) = Open(StateOf(files[f].status), files[f].bot, files[f].doc)
  BY DEF EntryOf, Quiet, Open

\* The entry of a quiet file that is completed.
LEMMA EntryCompleted ==
  ASSUME QuietInv, NEW f \in Quiet, files[f] # NULL, files[f].status = "completed"
  PROVE  EntryOf(f) = Ready(files[f].bot, files[f].doc)
<1>1. /\ {c.index : c \in ChunksOf(f)} = 0 .. NChunks[files[f].doc] - 1
      /\ \A c \in ChunksOf(f) : c.bot = files[f].bot /\ c.doc = files[f].doc
  BY DEF QuietInv, QuietFile, CompleteInv, ChunkInv
<1>2. IndexOf(f) = {c.index : c \in ChunksOf(f)}
  BY <1>1 DEF IndexOf
<1> QED
  BY <1>1, <1>2 DEF EntryOf, Quiet, StateOf, Ready

\* The assignments of KnowledgeBase on such entries.
LEMMA EntryUpdates ==
  ASSUME NEW x, NEW y, NEW b, NEW d, NEW i
  PROVE  /\ Open(x, b, d).state = x /\ Open(x, b, d).doc = d
         /\ [Open(x, b, d) EXCEPT !.state = y] = Open(y, b, d)
         /\ [Open("ready", b, d) EXCEPT !.index = 0 .. NChunks[d] - 1] = Ready(b, d)
  BY DEF Open, Ready

\* The entry of f alone changes.
Alone(f) == \A g \in Files : g # f => EntryOf(g)' = EntryOf(g)

\* A row is inserted: Add.
LEMMA AddEntry ==
  ASSUME NEW f \in Files, Alone(f), NEW b \in Bots, NEW d \in Docs,
         EntryOf(f) = KB!Absent, EntryOf(f)' = Open("working", b, d)
  PROVE  KB!Next
<1>1. KB!Add(f, b, d)
  BY DEF KB!Add, Alone, Open
<1> QED
  BY <1>1 DEF KB!Next

\* A run ends, or a failed file is taken up again: Fail and Retry.
LEMMA SwitchEntry ==
  ASSUME NEW f \in Files, Alone(f), NEW x, NEW y, NEW b, NEW d,
         EntryOf(f) = Open(x, b, d), EntryOf(f)' = Open(y, b, d),
         \/ x = "working" /\ y = "failed"
         \/ x = "failed" /\ y = "working"
  PROVE  KB!Next
<1> DEFINE E == [g \in Files |-> EntryOf(g)]
<1>1. E = [g \in Files |-> E[g]] /\ E[f] = Open(x, b, d)
  OBVIOUS
<1>2. E' = [E EXCEPT ![f] = Open(y, b, d)]
  BY DEF Alone
<1>3. E' = [E EXCEPT ![f].state = y] /\ E[f].state = x
  <2>1. [Open(x, b, d) EXCEPT !.state = y] = Open(y, b, d) /\ Open(x, b, d).state = x
    BY EntryUpdates
  <2> HIDE DEF E
  <2>2. [E EXCEPT ![f].state = y] = [E EXCEPT ![f] = Open(y, b, d)]
    BY <1>1, <2>1
  <2> QED
    BY <1>1, <1>2, <2>1, <2>2
<1>4. KB!Fail(f) \/ KB!Retry(f)
  BY <1>3 DEF KB!Fail, KB!Retry
<1> QED
  BY <1>4 DEF KB!Next

\* A file is completed: Finish.
LEMMA FinishEntry ==
  ASSUME NEW f \in Files, Alone(f), NEW b, NEW d,
         EntryOf(f) = Open("working", b, d), EntryOf(f)' = Ready(b, d)
  PROVE  KB!Next
<1> DEFINE E == [g \in Files |-> EntryOf(g)]
           N == 0 .. NChunks[d] - 1
           F == [E EXCEPT ![f] = Open("ready", b, d)]
<1>1. E = [g \in Files |-> E[g]] /\ E[f] = Open("working", b, d)
  OBVIOUS
<1>2. E' = [E EXCEPT ![f] = Ready(b, d)]
  BY DEF Alone
<1>3. [Open("ready", b, d) EXCEPT !.index = N] = Ready(b, d)
  BY EntryUpdates
<1>4. E' = [E EXCEPT ![f].state = "ready", ![f].index = N]
  <2> HIDE DEF E, N
  <2>1. F = [E EXCEPT ![f].state = "ready"]
    <3>1. [Open("working", b, d) EXCEPT !.state = "ready"] = Open("ready", b, d)
      BY EntryUpdates
    <3> QED
      BY <1>1, <3>1
  <2>2. F = [g \in Files |-> IF g = f THEN Open("ready", b, d) ELSE E[g]]
    BY <1>1
  <2> HIDE DEF F
  <2>3. [F EXCEPT ![f].index = N] = [g \in Files |-> IF g = f THEN Ready(b, d) ELSE E[g]]
    BY <1>3, <2>2
  <2> QED
    BY <1>1, <1>2, <2>1, <2>3
<1>5. E[f].state = "working" /\ E[f].doc = d
  <2> HIDE DEF E
  <2> QED
    BY <1>1, EntryUpdates
<1>6. KB!Finish(f)
  BY <1>4, <1>5 DEF KB!Finish
<1> QED
  BY <1>6 DEF KB!Next

\* A worker's step is a step of KnowledgeBase, or none.
LEMMA WorkSimulates ==
  ASSUME RefinementInv, RefinementInv', NEW w \in Workers, Work(w) \/ Crash(w)
  PROVE  KB!Next \/ \A f \in Files : EntryOf(f)' = EntryOf(f)
<1>0. TypeOK /\ Next /\ removed' = removed
  BY DEF RefinementInv, IndexInv, Next, Work, Crash, Fetch, FetchFails, MarkProcessing,
         Extract, NoText, PurgeChunks, CreateChunks, SaveCount, CompleteWithoutKey,
         EmbedBatch, Complete, Raise, HandleException, HandlerFails, SaveInstance,
         apiUnchanged
<1>1. CASE exec[w] = NULL
  <2>1. files' = files
    BY <1>1 DEF Work, Crash, Fetch, FetchFails, MarkProcessing, Extract, NoText,
           PurgeChunks, CreateChunks, SaveCount, CompleteWithoutKey, EmbedBatch, Complete,
           Raise, HandleException, HandlerFails, At
  <2>2. \A f \in Files : ChunksOf(f)' = ChunksOf(f)
    BY <1>0, <1>1, OwnChunksOnly
  <2> QED
    BY <1>0, <2>1, <2>2, EntryStays
<1>2. CASE exec[w] # NULL
  <2>0. PICK f \in Files : f = exec[w].file
    BY <1>0, <1>2, ExecTypes
  <2>1. OwnFileOnly(w)
    BY <1>0, <1>2, WorkShape
  <2>2. \A g \in Files : g # f => files'[g] = files[g] /\ ChunksOf(g)' = ChunksOf(g)
    BY <1>0, <1>2, <2>0, <2>1, OwnChunksOnly DEF OwnFileOnly
  <2>3. Alone(f)
    BY <1>0, <2>2, EntryStays DEF Alone
  <2>4. CASE f \notin Quiet
    BY <1>0, <2>1, <2>3, <2>4, EntryLoud DEF Alone
  <2>5. CASE f \in Quiet
    <3>1. Handling(w, f) /\ f \in Quiet'
      BY <1>0, <1>2, <2>0, <2>5 DEF Handling, Quiet
    <3>2. /\ files[f] # NULL /\ files[f].status # "completed"
          /\ exec[w].inst.bot = files[f].bot /\ exec[w].inst.doc = files[f].doc
          /\ exec[w].step \in Marking => files[f].status = "processing"
          /\ TaskAgrees(exec[w])
      BY <1>2, <2>5, <3>1 DEF RefinementInv, IndexInv, QuietInv, QuietFile, RunInv, Settled,
             Attended, Handling, ProcessingInv, ErrorInv
    <3>b. PICK b : b = files[f].bot
      OBVIOUS
    <3>d. PICK d : d = files[f].doc
      OBVIOUS
    <3>x. PICK x : x = StateOf(files[f].status)
      OBVIOUS
    <3>3. EntryOf(f) = Open(x, b, d)
      BY <2>5, <3>2, <3>b, <3>d, <3>x, EntryOpen
    <3>4. x \in {"working", "failed"}
      BY <3>2, <3>x DEF StateOf
    <3>5. CASE files' = files
      BY <1>0, <2>1, <2>3, <3>2, <3>5, EntryStays DEF Alone
    <3>6. ASSUME NEW r \in Row, Saves(w, r)
          PROVE  KB!Next \/ \A g \in Files : EntryOf(g)' = EntryOf(g)
      <4>1. /\ files'[f] = r /\ r # NULL /\ r.bot = b /\ r.doc = d
        BY <2>0, <3>2, <3>b, <3>d, <3>6 DEF Saves
      <4>2. r.status # "completed" => EntryOf(f)' = Open(StateOf(r.status), b, d)
        BY <3>1, <4>1 DEF EntryOf, Quiet, Open
      <4>3. CASE SavesCompleted(w, r)
        <5>1. r.status = "completed" /\ x = "working"
          BY <3>2, <3>x, <4>3 DEF SavesCompleted, StateOf
        <5>2. EntryOf(f)' = Ready(b, d)
          <6>0. QuietFile(f)'
            BY <3>1 DEF RefinementInv, IndexInv, QuietInv
          <6>1. /\ {c.index : c \in ChunksOf(f)'} = 0 .. NChunks[d] - 1
                /\ \A c \in ChunksOf(f)' : c.bot = b /\ c.doc = d
            BY <4>1, <5>1, <6>0 DEF QuietFile, CompleteInv, ChunkInv
          <6>2. IndexOf(f)' = 0 .. NChunks[d] - 1
            BY <4>1, <6>1 DEF IndexOf
          <6> QED
            BY <3>1, <4>1, <5>1, <6>2 DEF EntryOf, Quiet, StateOf, Ready
        <5> QED
          BY <2>1, <2>3, <3>3, <5>1, <5>2, FinishEntry
      <4>4. CASE SavesFailed(w, r)
        <5>1. EntryOf(f)' = Open("failed", b, d)
          BY <4>2, <4>4 DEF SavesFailed, StateOf
        <5> QED
          BY <2>1, <2>3, <3>3, <3>4, <5>1, SwitchEntry DEF Alone
      <4>5. CASE SavesProcessing(w, r)
        <5>1. r.status = "processing"
          BY <3>2, <4>5 DEF SavesProcessing, TaskAgrees
        <5>2. EntryOf(f)' = Open("working", b, d)
          BY <4>2, <5>1 DEF StateOf
        <5> QED
          BY <2>1, <2>3, <3>3, <3>4, <5>2, SwitchEntry DEF Alone
      <4> QED
        BY <3>6, <4>3, <4>4, <4>5 DEF Saves
    <3> QED
      BY <1>0, <1>2, <3>5, <3>6, WorkStatus
  <2> QED
    BY <2>4, <2>5
<1> QED
  BY <1>1, <1>2

\* So is a request: an upload adds, a deletion removes, a PATCH is about files of
\* which nothing is promised.
LEMMA RequestSimulates ==
  ASSUME RefinementInv, Request
  PROVE  KB!Next \/ \A f \in Files : EntryOf(f)' = EntryOf(f)
<1>0. TypeOK /\ Next /\ \A f \in Quiet : f \in Files /\ patch[f] = NULL
  BY DEF RefinementInv, IndexInv, Next, Quiet, PatchInv
<1>1. ASSUME NEW f \in Files, NEW b \in Bots, NEW d \in Docs,
             Upload(f, b, d) \/ UploadToBot(f, b, d) \/ Create(f, b, d)
      PROVE  KB!Next \/ \A g \in Files : EntryOf(g)' = EntryOf(g)
  <2>1. /\ InsertFile(f, b, d) /\ chunks' = chunks /\ removed' = removed
    BY <1>1 DEF Upload, UploadToBot, Create
  <2>2. Alone(f)
    <3>1. \A g \in Files : g # f => files'[g] = files[g] /\ ChunksOf(g)' = ChunksOf(g)
      BY <1>0, <2>1 DEF InsertFile, TypeOK, ChunksOf
    <3> QED
      BY <2>1, <3>1, EntryStays DEF Alone
  <2>3. CASE f \notin Quiet
    BY <1>0, <2>2, <2>3, EntryLoud DEF Alone
  <2>4. CASE f \in Quiet
    <3>1. EntryOf(f) = KB!Absent
      BY <2>1, <2>4 DEF EntryOf, InsertFile, Quiet, KB!Absent
    <3>2. files'[f] = NewRow(b, d) /\ NewRow(b, d) # NULL
      BY <1>0, <2>1, NullIsNothing, Names DEF InsertFile, TypeOK, NewRow, Row
    <3>3. /\ NewRow(b, d).status = "pending" /\ NewRow(b, d).bot = b
          /\ NewRow(b, d).doc = d
      BY DEF NewRow
    <3>4. EntryOf(f)' = Open("working", b, d)
      BY <2>1, <2>4, <3>2, <3>3 DEF EntryOf, Quiet, Open, StateOf
    <3> QED
      BY <2>2, <3>1, <3>4, AddEntry
  <2> QED
    BY <2>3, <2>4
<1>2. ASSUME NEW f \in Files, NEW b \in Bots, NEW d \in Docs, PatchSave(f, b, d)
      PROVE  \A g \in Files : EntryOf(g)' = EntryOf(g)
  <2>1. f \notin Quiet
    BY <1>0, <1>2 DEF PatchSave
  <2>2. /\ removed' = removed
        /\ \A g \in Files : g # f => files'[g] = files[g] /\ ChunksOf(g)' = ChunksOf(g)
    BY <1>0, <1>2 DEF PatchSave, Save, TypeOK, ChunksOf
  <2> QED
    BY <1>0, <2>1, <2>2, EntryLoud, EntryStays
<1>3. ASSUME NEW f \in Files, SendTask(f) \/ SendFails(f) \/ PatchRead(f)
      PROVE  \A g \in Files : EntryOf(g)' = EntryOf(g)
  <2>1. /\ files' = files /\ removed' = removed
        /\ \A g \in Files : ChunksOf(g)' = ChunksOf(g)
    BY <1>3 DEF SendTask, SendFails, PatchRead, ChunksOf
  <2> QED
    BY <2>1, EntryStays
<1>4. ASSUME NEW S \in SUBSET Files, removed' = removed \cup S,
             \A f \in S : files[f] # NULL,
             \A g \in Files \ S : /\ files'[g] = files[g]
                                  /\ g \in Quiet => ChunksOf(g)' = ChunksOf(g)
      PROVE  KB!Next
  <2> DEFINE Q == S \cap Quiet
             E == [g \in Files |-> EntryOf(g)]
  <2>1. \A g \in Q : EntryOf(g)' = KB!Gone
    BY <1>4 DEF EntryOf, KB!Gone
  <2>2. \A g \in Files \ Q : EntryOf(g)' = EntryOf(g)
    <3>1. \A g \in Files \ S : EntryOf(g)' = EntryOf(g)
      BY <1>4, EntryStays
    <3>2. \A g \in S \ Quiet : EntryOf(g)' = EntryOf(g)
      BY <1>0, EntryLoud
    <3> QED
      BY <3>1, <3>2
  <2>3. \A g \in Q : EntryOf(g).state \in {"working", "ready", "failed"}
    <3> SUFFICES ASSUME NEW g \in Q
                 PROVE  EntryOf(g).state \in {"working", "ready", "failed"}
      OBVIOUS
    <3>1. EntryOf(g).state = StateOf(files[g].status)
      BY <1>4 DEF EntryOf, Quiet
    <3> QED
      BY <3>1 DEF StateOf
  <2>4. KB!Remove(Q)
    BY <2>1, <2>2, <2>3 DEF KB!Remove
  <2>5. Q \in SUBSET Files
    OBVIOUS
  <2> QED
    BY <2>4, <2>5 DEF KB!Next
<1>5. ASSUME NEW f \in Files, DeleteFile(f)
      PROVE  KB!Next
  <2>1. /\ removed' = removed \cup {f} /\ files[f] # NULL
        /\ \A g \in Files \ {f} : files'[g] = files[g] /\ ChunksOf(g)' = ChunksOf(g)
    BY <1>0, <1>5 DEF DeleteFile, TypeOK, ChunksOf
  <2>2. {f} \in SUBSET Files /\ \A g \in {f} : files[g] # NULL
    BY <2>1
  <2> QED
    BY <2>1, <2>2, <1>4
<1>6. ASSUME NEW b \in Bots, DeleteBot(b)
      PROVE  KB!Next
  <2> DEFINE S == {f \in Files : files[f] # NULL /\ files[f].bot = b}
  <2>1. /\ removed' = removed \cup S /\ \A f \in S : files[f] # NULL
        /\ \A g \in Files \ S : files'[g] = files[g]
    BY <1>6 DEF DeleteBot
  <2>2. ASSUME NEW g \in Files \ S, g \in Quiet
        PROVE  ChunksOf(g)' = ChunksOf(g)
    <3>1. \A c \in ChunksOf(g) : c.bot # b
      BY <2>2 DEF RefinementInv, IndexInv, QuietInv, QuietFile, ChunkInv
    <3> QED
      BY <1>6, <2>2, <3>1 DEF DeleteBot, ChunksOf
  <2> QED
    BY <2>1, <2>2, <1>4
<1> QED
  BY <1>1, <1>2, <1>3, <1>5, <1>6 DEF Request

\* The pipeline implements the knowledge base: for every number of files, workers,
\* retries and chunks, a file nobody patches or delivers twice becomes ready in one
\* step, with exactly the chunks of its document, and only its deletion changes it
\* afterwards.
THEOREM KnowledgeImplements == Spec => ImplementsKnowledgeBase
<1> DEFINE E == [f \in Files |-> EntryOf(f)]
<1>1. Init => KB!Init
  <2> SUFFICES ASSUME Init
               PROVE  E \in [Files -> {KB!Absent, KB!Gone}]
    BY DEF KB!Init
  <2>1. \A f \in Files : EntryOf(f) \in {KB!Absent, KB!Gone}
    BY DEF Init, EntryOf, KB!Absent, KB!Gone
  <2> QED
    BY <2>1
<1>2. RefinementInv /\ RefinementInv' /\ [Next]_vars => [KB!Next]_E
  <2>1. RefinementInv /\ RefinementInv' /\ Next => KB!Next \/ UNCHANGED E
    BY WorkSimulates, RequestSimulates DEF Next
  <2>2. UNCHANGED vars => UNCHANGED E
    <3> SUFFICES ASSUME UNCHANGED vars
                 PROVE  \A f \in Files : EntryOf(f)' = EntryOf(f)
      OBVIOUS
    <3> QED
      BY EntryStays DEF vars, ChunksOf
  <2> QED
    BY <2>1, <2>2
<1>3. Spec => KB!Spec
  BY <1>1, <1>2, KnowledgeRefinementInvariant, PTL DEF Spec, KB!Spec
<1> QED
  BY <1>3 DEF ImplementsKnowledgeBase
=============================================================================
