-------------------------- MODULE KnowledgePipeline --------------------------
(***************************************************************************)
(* Knowledge ingestion: the API that uploads, patches and deletes          *)
(* knowledge files (knowledge/views.py, chatbots/views.py), the Celery     *)
(* queue, and the workers that run process_knowledge_file                  *)
(* (ai_services/tasks.py).                                                 *)
(*                                                                         *)
(* A worker's action is one database statement (or one API call) of the    *)
(* task; between two of them any other request may run.  The task keeps    *)
(* its KnowledgeFile as a Python object, and every save() of it writes the *)
(* WHOLE object back: see Save.                                            *)
(***************************************************************************)
EXTENDS Naturals, FiniteSets

CONSTANTS
    Bots,           \* ids of chatbots
    Files,          \* ids the KnowledgeFile sequence can hand out
    Docs,           \* uploaded documents, each stored under its own path
    NChunks,        \* NChunks[d]: chunks split_text makes of d's text; 0 when
                    \* nothing can be extracted (empty, broken, or .docx)
    Workers,        \* Celery worker processes
    Keyed,          \* the workers whose environment has GEMINI_API_KEY
    BatchSize,      \* batch_size of the embedding loop (50)
    MaxRetries,     \* max_retries of the task (3)
    Patchable,      \* the files their owner may PATCH
    Redeliverable,  \* the files whose task the broker may deliver twice
    NULL            \* no row / no task

ASSUME KnowledgeConstants ==
    /\ NChunks \in [Docs -> Nat]
    /\ Keyed \subseteq Workers
    /\ BatchSize \in Nat \ {0}
    /\ MaxRetries \in Nat
    /\ Patchable \subseteq Files
    /\ Redeliverable \subseteq Files

VARIABLES
    bots,       \* the chatbot rows that exist
    files,      \* files[f]: the KnowledgeFile row with id f, or NULL
    chunks,     \* the KnowledgeChunk table
    disk,       \* the documents under MEDIA_ROOT
    sending,    \* uploads whose row is saved and whose task is not yet sent
    patch,      \* patch[f]: the object a PATCH request on f has in memory
    queue,      \* the task messages in the broker
    exec,       \* exec[w]: the task w runs, or NULL
    removed,    \* history: ids some DELETE has removed
    lost        \* history: files no task was sent for, whose run ended without
                \* its status written, or whose status a stale PATCH overwrote

vars == <<bots, files, chunks, disk, sending, patch, queue, exec, removed, lost>>

Status == {"pending", "processing", "completed", "failed"}

\* The values processing_error takes, wording abstracted.
Error == {"none", "notext", "nokey", "exception"}

Row == [bot: Bots, doc: Docs, status: Status, count: Nat, error: Error]

(***************************************************************************)
(* A chunk row.  Its primary key is abstracted to (kf, index, by): a run   *)
(* deletes the file's chunks before it creates its own, so one worker      *)
(* never has two live chunks with the same file and index.                 *)
(***************************************************************************)
Chunk == [kf: Files, index: Nat, by: Workers, bot: Bots, doc: Docs, emb: BOOLEAN]

Message == [file: Files, retries: 0 .. MaxRetries]

\* The database calls of process_knowledge_file, in the order they are made.
Step == {"mark", "extract", "empty", "purge", "create", "count", "nokey",
         "embed", "complete", "except"}

\* inst is the task's KnowledgeFile object, next the first chunk of the batch.
Task == [file: Files, retries: 0 .. MaxRetries, step: Step, inst: Row, next: Nat]

ASSUME NullIsNothing == NULL \notin Row /\ NULL \notin Task

Init ==
    /\ bots = Bots
    /\ files = [f \in Files |-> NULL]
    /\ chunks = {}
    /\ disk = {}
    /\ sending = {}
    /\ patch = [f \in Files |-> NULL]
    /\ queue = {}
    /\ exec = [w \in Workers |-> NULL]
    /\ removed = {}
    /\ lost = {}

-----------------------------------------------------------------------------
(* The API. *)

NewRow(b, d) ==
    [bot |-> b, doc |-> d, status |-> "pending", count |-> 0, error |-> "none"]

ChunksOf(f) == {c \in chunks : c.kf = f}

\* serializer.save(): the storage picks a path that is free on the disk, and the
\* row is inserted under an id that was never used.
InsertFile(f, b, d) ==
    /\ files[f] = NULL
    /\ f \notin removed
    /\ b \in bots
    /\ d \notin disk
    /\ files' = [files EXCEPT ![f] = NewRow(b, d)]
    /\ disk' = disk \cup {d}

\* upload: the row first ...
Upload(f, b, d) ==
    /\ InsertFile(f, b, d)
    /\ sending' = sending \cup {f}
    /\ UNCHANGED <<bots, chunks, patch, queue, exec, removed, lost>>

\* The POST of the chatbot's own knowledge action does the same, with the
\* chatbot of its URL.
UploadToBot(f, b, d) == Upload(f, b, d)

\* ... then process_knowledge_file.delay(instance.id) ...
SendTask(f) ==
    /\ f \in sending
    /\ sending' = sending \ {f}
    /\ queue' = queue \cup {[file |-> f, retries |-> 0]}
    /\ UNCHANGED <<bots, files, chunks, disk, patch, exec, removed, lost>>

\* ... which raises when the broker is down: the row stays pending.
SendFails(f) ==
    /\ f \in sending
    /\ sending' = sending \ {f}
    /\ lost' = lost \cup {f}
    /\ UNCHANGED <<bots, files, chunks, disk, patch, queue, exec, removed>>

\* The inherited POST /knowledge/ stores the file and sends no task.
Create(f, b, d) ==
    /\ InsertFile(f, b, d)
    /\ lost' = lost \cup {f}
    /\ UNCHANGED <<bots, chunks, sending, patch, queue, exec, removed>>

(***************************************************************************)
(* Model.save() of an object in memory: UPDATE every column of the row     *)
(* with its id and, when no row has it, INSERT it.  The foreign key on     *)
(* chatbot makes it raise when that chatbot is gone.                       *)
(***************************************************************************)
CanSave(row) == row.bot \in bots

Save(f, row) == files' = [files EXCEPT ![f] = row]

\* The inherited PATCH /knowledge/f/: get_object() ...
PatchRead(f) ==
    /\ f \in Patchable
    /\ files[f] # NULL
    /\ patch[f] = NULL
    /\ patch' = [patch EXCEPT ![f] = files[f]]
    /\ UNCHANGED <<bots, files, chunks, disk, sending, queue, exec, removed, lost>>

\* ... then serializer.save() with another chatbot and possibly another
\* document.  Nothing is enqueued, and the old document stays on the disk.
PatchSave(f, b, d) ==
    /\ patch[f] # NULL
    /\ b \in bots
    /\ d = patch[f].doc \/ d \notin disk
    /\ Save(f, [patch[f] EXCEPT !.bot = b, !.doc = d])
    /\ disk' = IF d = patch[f].doc THEN disk ELSE disk \cup {d}
    /\ patch' = [patch EXCEPT ![f] = NULL]
    /\ lost' = IF files[f] # NULL /\ files[f].status = patch[f].status
               THEN lost ELSE lost \cup {f}
    /\ UNCHANGED <<bots, chunks, sending, queue, exec, removed>>

\* DELETE /knowledge/f/: one transaction removes the row and, by CASCADE, its
\* chunks; the post_delete receiver removes the document.
DeleteFile(f) ==
    /\ files[f] # NULL
    /\ files' = [files EXCEPT ![f] = NULL]
    /\ chunks' = chunks \ ChunksOf(f)
    /\ disk' = disk \ {files[f].doc}
    /\ removed' = removed \cup {f}
    /\ UNCHANGED <<bots, sending, patch, queue, exec, lost>>

\* DELETE of a chatbot: its files, their chunks and documents, and every chunk
\* that carries its id go with it.
DeleteBot(b) ==
    LET gone == {f \in Files : files[f] # NULL /\ files[f].bot = b} IN
    /\ b \in bots
    /\ bots' = bots \ {b}
    /\ files' = [f \in Files |-> IF f \in gone THEN NULL ELSE files[f]]
    /\ chunks' = {c \in chunks : c.kf \notin gone /\ c.bot # b}
    /\ disk' = disk \ {files[f].doc : f \in gone}
    /\ removed' = removed \cup gone
    /\ UNCHANGED <<sending, patch, queue, exec, lost>>

-----------------------------------------------------------------------------
(* The worker: process_knowledge_file. *)

apiUnchanged == UNCHANGED <<bots, disk, sending, patch, removed>>

\* Mutant: one retry too many.
RaiseOutOneMore(w, f, retries) ==
    /\ exec' = [exec EXCEPT ![w] = NULL]
    /\ queue' = IF retries <= MaxRetries
                THEN queue \cup {[file |-> f, retries |-> retries + 1]}
                ELSE queue

\* An exception leaves the task: autoretry_for schedules it again until
\* max_retries is reached.
RaiseOut(w, f, retries) ==
    /\ exec' = [exec EXCEPT ![w] = NULL]
    /\ queue' = IF retries < MaxRetries
                THEN queue \cup {[file |-> f, retries |-> retries + 1]}
                ELSE queue

GoTo(w, step) ==
    exec' = [exec EXCEPT ![w].step = step] /\ UNCHANGED queue

\* Deliver a message and run KnowledgeFile.objects.get(id=file_id).  The
\* message leaves the queue before the run, unless the broker redelivers it.
Fetch(w, m) ==
    /\ exec[w] = NULL
    /\ m \in queue
    /\ \/ queue' = queue \ {m}
       \/ m.file \in Redeliverable /\ UNCHANGED queue
    /\ exec' = IF files[m.file] = NULL
               THEN exec
               ELSE [exec EXCEPT ![w] =
                        [file |-> m.file, retries |-> m.retries, step |-> "mark",
                         inst |-> files[m.file], next |-> 0]]
    /\ UNCHANGED <<files, chunks, lost>>
    /\ apiUnchanged

\* get() raises something else (the database is unreachable): no object, so no
\* status is written.
FetchFails(w, m) ==
    /\ exec[w] = NULL
    /\ m \in queue
    /\ queue' = (queue \ {m}) \cup
                    (IF m.retries < MaxRetries
                     THEN {[file |-> m.file, retries |-> m.retries + 1]} ELSE {})
    /\ lost' = IF m.retries < MaxRetries THEN lost ELSE lost \cup {m.file}
    /\ UNCHANGED <<files, chunks, exec>>
    /\ apiUnchanged

At(w, step) == exec[w] # NULL /\ exec[w].step = step

\* Assign the fields of the object, save() it and go on to the next step, or
\* out of the task when next is "return".
SaveInstance(w, inst, next) ==
    /\ CanSave(inst)
    /\ Save(exec[w].file, inst)
    /\ exec' = [exec EXCEPT ![w] =
                    IF next = "return" THEN NULL
                    ELSE [@ EXCEPT !.inst = inst, !.step = next]]
    /\ UNCHANGED <<chunks, queue, lost>>
    /\ apiUnchanged

\* Mutant: the error of the earlier run is not cleared.
MarkedKeepsError(inst) == [inst EXCEPT !.status = "processing"]

Marked(inst) == [inst EXCEPT !.status = "processing", !.error = "none"]

MarkProcessing(w) ==
    /\ At(w, "mark")
    /\ SaveInstance(w, Marked(exec[w].inst), "extract")

\* extract_text_from_file gives "" when the document is gone or unreadable.
Extract(w) ==
    /\ At(w, "extract")
    /\ LET d == exec[w].inst.doc IN
       GoTo(w, IF d \in disk /\ NChunks[d] > 0 THEN "purge" ELSE "empty")
    /\ UNCHANGED <<files, chunks, lost>>
    /\ apiUnchanged

NoText(w) ==
    /\ At(w, "empty")
    /\ SaveInstance(w, [exec[w].inst EXCEPT !.status = "failed", !.error = "notext"],
                    "return")

\* Mutant: the chunks of the earlier run stay.
PurgeNothing(w) ==
    /\ At(w, "purge")
    /\ GoTo(w, "create")
    /\ UNCHANGED <<files, chunks, lost>>
    /\ apiUnchanged

\* Mutant: the chunks are filtered by chatbot instead of by file.
PurgeBot(w) ==
    /\ At(w, "purge")
    /\ chunks' = {c \in chunks : c.bot # exec[w].inst.bot}
    /\ GoTo(w, "create")
    /\ UNCHANGED <<files, lost>>
    /\ apiUnchanged

\* "Delete existing chunks for this file to avoid duplicates on re-processing"
PurgeChunks(w) ==
    /\ At(w, "purge")
    /\ chunks' = chunks \ ChunksOf(exec[w].file)
    /\ GoTo(w, "create")
    /\ UNCHANGED <<files, lost>>
    /\ apiUnchanged

\* Mutant: the last chunk is left out.
CreateAllButLast(w) ==
    LET t == exec[w] IN
    /\ At(w, "create")
    /\ files[t.file] # NULL
    /\ t.inst.bot \in bots
    /\ chunks' = chunks \cup
          {[kf |-> t.file, index |-> i - 1, by |-> w, bot |-> t.inst.bot,
            doc |-> t.inst.doc, emb |-> FALSE] : i \in 1 .. NChunks[t.inst.doc] - 1}
    /\ GoTo(w, "count")
    /\ UNCHANGED <<files, lost>>
    /\ apiUnchanged

\* bulk_create, one transaction; its foreign keys need the file's row and the
\* chatbot.
CreateChunks(w) ==
    LET t == exec[w] IN
    /\ At(w, "create")
    /\ files[t.file] # NULL
    /\ t.inst.bot \in bots
    /\ chunks' = chunks \cup
          {[kf |-> t.file, index |-> i, by |-> w, bot |-> t.inst.bot,
            doc |-> t.inst.doc, emb |-> FALSE] : i \in 0 .. NChunks[t.inst.doc] - 1}
    /\ GoTo(w, "count")
    /\ UNCHANGED <<files, lost>>
    /\ apiUnchanged

\* chunk_count is saved; whether there is a key decides what comes next.
SaveCount(w) ==
    /\ At(w, "count")
    /\ SaveInstance(w, [exec[w].inst EXCEPT !.count = NChunks[exec[w].inst.doc]],
                    IF w \in Keyed THEN "embed" ELSE "nokey")

CompleteWithoutKey(w) ==
    /\ At(w, "nokey")
    /\ SaveInstance(w, [exec[w].inst EXCEPT !.status = "completed", !.error = "nokey"],
                    "return")

\* Mutant: the loop stops before a partial last batch.
EmbedFullBatches(w) ==
    LET t == exec[w]
        mine(c) == /\ c.kf = t.file /\ c.by = w
                   /\ c.index \in t.next .. t.next + BatchSize - 1
        after == t.next + BatchSize
    IN
    /\ At(w, "embed")
    /\ chunks' = {IF mine(c) THEN [c EXCEPT !.emb = TRUE] ELSE c : c \in chunks}
    /\ exec' = [exec EXCEPT ![w].next = after,
                            ![w].step = IF after + BatchSize <= NChunks[t.inst.doc]
                                        THEN "embed" ELSE "complete"]
    /\ UNCHANGED <<files, queue, lost>>
    /\ apiUnchanged

\* One batch: embed_content, then bulk_update of the rows that still exist.
EmbedBatch(w) ==
    LET t == exec[w]
        mine(c) == /\ c.kf = t.file /\ c.by = w
                   /\ c.index \in t.next .. t.next + BatchSize - 1
        after == t.next + BatchSize
    IN
    /\ At(w, "embed")
    /\ chunks' = {IF mine(c) THEN [c EXCEPT !.emb = TRUE] ELSE c : c \in chunks}
    /\ exec' = [exec EXCEPT ![w].next = after,
                            ![w].step = IF after < NChunks[t.inst.doc]
                                        THEN "embed" ELSE "complete"]
    /\ UNCHANGED <<files, queue, lost>>
    /\ apiUnchanged

\* Mutant: an exception after the final save is handled like any other.
CompleteThenRaise(w) ==
    /\ At(w, "complete")
    /\ SaveInstance(w, [exec[w].inst EXCEPT !.status = "completed"], "except")

Complete(w) ==
    /\ At(w, "complete")
    /\ SaveInstance(w, [exec[w].inst EXCEPT !.status = "completed"], "return")

\* Any statement of the try block may raise: the embedding API refuses the
\* batch, a foreign key fails, the database is unreachable.  What was assigned
\* to the object before a failing save() stays assigned.
Raise(w) ==
    LET t == exec[w] IN
    /\ t # NULL
    /\ t.step # "except"
    /\ exec' = [exec EXCEPT ![w].step = "except",
                            ![w].inst.count = IF t.step = "count"
                                              THEN NChunks[t.inst.doc] ELSE @]
    /\ UNCHANGED <<files, chunks, queue, lost>>
    /\ apiUnchanged

\* Mutant: the handler re-raises without writing the status.
HandleWithoutSave(w) ==
    /\ At(w, "except")
    /\ RaiseOut(w, exec[w].file, exec[w].retries)
    /\ UNCHANGED <<files, chunks, lost>>
    /\ apiUnchanged

\* Mutant: the handler does not write the reason.
HandleWithoutReason(w) ==
    LET t == exec[w]
        failed == [t.inst EXCEPT !.status = "failed"]
    IN
    /\ At(w, "except")
    /\ CanSave(failed)
    /\ Save(t.file, failed)
    /\ RaiseOut(w, t.file, t.retries)
    /\ UNCHANGED <<chunks, lost>>
    /\ apiUnchanged

\* The handler writes status failed and re-raises.
HandleException(w) ==
    LET t == exec[w]
        failed == [t.inst EXCEPT !.status = "failed", !.error = "exception"]
    IN
    /\ At(w, "except")
    /\ CanSave(failed)
    /\ Save(t.file, failed)
    /\ RaiseOut(w, t.file, t.retries)
    /\ UNCHANGED <<chunks, lost>>
    /\ apiUnchanged

\* The save in the handler raises too: that exception leaves the task instead.
HandlerFails(w) ==
    LET t == exec[w] IN
    /\ At(w, "except")
    /\ RaiseOut(w, t.file, t.retries)
    /\ lost' = IF t.retries < MaxRetries THEN lost ELSE lost \cup {t.file}
    /\ UNCHANGED <<files, chunks>>
    /\ apiUnchanged

\* The worker process dies; the message was acknowledged before the run.
Crash(w) ==
    /\ exec[w] # NULL
    /\ exec' = [exec EXCEPT ![w] = NULL]
    /\ lost' = lost \cup {exec[w].file}
    /\ UNCHANGED <<files, chunks, queue>>
    /\ apiUnchanged

-----------------------------------------------------------------------------
Request ==
    \/ \E f \in Files, b \in Bots, d \in Docs :
           Upload(f, b, d) \/ UploadToBot(f, b, d)
           \/ Create(f, b, d) \/ PatchSave(f, b, d)
    \/ \E f \in Files :
           SendTask(f) \/ SendFails(f) \/ PatchRead(f) \/ DeleteFile(f)
    \/ \E b \in Bots : DeleteBot(b)

\* What a live worker does next.
Work(w) ==
    \/ \E m \in queue : Fetch(w, m) \/ FetchFails(w, m)
    \/ MarkProcessing(w) \/ Extract(w) \/ NoText(w) \/ PurgeChunks(w)
    \/ CreateChunks(w) \/ SaveCount(w) \/ CompleteWithoutKey(w)
    \/ EmbedBatch(w) \/ Complete(w)
    \/ Raise(w) \/ HandleException(w) \/ HandlerFails(w)

Next == Request \/ \E w \in Workers : Work(w) \/ Crash(w)

Spec == Init /\ [][Next]_vars

\* A request that has saved its row goes on to send the task, and a worker that
\* has a message or a task goes on with it.
Fairness ==
    /\ \A f \in Files : WF_vars(SendTask(f) \/ SendFails(f))
    /\ \A w \in Workers : WF_vars(Work(w))

FairSpec == Spec /\ Fairness

-----------------------------------------------------------------------------
(* Properties. *)

\* Every table holds rows of its type, and every task a step of its program.
TypeOK ==
    /\ bots \subseteq Bots
    /\ files \in [Files -> Row \cup {NULL}]
    /\ chunks \subseteq Chunk
    /\ disk \subseteq Docs
    /\ sending \subseteq Files
    /\ patch \in [Files -> Row \cup {NULL}]
    /\ queue \subseteq Message
    /\ exec \in [Workers -> Task \cup {NULL}]
    /\ removed \subseteq Files
    /\ lost \subseteq Files

Runs(f) == {w \in Workers : exec[w] # NULL /\ exec[w].file = f}

Pending(f) == {m \in queue : m.file = f}

IndexedOnce(f) ==
    \A c1, c2 \in chunks :
        c1.kf = f /\ c2.kf = f /\ c1.index = c2.index => c1 = c2

(***************************************************************************)
(* A file whose task is delivered once never has two chunks with the same  *)
(* index, however often the task fails, is retried or dies half way: the   *)
(* delete before bulk_create does what its comment says.                   *)
(***************************************************************************)
UniqueChunks == \A f \in Files \ Redeliverable : IndexedOnce(f)

Quiet == Files \ (Redeliverable \cup Patchable \cup removed)

(***************************************************************************)
(* When the API says "completed", the knowledge base has exactly the       *)
(* chunks of the document, under the file's chatbot, the count the API     *)
(* shows is theirs, and every one has its embedding unless the row says it *)
(* was completed without a key.                                            *)
(***************************************************************************)
CompletedIsIndexed ==
    \A f \in Quiet :
        LET r == files[f] IN
        r # NULL /\ r.status = "completed" =>
            /\ r.count = NChunks[r.doc]
            /\ {c.index : c \in ChunksOf(f)} = 0 .. r.count - 1
            /\ \A c \in ChunksOf(f) : /\ c.bot = r.bot /\ c.doc = r.doc
                                      /\ c.emb \/ r.error = "nokey"

(***************************************************************************)
(* No file is left behind: when no message, no run and no upload request   *)
(* is about a file any more, its status is final, unless a crash, the      *)
(* broker or the database took its run away or a PATCH wrote back a status *)
(* it had read before the task changed it.                                 *)
(***************************************************************************)
NoneLeftBehind ==
    \A f \in Files \ lost :
        /\ files[f] # NULL
        /\ f \notin sending
        /\ Pending(f) = {}
        /\ Runs(f) = {}
        => files[f].status \in {"completed", "failed"}

(***************************************************************************)
(* processing_error always belongs to the status next to it: a file that   *)
(* completes on a retry does not show the error of the earlier run, and a  *)
(* failed one says why.                                                    *)
(***************************************************************************)
ErrorMatchesStatus ==
    \A f \in Files :
        files[f] # NULL =>
            files[f].error \in CASE files[f].status = "failed" -> {"notext", "exception"}
                                 [] files[f].status = "completed" -> {"none", "nokey"}
                                 [] OTHER -> {"none"}

(***************************************************************************)
(* A completed file stays as it is until it is deleted: no late retry sets *)
(* it back to processing or failed.                                        *)
(***************************************************************************)
CompletedIsFinal ==
    [][\A f \in Quiet :
          files[f] # NULL /\ files[f].status = "completed"
          => files'[f] \in {files[f], NULL}]_vars

(***************************************************************************)
(* A deleted KnowledgeFile no longer exists (tests/test_deletion.py).      *)
(***************************************************************************)
DeletedStaysDeleted == \A f \in removed : files[f] = NULL

(***************************************************************************)
(* Every uploaded file comes to rest, completed, failed or deleted, and    *)
(* stays there, unless its run was lost.                                   *)
(***************************************************************************)
EventuallySettles ==
    \A f \in Files \ Redeliverable :
        <>[](\/ files[f] = NULL
             \/ f \in lost
             \/ files[f].status \in {"completed", "failed"})
=============================================================================
