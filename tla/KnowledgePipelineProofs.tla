----------------------- MODULE KnowledgePipelineProofs -----------------------
(***************************************************************************)
(* Proofs about KnowledgePipeline, for every set of files, documents,      *)
(* chatbots and workers, every batch size and every number of retries.     *)
(***************************************************************************)
EXTENDS KnowledgePipeline, TLAPS

-----------------------------------------------------------------------------
(* What the records are made of. *)

\* A task in memory has the fields of its type.
LEMMA ExecTypes ==
  ASSUME TypeOK, NEW w \in Workers, exec[w] # NULL
  PROVE  /\ exec[w] \in Task
         /\ exec[w].file \in Files
         /\ exec[w].retries \in 0 .. MaxRetries
         /\ exec[w].step \in Step
         /\ exec[w].inst \in Row
         /\ exec[w].inst.bot \in Bots
         /\ exec[w].inst.doc \in Docs
         /\ NChunks[exec[w].inst.doc] \in Nat
         /\ exec[w].next \in Nat
<1>1. exec[w] \in Task
  BY DEF TypeOK
<1>2. /\ exec[w].file \in Files /\ exec[w].retries \in 0 .. MaxRetries
      /\ exec[w].step \in Step /\ exec[w].inst \in Row /\ exec[w].next \in Nat
  BY <1>1 DEF Task
<1>3. exec[w].inst.bot \in Bots /\ exec[w].inst.doc \in Docs
  BY <1>2 DEF Row
<1>4. NChunks[exec[w].inst.doc] \in Nat
  BY <1>3, KnowledgeConstants
<1> QED
  BY <1>1, <1>2, <1>3, <1>4

\* Assigning fields of a KnowledgeFile object keeps it one.
LEMMA RowUpdates ==
  ASSUME NEW r \in Row, NEW s \in Status, NEW e \in Error, NEW n \in Nat,
         NEW b \in Bots, NEW d \in Docs
  PROVE  /\ [r EXCEPT !.status = s] \in Row
         /\ [r EXCEPT !.status = s, !.error = e] \in Row
         /\ [r EXCEPT !.count = n] \in Row
         /\ [r EXCEPT !.bot = b, !.doc = d] \in Row
  BY DEF Row

\* The same for the task that holds it.
LEMMA TaskUpdates ==
  ASSUME NEW t \in Task, NEW s \in Step, NEW r \in Row, NEW n \in Nat
  PROVE  /\ [t EXCEPT !.step = s] \in Task
         /\ [t EXCEPT !.inst = r, !.step = s] \in Task
         /\ [t EXCEPT !.next = n, !.step = s] \in Task
         /\ [t EXCEPT !.step = s, !.inst = r] \in Task
  BY DEF Task

\* The statuses, errors and steps the code names.
LEMMA Names ==
  /\ {"pending", "processing", "completed", "failed"} \subseteq Status
  /\ {"none", "notext", "nokey", "exception"} \subseteq Error
  /\ {"mark", "extract", "empty", "purge", "create", "count", "nokey",
      "embed", "complete", "except"} \subseteq Step
  BY DEF Status, Error, Step

\* A message that is sent again is a message.
LEMMA RetryTypes ==
  ASSUME NEW f \in Files, NEW r \in 0 .. MaxRetries, r < MaxRetries
  PROVE  [file |-> f, retries |-> r + 1] \in Message
  BY KnowledgeConstants DEF Message

\* save() of the task's object, whatever its fields, keeps the types.
LEMMA SaveInstanceTypes ==
  ASSUME TypeOK, NEW w \in Workers, exec[w] # NULL, NEW inst \in Row,
         NEW next \in Step \cup {"return"}, SaveInstance(w, inst, next)
  PROVE  TypeOK'
<1>1. exec[w] \in Task /\ exec[w].file \in Files
  BY ExecTypes
<1>2. files' \in [Files -> Row \cup {NULL}]
  BY <1>1 DEF TypeOK, SaveInstance, Save
<1>3. exec' \in [Workers -> Task \cup {NULL}]
  <2>1. CASE next = "return"
    BY <2>1 DEF TypeOK, SaveInstance
  <2>2. CASE next # "return"
    <3>1. next \in Step
      BY <2>2
    <3>2. [exec[w] EXCEPT !.inst = inst, !.step = next] \in Task
      BY <3>1, <1>1, TaskUpdates
    <3> QED
      BY <2>2, <3>2 DEF TypeOK, SaveInstance
  <2> QED
    BY <2>1, <2>2
<1> QED
  BY <1>2, <1>3 DEF TypeOK, SaveInstance, apiUnchanged

\* GoTo keeps the types of the tasks.
LEMMA GoToTypes ==
  ASSUME TypeOK, NEW w \in Workers, exec[w] # NULL, NEW s \in Step, GoTo(w, s)
  PROVE  exec' \in [Workers -> Task \cup {NULL}] /\ queue' = queue
<1>1. [exec[w] EXCEPT !.step = s] \in Task
  BY ExecTypes, TaskUpdates
<1>2. exec' = [exec EXCEPT ![w] = [exec[w] EXCEPT !.step = s]]
  BY DEF GoTo, TypeOK
<1> QED
  BY <1>1, <1>2 DEF TypeOK, GoTo

\* An exception that leaves the task keeps the types of tasks and messages.
LEMMA RaiseOutTypes ==
  ASSUME TypeOK, NEW w \in Workers, NEW f \in Files, NEW r \in 0 .. MaxRetries,
         RaiseOut(w, f, r)
  PROVE  exec' \in [Workers -> Task \cup {NULL}] /\ queue' \subseteq Message
<1>1. exec' \in [Workers -> Task \cup {NULL}]
  BY DEF TypeOK, RaiseOut
<1>2. queue' \subseteq Message
  BY RetryTypes DEF TypeOK, RaiseOut
<1> QED
  BY <1>1, <1>2

-----------------------------------------------------------------------------
(* Types. *)

\* The empty database, queue and workers have their types.
LEMMA InitTypes == Init => TypeOK
  BY DEF Init, TypeOK

\* Requests keep the types.
LEMMA RequestTypes ==
  ASSUME TypeOK, Request
  PROVE  TypeOK'
<1>1. ASSUME NEW f \in Files, NEW b \in Bots, NEW d \in Docs, Upload(f, b, d)
      PROVE  TypeOK'
  <2>1. NewRow(b, d) \in Row
    BY Names DEF NewRow, Row
  <2> QED
    BY <1>1, <2>1 DEF TypeOK, Upload, InsertFile
<1>2. ASSUME NEW f \in Files, NEW b \in Bots, NEW d \in Docs, Create(f, b, d)
      PROVE  TypeOK'
  <2>1. NewRow(b, d) \in Row
    BY Names DEF NewRow, Row
  <2> QED
    BY <1>2, <2>1 DEF TypeOK, Create, InsertFile
<1>3. ASSUME NEW f \in Files, NEW b \in Bots, NEW d \in Docs, PatchSave(f, b, d)
      PROVE  TypeOK'
  <2>1. patch[f] \in Row
    BY <1>3 DEF TypeOK, PatchSave
  <2>2. [patch[f] EXCEPT !.bot = b, !.doc = d] \in Row
    BY <2>1, Names, RowUpdates
  <2>3. /\ bots' \subseteq Bots /\ chunks' \subseteq Chunk /\ disk' \subseteq Docs
        /\ sending' \subseteq Files /\ queue' \subseteq Message
        /\ exec' \in [Workers -> Task \cup {NULL}]
        /\ removed' \subseteq Files /\ lost' \subseteq Files
    BY <1>3 DEF TypeOK, PatchSave
  <2>4. files' \in [Files -> Row \cup {NULL}]
    BY <1>3, <2>2 DEF TypeOK, PatchSave, Save
  <2>5. patch' \in [Files -> Row \cup {NULL}]
    BY <1>3 DEF TypeOK, PatchSave
  <2> QED
    BY <2>3, <2>4, <2>5 DEF TypeOK
<1>4. ASSUME NEW f \in Files, SendTask(f)
      PROVE  TypeOK'
  <2>1. [file |-> f, retries |-> 0] \in Message
    BY KnowledgeConstants DEF Message
  <2> QED
    BY <1>4, <2>1 DEF TypeOK, SendTask
<1>5. ASSUME NEW f \in Files, SendFails(f)
      PROVE  TypeOK'
  BY <1>5 DEF TypeOK, SendFails
<1>6. ASSUME NEW f \in Files, PatchRead(f)
      PROVE  TypeOK'
  BY <1>6 DEF TypeOK, PatchRead
<1>7. ASSUME NEW f \in Files, DeleteFile(f)
      PROVE  TypeOK'
  BY <1>7 DEF TypeOK, DeleteFile
<1>8. ASSUME NEW b \in Bots, DeleteBot(b)
      PROVE  TypeOK'
  BY <1>8 DEF TypeOK, DeleteBot
<1> QED
  BY <1>1, <1>2, <1>3, <1>4, <1>5, <1>6, <1>7, <1>8 DEF Request, UploadToBot

\* Steps of a worker keep the types.
LEMMA WorkTypes ==
  ASSUME TypeOK, NEW w \in Workers, Work(w) \/ Crash(w)
  PROVE  TypeOK'
<1>1. ASSUME NEW m \in queue, Fetch(w, m)
      PROVE  TypeOK'
  <2>1. m \in Message /\ m.file \in Files /\ m.retries \in 0 .. MaxRetries
    BY <1>1 DEF TypeOK, Message
  <2>2. CASE files[m.file] = NULL
    BY <1>1, <2>2 DEF TypeOK, Fetch, apiUnchanged
  <2>3. CASE files[m.file] # NULL
    <3>1. files[m.file] \in Row
      BY <2>1, <2>3 DEF TypeOK
    <3>2. [file |-> m.file, retries |-> m.retries, step |-> "mark",
           inst |-> files[m.file], next |-> 0] \in Task
      BY <2>1, <3>1, Names DEF Task
    <3> QED
      BY <1>1, <2>3, <3>2 DEF TypeOK, Fetch, apiUnchanged
  <2> QED
    BY <2>2, <2>3
<1>2. ASSUME NEW m \in queue, FetchFails(w, m)
      PROVE  TypeOK'
  <2>1. m \in Message /\ m.file \in Files /\ m.retries \in 0 .. MaxRetries
    BY <1>2 DEF TypeOK, Message
  <2>2. m.retries < MaxRetries => [file |-> m.file, retries |-> m.retries + 1] \in Message
    BY <2>1, RetryTypes
  <2> QED
    BY <1>2, <2>1, <2>2 DEF TypeOK, FetchFails, apiUnchanged
<1>3. CASE MarkProcessing(w)
  <2>1. exec[w] # NULL /\ exec[w].inst \in Row
    BY <1>3, ExecTypes DEF MarkProcessing, At
  <2>2. Marked(exec[w].inst) \in Row
    BY <2>1, RowUpdates, Names DEF Marked, Row
  <2> QED
    BY <1>3, <2>1, <2>2, Names, SaveInstanceTypes DEF MarkProcessing
<1>4. CASE Extract(w)
  BY <1>4, GoToTypes, Names DEF TypeOK, Extract, At, apiUnchanged
<1>5. CASE NoText(w)
  <2>1. exec[w] # NULL /\ exec[w].inst \in Row
    BY <1>5, ExecTypes DEF NoText, At
  <2>2. [exec[w].inst EXCEPT !.status = "failed", !.error = "notext"] \in Row
    BY <2>1, Names DEF Row
  <2> QED
    BY <1>5, <2>1, <2>2, Names, SaveInstanceTypes DEF NoText
<1>6. CASE PurgeChunks(w)
  BY <1>6, GoToTypes, Names DEF TypeOK, PurgeChunks, At, apiUnchanged
<1>7. CASE CreateChunks(w)
  <2>1. exec[w] # NULL
    BY <1>7 DEF CreateChunks, At
  <2>2. \A i \in 0 .. NChunks[exec[w].inst.doc] - 1 :
           [kf |-> exec[w].file, index |-> i, by |-> w, bot |-> exec[w].inst.bot,
            doc |-> exec[w].inst.doc, emb |-> FALSE] \in Chunk
    BY <2>1, ExecTypes DEF Chunk
  <2>3. chunks' \subseteq Chunk
    BY <1>7, <2>2 DEF TypeOK, CreateChunks
  <2> QED
    BY <1>7, <2>1, <2>3, GoToTypes, Names DEF TypeOK, CreateChunks, apiUnchanged
<1>8. CASE SaveCount(w)
  <2>1. exec[w] # NULL /\ exec[w].inst \in Row
    BY <1>8, ExecTypes DEF SaveCount, At
  <2>2. [exec[w].inst EXCEPT !.count = NChunks[exec[w].inst.doc]] \in Row
    BY <2>1, ExecTypes DEF Row
  <2> QED
    BY <1>8, <2>1, <2>2, Names, SaveInstanceTypes DEF SaveCount
<1>9. CASE CompleteWithoutKey(w)
  <2>1. exec[w] # NULL /\ exec[w].inst \in Row
    BY <1>9, ExecTypes DEF CompleteWithoutKey, At
  <2>2. [exec[w].inst EXCEPT !.status = "completed", !.error = "nokey"] \in Row
    BY <2>1, Names DEF Row
  <2> QED
    BY <1>9, <2>1, <2>2, Names, SaveInstanceTypes DEF CompleteWithoutKey
<1>10. CASE EmbedBatch(w)
  <2>1. exec[w] # NULL
    BY <1>10 DEF EmbedBatch, At
  <2>2. \A c \in chunks : [c EXCEPT !.emb = TRUE] \in Chunk
    BY DEF TypeOK, Chunk
  <2>3. chunks' \subseteq Chunk
    BY <1>10, <2>2 DEF TypeOK, EmbedBatch
  <2> DEFINE s == IF exec[w].next + BatchSize < NChunks[exec[w].inst.doc]
                  THEN "embed" ELSE "complete"
  <2>4. exec' = [exec EXCEPT ![w] = [exec[w] EXCEPT !.next = exec[w].next + BatchSize,
                                                   !.step = s]]
    BY <1>10 DEF TypeOK, EmbedBatch
  <2>5. exec[w].next + BatchSize \in Nat /\ s \in Step
    BY <2>1, ExecTypes, KnowledgeConstants, Names
  <2> HIDE DEF s
  <2>6. [exec[w] EXCEPT !.next = exec[w].next + BatchSize, !.step = s] \in Task
    BY <2>1, <2>5, ExecTypes DEF Task
  <2> QED
    BY <1>10, <2>3, <2>4, <2>6 DEF TypeOK, EmbedBatch, apiUnchanged
<1>11. CASE Complete(w)
  <2>1. exec[w] # NULL /\ exec[w].inst \in Row
    BY <1>11, ExecTypes DEF Complete, At
  <2>2. [exec[w].inst EXCEPT !.status = "completed"] \in Row
    BY <2>1, Names DEF Row
  <2> QED
    BY <1>11, <2>1, <2>2, Names, SaveInstanceTypes DEF Complete
<1>12. CASE Raise(w)
  <2>1. exec[w] # NULL
    BY <1>12 DEF Raise
  <2> DEFINE n == IF exec[w].step = "count" THEN NChunks[exec[w].inst.doc]
                  ELSE exec[w].inst.count
             r == [exec[w].inst EXCEPT !.count = n]
  <2>2. exec' = [exec EXCEPT ![w] = [exec[w] EXCEPT !.step = "except", !.inst = r]]
    BY <1>12 DEF TypeOK, Raise
  <2>3. n \in Nat
    BY <2>1, ExecTypes DEF Row
  <2> HIDE DEF n
  <2>4. r \in Row
    BY <2>1, <2>3, ExecTypes DEF Row
  <2> HIDE DEF r
  <2>5. [exec[w] EXCEPT !.step = "except", !.inst = r] \in Task
    BY <2>1, <2>4, ExecTypes, Names DEF Task
  <2> QED
    BY <1>12, <2>2, <2>5 DEF TypeOK, Raise, apiUnchanged
<1>13. CASE HandleException(w)
  <2>1. exec[w] # NULL /\ exec[w].inst \in Row
    BY <1>13, ExecTypes DEF HandleException, At
  <2>2. [exec[w].inst EXCEPT !.status = "failed", !.error = "exception"] \in Row
    BY <2>1, Names DEF Row
  <2>3. files' \in [Files -> Row \cup {NULL}]
    BY <1>13, <2>1, <2>2, ExecTypes DEF TypeOK, HandleException, Save
  <2>4. exec' \in [Workers -> Task \cup {NULL}] /\ queue' \subseteq Message
    BY <1>13, <2>1, ExecTypes, RaiseOutTypes DEF HandleException
  <2> QED
    BY <1>13, <2>3, <2>4 DEF TypeOK, HandleException, apiUnchanged
<1>14. CASE HandlerFails(w)
  <2>1. exec[w] # NULL /\ exec[w].file \in Files
    BY <1>14, ExecTypes DEF HandlerFails, At
  <2>2. exec' \in [Workers -> Task \cup {NULL}] /\ queue' \subseteq Message
    BY <1>14, <2>1, ExecTypes, RaiseOutTypes DEF HandlerFails
  <2> QED
    BY <1>14, <2>1, <2>2 DEF TypeOK, HandlerFails, apiUnchanged
<1>15. CASE Crash(w)
  <2>1. exec[w].file \in Files
    BY <1>15, ExecTypes DEF Crash
  <2> QED
    BY <1>15, <2>1 DEF TypeOK, Crash, apiUnchanged
<1> QED
  BY <1>1, <1>2, <1>3, <1>4, <1>5, <1>6, <1>7, <1>8, <1>9, <1>10, <1>11, <1>12,
     <1>13, <1>14, <1>15 DEF Work

\* The tables, the queue and the tasks keep their types, whatever the workers
\* and the requests do.
THEOREM KnowledgeTypes == Spec => []TypeOK
<1>1. TypeOK /\ UNCHANGED vars => TypeOK'
  BY DEF TypeOK, vars
<1>2. TypeOK /\ [Next]_vars => TypeOK'
  BY <1>1, RequestTypes, WorkTypes DEF Next
<1> QED
  BY <1>2, InitTypes, PTL DEF Spec

-----------------------------------------------------------------------------
(***************************************************************************)
(* NoneLeftBehind is inductive once the types are known: whoever stops     *)
(* attending to a file either wrote a final status, or passed the file on  *)
(* to a message, or is recorded in lost.                                   *)
(***************************************************************************)
Attended(f) ==
    \/ f \in sending
    \/ \E m \in queue : m.file = f
    \/ \E w \in Workers : exec[w] # NULL /\ exec[w].file = f

Safe(f) ==
    files[f] # NULL => Attended(f) \/ files[f].status \in {"completed", "failed"}

\* NoneLeftBehind, with its three places in which a file can be attended to.
LEMMA NoneLeftBehindAsSafe == NoneLeftBehind <=> \A f \in Files \ lost : Safe(f)
  BY DEF NoneLeftBehind, Safe, Attended, Pending, Runs

\* No request of the API leaves a file behind.
LEMMA RequestSafe ==
  ASSUME TypeOK, Request, NEW f \in Files \ lost', Safe(f), f \notin lost
  PROVE  Safe(f)'
<1>1. ASSUME NEW g \in Files, NEW b \in Bots, NEW d \in Docs, Upload(g, b, d)
      PROVE  Safe(f)'
  BY <1>1 DEF TypeOK, Upload, InsertFile, Safe, Attended
<1>2. ASSUME NEW g \in Files, NEW b \in Bots, NEW d \in Docs, Create(g, b, d)
      PROVE  Safe(f)'
  BY <1>2 DEF TypeOK, Create, InsertFile, Safe, Attended
<1>3. ASSUME NEW g \in Files, NEW b \in Bots, NEW d \in Docs, PatchSave(g, b, d)
      PROVE  Safe(f)'
  <2>1. CASE f # g
    BY <1>3, <2>1 DEF TypeOK, PatchSave, Save, Safe, Attended
  <2>2. CASE f = g
    <3>1. patch[f] \in Row /\ files[f] # NULL /\ files[f].status = patch[f].status
      BY <1>3, <2>2 DEF TypeOK, PatchSave
    <3>2. files'[f].status = files[f].status
      BY <1>3, <2>2, <3>1 DEF TypeOK, PatchSave, Save, Row
    <3> QED
      BY <1>3, <3>1, <3>2 DEF PatchSave, Safe, Attended
  <2> QED
    BY <2>1, <2>2
<1>4. ASSUME NEW g \in Files, SendTask(g)
      PROVE  Safe(f)'
  <2>1. /\ files' = files /\ exec' = exec /\ queue \subseteq queue'
        /\ \E m \in queue' : m.file = g
        /\ f # g => (f \in sending' <=> f \in sending)
    <3>1. [file |-> g, retries |-> 0] \in queue'
      BY <1>4 DEF SendTask
    <3>2. [file |-> g, retries |-> 0].file = g
      OBVIOUS
    <3> QED
      BY <1>4, <3>1, <3>2 DEF SendTask
  <2> QED
    BY <2>1 DEF Safe, Attended
<1>5. ASSUME NEW g \in Files, SendFails(g)
      PROVE  Safe(f)'
  BY <1>5 DEF TypeOK, SendFails, Safe, Attended
<1>6. ASSUME NEW g \in Files, PatchRead(g)
      PROVE  Safe(f)'
  BY <1>6 DEF TypeOK, PatchRead, Safe, Attended
<1>7. ASSUME NEW g \in Files, DeleteFile(g)
      PROVE  Safe(f)'
  BY <1>7 DEF TypeOK, DeleteFile, Safe, Attended
<1>8. ASSUME NEW b \in Bots, DeleteBot(b)
      PROVE  Safe(f)'
  BY <1>8 DEF TypeOK, DeleteBot, Safe, Attended
<1> QED
  BY <1>1, <1>2, <1>3, <1>4, <1>5, <1>6, <1>7, <1>8 DEF Request, UploadToBot

\* A step of w that goes on with its task, and may save its file on the way,
\* leaves every file attended to as it was.
LEMMA GoesOnSafe ==
  ASSUME TypeOK, NEW w \in Workers, exec[w] # NULL, NEW t,
         t # NULL, t.file = exec[w].file,
         exec' = [exec EXCEPT ![w] = t], queue' = queue, sending' = sending,
         NEW f \in Files, Safe(f),
         f # exec[w].file => files'[f] = files[f]
  PROVE  Safe(f)'
<1>1. exec'[w] = t /\ \A v \in Workers : v # w => exec'[v] = exec[v]
  BY DEF TypeOK
<1>2. CASE f = exec[w].file
  BY <1>1, <1>2 DEF Safe, Attended
<1>3. CASE f # exec[w].file
  BY <1>1, <1>3 DEF Safe, Attended
<1> QED
  BY <1>2, <1>3

\* A step of w that ends its task leaves its file with a final status or with
\* a message, and the others as they were.
LEMMA EndsSafe ==
  ASSUME TypeOK, NEW w \in Workers, exec[w] # NULL,
         exec' = [exec EXCEPT ![w] = NULL], queue \subseteq queue', sending' = sending,
         NEW f \in Files, Safe(f),
         f # exec[w].file => files'[f] = files[f],
         f = exec[w].file => \/ files'[f].status \in {"completed", "failed"}
                             \/ \E m \in queue' : m.file = f
  PROVE  Safe(f)'
<1>1. \A v \in Workers : v # w => exec'[v] = exec[v]
  BY DEF TypeOK
<1>2. CASE f = exec[w].file
  BY <1>2 DEF Safe, Attended
<1>3. CASE f # exec[w].file
  BY <1>1, <1>3 DEF Safe, Attended
<1> QED
  BY <1>2, <1>3

\* save() of the task's object in the middle of the task, and at its end.
LEMMA SaveInstanceSafe ==
  ASSUME TypeOK, NEW w \in Workers, exec[w] # NULL, NEW inst \in Row,
         NEW next \in Step \cup {"return"}, SaveInstance(w, inst, next),
         next = "return" => inst.status \in {"completed", "failed"},
         NEW f \in Files, Safe(f)
  PROVE  Safe(f)'
<1>1. exec[w] \in Task /\ exec[w].file \in Files
  BY ExecTypes
<1>2. /\ files'[exec[w].file] = inst
      /\ f # exec[w].file => files'[f] = files[f]
  BY <1>1 DEF TypeOK, SaveInstance, Save
<1>3. CASE next = "return"
  <2>1. exec' = [exec EXCEPT ![w] = NULL] /\ queue' = queue /\ sending' = sending
    BY <1>3 DEF SaveInstance, apiUnchanged
  <2> QED
    BY <1>2, <1>3, <2>1, EndsSafe
<1>4. CASE next # "return"
  <2> DEFINE t == [exec[w] EXCEPT !.inst = inst, !.step = next]
  <2>1. exec' = [exec EXCEPT ![w] = t] /\ queue' = queue /\ sending' = sending
    BY <1>4 DEF SaveInstance, apiUnchanged
  <2>2. t # NULL /\ t.file = exec[w].file
    BY <1>1, <1>4, TaskUpdates, NullIsNothing DEF Task
  <2> HIDE DEF t
  <2> QED
    BY <1>2, <2>1, <2>2, GoesOnSafe
<1> QED
  BY <1>3, <1>4

\* An exception that leaves the task: the file has its message again, unless
\* the retries are used up.
LEMMA RaiseOutQueue ==
  ASSUME NEW w \in Workers, NEW f \in Files, NEW r, RaiseOut(w, f, r)
  PROVE  /\ queue \subseteq queue'
         /\ exec' = [exec EXCEPT ![w] = NULL]
         /\ r < MaxRetries => \E m \in queue' : m.file = f
<1>1. queue \subseteq queue' /\ exec' = [exec EXCEPT ![w] = NULL]
  BY DEF RaiseOut
<1>2. r < MaxRetries => [file |-> f, retries |-> r + 1] \in queue'
  BY DEF RaiseOut
<1>3. [file |-> f, retries |-> r + 1].file = f
  OBVIOUS
<1> QED
  BY <1>1, <1>2, <1>3

\* What GoTo changes.
LEMMA GoToKeeps ==
  ASSUME TypeOK, NEW w \in Workers, exec[w] # NULL, NEW s \in Step, GoTo(w, s)
  PROVE  \E t \in Task : /\ t # NULL /\ t.file = exec[w].file
                         /\ exec' = [exec EXCEPT ![w] = t] /\ queue' = queue
<1> DEFINE t == [exec[w] EXCEPT !.step = s]
<1>1. t \in Task /\ t # NULL
  BY ExecTypes, TaskUpdates, NullIsNothing
<1>2. t.file = exec[w].file
  BY ExecTypes DEF Task
<1>3. exec' = [exec EXCEPT ![w] = t] /\ queue' = queue
  BY DEF GoTo, TypeOK
<1> HIDE DEF t
<1> QED
  BY <1>1, <1>2, <1>3

\* No statement of process_knowledge_file, and no crash, leaves a file
\* behind.
LEMMA WorkSafe ==
  ASSUME TypeOK, NEW w \in Workers, Work(w) \/ Crash(w),
         NEW f \in Files \ lost', Safe(f), f \notin lost
  PROVE  Safe(f)'
<1>1. ASSUME NEW m \in queue, Fetch(w, m)
      PROVE  Safe(f)'
  <2>1. CASE files[m.file] = NULL
    BY <1>1, <2>1 DEF Fetch, Safe, Attended, apiUnchanged
  <2>2. CASE files[m.file] # NULL
    <3> DEFINE t == [file |-> m.file, retries |-> m.retries, step |-> "mark",
                     inst |-> files[m.file], next |-> 0]
    <3>1. t \in Task /\ t.file = m.file
      <4>1. m \in Message /\ m.file \in Files /\ m.retries \in 0 .. MaxRetries
        BY DEF TypeOK, Message
      <4>2. files[m.file] \in Row
        BY <4>1, <2>2 DEF TypeOK
      <4> QED
        BY <4>1, <4>2, Names DEF Task
    <3>2. /\ exec' = [exec EXCEPT ![w] = t] /\ exec[w] = NULL /\ files' = files
          /\ queue \ {m} \subseteq queue' /\ sending' = sending
      BY <1>1, <2>2 DEF Fetch, apiUnchanged
    <3> HIDE DEF t
    <3>3. exec'[w] = t /\ t # NULL /\ \A v \in Workers : v # w => exec'[v] = exec[v]
      BY <3>1, <3>2, NullIsNothing DEF TypeOK
    <3> QED
      BY <3>1, <3>2, <3>3 DEF Safe, Attended
  <2> QED
    BY <2>1, <2>2
<1>2. ASSUME NEW m \in queue, FetchFails(w, m)
      PROVE  Safe(f)'
  <2>1. /\ files' = files /\ exec' = exec /\ sending' = sending
        /\ queue \ {m} \subseteq queue'
    BY <1>2 DEF FetchFails, apiUnchanged
  <2>2. m.file = f => \E n \in queue' : n.file = f
    <3> SUFFICES ASSUME m.file = f PROVE \E n \in queue' : n.file = f
      OBVIOUS
    <3>1. m.retries < MaxRetries
      BY <1>2 DEF FetchFails
    <3>2. [file |-> m.file, retries |-> m.retries + 1] \in queue'
      BY <1>2, <3>1 DEF FetchFails
    <3>3. [file |-> m.file, retries |-> m.retries + 1].file = f
      OBVIOUS
    <3> QED
      BY <3>2, <3>3
  <2> QED
    BY <2>1, <2>2 DEF Safe, Attended
<1>3. CASE MarkProcessing(w)
  <2>1. exec[w] # NULL /\ exec[w].inst \in Row
    BY <1>3, ExecTypes DEF MarkProcessing, At
  <2>2. Marked(exec[w].inst) \in Row
    BY <2>1, Names DEF Marked, Row
  <2> QED
    BY <1>3, <2>1, <2>2, Names, SaveInstanceSafe DEF MarkProcessing
<1>4. CASE Extract(w)
  BY <1>4, GoToKeeps, Names, GoesOnSafe DEF Extract, At, apiUnchanged
<1>5. CASE NoText(w)
  <2> DEFINE r == [exec[w].inst EXCEPT !.status = "failed", !.error = "notext"]
  <2>1. exec[w] # NULL /\ exec[w].inst \in Row
    BY <1>5, ExecTypes DEF NoText, At
  <2>2. r \in Row /\ r.status = "failed"
    BY <2>1, Names DEF Row
  <2>3. SaveInstance(w, r, "return")
    BY <1>5 DEF NoText
  <2> HIDE DEF r
  <2> QED
    BY <2>1, <2>2, <2>3, Names, SaveInstanceSafe
<1>6. CASE PurgeChunks(w)
  BY <1>6, GoToKeeps, Names, GoesOnSafe DEF PurgeChunks, At, apiUnchanged
<1>7. CASE CreateChunks(w)
  BY <1>7, GoToKeeps, Names, GoesOnSafe DEF CreateChunks, At, apiUnchanged
<1>8. CASE SaveCount(w)
  <2> DEFINE r == [exec[w].inst EXCEPT !.count = NChunks[exec[w].inst.doc]]
  <2>1. exec[w] # NULL /\ exec[w].inst \in Row
    BY <1>8, ExecTypes DEF SaveCount, At
  <2>2. r \in Row
    BY <2>1, ExecTypes DEF Row
  <2>3. SaveInstance(w, r, IF w \in Keyed THEN "embed" ELSE "nokey")
    BY <1>8 DEF SaveCount
  <2> HIDE DEF r
  <2> QED
    BY <2>1, <2>2, <2>3, Names, SaveInstanceSafe
<1>9. CASE CompleteWithoutKey(w)
  <2> DEFINE r == [exec[w].inst EXCEPT !.status = "completed", !.error = "nokey"]
  <2>1. exec[w] # NULL /\ exec[w].inst \in Row
    BY <1>9, ExecTypes DEF CompleteWithoutKey, At
  <2>2. r \in Row /\ r.status = "completed"
    BY <2>1, Names DEF Row
  <2>3. SaveInstance(w, r, "return")
    BY <1>9 DEF CompleteWithoutKey
  <2> HIDE DEF r
  <2> QED
    BY <2>1, <2>2, <2>3, Names, SaveInstanceSafe
<1>10. CASE EmbedBatch(w)
  <2>1. exec[w] # NULL
    BY <1>10 DEF EmbedBatch, At
  <2> DEFINE s == IF exec[w].next + BatchSize < NChunks[exec[w].inst.doc]
                  THEN "embed" ELSE "complete"
             t == [exec[w] EXCEPT !.next = exec[w].next + BatchSize, !.step = s]
  <2>2. exec' = [exec EXCEPT ![w] = t]
    BY <1>10 DEF TypeOK, EmbedBatch
  <2>3. exec[w].next + BatchSize \in Nat /\ s \in Step
    BY <2>1, ExecTypes, KnowledgeConstants, Names
  <2>4. files' = files /\ queue' = queue /\ sending' = sending
    BY <1>10 DEF EmbedBatch, apiUnchanged
  <2> HIDE DEF s
  <2>5. t # NULL /\ t.file = exec[w].file
    BY <2>1, <2>3, ExecTypes, NullIsNothing DEF Task
  <2> HIDE DEF t
  <2> QED
    BY <2>1, <2>2, <2>4, <2>5, GoesOnSafe
<1>11. CASE Complete(w)
  <2> DEFINE r == [exec[w].inst EXCEPT !.status = "completed"]
  <2>1. exec[w] # NULL /\ exec[w].inst \in Row
    BY <1>11, ExecTypes DEF Complete, At
  <2>2. r \in Row /\ r.status = "completed"
    BY <2>1, Names DEF Row
  <2>3. SaveInstance(w, r, "return")
    BY <1>11 DEF Complete
  <2> HIDE DEF r
  <2> QED
    BY <2>1, <2>2, <2>3, Names, SaveInstanceSafe
<1>12. CASE Raise(w)
  <2>1. exec[w] # NULL
    BY <1>12 DEF Raise
  <2> DEFINE n == IF exec[w].step = "count" THEN NChunks[exec[w].inst.doc]
                  ELSE exec[w].inst.count
             r == [exec[w].inst EXCEPT !.count = n]
             t == [exec[w] EXCEPT !.step = "except", !.inst = r]
  <2>2. exec' = [exec EXCEPT ![w] = t]
    BY <1>12 DEF TypeOK, Raise
  <2>3. n \in Nat
    BY <2>1, ExecTypes DEF Row
  <2> HIDE DEF n
  <2>4. r \in Row
    BY <2>1, <2>3, ExecTypes DEF Row
  <2> HIDE DEF r
  <2>5. t # NULL /\ t.file = exec[w].file
    BY <2>1, <2>4, ExecTypes, Names, NullIsNothing DEF Task
  <2> HIDE DEF t
  <2>6. files' = files /\ queue' = queue /\ sending' = sending
    BY <1>12 DEF Raise, apiUnchanged
  <2> QED
    BY <2>1, <2>2, <2>5, <2>6, GoesOnSafe
<1>13. CASE HandleException(w)
  <2> DEFINE r == [exec[w].inst EXCEPT !.status = "failed", !.error = "exception"]
  <2>1. exec[w] # NULL /\ exec[w].inst \in Row /\ exec[w].file \in Files
    BY <1>13, ExecTypes DEF HandleException, At
  <2>2. r.status = "failed"
    BY <2>1 DEF Row
  <2>3. files' = [files EXCEPT ![exec[w].file] = r] /\ sending' = sending
    BY <1>13 DEF HandleException, Save, apiUnchanged
  <2>4. /\ files'[exec[w].file] = r
        /\ f # exec[w].file => files'[f] = files[f]
    BY <2>1, <2>3 DEF TypeOK
  <2>5. queue \subseteq queue' /\ exec' = [exec EXCEPT ![w] = NULL]
    BY <1>13, <2>1, RaiseOutQueue DEF HandleException
  <2> HIDE DEF r
  <2> QED
    BY <2>1, <2>2, <2>3, <2>4, <2>5, EndsSafe
<1>14. CASE HandlerFails(w)
  <2>1. exec[w] # NULL /\ exec[w].file \in Files
    BY <1>14, ExecTypes DEF HandlerFails, At
  <2>2. /\ queue \subseteq queue' /\ exec' = [exec EXCEPT ![w] = NULL]
        /\ exec[w].retries < MaxRetries => \E m \in queue' : m.file = exec[w].file
    BY <1>14, <2>1, RaiseOutQueue DEF HandlerFails
  <2>3. f = exec[w].file => exec[w].retries < MaxRetries
    BY <1>14 DEF HandlerFails
  <2>4. files' = files /\ sending' = sending
    BY <1>14 DEF HandlerFails, apiUnchanged
  <2> QED
    BY <2>1, <2>2, <2>3, <2>4, EndsSafe
<1>15. CASE Crash(w)
  <2>1. f # exec[w].file
    BY <1>15 DEF Crash
  <2>2. \A v \in Workers : v # w => exec'[v] = exec[v]
    BY <1>15 DEF Crash, TypeOK
  <2> QED
    BY <1>15, <2>1, <2>2 DEF Crash, Safe, Attended, apiUnchanged
<1> QED
  BY <1>1, <1>2, <1>3, <1>4, <1>5, <1>6, <1>7, <1>8, <1>9, <1>10, <1>11, <1>12,
     <1>13, <1>14, <1>15 DEF Work

\* lost only grows: it is a history variable.
LEMMA LostGrows == Next => lost \subseteq lost'
<1>1. Request => lost \subseteq lost'
  BY DEF Request, Upload, UploadToBot, Create, PatchSave, SendTask, SendFails,
         PatchRead, DeleteFile, DeleteBot
<1>2. \A w \in Workers : Work(w) \/ Crash(w) => lost \subseteq lost'
  BY DEF Work, Crash, Fetch, FetchFails, MarkProcessing, Extract, NoText, PurgeChunks,
         CreateChunks, SaveCount, CompleteWithoutKey, EmbedBatch, Complete, Raise,
         HandleException, HandlerFails, SaveInstance
<1> QED
  BY <1>1, <1>2 DEF Next

\* No file is left pending or processing with nobody attending to it, however
\* many workers run, fail and retry, and whatever is patched, deleted or
\* delivered twice meanwhile.
THEOREM KnowledgeNoneLeftBehind == Spec => []NoneLeftBehind
<1>1. Init => NoneLeftBehind
  BY DEF Init, NoneLeftBehind
<1>2. TypeOK /\ NoneLeftBehind /\ Next => NoneLeftBehind'
  <2> SUFFICES ASSUME TypeOK, NoneLeftBehind, Next, NEW f \in Files \ lost'
               PROVE  Safe(f)'
    BY DEF NoneLeftBehind, Safe, Attended, Pending, Runs
  <2>1. f \notin lost /\ Safe(f)
    BY LostGrows, NoneLeftBehindAsSafe
  <2> QED
    BY <2>1, RequestSafe, WorkSafe DEF Next
<1>3. NoneLeftBehind /\ UNCHANGED vars => NoneLeftBehind'
  BY DEF NoneLeftBehind, Pending, Runs, vars
<1>4. TypeOK /\ NoneLeftBehind /\ [Next]_vars => NoneLeftBehind'
  BY <1>2, <1>3
<1> QED
  BY <1>1, <1>4, KnowledgeTypes, PTL DEF Spec

-----------------------------------------------------------------------------
(***************************************************************************)
(* UniqueChunks needs more than itself.  While the broker delivers a       *)
(* message once, a file is in one place at a time:                         *)
(* in the request that uploaded it, in one message or in one run (Single), *)
(* and in none before it exists (Fresh).  Hence nobody else creates its    *)
(* chunks between the run's delete and its bulk_create (Wiped).            *)
(***************************************************************************)
Handling(w, f) == exec[w] # NULL /\ exec[w].file = f

Single(f) ==
    /\ f \in sending => /\ \A m \in queue : m.file # f
                        /\ \A w \in Workers : ~Handling(w, f)
    /\ \A m \in queue : m.file = f => /\ \A n \in queue : n.file = f => n = m
                                      /\ \A w \in Workers : ~Handling(w, f)
    /\ \A v, w \in Workers : Handling(v, f) /\ Handling(w, f) => v = w

Fresh(f) == files[f] = NULL /\ f \notin removed => ~Attended(f)

Wiped(f) ==
    \A w \in Workers : Handling(w, f) /\ exec[w].step = "create" => ChunksOf(f) = {}

OneRun(f) == Single(f) /\ Fresh(f) /\ Wiped(f) /\ IndexedOnce(f)

OneRunInv == \A f \in Files \ Redeliverable : OneRun(f)

-----------------------------------------------------------------------------
\* A step of a busy worker concerns its own file alone: it goes on with a task
\* on the same file, or ends and at most sends that file's message again.
Continues(w, t) ==
    /\ t \in Task
    /\ t.file = exec[w].file
    /\ exec' = [exec EXCEPT ![w] = t]
    /\ queue' = queue

Ends(w) ==
    /\ exec' = [exec EXCEPT ![w] = NULL]
    /\ \/ queue' = queue
       \/ \E m \in Message : m.file = exec[w].file /\ queue' = queue \cup {m}

OwnFileOnly(w) ==
    /\ sending' = sending /\ removed' = removed /\ bots' = bots
    /\ \A g \in Files : g # exec[w].file => files'[g] = files[g]
    /\ files' = files \/ files'[exec[w].file] # NULL
    /\ Ends(w) \/ \E t \in Task : Continues(w, t)

\* What save() in the task changes: the row of its own file, and its own
\* step.
LEMMA SaveInstanceShape ==
  ASSUME TypeOK, NEW w \in Workers, exec[w] # NULL, NEW inst \in Row,
         NEW next \in Step \cup {"return"}, SaveInstance(w, inst, next)
  PROVE  /\ OwnFileOnly(w)
         /\ files'[exec[w].file] = inst
         /\ chunks' = chunks
         /\ next = "return" => Ends(w)
         /\ next # "return" => Continues(w, [exec[w] EXCEPT !.inst = inst, !.step = next])
<1>1. exec[w] \in Task /\ exec[w].file \in Files /\ inst # NULL
  BY ExecTypes, NullIsNothing
<1>2. files'[exec[w].file] = inst /\ \A g \in Files : g # exec[w].file => files'[g] = files[g]
  BY <1>1 DEF TypeOK, SaveInstance, Save
<1>3. next = "return" => Ends(w)
  BY DEF SaveInstance, Ends
<1>4. next # "return" => Continues(w, [exec[w] EXCEPT !.inst = inst, !.step = next])
  <2> SUFFICES ASSUME next # "return"
               PROVE  Continues(w, [exec[w] EXCEPT !.inst = inst, !.step = next])
    OBVIOUS
  <2> DEFINE t == [exec[w] EXCEPT !.inst = inst, !.step = next]
  <2>1. t \in Task
    BY <1>1, TaskUpdates
  <2>2. t.file = exec[w].file
    BY <1>1 DEF Task
  <2>3. exec' = [exec EXCEPT ![w] = t] /\ queue' = queue
    BY DEF SaveInstance
  <2> HIDE DEF t
  <2>4. Continues(w, t)
    BY <2>1, <2>2, <2>3 DEF Continues
  <2> QED
    BY <2>4 DEF t
<1>5. Ends(w) \/ \E t \in Task : Continues(w, t)
  BY <1>3, <1>4 DEF Continues
<1> QED
  BY <1>1, <1>2, <1>3, <1>4, <1>5 DEF OwnFileOnly, SaveInstance, apiUnchanged

\* What a statement that only moves on changes.
LEMMA GoToShape ==
  ASSUME TypeOK, NEW w \in Workers, exec[w] # NULL, NEW s \in Step, GoTo(w, s),
         files' = files, apiUnchanged
  PROVE  OwnFileOnly(w) /\ Continues(w, [exec[w] EXCEPT !.step = s])
<1> DEFINE t == [exec[w] EXCEPT !.step = s]
<1>1. t \in Task
  BY ExecTypes, TaskUpdates
<1>2. t.file = exec[w].file
  BY ExecTypes DEF Task
<1>3. exec' = [exec EXCEPT ![w] = t] /\ queue' = queue
  BY DEF GoTo, TypeOK
<1> HIDE DEF t
<1>4. Continues(w, t)
  BY <1>1, <1>2, <1>3 DEF Continues
<1>5. OwnFileOnly(w)
  BY <1>1, <1>4 DEF OwnFileOnly, apiUnchanged
<1> QED
  BY <1>4, <1>5 DEF t

\* What the end of a task by an exception changes: at most a retry of its
\* own file is queued.
LEMMA RaiseOutShape ==
  ASSUME TypeOK, NEW w \in Workers, exec[w] # NULL,
         RaiseOut(w, exec[w].file, exec[w].retries)
  PROVE  Ends(w)
<1> DEFINE m == [file |-> exec[w].file, retries |-> exec[w].retries + 1]
<1>1. exec[w].file \in Files /\ exec[w].retries \in 0 .. MaxRetries
  BY ExecTypes
<1>2. exec[w].retries < MaxRetries => m \in Message
  BY <1>1, RetryTypes
<1>3. m.file = exec[w].file
  OBVIOUS
<1>4. queue' = queue \/ (exec[w].retries < MaxRetries /\ queue' = queue \cup {m})
  BY DEF RaiseOut
<1> HIDE DEF m
<1> QED
  BY <1>2, <1>3, <1>4 DEF RaiseOut, Ends

\* What Raise does to the task.
LEMMA RaiseShape ==
  ASSUME TypeOK, NEW w \in Workers, Raise(w)
  PROVE  /\ OwnFileOnly(w)
         /\ \E t \in Task : /\ Continues(w, t) /\ t.step = "except"
                            /\ t.inst.bot = exec[w].inst.bot
                            /\ t.inst.doc = exec[w].inst.doc
                            /\ t.inst.status = exec[w].inst.status
<1>1. exec[w] # NULL
  BY DEF Raise
<1> DEFINE n == IF exec[w].step = "count" THEN NChunks[exec[w].inst.doc]
                ELSE exec[w].inst.count
           r == [exec[w].inst EXCEPT !.count = n]
           t == [exec[w] EXCEPT !.step = "except", !.inst = r]
<1>2. exec' = [exec EXCEPT ![w] = t]
  BY DEF TypeOK, Raise
<1>3. n \in Nat
  BY <1>1, ExecTypes DEF Row
<1> HIDE DEF n
<1>4. /\ r \in Row /\ r.bot = exec[w].inst.bot /\ r.doc = exec[w].inst.doc
      /\ r.status = exec[w].inst.status
  BY <1>1, <1>3, ExecTypes DEF Row
<1> HIDE DEF r
<1>5. t \in Task /\ t.file = exec[w].file /\ t.step = "except" /\ t.inst = r
  BY <1>1, <1>4, ExecTypes, Names DEF Task
<1> HIDE DEF t
<1>6. Continues(w, t)
  BY <1>2, <1>5 DEF Continues, Raise
<1>7. OwnFileOnly(w)
  BY <1>5, <1>6 DEF OwnFileOnly, Raise, apiUnchanged
<1> QED
  BY <1>4, <1>5, <1>6, <1>7

\* What EmbedBatch does to the task.
LEMMA EmbedShape ==
  ASSUME TypeOK, NEW w \in Workers, EmbedBatch(w)
  PROVE  /\ OwnFileOnly(w)
         /\ \E t \in Task : /\ Continues(w, t) /\ t.inst = exec[w].inst
                            /\ t.next = exec[w].next + BatchSize
                            /\ t.step = IF t.next < NChunks[exec[w].inst.doc]
                                        THEN "embed" ELSE "complete"
<1>1. exec[w] # NULL
  BY DEF EmbedBatch, At
<1> DEFINE n == exec[w].next + BatchSize
           s == IF n < NChunks[exec[w].inst.doc] THEN "embed" ELSE "complete"
           t == [exec[w] EXCEPT !.next = n, !.step = s]
<1>2. exec' = [exec EXCEPT ![w] = t]
  BY DEF TypeOK, EmbedBatch
<1>3. n \in Nat /\ s \in Step
  BY <1>1, ExecTypes, KnowledgeConstants, Names
<1>4. s = IF n < NChunks[exec[w].inst.doc] THEN "embed" ELSE "complete"
  OBVIOUS
<1>5. n = exec[w].next + BatchSize
  OBVIOUS
<1> HIDE DEF s, n
<1>6. t \in Task /\ t.file = exec[w].file /\ t.inst = exec[w].inst /\ t.next = n /\ t.step = s
  BY <1>1, <1>3, ExecTypes DEF Task
<1> HIDE DEF t
<1>7. Continues(w, t)
  BY <1>2, <1>6 DEF Continues, EmbedBatch
<1>8. OwnFileOnly(w)
  BY <1>6, <1>7 DEF OwnFileOnly, EmbedBatch, apiUnchanged
<1> QED
  BY <1>4, <1>5, <1>6, <1>7, <1>8

\* The steps of a busy worker, and the only one that leads to "create".
LEMMA WorkShape ==
  ASSUME TypeOK, NEW w \in Workers, exec[w] # NULL, Work(w) \/ Crash(w)
  PROVE  /\ OwnFileOnly(w)
         /\ exec'[w] # NULL /\ exec'[w].step = "create" => PurgeChunks(w)
<1>1. exec[w] \in Task /\ exec[w].inst \in Row
  BY ExecTypes
<1>2. ASSUME NEW t \in Task, Continues(w, t), t.step # "create"
      PROVE  exec'[w].step # "create"
  BY <1>2 DEF Continues, TypeOK
<1>3. ASSUME Ends(w)
      PROVE  exec'[w] = NULL
  BY <1>3 DEF Ends, TypeOK
<1>4. ASSUME NEW inst \in Row, NEW next \in (Step \ {"create"}) \cup {"return"},
             SaveInstance(w, inst, next)
      PROVE  OwnFileOnly(w) /\ (exec'[w] # NULL => exec'[w].step # "create")
  <2>1. CASE next = "return"
    BY <2>1, <1>3, <1>4, SaveInstanceShape
  <2>2. CASE next # "return"
    <3> DEFINE t == [exec[w] EXCEPT !.inst = inst, !.step = next]
    <3>1. OwnFileOnly(w) /\ Continues(w, t)
      BY <2>2, <1>4, SaveInstanceShape
    <3>2. t \in Task /\ t.step = next
      BY <2>2, <1>1, <1>4 DEF Task
    <3> HIDE DEF t
    <3> QED
      BY <3>1, <3>2, <2>2, <1>2, <1>4
  <2> QED
    BY <2>1, <2>2
<1>5. ASSUME NEW s \in Step, GoTo(w, s), files' = files, apiUnchanged, s # "create"
      PROVE  OwnFileOnly(w) /\ exec'[w].step # "create"
  <2> DEFINE t == [exec[w] EXCEPT !.step = s]
  <2>1. OwnFileOnly(w) /\ Continues(w, t)
    BY <1>5, GoToShape
  <2>2. t \in Task /\ t.step = s
    BY <1>1, TaskUpdates DEF Task
  <2> HIDE DEF t
  <2> QED
    BY <2>1, <2>2, <1>2, <1>5
<1>6. CASE MarkProcessing(w)
  <2>1. Marked(exec[w].inst) \in Row
    BY <1>1, Names DEF Marked, Row
  <2> QED
    BY <1>6, <2>1, <1>4, Names DEF MarkProcessing
<1>7. CASE Extract(w)
  BY <1>7, <1>5, Names DEF Extract
<1>8. CASE NoText(w)
  <2>1. [exec[w].inst EXCEPT !.status = "failed", !.error = "notext"] \in Row
    BY <1>1, Names DEF Row
  <2> QED
    BY <1>8, <2>1, <1>4 DEF NoText
<1>9. CASE PurgeChunks(w)
  BY <1>9, GoToShape, Names DEF PurgeChunks
<1>10. CASE CreateChunks(w)
  BY <1>10, <1>5, Names DEF CreateChunks
<1>11. CASE SaveCount(w)
  <2>1. [exec[w].inst EXCEPT !.count = NChunks[exec[w].inst.doc]] \in Row
    BY <1>1, ExecTypes DEF Row
  <2> QED
    BY <1>11, <2>1, <1>4, Names DEF SaveCount
<1>12. CASE CompleteWithoutKey(w)
  <2>1. [exec[w].inst EXCEPT !.status = "completed", !.error = "nokey"] \in Row
    BY <1>1, Names DEF Row
  <2> QED
    BY <1>12, <2>1, <1>4 DEF CompleteWithoutKey
<1>13. CASE EmbedBatch(w)
  BY <1>13, <1>2, EmbedShape
<1>14. CASE Complete(w)
  <2>1. [exec[w].inst EXCEPT !.status = "completed"] \in Row
    BY <1>1, Names DEF Row
  <2> QED
    BY <1>14, <2>1, <1>4 DEF Complete
<1>15. CASE Raise(w)
  BY <1>15, <1>2, RaiseShape
<1>16. CASE HandleException(w)
  <2>1. [exec[w].inst EXCEPT !.status = "failed", !.error = "exception"] # NULL
    BY <1>1, Names, NullIsNothing DEF Row
  <2>2. Ends(w)
    BY <1>16, RaiseOutShape DEF HandleException
  <2>3. /\ files'[exec[w].file] # NULL
        /\ \A g \in Files : g # exec[w].file => files'[g] = files[g]
    BY <1>16, <2>1, ExecTypes DEF HandleException, Save, TypeOK
  <2> QED
    BY <1>3, <1>16, <2>2, <2>3 DEF OwnFileOnly, HandleException, apiUnchanged
<1>17. CASE HandlerFails(w)
  BY <1>3, <1>17, RaiseOutShape DEF OwnFileOnly, HandlerFails, apiUnchanged
<1>18. CASE Crash(w)
  BY <1>3, <1>18 DEF OwnFileOnly, Crash, Ends, apiUnchanged
<1> QED
  BY <1>6, <1>7, <1>8, <1>9, <1>10, <1>11, <1>12, <1>13, <1>14, <1>15, <1>16, <1>17,
     <1>18 DEF Work, Fetch, FetchFails

\* A step on the worker's own file alone keeps every file in one place.
LEMMA OwnFileSingle ==
  ASSUME TypeOK, NEW w \in Workers, exec[w] # NULL, OwnFileOnly(w),
         NEW f \in Files, Single(f), Fresh(f)
  PROVE  Single(f)' /\ Fresh(f)'
<1> DEFINE g == exec[w].file
<1>1. g \in Files
  BY ExecTypes
<1>2. \A v \in Workers : v # w => exec'[v] = exec[v]
  BY DEF OwnFileOnly, Ends, Continues, TypeOK
<1>3. CASE f # g
  <2>1. \A v \in Workers : Handling(v, f)' <=> Handling(v, f)
    <3>1. ~Handling(w, f)
      BY <1>3 DEF Handling
    <3>2. exec'[w] = NULL \/ exec'[w].file = g
      BY DEF OwnFileOnly, Ends, Continues, TypeOK
    <3> QED
      BY <3>1, <3>2, <1>2, <1>3 DEF Handling
  <2>2. \A m : m.file = f => (m \in queue' <=> m \in queue)
    BY <1>3 DEF OwnFileOnly, Ends, Continues
  <2>3. files'[f] = files[f] /\ sending' = sending /\ removed' = removed
    BY <1>3 DEF OwnFileOnly
  <2>4. Single(f)'
    BY <2>1, <2>2, <2>3 DEF Single
  <2>5. Fresh(f)'
    BY <2>1, <2>2, <2>3 DEF Fresh, Attended, Handling
  <2> QED
    BY <2>4, <2>5
<1>4. CASE f = g
  <2>1. Handling(w, f)
    BY <1>4 DEF Handling
  <2>2. /\ f \notin sending
        /\ \A m \in queue : m.file # f
        /\ \A v \in Workers : v # w => ~Handling(v, f)
    BY <2>1 DEF Single
  <2>3. \A v \in Workers : v # w => ~Handling(v, f)'
    BY <1>2, <2>2 DEF Handling
  <2>4. sending' = sending /\ removed' = removed /\ (files[f] # NULL => files'[f] # NULL)
    BY <1>4 DEF OwnFileOnly
  <2>5. Single(f)'
    <3>1. CASE Ends(w)
      <4>1. \A v \in Workers : ~Handling(v, f)'
        BY <3>1, <2>3 DEF Ends, Handling, TypeOK
      <4>2. \A m, n \in queue' : m.file = f /\ n.file = f => m = n
        BY <3>1, <2>2 DEF Ends
      <4> QED
        BY <4>1, <4>2, <2>2, <2>4 DEF Single
    <3>2. ASSUME NEW t \in Task, Continues(w, t)
          PROVE  Single(f)'
      <4>1. queue' = queue
        BY <3>2 DEF Continues
      <4> QED
        BY <4>1, <2>2, <2>3, <2>4 DEF Single
    <3> QED
      BY <3>1, <3>2 DEF OwnFileOnly
  <2>6. Fresh(f)'
    <3>1. files[f] # NULL \/ f \in removed
      BY <2>1 DEF Fresh, Attended, Handling
    <3> QED
      BY <3>1, <2>4 DEF Fresh
  <2> QED
    BY <2>5, <2>6
<1> QED
  BY <1>3, <1>4

\* The three steps that touch the chunk table.
LEMMA ChunkSteps ==
  ASSUME NEW w \in Workers, Work(w) \/ Crash(w)
  PROVE  PurgeChunks(w) \/ CreateChunks(w) \/ EmbedBatch(w) \/ chunks' = chunks
  BY DEF Work, Crash, Fetch, FetchFails, MarkProcessing, Extract, NoText, SaveCount,
         CompleteWithoutKey, Complete, Raise, HandleException, HandlerFails, SaveInstance

\* A worker leaves the chunks of other files alone.
LEMMA OwnChunksOnly ==
  ASSUME TypeOK, NEW w \in Workers, Work(w) \/ Crash(w),
         NEW f \in Files, exec[w] # NULL => f # exec[w].file
  PROVE  ChunksOf(f)' = ChunksOf(f)
<1>1. CASE PurgeChunks(w)
  BY <1>1 DEF PurgeChunks, At, ChunksOf
<1>2. CASE CreateChunks(w)
  BY <1>2 DEF CreateChunks, At, ChunksOf
<1>3. CASE EmbedBatch(w)
  <2>1. exec[w] # NULL
    BY <1>3 DEF EmbedBatch, At
  <2>2. \A c \in chunks : [c EXCEPT !.emb = TRUE].kf = c.kf
    BY DEF TypeOK, Chunk
  <2> QED
    BY <1>3, <2>1, <2>2 DEF EmbedBatch, ChunksOf
<1>4. CASE chunks' = chunks
  BY <1>4 DEF ChunksOf
<1> QED
  BY <1>1, <1>2, <1>3, <1>4, ChunkSteps

\* A statement of the task keeps a file in one place and its chunks unique.
LEMMA WorkOneRun ==
  ASSUME TypeOK, NEW w \in Workers, exec[w] # NULL, Work(w) \/ Crash(w),
         NEW f \in Files, OneRun(f)
  PROVE  OneRun(f)'
<1>1. OwnFileOnly(w) /\ (exec'[w] # NULL /\ exec'[w].step = "create" => PurgeChunks(w))
  BY WorkShape
<1>2. Single(f)' /\ Fresh(f)'
  BY <1>1, OwnFileSingle DEF OneRun
<1>3. \A v \in Workers : v # w => exec'[v] = exec[v]
  BY <1>1 DEF OwnFileOnly, Ends, Continues, TypeOK
<1>4. exec'[w] # NULL => exec'[w].file = exec[w].file
  BY <1>1 DEF OwnFileOnly, Ends, Continues, TypeOK
<1>5. Wiped(f)'
  <2> SUFFICES ASSUME NEW v \in Workers, Handling(v, f)', exec'[v].step = "create"
               PROVE  ChunksOf(f)' = {}
    BY DEF Wiped
  <2>1. CASE v = w
    <3>1. exec[w].file = f
      BY <2>1, <1>4 DEF Handling
    <3>2. chunks' = chunks \ ChunksOf(f)
      BY <2>1, <3>1, <1>1 DEF Handling, PurgeChunks
    <3> QED
      BY <3>2 DEF ChunksOf
  <2>2. CASE v # w
    <3>1. Handling(v, f) /\ exec[v].step = "create"
      BY <2>2, <1>3 DEF Handling
    <3>2. f # exec[w].file
      BY <2>2, <3>1 DEF OneRun, Single, Handling
    <3> QED
      BY <3>1, <3>2, OwnChunksOnly DEF OneRun, Wiped
  <2> QED
    BY <2>1, <2>2
<1>6. IndexedOnce(f)'
  <2>1. CASE f # exec[w].file
    <3>1. ChunksOf(f)' = ChunksOf(f)
      BY <2>1, OwnChunksOnly
    <3> QED
      BY <3>1 DEF OneRun, IndexedOnce, ChunksOf
  <2>2. CASE f = exec[w].file /\ PurgeChunks(w)
    BY <2>2 DEF PurgeChunks, OneRun, IndexedOnce
  <2>3. CASE f = exec[w].file /\ CreateChunks(w)
    <3>1. ChunksOf(f) = {}
      BY <2>3 DEF CreateChunks, At, OneRun, Wiped, Handling
    <3> DEFINE new(i) == [kf |-> f, index |-> i, by |-> w, bot |-> exec[w].inst.bot,
                          doc |-> exec[w].inst.doc, emb |-> FALSE]
    <3>2. \A c \in chunks' : c.kf = f =>
              \E i \in 0 .. NChunks[exec[w].inst.doc] - 1 : c = new(i)
      BY <2>3, <3>1 DEF CreateChunks, ChunksOf
    <3>3. \A i : new(i).index = i
      OBVIOUS
    <3> HIDE DEF new
    <3> QED
      BY <3>2, <3>3 DEF IndexedOnce
  <2>4. CASE f = exec[w].file /\ EmbedBatch(w)
    <3> DEFINE mine(c) == /\ c.kf = f /\ c.by = w
                          /\ c.index \in exec[w].next .. exec[w].next + BatchSize - 1
               new(c) == IF mine(c) THEN [c EXCEPT !.emb = TRUE] ELSE c
    <3>1. chunks' = {new(c) : c \in chunks}
      BY <2>4 DEF EmbedBatch
    <3>2. \A c \in chunks : new(c).kf = c.kf /\ new(c).index = c.index
      BY DEF TypeOK, Chunk
    <3> HIDE DEF new
    <3> QED
      BY <3>1, <3>2 DEF OneRun, IndexedOnce
  <2>5. CASE chunks' = chunks
    BY <2>5 DEF OneRun, IndexedOnce
  <2> QED
    BY <2>1, <2>2, <2>3, <2>4, <2>5, ChunkSteps
<1> QED
  BY <1>2, <1>5, <1>6 DEF OneRun

\* The delivery of a message.
LEMMA FetchOneRun ==
  ASSUME TypeOK, NEW w \in Workers, exec[w] = NULL, Work(w),
         NEW f \in Files \ Redeliverable, OneRun(f)
  PROVE  OneRun(f)'
<1>1. PICK m \in queue : Fetch(w, m) \/ FetchFails(w, m)
  BY DEF Work, MarkProcessing, Extract, NoText, PurgeChunks, CreateChunks, SaveCount,
         CompleteWithoutKey, EmbedBatch, Complete, Raise, HandleException,
         HandlerFails, At
<1>2. files' = files /\ chunks' = chunks /\ sending' = sending /\ removed' = removed
  BY <1>1 DEF Fetch, FetchFails, apiUnchanged
<1>3. IndexedOnce(f)' /\ ChunksOf(f)' = ChunksOf(f)
  BY <1>2 DEF OneRun, IndexedOnce, ChunksOf
<1>4. m \in Message /\ m.file \in Files /\ m.retries \in 0 .. MaxRetries
  BY DEF TypeOK, Message
<1>5. CASE Fetch(w, m) /\ files[m.file] # NULL
  <2> DEFINE t == [file |-> m.file, retries |-> m.retries, step |-> "mark",
                   inst |-> files[m.file], next |-> 0]
  <2>1. t \in Task /\ t.file = m.file /\ t.step = "mark"
    <3>1. files[m.file] \in Row
      BY <1>4, <1>5 DEF TypeOK
    <3> QED
      BY <1>4, <3>1, Names DEF Task
  <2>2. /\ exec' = [exec EXCEPT ![w] = t]
        /\ queue' = queue \ {m} \/ (queue' = queue /\ m.file \in Redeliverable)
    BY <1>5 DEF Fetch
  <2> HIDE DEF t
  <2>3. exec'[w] = t /\ \A v \in Workers : v # w => exec'[v] = exec[v]
    BY <2>2 DEF TypeOK
  <2>4. CASE m.file = f
    <3>1. queue' = queue \ {m}
      BY <2>2, <2>4
    <3>2. /\ f \notin sending /\ \A n \in queue : n.file = f => n = m
          /\ \A v \in Workers : ~Handling(v, f)
      BY <2>4 DEF OneRun, Single
    <3>3. \A v \in Workers : Handling(v, f)' => v = w
      BY <2>3, <3>2 DEF Handling
    <3>4. Single(f)'
      BY <1>2, <3>1, <3>2, <3>3 DEF Single
    <3>5. Fresh(f)'
      BY <1>2, <1>5, <2>4 DEF Fresh
    <3>6. Wiped(f)'
      BY <3>3, <2>1, <2>3 DEF Wiped
    <3> QED
      BY <1>3, <3>4, <3>5, <3>6 DEF OneRun
  <2>5. CASE m.file # f
    <3>1. \A v \in Workers : /\ Handling(v, f)' <=> Handling(v, f)
                             /\ Handling(v, f) => exec'[v] = exec[v]
      BY <2>1, <2>3, <2>5 DEF Handling
    <3>2. \A n : n.file = f => (n \in queue' <=> n \in queue)
      BY <2>2, <2>5
    <3>3. Single(f)'
      BY <1>2, <3>1, <3>2 DEF OneRun, Single
    <3>4. Fresh(f)'
      BY <1>2, <3>1, <3>2 DEF OneRun, Fresh, Attended, Handling
    <3>5. Wiped(f)'
      BY <1>3, <3>1 DEF OneRun, Wiped
    <3> QED
      BY <1>3, <3>3, <3>4, <3>5 DEF OneRun
  <2> QED
    BY <2>4, <2>5
<1>6. CASE Fetch(w, m) /\ files[m.file] = NULL
  <2>1. exec' = exec /\ queue' \subseteq queue
    BY <1>6 DEF Fetch
  <2> QED
    BY <1>2, <1>3, <2>1 DEF OneRun, Single, Fresh, Wiped, Attended, Handling
<1>7. CASE FetchFails(w, m)
  <2> DEFINE n == [file |-> m.file, retries |-> m.retries + 1]
  <2>1. n.file = m.file
    OBVIOUS
  <2>2. exec' = exec /\ (queue' = queue \ {m} \/ queue' = (queue \ {m}) \cup {n})
    BY <1>7 DEF FetchFails
  <2> HIDE DEF n
  <2>3. Single(f)'
    <3>1. CASE m.file = f
      BY <3>1, <1>2, <2>1, <2>2 DEF OneRun, Single, Handling
    <3>2. CASE m.file # f
      BY <3>2, <1>2, <2>1, <2>2 DEF OneRun, Single, Handling
    <3> QED
      BY <3>1, <3>2
  <2>4. Fresh(f)'
    BY <1>2, <2>1, <2>2 DEF OneRun, Fresh, Attended, Handling
  <2>5. Wiped(f)'
    BY <1>3, <2>2 DEF OneRun, Wiped, Handling
  <2> QED
    BY <1>3, <2>3, <2>4, <2>5 DEF OneRun
<1> QED
  BY <1>1, <1>5, <1>6, <1>7

\* A request keeps a file in one place and its chunks unique.
LEMMA RequestOneRun ==
  ASSUME TypeOK, Request, NEW f \in Files, OneRun(f)
  PROVE  OneRun(f)'
<1>1. ASSUME NEW g \in Files, NEW b \in Bots, NEW d \in Docs, Upload(g, b, d)
      PROVE  OneRun(f)'
  <2>1. NewRow(b, d) # NULL
    BY Names, NullIsNothing DEF NewRow, Row
  <2>2. /\ files'[g] # NULL /\ (f # g => files'[f] = files[f])
        /\ sending' = sending \cup {g} /\ files[g] = NULL /\ g \notin removed
        /\ queue' = queue /\ exec' = exec /\ chunks' = chunks /\ removed' = removed
    BY <1>1, <2>1 DEF Upload, InsertFile, TypeOK
  <2>3. CASE f = g
    <3>1. ~Attended(f)
      BY <2>2, <2>3 DEF OneRun, Fresh
    <3> QED
      BY <2>2, <2>3, <3>1 DEF OneRun, Single, Fresh, Wiped, IndexedOnce, Attended,
                               Handling, ChunksOf
  <2>4. CASE f # g
    BY <2>2, <2>4 DEF OneRun, Single, Fresh, Wiped, IndexedOnce, Attended, Handling, ChunksOf
  <2> QED
    BY <2>3, <2>4
<1>2. ASSUME NEW g \in Files, NEW b \in Bots, NEW d \in Docs, Create(g, b, d)
      PROVE  OneRun(f)'
  <2>1. NewRow(b, d) # NULL
    BY Names, NullIsNothing DEF NewRow, Row
  <2>2. /\ files'[g] # NULL /\ (f # g => files'[f] = files[f])
        /\ sending' = sending
        /\ queue' = queue /\ exec' = exec /\ chunks' = chunks /\ removed' = removed
    BY <1>2, <2>1 DEF Create, InsertFile, TypeOK
  <2> QED
    BY <2>2 DEF OneRun, Single, Fresh, Wiped, IndexedOnce, Attended, Handling, ChunksOf
<1>3. ASSUME NEW g \in Files, NEW b \in Bots, NEW d \in Docs, PatchSave(g, b, d)
      PROVE  OneRun(f)'
  <2>1. [patch[g] EXCEPT !.bot = b, !.doc = d] # NULL
    <3>1. patch[g] \in Row
      BY <1>3 DEF PatchSave, TypeOK
    <3>2. [patch[g] EXCEPT !.bot = b, !.doc = d] \in Row
      BY <3>1, Names, RowUpdates
    <3> QED
      BY <3>2, NullIsNothing
  <2>2. /\ files'[g] # NULL /\ (f # g => files'[f] = files[f])
        /\ sending' = sending
        /\ queue' = queue /\ exec' = exec /\ chunks' = chunks /\ removed' = removed
    BY <1>3, <2>1 DEF PatchSave, Save, TypeOK
  <2> QED
    BY <2>2 DEF OneRun, Single, Fresh, Wiped, IndexedOnce, Attended, Handling, ChunksOf
<1>4. ASSUME NEW g \in Files, SendTask(g)
      PROVE  OneRun(f)'
  <2> DEFINE n == [file |-> g, retries |-> 0]
  <2>1. n.file = g
    OBVIOUS
  <2>2. /\ g \in sending /\ sending' = sending \ {g} /\ queue' = queue \cup {n}
        /\ files' = files /\ exec' = exec /\ chunks' = chunks /\ removed' = removed
    BY <1>4 DEF SendTask
  <2> HIDE DEF n
  <2>3. Single(f)'
    <3>1. CASE f = g
      BY <3>1, <2>1, <2>2 DEF OneRun, Single, Handling
    <3>2. CASE f # g
      BY <3>2, <2>1, <2>2 DEF OneRun, Single, Handling
    <3> QED
      BY <3>1, <3>2
  <2>4. Fresh(f)'
    BY <2>1, <2>2 DEF OneRun, Fresh, Attended
  <2> QED
    BY <2>2, <2>3, <2>4 DEF OneRun, Wiped, IndexedOnce, Handling, ChunksOf
<1>5. ASSUME NEW g \in Files, SendFails(g)
      PROVE  OneRun(f)'
  BY <1>5 DEF SendFails, OneRun, Single, Fresh, Wiped, IndexedOnce, Attended, Handling,
              ChunksOf
<1>6. ASSUME NEW g \in Files, PatchRead(g)
      PROVE  OneRun(f)'
  BY <1>6 DEF PatchRead, OneRun, Single, Fresh, Wiped, IndexedOnce, Attended, Handling,
              ChunksOf
<1>7. ASSUME NEW g \in Files, DeleteFile(g)
      PROVE  OneRun(f)'
  <2>1. /\ f = g => f \in removed'
        /\ f # g => files'[f] = files[f]
        /\ removed \subseteq removed' /\ chunks' \subseteq chunks
        /\ sending' = sending /\ queue' = queue /\ exec' = exec
    BY <1>7 DEF DeleteFile, TypeOK
  <2> QED
    BY <2>1 DEF OneRun, Single, Fresh, Wiped, IndexedOnce, Attended, Handling, ChunksOf
<1>8. ASSUME NEW b \in Bots, DeleteBot(b)
      PROVE  OneRun(f)'
  <2>1. /\ files'[f] = files[f] \/ f \in removed'
        /\ removed \subseteq removed' /\ chunks' \subseteq chunks
        /\ sending' = sending /\ queue' = queue /\ exec' = exec
    BY <1>8 DEF DeleteBot, TypeOK
  <2> QED
    BY <2>1 DEF OneRun, Single, Fresh, Wiped, IndexedOnce, Attended, Handling, ChunksOf
<1> QED
  BY <1>1, <1>2, <1>3, <1>4, <1>5, <1>6, <1>7, <1>8 DEF Request, UploadToBot

\* The invariant behind the chunk properties.
THEOREM KnowledgeOneRun == Spec => []OneRunInv
<1>1. Init => OneRunInv
  BY DEF Init, OneRunInv, OneRun, Single, Fresh, Wiped, IndexedOnce, Attended, Handling,
         ChunksOf
<1>2. TypeOK /\ OneRunInv /\ Next => OneRunInv'
  <2> SUFFICES ASSUME TypeOK, OneRunInv, Next, NEW f \in Files \ Redeliverable
               PROVE  OneRun(f)'
    BY DEF OneRunInv
  <2>1. OneRun(f)
    BY DEF OneRunInv
  <2>2. ASSUME NEW w \in Workers, Work(w) \/ Crash(w)
        PROVE  OneRun(f)'
    <3>1. CASE exec[w] # NULL
      BY <2>1, <2>2, <3>1, WorkOneRun
    <3>2. CASE exec[w] = NULL
      BY <2>1, <2>2, <3>2, FetchOneRun DEF Crash
    <3> QED
      BY <3>1, <3>2
  <2> QED
    BY <2>1, <2>2, RequestOneRun DEF Next
<1>3. OneRunInv /\ UNCHANGED vars => OneRunInv'
  BY DEF OneRunInv, OneRun, Single, Fresh, Wiped, IndexedOnce, Attended, Handling,
         ChunksOf, vars
<1> QED
  BY <1>1, <1>2, <1>3, KnowledgeTypes, PTL DEF Spec

\* A file whose task is delivered once never has two chunks with one index.
THEOREM KnowledgeUniqueChunks == Spec => []UniqueChunks
<1>1. OneRunInv => UniqueChunks
  BY DEF OneRunInv, OneRun, UniqueChunks
<1> QED
  BY <1>1, KnowledgeOneRun, PTL
=============================================================================
