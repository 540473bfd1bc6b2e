----------------------------- MODULE ChatService -----------------------------
(***************************************************************************)
(* process_chat_message and stream_response_generator                      *)
(* (conversations/services.py): chat requests of several visitors, handled *)
(* concurrently, each action one database statement or one call to the     *)
(* language model.  A streamed answer is a generator that runs while the   *)
(* client reads, and that stops when the client goes away.                 *)
(***************************************************************************)
EXTENDS Naturals, Sequences, FiniteSets

CONSTANTS
    Bots,           \* chatbots
    Visitors,       \* values of visitor_id
    Requests,       \* the chat requests that may arrive
    Legacy,         \* id of a conversation that was stored before visitors were
    Llm,            \* Llm[b]: the runtime selected_llm of b
    Entries,        \* the entry points in use, each [preview, stream]
    HistoryLimit,   \* limit of get_conversation_history (10)
    MaxPieces,      \* bound: pieces of text in one streamed answer
    Serial,         \* the visitors whose client waits for an answer to end
                    \* before it sends the next message
    NULL

ASSUME ChatConstants ==
    /\ Legacy \notin Requests
    /\ NULL \notin Requests \cup {Legacy}
    /\ Llm \in [Bots -> {"gemini", "openai"}]
    /\ Entries \subseteq [preview: BOOLEAN, stream: BOOLEAN]
    /\ HistoryLimit \in Nat \ {0}
    /\ MaxPieces \in Nat
    /\ Serial \subseteq Visitors

VARIABLES
    bots,       \* the chatbot rows
    visitors,   \* the Visitor rows (external_id is unique)
    convs,      \* the Conversation table; ids are named after their creators
    messages,   \* the Message table in the order of created_at, NULL where a row
                \* was deleted
    tokens,     \* the requests a TokenUsage row was stored for
    req         \* req[r]: the request r in progress or over, NULL before

vars == <<bots, visitors, convs, messages, tokens, req>>

ConvIds == Requests \cup {Legacy}

\* linked: the visitor foreign key is set (null on rows from before it existed).
Conv == [bot: Bots, visitor: Visitors, preview: BOOLEAN, linked: BOOLEAN]

\* What an answer is made of: pieces of text, an error event with the
\* provider's own message, or one whose message hides it.
Piece == {"text", "error", "masked"}

Message == [conv: ConvIds, sender: {"user", "bot"}, req: Requests,
            content: Seq(Piece), billed: BOOLEAN]

Over == {"done", "gone", "failed"}

Step == {"translate", "visitor", "lookup", "insert", "flip", "link", "ask",
         "history", "open", "stream", "call", "answer", "bill"}

(***************************************************************************)
(* obj is the Conversation object in memory until its last save, conv its  *)
(* id; full is what the answer has accumulated, got what the client was    *)
(* handed, and usage whether the provider reported token counts.           *)
(***************************************************************************)
Request == [step: Step \cup Over, bot: Bots, visitor: Visitors,
            preview: BOOLEAN, stream: BOOLEAN, english: BOOLEAN,
            conv: ConvIds \cup {NULL}, obj: Conv \cup {NULL},
            full: Seq(Piece), got: Seq(Piece),
            usage: BOOLEAN]

ASSUME ChatNull == NULL \notin Conv /\ NULL \notin Message /\ NULL \notin Request

LegacyConv(b, v) == [bot |-> b, visitor |-> v, preview |-> FALSE, linked |-> FALSE]

Init ==
    /\ bots = Bots
    /\ visitors = {}
    /\ convs \in {[i \in ConvIds |-> IF i = Legacy THEN c ELSE NULL] :
                     c \in {NULL} \cup {LegacyConv(b, v) : b \in Bots, v \in Visitors}}
    /\ messages = <<>>
    /\ tokens = {}
    /\ req = [r \in Requests |-> NULL]

-----------------------------------------------------------------------------
InProgress(r) == req[r] # NULL /\ req[r].step \notin Over

At(r, step) == req[r] # NULL /\ req[r].step = step

GoTo(r, step) == req' = [req EXCEPT ![r].step = step]

\* An exception leaves process_chat_message or the generator.
Fails(r) ==
    /\ GoTo(r, "failed")
    /\ UNCHANGED <<bots, visitors, convs, messages, tokens>>

\* A message reaches chat, preview, test_message, the widget, the public view
\* or the Telegram task; the view has fetched the chatbot.
Arrive(r, b, v, e) ==
    /\ req[r] = NULL
    /\ b \in bots
    /\ v \in Serial => \A q \in Requests : InProgress(q) => req[q].visitor # v
    /\ req' = [req EXCEPT ![r] =
                  [step |-> "translate", bot |-> b, visitor |-> v,
                   preview |-> e.preview, stream |-> e.stream, english |-> TRUE,
                   conv |-> NULL, obj |-> NULL,
                   full |-> <<>>, got |-> <<>>, usage |-> FALSE]]
    /\ UNCHANGED <<bots, visitors, convs, messages, tokens>>

\* detect_and_translate: one call to the model; anything unusable means English.
Translate(r) ==
    /\ At(r, "translate")
    /\ \E english \in BOOLEAN :
           req' = [req EXCEPT ![r].english = english, ![r].step = "visitor"]
    /\ UNCHANGED <<bots, visitors, convs, messages, tokens>>

\* Visitor.objects.get_or_create: external_id is unique, so a lost race ends in
\* the other request's row.
GetVisitor(r) ==
    /\ At(r, "visitor")
    /\ visitors' = visitors \cup {req[r].visitor}
    /\ GoTo(r, "lookup")
    /\ UNCHANGED <<bots, convs, messages, tokens>>

Matching(b, v) ==
    {i \in ConvIds : convs[i] # NULL /\ convs[i].bot = b /\ convs[i].visitor = v}

\* After a conversation was found: the saves it still needs.
AfterFound(obj, preview) ==
    IF obj.preview # preview THEN "flip"
    ELSE IF ~obj.linked THEN "link" ELSE "ask"

\* Mutant: the lookup filters on the visitor alone.
LookupFindsAnyBot(r) ==
    /\ At(r, "lookup")
    /\ \E b \in Bots : \E i \in Matching(b, req[r].visitor) :
           /\ Matching(b, req[r].visitor) = {i}
           /\ req' = [req EXCEPT ![r].conv = i, ![r].obj = convs[i],
                                 ![r].step = AfterFound(convs[i], req[r].preview)]
    /\ UNCHANGED <<bots, visitors, convs, messages, tokens>>

\* The get() of Conversation.objects.get_or_create.
LookupFinds(r) ==
    /\ At(r, "lookup")
    /\ \E i \in Matching(req[r].bot, req[r].visitor) :
           /\ Matching(req[r].bot, req[r].visitor) = {i}
           /\ req' = [req EXCEPT ![r].conv = i, ![r].obj = convs[i],
                                 ![r].step = AfterFound(convs[i], req[r].preview)]
    /\ UNCHANGED <<bots, visitors, convs, messages, tokens>>

\* Mutant: the lookup goes by the visitor foreign key, which older rows lack.
LookupMissesUnlinked(r) ==
    /\ At(r, "lookup")
    /\ \A i \in Matching(req[r].bot, req[r].visitor) : ~convs[i].linked
    /\ GoTo(r, "insert")
    /\ UNCHANGED <<bots, visitors, convs, messages, tokens>>

LookupMisses(r) ==
    /\ At(r, "lookup")
    /\ Matching(req[r].bot, req[r].visitor) = {}
    /\ GoTo(r, "insert")
    /\ UNCHANGED <<bots, visitors, convs, messages, tokens>>

\* MultipleObjectsReturned: the visitor can no longer talk to this chatbot.
LookupAmbiguous(r) ==
    /\ At(r, "lookup")
    /\ Cardinality(Matching(req[r].bot, req[r].visitor)) > 1
    /\ Fails(r)

\* The create() of get_or_create: the table has no unique constraint that would
\* send it back to get().
InsertConversation(r) ==
    LET c == [bot |-> req[r].bot, visitor |-> req[r].visitor,
              preview |-> req[r].preview, linked |-> TRUE]
    IN
    /\ At(r, "insert")
    /\ req[r].bot \in bots
    /\ convs' = [convs EXCEPT ![r] = c]
    /\ req' = [req EXCEPT ![r].conv = r, ![r].obj = c, ![r].step = "ask"]
    /\ UNCHANGED <<bots, visitors, messages, tokens>>

\* conversation.save() of the object in memory, all columns.
SaveConversation(r, obj, step) ==
    /\ req[r].bot \in bots
    /\ convs' = [convs EXCEPT ![req[r].conv] = obj]
    /\ req' = [req EXCEPT ![r].obj = obj, ![r].step = step]
    /\ UNCHANGED <<bots, visitors, messages, tokens>>

\* "Update is_preview if existing conversation"
FlipPreview(r) ==
    /\ At(r, "flip")
    /\ SaveConversation(r, [req[r].obj EXCEPT !.preview = req[r].preview],
                        IF req[r].obj.linked THEN "ask" ELSE "link")

\* "Ensure visitor is linked"
LinkVisitor(r) ==
    /\ At(r, "link")
    /\ SaveConversation(r, [req[r].obj EXCEPT !.linked = TRUE], "ask")

Store(r, sender, content, billed) ==
    messages' = Append(messages, [conv |-> req[r].conv, sender |-> sender, req |-> r,
                                  content |-> content, billed |-> billed])

SaveUserMessage(r) ==
    /\ At(r, "ask")
    /\ convs[req[r].conv] # NULL
    /\ Store(r, "user", <<"text">>, FALSE)
    /\ req' = [req EXCEPT ![r].step = "history", ![r].obj = NULL]
    /\ UNCHANGED <<bots, visitors, convs, tokens>>

\* The generator takes over only when the client streams and wrote English.
Streams(r) == req[r].stream /\ req[r].english

\* The places of the messages there are, and the last of some of them.
Rows == {i \in 1 .. Len(messages) : messages[i] # NULL}

LastOf(places) == {i \in places : Cardinality({k \in places : k > i}) < HistoryLimit}

\* Mutant: the question just saved is not excluded.
HistoryWithQuestion(r) == LastOf({i \in Rows : messages[i].conv = req[r].conv})

\* get_conversation_history: the latest messages, without the question itself.
History(r) ==
    LastOf({i \in Rows : /\ messages[i].conv = req[r].conv
                         /\ ~(messages[i].req = r /\ messages[i].sender = "user")})

\* History(r) goes into the prompt; the embedding, the search and the prompt
\* change nothing.
BuildPrompt(r) ==
    /\ At(r, "history")
    /\ GoTo(r, IF Streams(r) THEN "open" ELSE "call")
    /\ UNCHANGED <<bots, visitors, convs, messages, tokens>>

\* call_gemini or call_openai without streaming, and the translation back.
CallLlm(r) ==
    /\ At(r, "call")
    /\ \E answered \in BOOLEAN :
           req' = [req EXCEPT ![r].full = <<IF answered THEN "text" ELSE "error">>,
                              ![r].usage = answered, ![r].step = "answer"]
    /\ UNCHANGED <<bots, visitors, convs, messages, tokens>>

\* Append a piece to full_response and yield it.
Yield(r, piece, step) ==
    req' = [req EXCEPT ![r].full = Append(@, piece), ![r].got = Append(@, piece),
                       ![r].step = step]

\* The provider refuses at once.  call_gemini's (message, {}) is unpacked and
\* reported; call_openai's is iterated as if it were a stream, so the
\* AttributeError this raises is reported in its place.
OpenFails(r) ==
    /\ At(r, "open")
    /\ Yield(r, IF Llm[req[r].bot] = "gemini" THEN "error" ELSE "masked", "answer")
    /\ UNCHANGED <<bots, visitors, convs, messages, tokens>>

OpenStream(r) ==
    /\ At(r, "open")
    /\ GoTo(r, "stream")
    /\ UNCHANGED <<bots, visitors, convs, messages, tokens>>

\* Mutant: a chunk without content is appended as None.
StreamPieceOrNone(r) ==
    /\ At(r, "stream")
    /\ Len(req[r].full) < MaxPieces
    /\ \E piece \in {"text", "None"} : Yield(r, piece, "stream")
    /\ UNCHANGED <<bots, visitors, convs, messages, tokens>>

StreamPiece(r) ==
    /\ At(r, "stream")
    /\ Len(req[r].full) < MaxPieces
    /\ Yield(r, "text", "stream")
    /\ UNCHANGED <<bots, visitors, convs, messages, tokens>>

\* The stream is exhausted.  OpenAI's last chunk carries the usage; the object
\* that generate_content_stream returns is a plain generator and has none.
StreamEnds(r) ==
    /\ At(r, "stream")
    /\ req' = [req EXCEPT ![r].usage = (Llm[req[r].bot] = "openai"),
                          ![r].step = "answer"]
    /\ UNCHANGED <<bots, visitors, convs, messages, tokens>>

\* Mutant: the error is reported and not kept.
StreamBreaksUnsaved(r) ==
    /\ At(r, "stream")
    /\ req' = [req EXCEPT ![r].got = Append(@, "error"), ![r].step = "answer"]
    /\ UNCHANGED <<bots, visitors, convs, messages, tokens>>

\* The stream raises after some pieces: one error event ends the answer.
StreamBreaks(r) ==
    /\ At(r, "stream")
    /\ Yield(r, "error", "answer")
    /\ UNCHANGED <<bots, visitors, convs, messages, tokens>>

\* The generator waits at a yield for the client to take the next piece.
Suspended(r) ==
    \/ At(r, "open") \/ At(r, "stream")
    \/ /\ At(r, "answer") /\ Streams(r)
       /\ req[r].full # <<>> /\ req[r].full[Len(req[r].full)] # "text"

\* The client goes away: GeneratorExit at the yield, past every "except
\* Exception", so nothing of the answer is stored.
Disconnect(r) ==
    /\ Suspended(r)
    /\ GoTo(r, "gone")
    /\ UNCHANGED <<bots, visitors, convs, messages, tokens>>

\* Mutant: preview requests are billed like any other.
SaveAnswerBillsPreview(r) ==
    /\ At(r, "answer")
    /\ convs[req[r].conv] # NULL
    /\ Store(r, "bot", req[r].full, req[r].usage)
    /\ req' = [req EXCEPT ![r].got = req[r].full,
                          ![r].step = IF req[r].usage THEN "bill" ELSE "done"]
    /\ UNCHANGED <<bots, visitors, convs, tokens>>

\* The bot's message, in the generator or after the blocking call.
SaveAnswer(r) ==
    /\ At(r, "answer")
    /\ convs[req[r].conv] # NULL
    /\ Store(r, "bot", req[r].full, req[r].usage)
    /\ req' = [req EXCEPT ![r].got = IF Streams(r) THEN @ ELSE req[r].full,
                          ![r].step = IF req[r].usage /\ ~req[r].preview
                                      THEN "bill" ELSE "done"]
    /\ UNCHANGED <<bots, visitors, convs, tokens>>

\* TokenUsage.objects.create, whose failure is only printed.
Bill(r) ==
    /\ At(r, "bill")
    /\ \/ req[r].bot \in bots /\ tokens' = tokens \cup {r}
       \/ UNCHANGED tokens
    /\ GoTo(r, "done")
    /\ UNCHANGED <<bots, visitors, convs, messages>>

\* A database statement raises (a foreign key to a deleted chatbot, a lost
\* connection): the request ends in a 500, or the stream breaks off.
DatabaseFails(r) ==
    /\ \E step \in {"visitor", "lookup", "insert", "flip", "link", "ask",
                    "history", "answer"} : At(r, step)
    /\ Fails(r)

\* A chatbot is deleted, and by CASCADE its conversations, messages and usage.
DeleteBot(b) ==
    LET gone(i) == convs[i] # NULL /\ convs[i].bot = b IN
    /\ b \in bots
    /\ bots' = bots \ {b}
    /\ convs' = [i \in ConvIds |-> IF gone(i) THEN NULL ELSE convs[i]]
    /\ messages' = [k \in 1 .. Len(messages) |->
                       IF messages[k] # NULL /\ gone(messages[k].conv) THEN NULL
                       ELSE messages[k]]
    /\ tokens' = {r \in tokens : req[r].bot # b}
    /\ UNCHANGED <<visitors, req>>

Handle(r) ==
    \/ Translate(r) \/ GetVisitor(r)
    \/ LookupFinds(r) \/ LookupMisses(r) \/ LookupAmbiguous(r)
    \/ InsertConversation(r) \/ FlipPreview(r) \/ LinkVisitor(r)
    \/ SaveUserMessage(r) \/ BuildPrompt(r) \/ CallLlm(r)
    \/ OpenFails(r) \/ OpenStream(r) \/ StreamPiece(r) \/ StreamEnds(r)
    \/ StreamBreaks(r) \/ SaveAnswer(r) \/ Bill(r) \/ DatabaseFails(r)

Next ==
    \/ \E r \in Requests, b \in Bots, v \in Visitors, e \in Entries :
           Arrive(r, b, v, e)
    \/ \E r \in Requests : Handle(r) \/ Disconnect(r)
    \/ \E b \in Bots : DeleteBot(b)

Spec == Init /\ [][Next]_vars

-----------------------------------------------------------------------------
\* Every table holds rows of its type; a conversation, message or request in
\* memory has the shape the code gives it.
TypeOK ==
    /\ bots \subseteq Bots
    /\ visitors \subseteq Visitors
    /\ convs \in [ConvIds -> Conv \cup {NULL}]
    /\ messages \in Seq(Message \cup {NULL})
    /\ tokens \subseteq Requests
    /\ req \in [Requests -> Request \cup {NULL}]

(***************************************************************************)
(* A visitor has one conversation with a chatbot, which is what get() in   *)
(* get_or_create relies on: a second row makes every later message of the  *)
(* visitor fail.  It holds for visitors whose client waits for each answer *)
(* ...                                                                     *)
(***************************************************************************)
OneConversationIfSerial ==
    \A b \in Bots, v \in Serial : Cardinality(Matching(b, v)) <= 1

(***************************************************************************)
(* ... and is what the code expects of every visitor.                      *)
(***************************************************************************)
OneConversation ==
    \A b \in Bots, v \in Visitors : Cardinality(Matching(b, v)) <= 1

Stored(r, sender) ==
    {i \in Rows : messages[i].req = r /\ messages[i].sender = sender}

(***************************************************************************)
(* A finished request has left its question and exactly one answer, which  *)
(* is what the client was handed, piece by piece, errors included; an      *)
(* abandoned or failed one has left no answer.                             *)
(***************************************************************************)
AnswerStoredOnce ==
    \A r \in Requests :
        req[r] # NULL /\ req[r].bot \in bots =>
            /\ req[r].step = "done" =>
                  \E i, k \in Rows :
                      /\ Stored(r, "user") = {i} /\ Stored(r, "bot") = {k}
                      /\ messages[k].content = req[r].got
                      /\ messages[k].conv = messages[i].conv
            /\ req[r].step \in {"gone", "failed"} => Stored(r, "bot") = {}

(***************************************************************************)
(* Messages stay in the conversation of their own chatbot and visitor,     *)
(* also while requests race and conversations are rewritten by stale       *)
(* objects.                                                                *)
(***************************************************************************)
InOwnConversation ==
    \A i \in Rows :
        LET c == convs[messages[i].conv]
            q == req[messages[i].req]
        IN  c # NULL /\ c.bot = q.bot /\ c.visitor = q.visitor

Abandoned(v) ==
    \E q \in Requests : req[q] # NULL /\ req[q].visitor = v
                        /\ req[q].step \in {"gone", "failed"}

(***************************************************************************)
(* The history in a waiting client's prompt is a dialogue: every question  *)
(* in it is followed by its own answer, and the question being asked is    *)
(* not among them.                                                         *)
(***************************************************************************)
HistoryIsDialogue ==
    \A r \in Requests :
        LET h == History(r) IN
        At(r, "history") /\ req[r].visitor \in Serial /\ ~Abandoned(req[r].visitor) =>
            \A i \in h :
                messages[i].sender = "user" =>
                    /\ messages[i].req # r
                    /\ \E k \in h :
                          /\ k > i /\ \A l \in h : l > i => l >= k
                          /\ messages[k].sender = "bot" /\ messages[k].req = messages[i].req

(***************************************************************************)
(* Preview chats cost the owner nothing in the statistics: no TokenUsage   *)
(* row, and while a visitor is only ever in one mode its conversation is   *)
(* marked with that mode before the first message is stored.               *)
(***************************************************************************)
PreviewKeptApart ==
    /\ \A r \in tokens : ~req[r].preview
    /\ \A i \in Rows :
           LET c == convs[messages[i].conv]
               q == req[messages[i].req]
           IN  (\A r \in Requests : req[r] # NULL /\ req[r].visitor = q.visitor
                                    => req[r].preview = q.preview)
               => c.preview = q.preview

(***************************************************************************)
(* "Also tracks token usage": the message of a stream that ran to its end  *)
(* carries the tokens it used.                                             *)
(***************************************************************************)
StreamTracksUsage ==
    \A i \in Rows :
        LET m == messages[i] IN
        m.sender = "bot" /\ (\A k \in 1 .. Len(m.content) : m.content[k] = "text")
        => m.billed
==============================================================================
