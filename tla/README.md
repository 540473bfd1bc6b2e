# botman: TLA+ models, checks and proofs

botman is a multi-tenant chatbot platform: a Django/DRF backend
(`src/backend`), Celery workers, PostgreSQL, a widget that is embedded in
customers' pages (`src/backend/widgets/static/widgets/widget.js`) and a React
dashboard (`src/frontend/src`). This directory models the parts of it whose
correctness depends on the order in which things happen, checks them with TLC
and proves with TLAPS that the safety properties hold for every size of the system.

Run a check with `tlc -config KnowledgeFiles.cfg MCKnowledge`, a proof with
`tlapm KnowledgePipelineProofs.tla`. `PROJECT.json` lists the runs, the mutants
that show each property can fail, the source lines behind every definition, the
hazards, the findings and the theorems.

## 1. The system

| Component | State | Operations | Talks to |
|---|---|---|---|
| Knowledge ingestion (`ai_services/tasks.py`, `knowledge/`, `chatbots/views.py`) | `KnowledgeFile` rows (status, chunk_count, processing_error), `KnowledgeChunk` rows, uploaded documents, task messages | upload (two endpoints), inherited create, PATCH, DELETE, chatbot DELETE; the task `process_knowledge_file` with retries | Celery broker, Gemini embeddings |
| Text splitting (`ai_services/utils.py` 73-98) | loop variables | `split_text` | the task |
| Chat pipeline (`conversations/services.py`, `ai_services/context_builder.py`, `translation.py`) | `Visitor`, `Conversation`, `Message`, `TokenUsage` rows; one generator per streamed answer | `process_chat_message`, `stream_response_generator` | language models; called by the chat and preview views, the widget, the Studio and the Telegram task |
| Provider configurations (`ai_services/views.py`, `serializers.py`, `models.py`) | versioned `ProviderConfiguration` rows | create, update, rollback, delete, test | the chatbot's `provider_config` |
| Language models (`ai_services/llm.py`, `prompts.py`) | none | `call_openai`, `call_gemini` with retries and fallbacks | chat pipeline, translation |
| Hybrid search (`ai_services/utils.py` 135-277) | none (reads chunks) | vector and keyword search, rank fusion | chat pipeline |
| Chatbot lifecycle (`chatbots/`) | `Chatbot` rows, published snapshot | create under the plan's limit, settings, provider, publish, delete | everything that belongs to a chatbot |
| Accounts (`accounts/`) | users, plans, subscriptions | sign-up, login, Google login | lifecycle |
| Widget server and client (`widgets/`) | signed session tokens; local storage, open streams | config, session, chat; toggle, initSession, sendMessage, read stream | chat pipeline |
| Telegram (`integrations/telegram/`) | `TelegramIntegration` rows | connect, webhook, message task | Telegram, chat pipeline |
| Analytics (`analytics/`) | daily rows, request log, cache | nightly aggregation, overview, graph, live | messages |
| Tenant context (`botman_backend/`) | a thread-local | set, clear, narrow querysets | every queryset of chatbots and conversations |
| Monitoring, health | log rows | write, probe | - |
| Dashboard (`src/frontend/src`) | tokens in local storage | pages, token refresh, preview chat | the API |

What makes them hard:

* no request runs in a transaction (`ATOMIC_REQUESTS` is not set), so every ORM
  call is a step of its own and any other request or worker may run between two;
* `Model.save()` writes every column of an object that may have been read long
  ago, and *inserts* it when its row is gone;
* `get_or_create` is two statements, and where no unique constraint stands behind
  it (conversations) both of two racing requests insert;
* Celery acknowledges early (`acks_late` is off): a lost worker loses its message;
  a failing task is retried with backoff, up to three times, over whatever the
  failed attempt left;
* streamed answers are generators that run while the client reads, and are closed
  with `GeneratorExit` when it stops reading;
* provider calls fail before, during or at the end of an answer;
* the widget keeps its session and its configuration in the browser, does not wait
  for its own requests, and handles an error response like any other;
* Telegram keeps the webhook, the server its secret: two places that one request
  writes one after the other;
* the statistics of a day are counted by a task that runs once, some time after
  the day, while the messages it counts may still be arriving.

What correctness means, by component: an ingested file says `completed` only
when its index is complete, ends in a final status and keeps it, never holds a
chunk twice, stays deleted; a chat question gets exactly one stored answer, the
one the client saw, in the visitor's one conversation, with a history that is a
dialogue and statistics that leave previews out; a provider configuration is a
linear history with one active version. An owner's edits are kept; of the columns
that `publish` freezes, widget visitors get one published snapshot and no draft;
a browser is one visitor; a connected Telegram bot reaches its chatbot, and only
with its current token; a stored day counts its messages, and the overview counts
none twice. For
the parts that are not modelled the properties are those behind their hazards in
`PROJECT.json`.

## 2. The modules

| Module | Models | Extended by |
|---|---|---|
| `KnowledgePipeline` | upload API, queue, workers running `process_knowledge_file` | `MCKnowledge`, `KnowledgePipelineProofs`, `KnowledgeIndexProofs` |
| `KnowledgeBase` | abstract: what the Studio shows of a file (absent, working, ready with its index, failed, gone) | - |
| `KnowledgeRefinement` | the mapping under which `KnowledgePipeline` implements `KnowledgeBase` | `MCKnowledge`, `KnowledgeIndexProofs` |
| `SplitText` | the loop of `split_text` | `MCSplitText`, `SplitTextProofs` |
| `ChatService` | concurrent chat requests, streams and disconnects | `MCChat`, `ChatProofs` |
| `ProviderConfig` | versioned provider configurations | `MCProvider`, `ProviderProofs` |
| `ChatbotLifecycle` | an owner's chatbots: limit, edits, publication, deletion; subscriptions | `Widget`, `Telegram` |
| `Widget` | one browser with the widget, and the public endpoints | `Channels` |
| `Telegram` | connecting, Telegram's webhooks and deliveries, the webhook view | `Channels` |
| `Channels` | the three together, over the same chatbot rows | `MCChannels`, `ChannelsProofs`, `ChannelsHistoryProofs` |
| `Analytics` | daily aggregation and the cached overview | `MCAnalytics`, `AnalyticsProofs` |

Definitions whose comment starts with "Mutant:" are wrong on purpose: each stands
for a plausible bug in the definition after it, and is used by no specification.

### KnowledgePipeline

`files`, `chunks`, `disk` and `bots` are the tables and the media directory;
`queue` the broker, `exec[w]` the task that worker `w` runs, `sending` the upload
requests that have saved their row and not yet called `delay()`, and `patch[f]`
the object a PATCH has in memory. A task holds its `KnowledgeFile` object (`inst`)
for its whole life, as the code does, and every action of a worker is one
statement: `MarkProcessing`, `Extract`, `NoText`, `PurgeChunks`, `CreateChunks`,
`SaveCount`, `CompleteWithoutKey`, `EmbedBatch` (one API call and one
bulk_update), `Complete`. `Raise` is an exception at any of them,
`HandleException` the `except` block with its save and the re-raise that queues a
retry, `HandlerFails` that save failing too, `Crash` the loss of the worker.
`Save` is Django's: update, or insert when the row is gone, unless the chatbot
the row refers to is gone. `Create` is the inherited `POST` that stores a file
and sends no task.

Abstracted: text is the number of its chunks (`SplitText` is about that number);
error messages are four kinds; `search_vector` is left out. `removed` and `lost`
are history variables: ids that were deleted, and files whose run was taken away
by a failed send, a crash, a failing handler or a PATCH that wrote an old status
back.

### KnowledgeBase and KnowledgeRefinement

The abstract knowledge base has one variable, `entry`: a file is absent, being
worked on, ready with a set of chunk indexes, failed, or gone for good. It can be
added, finish with exactly the index of its document, fail, be tried again and be
removed; what is ready changes only by removal. `EntryOf` reads this off the
tables: the status of the row, the chunk indexes stored for it, and whether the id
was deleted. The mapping is stated for the quiet files (neither PATCHed nor
delivered twice) that were never removed under a running task; a removed id maps
to `Gone` for good, since the row that comes back is finding 1. So every
interleaving of statements of several workers, crashes and retries is, seen from
the Studio, one of five simple steps or none.

### SplitText

One action, `Iterate`, is one turn of the `while`; a chunk is the pair of its
bounds. `Init` takes any text length, chunk size (at least one) and overlap, also
overlaps larger than the chunk.

### ChatService

`req[r]` is a request with its step, the `Conversation` object it has in memory
and what its answer has accumulated (`full`) and handed to the client (`got`).
`LookupFinds`, `LookupMisses`, `LookupAmbiguous` and `InsertConversation` are the
two statements of `get_or_create`; `FlipPreview` and `LinkVisitor` the two saves
after it; `SaveUserMessage`, `BuildPrompt` (which reads the history), `CallLlm`
the blocking branch, `OpenStream`, `OpenFails`, `StreamPiece`, `StreamEnds` and
`StreamBreaks` the generator for each of the two providers, `Disconnect` the
`GeneratorExit`, `SaveAnswer` and `Bill` the end of either branch, and
`DatabaseFails` an error of any statement. Chatbots may be deleted at any time.

`messages` is the message table in the order of its ids, with NULL where the
deletion of a chatbot took a row away; the history a prompt gets is a set of its
positions. Abstracted: the content of a message is the sequence of its pieces
(text, an error event with the provider's message, an error event that hides it); search results and prompt
wording are read-only and left out. The tenant context is taken to narrow nothing,
as in an API request, whose JWT is only checked after the middleware has run and
which names no bot but its own.

### ProviderConfig

A request reads its row (`Begin`), and then runs statement by statement: `FindTarget`,
`InsertVersion`, `SaveCredentials`, `Deactivate`, `DeleteRow`. `Deactivate` writes
back the object that was read, whole. `Die` is a failing statement or a lost
server, and leaves what was written. `origin`, `meant` and `disturbed` are history:
the first version a row descends from, the credentials it was created with, and
the families in which requests overlapped or died. The copied columns and the
audit log are left out. `rollback` finds a version by `parent_config`, so the first
version, which has none, is never found; the model shows that too (`FindTarget`
ends the request).

### ChatbotLifecycle

`bots[b]` is the row with its draft columns, the two flags and the snapshot
(`config`, from `published_config`); `tab[t]` a request of the owner, which has
counted the chatbots, or holds the object it read. `CountBots`, `GetSubscription`,
`Subscribe` and `InsertBot` are `create()` statement by statement (a Google login
goes through the middle two); `Begin` is `get_object()`, and `WriteColumn`,
`WriteActivity`, `Publish` and `Destroy` what the request does with the object.
`SaveBot` is Django's `save()`: every column, inserted when the row is gone, so a
stale save can bring a chatbot back. `said`, `raced` and `released` are history:
the row the acknowledged edits make one after the other, the chatbots on which
requests overlapped, and the snapshots published so far. Columns stand for groups:
`settings` for the four that `update_settings` writes, `personality` for those
that only PATCH writes and that `publish` does not freeze. Superusers and owners
without a plan have no limit and are left out, and so is the demo chatbot of
`seed_demo`, which is marked as published without a snapshot.

### Widget

`page[p]` is the `BotmanWidget` object of a page, `cached[p]` its sessionStorage,
`store` the localStorage of the browser, `call[i]` a fetch. The page loads
(`LoadPage`, cached configuration first), is toggled (`ToggleChat` with
`initSession`), sends (`SendMessage`, with whatever token it has at that moment),
and goes (`LeavePage`). The server answers (`GetConfig`, `PostSession`, `PostChat`,
`Refuse` for throttling and exceptions, which `custom_exception_handler` turns
into JSON like any other answer), tokens expire, and the page handles the answer
or the failure (`ConfigArrives`, `SessionArrives`, `ChatArrives`, `CallFails`).
An error answer to a session request is stored with no token, as the code does;
the store may also refuse, with the token already on the page. `Elsewhere` are
the settings whose `allowed_domains` exclude the page.

What the server hands out (`Response`) has two parts. `frozen` is what
`get_runtime_config` gives, the snapshot of a published chatbot. `live` is read
from the row as it is at that moment: the name in the `welcome_message` of a
configuration (`widgets/views.py:110`), and for an accepted message the
personality, tone, fallback_behavior, bot_prompt_config and formatting_config of
the prompt (`ai_services/prompts.py:14-26`), none of which `publish` freezes.
`process_chat_message` takes only system_prompt and selected_llm from the snapshot
(`conversations/services.py:31-34`). `FrozenPartIsPublished` is about the first
part alone. What else happens to an accepted message is `ChatService`.

`spoke` and `split` are history: the tokens the server accepted, and whether two
session requests overlapped or a token could not be stored.

### Telegram

`hook[k]` is the webhook Telegram has for a token, `integ[b]` the row, `dialog[d]`
a connect request: `VerifyToken`, `SetWebhook` (whose answer may be lost),
`SaveIntegration` (`update_or_create`, refused by the foreign key when the chatbot
is gone), `ConnectFails` anywhere. An update is written, posted to the webhook
Telegram has at that time, answered (`Status` is the view: 404, 403, 500 or 200),
lost, posted again until it gets a 200, or given up. `adrift` and `alone` are
history: which chatbots' webhooks were replaced since they were last connected by
a connect that nothing disturbed. Telegram's behaviour is modelled from how the
code uses it. The webhook never starts `process_telegram_message_task`, because
handing a text over raises (finding 4), so the task is not in the model.

### Channels

All three over one table of chatbots: `Next` is a step of the owner, of the widget
or of Telegram; `DeleteBot` adds to `Destroy` the cascade on the integration.
`left` is a budget chosen at the start, spent by what people start (requests,
clicks, connects, messages); what servers, networks and Telegram do is not
limited by it. A set of budgets makes the state space the sum of several
situations instead of their product.

### Analytics

`msgs[m]` is a message with its conversation, date and kind; it is stamped
(`StampMessage`) before it is inserted (`InsertMessage`), and midnight, or the
deletion of its chatbot, may come between. A count is the number of elements of
the set of messages found, and the sum over some rows the number of pairs of a row
and a number up to its total. A run of the task goes through the chatbots newest first with
`CountTotal`, `CountAnswers` (twice) and `StoreRow`, fails anywhere, and may be
started for any date that has begun, at any time, also twice at once, or not at
all. The overview is two reads, `ReadHistory` and `ReadToday`, into the cache.
`KnowledgeHits` is the graph's split of a stored day; `int()` of a float product
is modelled as the exact quotient or, where that is whole, possibly one less (as
Python computes for a third of three). `covered`, `touched`, `final`, `steady` and
`least` are history. `OverviewCountsOnce` bounds an overview from above by all
messages of its window and from below by the live messages of its settled days:
of today it says only that nothing is counted twice, and past previews, which no
daily row counts, are in the upper bound only. A deleted chatbot stays deleted
here; one that a stale save revives (`ChatbotLifecycle`) comes back without
conversations, messages and rows, and its further statistics are not modelled.

## 3. The runs

| Run | What it checks | Instance |
|---|---|---|
| `knowledge_files` | `TypeOK`, `UniqueChunks`, `CompletedIsIndexed`, `NoneLeftBehind`, `CompletedIsFinal`, `EventuallySettles`, `ImplementsKnowledgeBase` | two files of one chatbot, documents of three chunks and of one, two workers of which one has no API key, batches of two, one retry |
| `knowledge_disturbed` | `ErrorMatchesStatus`, `NoneLeftBehind` | one file, PATCHed and its message delivered twice, two workers, no retry |
| `knowledge_deletion` | `DeletedStaysDeleted` (violated) | one file, two chatbots, three retries |
| `split_text` | `TypeOK`, `Coverage`, `WellSized`, `OverlapExact`, `CountIsClosedForm`, `MovesForward` | lengths 0-20, sizes 1-5, overlaps 0-6, all combinations |
| `chat_concurrent` | `TypeOK`, `AnswerStoredOnce`, `InOwnConversation`, `PreviewKeptApart` | two requests of one visitor, both providers, every entry point, one piece of text per stream, with and without a conversation from before visitors were stored |
| `chat_dialogue` | `OneConversationIfSerial`, `HistoryIsDialogue` | three requests, a visitor who waits for each answer and one who does not, a history of three messages |
| `chat_race` | `OneConversation` (violated) | two requests of one visitor |
| `chat_gemini_usage` | `StreamTracksUsage` (violated) | one streamed Gemini answer |
| `provider_history` | `TypeOK`, `SerialHistory` | two administrators who never meet on one configuration, four rows; and who overlap and die anywhere, three rows |
| `channels` | `TypeOK`, `LimitHoldsUpToRaces`, `EditsAreKept`, `FrozenPartIsPublished`, `OneVisitorPerBrowser`, `TypingStops`, `ConnectedIsReachable`, `AcceptedUnderOwnToken` | two tabs, a plan of two chatbots, two pages with two calls at once, two Telegram tokens, two connects at once, one update; budgets below |
| `telegram_webhook` | `AcceptedIsOk` (violated) | the same |
| `analytics` | `TypeOK`, `SettledDayIsCounted`, `RunCoversEveryBot`, `HitsWithinMessages`, `OverviewCountsOnce` | three days, a window of two, two chatbots, two messages, two runs at once; budgets below |

Why the bounds are enough to meet the interesting cases. Two workers and two
files are needed for one run to meet another's chunks, and two workers on one
file for redelivery; three chunks in batches of two have a full and a short
batch; one retry is enough for a second attempt over the remains of a first. The
split lengths go past four steps for every size, with all remainders. Two
requests are the smallest race on a conversation, three the smallest history in
which a dialogue can go wrong before the question being asked, and a limit of
three cuts it in the middle of a pair. Four rows allow a rollback to a version
that is neither the first nor the last, and two configurations side by side; the
behaviours with overlaps have three, for the states grow too fast (`Limits`).
The budgets of `channels` are four requests of the owner; two of them with three
clicks (load, open, send, across an edit, a publication or a deletion); six clicks
(load, open and send twice, on one page after a reload or on two); one request with
three Telegram events, and four Telegram events (connect, connect again, write, and
a switch by the administrator). Four chatbots are one more than two tabs can get
past a limit of two. The budgets of `analytics` combine one or two messages, runs,
a change of mode and an overview so that each pair meets; two days of window and
three days let a day leave it. `MaxPieces`, `Limits`, `Budgets`, `MaxBots`,
`MaxTokens`, `MaxSecrets` and `MaxDays` are bounds of the models, not of the code;
`MaxRetries`, `BatchSize`, `HistoryLimit`, `BotLimit` and `Window` are the code's
constants, made small.
Deadlock is not checked: a finished set of requests is a state in which the
system may rest, and the bounds end the others.

Symmetry (requests, administrators, runs of the task, message ids) is used in
invariant-only runs.

Fairness is assumed for the liveness properties only. For `EventuallySettles`: a request
that has saved its row goes on to the send, which succeeds or fails, and a worker
that holds a task or finds a message takes a next step (weak fairness of
`SendTask \/ SendFails` and of each worker's `Work`). Celery's workers poll
their queue, and the task waits for nothing but the database and the embedding
API, which are taken to answer or to fail. Nothing is
assumed about which step: a fair worker may fail at every attempt, and crashes
may always happen (those files are `lost`). For `TypingStops`: every fetch of the
browser ends, with an answer or with an error (weak fairness of `CallEnds`), which
browsers guarantee by giving a connection up; which of the two is left open, and
neither the server nor Telegram nor the owner need ever take a step.

## 4. Findings

Four statements of the repository's own tests and comments do not hold of
the code:

* **A deleted file comes back** (`knowledge_deletion`). The task saves its object
  at every stage and Django inserts the row when the update matches none
  (`ai_services/tasks.py:31`). `knowledge/tests/test_deletion.py:44` asserts that
  the row no longer exists.
* **Two conversations for one visitor** (`chat_race`). There is no unique
  constraint behind `get_or_create` (`conversations/services.py:49`); once both
  rows exist every later message of the visitor fails. `OneConversationIfSerial`
  shows it cannot happen to a visitor who waits for each answer.
* **Streamed Gemini answers are free** (`chat_gemini_usage`).
  `generate_content_stream` returns a plain generator; reading `usage_metadata`
  from it raises, the exception is swallowed, and the message is stored with no
  tokens (`conversations/services.py:193`, against the docstring at line 168).
* **A text from Telegram is answered with 500** (`telegram_webhook`). The view calls
  `process_telegram_message_task.send`, which Celery tasks do not have
  (`integrations/telegram/views.py:107`); the comment two lines below promises a
  200 "immediately", and `integrations/telegram/tests.py:60` expects it. No text is
  ever processed, and Telegram keeps sending it.

Things the models show that no document speaks about are hazards in
`PROJECT.json` (a message delivered twice duplicates every chunk; racing updates
leave two active versions of a provider configuration; the inherited create never
processes its file; a refused OpenAI stream is reported as the `AttributeError`
its tuple causes, `conversations/services.py:209`; a refused session and an
expired token are kept by the browser for good; drafts of the name and of the
columns behind the prompt reach visitors before they are published; a stale save
unpublishes a chatbot or brings it back; a chatbot deleted during the nightly run costs the others their
row).

## 5. The theorems

TLAPS proves every safety property of the passing runs, for every value of the
constants that satisfies the named assumptions: any number of files, workers,
chatbots, visitors, requests, administrators, rows, tabs, pages, calls, Telegram
bots, updates, messages and days; any batch size, number of retries, history
limit, window and budget; any text length, chunk size and overlap. The assumptions
(`KnowledgeConstants`, `SplitConstants`, `ChatConstants`, `ProviderConstants`,
`LifecycleConstants`, `WidgetConstants`, `TelegramConstants`, `AnalyticsConstants`,
`BudgetsAssumption`) give the constants their types, and that NULL and the like are
none of the values they stand beside (`NullIsNothing`, `ChatNull`, `ProviderNull`,
`AnalyticsNull`, `SnapshotAssumption`, `ShellAssumption`).

* `SplitTextProofs`: `SplitTypes`, `SplitCoverage`, `SplitSizes`,
  `SplitOverlaps`, `SplitProgress`, `SplitCount`. The first five follow from one
  inductive invariant, `IInv`: every chunk starts inside the text and ends at
  `End` of its start, neighbours are exactly one step apart, the loop stands one
  step after the last chunk (`LoopInv`), and what has been reached is covered
  (`Covered`). `Coverage` alone is not inductive: that the next chunk leaves no
  gap needs `Step <= size` and where the last one started. The count's closed
  form follows from `CountInv` (the loop has advanced one step per chunk, and no
  earlier chunk reached the end) and from `RoundedUp`, what a rounded quotient
  is.
* `KnowledgePipelineProofs`: `KnowledgeTypes`; `KnowledgeNoneLeftBehind`, which is
  inductive once types are known (whoever stops attending to a file wrote a final
  status, queued a retry or is in `lost`); `KnowledgeUniqueChunks`. The last needs
  `OneRunInv`: a file whose message is not delivered twice is in one place at a
  time, in its upload request, in one message or in one run (`Single`), in none
  before it exists (`Fresh`), and nobody creates its chunks between a run's purge
  and its `bulk_create` (`Wiped`).
* `KnowledgeIndexProofs`: `KnowledgeCompletedIsIndexed` and
  `KnowledgeCompletedIsFinal`, from `IndexInv`, which adds to the above that only
  its own run writes a quiet file (one neither PATCHed, redelivered nor deleted):
  the run's object agrees with the row on chatbot and document and is never
  `completed`; past `bulk_create` all chunks are there and made by this worker;
  those before `next` have embeddings; and a completed file is attended to by
  nobody (`Settled`), which is what makes `completed` final. `KnowledgeErrors` is
  about the objects in memory as much as about the rows, for a save writes the
  error of the object it was read with. `KnowledgeImplements` is the refinement:
  initial states map to initial states, and under these invariants every step maps
  to a step of `KnowledgeBase` or to none.
* `ChatProofs`: `ChatTypes`; `ChatOwnConversation`, from `ConvInv` (a conversation
  has the id of the request that inserted it, and a request's conversation is of
  its own chatbot and visitor as long as the chatbot exists) and `MessageInv`;
  `ChatAnswerStoredOnce`, from `StoreInv` (what a request has stored is what its
  step says); `ChatPreviewKeptApart`, from `PreviewInv` (while a visitor is in one
  mode, a conversation carries it as soon as one of its requests is past the
  flip); `ChatOneConversationIfSerial`, from `SerialInv` (a visitor who waits has
  one request under way, and one that is about to insert has found none); and
  `ChatHistoryIsDialogue`, from `DialogueInv` (after a question comes nothing of
  the visitor's until its answer). The property speaks only of
  requests that are reading their history, so a step before says nothing about it;
  `DialogueInv` speaks of the table at every step.
* `ProviderProofs`: `ProviderTypes`; `ProviderSerialHistory`, from `RowsInv`,
  `JobsInv` and `OrderlyInv`: in a family that nobody disturbed one request works
  at a time (`Sole`), versions grow with the ids (`Line`), credentials are those
  meant except while an update has inserted and not saved them (`Faithful`), the
  newest row alone is active except while a request has still to deactivate its
  predecessor (`NewestActive`), and that request holds the row as it is (`Fresh`).
* `ChannelsProofs`: `ChannelsTypes`, `ChannelsEdits`, `ChannelsServe` (of the
  frozen part of what is served), `ChannelsAccept`, from one inductive invariant `IInv` of the composition. Its
  parts: an object under way belongs to an id that was handed out (`JobInv`,
  `IdsInv`); where nothing overlapped, the one request that holds a chatbot holds
  it as it is in the table (`EditInv`); a snapshot in a row or in an object under
  way was published, and a published row has one (`ReleasedInv`: without the
  objects it is not inductive, for a stale save writes back an old snapshot); a
  call belongs to a page that is still there (`CallInv`); and a webhook secret
  goes with one Telegram bot in requests, rows, webhooks and posts alike
  (`SecretInv`), which is why comparing it is enough.
* `ChannelsHistoryProofs`: `ChannelsVisitor`, from
  `SessionInv` (a session request under way finds the store empty, and every token
  in use is the stored one), `ChannelsReach` from `ReachInv` (an undisturbed
  connect that is about to save still has its webhook in place, and no other
  connect is for its chatbot), and `ChannelsLimit`. The number of chatbots is not
  inductive by itself: `LimitInv` adds those that a save under way may bring back
  and the creations that have passed the limit or will. Every tab accounts for at
  most one of them, and the tab that counted last counted less than the limit.
* `AnalyticsProofs`: `AnalyticsTypes`; `AnalyticsRunCovers`, from `CoverInv` (what
  a run has done is there already); `AnalyticsSettled`, from `SettledInv` (the
  same exactness for the count a run has not stored yet); `AnalyticsHits`, from
  `HitsInv` (between its two counts a run knows no more knowledge messages than
  there are replies) and from `Scaled`, the bound of the rounded quotient; and
  `AnalyticsOverview`, from `CountsInv` (no count exceeds the messages of its day)
  and `OverviewInv` (the same of an overview between its two reads). A sum of
  totals is compared with a number of messages by numbering the messages of every
  day: `PairsUpper` and `PairsLower` map the one into the other.

The restrictions in these properties (`Redeliverable`, `Patchable`, `removed`,
`lost`) are not assumptions of the proofs: the proofs cover systems in which
those things happen, and claim something only of the files they did not happen
to. Each is needed: when any one of them is dropped, TLC
finds a violation (of `UniqueChunks` and `CompletedIsIndexed` for redelivery, of
`CompletedIsFinal` for PATCH, of `CompletedIsIndexed` for deletion, of
`NoneLeftBehind` for lost runs). The same holds of `raced`, `split` and `adrift` in
the properties of `Channels`. What happened to the exempted files, chatbots and
browsers is a hazard the code has; the properties show that it stays with them.

The library's induction theorems take an operator as a parameter, which the
provers cannot instantiate. Where a proof needs the least or the greatest of some
numbers it takes a minimal counterexample instead (`WFMin` of the well-founded
order on the naturals).

Only model-checked: the liveness properties `EventuallySettles` and `TypingStops`
(fairness and ENABLED are out of TLAPS's reach).

## 6. Not modelled

Listed with reasons in `PROJECT.json`. Not to be modelled: prompt and response
wording, rendering, logging, health probes, settings, PostgreSQL's distances and
text ranking, token signing, and the third-party trees the repository carries
(`src/redis-stable`, `src/backend/venv`, collected static files). By lines, those
trees are nearly all of the repository: `src/redis-stable` alone is about 190 000
lines of C that botman uses as a broker and a cache and does not change. The map
covers botman's own Python and JavaScript, and no share of the C.

Left out of modelled components: sign-up and token signing (accounts), reading the
event stream into its element and rendering (widget client), the unreachable
message task and an administrator's form that overwrites a row it read earlier
(Telegram), the live view and the request log (analytics).

## 7. Plan

Done, in this order: `KnowledgePipeline`, `SplitText`, `ChatService`,
`ProviderConfig`; proofs of the first two; `KnowledgeBase` and its refinement;
`ChatbotLifecycle`, `Widget`, `Telegram`, their composition `Channels` and its
proofs; `Analytics`; the proofs of `ProviderConfig`, `ChatService` and `Analytics`,
of the refinement and of the chunk count. Every safety property of a passing run
is now a theorem.

To model next:

1. `LlmFallback`: retries, fallback model and provider in `call_gemini`, for
   blocking and for streamed calls; then `ChatService` on top of it instead of its
   provider choices.
2. `HybridSearch`: rank fusion against a reference definition.
3. `TenantContext`, composed with the lookup of `ChatService`.
4. A dialogue (question, then one answer) as an abstract specification that
   `ChatService` refines for visitors who wait, and a linear history of versions
   that `ProviderConfig` refines for families nobody disturbs.

To prove next: those two refinements, for which `DialogueInv` and `Orderly` are
most of the invariant; action properties of what the tables never do (a message is
never changed once stored, a version never reused).
