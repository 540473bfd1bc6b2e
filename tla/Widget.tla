------------------------------- MODULE Widget -------------------------------
(***************************************************************************)
(* The chat widget: the pages of one browser that carry the script of one  *)
(* chatbot (widgets/static/widgets/widget.js) and the public endpoints     *)
(* they call (widgets/views.py).  localStorage is shared by the pages,     *)
(* sessionStorage is not.  A call is answered by the server and then       *)
(* handled by the page, or fails on the way.  What the server does with a  *)
(* message it accepts is ChatService; reading the stream changes nothing   *)
(* but the element that shows it.                                          *)
(***************************************************************************)
EXTENDS ChatbotLifecycle

CONSTANTS
    Pages,      \* tabs of the visitor's browser
    Slots,      \* calls that can be under way at once
    Embedded,   \* the chatbot whose script the site carries
    Elsewhere,  \* the settings whose allowed_domains leave this site out
    MaxTokens   \* bound: session tokens that are issued

ASSUME WidgetConstants == MaxTokens \in Nat /\ Embedded \in Ids /\ Elsewhere \subseteq Texts

VARIABLES
    page,       \* page[p]: the widget of page p, or NULL when it is not loaded
    cached,     \* cached[p]: the configuration in sessionStorage, or NULL
    store,      \* the session in localStorage, or NULL
    call,       \* call[i]: a call under way, or NULL
    issued,     \* session tokens issued so far
    expired,    \* tokens older than max_age
    spoke,      \* history: tokens with which the server accepted a message
    split       \* history: two session requests were under way at once, or a
                \* token could not be stored

widgetVars == <<page, cached, store, call, issued, expired, spoke, split>>

Tokens == 1 .. MaxTokens

\* What an answer is made from: the configuration that get_runtime_config gives,
\* and columns of the row as they are now.
Served == [frozen: Snapshot, live: Texts]

\* The widget object; token is NULL while it is null or undefined.
Shell == [phase: {"loading", "ready", "dead"}, shows: Served \cup {NULL},
          open: BOOLEAN, token: Tokens \cup {NULL}, typing: BOOLEAN]

\* What initSession() puts into localStorage.
Session == [token: Tokens \cup {NULL}]

\* A page without a widget, and an empty store, are told from any other.
ASSUME ShellAssumption == NULL \notin Shell /\ NULL \notin Session

\* token is what a chat sends and what a session gets, config what a widget gets
\* and what a message is answered with.
Call == [page: Pages, kind: {"config", "session", "chat"}, answer: {"none", "ok", "error"},
         token: Tokens \cup {NULL}, config: Served \cup {NULL}]

WidgetInit ==
    /\ page = [p \in Pages |-> NULL]
    /\ cached = [p \in Pages |-> NULL]
    /\ store = NULL
    /\ call = [i \in Slots |-> NULL]
    /\ issued = 0
    /\ expired = {}
    /\ spoke = {}
    /\ split = FALSE

-----------------------------------------------------------------------------
(* The page. *)

Ready(p) == page[p] # NULL /\ page[p].phase = "ready"

Pending(kind) == {i \in Slots : call[i] # NULL /\ call[i].kind = kind}

\* fetch()
Fetch(p, kind, token) ==
    /\ \E i \in Slots : call[i] = NULL
    /\ call' = [call EXCEPT ![CHOOSE i \in Slots : call[i] = NULL] =
                    [page |-> p, kind |-> kind, answer |-> "none", token |-> token,
                     config |-> NULL]]

Unloaded == [phase |-> "loading", shows |-> NULL, open |-> FALSE, token |-> NULL, typing |-> FALSE]

\* new BotmanWidget() and init(): the configuration of this tab, or a request.
LoadPage(p) ==
    /\ page[p] = NULL
    /\ \/ /\ cached[p] # NULL
          /\ page' = [page EXCEPT ![p] = [Unloaded EXCEPT !.phase = "ready", !.shows = cached[p]]]
          /\ UNCHANGED call
       \/ /\ cached[p] = NULL
          /\ page' = [page EXCEPT ![p] = Unloaded]
          /\ Fetch(p, "config", NULL)
    /\ UNCHANGED <<cached, store, issued, expired, spoke, split>>

\* The page goes, and with it its calls; with the tab goes its sessionStorage.
LeavePage(p, closed) ==
    /\ page[p] # NULL
    /\ page' = [page EXCEPT ![p] = NULL]
    /\ cached' = IF closed THEN [cached EXCEPT ![p] = NULL] ELSE cached
    /\ call' = [i \in Slots |-> IF call[i] # NULL /\ call[i].page = p THEN NULL ELSE call[i]]
    /\ UNCHANGED <<store, issued, expired, spoke, split>>

\* Mutant: the key that is looked up is not the one that is written.
HasSessionElsewhere == FALSE

\* initSession(): what it looks for in localStorage.
HasSession == store # NULL

\* toggleChat(), with initSession() when the window opens and has no token.
ToggleChat(p) ==
    LET opened == [page EXCEPT ![p].open = ~@] IN
    /\ Ready(p)
    /\ \/ /\ page[p].open \/ page[p].token # NULL
          /\ page' = opened
          /\ UNCHANGED <<call, split>>
       \/ /\ ~page[p].open /\ page[p].token = NULL /\ HasSession
          /\ page' = [opened EXCEPT ![p].token = store.token]
          /\ UNCHANGED <<call, split>>
       \/ /\ ~page[p].open /\ page[p].token = NULL /\ ~HasSession
          /\ page' = opened
          /\ Fetch(p, "session", NULL)
          /\ split' = (split \/ Pending("session") # {})
    /\ UNCHANGED <<cached, store, issued, expired, spoke>>

\* handleSend() and sendMessage(): the token as it is now, no waiting.
SendMessage(p) ==
    /\ Ready(p)
    /\ page[p].open
    /\ page' = [page EXCEPT ![p].typing = TRUE]
    /\ Fetch(p, "chat", page[p].token)
    /\ UNCHANGED <<cached, store, issued, expired, spoke, split>>

-----------------------------------------------------------------------------
(* The server. *)

\* validate_origin
OriginAllowed(row) == RuntimeConfig(row).settings \notin Elsewhere

Serves(row) == IsLive(row) /\ OriginAllowed(row)

Asked(i, kind) == call[i] # NULL /\ call[i].kind = kind /\ call[i].answer = "none"

\* The answer: an error response, or one with a token or a configuration.
Answer(i, ok, token, config) ==
    call' = [call EXCEPT ![i].answer = IF ok THEN "ok" ELSE "error",
                         ![i].token = IF ok THEN token ELSE @,
                         ![i].config = IF ok THEN config ELSE @]

\* An error response: a throttled request, or an exception in the view.
Refuse(i) ==
    /\ \E kind \in {"config", "session", "chat"} : Asked(i, kind)
    /\ Answer(i, FALSE, NULL, NULL)
    /\ UNCHANGED <<page, cached, store, issued, expired, spoke, split>>

\* What an answer takes from a row: the runtime configuration, and one of the
\* columns as the owner left it.
Response(row, column) == [frozen |-> RuntimeConfig(row), live |-> row.draft[column]]

\* WidgetConfigView.get: the welcome_message has the name of the row itself.
GetConfig(i) ==
    /\ Asked(i, "config")
    /\ Answer(i, Serves(bots[Embedded]), NULL, Response(bots[Embedded], "settings"))
    /\ UNCHANGED <<page, cached, store, issued, expired, spoke, split>>

\* WidgetSessionView.post
PostSession(i) ==
    /\ Asked(i, "session")
    /\ issued < MaxTokens
    /\ issued' = IF Serves(bots[Embedded]) THEN issued + 1 ELSE issued
    /\ Answer(i, Serves(bots[Embedded]), issued + 1, NULL)
    /\ UNCHANGED <<page, cached, store, expired, spoke, split>>

\* WidgetChatView.post: the token, the chatbot, its status and the origin; then
\* process_chat_message takes system_prompt and selected_llm from the snapshot, and
\* the prompt has personality, tone, fallback_behavior ... as they are in the row.
PostChat(i) ==
    LET token == call[i].token
        ok    == token # NULL /\ token \notin expired /\ Serves(bots[Embedded]) IN
    /\ Asked(i, "chat")
    /\ Answer(i, ok, token, Response(bots[Embedded], "personality"))
    /\ spoke' = IF ok THEN spoke \cup {token} ELSE spoke
    /\ UNCHANGED <<page, cached, store, issued, expired, split>>

\* signing.loads(max_age): a token is good for a day.
Expire(token) ==
    /\ token \in 1 .. issued \ expired
    /\ expired' = expired \cup {token}
    /\ UNCHANGED <<page, cached, store, call, issued, spoke, split>>

-----------------------------------------------------------------------------
(* The page again: what it does with the answer. *)

Answered(i, kind) == call[i] # NULL /\ call[i].kind = kind /\ call[i].answer # "none"

Handled(i) == call' = [call EXCEPT ![i] = NULL]

\* init(): an error leaves no widget.
ConfigArrives(i) ==
    LET p == call[i].page IN
    /\ Answered(i, "config")
    /\ \/ /\ call[i].answer = "error"
          /\ page' = [page EXCEPT ![p].phase = "dead"]
          /\ UNCHANGED cached
       \/ /\ call[i].answer = "ok"
          /\ page' = [page EXCEPT ![p].phase = "ready", ![p].shows = call[i].config]
          /\ cached' = [cached EXCEPT ![p] = call[i].config]
    /\ Handled(i)
    /\ UNCHANGED <<store, issued, expired, spoke, split>>

\* initSession(): an error response has no session_token, and is stored too;
\* localStorage.setItem may throw, with the token already on the page.
SessionArrives(i) ==
    /\ Answered(i, "session")
    /\ page' = [page EXCEPT ![call[i].page].token = call[i].token]
    /\ \/ store' = [token |-> call[i].token] /\ UNCHANGED split
       \/ UNCHANGED store /\ split' = (split \/ call[i].token # NULL)
    /\ Handled(i)
    /\ UNCHANGED <<cached, issued, expired, spoke>>

\* sendMessage() and handleStreamingResponse(): the first of the answers under
\* way hides the indicator.
ChatArrives(i) ==
    /\ Answered(i, "chat")
    /\ page' = [page EXCEPT ![call[i].page].typing = FALSE]
    /\ Handled(i)
    /\ UNCHANGED <<cached, store, issued, expired, spoke, split>>

\* Mutant: the catch of sendMessage leaves the indicator on.
AfterFailureTyping(shell, kind) ==
    CASE kind = "config"  -> [shell EXCEPT !.phase = "dead"]
      [] kind = "session" -> shell
      [] kind = "chat"    -> shell

\* The catch blocks of init, initSession and sendMessage.
AfterFailure(shell, kind) ==
    CASE kind = "config"  -> [shell EXCEPT !.phase = "dead"]
      [] kind = "session" -> shell
      [] kind = "chat"    -> [shell EXCEPT !.typing = FALSE]

\* The network, the server or the body of the answer breaks.
CallFails(i) ==
    /\ call[i] # NULL
    /\ page' = [page EXCEPT ![call[i].page] = AfterFailure(@, call[i].kind)]
    /\ Handled(i)
    /\ UNCHANGED <<cached, store, issued, expired, spoke, split>>

VisitorActs == \E p \in Pages : LoadPage(p) \/ ToggleChat(p) \/ SendMessage(p)

CallEnds(i) == ConfigArrives(i) \/ SessionArrives(i) \/ ChatArrives(i) \/ CallFails(i)

WidgetRuns ==
    \/ \E p \in Pages, closed \in BOOLEAN : LeavePage(p, closed)
    \/ \E i \in Slots : Refuse(i) \/ GetConfig(i) \/ PostSession(i) \/ PostChat(i) \/ CallEnds(i)
    \/ \E token \in Tokens : Expire(token)

-----------------------------------------------------------------------------
(* Properties. *)

WidgetTypes ==
    /\ page \in [Pages -> Shell \cup {NULL}]
    /\ cached \in [Pages -> Served \cup {NULL}]
    /\ store \in Session \cup {NULL}
    /\ call \in [Slots -> Call \cup {NULL}]
    /\ issued \in 0 .. MaxTokens
    /\ expired \subseteq Tokens
    /\ spoke \subseteq Tokens
    /\ split \in BOOLEAN

(***************************************************************************)
(* What a page shows or caches, and what an accepted message is answered   *)
(* with, takes its frozen part (name, description, system_prompt,          *)
(* selected_llm, allowed_domains) from one publication as a whole:         *)
(* whatever edits, publications, stale saves and deletions overlap, no     *)
(* mixture and no draft of these columns gets out, from the server, a      *)
(* session token or a cached configuration.  The live part is not covered: *)
(* the name in the welcome_message, and the personality, tone,             *)
(* fallback_behavior and prompt settings behind an answer, are drafts.  So *)
(* is everything of a chatbot that was marked as published and has no      *)
(* snapshot, as seed_demo leaves one.                                      *)
(***************************************************************************)
FrozenPartIsPublished ==
    /\ \A p \in Pages :
        /\ page[p] # NULL /\ page[p].shows # NULL => page[p].shows.frozen \in released[Embedded]
        /\ cached[p] # NULL => cached[p].frozen \in released[Embedded]
    /\ \A i \in Slots :
        call[i] # NULL /\ call[i].config # NULL => call[i].config.frozen \in released[Embedded]

(***************************************************************************)
(* A browser is one visitor to the server, over reloads, further tabs,     *)
(* failed and refused session requests and expired tokens, unless a second *)
(* session was asked for while a first request was still on its way, or    *)
(* the browser would not store the token of one.                           *)
(***************************************************************************)
OneVisitorPerBrowser == ~split => Cardinality(spoke) <= 1

(***************************************************************************)
(* A page does not show the typing indicator for ever, though messages     *)
(* overlap, go out without a token, are refused or get lost.               *)
(***************************************************************************)
TypingStops ==
    \A p \in Pages : (page[p] # NULL /\ page[p].typing) ~> (page[p] = NULL \/ ~page[p].typing)
=============================================================================
