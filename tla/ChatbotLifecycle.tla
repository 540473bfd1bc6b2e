-------------------------- MODULE ChatbotLifecycle --------------------------
(***************************************************************************)
(* The chatbots of one owner: creation under the plan's bot_limit,         *)
(* settings, provider, PATCH, publication and deletion (chatbots/views.py, *)
(* chatbots/models.py), and the subscription that the first creation or a  *)
(* Google login makes (accounts/views.py).  The owner works in several     *)
(* tabs; a request reads a row, and later writes the whole object back.    *)
(* The owner is no superuser and has a plan: nobody else has a limit.      *)
(***************************************************************************)
EXTENDS Naturals, FiniteSets

CONSTANTS
    Tabs,       \* the owner's tabs, each with one request at a time
    MaxBots,    \* bound: ids the Chatbot sequence hands out
    BotLimit,   \* bot_limit of the owner's plan
    Texts,      \* values of a column
    Blank,      \* the value a column has at first
    NULL

ASSUME LifecycleConstants ==
    /\ IsFiniteSet(Tabs) /\ Tabs # {}
    /\ MaxBots \in Nat /\ BotLimit \in Nat
    /\ Blank \in Texts
    /\ NULL \notin Texts

VARIABLES
    bots,       \* bots[b]: the Chatbot row with id b, or NULL
    made,       \* the last id handed out
    subscribed, \* whether the owner has a Subscription row
    tab,        \* tab[t]: the request of tab t in progress, or NULL
    said,       \* history: said[b] is the row that the acknowledged edits of b,
                \* applied one after the other, make
    raced,      \* history: the chatbots on which two requests overlapped
    released    \* history: released[b] are the snapshots b was published with

lifecycleVars == <<bots, made, subscribed, tab, said, raced, released>>

Ids == 1 .. MaxBots

(***************************************************************************)
(* "settings" are the columns a settings request writes (name, description,*)
(* system_prompt, allowed_domains), then selected_llm, and those only PATCH*)
(* writes (personality, tone, fallback_behavior ...).                      *)
(***************************************************************************)
Columns == {"settings", "selected_llm", "personality"}

\* The columns that publish() copies into published_config.
Snapshotted == {"settings", "selected_llm"}

Draft == [Columns -> Texts]

Snapshot == [Snapshotted -> Texts]

\* A column that was never published is told from every snapshot.
ASSUME SnapshotAssumption == NULL \notin Snapshot

Row == [draft: Draft, active: BOOLEAN, published: BOOLEAN,
        config: Snapshot \cup {NULL}]

\* inst is the object get_object() gave, count the bot_count of a creation.
Job == [op: {"create", "login", "column", "activity", "publish", "destroy"},
        step: {"plan", "subscribe", "insert", "save"},
        bot: Ids \cup {NULL}, inst: Row \cup {NULL}, count: 0 .. MaxBots]

NewBot == [draft |-> [c \in Columns |-> Blank], active |-> TRUE, published |-> FALSE,
           config |-> NULL]

\* publish(): the snapshot of the columns, and both flags.
Frozen(row) == [row EXCEPT !.active = TRUE, !.published = TRUE,
                           !.config = [c \in Snapshotted |-> row.draft[c]]]

\* A new owner, or one who has published a first chatbot.  The demo chatbot that
\* seed_demo marks as published, without a snapshot, is left out.
LifecycleInit ==
    /\ made \in {n \in {0, 1} : n <= MaxBots /\ n <= BotLimit}
    /\ bots = [b \in Ids |-> IF b <= made THEN Frozen(NewBot) ELSE NULL]
    /\ subscribed \in {s \in BOOLEAN : s \/ made = 0}
    /\ tab = [t \in Tabs |-> NULL]
    /\ said = bots
    /\ raced = {}
    /\ released = [b \in Ids |-> IF b <= made THEN {bots[b].config} ELSE {}]

-----------------------------------------------------------------------------
Owned == {b \in Ids : bots[b] # NULL}

At(t, op, step) == tab[t] # NULL /\ tab[t].op \in op /\ tab[t].step = step

Done(t) == tab' = [tab EXCEPT ![t] = NULL]

\* create(): bot_count is read first ...
CountBots(t) ==
    /\ tab[t] = NULL
    /\ tab' = [tab EXCEPT ![t] = [op |-> "create", step |-> "plan", bot |-> NULL,
                                  inst |-> NULL, count |-> Cardinality(Owned)]]
    /\ UNCHANGED <<bots, made, subscribed, said, raced, released>>

\* The Google login of the owner looks for the subscription too.
GoogleLogin(t) ==
    /\ tab[t] = NULL
    /\ tab' = [tab EXCEPT ![t] = [op |-> "login", step |-> "plan", bot |-> NULL,
                                  inst |-> NULL, count |-> 0]]
    /\ UNCHANGED <<bots, made, subscribed, said, raced, released>>

\* Mutant: the limit itself is still allowed.
MayCreateOneMore(count) == count <= BotLimit

MayCreate(count) == count < BotLimit

\* What follows once the plan is known.
Planned(t) ==
    tab' = [tab EXCEPT ![t] = IF tab[t].op = "create" /\ MayCreate(tab[t].count)
                              THEN [tab[t] EXCEPT !.step = "insert"] ELSE NULL]

\* ... then user.subscription, which may be missing ...
GetSubscription(t) ==
    /\ At(t, {"create", "login"}, "plan")
    /\ IF subscribed THEN Planned(t)
       ELSE tab' = [tab EXCEPT ![t].step = "subscribe"]
    /\ UNCHANGED <<bots, made, subscribed, said, raced, released>>

\* ... and is created; the one-to-one key makes the second of two raise.
Subscribe(t) ==
    /\ At(t, {"create", "login"}, "subscribe")
    /\ IF subscribed THEN Done(t) ELSE Planned(t)
    /\ subscribed' = TRUE
    /\ UNCHANGED <<bots, made, said, raced, released>>

\* perform_create
InsertBot(t) ==
    /\ At(t, {"create"}, "insert")
    /\ made < MaxBots
    /\ made' = made + 1
    /\ bots' = [bots EXCEPT ![made + 1] = NewBot]
    /\ said' = [said EXCEPT ![made + 1] = NewBot]
    /\ Done(t)
    /\ UNCHANGED <<subscribed, raced, released>>

\* get_object() of settings, provider, PATCH, publish and DELETE.
Begin(t, b, op) ==
    /\ tab[t] = NULL
    /\ bots[b] # NULL
    /\ tab' = [tab EXCEPT ![t] = [op |-> op, step |-> "save", bot |-> b,
                                  inst |-> bots[b], count |-> 0]]
    /\ raced' = IF \E u \in Tabs : tab[u] # NULL /\ tab[u].bot = b
                THEN raced \cup {b} ELSE raced
    /\ UNCHANGED <<bots, made, subscribed, said, released>>

\* chatbot.save(): every column of the object, inserted when the row is gone;
\* acked is what the client is told.
SaveBot(t, row, acked) ==
    /\ bots' = [bots EXCEPT ![tab[t].bot] = row]
    /\ said' = [said EXCEPT ![tab[t].bot] = IF @ = NULL THEN row ELSE acked]
    /\ Done(t)
    /\ UNCHANGED <<made, subscribed, raced>>

\* Mutant: the edit of a published chatbot reaches its snapshot.
WrittenThrough(inst, c, v) ==
    [inst EXCEPT !.draft[c] = v,
                 !.config = IF @ # NULL /\ c \in Snapshotted THEN [@ EXCEPT ![c] = v] ELSE @]

Written(inst, c, v) == [inst EXCEPT !.draft[c] = v]

\* update_settings, provider (selected_llm) and
\* PATCH (any column).
WriteColumn(t, c, v) ==
    /\ At(t, {"column"}, "save")
    /\ SaveBot(t, Written(tab[t].inst, c, v), [said[tab[t].bot] EXCEPT !.draft[c] = v])
    /\ UNCHANGED released

\* PATCH of is_active; is_published is read-only.
WriteActivity(t, active) ==
    /\ At(t, {"activity"}, "save")
    /\ SaveBot(t, [tab[t].inst EXCEPT !.active = active],
               [said[tab[t].bot] EXCEPT !.active = active])
    /\ UNCHANGED released

Publish(t) ==
    LET b == tab[t].bot IN
    /\ At(t, {"publish"}, "save")
    /\ SaveBot(t, Frozen(tab[t].inst),
               [said[b] EXCEPT !.active = TRUE, !.published = TRUE,
                               !.config = [c \in Snapshotted |-> said[b].draft[c]]])
    /\ released' = [released EXCEPT ![b] = @ \cup {Frozen(tab[t].inst).config}]

Destroy(t) ==
    /\ At(t, {"destroy"}, "save")
    /\ bots' = [bots EXCEPT ![tab[t].bot] = NULL]
    /\ said' = [said EXCEPT ![tab[t].bot] = NULL]
    /\ Done(t)
    /\ UNCHANGED <<made, subscribed, raced, released>>

\* A statement raises, or the server is lost.
Abort(t) ==
    /\ tab[t] # NULL
    /\ Done(t)
    /\ UNCHANGED <<bots, made, subscribed, said, raced, released>>

\* A new request of the owner, and the rest of one.
OwnerStarts ==
    \E t \in Tabs :
        \/ CountBots(t) \/ GoogleLogin(t)
        \/ \E b \in Ids, op \in {"column", "activity", "publish", "destroy"} : Begin(t, b, op)

OwnerEdits ==
    \E t \in Tabs :
        \/ GetSubscription(t) \/ Subscribe(t) \/ InsertBot(t)
        \/ \E c \in Columns, v \in Texts : WriteColumn(t, c, v)
        \/ \E active \in BOOLEAN : WriteActivity(t, active)
        \/ Publish(t) \/ Abort(t)

-----------------------------------------------------------------------------
(* What the other components read of a row. *)

\* Mutant: only is_active is looked at.
IsLiveIfActive(row) == row # NULL /\ row.active

\* validate_bot_status
IsLive(row) == row # NULL /\ row.active /\ row.published

\* Mutant: the snapshot is not looked at.
RuntimeConfigLive(row) == [c \in Snapshotted |-> row.draft[c]]

\* get_runtime_config: the snapshot of a published chatbot, else its columns.
RuntimeConfig(row) ==
    IF row.published /\ row.config # NULL THEN row.config
    ELSE [c \in Snapshotted |-> row.draft[c]]

-----------------------------------------------------------------------------
(* Properties. *)

LifecycleTypes ==
    /\ bots \in [Ids -> Row \cup {NULL}]
    /\ made \in 0 .. MaxBots
    /\ subscribed \in BOOLEAN
    /\ tab \in [Tabs -> Job \cup {NULL}]
    /\ said \in [Ids -> Row \cup {NULL}]
    /\ raced \subseteq Ids
    /\ released \in [Ids -> SUBSET Snapshot]

(***************************************************************************)
(* The limit is checked against a count that may be old, and a save can    *)
(* bring a deleted chatbot back; even so the owner never gets past the     *)
(* plan's limit by more than the requests that can be under way at once.   *)
(***************************************************************************)
LimitHoldsUpToRaces == Cardinality(Owned) <= BotLimit + Cardinality(Tabs) - 1

(***************************************************************************)
(* A chatbot whose requests never overlapped is exactly what the client    *)
(* was told: every acknowledged edit is there, the snapshot is the draft   *)
(* as it was when publish was called, and a deleted one is gone.  Requests *)
(* on other chatbots do not matter.                                        *)
(***************************************************************************)
EditsAreKept == \A b \in Ids \ raced : bots[b] = said[b]
=============================================================================
