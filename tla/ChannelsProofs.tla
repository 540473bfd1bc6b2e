--------------------------- MODULE ChannelsProofs ---------------------------
(***************************************************************************)
(* Proofs about Channels, for any number of chatbots, tabs, pages, calls,  *)
(* Telegram bots and updates, and for every budget of requests, visits and *)
(* Telegram events.                                                        *)
(***************************************************************************)
EXTENDS Channels, FiniteSetTheorems, TLAPS

-----------------------------------------------------------------------------
(* The owner's chatbots. *)

\* A request that is about to save holds the object of an existing id.
JobInv ==
    \A t \in Tabs :
        tab[t] # NULL /\ tab[t].step = "save" =>
            tab[t].inst \in Row /\ tab[t].bot \in 1 .. made

\* Only ids that were handed out are in use.
IdsInv == \A b \in Ids : bots[b] # NULL => b <= made

LifecycleOK == LifecycleTypes /\ JobInv /\ IdsInv

LEMMA OwnedIsFinite == Cardinality(Owned) \in 0 .. MaxBots
<1>1. IsFiniteSet(Ids) /\ Cardinality(Ids) = MaxBots
  BY LifecycleConstants, FS_Interval DEF Ids, LifecycleConstants
<1>2. Owned \subseteq Ids
  BY DEF Owned
<1>. QED  BY <1>1, <1>2, FS_Subset, FS_CardinalityType

LEMMA FrozenType == ASSUME NEW row \in Row PROVE Frozen(row) \in Row /\ Frozen(row).config \in Snapshot
  BY DEF Frozen, Row, Draft, Snapshot, Columns, Snapshotted

LEMMA NewBotType == NewBot \in Row
  BY LifecycleConstants DEF LifecycleConstants, NewBot, Row, Draft

LEMMA LifecycleInitOK == LifecycleInit => LifecycleOK
<1>. SUFFICES ASSUME LifecycleInit PROVE LifecycleOK
  OBVIOUS
<1>1. made \in 0 .. MaxBots
  BY LifecycleConstants DEF LifecycleInit, LifecycleConstants
<1>2. bots \in [Ids -> Row \cup {NULL}]
  BY NewBotType, FrozenType DEF LifecycleInit
<1>3. released \in [Ids -> SUBSET Snapshot]
  <2>1. Frozen(NewBot).config \in Snapshot
    BY NewBotType, FrozenType
  <2>2. \A b \in Ids : b <= made => bots[b] = Frozen(NewBot)
    BY DEF LifecycleInit
  <2>. QED  BY <2>1, <2>2 DEF LifecycleInit
<1>4. tab \in [Tabs -> Job \cup {NULL}] /\ JobInv
  BY DEF LifecycleInit, JobInv
<1>. QED  BY <1>1, <1>2, <1>3, <1>4 DEF LifecycleInit, LifecycleOK, LifecycleTypes, IdsInv

LEMMA SaveBotOK ==
  ASSUME LifecycleOK, NEW t \in Tabs, tab[t] # NULL, tab[t].step = "save",
         NEW row \in Row, NEW acked,
         said[tab[t].bot] # NULL => acked \in Row,
         SaveBot(t, row, acked), released' \in [Ids -> SUBSET Snapshot]
  PROVE  LifecycleOK'
<1>1. tab[t].bot \in Ids /\ tab[t].bot \in 1 .. made
  BY LifecycleConstants DEF LifecycleConstants, LifecycleOK, LifecycleTypes, JobInv, Ids
<1>2. bots' \in [Ids -> Row \cup {NULL}] /\ said' \in [Ids -> Row \cup {NULL}] /\ IdsInv'
  BY <1>1 DEF LifecycleOK, LifecycleTypes, SaveBot, IdsInv
<1>3. tab' \in [Tabs -> Job \cup {NULL}] /\ JobInv'
  BY DEF LifecycleOK, LifecycleTypes, JobInv, SaveBot, Done
<1>. QED  BY <1>2, <1>3 DEF LifecycleOK, LifecycleTypes, SaveBot

LEMMA WrittenType ==
  ASSUME NEW row \in Row, NEW c \in Columns, NEW v \in Texts
  PROVE  Written(row, c, v) \in Row /\ [row EXCEPT !.draft[c] = v] \in Row
  BY DEF Written, Row, Draft

LEMMA SwitchedType ==
  ASSUME NEW row \in Row, NEW active \in BOOLEAN
  PROVE  [row EXCEPT !.active = active] \in Row
  BY DEF Row

\* The row that the client is told of when it publishes.
LEMMA AckedPublishType ==
  ASSUME NEW row \in Row
  PROVE  [row EXCEPT !.active = TRUE, !.published = TRUE,
                     !.config = [c \in Snapshotted |-> row.draft[c]]] \in Row
  BY FrozenType DEF Frozen

\* Every step of the owner keeps the types and the objects under way.
LEMMA LifecycleStep ==
  ASSUME LifecycleOK, OwnerStarts \/ OwnerEdits \/ \E t \in Tabs : Destroy(t)
  PROVE  LifecycleOK'
<1>1. ASSUME NEW t \in Tabs, CountBots(t) \/ GoogleLogin(t) PROVE LifecycleOK'
  <2>1. \E count \in 0 .. MaxBots, op \in {"create", "login"} :
           tab' = [tab EXCEPT ![t] = [op |-> op, step |-> "plan", bot |-> NULL,
                                      inst |-> NULL, count |-> count]]
    BY <1>1, OwnedIsFinite, LifecycleConstants DEF CountBots, GoogleLogin, LifecycleConstants
  <2>2. tab' \in [Tabs -> Job \cup {NULL}] /\ JobInv'
    BY <1>1, <2>1 DEF LifecycleOK, LifecycleTypes, Job, JobInv, CountBots, GoogleLogin
  <2>. QED  BY <1>1, <2>2 DEF LifecycleOK, LifecycleTypes, IdsInv, CountBots, GoogleLogin
<1>2. ASSUME NEW t \in Tabs, GetSubscription(t) \/ Subscribe(t) PROVE LifecycleOK'
  <2>1. tab[t] \in Job
    BY <1>2 DEF LifecycleOK, LifecycleTypes, GetSubscription, Subscribe, At
  <2>2. tab' \in [Tabs -> Job \cup {NULL}] /\ JobInv'
    BY <1>2, <2>1 DEF LifecycleOK, LifecycleTypes, Job, JobInv, GetSubscription, Subscribe,
                      At, Planned, Done
  <2>. QED  BY <1>2, <2>2 DEF LifecycleOK, LifecycleTypes, IdsInv, GetSubscription, Subscribe
<1>3. ASSUME NEW t \in Tabs, InsertBot(t) PROVE LifecycleOK'
  <2>1. made + 1 \in Ids /\ made' = made + 1 /\ made' \in 0 .. MaxBots
    BY <1>3, LifecycleConstants
    DEF LifecycleOK, LifecycleTypes, InsertBot, Ids, LifecycleConstants
  <2>2. tab' \in [Tabs -> Job \cup {NULL}] /\ JobInv'
    BY <1>3, LifecycleConstants
    DEF LifecycleOK, LifecycleTypes, InsertBot, JobInv, Done, LifecycleConstants
  <2>3. IdsInv'
    BY <1>3, LifecycleConstants
    DEF LifecycleOK, LifecycleTypes, InsertBot, IdsInv, Ids, LifecycleConstants
  <2>. QED  BY <1>3, <2>1, <2>2, <2>3, NewBotType DEF LifecycleOK, LifecycleTypes, InsertBot
<1>4. ASSUME NEW t \in Tabs, NEW b \in Ids, NEW op \in {"column", "activity", "publish", "destroy"},
             Begin(t, b, op)
      PROVE  LifecycleOK'
  <2>1. bots[b] \in Row /\ b \in 1 .. made
    BY <1>4, LifecycleConstants
    DEF Begin, LifecycleOK, LifecycleTypes, IdsInv, Ids, LifecycleConstants
  <2>2. tab' \in [Tabs -> Job \cup {NULL}] /\ JobInv'
    BY <1>4, <2>1, LifecycleConstants
    DEF LifecycleOK, LifecycleTypes, Begin, Job, JobInv, LifecycleConstants
  <2>. QED  BY <1>4, <2>2 DEF LifecycleOK, LifecycleTypes, IdsInv, Begin
<1>5. ASSUME NEW t \in Tabs, At(t, {"column", "activity", "publish", "destroy"}, "save")
      PROVE  /\ tab[t] # NULL /\ tab[t].step = "save" /\ tab[t].inst \in Row
             /\ tab[t].bot \in Ids
             /\ said[tab[t].bot] # NULL => said[tab[t].bot] \in Row
  <2>1. tab[t] # NULL /\ tab[t].step = "save" /\ tab[t].inst \in Row /\ tab[t].bot \in 1 .. made
    BY <1>5 DEF At, LifecycleOK, JobInv
  <2>2. tab[t].bot \in Ids
    BY <2>1, LifecycleConstants DEF LifecycleOK, LifecycleTypes, Ids, LifecycleConstants
  <2>. QED  BY <2>1, <2>2 DEF LifecycleOK, LifecycleTypes
<1>6. ASSUME NEW t \in Tabs, NEW c \in Columns, NEW v \in Texts, WriteColumn(t, c, v)
      PROVE  LifecycleOK'
  BY <1>5, <1>6, SaveBotOK, WrittenType DEF WriteColumn, At, LifecycleOK, LifecycleTypes
<1>7. ASSUME NEW t \in Tabs, NEW active \in BOOLEAN, WriteActivity(t, active)
      PROVE  LifecycleOK'
  BY <1>5, <1>7, SaveBotOK, SwitchedType DEF WriteActivity, At, LifecycleOK, LifecycleTypes
<1>8. ASSUME NEW t \in Tabs, Publish(t) PROVE LifecycleOK'
  <2>1. /\ tab[t] # NULL /\ tab[t].step = "save" /\ tab[t].inst \in Row
        /\ tab[t].bot \in Ids
        /\ said[tab[t].bot] # NULL => said[tab[t].bot] \in Row
    BY <1>5, <1>8 DEF Publish, At
  <2>2. released' \in [Ids -> SUBSET Snapshot]
    BY <1>8, <2>1, FrozenType DEF Publish, LifecycleOK, LifecycleTypes
  <2>. QED  BY <1>8, <2>1, <2>2, SaveBotOK, FrozenType, AckedPublishType DEF Publish
<1>9. ASSUME NEW t \in Tabs, Destroy(t) \/ Abort(t) PROVE LifecycleOK'
  <2>1. tab' \in [Tabs -> Job \cup {NULL}] /\ JobInv'
    BY <1>9 DEF LifecycleOK, LifecycleTypes, JobInv, Destroy, Abort, Done
  <2>2. bots' \in [Ids -> Row \cup {NULL}] /\ said' \in [Ids -> Row \cup {NULL}] /\ IdsInv'
    BY <1>9 DEF LifecycleOK, LifecycleTypes, IdsInv, Destroy, Abort
  <2>. QED  BY <1>9, <2>1, <2>2 DEF LifecycleOK, LifecycleTypes, Destroy, Abort
<1>. QED
  BY <1>1, <1>2, <1>3, <1>4, <1>6, <1>7, <1>8, <1>9 DEF OwnerStarts, OwnerEdits

-----------------------------------------------------------------------------
(* Edits and publications. *)

\* Tab t is about to save chatbot b.
Holds(t, b) == tab[t] # NULL /\ tab[t].step = "save" /\ tab[t].bot = b

(***************************************************************************)
(* Where no requests overlapped, the row is what the client was told, and  *)
(* the one request that holds the chatbot holds it as it is in the table.  *)
(***************************************************************************)
EditInv ==
    \A b \in Ids \ raced :
        /\ bots[b] = said[b]
        /\ \A t \in Tabs : Holds(t, b) => tab[t].inst = bots[b]
        /\ \A t, u \in Tabs : Holds(t, b) /\ Holds(u, b) => t = u

\* A snapshot, in the table or in an object under way, was published; a
\* published chatbot has one.
ConfigOK(b, row) ==
    row.config \in released[b] \cup {NULL} /\ (row.published => row.config # NULL)

ReleasedInv ==
    /\ \A b \in Ids : bots[b] # NULL => ConfigOK(b, bots[b])
    /\ \A t \in Tabs, b \in Ids : Holds(t, b) => ConfigOK(b, tab[t].inst)

\* A save leaves the other chatbots alone and the tab free.
LEMMA SaveBotEffect ==
  ASSUME LifecycleOK, NEW t \in Tabs, NEW b \in Ids, Holds(t, b),
         NEW row, NEW acked, SaveBot(t, row, acked)
  PROVE  /\ bots'[b] = row
         /\ said'[b] = IF said[b] = NULL THEN row ELSE acked
         /\ \A c \in Ids \ {b} : bots'[c] = bots[c] /\ said'[c] = said[c]
         /\ tab'[t] = NULL
         /\ \A u \in Tabs \ {t} : tab'[u] = tab[u]
         /\ raced' = raced
  BY DEF SaveBot, Done, Holds, LifecycleOK, LifecycleTypes

LEMMA SaveKeepsEdits ==
  ASSUME LifecycleOK, EditInv, NEW t \in Tabs, NEW b \in Ids, Holds(t, b),
         NEW row, NEW acked, SaveBot(t, row, acked),
         tab[t].inst = said[b] => row = acked
  PROVE  EditInv'
<1>. SUFFICES ASSUME NEW c \in Ids \ raced
     PROVE  /\ bots'[c] = said'[c]
            /\ \A u \in Tabs : Holds(u, c)' => tab'[u].inst = bots'[c]
            /\ \A u, v \in Tabs : Holds(u, c)' /\ Holds(v, c)' => u = v
  BY SaveBotEffect DEF EditInv
<1>1. \A u \in Tabs : Holds(u, c)' => u # t /\ Holds(u, c) /\ tab'[u] = tab[u]
  BY SaveBotEffect DEF Holds
<1>2. CASE c = b
  BY <1>1, <1>2, SaveBotEffect DEF EditInv
<1>3. CASE c # b
  BY <1>1, <1>3, SaveBotEffect DEF EditInv
<1>. QED  BY <1>2, <1>3

LEMMA SaveKeepsReleased ==
  ASSUME LifecycleOK, ReleasedInv, NEW t \in Tabs, NEW b \in Ids, Holds(t, b),
         NEW row, NEW acked, SaveBot(t, row, acked),
         \A c \in Ids : released[c] \subseteq released'[c],
         row.config \in released'[b] \cup {NULL}, row.published => row.config # NULL
  PROVE  ReleasedInv'
<1>1. \A u \in Tabs, c \in Ids : Holds(u, c)' => u # t /\ Holds(u, c) /\ tab'[u] = tab[u]
  BY SaveBotEffect DEF Holds
<1>2. \A c \in Ids : bots'[c] # NULL => ConfigOK(c, bots[c])' \/ (c = b /\ ConfigOK(b, row)')
  BY SaveBotEffect DEF ReleasedInv, ConfigOK
<1>. QED  BY <1>1, <1>2, SaveBotEffect DEF ReleasedInv, ConfigOK

\* The object in a tab that saves, and the chatbot it belongs to.
LEMMA HeldObject ==
  ASSUME LifecycleOK, NEW t \in Tabs, NEW ops, At(t, ops, "save")
  PROVE  Holds(t, tab[t].bot) /\ tab[t].bot \in Ids /\ tab[t].inst \in Row
<1>1. tab[t].inst \in Row /\ tab[t].bot \in 1 .. made /\ Holds(t, tab[t].bot)
  BY DEF At, Holds, LifecycleOK, JobInv
<1>. QED  BY <1>1, LifecycleConstants DEF LifecycleOK, LifecycleTypes, Ids, LifecycleConstants

\* Steps that neither save nor begin to: the tab that moves holds nothing after.
LEMMA FreeTabKeeps ==
  ASSUME LifecycleOK, NEW t \in Tabs, \A b : ~Holds(t, b)',
         \A u \in Tabs \ {t} : tab'[u] = tab[u],
         UNCHANGED <<bots, said, raced, released>>
  PROVE  (EditInv => EditInv') /\ (ReleasedInv => ReleasedInv')
<1>1. \A u \in Tabs, c \in Ids : Holds(u, c)' => Holds(u, c) /\ tab'[u] = tab[u]
  BY DEF Holds
<1>2. EditInv => EditInv'
  BY <1>1 DEF EditInv
<1>3. ReleasedInv => ReleasedInv'
  BY <1>1 DEF ReleasedInv, ConfigOK
<1>. QED  BY <1>2, <1>3

LEMMA EditStep ==
  ASSUME LifecycleOK, EditInv, ReleasedInv,
         OwnerStarts \/ OwnerEdits \/ \E t \in Tabs : Destroy(t)
  PROVE  EditInv' /\ ReleasedInv' /\ \A b \in Ids : released[b] \subseteq released'[b]
<1>. DEFINE Goal == EditInv' /\ ReleasedInv' /\ \A b \in Ids : released[b] \subseteq released'[b]
<1>1. ASSUME NEW t \in Tabs,
             CountBots(t) \/ GoogleLogin(t) \/ GetSubscription(t) \/ Subscribe(t) \/ Abort(t)
      PROVE  Goal
  <2>1. UNCHANGED <<bots, said, raced, released>>
    BY <1>1 DEF CountBots, GoogleLogin, GetSubscription, Subscribe, Abort
  <2>2. tab'[t] = NULL \/ tab'[t].step \in {"plan", "subscribe", "insert"}
    BY <1>1 DEF CountBots, GoogleLogin, GetSubscription, Subscribe, Abort, Done, Planned, At,
                LifecycleOK, LifecycleTypes, Job
  <2>3. \A u \in Tabs \ {t} : tab'[u] = tab[u]
    BY <1>1 DEF CountBots, GoogleLogin, GetSubscription, Subscribe, Abort, Done, Planned,
                LifecycleOK, LifecycleTypes
  <2>4. \A b : ~Holds(t, b)'
    BY <2>2 DEF Holds
  <2>. QED  BY <2>1, <2>3, <2>4, FreeTabKeeps
<1>2. ASSUME NEW t \in Tabs, InsertBot(t) PROVE Goal
  <2>1. made + 1 \in Ids /\ \A u \in Tabs : ~Holds(u, made + 1)
    BY <1>2, LifecycleConstants
    DEF InsertBot, LifecycleOK, LifecycleTypes, JobInv, Holds, Ids, LifecycleConstants
  <2>2. \A u \in Tabs, c \in Ids : Holds(u, c)' => Holds(u, c) /\ tab'[u] = tab[u]
    BY <1>2 DEF InsertBot, Done, Holds, LifecycleOK, LifecycleTypes
  <2>3. /\ bots'[made + 1] = NewBot /\ said'[made + 1] = NewBot
        /\ \A c \in Ids \ {made + 1} : bots'[c] = bots[c] /\ said'[c] = said[c]
        /\ UNCHANGED <<raced, released>>
    BY <1>2, <2>1 DEF InsertBot, LifecycleOK, LifecycleTypes
  <2>4. EditInv'
    BY <2>1, <2>2, <2>3 DEF EditInv
  <2>5. ReleasedInv'
    BY <2>1, <2>2, <2>3 DEF ReleasedInv, ConfigOK, NewBot
  <2>. QED  BY <2>3, <2>4, <2>5
<1>3. ASSUME NEW t \in Tabs, NEW b \in Ids, NEW op \in {"column", "activity", "publish", "destroy"},
             Begin(t, b, op)
      PROVE  Goal
  <2>1. /\ tab'[t].bot = b /\ tab'[t].inst = bots[b] /\ ~\E c : Holds(t, c)
        /\ \A u \in Tabs \ {t} : tab'[u] = tab[u]
        /\ UNCHANGED <<bots, said, released>> /\ bots[b] # NULL
    BY <1>3 DEF Begin, Holds, LifecycleOK, LifecycleTypes
  <2>2. raced \subseteq raced' /\ (b \notin raced' => \A u \in Tabs : ~Holds(u, b))
    BY <1>3 DEF Begin, Holds
  <2>3. \A u \in Tabs, c \in Ids : Holds(u, c)' => (u = t /\ c = b) \/ (u # t /\ Holds(u, c))
    BY <2>1 DEF Holds
  <2>4. EditInv'
    BY <2>1, <2>2, <2>3 DEF EditInv
  <2>5. ReleasedInv'
    BY <2>1, <2>3 DEF ReleasedInv, ConfigOK
  <2>. QED  BY <2>1, <2>4, <2>5
<1>4. ASSUME NEW t \in Tabs, NEW c \in Columns, NEW v \in Texts, WriteColumn(t, c, v)
      PROVE  Goal
  <2>1. Holds(t, tab[t].bot) /\ tab[t].bot \in Ids /\ tab[t].inst \in Row
    BY <1>4, HeldObject DEF WriteColumn
  <2>2. /\ Written(tab[t].inst, c, v).config = tab[t].inst.config
        /\ Written(tab[t].inst, c, v).published = tab[t].inst.published
    BY <2>1 DEF Written, Row
  <2>3. UNCHANGED released /\ ConfigOK(tab[t].bot, tab[t].inst)
    BY <1>4, <2>1 DEF WriteColumn, ReleasedInv
  <2>4. EditInv'
    BY <1>4, <2>1, SaveKeepsEdits DEF WriteColumn, Written
  <2>5. ReleasedInv'
    BY <1>4, <2>1, <2>2, <2>3, SaveKeepsReleased DEF WriteColumn, ConfigOK
  <2>. QED  BY <2>3, <2>4, <2>5
<1>5. ASSUME NEW t \in Tabs, NEW active \in BOOLEAN, WriteActivity(t, active)
      PROVE  Goal
  <2>1. Holds(t, tab[t].bot) /\ tab[t].bot \in Ids /\ tab[t].inst \in Row
    BY <1>5, HeldObject DEF WriteActivity
  <2>2. /\ [tab[t].inst EXCEPT !.active = active].config = tab[t].inst.config
        /\ [tab[t].inst EXCEPT !.active = active].published = tab[t].inst.published
    BY <2>1 DEF Row
  <2>3. UNCHANGED released /\ ConfigOK(tab[t].bot, tab[t].inst)
    BY <1>5, <2>1 DEF WriteActivity, ReleasedInv
  <2>4. EditInv'
    BY <1>5, <2>1, SaveKeepsEdits DEF WriteActivity
  <2>5. ReleasedInv'
    BY <1>5, <2>1, <2>2, <2>3, SaveKeepsReleased DEF WriteActivity, ConfigOK
  <2>. QED  BY <2>3, <2>4, <2>5
<1>6. ASSUME NEW t \in Tabs, Publish(t) PROVE Goal
  <2>1. Holds(t, tab[t].bot) /\ tab[t].bot \in Ids /\ tab[t].inst \in Row
    BY <1>6, HeldObject DEF Publish
  <2>2. Frozen(tab[t].inst).config # NULL
    BY <2>1, FrozenType, SnapshotAssumption
  <2>3. /\ \A b \in Ids : released[b] \subseteq released'[b]
        /\ Frozen(tab[t].inst).config \in released'[tab[t].bot]
    BY <1>6, <2>1 DEF Publish, LifecycleOK, LifecycleTypes
  <2>4. EditInv'
    BY <1>6, <2>1, SaveKeepsEdits DEF Publish, Frozen
  <2>5. ReleasedInv'
    BY <1>6, <2>1, <2>2, <2>3, SaveKeepsReleased DEF Publish
  <2>. QED  BY <2>3, <2>4, <2>5
<1>7. ASSUME NEW t \in Tabs, Destroy(t) PROVE Goal
  <2>1. Holds(t, tab[t].bot) /\ tab[t].bot \in Ids
    BY <1>7, HeldObject DEF Destroy
  <2>2. /\ bots'[tab[t].bot] = NULL /\ said'[tab[t].bot] = NULL
        /\ \A c \in Ids \ {tab[t].bot} : bots'[c] = bots[c] /\ said'[c] = said[c]
        /\ UNCHANGED <<raced, released>>
    BY <1>7, <2>1 DEF Destroy, LifecycleOK, LifecycleTypes
  <2>3. \A u \in Tabs, c \in Ids : Holds(u, c)' => u # t /\ Holds(u, c) /\ tab'[u] = tab[u]
    BY <1>7 DEF Destroy, Done, Holds, LifecycleOK, LifecycleTypes
  <2>4. EditInv'
    BY <2>1, <2>2, <2>3 DEF EditInv
  <2>5. ReleasedInv'
    BY <2>1, <2>2, <2>3 DEF ReleasedInv, ConfigOK
  <2>. QED  BY <2>2, <2>4, <2>5
<1>. QED
  BY <1>1, <1>2, <1>3, <1>4, <1>5, <1>6, <1>7 DEF OwnerStarts, OwnerEdits

-----------------------------------------------------------------------------
(* The widget. *)

\* A page takes its calls with it.
CallInv == \A i \in Slots : call[i] # NULL => page[call[i].page] \in Shell

WidgetOK == WidgetTypes /\ CallInv

\* What fetch() adds is a call of its page, in a free slot.
LEMMA FetchOK ==
  ASSUME WidgetTypes, NEW p \in Pages, NEW kind \in {"config", "session", "chat"},
         NEW token \in Tokens \cup {NULL}, Fetch(p, kind, token)
  PROVE  /\ call' \in [Slots -> Call \cup {NULL}]
         /\ \A i \in Slots : call'[i] # NULL => (call[i] # NULL /\ call'[i] = call[i])
                                \/ (call'[i].page = p /\ call'[i].config = NULL)
  BY DEF Fetch, WidgetTypes, Call

\* What a configuration of the embedded chatbot can be when it is served.
LEMMA ServedConfig ==
  ASSUME LifecycleOK, ReleasedInv, Serves(bots[Embedded]), NEW c \in Columns
  PROVE  /\ Response(bots[Embedded], c) \in Served
         /\ Response(bots[Embedded], c).frozen \in released[Embedded]
<1>1. Embedded \in Ids /\ bots[Embedded] # NULL /\ bots[Embedded].published
  BY WidgetConstants DEF WidgetConstants, Serves, IsLive
<1>2. bots[Embedded].config \in released[Embedded] /\ bots[Embedded].config # NULL
  BY <1>1 DEF ReleasedInv, ConfigOK
<1>3. bots[Embedded] \in Row /\ bots[Embedded].draft[c] \in Texts
  BY <1>1 DEF LifecycleOK, LifecycleTypes, Row, Draft
<1>4. RuntimeConfig(bots[Embedded]) = bots[Embedded].config /\ bots[Embedded].config \in Snapshot
  BY <1>1, <1>2, <1>3 DEF RuntimeConfig, Row
<1>. QED  BY <1>2, <1>3, <1>4 DEF Response, Served

LEMMA AnswerOK ==
  ASSUME WidgetOK, NEW i \in Slots, call[i] # NULL, NEW ok \in BOOLEAN, NEW token, NEW config,
         ok => token \in Tokens \cup {NULL} /\ config \in Served \cup {NULL},
         Answer(i, ok, token, config), UNCHANGED page
  PROVE  /\ call' \in [Slots -> Call \cup {NULL}]
         /\ CallInv'
         /\ call'[i].config \in {call[i].config} \cup (IF ok THEN {config} ELSE {})
         /\ \A j \in Slots \ {i} : call'[j] = call[j]
<1>1. call[i] \in Call
  BY DEF WidgetOK, WidgetTypes
<1>. QED  BY <1>1 DEF WidgetOK, WidgetTypes, CallInv, Answer, Call

\* The steps of the widget that neither fetch nor answer.
LEMMA PageStep ==
  ASSUME WidgetOK, NEW p \in Pages, page' \in [Pages -> Shell \cup {NULL}],
         page'[p] \in Shell, \A q \in Pages \ {p} : page'[q] = page[q],
         NEW i \in Slots, Handled(i)
  PROVE  call' \in [Slots -> Call \cup {NULL}] /\ CallInv'
  BY DEF WidgetOK, WidgetTypes, CallInv, Handled, Call

LEMMA WidgetStepOK ==
  ASSUME WidgetOK, LifecycleOK, ReleasedInv, FrozenPartIsPublished,
         VisitorActs \/ WidgetRuns, UNCHANGED lifecycleVars
  PROVE  WidgetOK' /\ FrozenPartIsPublished'
<1>. DEFINE Goal == WidgetOK' /\ FrozenPartIsPublished'
<1>0. UNCHANGED released
  BY DEF lifecycleVars
<1>1. ASSUME NEW p \in Pages, LoadPage(p) PROVE Goal
  <2>1. Unloaded \in Shell
    BY DEF Unloaded, Shell
  <2>2. CASE cached[p] # NULL /\ page' = [page EXCEPT ![p] = [Unloaded EXCEPT !.phase = "ready", !.shows = cached[p]]]
             /\ UNCHANGED call
    <3>1. page'[p] \in Shell /\ page'[p].shows = cached[p]
      BY <2>1, <2>2 DEF WidgetOK, WidgetTypes, Shell, Unloaded
    <3>2. WidgetOK'
      BY <1>1, <2>2, <3>1 DEF LoadPage, WidgetOK, WidgetTypes, CallInv, Call
    <3>. QED  BY <1>0, <1>1, <2>2, <3>1, <3>2 DEF LoadPage, FrozenPartIsPublished, WidgetOK, WidgetTypes
  <2>3. CASE page' = [page EXCEPT ![p] = Unloaded] /\ Fetch(p, "config", NULL)
    <3>1. WidgetOK'
      BY <1>1, <2>1, <2>3, FetchOK DEF LoadPage, WidgetOK, WidgetTypes, CallInv
    <3>. QED  BY <1>0, <1>1, <2>3, <3>1, FetchOK
              DEF LoadPage, FrozenPartIsPublished, WidgetOK, WidgetTypes, Unloaded
  <2>. QED  BY <1>1, <2>2, <2>3 DEF LoadPage
<1>2. ASSUME NEW p \in Pages, NEW closed \in BOOLEAN, LeavePage(p, closed) PROVE Goal
  <2>1. /\ \A q \in Pages \ {p} : page'[q] = page[q]
        /\ \A q \in Pages : cached'[q] \in {cached[q], NULL}
        /\ page'[p] = NULL
        /\ \A i \in Slots : call'[i] # NULL => call'[i] = call[i] /\ call[i].page # p
    BY <1>2 DEF LeavePage, WidgetOK, WidgetTypes
  <2>2. WidgetOK'
    BY <1>2, <2>1 DEF LeavePage, WidgetOK, WidgetTypes, CallInv, Call
  <2>. QED  BY <1>0, <2>1, <2>2 DEF FrozenPartIsPublished
<1>3. ASSUME NEW p \in Pages, ToggleChat(p) \/ SendMessage(p) PROVE Goal
  <2>1. page[p] \in Shell
    BY <1>3 DEF ToggleChat, SendMessage, Ready, WidgetOK, WidgetTypes
  <2>2. store # NULL => store.token \in Tokens \cup {NULL}
    BY DEF WidgetOK, WidgetTypes, Session
  <2>3. /\ page'[p] \in Shell /\ page'[p].shows = page[p].shows
        /\ page' \in [Pages -> Shell \cup {NULL}]
        /\ \A q \in Pages \ {p} : page'[q] = page[q]
    <3>1. CASE ToggleChat(p)
      <4>1. [page[p] EXCEPT !.open = ~@] \in Shell
        BY <2>1 DEF Shell
      <4>2. ASSUME NEW token \in Tokens \cup {NULL}
            PROVE  [page[p] EXCEPT !.open = ~@, !.token = token] \in Shell
        BY <2>1 DEF Shell
      <4>3. \/ page' = [page EXCEPT ![p].open = ~@]
            \/ HasSession /\ page' = [[page EXCEPT ![p].open = ~@] EXCEPT ![p].token = store.token]
        BY <3>1 DEF ToggleChat
      <4>4. CASE page' = [page EXCEPT ![p].open = ~@]
        BY <2>1, <4>1, <4>4 DEF WidgetOK, WidgetTypes, Shell
      <4>5. CASE HasSession /\ page' = [[page EXCEPT ![p].open = ~@] EXCEPT ![p].token = store.token]
        <5>1. page' = [page EXCEPT ![p] = [page[p] EXCEPT !.open = ~@, !.token = store.token]]
          BY <4>5 DEF WidgetOK, WidgetTypes
        <5>2. store.token \in Tokens \cup {NULL}
          BY <2>2, <4>5 DEF HasSession
        <5>. QED  BY <2>1, <4>2, <5>1, <5>2 DEF WidgetOK, WidgetTypes, Shell
      <4>. QED  BY <4>3, <4>4, <4>5
    <3>2. CASE SendMessage(p)
      BY <3>2, <2>1 DEF SendMessage, WidgetOK, WidgetTypes, Shell
    <3>. QED  BY <1>3, <3>1, <3>2
  <2>4. \/ UNCHANGED call
        \/ \E kind \in {"session", "chat"}, token \in Tokens \cup {NULL} : Fetch(p, kind, token)
    <3>1. page[p].token \in Tokens \cup {NULL}
      BY <2>1 DEF Shell
    <3>. QED  BY <1>3, <3>1 DEF ToggleChat, SendMessage
  <2>5. /\ call' \in [Slots -> Call \cup {NULL}]
        /\ \A i \in Slots : call'[i] # NULL => (call[i] # NULL /\ call'[i] = call[i])
                                \/ (call'[i].page = p /\ call'[i].config = NULL)
    BY <2>4, FetchOK DEF WidgetOK, WidgetTypes
  <2>6. UNCHANGED <<cached, store, issued, expired, spoke>> /\ split' \in BOOLEAN
    BY <1>3 DEF ToggleChat, SendMessage, WidgetOK, WidgetTypes
  <2>7. WidgetOK'
    BY <2>3, <2>5, <2>6 DEF WidgetOK, WidgetTypes, CallInv, Call
  <2>8. FrozenPartIsPublished'
    BY <1>0, <2>1, <2>3, <2>5, <2>6, ShellAssumption
    DEF FrozenPartIsPublished, WidgetOK, WidgetTypes
  <2>. QED  BY <2>7, <2>8
<1>4. ASSUME NEW i \in Slots, call[i] # NULL, NEW ok \in BOOLEAN, NEW token, NEW config,
             ok => token \in Tokens \cup {NULL} /\ config \in Served \cup {NULL},
             ok /\ config # NULL => config.frozen \in released[Embedded],
             Answer(i, ok, token, config),
             UNCHANGED <<page, cached, store, expired, split>>,
             issued' \in 0 .. MaxTokens, spoke' \subseteq Tokens
      PROVE  Goal
  <2>1. /\ call' \in [Slots -> Call \cup {NULL}] /\ CallInv'
        /\ call'[i].config \in {call[i].config} \cup (IF ok THEN {config} ELSE {})
        /\ \A j \in Slots \ {i} : call'[j] = call[j]
    BY <1>4, AnswerOK
  <2>2. WidgetOK'
    BY <1>4, <2>1 DEF WidgetOK, WidgetTypes
  <2>. QED  BY <1>0, <1>4, <2>1, <2>2 DEF FrozenPartIsPublished
<1>5. ASSUME NEW i \in Slots, Refuse(i) \/ GetConfig(i) \/ PostSession(i) \/ PostChat(i) PROVE Goal
  <2>. call[i] # NULL /\ call[i].token \in Tokens \cup {NULL}
    BY <1>5 DEF Refuse, GetConfig, PostSession, PostChat, Asked, WidgetOK, WidgetTypes, Call
  <2>. DEFINE live == Serves(bots[Embedded])
              config(c) == Response(bots[Embedded], c)
  <2>1. /\ live \in BOOLEAN
        /\ \A c \in {"settings", "personality"} :
              live => config(c) \in Served /\ config(c).frozen \in released[Embedded]
    BY ServedConfig DEF Serves, IsLive, Columns
  <2>2. CASE Refuse(i)
    BY <1>4, <2>2 DEF Refuse, WidgetOK, WidgetTypes
  <2>3. CASE GetConfig(i)
    <3>1. Answer(i, live, NULL, config("settings"))
      BY <2>3 DEF GetConfig
    <3>. HIDE DEF live, config
    <3>. QED  BY <1>4, <2>1, <2>3, <3>1 DEF GetConfig, WidgetOK, WidgetTypes
  <2>4. CASE PostSession(i)
    <3>1. issued + 1 \in Tokens /\ issued' \in 0 .. MaxTokens
      BY <2>4, WidgetConstants DEF PostSession, WidgetOK, WidgetTypes, Tokens, WidgetConstants
    <3>. QED  BY <1>4, <2>1, <2>4, <3>1 DEF PostSession, WidgetOK, WidgetTypes
  <2>5. CASE PostChat(i)
    <3>. DEFINE ok == call[i].token # NULL /\ call[i].token \notin expired /\ live
    <3>1. ok \in BOOLEAN /\ (ok => call[i].token \in Tokens)
      BY <2>1
    <3>2. spoke' \subseteq Tokens /\ Answer(i, ok, call[i].token, config("personality"))
      BY <2>5, <3>1 DEF PostChat, WidgetOK, WidgetTypes
    <3>. HIDE DEF ok, live, config
    <3>3. ok => live
      BY DEF ok
    <3>. QED  BY <1>4, <2>1, <2>5, <3>1, <3>2, <3>3 DEF PostChat, WidgetOK, WidgetTypes
  <2>. QED  BY <1>5, <2>2, <2>3, <2>4, <2>5
<1>6. ASSUME NEW i \in Slots, CallEnds(i) PROVE Goal
  <2>. DEFINE p == call[i].page
  <2>1. call[i] \in Call /\ call[i] # NULL /\ p \in Pages /\ page[p] \in Shell /\ Handled(i)
    BY <1>6 DEF CallEnds, ConfigArrives, SessionArrives, ChatArrives, CallFails, Answered,
                WidgetOK, WidgetTypes, CallInv, Call
  <2>2. /\ page'[p] \in Shell /\ page'[p].shows \in {page[p].shows, call[i].config}
        /\ page' \in [Pages -> Shell \cup {NULL}]
        /\ \A q \in Pages \ {p} : page'[q] = page[q]
    <3>1. CASE ConfigArrives(i)
      <4>1. \/ page' = [page EXCEPT ![p].phase = "dead"]
            \/ page' = [page EXCEPT ![p].phase = "ready", ![p].shows = call[i].config]
        BY <3>1 DEF ConfigArrives
      <4>2. CASE page' = [page EXCEPT ![p].phase = "dead"]
        BY <2>1, <4>2 DEF WidgetOK, WidgetTypes, Shell
      <4>3. CASE page' = [page EXCEPT ![p].phase = "ready", ![p].shows = call[i].config]
        <5>1. page' = [page EXCEPT ![p] = [page[p] EXCEPT !.phase = "ready", !.shows = call[i].config]]
          BY <2>1, <4>3 DEF WidgetOK, WidgetTypes
        <5>2. [page[p] EXCEPT !.phase = "ready", !.shows = call[i].config] \in Shell
          BY <2>1 DEF Shell, Call
        <5>. QED  BY <2>1, <5>1, <5>2 DEF WidgetOK, WidgetTypes, Shell
      <4>. QED  BY <4>1, <4>2, <4>3
    <3>2. CASE SessionArrives(i) \/ ChatArrives(i)
      <4>1. call[i].token \in Tokens \cup {NULL}
        BY <2>1 DEF Call
      <4>2. CASE page' = [page EXCEPT ![p].token = call[i].token]
        BY <2>1, <4>1, <4>2 DEF WidgetOK, WidgetTypes, Shell
      <4>3. CASE page' = [page EXCEPT ![p].typing = FALSE]
        BY <2>1, <4>3 DEF WidgetOK, WidgetTypes, Shell
      <4>. QED  BY <3>2, <4>2, <4>3 DEF SessionArrives, ChatArrives
    <3>3. CASE CallFails(i)
      <4>1. AfterFailure(page[p], call[i].kind) \in Shell
            /\ AfterFailure(page[p], call[i].kind).shows = page[p].shows
        BY <2>1 DEF AfterFailure, Shell, Call
      <4>. QED  BY <2>1, <3>3, <4>1 DEF CallFails, WidgetOK, WidgetTypes
    <3>. QED  BY <1>6, <3>1, <3>2, <3>3 DEF CallEnds
  <2>3. /\ cached' \in [Pages -> Served \cup {NULL}]
        /\ \A q \in Pages : cached'[q] \in {cached[q], call[i].config}
    BY <1>6, <2>1 DEF CallEnds, ConfigArrives, SessionArrives, ChatArrives, CallFails,
                      WidgetOK, WidgetTypes, Call
  <2>4. store' \in Session \cup {NULL}
    BY <1>6, <2>1 DEF CallEnds, ConfigArrives, SessionArrives, ChatArrives, CallFails,
                      WidgetOK, WidgetTypes, Session, Call
  <2>5. UNCHANGED <<issued, expired, spoke>> /\ split' \in BOOLEAN
    BY <1>6 DEF CallEnds, ConfigArrives, SessionArrives, ChatArrives, CallFails, WidgetOK, WidgetTypes
  <2>6. call' \in [Slots -> Call \cup {NULL}] /\ CallInv'
    BY <2>1, <2>2, PageStep
  <2>7. WidgetOK'
    BY <2>2, <2>3, <2>4, <2>5, <2>6 DEF WidgetOK, WidgetTypes
  <2>8. \A j \in Slots : call'[j] # NULL => call'[j] = call[j]
    BY <2>1 DEF Handled, WidgetOK, WidgetTypes
  <2>9. /\ call[i].config # NULL => call[i].config.frozen \in released[Embedded]
        /\ page'[p].shows # NULL => page'[p].shows.frozen \in released[Embedded]
    BY <2>1, <2>2, ShellAssumption DEF FrozenPartIsPublished
  <2>. QED  BY <1>0, <2>2, <2>3, <2>7, <2>8, <2>9 DEF FrozenPartIsPublished
<1>7. ASSUME NEW token \in Tokens, Expire(token) PROVE Goal
  <2>1. WidgetOK'
    BY <1>7 DEF Expire, WidgetOK, WidgetTypes, CallInv
  <2>. QED  BY <1>0, <1>7, <2>1 DEF Expire, FrozenPartIsPublished
<1>. QED
  BY <1>1, <1>2, <1>3, <1>5, <1>6, <1>7 DEF VisitorActs, WidgetRuns

-----------------------------------------------------------------------------
(* Telegram. *)

\* A secret is drawn before the webhook is set.
DialogInv ==
    \A d \in Dialogs :
        dialog[d] # NULL /\ dialog[d].step \in {"hook", "save"} => dialog[d].secret \in Secrets

TelegramOK == TelegramTypes /\ DialogInv

\* The places where secret s goes with the Telegram bot of token k.
Knows(k, s) ==
    \/ \E d \in Dialogs : /\ dialog[d] # NULL /\ dialog[d].step \in {"hook", "save"}
                          /\ dialog[d].key = k /\ dialog[d].secret = s
    \/ hook[k] # NULL /\ hook[k].secret = s
    \/ \E b \in Ids : integ[b] # NULL /\ integ[b].key = k /\ integ[b].secret = s
    \/ \E u \in Updates : /\ update[u] # NULL /\ update[u].via # NULL
                          /\ update[u].key = k /\ update[u].via.secret = s

(***************************************************************************)
(* A secret belongs to one Telegram bot, in requests, rows, webhooks and   *)
(* posts alike: this is what makes the comparison in the webhook enough.   *)
(***************************************************************************)
SecretInv ==
    /\ \A k \in Keys, s \in Secrets : Knows(k, s) => s <= secrets
    /\ \A k, l \in Keys, s \in Secrets : Knows(k, s) /\ Knows(l, s) => k = l

\* Steps that draw no secret spread none to another bot.
LEMMA NoNewSecret ==
  ASSUME SecretInv, \A k \in Keys, s \in Secrets : Knows(k, s)' => Knows(k, s), UNCHANGED secrets
  PROVE  SecretInv'
  BY DEF SecretInv

\* What marking some dialogs as disturbed leaves alone.
LEMMA DisturbedOK ==
  ASSUME TelegramOK, NEW D \in SUBSET {e \in Dialogs : dialog[e] # NULL}
  PROVE  /\ Disturbed(D) \in [Dialogs -> Dialog \cup {NULL}]
         /\ \A e \in Dialogs :
               Disturbed(D)[e] # NULL => /\ dialog[e] # NULL
                                         /\ Disturbed(D)[e].step = dialog[e].step
                                         /\ Disturbed(D)[e].key = dialog[e].key
                                         /\ Disturbed(D)[e].secret = dialog[e].secret
<1>1. ASSUME NEW e \in Dialogs, dialog[e] # NULL
      PROVE  LET x == [dialog[e] EXCEPT !.alone = FALSE]
             IN  x \in Dialog /\ x.step = dialog[e].step /\ x.key = dialog[e].key
                 /\ x.secret = dialog[e].secret
  BY <1>1 DEF TelegramOK, TelegramTypes, Dialog
<1>. QED  BY <1>1 DEF TelegramOK, TelegramTypes, Disturbed

LEMMA ConnectOK ==
  ASSUME TelegramOK, SecretInv, NEW d \in Dialogs, NEW b \in Ids, NEW k \in Keys, Connect(d, b, k)
  PROVE  TelegramOK' /\ SecretInv'
<1>1. PICK D \in SUBSET {e \in Dialogs : dialog[e] # NULL} :
         dialog' = [Disturbed(D) EXCEPT ![d] =
                       [bot |-> b, key |-> k, secret |-> NULL, step |-> "verify", alone |-> D = {}]]
  BY DEF Connect
<1>2. /\ dialog' \in [Dialogs -> Dialog \cup {NULL}]
      /\ dialog'[d].step = "verify"
      /\ \A e \in Dialogs \ {d} :
            dialog'[e] # NULL => /\ dialog[e] # NULL /\ dialog'[e].step = dialog[e].step
                                 /\ dialog'[e].key = dialog[e].key
                                 /\ dialog'[e].secret = dialog[e].secret
  BY <1>1, DisturbedOK DEF Dialog
<1>3. UNCHANGED <<integ, hook, secrets, update, adrift>>
  BY DEF Connect
<1>4. TelegramOK'
  BY <1>2, <1>3 DEF TelegramOK, TelegramTypes, DialogInv
<1>5. \A l \in Keys, s \in Secrets : Knows(l, s)' => Knows(l, s)
  BY <1>2, <1>3 DEF Knows
<1>. QED  BY <1>3, <1>4, <1>5, NoNewSecret

LEMMA VerifyOK ==
  ASSUME TelegramOK, SecretInv, NEW d \in Dialogs, VerifyToken(d)
  PROVE  TelegramOK' /\ SecretInv'
<1>1. secrets + 1 \in Secrets /\ secrets \in Nat /\ secrets' = secrets + 1 /\ secrets' \in 0 .. MaxSecrets
  BY TelegramConstants
  DEF VerifyToken, TelegramOK, TelegramTypes, Secrets, TelegramConstants
<1>2. dialog[d] \in Dialog /\ dialog[d] # NULL
  BY DEF VerifyToken, On, TelegramOK, TelegramTypes
<1>3. /\ dialog' \in [Dialogs -> Dialog \cup {NULL}]
      /\ dialog'[d].step = "hook" /\ dialog'[d].secret = secrets + 1
      /\ dialog'[d].key = dialog[d].key
      /\ \A e \in Dialogs \ {d} : dialog'[e] = dialog[e]
  BY <1>1, <1>2 DEF VerifyToken, FreshSecret, TelegramOK, TelegramTypes, Dialog
<1>4. UNCHANGED <<integ, hook, update, adrift>>
  BY DEF VerifyToken
<1>5. TelegramOK'
  BY <1>1, <1>3, <1>4 DEF TelegramOK, TelegramTypes, DialogInv
<1>6. \A k \in Keys, s \in Secrets :
         Knows(k, s)' => Knows(k, s) \/ (k = dialog[d].key /\ s = secrets + 1)
  BY <1>3, <1>4 DEF Knows
<1>7. \A k \in Keys : ~Knows(k, secrets + 1)
  BY <1>1 DEF SecretInv
<1>8. \A s \in Secrets : s \in Nat
  BY DEF Secrets
<1>. QED  BY <1>1, <1>5, <1>6, <1>7, <1>8 DEF SecretInv

LEMMA SetWebhookOK ==
  ASSUME TelegramOK, SecretInv, NEW d \in Dialogs, NEW heard \in BOOLEAN, SetWebhook(d, heard)
  PROVE  TelegramOK' /\ SecretInv'
<1>1. /\ dialog[d] \in Dialog /\ dialog[d] # NULL /\ dialog[d].step = "hook"
      /\ dialog[d].secret \in Secrets /\ dialog[d].key \in Keys /\ dialog[d].bot \in Ids
  BY DEF SetWebhook, On, TelegramOK, TelegramTypes, DialogInv, Dialog
<1>2. PICK D \in SUBSET {e \in Dialogs : dialog[e] # NULL} :
         /\ d \notin D
         /\ dialog' = [Disturbed(D) EXCEPT ![d] =
                          IF heard THEN [@ EXCEPT !.step = "save"] ELSE NULL]
  BY <1>1 DEF SetWebhook
<1>3. Disturbed(D)[d] = dialog[d]
  BY <1>2 DEF Disturbed
<1>4. /\ dialog' \in [Dialogs -> Dialog \cup {NULL}]
      /\ dialog'[d] # NULL => /\ dialog'[d].key = dialog[d].key
                              /\ dialog'[d].secret = dialog[d].secret
      /\ \A e \in Dialogs \ {d} :
            dialog'[e] # NULL => /\ dialog[e] # NULL /\ dialog'[e].step = dialog[e].step
                                 /\ dialog'[e].key = dialog[e].key
                                 /\ dialog'[e].secret = dialog[e].secret
  <2>1. /\ [dialog[d] EXCEPT !.step = "save"] \in Dialog
        /\ [dialog[d] EXCEPT !.step = "save"].key = dialog[d].key
        /\ [dialog[d] EXCEPT !.step = "save"].secret = dialog[d].secret
    BY <1>1 DEF Dialog
  <2>2. dialog' = [Disturbed(D) EXCEPT ![d] =
                      IF heard THEN [dialog[d] EXCEPT !.step = "save"] ELSE NULL]
    BY <1>2, <1>3, DisturbedOK
  <2>. QED  BY <2>1, <2>2, DisturbedOK
<1>5. /\ hook' = [hook EXCEPT ![dialog[d].key] = [bot |-> dialog[d].bot, secret |-> dialog[d].secret]]
      /\ adrift' \subseteq Ids
      /\ UNCHANGED <<integ, secrets, update>>
  BY <1>1 DEF SetWebhook, TelegramOK, TelegramTypes
<1>6. hook' \in [Keys -> Hook \cup {NULL}]
  BY <1>1, <1>5 DEF TelegramOK, TelegramTypes, Hook
<1>7. TelegramOK'
  BY <1>1, <1>4, <1>5, <1>6 DEF TelegramOK, TelegramTypes, DialogInv
<1>8. \A k \in Keys, s \in Secrets : Knows(k, s)' => Knows(k, s)
  BY <1>1, <1>4, <1>5 DEF Knows, TelegramOK, TelegramTypes
<1>. QED  BY <1>5, <1>7, <1>8, NoNewSecret

LEMMA SaveIntegrationOK ==
  ASSUME TelegramOK, SecretInv, NEW d \in Dialogs, SaveIntegration(d) \/ ConnectFails(d)
  PROVE  TelegramOK' /\ SecretInv'
<1>1. dialog' \in [Dialogs -> Dialog \cup {NULL}] /\ \A e \in Dialogs : dialog'[e] \in {dialog[e], NULL}
  BY DEF SaveIntegration, ConnectFails, Close, TelegramOK, TelegramTypes
<1>2. UNCHANGED <<hook, secrets, update>> /\ adrift' \subseteq Ids
  BY DEF SaveIntegration, ConnectFails, On, TelegramOK, TelegramTypes, Dialog
<1>3. \/ UNCHANGED integ
      \/ /\ dialog[d] # NULL /\ dialog[d].step = "save" /\ dialog[d].secret \in Secrets
         /\ dialog[d].key \in Keys /\ dialog[d].bot \in Ids
         /\ integ' = [integ EXCEPT ![dialog[d].bot] =
                         [key |-> dialog[d].key, active |-> TRUE, secret |-> dialog[d].secret]]
  BY DEF SaveIntegration, ConnectFails, Saved, On, TelegramOK, TelegramTypes, DialogInv, Dialog
<1>4. integ' \in [Ids -> Integration \cup {NULL}]
  <2>1. ASSUME dialog[d].secret \in Secrets, dialog[d].key \in Keys
        PROVE  [key |-> dialog[d].key, active |-> TRUE, secret |-> dialog[d].secret] \in Integration
    BY <2>1 DEF Integration
  <2>2. integ \in [Ids -> Integration \cup {NULL}]
    BY DEF TelegramOK, TelegramTypes
  <2>. QED  BY <1>3, <2>1, <2>2
<1>5. TelegramOK'
  BY <1>1, <1>2, <1>4 DEF TelegramOK, TelegramTypes, DialogInv
<1>6. \A b \in Ids : integ'[b] # NULL => \/ integ'[b] = integ[b]
                                         \/ /\ dialog[d] # NULL /\ dialog[d].step = "save"
                                            /\ integ'[b].key = dialog[d].key
                                            /\ integ'[b].secret = dialog[d].secret
  BY <1>3 DEF TelegramOK, TelegramTypes
<1>7. \A k \in Keys, s \in Secrets : Knows(k, s)' => Knows(k, s)
  BY <1>1, <1>2, <1>6 DEF Knows
<1>. QED  BY <1>2, <1>5, <1>7, NoNewSecret

LEMMA UpdateOK ==
  ASSUME TelegramOK, SecretInv, AcceptedUnderOwnToken, NEW u \in Updates,
         \/ \E k \in Keys, text \in BOOLEAN : Write(u, k, text)
         \/ Post(u) \/ PostLost(u) \/ Forget(u)
  PROVE  TelegramOK' /\ SecretInv' /\ AcceptedUnderOwnToken'
<1>1. UNCHANGED <<integ, hook, dialog, secrets, adrift>>
  BY DEF Write, Post, PostLost, Forget
<1>2. /\ update' \in [Updates -> Update \cup {NULL}]
      /\ \A w \in Updates \ {u} : update'[w] = update[w]
      /\ update'[u] # NULL =>
            /\ update'[u].under \in {NULL, update'[u].key}
            /\ update'[u].via # NULL => update'[u].via = hook[update'[u].key]
  <2>1. CASE \E k \in Keys, text \in BOOLEAN : Write(u, k, text)
    BY <2>1 DEF Write, TelegramOK, TelegramTypes, Update
  <2>2. CASE Post(u)
    BY <2>2 DEF Post, TelegramOK, TelegramTypes, Update, AcceptedUnderOwnToken
  <2>3. CASE PostLost(u)
    BY <2>3 DEF PostLost, TelegramOK, TelegramTypes, Update, AcceptedUnderOwnToken
  <2>4. CASE Forget(u)
    BY <2>4 DEF Forget, TelegramOK, TelegramTypes, Update
  <2>. QED  BY <2>1, <2>2, <2>3, <2>4
<1>3. TelegramOK'
  BY <1>1, <1>2 DEF TelegramOK, TelegramTypes, DialogInv
<1>4. \A k \in Keys, s \in Secrets : Knows(k, s)' => Knows(k, s)
  BY <1>1, <1>2 DEF Knows
<1>5. AcceptedUnderOwnToken'
  BY <1>2 DEF AcceptedUnderOwnToken
<1>. QED  BY <1>1, <1>3, <1>4, <1>5, NoNewSecret

\* The webhook lets an update pass only with the secret of the row it names.
LEMMA WebhookOK ==
  ASSUME TelegramOK, SecretInv, AcceptedUnderOwnToken, NEW u \in Updates, Webhook(u)
  PROVE  TelegramOK' /\ SecretInv' /\ AcceptedUnderOwnToken'
<1>. DEFINE via  == update[u].via
            code == Status(via, update[u].text)
<1>1. update[u] \in Update /\ update[u] # NULL /\ via \in Hook /\ via # NULL
  BY DEF Webhook, TelegramOK, TelegramTypes, Update
<1>2. via.bot \in Ids /\ via.secret \in Secrets /\ update[u].key \in Keys
  BY <1>1 DEF Hook, Update
<1>3. /\ code \in {200, 403, 404, 500}
      /\ code \in {200, 500} => integ[via.bot] # NULL /\ Authentic(via)
  BY DEF Status
<1>. HIDE DEF code
<1>4. code \in {200, 500} => integ[via.bot].key = update[u].key
  <2>. SUFFICES ASSUME code \in {200, 500} PROVE integ[via.bot].key = update[u].key
    OBVIOUS
  <2>1. integ[via.bot] # NULL /\ integ[via.bot] \in Integration /\ integ[via.bot].secret = via.secret
    BY <1>2, <1>3 DEF Authentic, TelegramOK, TelegramTypes
  <2>2. integ[via.bot].key \in Keys
    BY <2>1 DEF Integration
  <2>3. Knows(integ[via.bot].key, via.secret) /\ Knows(update[u].key, via.secret)
    BY <1>1, <1>2, <2>1 DEF Knows
  <2>. QED  BY <1>2, <2>2, <2>3 DEF SecretInv
<1>5. update' = [update EXCEPT ![u].via = NULL, ![u].code = code,
                               ![u].under = IF code \in {200, 500} THEN integ[via.bot].key ELSE NULL]
  BY DEF Webhook, code
<1>6. /\ update' \in [Updates -> Update \cup {NULL}]
      /\ \A w \in Updates \ {u} : update'[w] = update[w]
      /\ update'[u].via = NULL /\ update'[u].key = update[u].key
      /\ update'[u].under \in {NULL, update[u].key}
  <2>. DEFINE under == IF code \in {200, 500} THEN integ[via.bot].key ELSE NULL
              new   == [update[u] EXCEPT !.via = NULL, !.code = code, !.under = under]
  <2>1. under \in {NULL, update[u].key}
    BY <1>4
  <2>. HIDE DEF under
  <2>2. new \in Update /\ new.via = NULL /\ new.key = update[u].key /\ new.under = under
    <3>1. code \in {200, 403, 404, 500, NULL} /\ under \in Keys \cup {NULL}
      BY <1>2, <1>3, <2>1
    <3>. DEFINE Codes == {200, 403, 404, 500, NULL}
    <3>2. code \in Codes /\ update[u] \in [key: Keys, text: BOOLEAN, via: Hook \cup {NULL},
                                          code: Codes, under: Keys \cup {NULL}]
      BY <1>1, <3>1 DEF Update
    <3>. HIDE DEF Codes
    <3>3. new \in [key: Keys, text: BOOLEAN, via: Hook \cup {NULL}, code: Codes,
                   under: Keys \cup {NULL}]
      BY <3>1, <3>2
    <3>4. new.via = NULL /\ new.key = update[u].key /\ new.under = under
      BY <3>2
    <3>. QED  BY <3>3, <3>4 DEF Update, Codes
  <2>3. update' = [update EXCEPT ![u] = new]
    BY <1>5 DEF under, TelegramOK, TelegramTypes
  <2>. HIDE DEF new
  <2>. QED  BY <2>1, <2>2, <2>3 DEF TelegramOK, TelegramTypes
<1>7. UNCHANGED <<integ, hook, dialog, secrets, adrift>>
  BY DEF Webhook
<1>8. TelegramOK'
  BY <1>6, <1>7 DEF TelegramOK, TelegramTypes, DialogInv
<1>9. \A k \in Keys, s \in Secrets : Knows(k, s)' => Knows(k, s)
  BY <1>6, <1>7 DEF Knows
<1>10. AcceptedUnderOwnToken'
  BY <1>6 DEF AcceptedUnderOwnToken
<1>. QED  BY <1>7, <1>8, <1>9, <1>10, NoNewSecret

LEMMA TelegramStepOK ==
  ASSUME TelegramOK, SecretInv, AcceptedUnderOwnToken, TelegramStarts \/ TelegramRuns
  PROVE  TelegramOK' /\ SecretInv' /\ AcceptedUnderOwnToken'
<1>1. ASSUME NEW b \in Ids, SwitchIntegration(b)
      PROVE  TelegramOK' /\ SecretInv' /\ AcceptedUnderOwnToken'
  <2>1. integ[b] \in Integration
    BY <1>1 DEF SwitchIntegration, TelegramOK, TelegramTypes
  <2>2. /\ integ' \in [Ids -> Integration \cup {NULL}]
        /\ integ'[b].key = integ[b].key /\ integ'[b].secret = integ[b].secret
        /\ \A c \in Ids \ {b} : integ'[c] = integ[c]
    BY <1>1, <2>1 DEF SwitchIntegration, TelegramOK, TelegramTypes, Integration
  <2>3. UNCHANGED <<hook, dialog, secrets, update, adrift>> /\ integ[b] # NULL
    BY <1>1 DEF SwitchIntegration
  <2>4. TelegramOK' /\ AcceptedUnderOwnToken'
    BY <2>2, <2>3 DEF TelegramOK, TelegramTypes, DialogInv, AcceptedUnderOwnToken
  <2>5. \A k \in Keys, s \in Secrets : Knows(k, s)' => Knows(k, s)
    BY <2>2, <2>3 DEF Knows
  <2>. QED  BY <2>3, <2>4, <2>5, NoNewSecret
<1>2. ASSUME NEW d \in Dialogs,
             \/ \E b \in Ids, k \in Keys : Connect(d, b, k)
             \/ VerifyToken(d) \/ SaveIntegration(d) \/ ConnectFails(d)
             \/ \E heard \in BOOLEAN : SetWebhook(d, heard)
      PROVE  TelegramOK' /\ SecretInv' /\ AcceptedUnderOwnToken'
  <2>1. UNCHANGED update
    BY <1>2 DEF Connect, VerifyToken, SaveIntegration, ConnectFails, SetWebhook
  <2>2. AcceptedUnderOwnToken'
    BY <2>1 DEF AcceptedUnderOwnToken
  <2>. QED  BY <1>2, <2>2, ConnectOK, VerifyOK, SaveIntegrationOK, SetWebhookOK
<1>. QED  BY <1>1, <1>2, UpdateOK, WebhookOK DEF TelegramStarts, TelegramRuns

-----------------------------------------------------------------------------
(* The composition. *)

\* The inductive invariant.
IInv ==
    /\ LifecycleOK /\ EditInv /\ ReleasedInv
    /\ WidgetOK /\ FrozenPartIsPublished
    /\ TelegramOK /\ SecretInv /\ AcceptedUnderOwnToken
    /\ left \in [edits: Nat, visits: Nat, telegram: Nat]

LEMMA InitIInv == Init => IInv
<1>. SUFFICES ASSUME Init PROVE IInv
  OBVIOUS
<1>1. LifecycleOK
  BY LifecycleInitOK DEF Init
<1>2. \A t \in Tabs : tab[t] = NULL
  BY DEF Init, LifecycleInit
<1>3. EditInv
  BY <1>2 DEF Init, LifecycleInit, EditInv, Holds
<1>4. ReleasedInv
  <2>1. Frozen(NewBot).config # NULL /\ Frozen(NewBot).config \in Snapshot
    BY NewBotType, FrozenType, SnapshotAssumption
  <2>2. \A b \in Ids : bots[b] # NULL => bots[b] = Frozen(NewBot) /\ bots[b].config \in released[b]
    BY DEF Init, LifecycleInit
  <2>. QED  BY <1>2, <2>1, <2>2 DEF ReleasedInv, ConfigOK, Holds
<1>5. WidgetOK /\ FrozenPartIsPublished
  <2>1. page \in [Pages -> Shell \cup {NULL}] /\ cached \in [Pages -> Served \cup {NULL}]
        /\ call \in [Slots -> Call \cup {NULL}]
    BY DEF Init, WidgetInit
  <2>2. /\ store \in Session \cup {NULL}
        /\ expired \subseteq Tokens /\ spoke \subseteq Tokens /\ split \in BOOLEAN
    BY DEF Init, WidgetInit
  <2>4. issued \in 0 .. MaxTokens
    BY WidgetConstants DEF Init, WidgetInit, WidgetConstants
  <2>3. CallInv /\ FrozenPartIsPublished
    <3>1. /\ \A p \in Pages : page[p] = NULL /\ cached[p] = NULL
          /\ \A i \in Slots : call[i] = NULL
      BY DEF Init, WidgetInit
    <3>. QED  BY <3>1 DEF CallInv, FrozenPartIsPublished
  <2>. QED  BY <2>1, <2>2, <2>3, <2>4 DEF WidgetOK, WidgetTypes
<1>6. TelegramOK /\ SecretInv /\ AcceptedUnderOwnToken
  BY TelegramConstants
  DEF Init, TelegramInit, TelegramOK, TelegramTypes, DialogInv, SecretInv, Knows,
      AcceptedUnderOwnToken, TelegramConstants
<1>. QED  BY <1>1, <1>3, <1>4, <1>5, <1>6, BudgetsAssumption DEF Init, IInv, BudgetsAssumption

\* Steps that leave a component's variables alone keep its invariants.
LEMMA WidgetStutters ==
  ASSUME WidgetOK, FrozenPartIsPublished, UNCHANGED widgetVars,
         \A b \in Ids : released[b] \subseteq released'[b]
  PROVE  WidgetOK' /\ FrozenPartIsPublished'
<1>1. UNCHANGED <<page, cached, store, call, issued, expired, spoke, split>>
  BY DEF widgetVars
<1>2. released[Embedded] \subseteq released'[Embedded]
  BY WidgetConstants DEF WidgetConstants
<1>3. WidgetOK'
  BY <1>1 DEF WidgetOK, WidgetTypes, CallInv
<1>. QED  BY <1>1, <1>2, <1>3 DEF FrozenPartIsPublished

LEMMA LifecycleStutters ==
  ASSUME LifecycleOK, EditInv, ReleasedInv, UNCHANGED lifecycleVars
  PROVE  LifecycleOK' /\ EditInv' /\ ReleasedInv'
  BY DEF LifecycleOK, LifecycleTypes, JobInv, IdsInv, EditInv, ReleasedInv, ConfigOK, Holds,
         lifecycleVars

LEMMA TelegramStutters ==
  ASSUME TelegramOK, SecretInv, AcceptedUnderOwnToken, UNCHANGED telegramVars
  PROVE  TelegramOK' /\ SecretInv' /\ AcceptedUnderOwnToken'
  BY DEF TelegramOK, TelegramTypes, DialogInv, SecretInv, Knows, AcceptedUnderOwnToken, telegramVars

LEMMA StepIInv == IInv /\ [Next]_vars => IInv'
<1>. SUFFICES ASSUME IInv, [Next]_vars PROVE IInv'
  OBVIOUS
<1>. USE DEF IInv
<1>0. left' \in [edits: Nat, visits: Nat, telegram: Nat]
  <2>1. CASE UNCHANGED left
    BY <2>1
  <2>2. CASE \/ left.edits > 0 /\ left' = [left EXCEPT !.edits = @ - 1]
             \/ left.visits > 0 /\ left' = [left EXCEPT !.visits = @ - 1]
             \/ left.telegram > 0 /\ left' = [left EXCEPT !.telegram = @ - 1]
    BY <2>2
  <2>3. CASE UNCHANGED vars
    BY <2>1, <2>3 DEF vars
  <2>. QED  BY <2>1, <2>2, <2>3 DEF Next, OwnerStep, DeleteBot, WidgetStep, TelegramStep
<1>1. CASE OwnerStep
  <2>1. (OwnerStarts \/ OwnerEdits) /\ UNCHANGED <<widgetVars, telegramVars>>
    BY <1>1 DEF OwnerStep
  <2>. QED  BY <1>0, <2>1, LifecycleStep, EditStep, WidgetStutters, TelegramStutters
<1>2. ASSUME NEW t \in Tabs, DeleteBot(t) PROVE IInv'
  <2>1. Destroy(t) /\ UNCHANGED widgetVars /\ UNCHANGED <<hook, dialog, secrets, update, adrift>>
    BY <1>2 DEF DeleteBot
  <2>2. \A b \in Ids : integ'[b] \in {integ[b], NULL}
    BY <1>2 DEF DeleteBot, Cascade, TelegramOK, TelegramTypes
  <2>3. TelegramOK' /\ AcceptedUnderOwnToken'
    BY <1>2, <2>1 DEF DeleteBot, Cascade, TelegramOK, TelegramTypes, DialogInv, AcceptedUnderOwnToken
  <2>4. \A k \in Keys, s \in Secrets : Knows(k, s)' => Knows(k, s)
    BY <2>1, <2>2 DEF Knows
  <2>. QED  BY <1>0, <2>1, <2>3, <2>4, NoNewSecret, LifecycleStep, EditStep, WidgetStutters
<1>3. CASE WidgetStep
  <2>1. (VisitorActs \/ WidgetRuns) /\ UNCHANGED lifecycleVars /\ UNCHANGED telegramVars
    BY <1>3 DEF WidgetStep
  <2>. QED  BY <1>0, <2>1, WidgetStepOK, LifecycleStutters, TelegramStutters
<1>4. CASE TelegramStep
  <2>1. /\ TelegramStarts \/ TelegramRuns
        /\ UNCHANGED lifecycleVars /\ UNCHANGED widgetVars /\ UNCHANGED released
    BY <1>4 DEF TelegramStep, lifecycleVars
  <2>. QED  BY <1>0, <2>1, TelegramStepOK, LifecycleStutters, WidgetStutters
<1>5. CASE UNCHANGED vars
  <2>1. UNCHANGED lifecycleVars /\ UNCHANGED widgetVars /\ UNCHANGED telegramVars /\ UNCHANGED released
    BY <1>5 DEF vars, lifecycleVars
  <2>. QED  BY <1>0, <2>1, TelegramStutters, LifecycleStutters, WidgetStutters
<1>. QED  BY <1>1, <1>2, <1>3, <1>4, <1>5 DEF Next

LEMMA AlwaysIInv == Spec => []IInv
  BY InitIInv, StepIInv, PTL DEF Spec

(***************************************************************************)
(* Chatbot rows, requests, pages, calls, integrations and updates keep     *)
(* their shape through every overlap of the owner's tabs, the browser and  *)
(* Telegram.                                                               *)
(***************************************************************************)
THEOREM ChannelsTypes == Spec => []TypeOK
<1>1. IInv => TypeOK
  BY DEF IInv, TypeOK, LifecycleOK, WidgetOK, TelegramOK
<1>. QED  BY <1>1, AlwaysIInv, PTL

(***************************************************************************)
(* EditsAreKept for any number of tabs and chatbots: where the requests of *)
(* the chatbot views do not overlap, save() of the whole object loses no   *)
(* acknowledged edit, whatever happens to other chatbots.                  *)
(***************************************************************************)
THEOREM ChannelsEdits == Spec => []EditsAreKept
<1>1. IInv => EditsAreKept
  BY DEF IInv, EditInv, EditsAreKept
<1>. QED  BY <1>1, AlwaysIInv, PTL

(***************************************************************************)
(* FrozenPartIsPublished: publish() is the only source of the frozen part  *)
(* of what the widget endpoints hand out and the browser keeps.  About the *)
(* live columns that an answer is made from as well it says nothing.       *)
(***************************************************************************)
THEOREM ChannelsServe == Spec => []FrozenPartIsPublished
<1>1. IInv => FrozenPartIsPublished
  BY DEF IInv
<1>. QED  BY <1>1, AlwaysIInv, PTL

(***************************************************************************)
(* AcceptedUnderOwnToken: comparing the webhook secret is enough to keep   *)
(* the updates of different Telegram bots apart.                           *)
(***************************************************************************)
THEOREM ChannelsAccept == Spec => []AcceptedUnderOwnToken
<1>1. IInv => AcceptedUnderOwnToken
  BY DEF IInv
<1>. QED  BY <1>1, AlwaysIInv, PTL
=============================================================================
