----------------------------- MODULE Analytics -----------------------------
(***************************************************************************)
(* The daily statistics: aggregate_daily_analytics (analytics/tasks.py),   *)
(* which Celery runs at 00:05 for yesterday and anybody can run for a      *)
(* date, and the overview and the graph that add today's messages to the   *)
(* stored days (analytics/views.py).  Messages are stored, conversations   *)
(* change between preview and live, and chatbots are deleted meanwhile.    *)
(* Latency, tokens and sessions are summed the way messages are and left   *)
(* out.                                                                    *)
(***************************************************************************)
EXTENDS Naturals, FiniteSets, FiniteSetsExt

CONSTANTS
    LastBot,        \* the chatbots are 1 .. LastBot, in the order of their creation
    Convs,          \* conversations
    BotOf,          \* BotOf[c]: the chatbot of conversation c
    Messages,       \* ids of the messages there may be
    Runs,           \* runs of the task that can be under way at once
    Window,         \* days an overview covers (30)
    MaxDays,        \* bound: days
    Budgets,        \* bounds: the messages, runs of the task, changes of is_preview
                    \* and overviews of a behaviour
    NULL

Bots == 1 .. LastBot

ASSUME AnalyticsConstants ==
    /\ LastBot \in Nat
    /\ BotOf \in [Convs -> Bots]
    /\ IsFiniteSet(Messages)
    /\ {Window, MaxDays} \subseteq Nat \ {0}
    /\ Budgets \subseteq [messages: Nat, runs: Nat, flips: Nat, views: Nat]

VARIABLES
    day,        \* the date
    alive,      \* the chatbots that exist
    preview,    \* preview[c]: is_preview of conversation c
    msgs,       \* msgs[m]: the message m, stored or only stamped, or NULL
    daily,      \* daily[b][d]: the BotAnalyticsDaily row, or NULL
    run,        \* run[r]: a run of the task, or NULL
    view,       \* an overview being computed, or NULL
    cache,      \* cache[b][i]: the cached overview, i for include_preview
    covered,    \* history: <<b, d>> for which a run over b and d ended normally
    touched,    \* history: <<b, d>> whose messages changed after day d was over
    left        \* what may still happen

vars == <<day, alive, preview, msgs, daily, run, view, cache, covered, touched, left>>

Days == 1 .. MaxDays

\* Questions, and answers by their source.
Kinds == {"user", "ai_api", "knowledge"}

Message == [conv: Convs, date: Days, kind: Kinds, stored: BOOLEAN]

Counts == 0 .. Cardinality(Messages)

\* knowledge_hit_rate is know / replies, or 0.  final and steady are histories:
\* the run began after the day, and no conversation changed while it counted.
Row == [total: Counts, know: Counts, replies: Counts, final: BOOLEAN, steady: BOOLEAN]

\* todo are the chatbots still to do, bots those there were, row what was counted.
Run == [date: Days, bots: SUBSET Bots, todo: SUBSET Bots, row: Row,
        step: {"total", "first", "second", "store"}]

\* least is a history: the messages the overview must at least have counted.
View == [bot: Bots, preview: BOOLEAN, today: Days, total: Nat, least: Nat]

Cached == [today: Days, total: Nat, least: Nat]

ASSUME AnalyticsNull == NULL \notin Message \cup Row \cup Run \cup View \cup Cached

Init ==
    /\ day = 1
    /\ alive = Bots
    /\ preview = [c \in Convs |-> FALSE]
    /\ msgs = [m \in Messages |-> NULL]
    /\ daily = [b \in Bots |-> [d \in Days |-> NULL]]
    /\ run = [r \in Runs |-> NULL]
    /\ view = NULL
    /\ cache = [b \in Bots |-> [i \in BOOLEAN |-> NULL]]
    /\ covered = {}
    /\ touched = {}
    /\ left \in Budgets

Spend(what) == left[what] > 0 /\ left' = [left EXCEPT ![what] = @ - 1]

-----------------------------------------------------------------------------
\* The stored messages of some conversations, dates and kinds, and their number.
Found(cs, ds, ks) ==
    {m \in Messages : /\ msgs[m] # NULL /\ msgs[m].stored /\ msgs[m].conv \in cs
                      /\ msgs[m].date \in ds /\ msgs[m].kind \in ks}

Stored(cs, ds, ks) == Cardinality(Found(cs, ds, ks))

\* The chatbot run r is at: they come newest first.
Current(r) == Max(run[r].todo)

ConvsOf(b) == {c \in Convs : BotOf[c] = b}

\* The messages of a chatbot on some days, in live conversations or in all.
Live(b) == {c \in ConvsOf(b) : ~preview[c]}

\* Mutant: a join counts every message twice.
CountJoined(b, d, ks) == 2 * Stored(Live(b), {d}, ks)

Count(b, d, ks) == Stored(Live(b), {d}, ks)

Midnight ==
    /\ day < MaxDays
    /\ day' = day + 1
    /\ UNCHANGED <<alive, preview, msgs, daily, run, view, cache, covered, touched, left>>

\* created_at is set by the server before the INSERT ...
StampMessage(m, c, k) ==
    /\ msgs[m] = NULL
    /\ BotOf[c] \in alive
    /\ Spend("messages")
    /\ msgs' = [msgs EXCEPT ![m] = [conv |-> c, date |-> day, kind |-> k, stored |-> FALSE]]
    /\ UNCHANGED <<day, alive, preview, daily, run, view, cache, covered, touched>>

\* ... which may be a moment, or a midnight, later.
InsertMessage(m) ==
    LET b == BotOf[msgs[m].conv] IN
    /\ msgs[m] # NULL /\ ~msgs[m].stored
    /\ \/ /\ b \in alive
          /\ msgs' = [msgs EXCEPT ![m].stored = TRUE]
          /\ touched' = IF msgs[m].date < day THEN touched \cup {<<b, msgs[m].date>>} ELSE touched
       \/ /\ b \notin alive
          /\ msgs' = [msgs EXCEPT ![m] = NULL]
          /\ UNCHANGED touched
    /\ UNCHANGED <<day, alive, preview, daily, run, view, cache, covered, left>>

\* process_chat_message in the other mode: the conversation changes sides with
\* all its messages.
FlipPreview(c) ==
    LET b == BotOf[c] IN
    /\ b \in alive
    /\ Spend("flips")
    /\ preview' = [preview EXCEPT ![c] = ~@]
    /\ touched' = touched \cup {<<b, d>> : d \in 1 .. day - 1}
    /\ run' = [r \in Runs |-> IF run[r] # NULL /\ Current(r) = b
                              THEN [run[r] EXCEPT !.row.steady = FALSE] ELSE run[r]]
    /\ UNCHANGED <<day, alive, msgs, daily, view, cache, covered>>

\* The deletion of a chatbot takes conversations, messages and rows along; the
\* cache keeps what it has.  That a stale save may bring the chatbot back, empty,
\* is in ChatbotLifecycle and not here.
DeleteBot(b) ==
    /\ b \in alive
    /\ alive' = alive \ {b}
    /\ msgs' = [m \in Messages |-> IF msgs[m] # NULL /\ msgs[m].stored /\ BotOf[msgs[m].conv] = b
                                   THEN NULL ELSE msgs[m]]
    /\ daily' = [daily EXCEPT ![b] = [d \in Days |-> NULL]]
    /\ UNCHANGED <<day, preview, run, view, cache, covered, touched, left>>

-----------------------------------------------------------------------------
(* aggregate_daily_analytics *)

On(r, step) == run[r] # NULL /\ run[r].step = step

\* For yesterday, or for the date that was given.
StartRun(r, date) ==
    /\ run[r] = NULL
    /\ alive # {}
    /\ date <= day
    /\ Spend("runs")
    /\ run' = [run EXCEPT ![r] =
                  [date |-> date, bots |-> alive, todo |-> alive, step |-> "total",
                   row |-> [total |-> 0, know |-> 0, replies |-> 0, final |-> date < day,
                            steady |-> TRUE]]]
    /\ UNCHANGED <<day, alive, preview, msgs, daily, view, cache, covered, touched>>

\* Mutant: previews are counted as well.
CountTotalWithPreview(r) ==
    LET total == Stored(ConvsOf(Current(r)), {run[r].date}, Kinds) IN
    /\ On(r, "total")
    /\ run' = [run EXCEPT ![r].row = [@ EXCEPT !.total = total, !.know = 0, !.replies = 0,
                                               !.steady = TRUE],
                          ![r].step = IF total = 0 THEN "store" ELSE "first"]
    /\ UNCHANGED <<day, alive, preview, msgs, daily, view, cache, covered, touched, left>>

\* total_messages; a chatbot without messages is stored at once.
CountTotal(r) ==
    LET total == Count(Current(r), run[r].date, Kinds) IN
    /\ On(r, "total")
    /\ run' = [run EXCEPT ![r].row = [@ EXCEPT !.total = total, !.know = 0, !.replies = 0,
                                               !.steady = TRUE],
                          ![r].step = IF total = 0 THEN "store" ELSE "first"]
    /\ UNCHANGED <<day, alive, preview, msgs, daily, view, cache, covered, touched, left>>

\* Mutant: total_bot_messages is counted first.
CountOrderSwapped == <<"replies", "know">>

\* knowledge_messages is counted first, then total_bot_messages.
CountOrder == <<"know", "replies">>

CountAnswers(r, n) ==
    LET field == CountOrder[n]
        kinds == IF field = "know" THEN {"knowledge"} ELSE Kinds \ {"user"} IN
    /\ On(r, <<"first", "second">>[n])
    /\ run' = [run EXCEPT ![r].row[field] = Count(Current(r), run[r].date, kinds),
                          ![r].step = <<"second", "store">>[n]]
    /\ UNCHANGED <<day, alive, preview, msgs, daily, view, cache, covered, touched, left>>

\* Mutant: a chatbot without messages ends the run.
RemainingUnlessIdle(r) == IF run[r].row.total = 0 THEN {} ELSE run[r].todo \ {Current(r)}

Remaining(r) == run[r].todo \ {Current(r)}

\* update_or_create, and on to the next chatbot; the foreign key of a chatbot
\* that is gone makes the whole run fail.
StoreRow(r) ==
    LET b == Current(r) IN
    /\ On(r, "store")
    /\ \/ /\ b \in alive
          /\ daily' = [daily EXCEPT ![b][run[r].date] = run[r].row]
          /\ run' = [run EXCEPT ![r] = IF Remaining(r) = {} THEN NULL
                                       ELSE [@ EXCEPT !.todo = Remaining(r), !.step = "total"]]
          /\ covered' = IF Remaining(r) = {} THEN covered \cup (run[r].bots \X {run[r].date})
                        ELSE covered
       \/ /\ b \notin alive
          /\ run' = [run EXCEPT ![r] = NULL]
          /\ UNCHANGED <<daily, covered>>
    /\ UNCHANGED <<day, alive, preview, msgs, view, cache, touched, left>>

\* A statement raises or the worker is lost; nothing runs the task again.
RunFails(r) ==
    /\ run[r] # NULL
    /\ run' = [run EXCEPT ![r] = NULL]
    /\ UNCHANGED <<day, alive, preview, msgs, daily, view, cache, covered, touched, left>>

-----------------------------------------------------------------------------
(* AnalyticsOverviewView and AnalyticsGraphView *)

\* Mutant: the stored days run through today.
HistoryThroughToday(today) == {d \in Days : today < d + Window /\ d <= today}

\* date__range=[start_date, today - 1]
History(today) == {d \in Days : today < d + Window /\ d < today}

\* Sum('total_messages') over the rows of some days: the number of pairs of a row
\* and a number up to its total.
SumOfTotals(b, ds) ==
    Cardinality({x \in ds \X (1 .. Cardinality(Messages)) : x[2] <= daily[b][x[1]].total})

\* A stored day that nothing happened to since it was over.
Settled(b, d) == daily[b][d] # NULL /\ daily[b][d].final /\ <<b, d>> \notin touched

\* Nothing cached: the stored days first ...
ReadHistory(b, i) ==
    LET kept == {d \in History(day) : daily[b][d] # NULL} IN
    /\ view = NULL
    /\ b \in alive
    /\ cache[b][i] = NULL
    /\ Spend("views")
    /\ view' = [bot |-> b, preview |-> i, today |-> day,
                total |-> SumOfTotals(b, kept),
                least |-> Stored(Live(b), {d \in 1 .. day - 1 : day < d + Window /\ Settled(b, d)},
                                 Kinds)]
    /\ UNCHANGED <<day, alive, preview, msgs, daily, run, cache, covered, touched>>

\* ... then the messages of the date it was when the request began.
ReadToday ==
    LET cs  == IF view.preview THEN ConvsOf(view.bot) ELSE Live(view.bot)
        now == Stored(cs, {view.today}, Kinds) IN
    /\ view # NULL
    /\ cache' = [cache EXCEPT ![view.bot][view.preview] =
                    [today |-> view.today, total |-> view.total + now,
                     least |-> IF view.bot \in alive THEN view.least + now ELSE 0]]
    /\ view' = NULL
    /\ UNCHANGED <<day, alive, preview, msgs, daily, run, covered, touched, left>>

\* Five minutes later.
ExpireOverview(b, i) ==
    /\ cache[b][i] # NULL
    /\ cache' = [cache EXCEPT ![b][i] = NULL]
    /\ UNCHANGED <<day, alive, preview, msgs, daily, run, view, covered, touched, left>>

\* knowledge_hits of a stored day: int() of a product of floats, which falls
\* short of a whole number now and then.
KnowledgeHits(row) ==
    IF row.replies = 0 THEN {0}
    ELSE LET exact == (row.total * row.know) \div row.replies IN
         {exact} \cup (IF exact > 0 /\ (row.total * row.know) % row.replies = 0
                       THEN {exact - 1} ELSE {})

Next ==
    \/ Midnight
    \/ \E m \in Messages, c \in Convs, k \in Kinds : StampMessage(m, c, k)
    \/ \E m \in Messages : InsertMessage(m)
    \/ \E c \in Convs : FlipPreview(c)
    \/ \E b \in Bots : DeleteBot(b)
    \/ \E r \in Runs :
        \/ \E date \in Days : StartRun(r, date)
        \/ CountTotal(r) \/ CountAnswers(r, 1) \/ CountAnswers(r, 2) \/ StoreRow(r) \/ RunFails(r)
    \/ \E b \in Bots, i \in BOOLEAN : ReadHistory(b, i) \/ ExpireOverview(b, i)
    \/ ReadToday

Spec == Init /\ [][Next]_vars

-----------------------------------------------------------------------------
(* Properties. *)

TypeOK ==
    /\ day \in Days
    /\ alive \subseteq Bots
    /\ preview \in [Convs -> BOOLEAN]
    /\ msgs \in [Messages -> Message \cup {NULL}]
    /\ daily \in [Bots -> [Days -> Row \cup {NULL}]]
    /\ run \in [Runs -> Run \cup {NULL}]
    /\ view \in View \cup {NULL}
    /\ cache \in [Bots -> [BOOLEAN -> Cached \cup {NULL}]]
    /\ covered \subseteq Bots \X Days
    /\ touched \subseteq Bots \X Days
    /\ left \in [messages: Nat, runs: Nat, flips: Nat, views: Nat]

(***************************************************************************)
(* A row written by a run that began after its day counts exactly the live *)
(* messages of that day, whatever other runs, earlier or later, of the     *)
(* same day overlap it, unless a message of the day was stored, or a       *)
(* conversation changed sides, after the day was over.                     *)
(***************************************************************************)
SettledDayIsCounted ==
    \A b \in Bots, d \in Days : Settled(b, d) => daily[b][d].total = Count(b, d, Kinds)

(***************************************************************************)
(* A run that ends normally leaves a row for every chatbot it began with   *)
(* and that still exists, idle ones included.                              *)
(***************************************************************************)
RunCoversEveryBot == \A x \in covered : x[1] \in alive => daily[x[1]][x[2]] # NULL

(***************************************************************************)
(* The graph splits the messages of a stored day into knowledge_hits and   *)
(* api_hits: neither is negative, though messages are stored between the   *)
(* counts the row is made of, as long as no conversation changed sides     *)
(* between them.                                                           *)
(***************************************************************************)
HitsWithinMessages ==
    \A b \in Bots, d \in Days :
        daily[b][d] # NULL /\ daily[b][d].steady
            => KnowledgeHits(daily[b][d]) \subseteq 0 .. daily[b][d].total

(***************************************************************************)
(* The overview counts no message of the window twice, and every live      *)
(* message of a settled day: with midnight, early, late and missing runs   *)
(* anywhere between its two reads and for as long as it is cached.  Today  *)
(* is bounded from above only, and an overview with include_preview need   *)
(* not have the previews of past days, which no daily row counts.          *)
(***************************************************************************)
OverviewCountsOnce ==
    \A b \in alive, i \in BOOLEAN :
        LET o == cache[b][i] IN
        o # NULL => /\ o.least <= o.total
                    /\ o.total <= Stored(ConvsOf(b), {d \in 1 .. o.today : o.today < d + Window},
                                         Kinds)
=============================================================================
