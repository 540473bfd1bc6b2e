--------------------------- MODULE AnalyticsProofs ---------------------------
(***************************************************************************)
(* Proofs about Analytics, for every number of chatbots, conversations,    *)
(* messages, days and runs of the task, every window and every budget.     *)
(***************************************************************************)
EXTENDS Analytics, FiniteSetTheorems, FunctionTheorems, WellFoundedInduction, TLAPS

(***************************************************************************)
(* What is true of a run by itself: it has chatbots to do, all of them     *)
(* among those it began with, and a run is final only when its day is over.*)
(***************************************************************************)
RunOK(q) ==
    /\ q.todo # {} /\ q.todo \subseteq q.bots
    /\ q.date <= day /\ (q.row.final => q.date < day)

Types ==
    /\ TypeOK
    /\ \A r \in Runs : run[r] # NULL => RunOK(run[r])
    /\ \A b \in Bots, d \in Days :
          daily[b][d] # NULL => b \in alive /\ (daily[b][d].final => d < day)

\* What a run has done already is there.
CoverInv ==
    /\ RunCoversEveryBot
    /\ \A r \in Runs :
          run[r] # NULL =>
              \A b \in run[r].bots \ run[r].todo : b \in alive => daily[b][run[r].date] # NULL

\* The steps of a run at which the total of its chatbot is counted.
Counted == {"first", "second", "store"}

\* A count of a day that is over, and that nothing happened to since, is right.
Exact(b, d, row) == row.final /\ <<b, d>> \notin touched => row.total = Count(b, d, Kinds)

SettledInv ==
    /\ \A b \in Bots, d \in Days : daily[b][d] # NULL => Exact(b, d, daily[b][d])
    /\ \A r \in Runs :
          run[r] # NULL /\ run[r].step \in Counted /\ Current(r) \in alive =>
              Exact(Current(r), run[r].date, run[r].row)

\* The knowledge messages of a row were counted before its replies.
Replies == Kinds \ {"user"}

HitsInv ==
    /\ \A b \in Bots, d \in Days :
          daily[b][d] # NULL /\ daily[b][d].steady => daily[b][d].know <= daily[b][d].replies
    /\ \A r \in Runs :
          run[r] # NULL /\ run[r].row.steady /\ Current(r) \in alive =>
              /\ run[r].step = "second" =>
                    run[r].row.know <= Count(Current(r), run[r].date, Replies)
              /\ run[r].step = "store" => run[r].row.know <= run[r].row.replies

(***************************************************************************)
(* No count exceeds the messages there are: of a row, of a run, of an      *)
(* overview under way and of one in the cache.                             *)
(***************************************************************************)
InWindow(today) == {d \in 1 .. today : today < d + Window}

CountsInv ==
    /\ \A b \in Bots, d \in Days :
          daily[b][d] # NULL => daily[b][d].total <= Stored(ConvsOf(b), {d}, Kinds)
    /\ \A r \in Runs :
          run[r] # NULL /\ run[r].step \in Counted /\ Current(r) \in alive =>
              run[r].row.total <= Stored(ConvsOf(Current(r)), {run[r].date}, Kinds)

OverviewInv ==
    /\ view # NULL =>
          /\ view.least <= view.total
          /\ view.bot \in alive => view.total <= Stored(ConvsOf(view.bot), History(view.today), Kinds)
    /\ \A b \in alive, i \in BOOLEAN :
          cache[b][i] # NULL =>
              /\ cache[b][i].least <= cache[b][i].total
              /\ cache[b][i].total <= Stored(ConvsOf(b), InWindow(cache[b][i].today), Kinds)

-----------------------------------------------------------------------------
(* Numbers of elements, and the newest chatbot. *)

\* A set of natural numbers that is not empty has a least element.
LEMMA LeastOf ==
  ASSUME NEW T \in SUBSET Nat, T # {}
  PROVE  \E n \in T : \A m \in T : n <= m
<1> DEFINE R == OpToRel(<, Nat)
<1>1. IsWellFoundedOn(R, Nat)
  BY NatLessThanWellFounded
<1>2. R = {ss \in Nat \X Nat : ss[1] < ss[2]}
  BY DEF OpToRel
<1> HIDE DEF R
<1>3. PICK n \in T : \A m \in T : ~(<<m, n>> \in R)
  BY <1>1, WFMin
<1>4. ASSUME NEW m \in T
      PROVE  n <= m
  <2>1. ~(m < n)
    BY <1>2, <1>3
  <2> QED
    BY <2>1
<1> QED
  BY <1>4

\* There is a newest among some chatbots: the least id that none of them exceeds.
LEMMA Newest ==
  ASSUME NEW T \in SUBSET Bots, T # {}
  PROVE  Max(T) \in T
<1> DEFINE Bounds == {n \in Nat : \A x \in T : x <= n}
<1>1. LastBot \in Bounds
  BY AnalyticsConstants DEF Bots
<1>2. PICK n \in Bounds : \A m \in Bounds : n <= m
  <2>1. Bounds \in SUBSET Nat /\ Bounds # {}
    BY <1>1
  <2> QED
    BY <2>1, LeastOf
<1>3. n \in T
  <2>1. SUFFICES ASSUME n \notin T PROVE FALSE
    OBVIOUS
  <2>2. PICK x \in T : TRUE
    OBVIOUS
  <2>3. T \subseteq Nat
    BY AnalyticsConstants DEF Bots
  <2>4. \A y \in T : y <= n - 1
    BY <1>2, <2>1, <2>3
  <2>5. n - 1 \in Bounds
    BY <1>2, <2>2, <2>3, <2>4, AnalyticsConstants DEF Bots
  <2> QED
    BY <1>2, <2>5
<1>4. \A y \in T : n >= y
  BY <1>2, AnalyticsConstants DEF Bots
<1> QED
  BY <1>3, <1>4 DEF Max

\* The sizes that sets of messages have.
LEMMA Sizes ==
  ASSUME NEW A \in SUBSET Messages
  PROVE  /\ IsFiniteSet(A)
         /\ Cardinality(A) \in Counts
         /\ \A B \in SUBSET A : Cardinality(B) \in Counts /\ Cardinality(B) <= Cardinality(A)
<1>1. IsFiniteSet(Messages) /\ Cardinality(Messages) \in Nat
  BY AnalyticsConstants, FS_CardinalityType
<1>2. ASSUME NEW C \in SUBSET Messages
      PROVE  IsFiniteSet(C) /\ Cardinality(C) \in Counts
  <2>1. IsFiniteSet(C) /\ Cardinality(C) <= Cardinality(Messages)
    BY <1>1, FS_Subset
  <2>2. Cardinality(C) \in Nat
    BY <2>1, FS_CardinalityType
  <2> QED
    BY <1>1, <2>1, <2>2 DEF Counts
<1>3. ASSUME NEW B \in SUBSET A
      PROVE  Cardinality(B) \in Counts /\ Cardinality(B) <= Cardinality(A)
  BY <1>2, FS_Subset
<1> QED
  BY <1>2, <1>3

\* A count is one of the numbers there can be.
LEMMA CountType ==
  ASSUME NEW cs, NEW ds, NEW ks
  PROVE  Stored(cs, ds, ks) \in Counts
BY Sizes DEF Stored, Found

\* Counts are natural numbers, and zero is one.
LEMMA CountsNat == Counts \subseteq Nat /\ 0 \in Counts
<1>1. Cardinality(Messages) \in Nat
  BY AnalyticsConstants, FS_CardinalityType
<1> QED
  BY <1>1 DEF Counts

\* The sum of the totals of some days is a number.
LEMMA SumType ==
  ASSUME NEW b, NEW ds \in SUBSET Days
  PROVE  SumOfTotals(b, ds) \in Nat
<1>1. IsFiniteSet(Days) /\ IsFiniteSet(1 .. Cardinality(Messages))
  BY AnalyticsConstants, FS_CardinalityType, FS_Interval DEF Days
<1>2. IsFiniteSet(ds)
  BY <1>1, FS_Subset
<1> DEFINE P == ds \X (1 .. Cardinality(Messages))
           Q == {x \in P : x[2] <= daily[b][x[1]].total}
<1>3. IsFiniteSet(P)
  BY <1>1, <1>2, FS_Product
<1>4. IsFiniteSet(Q)
  BY <1>3, FS_Subset
<1> QED
  BY <1>4, FS_CardinalityType DEF SumOfTotals

-----------------------------------------------------------------------------
(* Types. *)

\* The chatbot a run is at is one of those it has to do.
LEMMA AtBot ==
  ASSUME Types, NEW r \in Runs, run[r] # NULL
  PROVE  /\ run[r] \in Run /\ RunOK(run[r])
         /\ Current(r) \in run[r].todo /\ Current(r) \in Bots
<1>1. run[r] \in Run /\ RunOK(run[r])
  BY DEF Types, TypeOK
<1>2. run[r].todo \in SUBSET Bots /\ run[r].todo # {}
  BY <1>1 DEF Run, RunOK
<1> QED
  BY <1>1, <1>2, Newest DEF Current

\* Nothing is spent below zero.
LEMMA Spent ==
  ASSUME left \in [messages: Nat, runs: Nat, flips: Nat, views: Nat],
         NEW what \in {"messages", "runs", "flips", "views"}, Spend(what)
  PROVE  left' \in [messages: Nat, runs: Nat, flips: Nat, views: Nat]
<1>1. left[what] \in Nat /\ left[what] - 1 \in Nat
  BY DEF Spend
<1> QED
  BY <1>1 DEF Spend

LEMMA TypesInit == Init => Types
<1> SUFFICES ASSUME Init PROVE Types
  OBVIOUS
<1>1. day \in Days
  BY AnalyticsConstants DEF Init, Days
<1>2. left \in [messages: Nat, runs: Nat, flips: Nat, views: Nat]
  BY AnalyticsConstants DEF Init
<1>3. TypeOK
  BY <1>1, <1>2 DEF Init, TypeOK
<1> QED
  BY <1>3 DEF Init, Types

\* A run that is counted on, and the rest of the state as it was.
LEMMA TypesRun ==
  ASSUME Types, NEW r \in Runs, NEW q \in Run \cup {NULL}, q # NULL => RunOK(q),
         run' = [run EXCEPT ![r] = q],
         UNCHANGED <<day, alive, preview, msgs, daily, view, cache, touched, left>>,
         covered' \subseteq Bots \X Days
  PROVE  Types'
<1>1. run' \in [Runs -> Run \cup {NULL}]
  BY DEF Types, TypeOK
<1>2. TypeOK'
  BY <1>1 DEF Types, TypeOK
<1>3. ASSUME NEW s \in Runs, run'[s] # NULL
      PROVE  RunOK(run[s])'
  <2>1. run'[s] = IF s = r THEN q ELSE run[s]
    BY DEF Types, TypeOK
  <2>2. RunOK(run'[s])
    BY <1>3, <2>1 DEF Types
  <2> QED
    BY <2>2 DEF RunOK
<1> QED
  BY <1>2, <1>3 DEF Types

\* What the first count does to its run, and to nothing else.
LEMMA TotalStep ==
  ASSUME Types, NEW r \in Runs, CountTotal(r)
  PROVE  \E q \in Run :
            /\ run' = [run EXCEPT ![r] = q]
            /\ q.date = run[r].date /\ q.bots = run[r].bots /\ q.todo = run[r].todo
            /\ q.row.total = Count(Current(r), run[r].date, Kinds)
            /\ q.row.final = run[r].row.final
            /\ q.step \in {"first", "store"}
            /\ q.step = "store" => q.row.know = 0 /\ q.row.replies = 0
<1>1. run[r] \in Run
  BY AtBot DEF CountTotal, On
<1> DEFINE n == Count(Current(r), run[r].date, Kinds)
           w == [run[r].row EXCEPT !.total = n, !.know = 0, !.replies = 0, !.steady = TRUE]
           t == IF n = 0 THEN "store" ELSE "first"
           q == [run[r] EXCEPT !.row = w, !.step = t]
<1>2. run' = [run EXCEPT ![r] = q]
  <2>1. run \in [Runs -> Run \cup {NULL}]
    BY DEF Types, TypeOK
  <2>2. CountTotal(r)
    OBVIOUS
  <2> QED
    BY <1>1, <2>1, <2>2 DEF CountTotal, Run, Row
<1>3. n \in Counts /\ 0 \in Counts
  BY CountType, CountsNat DEF Count
<1>4. w \in Row /\ w.total = n /\ w.know = 0 /\ w.replies = 0 /\ w.final = run[r].row.final
  <2>1. run[r].row \in Row
    BY <1>1 DEF Run
  <2> HIDE DEF n
  <2> QED
    BY <1>3, <2>1 DEF Row
<1>5. t \in {"first", "store"}
  OBVIOUS
<1> HIDE DEF n, w, t
<1>6. q \in Run /\ q.row = w /\ q.step = t /\ q.date = run[r].date /\ q.bots = run[r].bots
      /\ q.todo = run[r].todo
  BY <1>1, <1>4, <1>5 DEF Run
<1> HIDE DEF q
<1> QED
  BY <1>2, <1>4, <1>5, <1>6 DEF n

\* What the counts of the answers do.
LEMMA AnswersStep ==
  ASSUME Types, NEW r \in Runs, NEW n \in {1, 2}, CountAnswers(r, n)
  PROVE  \E q \in Run :
            /\ run' = [run EXCEPT ![r] = q]
            /\ q.date = run[r].date /\ q.bots = run[r].bots /\ q.todo = run[r].todo
            /\ run[r] # NULL /\ run[r].step = IF n = 1 THEN "first" ELSE "second"
            /\ q.step = IF n = 1 THEN "second" ELSE "store"
            /\ q.row.total = run[r].row.total /\ q.row.final = run[r].row.final
            /\ q.row.steady = run[r].row.steady
            /\ q.row.know = IF n = 1 THEN Count(Current(r), run[r].date, {"knowledge"})
                            ELSE run[r].row.know
            /\ n = 2 => q.row.replies = Count(Current(r), run[r].date, Replies)
<1>1. run[r] \in Run /\ run[r] # NULL
  BY AtBot DEF CountAnswers, On
<1>2. run \in [Runs -> Run \cup {NULL}]
  BY DEF Types, TypeOK
<1>3. CountAnswers(r, n)
  OBVIOUS
<1>4. run[r].row \in Row
  BY <1>1 DEF Run
<1>5. CASE n = 1
  <2> DEFINE k == Count(Current(r), run[r].date, {"knowledge"})
             w == [run[r].row EXCEPT !.know = k]
             q == [run[r] EXCEPT !.row = w, !.step = "second"]
  <2>1. run' = [run EXCEPT ![r] = q] /\ run[r].step = "first"
    BY <1>1, <1>2, <1>3, <1>5 DEF CountAnswers, CountOrder, On, Run, Row
  <2>2. k \in Counts
    BY CountType DEF Count
  <2>3. w \in Row /\ w.know = k /\ w.total = run[r].row.total /\ w.final = run[r].row.final
        /\ w.steady = run[r].row.steady
    <3> HIDE DEF k
    <3> QED
      BY <1>4, <2>2 DEF Row
  <2> HIDE DEF k, w
  <2>4. q \in Run /\ q.row = w /\ q.step = "second" /\ q.date = run[r].date
        /\ q.bots = run[r].bots /\ q.todo = run[r].todo
    BY <1>1, <2>3 DEF Run
  <2> HIDE DEF q
  <2>5. q \in Run
    BY <2>4
  <2> USE <2>5
  <2> WITNESS q \in Run
  <2> QED
    BY <1>1, <1>5, <2>1, <2>3, <2>4 DEF k
<1>6. CASE n = 2
  <2> DEFINE k == Count(Current(r), run[r].date, Replies)
             w == [run[r].row EXCEPT !.replies = k]
             q == [run[r] EXCEPT !.row = w, !.step = "store"]
  <2>1. run' = [run EXCEPT ![r] = q] /\ run[r].step = "second"
    BY <1>1, <1>2, <1>3, <1>6 DEF CountAnswers, CountOrder, On, Run, Row, Replies
  <2>2. k \in Counts
    BY CountType DEF Count
  <2>3. w \in Row /\ w.replies = k /\ w.know = run[r].row.know /\ w.total = run[r].row.total
        /\ w.final = run[r].row.final /\ w.steady = run[r].row.steady
    <3> HIDE DEF k
    <3> QED
      BY <1>4, <2>2 DEF Row
  <2> HIDE DEF k, w
  <2>4. q \in Run /\ q.row = w /\ q.step = "store" /\ q.date = run[r].date
        /\ q.bots = run[r].bots /\ q.todo = run[r].todo
    BY <1>1, <2>3 DEF Run
  <2> HIDE DEF q
  <2>5. q \in Run
    BY <2>4
  <2> USE <2>5
  <2> WITNESS q \in Run
  <2> QED
    BY <1>1, <1>6, <2>1, <2>3, <2>4 DEF k
<1> QED
  BY <1>5, <1>6

\* What the store does: a row and the next chatbot, or the end of the run.
LEMMA StoreStep ==
  ASSUME Types, NEW r \in Runs, StoreRow(r)
  PROVE  \E q \in Run \cup {NULL} :
            /\ run' = [run EXCEPT ![r] = q]
            /\ run[r] # NULL /\ run[r].step = "store"
            /\ q # NULL =>
                 /\ q.date = run[r].date /\ q.bots = run[r].bots /\ q.row = run[r].row
                 /\ q.todo = run[r].todo \ {Current(r)} /\ q.todo # {}
                 /\ q.step = "total" /\ covered' = covered /\ Current(r) \in alive
            /\ Current(r) \in alive /\ q = NULL =>
                 /\ run[r].todo = {Current(r)}
                 /\ covered' = covered \cup (run[r].bots \X {run[r].date})
            /\ daily' = IF Current(r) \in alive
                        THEN [daily EXCEPT ![Current(r)] =
                                 [daily[Current(r)] EXCEPT ![run[r].date] = run[r].row]]
                        ELSE daily
            /\ Current(r) \notin alive => q = NULL /\ covered' = covered
<1>1. run[r] \in Run /\ run[r] # NULL /\ Current(r) \in run[r].todo
  BY AtBot DEF StoreRow, On
<1>2. run \in [Runs -> Run \cup {NULL}]
  BY DEF Types, TypeOK
<1>3. StoreRow(r)
  OBVIOUS
<1> DEFINE p == [run[r] EXCEPT !.todo = Remaining(r), !.step = "total"]
<1>4. p \in Run /\ p.date = run[r].date /\ p.bots = run[r].bots /\ p.row = run[r].row
      /\ p.todo = Remaining(r) /\ p.step = "total"
  BY <1>1 DEF Run, Remaining
<1>5. p # NULL
  BY <1>4, AnalyticsNull
<1>6. CASE Current(r) \in alive /\ Remaining(r) # {}
  <2>1. run' = [run EXCEPT ![r] = p]
    BY <1>2, <1>3, <1>6 DEF StoreRow
  <2> QED
    BY <1>1, <1>3, <1>4, <1>5, <1>6, <2>1 DEF StoreRow, Remaining, On
<1>7. CASE Current(r) \in alive /\ Remaining(r) = {}
  <2>1. run' = [run EXCEPT ![r] = NULL]
    BY <1>2, <1>3, <1>7 DEF StoreRow
  <2> QED
    BY <1>1, <1>3, <1>7, <2>1 DEF StoreRow, Remaining, On
<1>8. CASE Current(r) \notin alive
  BY <1>1, <1>3, <1>8 DEF StoreRow, On
<1> QED
  BY <1>6, <1>7, <1>8
\* Every step keeps the types.
LEMMA TypesNext == Types /\ [Next]_vars => Types'
<1> SUFFICES ASSUME Types, [Next]_vars PROVE Types'
  OBVIOUS
<1> USE DEF Types
<1>0. TypeOK
  OBVIOUS
<1>1. CASE Midnight
  <2>1. day \in Nat /\ day' = day + 1 /\ day' \in Days
    BY <1>0, <1>1, AnalyticsConstants DEF Midnight, TypeOK, Days
  <2>2. TypeOK'
    BY <1>0, <1>1, <2>1 DEF Midnight, TypeOK
  <2>3. ASSUME NEW r \in Runs, run[r] # NULL
        PROVE  RunOK(run[r])'
    <3>1. run[r].date \in Nat
      BY <1>0, <2>3 DEF TypeOK, Run, Days
    <3> QED
      BY <1>1, <2>1, <2>3, <3>1 DEF Midnight, RunOK
  <2>4. ASSUME NEW b \in Bots, NEW d \in Days, daily[b][d] # NULL
        PROVE  b \in alive /\ (daily[b][d].final => d < day')
    BY <2>1, <2>4 DEF Days
  <2> QED
    BY <1>1, <2>2, <2>3, <2>4 DEF Midnight
<1>2. ASSUME NEW m \in Messages, NEW c \in Convs, NEW k \in Kinds, StampMessage(m, c, k)
      PROVE  Types'
  <2>1. [conv |-> c, date |-> day, kind |-> k, stored |-> FALSE] \in Message
    BY <1>0 DEF Message, TypeOK
  <2>2. msgs' \in [Messages -> Message \cup {NULL}]
    BY <1>0, <1>2, <2>1 DEF StampMessage, TypeOK
  <2>3. left' \in [messages: Nat, runs: Nat, flips: Nat, views: Nat]
    BY <1>0, <1>2, Spent DEF StampMessage, TypeOK
  <2>4. TypeOK'
    BY <1>0, <1>2, <2>2, <2>3 DEF StampMessage, TypeOK
  <2> QED
    BY <1>2, <2>4 DEF StampMessage, RunOK
<1>3. ASSUME NEW m \in Messages, InsertMessage(m)
      PROVE  Types'
  <2>1. msgs[m] \in Message
    BY <1>0, <1>3 DEF InsertMessage, TypeOK
  <2>2. [msgs[m] EXCEPT !.stored = TRUE] \in Message
    BY <2>1 DEF Message
  <2>3. msgs' \in [Messages -> Message \cup {NULL}]
    <3>1. \/ msgs' = [msgs EXCEPT ![m] = [msgs[m] EXCEPT !.stored = TRUE]]
          \/ msgs' = [msgs EXCEPT ![m] = NULL]
      BY <1>3 DEF InsertMessage
    <3> QED
      BY <1>0, <2>2, <3>1 DEF TypeOK
  <2>4. <<BotOf[msgs[m].conv], msgs[m].date>> \in Bots \X Days
    BY <2>1, AnalyticsConstants DEF Message
  <2>5. touched' \subseteq Bots \X Days
    BY <1>0, <1>3, <2>4 DEF InsertMessage, TypeOK
  <2>6. TypeOK'
    BY <1>0, <1>3, <2>3, <2>5 DEF InsertMessage, TypeOK
  <2> QED
    BY <1>3, <2>6 DEF InsertMessage, RunOK
<1>4. ASSUME NEW c \in Convs, FlipPreview(c)
      PROVE  Types'
  <2>1. preview' \in [Convs -> BOOLEAN]
    BY <1>0, <1>4 DEF FlipPreview, TypeOK
  <2>2. left' \in [messages: Nat, runs: Nat, flips: Nat, views: Nat]
    BY <1>0, <1>4, Spent DEF FlipPreview, TypeOK
  <2>3. touched' \subseteq Bots \X Days
    <3>1. \A d \in 1 .. day - 1 : d \in Days
      BY <1>0, AnalyticsConstants DEF TypeOK, Days
    <3>2. BotOf[c] \in Bots
      BY AnalyticsConstants
    <3> QED
      BY <1>0, <1>4, <3>1, <3>2 DEF FlipPreview, TypeOK
  <2>4. ASSUME NEW r \in Runs
        PROVE  /\ run'[r] \in Run \cup {NULL}
               /\ run'[r] # NULL => RunOK(run[r])'
    <3>1. run'[r] = IF run[r] # NULL /\ Current(r) = BotOf[c]
                    THEN [run[r] EXCEPT !.row.steady = FALSE] ELSE run[r]
      BY <1>4 DEF FlipPreview
    <3>2. CASE run[r] # NULL /\ Current(r) = BotOf[c]
      <4>1. run[r] \in Run
        BY <1>0, <3>2 DEF TypeOK
      <4>2. run'[r] = [run[r] EXCEPT !.row = [run[r].row EXCEPT !.steady = FALSE]]
        BY <3>1, <3>2
      <4>3. [run[r].row EXCEPT !.steady = FALSE] \in Row
        BY <4>1 DEF Run, Row
      <4>4. run'[r] \in Run /\ run'[r].todo = run[r].todo /\ run'[r].bots = run[r].bots
            /\ run'[r].date = run[r].date /\ run'[r].row.final = run[r].row.final
        BY <4>1, <4>2, <4>3 DEF Run, Row
      <4>5. RunOK(run[r])
        BY <3>2
      <4> QED
        BY <1>4, <4>4, <4>5 DEF RunOK, FlipPreview
    <3>3. CASE ~(run[r] # NULL /\ Current(r) = BotOf[c])
      BY <1>0, <1>4, <3>1, <3>3 DEF RunOK, FlipPreview, TypeOK
    <3> QED
      BY <3>2, <3>3
  <2>5. run' \in [Runs -> Run \cup {NULL}]
    BY <1>4, <2>4 DEF FlipPreview
  <2>6. TypeOK'
    BY <1>0, <1>4, <2>1, <2>2, <2>3, <2>5 DEF FlipPreview, TypeOK
  <2> QED
    BY <1>4, <2>4, <2>6 DEF FlipPreview
<1>5. ASSUME NEW b \in Bots, DeleteBot(b)
      PROVE  Types'
  <2>1. msgs' \in [Messages -> Message \cup {NULL}]
    BY <1>0, <1>5 DEF DeleteBot, TypeOK
  <2>2. daily' \in [Bots -> [Days -> Row \cup {NULL}]]
    BY <1>0, <1>5 DEF DeleteBot, TypeOK
  <2>3. TypeOK'
    BY <1>0, <1>5, <2>1, <2>2 DEF DeleteBot, TypeOK
  <2>4. ASSUME NEW e \in Bots, NEW d \in Days, daily'[e][d] # NULL
        PROVE  e \in alive' /\ daily'[e][d] = daily[e][d]
    BY <1>0, <1>5, <2>4 DEF DeleteBot, TypeOK
  <2>5. \A r \in Runs : run'[r] # NULL => RunOK(run[r])'
    BY <1>5 DEF DeleteBot, RunOK
  <2>6. day' = day
    BY <1>5 DEF DeleteBot
  <2> QED
    BY <2>3, <2>4, <2>5, <2>6
<1>6. ASSUME NEW r \in Runs, NEW date \in Days, StartRun(r, date)
      PROVE  Types'
  <2> DEFINE w == [total |-> 0, know |-> 0, replies |-> 0, final |-> date < day, steady |-> TRUE]
             q == [date |-> date, bots |-> alive, todo |-> alive, step |-> "total", row |-> w]
  <2>1. w \in Row /\ w.final = (date < day)
    BY CountsNat DEF Row
  <2> HIDE DEF w
  <2>2. q \in Run /\ q.date = date /\ q.bots = alive /\ q.todo = alive /\ q.row = w
    BY <1>0, <2>1 DEF Run, TypeOK
  <2> HIDE DEF q
  <2>3. run' = [run EXCEPT ![r] = q]
    BY <1>6 DEF StartRun, q, w
  <2>4. RunOK(q)
    BY <1>6, <2>1, <2>2 DEF RunOK, StartRun
  <2>5. run' \in [Runs -> Run \cup {NULL}]
    BY <1>0, <2>2, <2>3 DEF TypeOK
  <2>6. left' \in [messages: Nat, runs: Nat, flips: Nat, views: Nat]
    BY <1>0, <1>6, Spent DEF StartRun, TypeOK
  <2>7. TypeOK'
    BY <1>0, <1>6, <2>5, <2>6 DEF StartRun, TypeOK
  <2>8. ASSUME NEW s \in Runs, run'[s] # NULL
        PROVE  RunOK(run[s])'
    <3>1. run'[s] = IF s = r THEN q ELSE run[s]
      BY <1>0, <2>3 DEF TypeOK
    <3> QED
      BY <1>6, <2>4, <2>8, <3>1 DEF StartRun, RunOK
  <2> QED
    BY <1>6, <2>7, <2>8 DEF StartRun
<1>7. ASSUME NEW r \in Runs, CountTotal(r)
      PROVE  Types'
  <2>1. PICK q \in Run :
            /\ run' = [run EXCEPT ![r] = q]
            /\ q.date = run[r].date /\ q.bots = run[r].bots /\ q.todo = run[r].todo
            /\ q.row.final = run[r].row.final
    BY <1>7, TotalStep
  <2>2. RunOK(run[r])
    BY <1>7 DEF CountTotal, On
  <2>3. RunOK(q)
    BY <2>1, <2>2 DEF RunOK
  <2>4. /\ UNCHANGED <<day, alive, preview, msgs, daily, view, cache, touched, left>>
        /\ covered' \subseteq Bots \X Days
    BY <1>0, <1>7 DEF CountTotal, TypeOK
  <2> QED
    BY <2>1, <2>3, <2>4, TypesRun
<1>8. ASSUME NEW r \in Runs, NEW n \in {1, 2}, CountAnswers(r, n)
      PROVE  Types'
  <2>1. PICK q \in Run :
            /\ run' = [run EXCEPT ![r] = q]
            /\ q.date = run[r].date /\ q.bots = run[r].bots /\ q.todo = run[r].todo
            /\ q.row.final = run[r].row.final
    BY <1>8, AnswersStep
  <2>2. RunOK(run[r])
    BY <1>8 DEF CountAnswers, On
  <2>3. RunOK(q)
    BY <2>1, <2>2 DEF RunOK
  <2>4. /\ UNCHANGED <<day, alive, preview, msgs, daily, view, cache, touched, left>>
        /\ covered' \subseteq Bots \X Days
    BY <1>0, <1>8 DEF CountAnswers, TypeOK
  <2> QED
    BY <2>1, <2>3, <2>4, TypesRun
<1>9. ASSUME NEW r \in Runs, StoreRow(r)
      PROVE  Types'
  <2>0. run[r] # NULL
    BY <1>9 DEF StoreRow, On
  <2>1. PICK q \in Run \cup {NULL} :
            /\ run' = [run EXCEPT ![r] = q]
            /\ q # NULL => /\ q.date = run[r].date /\ q.bots = run[r].bots
                           /\ q.row = run[r].row /\ q.todo = run[r].todo \ {Current(r)}
                           /\ q.todo # {}
            /\ covered' = covered \/ covered' = covered \cup (run[r].bots \X {run[r].date})
            /\ daily' = IF Current(r) \in alive
                        THEN [daily EXCEPT ![Current(r)] =
                                 [daily[Current(r)] EXCEPT ![run[r].date] = run[r].row]]
                        ELSE daily
    BY <1>9, StoreStep
  <2>2. run[r] \in Run /\ RunOK(run[r]) /\ Current(r) \in Bots
    BY <2>0, AtBot
  <2>3. q # NULL => RunOK(q)
    BY <2>1, <2>2 DEF RunOK
  <2>4. covered' \subseteq Bots \X Days
    <3>1. run[r].bots \X {run[r].date} \subseteq Bots \X Days
      BY <2>2 DEF Run
    <3> QED
      BY <1>0, <2>1, <3>1 DEF TypeOK
  <2>5. daily' \in [Bots -> [Days -> Row \cup {NULL}]]
    BY <1>0, <2>1, <2>2 DEF TypeOK, Run
  <2>6. run' \in [Runs -> Run \cup {NULL}]
    BY <1>0, <2>1 DEF TypeOK
  <2>7. TypeOK'
    BY <1>0, <1>9, <2>4, <2>5, <2>6 DEF StoreRow, TypeOK
  <2>8. ASSUME NEW s \in Runs, run'[s] # NULL
        PROVE  RunOK(run[s])'
    <3>1. run'[s] = IF s = r THEN q ELSE run[s]
      BY <1>0, <2>1 DEF TypeOK
    <3> QED
      BY <1>9, <2>3, <2>8, <3>1 DEF StoreRow, RunOK
  <2>9. ASSUME NEW b \in Bots, NEW d \in Days, daily'[b][d] # NULL
        PROVE  b \in alive /\ (daily'[b][d].final => d < day)
    <3>1. CASE Current(r) \in alive /\ b = Current(r) /\ d = run[r].date
      <4>1. daily'[b][d] = run[r].row
        BY <1>0, <2>1, <3>1 DEF TypeOK
      <4> QED
        BY <2>2, <3>1, <4>1 DEF RunOK
    <3>2. CASE ~(Current(r) \in alive /\ b = Current(r) /\ d = run[r].date)
      <4>1. daily'[b][d] = daily[b][d]
        BY <1>0, <2>1, <2>2, <3>2 DEF TypeOK
      <4> QED
        BY <2>9, <4>1
    <3> QED
      BY <3>1, <3>2
  <2> QED
    BY <1>9, <2>7, <2>8, <2>9 DEF StoreRow
<1>10. ASSUME NEW r \in Runs, RunFails(r)
       PROVE  Types'
  <2>1. run' = [run EXCEPT ![r] = NULL]
        /\ UNCHANGED <<day, alive, preview, msgs, daily, view, cache, touched, left>>
        /\ covered' \subseteq Bots \X Days
    BY <1>0, <1>10 DEF RunFails, TypeOK
  <2> QED
    BY <2>1, TypesRun
<1>11. ASSUME NEW b \in Bots, NEW i \in BOOLEAN, ReadHistory(b, i)
       PROVE  Types'
  <2>1. SumOfTotals(b, {d \in History(day) : daily[b][d] # NULL}) \in Nat
    <3>1. {d \in History(day) : daily[b][d] # NULL} \in SUBSET Days
      BY DEF History
    <3> QED
      BY <3>1, SumType
  <2>2. Stored(Live(b), {d \in 1 .. day - 1 : day < d + Window /\ Settled(b, d)}, Kinds) \in Nat
    BY CountType, CountsNat
  <2>3. view' \in View
    BY <1>0, <1>11, <2>1, <2>2 DEF ReadHistory, View, TypeOK
  <2>4. left' \in [messages: Nat, runs: Nat, flips: Nat, views: Nat]
    BY <1>0, <1>11, Spent DEF ReadHistory, TypeOK
  <2>5. TypeOK'
    BY <1>0, <1>11, <2>3, <2>4 DEF ReadHistory, TypeOK
  <2> QED
    BY <1>11, <2>5 DEF ReadHistory, RunOK
<1>12. CASE ReadToday
  <2>1. view \in View
    BY <1>0, <1>12 DEF ReadToday, TypeOK
  <2> DEFINE cs == IF view.preview THEN ConvsOf(view.bot) ELSE Live(view.bot)
             now == Stored(cs, {view.today}, Kinds)
             o == [today |-> view.today, total |-> view.total + now,
                   least |-> IF view.bot \in alive THEN view.least + now ELSE 0]
  <2>2. now \in Nat
    BY CountType, CountsNat
  <2> HIDE DEF now
  <2>3. o \in Cached
    BY <2>1, <2>2 DEF View, Cached
  <2>4. cache' = [cache EXCEPT ![view.bot] = [cache[view.bot] EXCEPT ![view.preview] = o]]
    BY <1>12 DEF ReadToday, now
  <2> HIDE DEF o
  <2>5. cache' \in [Bots -> [BOOLEAN -> Cached \cup {NULL}]]
    BY <1>0, <2>1, <2>3, <2>4 DEF TypeOK, View
  <2>6. TypeOK'
    BY <1>0, <1>12, <2>5 DEF ReadToday, TypeOK
  <2> QED
    BY <1>12, <2>6 DEF ReadToday, RunOK
<1>13. ASSUME NEW b \in Bots, NEW i \in BOOLEAN, ExpireOverview(b, i)
       PROVE  Types'
  <2>1. cache' \in [Bots -> [BOOLEAN -> Cached \cup {NULL}]]
    BY <1>0, <1>13 DEF ExpireOverview, TypeOK
  <2>2. TypeOK'
    BY <1>0, <1>13, <2>1 DEF ExpireOverview, TypeOK
  <2> QED
    BY <1>13, <2>2 DEF ExpireOverview, RunOK
<1>14. CASE UNCHANGED vars
  BY <1>0, <1>14 DEF vars, TypeOK, RunOK
<1> QED
  BY <1>1, <1>2, <1>3, <1>4, <1>5, <1>6, <1>7, <1>8, <1>9, <1>10, <1>11, <1>12, <1>13, <1>14
     DEF Next

(***************************************************************************)
(* Types, the chatbots and the dates of the runs, and that a row is final  *)
(* only when its day is over, hold in every state.                         *)
(***************************************************************************)
LEMMA TypesAlways == Spec => []Types
BY TypesInit, TypesNext, PTL DEF Spec

(***************************************************************************)
(* The types of the statistics hold in every state.                        *)
(***************************************************************************)
THEOREM AnalyticsTypes == Spec => []TypeOK
<1>1. Types => TypeOK
  BY DEF Types
<1> QED
  BY <1>1, TypesAlways, PTL

-----------------------------------------------------------------------------
(* What a step does to the world, the rows and the runs. *)

\* The date goes on, chatbots only disappear, what changed has changed.
LEMMA OnlyForward ==
  ASSUME Types, [Next]_vars
  PROVE  alive' \subseteq alive /\ touched \subseteq touched' /\ day \in Nat /\ day <= day'
<1>1. day \in Nat
  BY DEF Types, TypeOK, Days
<1>2. alive' \subseteq alive
  BY DEF Next, vars, Midnight, StampMessage, InsertMessage, FlipPreview, DeleteBot, StartRun,
     CountTotal, CountAnswers, StoreRow, RunFails, ReadHistory, ReadToday, ExpireOverview
<1>3. touched \subseteq touched'
  BY DEF Next, vars, Midnight, StampMessage, InsertMessage, FlipPreview, DeleteBot, StartRun,
     CountTotal, CountAnswers, StoreRow, RunFails, ReadHistory, ReadToday, ExpireOverview
<1>4. day' = day \/ Midnight
  BY DEF Next, vars, StampMessage, InsertMessage, FlipPreview, DeleteBot, StartRun,
     CountTotal, CountAnswers, StoreRow, RunFails, ReadHistory, ReadToday, ExpireOverview
<1>5. day <= day'
  BY <1>1, <1>4 DEF Midnight
<1> QED
  BY <1>1, <1>2, <1>3, <1>5

\* Messages change in three steps.
LEMMA MessageSteps ==
  ASSUME Types, [Next]_vars
  PROVE  \/ UNCHANGED msgs
         \/ \E m \in Messages, c \in Convs, k \in Kinds : StampMessage(m, c, k)
         \/ \E m \in Messages : InsertMessage(m)
         \/ \E b \in Bots : DeleteBot(b)
BY DEF Next, vars, Midnight, FlipPreview, StartRun,
     CountTotal, CountAnswers, StoreRow, RunFails, ReadHistory, ReadToday, ExpireOverview

(***************************************************************************)
(* A stored message stays as it is for as long as its chatbot exists; and  *)
(* a message that is stored late leaves its mark on its day.               *)
(***************************************************************************)
LEMMA MessageNext ==
  ASSUME Types, [Next]_vars, NEW m \in Messages
  PROVE  /\ msgs[m] # NULL /\ msgs[m].stored /\ BotOf[msgs[m].conv] \in alive' =>
              msgs'[m] = msgs[m]
         /\ msgs'[m] # NULL /\ msgs'[m].stored =>
              /\ msgs[m] # NULL
              /\ \/ msgs'[m] = msgs[m]
                 \/ msgs'[m].date >= day
                 \/ <<BotOf[msgs'[m].conv], msgs'[m].date>> \in touched'
<1>0. msgs \in [Messages -> Message \cup {NULL}] /\ day \in Nat
  BY DEF Types, TypeOK, Days
<1>1. CASE UNCHANGED msgs
  BY <1>1
<1>2. ASSUME NEW n \in Messages, NEW c \in Convs, NEW k \in Kinds, StampMessage(n, c, k)
      PROVE  msgs'[m] = msgs[m] \/ (msgs[m] = NULL /\ ~msgs'[m].stored)
  <2>1. CASE m = n
    BY <1>0, <1>2, <2>1 DEF StampMessage
  <2>2. CASE m # n
    BY <1>0, <1>2, <2>2 DEF StampMessage
  <2> QED
    BY <2>1, <2>2
<1>3. ASSUME NEW n \in Messages, InsertMessage(n)
      PROVE  \/ msgs'[m] = msgs[m]
             \/ msgs'[m] = NULL /\ ~msgs[m].stored
             \/ /\ msgs[m] # NULL /\ ~msgs[m].stored /\ msgs'[m].date = msgs[m].date
                /\ msgs'[m].conv = msgs[m].conv /\ msgs[m].date \in Nat
                /\ msgs[m].date < day => <<BotOf[msgs[m].conv], msgs[m].date>> \in touched'
  <2>1. CASE m # n
    BY <1>0, <1>3, <2>1 DEF InsertMessage
  <2>2. CASE m = n /\ BotOf[msgs[n].conv] \notin alive
    BY <1>0, <1>3, <2>2 DEF InsertMessage
  <2>3. CASE m = n /\ BotOf[msgs[n].conv] \in alive
    <3>1. msgs[m] \in Message
      BY <1>0, <1>3, <2>3 DEF InsertMessage
    <3>2. msgs' = [msgs EXCEPT ![m] = [msgs[m] EXCEPT !.stored = TRUE]]
      BY <1>3, <2>3 DEF InsertMessage
    <3>3. msgs'[m] = [msgs[m] EXCEPT !.stored = TRUE]
      BY <1>0, <3>2
    <3>4. msgs'[m].date = msgs[m].date /\ msgs'[m].conv = msgs[m].conv /\ msgs[m].date \in Nat
      BY <3>1, <3>3 DEF Message, Days
    <3> QED
      BY <1>3, <2>3, <3>4 DEF InsertMessage
  <2> QED
    BY <2>1, <2>2, <2>3
<1>4. ASSUME NEW b \in Bots, DeleteBot(b)
      PROVE  \/ msgs'[m] = msgs[m]
             \/ msgs'[m] = NULL /\ BotOf[msgs[m].conv] \notin alive'
  BY <1>0, <1>4 DEF DeleteBot
<1>5. \/ msgs'[m] = msgs[m]
      \/ msgs[m] = NULL /\ ~msgs'[m].stored
      \/ msgs'[m] = NULL /\ ~msgs[m].stored
      \/ msgs'[m] = NULL /\ BotOf[msgs[m].conv] \notin alive'
      \/ /\ msgs[m] # NULL /\ ~msgs[m].stored /\ msgs'[m].date = msgs[m].date
         /\ msgs'[m].conv = msgs[m].conv /\ msgs[m].date \in Nat
         /\ msgs[m].date < day => <<BotOf[msgs[m].conv], msgs[m].date>> \in touched'
  BY <1>1, <1>2, <1>3, <1>4, MessageSteps
<1> QED
  BY <1>0, <1>5

\* A conversation changes sides in one step, which marks all the days before.
LEMMA PreviewNext ==
  ASSUME Types, [Next]_vars, NEW c \in Convs, preview'[c] # preview[c]
  PROVE  /\ FlipPreview(c)
         /\ \A d \in Days : d < day => <<BotOf[c], d>> \in touched'
<1>1. PICK e \in Convs : FlipPreview(e)
  BY DEF Next, vars, Midnight, StampMessage, InsertMessage, DeleteBot, StartRun,
     CountTotal, CountAnswers, StoreRow, RunFails, ReadHistory, ReadToday, ExpireOverview
<1>2. e = c
  BY <1>1 DEF FlipPreview, Types, TypeOK
<1>3. day \in Nat
  BY DEF Types, TypeOK, Days
<1>4. \A d \in Days : d < day => d \in 1 .. day - 1
  BY <1>3, AnalyticsConstants DEF Days
<1> QED
  BY <1>1, <1>2, <1>4 DEF FlipPreview

\* The messages found for a chatbot that exists are found later as well.
LEMMA FoundKept ==
  ASSUME Types, [Next]_vars, NEW b \in Bots, b \in alive', NEW ds, NEW ks
  PROVE  /\ Found(ConvsOf(b), ds, ks) \subseteq Found(ConvsOf(b), ds, ks)'
         /\ Stored(ConvsOf(b), ds, ks) <= Stored(ConvsOf(b), ds, ks)'
<1>1. ASSUME NEW m \in Found(ConvsOf(b), ds, ks)
      PROVE  m \in Found(ConvsOf(b), ds, ks)'
  <2>1. m \in Messages /\ msgs[m] # NULL /\ msgs[m].stored /\ BotOf[msgs[m].conv] = b
    BY DEF Found, ConvsOf
  <2>2. msgs'[m] = msgs[m]
    BY <2>1, MessageNext
  <2> QED
    BY <2>2 DEF Found, ConvsOf
<1>2. Found(ConvsOf(b), ds, ks)' \in SUBSET Messages
  BY DEF Found
<1> QED
  BY <1>1, <1>2, Sizes DEF Stored

\* The same, of its live messages, when none of its conversations changes sides.
LEMMA LiveKept ==
  ASSUME Types, [Next]_vars, NEW b \in Bots, b \in alive',
         \A c \in ConvsOf(b) : preview'[c] = preview[c], NEW d, NEW ks
  PROVE  Count(b, d, ks) <= Count(b, d, ks)'
<1>1. ASSUME NEW m \in Found(Live(b), {d}, ks)
      PROVE  m \in Found(Live(b), {d}, ks)'
  <2>1. m \in Messages /\ msgs[m] # NULL /\ msgs[m].stored /\ BotOf[msgs[m].conv] = b
    BY DEF Found, Live, ConvsOf
  <2>2. msgs'[m] = msgs[m]
    BY <2>1, MessageNext
  <2> QED
    BY <2>2 DEF Found, Live, ConvsOf
<1>2. Found(Live(b), {d}, ks)' \in SUBSET Messages
  BY DEF Found
<1> QED
  BY <1>1, <1>2, Sizes DEF Stored, Count

\* And the count of a day that is over and that nothing happens to is the same.
LEMMA SameCount ==
  ASSUME Types, [Next]_vars, NEW b \in Bots, b \in alive', NEW d \in Days, d < day,
         <<b, d>> \notin touched', NEW ks
  PROVE  Count(b, d, ks)' = Count(b, d, ks)
<1>0. day \in Nat /\ d \in Nat
  BY DEF Types, TypeOK, Days
<1>1. \A c \in ConvsOf(b) : preview'[c] = preview[c]
  BY PreviewNext DEF ConvsOf
<1>2. ASSUME NEW m \in Messages
      PROVE  m \in Found(Live(b), {d}, ks) <=> m \in Found(Live(b), {d}, ks)'
  <2>1. ASSUME m \in Found(Live(b), {d}, ks)
        PROVE  m \in Found(Live(b), {d}, ks)'
    <3>1. msgs[m] # NULL /\ msgs[m].stored /\ BotOf[msgs[m].conv] = b
      BY <2>1 DEF Found, Live, ConvsOf
    <3>2. msgs'[m] = msgs[m]
      BY <3>1, MessageNext
    <3> QED
      BY <1>1, <2>1, <3>2 DEF Found, Live, ConvsOf
  <2>2. ASSUME m \in Found(Live(b), {d}, ks)'
        PROVE  m \in Found(Live(b), {d}, ks)
    <3>1. msgs'[m] # NULL /\ msgs'[m].stored /\ BotOf[msgs'[m].conv] = b /\ msgs'[m].date = d
      BY <2>2 DEF Found, Live, ConvsOf
    <3>2. msgs'[m] = msgs[m]
      BY <1>0, <3>1, MessageNext
    <3> QED
      BY <1>1, <2>2, <3>2 DEF Found, Live, ConvsOf
  <2> QED
    BY <2>1, <2>2
<1>3. Found(Live(b), {d}, ks)' = Found(Live(b), {d}, ks)
  BY <1>2 DEF Found
<1> QED
  BY <1>3 DEF Count, Stored

\* Rows change in two steps, and runs in seven.
LEMMA RowSteps ==
  ASSUME [Next]_vars
  PROVE  /\ \/ UNCHANGED daily
            \/ \E b \in Bots : DeleteBot(b)
            \/ \E r \in Runs : StoreRow(r)
         /\ \/ UNCHANGED run
            \/ \E c \in Convs : FlipPreview(c)
            \/ \E r \in Runs :
                  \/ \E date \in Days : StartRun(r, date)
                  \/ CountTotal(r) \/ StoreRow(r) \/ RunFails(r)
                  \/ \E n \in {1, 2} : CountAnswers(r, n)
<1>1. \/ UNCHANGED daily
      \/ \E b \in Bots : DeleteBot(b)
      \/ \E r \in Runs : StoreRow(r)
  BY DEF Next, vars, Midnight, StampMessage, InsertMessage, FlipPreview, StartRun,
     CountTotal, CountAnswers, RunFails, ReadHistory, ReadToday, ExpireOverview
<1>2. \/ UNCHANGED run
      \/ \E c \in Convs : FlipPreview(c)
      \/ \E r \in Runs :
            \/ \E date \in Days : StartRun(r, date)
            \/ CountTotal(r) \/ StoreRow(r) \/ RunFails(r)
            \/ \E n \in {1, 2} : CountAnswers(r, n)
  BY DEF Next, vars, Midnight, StampMessage, InsertMessage, DeleteBot,
     ReadHistory, ReadToday, ExpireOverview
<1> QED
  BY <1>1, <1>2

(***************************************************************************)
(* A row is the one there was, or the one a run has counted; and only the  *)
(* deletion of its chatbot removes it.                                     *)
(***************************************************************************)
LEMMA RowNext ==
  ASSUME Types, [Next]_vars, NEW b \in Bots, NEW d \in Days
  PROVE  /\ daily'[b][d] # NULL =>
              \/ daily'[b][d] = daily[b][d] /\ b \in alive'
              \/ \E r \in Runs :
                    /\ run[r] # NULL /\ run[r].step = "store"
                    /\ Current(r) = b /\ run[r].date = d /\ b \in alive'
                    /\ daily'[b][d] = run[r].row
                    /\ UNCHANGED <<day, alive, preview, msgs, touched>>
         /\ daily[b][d] # NULL /\ b \in alive' => daily'[b][d] # NULL
<1>0. TypeOK /\ (daily[b][d] # NULL => b \in alive)
  BY DEF Types
<1>1. CASE UNCHANGED daily /\ ~\E e \in Bots : DeleteBot(e)
  <2>1. UNCHANGED alive
    BY <1>1 DEF Next, vars, Midnight, StampMessage, InsertMessage, FlipPreview, StartRun,
       CountTotal, CountAnswers, StoreRow, RunFails, ReadHistory, ReadToday, ExpireOverview
  <2> QED
    BY <1>0, <1>1, <2>1
<1>2. ASSUME NEW e \in Bots, DeleteBot(e)
      PROVE  daily'[b][d] = IF b = e THEN NULL ELSE daily[b][d]
  BY <1>0, <1>2 DEF DeleteBot, TypeOK
<1>3. CASE \E e \in Bots : DeleteBot(e)
  <2>1. PICK e \in Bots : DeleteBot(e)
    BY <1>3
  <2>2. alive' = alive \ {e}
    BY <2>1 DEF DeleteBot
  <2> QED
    BY <1>0, <1>2, <2>1, <2>2
<1>4. ASSUME NEW r \in Runs, StoreRow(r)
      PROVE  /\ run[r] # NULL /\ run[r].step = "store" /\ run[r].row # NULL
             /\ daily'[b][d] = IF Current(r) \in alive /\ b = Current(r) /\ d = run[r].date
                               THEN run[r].row ELSE daily[b][d]
             /\ UNCHANGED <<day, alive, preview, msgs, touched>>
  <2>1. run[r] # NULL /\ run[r].step = "store"
    BY <1>4 DEF StoreRow, On
  <2>2. run[r] \in Run /\ Current(r) \in Bots
    BY <2>1, AtBot
  <2>3. run[r].row \in Row /\ run[r].date \in Days
    BY <2>2 DEF Run
  <2>4. run[r].row # NULL
    BY <2>3, AnalyticsNull
  <2>5. daily' = IF Current(r) \in alive
                 THEN [daily EXCEPT ![Current(r)] =
                          [daily[Current(r)] EXCEPT ![run[r].date] = run[r].row]]
                 ELSE daily
    BY <1>4, StoreStep
  <2>6. UNCHANGED <<day, alive, preview, msgs, touched>>
    BY <1>4 DEF StoreRow
  <2>7. daily'[b][d] = IF Current(r) \in alive /\ b = Current(r) /\ d = run[r].date
                       THEN run[r].row ELSE daily[b][d]
    BY <1>0, <2>2, <2>3, <2>5 DEF TypeOK
  <2> QED
    BY <2>1, <2>4, <2>6, <2>7
<1>5. CASE \E r \in Runs : StoreRow(r)
  <2>1. PICK r \in Runs : StoreRow(r)
    BY <1>5
  <2> QED
    BY <1>0, <1>4, <2>1
<1> QED
  BY <1>1, <1>3, <1>5, RowSteps

\* A run that is under way after a step.
LEMMA RunNext ==
  ASSUME Types, [Next]_vars, NEW r \in Runs, run'[r] # NULL
  PROVE  \/ run'[r] = run[r]
         \/ /\ run[r] # NULL /\ run'[r].step = run[r].step /\ run'[r].date = run[r].date
            /\ run'[r].bots = run[r].bots /\ run'[r].todo = run[r].todo
            /\ run'[r].row.total = run[r].row.total /\ run'[r].row.final = run[r].row.final
            /\ ~run'[r].row.steady
         \/ run'[r].step = "total" /\ run'[r].bots = run'[r].todo
         \/ /\ run[r] # NULL /\ StoreRow(r) /\ run'[r].step = "total"
            /\ run'[r].date = run[r].date /\ run'[r].bots = run[r].bots
            /\ run'[r].todo = run[r].todo \ {Current(r)} /\ Current(r) \in alive
         \/ CountTotal(r)
         \/ \E n \in {1, 2} : CountAnswers(r, n)
<1>0. run \in [Runs -> Run \cup {NULL}]
  BY DEF Types, TypeOK
<1>1. CASE UNCHANGED run
  BY <1>1
<1>2. ASSUME NEW c \in Convs, FlipPreview(c)
      PROVE  \/ run'[r] = run[r]
             \/ /\ run[r] # NULL /\ run'[r].step = run[r].step /\ run'[r].date = run[r].date
                /\ run'[r].bots = run[r].bots /\ run'[r].todo = run[r].todo
                /\ run'[r].row.total = run[r].row.total /\ run'[r].row.final = run[r].row.final
                /\ ~run'[r].row.steady
  <2>1. CASE ~(run[r] # NULL /\ Current(r) = BotOf[c])
    BY <1>2, <2>1 DEF FlipPreview
  <2>2. CASE run[r] # NULL /\ Current(r) = BotOf[c]
    <3>1. run[r] \in Run
      BY <1>0, <2>2
    <3>2. run'[r] = [run[r] EXCEPT !.row = [run[r].row EXCEPT !.steady = FALSE]]
      BY <1>2, <2>2 DEF FlipPreview
    <3> QED
      BY <2>2, <3>1, <3>2 DEF Run, Row
  <2> QED
    BY <2>1, <2>2
<1>3. ASSUME NEW s \in Runs, NEW date \in Days, StartRun(s, date)
      PROVE  \/ run'[r] = run[r]
             \/ run'[r].step = "total" /\ run'[r].bots = run'[r].todo
  <2>1. CASE s = r
    BY <1>0, <1>3, <2>1 DEF StartRun
  <2>2. CASE s # r
    BY <1>0, <1>3, <2>2 DEF StartRun
  <2> QED
    BY <2>1, <2>2
<1>4. ASSUME NEW s \in Runs, s # r,
             CountTotal(s) \/ StoreRow(s) \/ RunFails(s) \/ \E n \in {1, 2} : CountAnswers(s, n)
      PROVE  run'[r] = run[r]
  BY <1>0, <1>4 DEF CountTotal, StoreRow, RunFails, CountAnswers
<1>5. ASSUME RunFails(r)
      PROVE  FALSE
  BY <1>0, <1>5 DEF RunFails
<1>6. ASSUME StoreRow(r)
      PROVE  /\ run[r] # NULL /\ run'[r].step = "total"
             /\ run'[r].date = run[r].date /\ run'[r].bots = run[r].bots
             /\ run'[r].todo = run[r].todo \ {Current(r)} /\ Current(r) \in alive
  <2>1. PICK q \in Run \cup {NULL} :
            /\ run' = [run EXCEPT ![r] = q]
            /\ run[r] # NULL
            /\ q # NULL =>
                 /\ q.date = run[r].date /\ q.bots = run[r].bots
                 /\ q.todo = run[r].todo \ {Current(r)}
                 /\ q.step = "total" /\ Current(r) \in alive
    BY <1>6, StoreStep
  <2>2. run'[r] = q
    BY <1>0, <2>1
  <2> QED
    BY <2>1, <2>2
<1> QED
  BY <1>1, <1>2, <1>3, <1>4, <1>5, <1>6, RowSteps

-----------------------------------------------------------------------------
(* A run that ends normally has covered its chatbots. *)

\* Every step keeps what the runs have done.
LEMMA CoverNext ==
  ASSUME Types, CoverInv, [Next]_vars
  PROVE  CoverInv'
<1>0. run \in [Runs -> Run \cup {NULL}] /\ covered \subseteq Bots \X Days /\ alive \subseteq Bots
  BY DEF Types, TypeOK
<1>1. ASSUME NEW b \in Bots, NEW d \in Days, daily[b][d] # NULL, b \in alive'
      PROVE  daily'[b][d] # NULL
  BY <1>1, RowNext
<1>2. alive' \subseteq alive
  BY OnlyForward
<1>3. ASSUME NEW r \in Runs, StoreRow(r)
      PROVE  /\ run[r] # NULL /\ run[r].bots \subseteq Bots /\ run[r].date \in Days
             /\ Current(r) \in alive' => daily'[Current(r)][run[r].date] # NULL
  <2>1. run[r] # NULL
    BY <1>3 DEF StoreRow, On
  <2>2. run[r] \in Run /\ Current(r) \in Bots
    BY <2>1, AtBot
  <2>3. run[r].row \in Row /\ run[r].date \in Days /\ run[r].bots \subseteq Bots
    BY <2>2 DEF Run
  <2>4. run[r].row # NULL
    BY <2>3, AnalyticsNull
  <2>5. daily' = IF Current(r) \in alive
                 THEN [daily EXCEPT ![Current(r)] =
                          [daily[Current(r)] EXCEPT ![run[r].date] = run[r].row]]
                 ELSE daily
    BY <1>3, StoreStep
  <2>6. Current(r) \in alive' => daily'[Current(r)][run[r].date] = run[r].row
    BY <1>2, <2>2, <2>3, <2>5 DEF Types, TypeOK
  <2> QED
    BY <2>1, <2>3, <2>4, <2>6
<1>4. ASSUME NEW x \in covered', x[1] \in alive'
      PROVE  daily'[x[1]][x[2]] # NULL
  <2>1. CASE x \in covered
    <3>1. daily[x[1]][x[2]] # NULL /\ x[1] \in Bots /\ x[2] \in Days
      BY <1>0, <1>2, <1>4, <2>1 DEF CoverInv, RunCoversEveryBot
    <3> QED
      BY <1>1, <1>4, <3>1
  <2>2. CASE x \notin covered
    <3>1. PICK r \in Runs : StoreRow(r)
      BY <2>2 DEF Next, vars, Midnight, StampMessage, InsertMessage, FlipPreview, DeleteBot, StartRun,
         CountTotal, CountAnswers, RunFails, ReadHistory, ReadToday, ExpireOverview
    <3>2. run[r].todo = {Current(r)} /\ covered' = covered \cup (run[r].bots \X {run[r].date})
      BY <2>2, <3>1, StoreStep
    <3>3. x[1] \in run[r].bots /\ x[2] = run[r].date
      BY <2>2, <3>2
    <3>4. CASE x[1] = Current(r)
      BY <1>3, <1>4, <3>1, <3>3, <3>4
    <3>5. CASE x[1] # Current(r)
      <4>1. daily[x[1]][x[2]] # NULL
        BY <1>2, <1>3, <1>4, <3>1, <3>2, <3>3, <3>5 DEF CoverInv
      <4> QED
        BY <1>1, <1>3, <1>4, <3>1, <3>3, <4>1
    <3> QED
      BY <3>4, <3>5
  <2> QED
    BY <2>1, <2>2
<1>5. ASSUME NEW r \in Runs, run'[r] # NULL, NEW b \in run'[r].bots \ run'[r].todo, b \in alive'
      PROVE  daily'[b][run'[r].date] # NULL
  <2>1. \/ run'[r] = run[r]
        \/ /\ run[r] # NULL /\ run'[r].date = run[r].date
           /\ run'[r].bots = run[r].bots /\ run'[r].todo = run[r].todo
        \/ /\ run[r] # NULL /\ StoreRow(r)
           /\ run'[r].date = run[r].date /\ run'[r].bots = run[r].bots
           /\ run'[r].todo = run[r].todo \ {Current(r)}
    <3>1. ASSUME CountTotal(r) \/ \E n \in {1, 2} : CountAnswers(r, n)
          PROVE  /\ run[r] # NULL /\ run'[r].date = run[r].date
                 /\ run'[r].bots = run[r].bots /\ run'[r].todo = run[r].todo
      <4>1. PICK q \in Run : /\ run' = [run EXCEPT ![r] = q]
                             /\ q.date = run[r].date /\ q.bots = run[r].bots /\ q.todo = run[r].todo
        BY <3>1, TotalStep, AnswersStep
      <4>2. run'[r] = q
        BY <1>0, <4>1
      <4> QED
        BY <3>1, <4>1, <4>2 DEF CountTotal, CountAnswers, On
    <3> QED
      BY <1>5, <3>1, RunNext
  <2>2. run[r] # NULL /\ run[r] \in Run
    BY <1>0, <1>5, <2>1
  <2>3. b \in Bots /\ run'[r].date = run[r].date /\ run[r].date \in Days /\ b \in run[r].bots
    BY <2>1, <2>2 DEF Run
  <2>4. CASE b \notin run[r].todo
    <3>1. daily[b][run[r].date] # NULL
      BY <1>2, <1>5, <2>2, <2>3, <2>4 DEF CoverInv
    <3> QED
      BY <1>1, <1>5, <2>3, <3>1
  <2>5. CASE b \in run[r].todo
    <3>1. StoreRow(r) /\ b = Current(r)
      BY <2>1, <2>5
    <3> QED
      BY <1>3, <1>5, <2>3, <3>1
  <2> QED
    BY <2>4, <2>5
<1> QED
  BY <1>4, <1>5 DEF CoverInv, RunCoversEveryBot

(***************************************************************************)
(* A run of the task that ends normally leaves a row for every chatbot it  *)
(* began with and that still exists, however many runs overlap, whatever   *)
(* is deleted meanwhile.                                                   *)
(***************************************************************************)
THEOREM AnalyticsRunCovers == Spec => []RunCoversEveryBot
<1>1. Init => CoverInv
  BY DEF Init, CoverInv, RunCoversEveryBot
<1>2. Types /\ CoverInv /\ [Next]_vars => CoverInv'
  BY CoverNext
<1>3. CoverInv => RunCoversEveryBot
  BY DEF CoverInv
<1> QED
  BY <1>1, <1>2, <1>3, TypesAlways, PTL DEF Spec

-----------------------------------------------------------------------------
(* What a run counts: exactly the messages of a day that is settled, and   *)
(* never more than there are.                                              *)

\* The run a step leaves with a count was there before, or counts in this step.
LEMMA CountedNext ==
  ASSUME Types, [Next]_vars, NEW r \in Runs, run'[r] # NULL, run'[r].step \in Counted
  PROVE  /\ run[r] # NULL /\ run[r] \in Run /\ Current(r) \in Bots /\ run[r].date \in Days
         /\ run'[r].date = run[r].date /\ run'[r].todo = run[r].todo
         /\ run'[r].row.final = run[r].row.final
         /\ \/ run[r].step \in Counted /\ run'[r].row.total = run[r].row.total
            \/ run'[r].row.total = Count(Current(r), run[r].date, Kinds)
<1>0. run \in [Runs -> Run \cup {NULL}]
  BY DEF Types, TypeOK
<1>1. ASSUME CountTotal(r)
      PROVE  /\ run[r] # NULL /\ run'[r].date = run[r].date /\ run'[r].todo = run[r].todo
             /\ run'[r].row.final = run[r].row.final
             /\ run'[r].row.total = Count(Current(r), run[r].date, Kinds)
  <2>1. PICK q \in Run : /\ run' = [run EXCEPT ![r] = q]
                         /\ q.date = run[r].date /\ q.todo = run[r].todo
                         /\ q.row.total = Count(Current(r), run[r].date, Kinds)
                         /\ q.row.final = run[r].row.final
    BY <1>1, TotalStep
  <2>2. run'[r] = q
    BY <1>0, <2>1
  <2> QED
    BY <1>1, <2>1, <2>2 DEF CountTotal, On
<1>2. ASSUME NEW n \in {1, 2}, CountAnswers(r, n)
      PROVE  /\ run[r] # NULL /\ run'[r].date = run[r].date /\ run'[r].todo = run[r].todo
             /\ run'[r].row.final = run[r].row.final
             /\ run[r].step \in Counted /\ run'[r].row.total = run[r].row.total
  <2>1. PICK q \in Run : /\ run' = [run EXCEPT ![r] = q]
                         /\ q.date = run[r].date /\ q.todo = run[r].todo
                         /\ run[r] # NULL /\ run[r].step = IF n = 1 THEN "first" ELSE "second"
                         /\ q.row.total = run[r].row.total /\ q.row.final = run[r].row.final
    BY <1>2, AnswersStep
  <2>2. run'[r] = q
    BY <1>0, <2>1
  <2> QED
    BY <2>1, <2>2 DEF Counted
<1>3. run'[r].step # "total"
  BY DEF Counted
<1>4. /\ run[r] # NULL /\ run'[r].date = run[r].date /\ run'[r].todo = run[r].todo
      /\ run'[r].row.final = run[r].row.final
      /\ \/ run[r].step \in Counted /\ run'[r].row.total = run[r].row.total
         \/ run'[r].row.total = Count(Current(r), run[r].date, Kinds)
  BY <1>1, <1>2, <1>3, RunNext
<1> QED
  BY <1>4, AtBot DEF Run

\* Every step keeps the counts of settled days exact.
LEMMA SettledNext ==
  ASSUME Types, Types', SettledInv, [Next]_vars
  PROVE  SettledInv'
<1>0. alive' \subseteq alive /\ touched \subseteq touched'
  BY OnlyForward
<1>1. ASSUME NEW b \in Bots, NEW d \in Days, daily'[b][d] # NULL, daily'[b][d].final,
             <<b, d>> \notin touched'
      PROVE  daily'[b][d].total = Count(b, d, Kinds)'
  <2>1. CASE daily'[b][d] = daily[b][d] /\ b \in alive'
    <3>1. d < day
      BY <1>1, <2>1 DEF Types
    <3>2. daily[b][d].total = Count(b, d, Kinds)
      BY <1>0, <1>1, <2>1 DEF SettledInv, Exact
    <3>3. Count(b, d, Kinds)' = Count(b, d, Kinds)
      BY <1>1, <2>1, <3>1, SameCount
    <3> QED
      BY <2>1, <3>2, <3>3
  <2>2. ASSUME NEW r \in Runs, run[r] # NULL, run[r].step = "store", Current(r) = b,
               run[r].date = d, b \in alive', daily'[b][d] = run[r].row
        PROVE  daily'[b][d].total = Count(b, d, Kinds)'
    <3>1. d < day
      BY <1>1, <2>2 DEF Types, RunOK
    <3>2. run[r].row.total = Count(b, d, Kinds)
      BY <1>0, <1>1, <2>2 DEF SettledInv, Exact, Counted
    <3>3. Count(b, d, Kinds)' = Count(b, d, Kinds)
      BY <1>1, <2>2, <3>1, SameCount
    <3> QED
      BY <2>2, <3>2, <3>3
  <2> QED
    BY <1>1, <2>1, <2>2, RowNext
<1>2. ASSUME NEW r \in Runs, run'[r] # NULL, run'[r].step \in Counted, Current(r)' \in alive'
      PROVE  Exact(Current(r), run[r].date, run[r].row)'
  <2>1. /\ run[r] # NULL /\ run[r] \in Run /\ Current(r) \in Bots /\ run[r].date \in Days
        /\ run'[r].date = run[r].date /\ run'[r].todo = run[r].todo
        /\ run'[r].row.final = run[r].row.final
        /\ \/ run[r].step \in Counted /\ run'[r].row.total = run[r].row.total
           \/ run'[r].row.total = Count(Current(r), run[r].date, Kinds)
    BY <1>2, CountedNext
  <2>2. Current(r)' = Current(r)
    BY <2>1 DEF Current
  <2>3. PICK b \in Bots, d \in Days : b = Current(r) /\ d = run[r].date
    BY <2>1
  <2>4. SUFFICES ASSUME run'[r].row.final, <<b, d>> \notin touched'
                 PROVE  run'[r].row.total = Count(b, d, Kinds)'
    BY <2>1, <2>2, <2>3 DEF Exact, Count, Stored, Found, Live
  <2>5. b \in alive' /\ b \in alive
    BY <1>0, <1>2, <2>2, <2>3
  <2>6. d < day
    BY <2>1, <2>3, <2>4, AtBot DEF RunOK
  <2>7. Count(b, d, Kinds)' = Count(b, d, Kinds)
    BY <2>4, <2>5, <2>6, SameCount
  <2>8. run'[r].row.total = Count(b, d, Kinds)
    <3>1. CASE run[r].step \in Counted /\ run'[r].row.total = run[r].row.total
      <4>1. Exact(b, d, run[r].row)
        BY <2>1, <2>3, <2>5, <3>1 DEF SettledInv
      <4> QED
        BY <1>0, <2>1, <2>4, <3>1, <4>1 DEF Exact
    <3> QED
      BY <2>1, <2>3, <3>1
  <2> QED
    BY <2>7, <2>8
<1>3. \A b \in Bots, d \in Days : daily'[b][d] # NULL => Exact(b, d, daily[b][d])'
  BY <1>1 DEF Exact
<1> QED
  BY <1>2, <1>3 DEF SettledInv

(***************************************************************************)
(* A row of a run that began after its day counts exactly the live         *)
(* messages of the day, unless something happened to the day since it was  *)
(* over: for every overlap of runs, messages and deletions.                *)
(***************************************************************************)
THEOREM AnalyticsSettled == Spec => []SettledDayIsCounted
<1>1. Init => SettledInv
  BY DEF Init, SettledInv
<1>2. Types /\ Types' /\ SettledInv /\ [Next]_vars => SettledInv'
  BY SettledNext
<1>3. SettledInv => SettledDayIsCounted
  BY DEF SettledInv, SettledDayIsCounted, Settled, Exact
<1> QED
  BY <1>1, <1>2, <1>3, TypesAlways, PTL DEF Spec

\* Every step keeps the counts within the messages there are.
LEMMA CountsNext ==
  ASSUME Types, CountsInv, [Next]_vars
  PROVE  CountsInv'
<1>0. alive' \subseteq alive
  BY OnlyForward
<1>1. ASSUME NEW b \in Bots, b \in alive', NEW d, NEW n \in Counts,
             n <= Stored(ConvsOf(b), {d}, Kinds)
      PROVE  n <= Stored(ConvsOf(b), {d}, Kinds)'
  <2>1. Stored(ConvsOf(b), {d}, Kinds) <= Stored(ConvsOf(b), {d}, Kinds)'
    BY <1>1, FoundKept
  <2>2. Stored(ConvsOf(b), {d}, Kinds) \in Nat
    BY CountType, CountsNat
  <2>3. Stored(ConvsOf(b), {d}, Kinds)' \in Nat
    <3>1. Found(ConvsOf(b), {d}, Kinds)' \in SUBSET Messages
      BY DEF Found
    <3> QED
      BY <3>1, Sizes, CountsNat DEF Stored
  <2> QED
    BY <1>1, <2>1, <2>2, <2>3, CountsNat
<1>2. ASSUME NEW b \in Bots, NEW d \in Days, daily'[b][d] # NULL
      PROVE  daily'[b][d].total <= Stored(ConvsOf(b), {d}, Kinds)'
  <2>1. CASE daily'[b][d] = daily[b][d] /\ b \in alive'
    <3>1. daily[b][d].total <= Stored(ConvsOf(b), {d}, Kinds) /\ daily[b][d].total \in Counts
      BY <1>2, <2>1 DEF CountsInv, Types, TypeOK, Row
    <3> QED
      BY <1>1, <2>1, <3>1
  <2>2. ASSUME NEW r \in Runs, run[r] # NULL, run[r].step = "store", Current(r) = b,
               run[r].date = d, b \in alive', daily'[b][d] = run[r].row
        PROVE  daily'[b][d].total <= Stored(ConvsOf(b), {d}, Kinds)'
    <3>1. run[r].row.total <= Stored(ConvsOf(b), {d}, Kinds) /\ run[r].row.total \in Counts
      BY <1>0, <2>2 DEF CountsInv, Counted, Types, TypeOK, Run, Row
    <3> QED
      BY <1>1, <2>2, <3>1
  <2> QED
    BY <1>2, <2>1, <2>2, RowNext
<1>3. ASSUME NEW r \in Runs, run'[r] # NULL, run'[r].step \in Counted, Current(r)' \in alive'
      PROVE  run'[r].row.total <= Stored(ConvsOf(Current(r)), {run[r].date}, Kinds)'
  <2>1. /\ run[r] # NULL /\ run[r] \in Run /\ Current(r) \in Bots /\ run[r].date \in Days
        /\ run'[r].date = run[r].date /\ run'[r].todo = run[r].todo
        /\ \/ run[r].step \in Counted /\ run'[r].row.total = run[r].row.total
           \/ run'[r].row.total = Count(Current(r), run[r].date, Kinds)
    BY <1>3, CountedNext
  <2>2. Current(r)' = Current(r)
    BY <2>1 DEF Current
  <2>3. PICK b \in Bots, d \in Days : b = Current(r) /\ d = run[r].date
    BY <2>1
  <2>4. b \in alive' /\ b \in alive
    BY <1>0, <1>3, <2>2, <2>3
  <2>5. run'[r].row.total \in Counts /\ run'[r].row.total <= Stored(ConvsOf(b), {d}, Kinds)
    <3>1. CASE run[r].step \in Counted /\ run'[r].row.total = run[r].row.total
      BY <2>1, <2>3, <2>4, <3>1 DEF CountsInv, Run, Row
    <3>2. CASE run'[r].row.total = Count(b, d, Kinds)
      <4>1. Found(Live(b), {d}, Kinds) \subseteq Found(ConvsOf(b), {d}, Kinds)
        BY DEF Found, Live
      <4>2. Found(ConvsOf(b), {d}, Kinds) \in SUBSET Messages
        BY DEF Found
      <4> QED
        BY <3>2, <4>1, <4>2, Sizes DEF Count, Stored
    <3> QED
      BY <2>1, <2>3, <3>1, <3>2
  <2>6. run'[r].row.total <= Stored(ConvsOf(b), {d}, Kinds)'
    BY <1>1, <2>4, <2>5
  <2> QED
    BY <2>1, <2>2, <2>3, <2>6 DEF Stored, Found, ConvsOf
<1> QED
  BY <1>2, <1>3 DEF CountsInv

-----------------------------------------------------------------------------
(* The knowledge hits of a row. *)

\* A part k of r, scaled to t, is at most t.
LEMMA Scaled ==
  ASSUME NEW t \in Nat, NEW k \in Nat, NEW r \in Nat, r # 0, k <= r
  PROVE  (t * k) \div r \in 0 .. t
<1> DEFINE x == t * k
           y == x \div r
<1>1. x \in Nat /\ x <= t * r
  <2>1. t * (r - k) >= 0
    <3>1. r - k \in Nat
      OBVIOUS
    <3> QED
      BY <3>1
  <2>2. t * (r - k) = t * r - t * k
    OBVIOUS
  <2>3. t * k \in Nat /\ t * r \in Nat
    OBVIOUS
  <2> QED
    BY <2>1, <2>2, <2>3
<1> HIDE DEF x
<1>2. y \in Nat /\ x >= r * y
  BY <1>1
<1>3. y <= t
  <2>1. SUFFICES ASSUME y > t PROVE FALSE
    BY <1>2
  <2> HIDE DEF y
  <2>2. PICK z \in Nat : y = t + 1 + z
    <3>1. y - t - 1 \in Nat /\ y = t + 1 + (y - t - 1)
      BY <1>2, <2>1
    <3> QED
      BY <3>1
  <2>3. r * y = r * t + r + r * z
    BY <2>2
  <2>4. r * z \in Nat /\ r * t = t * r /\ r * t \in Nat
    OBVIOUS
  <2> QED
    BY <1>1, <1>2, <2>3, <2>4
<1> QED
  BY <1>2, <1>3 DEF x

\* Every step keeps the knowledge messages of a steady row within its replies.
LEMMA HitsNext ==
  ASSUME Types, HitsInv, [Next]_vars
  PROVE  HitsInv'
<1>0. alive' \subseteq alive /\ run \in [Runs -> Run \cup {NULL}]
  BY OnlyForward DEF Types, TypeOK
<1>1. ASSUME NEW b \in Bots, NEW d \in Days, daily'[b][d] # NULL, daily'[b][d].steady
      PROVE  daily'[b][d].know <= daily'[b][d].replies
  <2>1. CASE daily'[b][d] = daily[b][d] /\ b \in alive'
    BY <1>1, <2>1 DEF HitsInv
  <2>2. ASSUME NEW r \in Runs, run[r] # NULL, run[r].step = "store", Current(r) = b,
               b \in alive', daily'[b][d] = run[r].row
        PROVE  daily'[b][d].know <= daily'[b][d].replies
    BY <1>0, <1>1, <2>2 DEF HitsInv
  <2> QED
    BY <1>1, <2>1, <2>2, RowNext
<1>2. ASSUME NEW r \in Runs, run'[r] # NULL, run'[r].row.steady, Current(r)' \in alive'
      PROVE  /\ run'[r].step = "second" =>
                   run'[r].row.know <= Count(Current(r), run[r].date, Replies)'
             /\ run'[r].step = "store" => run'[r].row.know <= run'[r].row.replies
  <2>1. CASE run'[r] = run[r]
    <3>1. Current(r)' = Current(r)
      BY <2>1 DEF Current
    <3>2. Current(r) \in Bots /\ run[r] \in Run /\ run[r].row \in Row
      BY <1>2, <2>1, AtBot DEF Run
    <3>3. PICK b \in Bots, d \in Days : b = Current(r) /\ d = run[r].date
      BY <3>2 DEF Run
    <3>4. b \in alive' /\ b \in alive
      BY <1>0, <1>2, <3>1, <3>3
    <3>5. \A c \in ConvsOf(b) : preview'[c] = preview[c]
      <4>1. SUFFICES ASSUME NEW c \in ConvsOf(b), preview'[c] # preview[c] PROVE FALSE
        OBVIOUS
      <4>2. FlipPreview(c) /\ BotOf[c] = b
        BY <4>1, PreviewNext DEF ConvsOf
      <4>3. run'[r] = [run[r] EXCEPT !.row = [run[r].row EXCEPT !.steady = FALSE]]
        BY <1>2, <2>1, <3>3, <4>2 DEF FlipPreview
      <4> QED
        BY <1>2, <3>2, <4>3 DEF Run, Row
    <3>6. Count(b, d, Replies) <= Count(b, d, Replies)'
      BY <3>4, <3>5, LiveKept
    <3>7. run[r].step = "second" => run[r].row.know <= Count(b, d, Replies)
      BY <1>2, <2>1, <3>3, <3>4 DEF HitsInv
    <3>8. run[r].row.know \in Nat /\ Count(b, d, Replies) \in Nat /\ Count(b, d, Replies)' \in Nat
      <4>1. Found(Live(b), {d}, Replies)' \in SUBSET Messages
        BY DEF Found
      <4> QED
        BY <3>2, <4>1, Sizes, CountType, CountsNat DEF Row, Count, Stored
    <3>9. run'[r].step = "second" => run'[r].row.know <= Count(b, d, Replies)'
      BY <2>1, <3>6, <3>7, <3>8
    <3>10. run'[r].step = "store" => run'[r].row.know <= run'[r].row.replies
      BY <1>2, <2>1, <3>3, <3>4 DEF HitsInv
    <3>11. Count(Current(r), run[r].date, Replies)' = Count(b, d, Replies)'
      BY <2>1, <3>1, <3>3 DEF Count, Stored, Found, Live, ConvsOf
    <3> QED
      BY <3>9, <3>10, <3>11
  <2>2. CASE CountTotal(r)
    <3>1. PICK q \in Run : /\ run' = [run EXCEPT ![r] = q]
                           /\ q.step \in {"first", "store"}
                           /\ q.step = "store" => q.row.know = 0 /\ q.row.replies = 0
      BY <2>2, TotalStep
    <3>2. run'[r] = q
      BY <1>0, <3>1
    <3> QED
      BY <3>1, <3>2
  <2>3. ASSUME NEW n \in {1, 2}, CountAnswers(r, n)
        PROVE  /\ run'[r].step = "second" =>
                     run'[r].row.know <= Count(Current(r), run[r].date, Replies)'
               /\ run'[r].step = "store" => run'[r].row.know <= run'[r].row.replies
    <3>1. PICK q \in Run :
              /\ run' = [run EXCEPT ![r] = q]
              /\ q.date = run[r].date /\ q.todo = run[r].todo
              /\ run[r] # NULL /\ run[r].step = IF n = 1 THEN "first" ELSE "second"
              /\ q.step = IF n = 1 THEN "second" ELSE "store"
              /\ q.row.steady = run[r].row.steady
              /\ q.row.know = IF n = 1 THEN Count(Current(r), run[r].date, {"knowledge"})
                              ELSE run[r].row.know
              /\ n = 2 => q.row.replies = Count(Current(r), run[r].date, Replies)
      BY <2>3, AnswersStep
    <3>2. run'[r] = q
      BY <1>0, <3>1
    <3>3. Current(r)' = Current(r)
      BY <3>1, <3>2 DEF Current
    <3>4. Count(Current(r), run[r].date, Replies)' = Count(Current(r), run[r].date, Replies)
      BY <2>3, <3>1, <3>2, <3>3 DEF CountAnswers, Count, Stored, Found, Live, ConvsOf
    <3>5. CASE n = 1
      <4> DEFINE A == Found(Live(Current(r)), {run[r].date}, {"knowledge"})
                 B == Found(Live(Current(r)), {run[r].date}, Replies)
      <4>1. A \subseteq B /\ B \in SUBSET Messages
        BY DEF Found, Replies, Kinds
      <4>2. Cardinality(A) <= Cardinality(B)
        BY <4>1, Sizes
      <4> QED
        BY <3>1, <3>2, <3>4, <3>5, <4>2 DEF Count, Stored
    <3>6. CASE n = 2
      <4>1. Current(r) \in alive
        BY <1>0, <1>2, <3>3
      <4>2. run[r].row.know <= Count(Current(r), run[r].date, Replies)
        BY <1>2, <3>1, <3>2, <3>6, <4>1 DEF HitsInv
      <4> QED
        BY <3>1, <3>2, <3>6, <4>2
    <3> QED
      BY <3>5, <3>6
  <2> QED
    BY <1>2, <2>1, <2>2, <2>3, RunNext
<1> QED
  BY <1>1, <1>2 DEF HitsInv

(***************************************************************************)
(* The knowledge hits the graph shows for a stored day are neither         *)
(* negative nor more than its messages, as long as no conversation of the  *)
(* chatbot changed sides while the row was counted.                        *)
(***************************************************************************)
THEOREM AnalyticsHits == Spec => []HitsWithinMessages
<1>1. Init => HitsInv
  BY DEF Init, HitsInv
<1>2. Types /\ HitsInv /\ [Next]_vars => HitsInv'
  BY HitsNext
<1>3. Types /\ HitsInv => HitsWithinMessages
  <2> SUFFICES ASSUME Types, HitsInv, NEW b \in Bots, NEW d \in Days,
                      daily[b][d] # NULL, daily[b][d].steady
               PROVE  KnowledgeHits(daily[b][d]) \subseteq 0 .. daily[b][d].total
    BY DEF HitsWithinMessages
  <2>1. PICK t \in Nat, k \in Nat, r \in Nat :
            t = daily[b][d].total /\ k = daily[b][d].know /\ r = daily[b][d].replies
    BY CountsNat DEF Types, TypeOK, Row
  <2>2. k <= r
    BY <2>1 DEF HitsInv
  <2>3. CASE r = 0
    BY <2>1, <2>3 DEF KnowledgeHits
  <2>4. CASE r # 0
    <3> DEFINE exact == (t * k) \div r
    <3>1. exact \in 0 .. t
      BY <2>2, <2>4, Scaled
    <3>2. KnowledgeHits(daily[b][d]) \subseteq {exact} \cup (IF exact > 0 THEN {exact - 1} ELSE {})
      BY <2>1, <2>4 DEF KnowledgeHits
    <3> HIDE DEF exact
    <3> QED
      BY <2>1, <3>1, <3>2
  <2> QED
    BY <2>3, <2>4
<1> QED
  BY <1>1, <1>2, <1>3, TypesAlways, PTL DEF Spec

-----------------------------------------------------------------------------
(* The sum of some days and the messages of these days. *)

(***************************************************************************)
(* Let the elements of M be spread over the days ds.  The pairs of a day   *)
(* and a number up to t[d] are no more than the elements of M when no t[d] *)
(* exceeds the elements of its day, and no fewer when no day has more      *)
(* elements than t[d].                                                     *)
(***************************************************************************)
Pairs(ds, n, t) == {x \in ds \X (1 .. n) : x[2] <= t[x[1]]}

OfDay(M, date, d) == {m \in M : date[m] = d}

\* Number the elements of every day: the pairs are mapped into M.
LEMMA PairsUpper ==
  ASSUME NEW M, IsFiniteSet(M), NEW ds, NEW date \in [M -> ds], NEW n \in Nat,
         NEW t \in [ds -> Nat],
         \A d \in ds : t[d] <= Cardinality(OfDay(M, date, d))
  PROVE  Cardinality(Pairs(ds, n, t)) <= Cardinality(M)
<1> DEFINE A(d) == OfDay(M, date, d)
           G(d) == Bijection(1 .. Cardinality(A(d)), A(d))
           g == [d \in ds |-> CHOOSE f \in G(d) : TRUE]
           P == Pairs(ds, n, t)
           F == [x \in P |-> g[x[1]][x[2]]]
<1>1. ASSUME NEW d \in ds
      PROVE  /\ Cardinality(A(d)) \in Nat /\ g[d] \in G(d)
             /\ \A k, l \in 1 .. Cardinality(A(d)) : g[d][k] = g[d][l] => k = l
  <2>1. IsFiniteSet(A(d))
    <3>1. A(d) \in SUBSET M
      BY DEF OfDay
    <3> QED
      BY <3>1, FS_Subset
  <2>2. Cardinality(A(d)) \in Nat /\ ExistsBijection(1 .. Cardinality(A(d)), A(d))
    BY <2>1, FS_CardinalityType
  <2>3. G(d) # {}
    BY <2>2 DEF ExistsBijection
  <2>4. g[d] \in G(d)
    <3> HIDE DEF G
    <3> QED
      BY <2>3
  <2> HIDE DEF g, A
  <2>5. \A k, l \in 1 .. Cardinality(A(d)) : g[d][k] = g[d][l] => k = l
    <3>1. PICK D, R, h : D = 1 .. Cardinality(A(d)) /\ R = A(d) /\ h = g[d]
      OBVIOUS
    <3>2. h \in Bijection(D, R)
      BY <2>4, <3>1
    <3>3. \A k, l \in D : h[k] = h[l] => k = l
      BY <3>2, Fun_BijectionProperties
    <3> QED
      BY <3>1, <3>3
  <2> QED
    BY <2>2, <2>4, <2>5
<1> HIDE DEF g
<1>2. ASSUME NEW x \in P
      PROVE  /\ x[1] \in ds /\ x[2] \in 1 .. Cardinality(A(x[1]))
             /\ F[x] = g[x[1]][x[2]] /\ F[x] \in A(x[1])
  <2>1. x[1] \in ds /\ x[2] \in 1 .. n /\ x[2] <= t[x[1]] /\ t[x[1]] \in Nat
    BY DEF Pairs
  <2>2. t[x[1]] <= Cardinality(A(x[1]))
    BY <2>1
  <2>3. Cardinality(A(x[1])) \in Nat /\ g[x[1]] \in G(x[1])
    BY <1>1, <2>1
  <2> HIDE DEF A
  <2>4. x[2] \in 1 .. Cardinality(A(x[1]))
    BY <2>1, <2>2, <2>3
  <2>5. g[x[1]] \in [1 .. Cardinality(A(x[1])) -> A(x[1])]
    BY <2>3, Fun_BijectionProperties
  <2> QED
    BY <2>1, <2>4, <2>5
<1>3. F \in [P -> M]
  BY <1>2 DEF OfDay
<1>4. ASSUME NEW x \in P, NEW y \in P, F[x] = F[y]
      PROVE  x = y
  <2>1. x[1] = y[1]
    <3>1. F[x] \in A(x[1]) /\ F[x] \in A(y[1])
      BY <1>2, <1>4
    <3> HIDE DEF F
    <3> QED
      BY <3>1 DEF OfDay
  <2>2. x[2] = y[2]
    <3> HIDE DEF A, F
    <3>1. x[2] \in 1 .. Cardinality(A(x[1])) /\ y[2] \in 1 .. Cardinality(A(x[1]))
      BY <1>2, <2>1
    <3>2. g[x[1]][x[2]] = g[x[1]][y[2]]
      BY <1>2, <1>4, <2>1
    <3>3. \A k, l \in 1 .. Cardinality(A(x[1])) : g[x[1]][k] = g[x[1]][l] => k = l
      BY <1>1, <1>2
    <3> QED
      BY <3>1, <3>2, <3>3
  <2>3. x = <<x[1], x[2]>> /\ y = <<y[1], y[2]>>
    BY DEF Pairs
  <2> QED
    BY <2>1, <2>2, <2>3
<1> HIDE DEF F, P
<1>5. F \in Injection(P, M)
  BY <1>3, <1>4, Fun_IsInj
<1> QED
  BY <1>5, FS_Injection DEF P

\* The other way round: an element is mapped to its day and its number.
LEMMA PairsLower ==
  ASSUME NEW M, IsFiniteSet(M), NEW ds, IsFiniteSet(ds), NEW date \in [M -> ds], NEW n \in Nat,
         NEW t \in [ds -> 0 .. n],
         \A d \in ds : Cardinality(OfDay(M, date, d)) <= t[d]
  PROVE  Cardinality(M) <= Cardinality(Pairs(ds, n, t))
<1> DEFINE A(d) == OfDay(M, date, d)
           G(d) == Bijection(A(d), 1 .. Cardinality(A(d)))
           g == [d \in ds |-> CHOOSE f \in G(d) : TRUE]
           P == Pairs(ds, n, t)
           F == [m \in M |-> <<date[m], g[date[m]][m]>>]
<1>1. ASSUME NEW d \in ds
      PROVE  Cardinality(A(d)) \in Nat /\ g[d] \in G(d)
  <2>1. IsFiniteSet(A(d))
    <3>1. A(d) \in SUBSET M
      BY DEF OfDay
    <3> QED
      BY <3>1, FS_Subset
  <2>2. Cardinality(A(d)) \in Nat /\ ExistsBijection(1 .. Cardinality(A(d)), A(d))
    BY <2>1, FS_CardinalityType
  <2>3. ExistsBijection(A(d), 1 .. Cardinality(A(d)))
    BY <2>2, Fun_ExistsBijSymmetric
  <2>4. G(d) # {}
    BY <2>3 DEF ExistsBijection
  <2> HIDE DEF G
  <2> QED
    BY <2>2, <2>4
<1> HIDE DEF g
<1>2. ASSUME NEW m \in M
      PROVE  /\ date[m] \in ds /\ m \in A(date[m])
             /\ g[date[m]] \in Injection(A(date[m]), 1 .. Cardinality(A(date[m])))
             /\ F[m] \in P
  <2>1. date[m] \in ds /\ m \in A(date[m])
    BY DEF OfDay
  <2>2. /\ Cardinality(A(date[m])) \in Nat
        /\ g[date[m]] \in Injection(A(date[m]), 1 .. Cardinality(A(date[m])))
    BY <1>1, <2>1, Fun_BijectionProperties
  <2>3. Cardinality(A(date[m])) <= t[date[m]] /\ t[date[m]] \in 0 .. n
    BY <2>1
  <2> HIDE DEF A
  <2>4. g[date[m]][m] \in 1 .. Cardinality(A(date[m]))
    BY <2>1, <2>2, Fun_InjectionProperties
  <2>5. g[date[m]][m] \in 1 .. n /\ g[date[m]][m] <= t[date[m]]
    BY <2>2, <2>3, <2>4
  <2> QED
    BY <2>1, <2>2, <2>5 DEF Pairs
<1>3. F \in [M -> P]
  BY <1>2
<1>4. ASSUME NEW x \in M, NEW y \in M, F[x] = F[y]
      PROVE  x = y
  <2>1. date[x] = date[y] /\ g[date[x]][x] = g[date[x]][y]
    BY <1>4
  <2>2. x \in A(date[x]) /\ y \in A(date[x])
        /\ g[date[x]] \in Injection(A(date[x]), 1 .. Cardinality(A(date[x])))
    BY <1>2, <2>1
  <2> HIDE DEF A
  <2> QED
    BY <2>1, <2>2, Fun_InjectionProperties
<1>5. IsFiniteSet(P)
  <2>1. IsFiniteSet(ds \X (1 .. n))
    <3>1. IsFiniteSet(1 .. n)
      BY FS_Interval
    <3> QED
      BY <3>1, FS_Product
  <2> QED
    BY <2>1, FS_Subset DEF Pairs
<1> HIDE DEF F, P
<1>6. F \in Injection(M, P)
  BY <1>3, <1>4, Fun_IsInj
<1> QED
  BY <1>5, <1>6, FS_Injection DEF P

\* The stored totals of some days are no more than their messages.
LEMMA SumUpper ==
  ASSUME Types, CountsInv, NEW b \in Bots, NEW ds \in SUBSET Days,
         \A d \in ds : daily[b][d] # NULL
  PROVE  SumOfTotals(b, ds) <= Stored(ConvsOf(b), ds, Kinds)
<1> DEFINE M == Found(ConvsOf(b), ds, Kinds)
           date == [m \in M |-> msgs[m].date]
           t == [d \in ds |-> daily[b][d].total]
           n == Cardinality(Messages)
<1>1. IsFiniteSet(M) /\ n \in Nat
  BY Sizes, AnalyticsConstants, FS_CardinalityType DEF Found
<1>2. date \in [M -> ds]
  BY DEF Found
<1>3. t \in [ds -> Nat]
  <2>1. \A d \in ds : daily[b][d].total \in Nat
    <3>1. \A d \in ds : daily[b][d] \in Row
      BY DEF Types, TypeOK
    <3> QED
      BY <3>1, CountsNat DEF Row
  <2> QED
    BY <2>1
<1>4. ASSUME NEW d \in ds
      PROVE  t[d] <= Cardinality(OfDay(M, date, d))
  <2>1. OfDay(M, date, d) = Found(ConvsOf(b), {d}, Kinds)
    BY DEF OfDay, Found
  <2> QED
    BY <2>1 DEF CountsInv, Stored
<1>5. Pairs(ds, n, t) = {x \in ds \X (1 .. n) : x[2] <= daily[b][x[1]].total}
  BY DEF Pairs
<1> HIDE DEF M, date, t, n
<1>6. Cardinality(Pairs(ds, n, t)) <= Cardinality(M)
  BY <1>1, <1>2, <1>3, <1>4, PairsUpper
<1> QED
  BY <1>5, <1>6 DEF SumOfTotals, Stored, M, n

\* They are no fewer than the live messages of the settled ones among them.
LEMMA SumLower ==
  ASSUME Types, SettledInv, NEW b \in Bots, NEW ds \in SUBSET Days,
         \A d \in ds : daily[b][d] # NULL, NEW S \in SUBSET ds, \A d \in S : Settled(b, d)
  PROVE  Stored(Live(b), S, Kinds) <= SumOfTotals(b, ds)
<1> DEFINE M == Found(Live(b), S, Kinds)
           date == [m \in M |-> msgs[m].date]
           t == [d \in ds |-> daily[b][d].total]
           n == Cardinality(Messages)
<1>1. IsFiniteSet(M) /\ n \in Nat
  BY Sizes, AnalyticsConstants, FS_CardinalityType DEF Found
<1>2. date \in [M -> ds]
  BY DEF Found
<1>3. t \in [ds -> 0 .. n]
  BY DEF Types, TypeOK, Row, Counts
<1>4. ASSUME NEW d \in ds
      PROVE  Cardinality(OfDay(M, date, d)) <= t[d]
  <2>1. CASE d \in S
    <3>1. OfDay(M, date, d) = Found(Live(b), {d}, Kinds)
      BY <2>1 DEF OfDay, Found
    <3>2. daily[b][d].total = Count(b, d, Kinds)
      BY <2>1 DEF SettledInv, Settled, Exact
    <3>3. t[d] = Cardinality(Found(Live(b), {d}, Kinds)) /\ t[d] \in Nat
      BY <1>1, <1>3, <3>2 DEF Count, Stored
    <3> QED
      BY <3>1, <3>3
  <2>2. CASE d \notin S
    <3>1. OfDay(M, date, d) = {}
      BY <2>2 DEF OfDay, Found
    <3>2. t[d] >= 0
      <4> HIDE DEF t, n
      <4> QED
        BY <1>1, <1>3
    <3>3. Cardinality(OfDay(M, date, d)) = 0
      BY <3>1, FS_EmptySet
    <3> HIDE DEF t, M, date
    <3> QED
      BY <3>2, <3>3
  <2> QED
    BY <2>1, <2>2
<1>5. Pairs(ds, n, t) = {x \in ds \X (1 .. n) : x[2] <= daily[b][x[1]].total}
  BY DEF Pairs
<1>6. IsFiniteSet(ds)
  <2>1. IsFiniteSet(Days)
    BY FS_Interval, AnalyticsConstants DEF Days
  <2> QED
    BY <2>1, FS_Subset
<1> HIDE DEF M, date, t, n
<1>7. Cardinality(M) <= Cardinality(Pairs(ds, n, t))
  BY <1>1, <1>2, <1>3, <1>4, <1>6, PairsLower
<1> QED
  BY <1>5, <1>7 DEF SumOfTotals, Stored, M, n

\* The messages of different days are different messages.
LEMMA DaysApart ==
  ASSUME NEW cs, NEW ds, NEW today, today \notin ds
  PROVE  Stored(cs, ds \cup {today}, Kinds) = Stored(cs, ds, Kinds) + Stored(cs, {today}, Kinds)
<1> DEFINE A == Found(cs, ds, Kinds)
           B == Found(cs, {today}, Kinds)
<1>1. IsFiniteSet(A) /\ IsFiniteSet(B) /\ Cardinality(A) \in Nat /\ Cardinality(B) \in Nat
  BY Sizes, CountsNat DEF Found
<1>2. A \cup B = Found(cs, ds \cup {today}, Kinds) /\ A \cap B = {}
  BY DEF Found
<1>3. Cardinality(A \cup B) = Cardinality(A) + Cardinality(B)
  <2> HIDE DEF A, B
  <2>1. Cardinality(A \cup B) = Cardinality(A) + Cardinality(B) - Cardinality(A \cap B)
    BY <1>1, FS_Union
  <2>2. Cardinality(A \cap B) = 0
    BY <1>2, FS_EmptySet
  <2> QED
    BY <1>1, <2>1, <2>2
<1> QED
  BY <1>2, <1>3 DEF Stored

\* The days before today in the window, and today.
LEMMA WindowDays ==
  ASSUME NEW today \in Days
  PROVE  InWindow(today) = History(today) \cup {today} /\ today \notin History(today)
BY AnalyticsConstants DEF InWindow, History, Days

-----------------------------------------------------------------------------
(* The overview. *)

\* The messages of a chatbot and some days do not become fewer.
LEMMA MoreStored ==
  ASSUME Types, [Next]_vars, NEW b \in Bots, b \in alive', NEW ds, NEW n \in Nat,
         n <= Stored(ConvsOf(b), ds, Kinds)
  PROVE  n <= Stored(ConvsOf(b), ds, Kinds)'
<1>1. Stored(ConvsOf(b), ds, Kinds) <= Stored(ConvsOf(b), ds, Kinds)'
  BY FoundKept
<1>2. Stored(ConvsOf(b), ds, Kinds) \in Nat
  BY CountType, CountsNat
<1>3. Stored(ConvsOf(b), ds, Kinds)' \in Nat
  <2>1. Found(ConvsOf(b), ds, Kinds)' \in SUBSET Messages
    BY DEF Found
  <2> QED
    BY <2>1, Sizes, CountsNat DEF Stored
<1> QED
  BY <1>1, <1>2, <1>3

\* The overview as the stored days begin it.
LEMMA HistoryRead ==
  ASSUME Types, CountsInv, SettledInv, NEW b \in Bots, NEW i \in BOOLEAN, ReadHistory(b, i)
  PROVE  /\ view' \in View /\ view'.least <= view'.total /\ view'.bot = b
         /\ view'.total <= Stored(ConvsOf(b), History(view'.today), Kinds)
<1> DEFINE kept == {d \in History(day) : daily[b][d] # NULL}
           sure == {d \in 1 .. day - 1 : day < d + Window /\ Settled(b, d)}
           total == SumOfTotals(b, kept)
           least == Stored(Live(b), sure, Kinds)
<1>1. day \in Days /\ day \in Nat /\ MaxDays \in Nat
  BY AnalyticsConstants DEF Types, TypeOK, Days
<1>2. kept \in SUBSET Days /\ kept \subseteq History(day)
  BY DEF History
<1>3. sure \in SUBSET kept
  BY <1>1 DEF History, Settled, Days
<1>4. total \in Nat /\ least \in Nat
  BY <1>2, SumType, CountType, CountsNat
<1>5. view' = [bot |-> b, preview |-> i, today |-> day, total |-> total, least |-> least]
  BY DEF ReadHistory
<1>6. total <= Stored(ConvsOf(b), kept, Kinds)
  BY <1>2, SumUpper
<1>7. least <= total
  BY <1>2, <1>3, SumLower
<1>8. Stored(ConvsOf(b), kept, Kinds) <= Stored(ConvsOf(b), History(day), Kinds)
  <2>1. Found(ConvsOf(b), kept, Kinds) \subseteq Found(ConvsOf(b), History(day), Kinds)
    BY <1>2 DEF Found
  <2>2. Found(ConvsOf(b), History(day), Kinds) \in SUBSET Messages
    BY DEF Found
  <2> QED
    BY <2>1, <2>2, Sizes DEF Stored
<1>9. Stored(ConvsOf(b), kept, Kinds) \in Nat /\ Stored(ConvsOf(b), History(day), Kinds) \in Nat
  BY CountType, CountsNat
<1> HIDE DEF kept, sure, total, least
<1>10. total <= Stored(ConvsOf(b), History(day), Kinds)
  BY <1>4, <1>6, <1>8, <1>9
<1> QED
  BY <1>1, <1>4, <1>5, <1>7, <1>10 DEF View

\* The overview as the messages of today complete it.
LEMMA TodayRead ==
  ASSUME Types, OverviewInv, ReadToday, view.bot \in alive
  PROVE  LET o == cache'[view.bot][view.preview] IN
         /\ o.least <= o.total /\ o.total \in Nat /\ o.today = view.today
         /\ o.total <= Stored(ConvsOf(view.bot), InWindow(view.today), Kinds)
<1>1. view \in View /\ view # NULL
  BY DEF ReadToday, Types, TypeOK
<1>2. PICK b \in Bots, i \in BOOLEAN, today \in Days, t \in Nat, l \in Nat :
          b = view.bot /\ i = view.preview /\ today = view.today /\ t = view.total /\ l = view.least
  BY <1>1 DEF View
<1> DEFINE cs == IF i THEN ConvsOf(b) ELSE Live(b)
           now == Stored(cs, {today}, Kinds)
           all == Stored(ConvsOf(b), {today}, Kinds)
           past == Stored(ConvsOf(b), History(today), Kinds)
           o == [today |-> today, total |-> t + now, least |-> l + now]
<1>3. cache'[b][i] = o
  <2>1. cache' = [cache EXCEPT ![b][i] = o]
    BY <1>2 DEF ReadToday
  <2> HIDE DEF o
  <2> QED
    BY <2>1 DEF Types, TypeOK
<1>4. now \in Nat /\ all \in Nat /\ past \in Nat
  BY CountType, CountsNat
<1>5. now <= all
  <2>1. Found(cs, {today}, Kinds) \subseteq Found(ConvsOf(b), {today}, Kinds)
    BY DEF Found, Live
  <2>2. Found(ConvsOf(b), {today}, Kinds) \in SUBSET Messages
    BY DEF Found
  <2> QED
    BY <2>1, <2>2, Sizes DEF Stored
<1>6. l <= t /\ t <= past
  BY <1>1, <1>2 DEF OverviewInv
<1>7. Stored(ConvsOf(b), InWindow(today), Kinds) = past + all
  BY DaysApart, WindowDays
<1> HIDE DEF now, all, past, cs
<1>8. o.today = today /\ o.total = t + now /\ o.least = l + now
  OBVIOUS
<1> HIDE DEF o
<1>9. o.least <= o.total /\ o.total \in Nat /\ o.total <= past + all
  BY <1>4, <1>5, <1>6, <1>8
<1> QED
  BY <1>2, <1>3, <1>7, <1>8, <1>9

\* Every step keeps the overviews within their bounds.
LEMMA OverviewNext ==
  ASSUME Types, Types', CountsInv, SettledInv, OverviewInv, [Next]_vars
  PROVE  OverviewInv'
<1>0. alive' \subseteq alive /\ alive \subseteq Bots
  BY OnlyForward DEF Types, TypeOK
<1>1. ASSUME view' # NULL
      PROVE  /\ view'.least <= view'.total
             /\ view'.bot \in alive' =>
                   view'.total <= Stored(ConvsOf(view.bot), History(view.today), Kinds)'
  <2>1. CASE view' = view
    <3>1. view \in View
      BY <1>1, <2>1 DEF Types, TypeOK
    <3>2. PICK b \in Bots, today \in Days, t \in Nat :
              b = view.bot /\ today = view.today /\ t = view.total
      BY <3>1 DEF View
    <3>3. ASSUME b \in alive'
          PROVE  t <= Stored(ConvsOf(b), History(today), Kinds)'
      <4>1. t <= Stored(ConvsOf(b), History(today), Kinds)
        BY <1>0, <1>1, <2>1, <3>2, <3>3 DEF OverviewInv
      <4> QED
        BY <3>3, <4>1, MoreStored
    <3>4. view.least <= view.total
      BY <1>1, <2>1 DEF OverviewInv
    <3> QED
      BY <2>1, <3>2, <3>3, <3>4 DEF Stored, Found, ConvsOf, History
  <2>2. CASE view' # view
    <3>1. PICK b \in Bots, i \in BOOLEAN : ReadHistory(b, i)
      BY <1>1, <2>2 DEF Next, vars, Midnight, StampMessage, InsertMessage, FlipPreview, DeleteBot,
         StartRun, CountTotal, CountAnswers, StoreRow, RunFails, ReadToday, ExpireOverview
    <3>2. /\ view' \in View /\ view'.least <= view'.total /\ view'.bot = b
          /\ view'.total <= Stored(ConvsOf(b), History(view'.today), Kinds)
      BY <3>1, HistoryRead
    <3>3. PICK today \in Days, t \in Nat : today = view'.today /\ t = view'.total
      BY <3>2 DEF View
    <3>4. b \in alive' => t <= Stored(ConvsOf(b), History(today), Kinds)'
      BY <3>2, <3>3, MoreStored
    <3> QED
      BY <3>2, <3>3, <3>4 DEF Stored, Found, ConvsOf, History
  <2> QED
    BY <2>1, <2>2
<1>2. ASSUME NEW b \in alive', NEW i \in BOOLEAN, cache'[b][i] # NULL
      PROVE  /\ cache'[b][i].least <= cache'[b][i].total
             /\ cache'[b][i].total <= Stored(ConvsOf(b), InWindow(cache[b][i].today), Kinds)'
  <2>0. b \in Bots /\ b \in alive /\ cache'[b][i] \in Cached
    BY <1>0, <1>2 DEF Types, TypeOK
  <2>1. PICK today \in Days, t \in Nat : today = cache'[b][i].today /\ t = cache'[b][i].total
    BY <2>0 DEF Cached
  <2>2. cache'[b][i].least <= cache'[b][i].total /\ t <= Stored(ConvsOf(b), InWindow(today), Kinds)
    <3>1. CASE cache'[b][i] = cache[b][i]
      BY <1>2, <2>0, <2>1, <3>1 DEF OverviewInv
    <3>2. CASE cache'[b][i] # cache[b][i]
      <4>1. ReadToday
        <5>1. ReadToday \/ \E c \in Bots, j \in BOOLEAN : ExpireOverview(c, j)
          BY <3>2 DEF Next, vars, Midnight, StampMessage, InsertMessage, FlipPreview, DeleteBot,
             StartRun, CountTotal, CountAnswers, StoreRow, RunFails, ReadHistory
        <5>2. ASSUME NEW c \in Bots, NEW j \in BOOLEAN, ExpireOverview(c, j)
              PROVE  FALSE
          BY <1>2, <2>0, <3>2, <5>2 DEF ExpireOverview, Types, TypeOK
        <5> QED
          BY <5>1, <5>2
      <4>2. b = view.bot /\ i = view.preview
        BY <2>0, <3>2, <4>1 DEF ReadToday, Types, TypeOK
      <4> QED
        BY <2>0, <2>1, <4>1, <4>2, TodayRead
    <3> QED
      BY <3>1, <3>2
  <2>3. t <= Stored(ConvsOf(b), InWindow(today), Kinds)'
    BY <1>2, <2>0, <2>2, MoreStored
  <2> QED
    BY <2>1, <2>2, <2>3 DEF Stored, Found, ConvsOf, InWindow
<1> QED
  BY <1>1, <1>2 DEF OverviewInv

(***************************************************************************)
(* An overview counts no message of its window twice, and every live       *)
(* message of a settled day, whatever happens between its two reads and    *)
(* for as long as it is cached.                                            *)
(***************************************************************************)
THEOREM AnalyticsOverview == Spec => []OverviewCountsOnce
<1>1. Init => CountsInv /\ SettledInv /\ OverviewInv
  BY DEF Init, CountsInv, SettledInv, OverviewInv
<1>2. /\ Types /\ Types' /\ CountsInv /\ SettledInv /\ OverviewInv /\ [Next]_vars
      => CountsInv' /\ SettledInv' /\ OverviewInv'
  BY CountsNext, SettledNext, OverviewNext
<1>3. OverviewInv => OverviewCountsOnce
  BY DEF OverviewInv, OverviewCountsOnce, InWindow
<1> QED
  BY <1>1, <1>2, <1>3, TypesAlways, PTL DEF Spec
=============================================================================
