----------------------------- MODULE ChatProofs -----------------------------
(***************************************************************************)
(* Proofs about ChatService, for every number of chatbots, visitors and    *)
(* requests, every history limit and streams of any length.                *)
(***************************************************************************)
EXTENDS ChatService, FiniteSetTheorems, TLAPS

(***************************************************************************)
(* The steps of a request before it has a conversation, before its         *)
(* question is stored, before its answer is, and after.                    *)
(***************************************************************************)
Early == {"translate", "visitor", "lookup", "insert"}
Found == {"flip", "link", "ask"}
Asked == {"history", "open", "stream", "call", "answer"}
Answered == {"bill", "done"}

Streaming(q) == q.stream /\ q.english

(***************************************************************************)
(* What is true of a request by itself: the object in memory is one of its *)
(* own chatbot and visitor; only live requests are billed; and a streamed  *)
(* answer is what the client was handed.                                   *)
(***************************************************************************)
ReqOK(q) ==
    /\ q.step \in Early => q.conv = NULL
    /\ q.step \in Found =>
          /\ q.conv # NULL /\ q.obj # NULL
          /\ q.obj.bot = q.bot /\ q.obj.visitor = q.visitor
    /\ q.step \in {"link", "ask"} => q.obj.preview = q.preview
    /\ q.step \in Asked \cup Answered \cup {"gone"} => q.conv # NULL
    /\ q.step = "bill" => ~q.preview
    /\ q.step \in Early \cup Found \cup {"history", "open", "stream"} => q.got = q.full
    /\ q.step \in {"open", "stream"} => Streaming(q)
    /\ q.step = "call" => ~Streaming(q)
    /\ q.step = "answer" /\ Streaming(q) => q.got = q.full

Types == TypeOK /\ \A r \in Requests : req[r] # NULL => ReqOK(req[r])

(***************************************************************************)
(* Conversations: each is of a chatbot that exists; its id is that of the  *)
(* request that inserted it; and a request's conversation is one of its    *)
(* own chatbot and visitor, there as long as the chatbot is.               *)
(***************************************************************************)
Inserted(i) == i # Legacy => req[i] # NULL /\ req[i].conv = i

ConvInv ==
    /\ \A i \in ConvIds : convs[i] # NULL => convs[i].bot \in bots /\ Inserted(i)
    /\ \A r \in Requests :
          req[r] # NULL /\ req[r].conv # NULL =>
              LET c == convs[req[r].conv] IN
              /\ Inserted(req[r].conv)
              /\ c # NULL => c.bot = req[r].bot /\ c.visitor = req[r].visitor
              /\ req[r].bot \in bots => c # NULL

\* Messages are of the conversation of their request, and of a chatbot that exists.
MessageInv ==
    \A i \in Rows :
        LET q == req[messages[i].req] IN
        q # NULL /\ q.conv = messages[i].conv /\ q.bot \in bots

\* A request has stored what its step says.
StoreOK(r) ==
    req[r] # NULL =>
        /\ req[r].step \in Early \cup Found => Stored(r, "user") = {}
        /\ req[r].step \notin Answered => Stored(r, "bot") = {}
        /\ req[r].bot \in bots =>
              /\ req[r].step \in Asked \cup Answered => \E i \in Rows : Stored(r, "user") = {i}
              /\ req[r].step \in Answered =>
                    \E k \in Rows : Stored(r, "bot") = {k} /\ messages[k].content = req[r].got

StoreInv == \A r \in Requests : StoreOK(r)

(***************************************************************************)
(* While a visitor is in one mode only, a conversation is marked with the  *)
(* mode of each of its requests that is past the flip.                     *)
(***************************************************************************)
Uniform(v, p) == \A q \in Requests : req[q] # NULL /\ req[q].visitor = v => req[q].preview = p

Marking(r) ==
    \/ req[r].step \in {"link", "ask", "gone"} \cup Asked \cup Answered
    \/ \E i \in Rows : messages[i].req = r

PreviewOK(r) ==
    /\ req[r] # NULL /\ req[r].conv # NULL /\ req[r].bot \in bots
    /\ Marking(r) /\ Uniform(req[r].visitor, req[r].preview)
    => convs[req[r].conv].preview = req[r].preview

PreviewInv ==
    /\ \A r \in tokens : req[r] # NULL /\ ~req[r].preview
    /\ \A r \in Requests : PreviewOK(r)

(***************************************************************************)
(* A visitor who waits has one request under way at most, and one          *)
(* conversation with a chatbot, and no request of his is about to insert   *)
(* another.                                                                *)
(***************************************************************************)
SerialInv ==
    /\ \A q, r \in Requests :
          /\ InProgress(q) /\ InProgress(r) /\ req[q].visitor = req[r].visitor
          /\ req[r].visitor \in Serial
          => q = r
    /\ \A b \in Bots, v \in Serial : \A i, k \in Matching(b, v) : i = k
    /\ \A r \in Requests :
          At(r, "insert") /\ req[r].visitor \in Serial => Matching(req[r].bot, req[r].visitor) = {}

(***************************************************************************)
(* Of a visitor who waits and none of whose requests was abandoned: after  *)
(* a question comes nothing of his while the answer is awaited, and then   *)
(* the answer comes next.                                                  *)
(***************************************************************************)
By(i, v) == messages[i] # NULL /\ req[messages[i].req].visitor = v

Dialogue(i, r, v) ==
    IF req[r].step \in Answered
    THEN \E k \in Rows :
            /\ k > i /\ messages[k].sender = "bot" /\ messages[k].req = r
            /\ \A l \in 1 .. Len(messages) : i < l /\ l < k => ~By(l, v)
    ELSE \A l \in 1 .. Len(messages) : i < l => ~By(l, v)

DialogueInv ==
    \A i \in Rows :
        LET r == messages[i].req
            v == req[r].visitor IN
        messages[i].sender = "user" /\ v \in Serial /\ ~Abandoned(v) => Dialogue(i, r, v)

-----------------------------------------------------------------------------
(* The kinds of step.  w is the request r after the step. *)

Of(w, q) ==
    /\ w \in Request /\ ReqOK(w)
    /\ w.bot = q.bot /\ w.visitor = q.visitor /\ w.preview = q.preview

Moves(r, w) == req[r] # NULL /\ req' = [req EXCEPT ![r] = w] /\ Of(w, req[r])

Alike(s, t) ==
    \/ s \in Early /\ t \in Early \cup {"failed"}
    \/ s \in Found /\ t = "failed"
    \/ s \in Asked /\ t \in Asked \cup {"gone", "failed"}
    \/ s = "bill" /\ t = "done"

\* The request goes on, fails or is left, and no table but the usage changes.
Local(r, w) ==
    /\ Moves(r, w) /\ Alike(req[r].step, w.step) /\ w.conv = req[r].conv
    /\ w.step \in Answered => w.got = req[r].got
    /\ w.step = "insert" => Matching(w.bot, w.visitor) = {}
    /\ tokens' \subseteq tokens \cup {r} /\ (r \in tokens' \ tokens => ~w.preview)
    /\ UNCHANGED <<bots, convs, messages>>

Arrives(r, w) ==
    /\ req[r] = NULL /\ req' = [req EXCEPT ![r] = w] /\ w \in Request /\ ReqOK(w)
    /\ w.step = "translate" /\ w.conv = NULL
    /\ w.visitor \in Serial => \A q \in Requests : InProgress(q) => req[q].visitor # w.visitor
    /\ UNCHANGED <<bots, convs, messages, tokens>>

Finds(r, i, w) ==
    /\ Moves(r, w) /\ req[r].step = "lookup" /\ w.step \in Found
    /\ w.conv = i /\ i \in ConvIds /\ Matching(w.bot, w.visitor) = {i}
    /\ w.step # "flip" => convs[i].preview = w.preview
    /\ UNCHANGED <<bots, convs, messages, tokens>>

\* c is the row as it is written.
Writes(r, w, c) ==
    /\ Moves(r, w) /\ w.bot \in bots
    /\ convs' = [convs EXCEPT ![w.conv] = c] /\ c \in Conv
    /\ c.bot = w.bot /\ c.visitor = w.visitor /\ c.preview = w.preview
    /\ UNCHANGED <<bots, messages, tokens>>

Inserts(r, w, c) == Writes(r, w, c) /\ req[r].step = "insert" /\ w.step = "ask" /\ w.conv = r

Saves(r, w, c) ==
    /\ Writes(r, w, c) /\ req[r].step \in {"flip", "link"} /\ w.step \in {"link", "ask"}
    /\ w.conv = req[r].conv

\* m is the message as it is stored.
Stores(r, w, m) ==
    /\ Moves(r, w) /\ w.conv = req[r].conv /\ w.conv # NULL /\ convs[w.conv] # NULL
    /\ messages' = Append(messages, m) /\ m \in Message /\ m.req = r /\ m.conv = w.conv
    /\ UNCHANGED <<bots, convs, tokens>>

Asks(r, w, m) ==
    Stores(r, w, m) /\ m.sender = "user" /\ req[r].step = "ask" /\ w.step = "history"

Answers(r, w, m) ==
    /\ Stores(r, w, m) /\ m.sender = "bot" /\ m.content = w.got
    /\ req[r].step = "answer" /\ w.step \in Answered

Kinds ==
    \/ \E r \in Requests, w \in Request : Local(r, w) \/ Arrives(r, w)
    \/ \E r \in Requests, w \in Request, i \in ConvIds : Finds(r, i, w)
    \/ \E r \in Requests, w \in Request, c \in Conv : Inserts(r, w, c) \/ Saves(r, w, c)
    \/ \E r \in Requests, w \in Request, m \in Message : Asks(r, w, m) \/ Answers(r, w, m)
    \/ \E b \in Bots : DeleteBot(b)

-----------------------------------------------------------------------------
(* Every step is one of these. *)

\* The fields of a request.
LEMMA RequestFields ==
  ASSUME NEW q \in Request
  PROVE  /\ q.step \in Step \cup Over /\ q.bot \in Bots /\ q.visitor \in Visitors
         /\ q.preview \in BOOLEAN /\ q.stream \in BOOLEAN /\ q.english \in BOOLEAN
         /\ q.conv \in ConvIds \cup {NULL} /\ q.obj \in Conv \cup {NULL}
         /\ q.full \in Seq(Piece) /\ q.got \in Seq(Piece) /\ q.usage \in BOOLEAN
         /\ q # NULL
  BY ChatNull DEF Request

\* The fields of a conversation.
LEMMA ConvFields ==
  ASSUME NEW c \in Conv
  PROVE  /\ c.bot \in Bots /\ c.visitor \in Visitors /\ c.preview \in BOOLEAN
         /\ c.linked \in BOOLEAN /\ c # NULL
  BY ChatNull DEF Conv

\* The fields of a message.
LEMMA MessageFields ==
  ASSUME NEW m \in Message
  PROVE  /\ m.conv \in ConvIds /\ m.sender \in {"user", "bot"} /\ m.req \in Requests
         /\ m.content \in Seq(Piece) /\ m # NULL
  BY ChatNull DEF Message

\* A request under way is one, with what is known of it.
LEMMA Current ==
  ASSUME Types, NEW r \in Requests, NEW s, At(r, s)
  PROVE  req[r] # NULL /\ req[r] \in Request /\ ReqOK(req[r]) /\ req[r].step = s
  BY DEF Types, TypeOK, At

\* A request that only moves on.
LEMMA GoesTo ==
  ASSUME Types, NEW r \in Requests, req[r] # NULL, NEW t \in Step \cup Over, GoTo(r, t)
  PROVE  \E w \in Request :
            /\ req' = [req EXCEPT ![r] = w] /\ w = [req[r] EXCEPT !.step = t]
            /\ w.step = t /\ w.bot = req[r].bot /\ w.visitor = req[r].visitor
            /\ w.preview = req[r].preview /\ w.stream = req[r].stream
            /\ w.english = req[r].english /\ w.conv = req[r].conv /\ w.obj = req[r].obj
            /\ w.full = req[r].full /\ w.got = req[r].got
<1> DEFINE q == req[r]
           w == [req[r] EXCEPT !.step = t]
<1>1. q \in Request
  BY DEF Types, TypeOK
<1>2. w \in Request
  BY <1>1 DEF Request
<1>3. /\ w.step = t /\ w.bot = q.bot /\ w.visitor = q.visitor /\ w.preview = q.preview
      /\ w.stream = q.stream /\ w.english = q.english /\ w.conv = q.conv /\ w.obj = q.obj
      /\ w.full = q.full /\ w.got = q.got
  BY <1>1 DEF Request
<1>4. req' = [req EXCEPT ![r] = w]
  BY DEF GoTo
<1> QED
  BY <1>2, <1>3, <1>4

\* The steps that go on, fail or are left without a word.
LEMMA GoesOn ==
  ASSUME Types, NEW r \in Requests, req[r] # NULL, NEW t \in Step \cup Over, GoTo(r, t),
         Alike(req[r].step, t), UNCHANGED <<bots, convs, messages>>,
         tokens' \subseteq tokens \cup {r}, r \in tokens' \ tokens => ~req[r].preview,
         t = "insert" => Matching(req[r].bot, req[r].visitor) = {},
         t \in {"open", "stream"} => Streaming(req[r]) /\ req[r].got = req[r].full,
         t = "call" => ~Streaming(req[r]), t \notin {"history", "answer"}
  PROVE  \E w \in Request : Local(r, w)
<1>1. PICK w \in Request :
            /\ req' = [req EXCEPT ![r] = w] /\ w = [req[r] EXCEPT !.step = t]
            /\ w.step = t /\ w.bot = req[r].bot /\ w.visitor = req[r].visitor
            /\ w.preview = req[r].preview /\ w.stream = req[r].stream
            /\ w.english = req[r].english /\ w.conv = req[r].conv /\ w.obj = req[r].obj
            /\ w.full = req[r].full /\ w.got = req[r].got
  BY GoesTo
<1>2. ReqOK(req[r])
  BY DEF Types
<1>3. Streaming(w) <=> Streaming(req[r])
  BY <1>1 DEF Streaming
<1>4. /\ w.step \in Early => w.conv = NULL /\ w.got = w.full
      /\ w.step \in Asked \cup Answered \cup {"gone"} => w.conv # NULL
      /\ w.step \notin Found /\ w.step # "bill"
  BY <1>1, <1>2 DEF ReqOK, Alike, Early, Found, Asked, Answered
<1>5. ReqOK(w)
  BY <1>1, <1>3, <1>4 DEF ReqOK, Early, Found, Asked, Answered
<1> QED
  BY <1>1, <1>5 DEF Local, Moves, Of

\* Arrival.
LEMMA ArriveKind ==
  ASSUME Types, NEW r \in Requests, NEW b \in Bots, NEW v \in Visitors, NEW e \in Entries,
         Arrive(r, b, v, e)
  PROVE  \E w \in Request : Arrives(r, w)
<1> DEFINE w == [step |-> "translate", bot |-> b, visitor |-> v,
                 preview |-> e.preview, stream |-> e.stream, english |-> TRUE,
                 conv |-> NULL, obj |-> NULL,
                 full |-> <<>>, got |-> <<>>, usage |-> FALSE]
<1>1. e.preview \in BOOLEAN /\ e.stream \in BOOLEAN
  BY ChatConstants
<1>2. w \in Request
  BY <1>1 DEF Request, Step
<1>3. /\ w.step = "translate" /\ w.conv = NULL /\ w.visitor = v /\ w.got = <<>>
      /\ w.full = <<>>
  OBVIOUS
<1>4. /\ req[r] = NULL /\ req' = [req EXCEPT ![r] = w]
      /\ v \in Serial => \A q \in Requests : InProgress(q) => req[q].visitor # v
      /\ UNCHANGED <<bots, convs, messages, tokens>>
  BY DEF Arrive
<1> HIDE DEF w
<1>5. ReqOK(w)
  BY <1>3 DEF ReqOK, Early, Found, Asked, Answered
<1> QED
  BY <1>2, <1>3, <1>4, <1>5 DEF Arrives

\* The translation, which may find the message to be in another language.
LEMMA TranslateKind ==
  ASSUME Types, NEW r \in Requests, Translate(r)
  PROVE  \E w \in Request : Local(r, w)
<1>0. /\ req[r] # NULL /\ req[r] \in Request /\ ReqOK(req[r]) /\ req[r].step = "translate"
      /\ UNCHANGED <<bots, convs, messages, tokens>>
  BY Current DEF Translate
<1>1. PICK english \in BOOLEAN :
         req' = [req EXCEPT ![r].english = english, ![r].step = "visitor"]
  BY DEF Translate
<1> DEFINE w == [req[r] EXCEPT !.english = english, !.step = "visitor"]
<1>2. req' = [req EXCEPT ![r] = w]
  BY <1>1
<1>3. /\ w \in Request /\ w.step = "visitor" /\ w.bot = req[r].bot
      /\ w.visitor = req[r].visitor /\ w.preview = req[r].preview
      /\ w.conv = req[r].conv /\ w.full = req[r].full /\ w.got = req[r].got
  BY <1>0 DEF Request, Step
<1> HIDE DEF w
<1>4. ReqOK(w)
  BY <1>0, <1>3 DEF ReqOK, Early, Found, Asked, Answered
<1> QED
  BY <1>0, <1>2, <1>3, <1>4 DEF Local, Moves, Of, Alike, Early, Answered

\* The blocking call.
LEMMA CallKind ==
  ASSUME Types, NEW r \in Requests, CallLlm(r)
  PROVE  \E w \in Request : Local(r, w)
<1>0. /\ req[r] # NULL /\ req[r] \in Request /\ ReqOK(req[r]) /\ req[r].step = "call"
      /\ UNCHANGED <<bots, convs, messages, tokens>>
  BY Current DEF CallLlm
<1>1. PICK answered \in BOOLEAN :
         req' = [req EXCEPT ![r].full = <<IF answered THEN "text" ELSE "error">>,
                            ![r].usage = answered, ![r].step = "answer"]
  BY DEF CallLlm
<1> DEFINE full == <<IF answered THEN "text" ELSE "error">>
           w == [req[r] EXCEPT !.full = full, !.usage = answered, !.step = "answer"]
<1>2. req' = [req EXCEPT ![r] = w]
  BY <1>1
<1>3. full \in Seq(Piece)
  <2>1. (IF answered THEN "text" ELSE "error") \in Piece
    BY DEF Piece
  <2> QED
    BY <2>1
<1> HIDE DEF full
<1>4. /\ w \in Request /\ w.step = "answer" /\ w.bot = req[r].bot
      /\ w.visitor = req[r].visitor /\ w.preview = req[r].preview
      /\ w.conv = req[r].conv /\ w.stream = req[r].stream /\ w.english = req[r].english
  BY <1>0, <1>3 DEF Request, Step
<1> HIDE DEF w
<1>5. ReqOK(w)
  BY <1>0, <1>4 DEF ReqOK, Early, Found, Asked, Answered, Streaming
<1> QED
  BY <1>0, <1>2, <1>4, <1>5 DEF Local, Moves, Of, Alike, Asked, Answered

\* A piece of a streamed answer.
LEMMA YieldKind ==
  ASSUME Types, NEW r \in Requests, At(r, "open") \/ At(r, "stream"), NEW piece \in Piece,
         NEW t \in {"stream", "answer"}, Yield(r, piece, t),
         UNCHANGED <<bots, convs, messages, tokens>>
  PROVE  \E w \in Request : Local(r, w)
<1>0. /\ req[r] # NULL /\ req[r] \in Request /\ ReqOK(req[r])
      /\ req[r].step \in {"open", "stream"}
  BY Current
<1> DEFINE full == Append(req[r].full, piece)
           got == Append(req[r].got, piece)
           w == [req[r] EXCEPT !.full = full, !.got = got, !.step = t]
<1>1. full \in Seq(Piece) /\ got \in Seq(Piece)
  BY <1>0, RequestFields
<1>2. full = got
  BY <1>0 DEF ReqOK
<1>3. req' = [req EXCEPT ![r] = w]
  BY DEF Yield
<1> HIDE DEF full, got
<1>4. /\ w \in Request /\ w.step = t /\ w.bot = req[r].bot
      /\ w.visitor = req[r].visitor /\ w.preview = req[r].preview
      /\ w.conv = req[r].conv /\ w.stream = req[r].stream /\ w.english = req[r].english
      /\ w.full = full /\ w.got = got
  BY <1>0, <1>1 DEF Request, Step
<1> HIDE DEF w
<1>5. Streaming(w) /\ w.conv # NULL
  BY <1>0, <1>4 DEF ReqOK, Streaming, Asked
<1>6. ReqOK(w)
  BY <1>2, <1>4, <1>5 DEF ReqOK, Early, Found, Asked, Answered
<1> QED
  BY <1>0, <1>3, <1>4, <1>6 DEF Local, Moves, Of, Alike, Asked, Answered

\* The end of a stream.
LEMMA StreamEndsKind ==
  ASSUME Types, NEW r \in Requests, StreamEnds(r)
  PROVE  \E w \in Request : Local(r, w)
<1>0. /\ req[r] # NULL /\ req[r] \in Request /\ ReqOK(req[r]) /\ req[r].step = "stream"
      /\ UNCHANGED <<bots, convs, messages, tokens>>
  BY Current DEF StreamEnds
<1> DEFINE usage == (Llm[req[r].bot] = "openai")
           w == [req[r] EXCEPT !.usage = usage, !.step = "answer"]
<1>1. req' = [req EXCEPT ![r] = w]
  BY DEF StreamEnds
<1>2. usage \in BOOLEAN
  OBVIOUS
<1> HIDE DEF usage
<1>3. /\ w \in Request /\ w.step = "answer" /\ w.bot = req[r].bot
      /\ w.visitor = req[r].visitor /\ w.preview = req[r].preview
      /\ w.conv = req[r].conv /\ w.full = req[r].full /\ w.got = req[r].got
  BY <1>0, <1>2 DEF Request, Step
<1> HIDE DEF w
<1>4. ReqOK(w)
  BY <1>0, <1>3 DEF ReqOK, Early, Found, Asked, Answered
<1> QED
  BY <1>0, <1>1, <1>3, <1>4 DEF Local, Moves, Of, Alike, Asked, Answered

\* The get() of get_or_create.
LEMMA FindsKind ==
  ASSUME Types, NEW r \in Requests, LookupFinds(r)
  PROVE  \E w \in Request, i \in ConvIds : Finds(r, i, w)
<1>0. /\ req[r] # NULL /\ req[r] \in Request /\ ReqOK(req[r]) /\ req[r].step = "lookup"
      /\ UNCHANGED <<bots, convs, messages, tokens>>
  BY Current DEF LookupFinds
<1>1. PICK i \in Matching(req[r].bot, req[r].visitor) :
           /\ Matching(req[r].bot, req[r].visitor) = {i}
           /\ req' = [req EXCEPT ![r].conv = i, ![r].obj = convs[i],
                                 ![r].step = AfterFound(convs[i], req[r].preview)]
  BY DEF LookupFinds
<1>2. /\ i \in ConvIds /\ convs[i] # NULL /\ convs[i] \in Conv
      /\ convs[i].bot = req[r].bot /\ convs[i].visitor = req[r].visitor
  BY <1>1 DEF Matching, Types, TypeOK
<1> DEFINE t == AfterFound(convs[i], req[r].preview)
           w == [req[r] EXCEPT !.conv = i, !.obj = convs[i], !.step = t]
<1>3. req' = [req EXCEPT ![r] = w]
  BY <1>1
<1>4. t \in Found /\ (t # "flip" => convs[i].preview = req[r].preview)
  BY DEF AfterFound, Found
<1> HIDE DEF t
<1>5. /\ w \in Request /\ w.step = t /\ w.bot = req[r].bot
      /\ w.visitor = req[r].visitor /\ w.preview = req[r].preview
      /\ w.conv = i /\ w.obj = convs[i] /\ w.full = req[r].full /\ w.got = req[r].got
  BY <1>0, <1>2, <1>4 DEF Request, Step, Found
<1> HIDE DEF w
<1>6. i # NULL /\ w.got = w.full
  BY <1>0, <1>2, <1>5, ChatConstants DEF ReqOK, Early, ConvIds
<1>7. ReqOK(w)
  BY <1>2, <1>4, <1>5, <1>6 DEF ReqOK, Early, Found, Asked, Answered
<1> QED
  BY <1>0, <1>1, <1>2, <1>3, <1>4, <1>5, <1>7 DEF Finds, Moves, Of

\* The create() of get_or_create.
LEMMA InsertsKind ==
  ASSUME Types, NEW r \in Requests, InsertConversation(r)
  PROVE  \E w \in Request, c \in Conv : Inserts(r, w, c)
<1>0. /\ req[r] # NULL /\ req[r] \in Request /\ ReqOK(req[r]) /\ req[r].step = "insert"
      /\ UNCHANGED <<bots, messages, tokens>> /\ req[r].bot \in bots
  BY Current DEF InsertConversation
<1> DEFINE c == [bot |-> req[r].bot, visitor |-> req[r].visitor,
                 preview |-> req[r].preview, linked |-> TRUE]
           w == [req[r] EXCEPT !.conv = r, !.obj = c, !.step = "ask"]
<1>1. /\ c \in Conv /\ c.bot = req[r].bot /\ c.visitor = req[r].visitor
      /\ c.preview = req[r].preview
  BY <1>0, RequestFields DEF Conv
<1>2. convs' = [convs EXCEPT ![r] = c] /\ req' = [req EXCEPT ![r] = w]
  BY DEF InsertConversation
<1> HIDE DEF c
<1>3. /\ w \in Request /\ w.step = "ask" /\ w.bot = req[r].bot
      /\ w.visitor = req[r].visitor /\ w.preview = req[r].preview
      /\ w.conv = r /\ w.obj = c /\ w.full = req[r].full /\ w.got = req[r].got
  BY <1>0, <1>1 DEF Request, Step, ConvIds
<1> HIDE DEF w
<1>4. r # NULL /\ c # NULL /\ w.got = w.full
  BY <1>0, <1>1, <1>3, ChatConstants, ConvFields DEF ReqOK, Early
<1>5. ReqOK(w)
  BY <1>1, <1>3, <1>4 DEF ReqOK, Early, Found, Asked, Answered
<1> QED
  BY <1>0, <1>1, <1>2, <1>3, <1>5 DEF Inserts, Writes, Moves, Of

\* conversation.save() of the object in memory.
LEMMA SavesKind ==
  ASSUME Types, NEW r \in Requests, FlipPreview(r) \/ LinkVisitor(r)
  PROVE  \E w \in Request, c \in Conv : Saves(r, w, c)
<1>0. /\ req[r] # NULL /\ req[r] \in Request /\ ReqOK(req[r])
      /\ req[r].step \in {"flip", "link"}
  BY Current DEF FlipPreview, LinkVisitor
<1>1. /\ req[r].obj \in Conv /\ req[r].conv \in ConvIds /\ req[r].conv # NULL
      /\ req[r].obj.bot = req[r].bot /\ req[r].obj.visitor = req[r].visitor
  BY <1>0, RequestFields DEF ReqOK, Found
<1>2. PICK c \in Conv, t \in {"link", "ask"} :
         /\ c.bot = req[r].bot /\ c.visitor = req[r].visitor /\ c.preview = req[r].preview
         /\ SaveConversation(r, c, t)
  <2>1. CASE FlipPreview(r)
    <3> DEFINE c == [req[r].obj EXCEPT !.preview = req[r].preview]
               t == IF req[r].obj.linked THEN "ask" ELSE "link"
    <3>1. /\ c \in Conv /\ c.bot = req[r].obj.bot /\ c.visitor = req[r].obj.visitor
          /\ c.preview = req[r].preview
      BY <1>0, <1>1, RequestFields DEF Conv
    <3>2. SaveConversation(r, c, t) /\ t \in {"link", "ask"}
      BY <2>1 DEF FlipPreview
    <3> HIDE DEF c, t
    <3> QED
      BY <1>1, <3>1, <3>2
  <2>2. CASE LinkVisitor(r)
    <3> DEFINE c == [req[r].obj EXCEPT !.linked = TRUE]
    <3>1. req[r].obj.preview = req[r].preview
      BY <1>0, <2>2 DEF LinkVisitor, At, ReqOK
    <3>2. /\ c \in Conv /\ c.bot = req[r].obj.bot /\ c.visitor = req[r].obj.visitor
          /\ c.preview = req[r].obj.preview
      BY <1>0, <1>1 DEF Conv
    <3>3. SaveConversation(r, c, "ask")
      BY <2>2 DEF LinkVisitor
    <3> HIDE DEF c
    <3> QED
      BY <1>1, <3>1, <3>2, <3>3
  <2> QED
    BY <2>1, <2>2
<1> DEFINE w == [req[r] EXCEPT !.obj = c, !.step = t]
<1>3. /\ req[r].bot \in bots /\ convs' = [convs EXCEPT ![req[r].conv] = c]
      /\ req' = [req EXCEPT ![r] = w] /\ UNCHANGED <<bots, messages, tokens>>
  BY <1>2 DEF SaveConversation
<1>4. /\ w \in Request /\ w.step = t /\ w.bot = req[r].bot
      /\ w.visitor = req[r].visitor /\ w.preview = req[r].preview
      /\ w.conv = req[r].conv /\ w.obj = c /\ w.full = req[r].full /\ w.got = req[r].got
  BY <1>0, <1>2 DEF Request, Step
<1> HIDE DEF w
<1>5. c # NULL /\ w.got = w.full
  BY <1>0, <1>2, <1>4, ConvFields DEF ReqOK, Found
<1>6. ReqOK(w)
  BY <1>1, <1>2, <1>4, <1>5 DEF ReqOK, Early, Found, Asked, Answered
<1> QED
  BY <1>0, <1>2, <1>3, <1>4, <1>6 DEF Saves, Writes, Moves, Of

\* The question is stored.
LEMMA AsksKind ==
  ASSUME Types, NEW r \in Requests, SaveUserMessage(r)
  PROVE  \E w \in Request, m \in Message : Asks(r, w, m)
<1>0. /\ req[r] # NULL /\ req[r] \in Request /\ ReqOK(req[r]) /\ req[r].step = "ask"
      /\ UNCHANGED <<bots, convs, tokens>> /\ convs[req[r].conv] # NULL
  BY Current DEF SaveUserMessage
<1>1. req[r].conv \in ConvIds /\ req[r].conv # NULL
  BY <1>0, RequestFields DEF ReqOK, Found
<1> DEFINE m == [conv |-> req[r].conv, sender |-> "user", req |-> r,
                 content |-> <<"text">>, billed |-> FALSE]
           w == [req[r] EXCEPT !.step = "history", !.obj = NULL]
<1>2. m \in Message /\ m.req = r /\ m.conv = req[r].conv /\ m.sender = "user"
  BY <1>1 DEF Message, Piece
<1>3. messages' = Append(messages, m) /\ req' = [req EXCEPT ![r] = w]
  BY DEF SaveUserMessage, Store
<1>4. /\ w \in Request /\ w.step = "history" /\ w.bot = req[r].bot
      /\ w.visitor = req[r].visitor /\ w.preview = req[r].preview
      /\ w.conv = req[r].conv /\ w.full = req[r].full /\ w.got = req[r].got
  BY <1>0 DEF Request, Step
<1> HIDE DEF w, m
<1>5. ReqOK(w)
  BY <1>0, <1>1, <1>4 DEF ReqOK, Early, Found, Asked, Answered
<1> QED
  BY <1>0, <1>1, <1>2, <1>3, <1>4, <1>5 DEF Asks, Stores, Moves, Of

\* The answer is stored.
LEMMA AnswersKind ==
  ASSUME Types, NEW r \in Requests, SaveAnswer(r)
  PROVE  \E w \in Request, m \in Message : Answers(r, w, m)
<1>0. /\ req[r] # NULL /\ req[r] \in Request /\ ReqOK(req[r]) /\ req[r].step = "answer"
      /\ UNCHANGED <<bots, convs, tokens>> /\ convs[req[r].conv] # NULL
  BY Current DEF SaveAnswer
<1>1. /\ req[r].conv \in ConvIds /\ req[r].conv # NULL
      /\ req[r].full \in Seq(Piece) /\ req[r].got \in Seq(Piece) /\ req[r].usage \in BOOLEAN
  BY <1>0, RequestFields DEF ReqOK, Asked
<1> DEFINE m == [conv |-> req[r].conv, sender |-> "bot", req |-> r,
                 content |-> req[r].full, billed |-> req[r].usage]
           got == IF Streams(r) THEN req[r].got ELSE req[r].full
           t == IF req[r].usage /\ ~req[r].preview THEN "bill" ELSE "done"
           w == [req[r] EXCEPT !.got = got, !.step = t]
<1>2. /\ m \in Message /\ m.req = r /\ m.conv = req[r].conv /\ m.sender = "bot"
      /\ m.content = req[r].full
  BY <1>1 DEF Message
<1>3. messages' = Append(messages, m) /\ req' = [req EXCEPT ![r] = w]
  BY DEF SaveAnswer, Store
<1>4. got = req[r].full /\ got \in Seq(Piece)
  BY <1>0, <1>1 DEF Streams, ReqOK, Streaming
<1>5. t \in Answered /\ (t = "bill" => ~req[r].preview)
  BY DEF Answered
<1> HIDE DEF got, t, m
<1>6. /\ w \in Request /\ w.step = t /\ w.bot = req[r].bot
      /\ w.visitor = req[r].visitor /\ w.preview = req[r].preview
      /\ w.conv = req[r].conv /\ w.got = got
  BY <1>0, <1>4, <1>5 DEF Request, Step, Over, Answered
<1> HIDE DEF w
<1>7. ReqOK(w)
  BY <1>1, <1>5, <1>6 DEF ReqOK, Early, Found, Asked, Answered
<1> QED
  BY <1>0, <1>1, <1>2, <1>3, <1>4, <1>5, <1>6, <1>7 DEF Answers, Stores, Moves, Of

\* Every step is of one of the kinds.
LEMMA KindsOfStep ==
  ASSUME Types, Next
  PROVE  Kinds
<1>1. ASSUME NEW r \in Requests, NEW w \in Request, Local(r, w)
      PROVE  Kinds
  BY <1>1 DEF Kinds
<1>2. ASSUME NEW r \in Requests, NEW s, NEW t \in Step \cup Over, At(r, s), GoTo(r, t),
             Alike(s, t), UNCHANGED <<bots, convs, messages, tokens>>, t # "insert",
             t \notin {"open", "stream", "call", "history", "answer"}
      PROVE  Kinds
  <2>1. req[r] # NULL /\ req[r].step = s
    BY <1>2 DEF At
  <2> QED
    BY <1>1, <1>2, <2>1, GoesOn
<1>3. ASSUME NEW r \in Requests, NEW s \in Early \cup Found \cup Asked, At(r, s), Fails(r)
      PROVE  Kinds
  <2>1. Alike(s, "failed") /\ "failed" \in Step \cup Over
    BY DEF Alike, Over
  <2> QED
    BY <1>2, <1>3, <2>1 DEF Fails
<1>4. ASSUME NEW r \in Requests, Handle(r) \/ Disconnect(r)
      PROVE  Kinds
  <2>1. CASE Translate(r)
    BY <1>1, <2>1, TranslateKind
  <2>2. CASE GetVisitor(r)
    BY <1>2, <2>2 DEF GetVisitor, Alike, Early, Step
  <2>3. CASE LookupFinds(r)
    BY <2>3, FindsKind DEF Kinds
  <2>4. CASE LookupMisses(r)
    <3>1. /\ At(r, "lookup") /\ GoTo(r, "insert") /\ req[r] # NULL
          /\ Matching(req[r].bot, req[r].visitor) = {}
          /\ UNCHANGED <<bots, convs, messages, tokens>>
          /\ Alike(req[r].step, "insert") /\ "insert" \in Step \cup Over
      BY <2>4 DEF LookupMisses, At, Alike, Early, Step
    <3>2. \E w \in Request : Local(r, w)
      BY <3>1, GoesOn
    <3> QED
      BY <1>1, <3>2
  <2>5. CASE LookupAmbiguous(r)
    BY <1>3, <2>5 DEF LookupAmbiguous, Early
  <2>6. CASE InsertConversation(r)
    BY <2>6, InsertsKind DEF Kinds
  <2>7. CASE FlipPreview(r) \/ LinkVisitor(r)
    BY <2>7, SavesKind DEF Kinds
  <2>8. CASE SaveUserMessage(r)
    BY <2>8, AsksKind DEF Kinds
  <2>9. CASE BuildPrompt(r)
    <3> DEFINE t == IF Streams(r) THEN "open" ELSE "call"
    <3>1. /\ req[r] # NULL /\ req[r].step = "history" /\ GoTo(r, t)
          /\ UNCHANGED <<bots, convs, messages, tokens>> /\ ReqOK(req[r])
      BY <2>9, Current DEF BuildPrompt
    <3>2. /\ t \in Step \cup Over /\ Alike("history", t)
          /\ t \notin {"insert", "history", "answer"}
          /\ (t \in {"open", "stream"} => Streaming(req[r]))
          /\ (t = "call" => ~Streaming(req[r]))
      BY DEF Step, Alike, Asked, Streams, Streaming
    <3>3. req[r].got = req[r].full
      BY <3>1 DEF ReqOK
    <3> HIDE DEF t
    <3>4. \E w \in Request : Local(r, w)
      BY <3>1, <3>2, <3>3, GoesOn
    <3> QED
      BY <1>1, <3>4
  <2>10. CASE CallLlm(r)
    BY <1>1, <2>10, CallKind
  <2>11. CASE OpenFails(r)
    <3> DEFINE piece == IF Llm[req[r].bot] = "gemini" THEN "error" ELSE "masked"
    <3>1. At(r, "open") /\ Yield(r, piece, "answer")
          /\ UNCHANGED <<bots, convs, messages, tokens>>
      BY <2>11 DEF OpenFails
    <3>2. piece \in Piece /\ "answer" \in {"stream", "answer"}
      BY DEF Piece
    <3> HIDE DEF piece
    <3>3. \E w \in Request : Local(r, w)
      BY <3>1, <3>2, YieldKind
    <3> QED
      BY <1>1, <3>3
  <2>12. CASE OpenStream(r)
    <3>1. /\ req[r] # NULL /\ req[r].step = "open" /\ GoTo(r, "stream")
          /\ UNCHANGED <<bots, convs, messages, tokens>> /\ ReqOK(req[r])
      BY <2>12, Current DEF OpenStream
    <3>2. Streaming(req[r]) /\ req[r].got = req[r].full
      BY <3>1 DEF ReqOK
    <3>3. "stream" \in Step \cup Over /\ Alike(req[r].step, "stream")
      BY <3>1 DEF Step, Alike, Asked
    <3>4. \E w \in Request : Local(r, w)
      BY <3>1, <3>2, <3>3, GoesOn
    <3> QED
      BY <1>1, <3>4
  <2>13. CASE StreamPiece(r) \/ StreamBreaks(r)
    <3>1. PICK piece \in Piece, t \in {"stream", "answer"} :
             At(r, "stream") /\ Yield(r, piece, t)
      BY <2>13 DEF StreamPiece, StreamBreaks, Piece
    <3>2. UNCHANGED <<bots, convs, messages, tokens>>
      BY <2>13 DEF StreamPiece, StreamBreaks
    <3>3. \E w \in Request : Local(r, w)
      BY <3>1, <3>2, YieldKind
    <3> QED
      BY <1>1, <3>3
  <2>14. CASE StreamEnds(r)
    BY <1>1, <2>14, StreamEndsKind
  <2>15. CASE SaveAnswer(r)
    BY <2>15, AnswersKind DEF Kinds
  <2>16. CASE Bill(r)
    <3>1. /\ req[r] # NULL /\ req[r].step = "bill" /\ GoTo(r, "done") /\ ~req[r].preview
          /\ UNCHANGED <<bots, convs, messages>> /\ tokens' \subseteq tokens \cup {r}
      BY <2>16, Current DEF Bill, ReqOK
    <3>2. "done" \in Step \cup Over /\ Alike(req[r].step, "done")
      BY <3>1 DEF Over, Alike
    <3>3. \E w \in Request : Local(r, w)
      BY <3>1, <3>2, GoesOn
    <3> QED
      BY <1>1, <3>3
  <2>17. CASE DatabaseFails(r)
    BY <1>3, <2>17 DEF DatabaseFails, Early, Found, Asked
  <2>18. CASE Disconnect(r)
    <3>1. PICK s \in Asked : At(r, s)
      BY <2>18 DEF Disconnect, Suspended, Asked
    <3>2. "gone" \in Step \cup Over /\ Alike(s, "gone")
      BY DEF Over, Alike
    <3> QED
      BY <1>2, <2>18, <3>1, <3>2 DEF Disconnect
  <2> QED
    BY <1>4, <2>1, <2>2, <2>3, <2>4, <2>5, <2>6, <2>7, <2>8, <2>9, <2>10, <2>11, <2>12,
       <2>13, <2>14, <2>15, <2>16, <2>17, <2>18 DEF Handle
<1> QED
  BY <1>4, ArriveKind DEF Next, Kinds

-----------------------------------------------------------------------------
(* What the kinds of step do to the tables. *)

\* A request moves or arrives: the others stay as they are.
LEMMA RequestAfter ==
  ASSUME Types, NEW r \in Requests, NEW w \in Request, req' = [req EXCEPT ![r] = w]
  PROVE  req'[r] = w /\ \A q \in Requests : q # r => req'[q] = req[q]
  BY DEF Types, TypeOK

\* The rows are messages.
LEMMA RowsAreMessages ==
  ASSUME Types, NEW i \in Rows
  PROVE  /\ i \in 1 .. Len(messages) /\ messages[i] \in Message /\ messages[i] # NULL
         /\ messages[i].req \in Requests /\ messages[i].conv \in ConvIds
         /\ messages[i].sender \in {"user", "bot"}
  BY MessageFields DEF Rows, Types, TypeOK

\* A message is stored: it is the last.
LEMMA Appended ==
  ASSUME Types, NEW m \in Message, messages' = Append(messages, m)
  PROVE  LET n == Len(messages) + 1 IN
         /\ n \in Nat /\ n \notin Rows /\ Rows' = Rows \cup {n} /\ Len(messages)' = n
         /\ messages'[n] = m /\ \A i \in Rows : messages'[i] = messages[i]
         /\ \A i \in 1 .. Len(messages) : messages'[i] = messages[i]
<1>1. messages \in Seq(Message \cup {NULL}) /\ Len(messages) \in Nat /\ m # NULL
  BY MessageFields DEF Types, TypeOK
<1>2. /\ Len(messages') = Len(messages) + 1 /\ messages'[Len(messages) + 1] = m
      /\ \A i \in 1 .. Len(messages) : messages'[i] = messages[i]
  BY <1>1
<1>3. 1 .. Len(messages') = (1 .. Len(messages)) \cup {Len(messages) + 1}
  BY <1>1, <1>2
<1> QED
  BY <1>1, <1>2, <1>3 DEF Rows

\* No message is stored and none deleted.
LEMMA SameRows ==
  ASSUME UNCHANGED messages
  PROVE  Rows' = Rows /\ \A r, s : Stored(r, s)' = Stored(r, s)
  BY DEF Rows, Stored

-----------------------------------------------------------------------------
(* Types. *)

\* The visitors are of the type of their table.
LEMMA VisitorsNext ==
  ASSUME Types, Next
  PROVE  visitors' \subseteq Visitors
<1>1. ASSUME NEW r \in Requests, GetVisitor(r)
      PROVE  visitors' \subseteq Visitors
  <2>1. req[r] \in Request
    BY <1>1, Current DEF GetVisitor
  <2>2. req[r].visitor \in Visitors
    BY <2>1, RequestFields
  <2> QED
    BY <1>1, <2>2 DEF GetVisitor, Types, TypeOK
<1>2. ASSUME UNCHANGED visitors
      PROVE  visitors' \subseteq Visitors
  BY <1>2 DEF Types, TypeOK
<1>3. ASSUME NEW r \in Requests, Handle(r) \/ Disconnect(r)
      PROVE  visitors' \subseteq Visitors
  BY <1>1, <1>2, <1>3
     DEF Handle, Disconnect, Translate, LookupFinds, LookupMisses, LookupAmbiguous, Fails,
         InsertConversation, FlipPreview, LinkVisitor, SaveConversation, SaveUserMessage,
         BuildPrompt, CallLlm, OpenFails, OpenStream, StreamPiece, StreamEnds, StreamBreaks,
         SaveAnswer, Bill, DatabaseFails
<1> QED
  BY <1>2, <1>3 DEF Next, Arrive, DeleteBot

\* A request keeps its type and what is known of it.
LEMMA RequestsNext ==
  ASSUME Types, NEW r \in Requests, NEW w \in Request, ReqOK(w), req' = [req EXCEPT ![r] = w]
  PROVE  /\ req' \in [Requests -> Request \cup {NULL}]
         /\ \A q \in Requests : req'[q] # NULL => ReqOK(req'[q])
<1>1. req' \in [Requests -> Request \cup {NULL}]
  BY DEF Types, TypeOK
<1>2. \A q \in Requests : req'[q] # NULL => ReqOK(req'[q])
  BY RequestAfter DEF Types
<1> QED
  BY <1>1, <1>2

\* The types hold initially.
LEMMA TypesInit ==
  ASSUME Init
  PROVE  Types
<1>1. \A b \in Bots, v \in Visitors : LegacyConv(b, v) \in Conv
  BY DEF LegacyConv, Conv
<1> QED
  BY <1>1 DEF Init, Types, TypeOK

\* Every step keeps the types.
LEMMA TypesNext ==
  ASSUME Types, [Next]_vars
  PROVE  Types'
<1>1. CASE UNCHANGED vars
  BY <1>1 DEF vars, Types, TypeOK
<1>2. CASE Next
  <2>0. visitors' \subseteq Visitors
    BY <1>2, VisitorsNext
  <2>1. ASSUME NEW r \in Requests, NEW w \in Request, ReqOK(w), req' = [req EXCEPT ![r] = w],
               bots' \subseteq Bots, convs' \in [ConvIds -> Conv \cup {NULL}],
               messages' \in Seq(Message \cup {NULL}), tokens' \subseteq Requests
        PROVE  Types'
    <3>1. /\ req' \in [Requests -> Request \cup {NULL}]
          /\ \A q \in Requests : req'[q] # NULL => ReqOK(req'[q])
      BY <2>1, RequestsNext
    <3> QED
      BY <2>0, <2>1, <3>1 DEF Types, TypeOK
  <2>2. /\ bots \subseteq Bots /\ convs \in [ConvIds -> Conv \cup {NULL}]
        /\ messages \in Seq(Message \cup {NULL}) /\ tokens \subseteq Requests
    BY DEF Types, TypeOK
  <2>3. CASE \E r \in Requests, w \in Request : Local(r, w) \/ Arrives(r, w)
    <3>1. PICK r \in Requests, w \in Request : Local(r, w) \/ Arrives(r, w)
      BY <2>3
    <3> QED
      BY <2>1, <2>2, <3>1 DEF Local, Arrives, Moves, Of
  <2>4. CASE \E r \in Requests, w \in Request, i \in ConvIds : Finds(r, i, w)
    <3>1. PICK r \in Requests, w \in Request, i \in ConvIds : Finds(r, i, w)
      BY <2>4
    <3> QED
      BY <2>1, <2>2, <3>1 DEF Finds, Moves, Of
  <2>5. CASE \E r \in Requests, w \in Request, c \in Conv : Inserts(r, w, c) \/ Saves(r, w, c)
    <3>1. PICK r \in Requests, w \in Request, c \in Conv : Writes(r, w, c)
      BY <2>5 DEF Inserts, Saves
    <3>2. convs' \in [ConvIds -> Conv \cup {NULL}]
      BY <2>2, <3>1 DEF Writes
    <3> QED
      BY <2>1, <2>2, <3>1, <3>2 DEF Writes, Moves, Of
  <2>6. CASE \E r \in Requests, w \in Request, m \in Message : Asks(r, w, m) \/ Answers(r, w, m)
    <3>1. PICK r \in Requests, w \in Request, m \in Message : Stores(r, w, m)
      BY <2>6 DEF Asks, Answers
    <3>2. messages' \in Seq(Message \cup {NULL})
      BY <2>2, <3>1 DEF Stores
    <3> QED
      BY <2>1, <2>2, <3>1, <3>2 DEF Stores, Moves, Of
  <2>7. CASE \E b \in Bots : DeleteBot(b)
    <3>1. PICK b \in Bots : DeleteBot(b)
      BY <2>7
    <3>2. convs' \in [ConvIds -> Conv \cup {NULL}] /\ bots' \subseteq Bots /\ tokens' \subseteq Requests
      BY <2>2, <3>1 DEF DeleteBot
    <3>3. messages' \in Seq(Message \cup {NULL})
      <4>1. /\ Len(messages) \in Nat
            /\ \A k \in 1 .. Len(messages) : messages'[k] \in Message \cup {NULL}
        BY <2>2, <3>1 DEF DeleteBot
      <4>2. messages' \in [1 .. Len(messages) -> Message \cup {NULL}]
        BY <3>1, <4>1 DEF DeleteBot
      <4> QED
        BY <4>1, <4>2
    <3> QED
      BY <2>0, <3>1, <3>2, <3>3 DEF DeleteBot, Types, TypeOK
  <2> QED
    BY <1>2, <2>3, <2>4, <2>5, <2>6, <2>7, KindsOfStep DEF Kinds
<1> QED
  BY <1>1, <1>2

(***************************************************************************)
(* Type correctness: every table holds rows of its type and every request  *)
(* in memory has its shape, whatever process_chat_message, the stream      *)
(* generator and the deletion of chatbots do to each other.                *)
(***************************************************************************)
THEOREM ChatTypes == Spec => []TypeOK
<1>1. Init => Types
  BY TypesInit
<1>2. Types /\ [Next]_vars => Types'
  BY TypesNext
<1>3. Types => TypeOK
  BY DEF Types
<1> QED
  BY <1>1, <1>2, <1>3, PTL DEF Spec

-----------------------------------------------------------------------------
(* Conversations and the messages in them. *)

\* Who a request is from and for never changes, nor does its conversation.
LEMMA RequestKept ==
  ASSUME Types, Kinds, NEW q \in Requests, req[q] # NULL
  PROVE  /\ req'[q] # NULL /\ req'[q].bot = req[q].bot /\ req'[q].visitor = req[q].visitor
         /\ req'[q].preview = req[q].preview
         /\ req[q].conv # NULL => req'[q].conv = req[q].conv
<1>1. ASSUME NEW r \in Requests, NEW w \in Request, Moves(r, w),
             w.conv = req[r].conv \/ req[r].step \in Early
      PROVE  /\ req'[q] # NULL /\ req'[q].bot = req[q].bot /\ req'[q].visitor = req[q].visitor
             /\ req'[q].preview = req[q].preview
             /\ req[q].conv # NULL => req'[q].conv = req[q].conv
  <2>1. req' = [req EXCEPT ![r] = w] /\ Of(w, req[r]) /\ ReqOK(req[r])
    BY <1>1 DEF Moves, Types
  <2>2. req'[r] = w /\ (q # r => req'[q] = req[q])
    BY <2>1, RequestAfter
  <2>3. CASE q = r
    <3>1. req[r].conv # NULL => w.conv = req[r].conv
      BY <1>1, <2>1 DEF ReqOK
    <3> QED
      BY <2>1, <2>2, <2>3, <3>1, RequestFields DEF Of
  <2> QED
    BY <2>2, <2>3
<1>2. ASSUME NEW r \in Requests, NEW w \in Request, Arrives(r, w)
      PROVE  req'[q] = req[q]
  BY <1>2, RequestAfter DEF Arrives
<1>3. ASSUME NEW b \in Bots, DeleteBot(b)
      PROVE  req'[q] = req[q]
  BY <1>3 DEF DeleteBot
<1> QED
  BY <1>1, <1>2, <1>3 DEF Kinds, Local, Finds, Inserts, Saves, Writes, Asks, Answers, Stores, Early

\* What the deletion of a chatbot leaves.
LEMMA Cascade ==
  ASSUME Types, NEW b \in Bots, DeleteBot(b)
  PROVE  /\ req' = req /\ bots' = bots \ {b} /\ tokens' \subseteq tokens
         /\ \A i \in ConvIds :
               convs'[i] = IF convs[i] # NULL /\ convs[i].bot = b THEN NULL ELSE convs[i]
         /\ Len(messages)' = Len(messages)
         /\ \A k \in 1 .. Len(messages) : messages'[k] \in {NULL, messages[k]}
         /\ Rows' = {k \in Rows : /\ convs[messages[k].conv] # NULL => convs[messages[k].conv].bot # b}
         /\ \A k \in Rows' : messages'[k] = messages[k]
<1>1. Len(messages) \in Nat
  BY DEF Types, TypeOK
<1>2. Len(messages') = Len(messages)
  BY <1>1 DEF DeleteBot
<1>3. \A k \in 1 .. Len(messages) :
         messages'[k] = IF messages[k] # NULL /\ convs[messages[k].conv] # NULL
                           /\ convs[messages[k].conv].bot = b
                        THEN NULL ELSE messages[k]
  BY DEF DeleteBot
<1>4. Rows' = {k \in Rows : /\ convs[messages[k].conv] # NULL => convs[messages[k].conv].bot # b}
  BY <1>2, <1>3 DEF Rows
<1>5. \A k \in Rows' : messages'[k] = messages[k]
  BY <1>2, <1>3 DEF Rows
<1> QED
  BY <1>2, <1>3, <1>4, <1>5 DEF DeleteBot

\* Initially there is at most the conversation from before.
LEMMA ConvInit ==
  ASSUME Init
  PROVE  ConvInv /\ MessageInv
  BY DEF Init, ConvInv, MessageInv, Rows, Inserted, LegacyConv

\* A conversation that was inserted stays that.
LEMMA InsertedNext ==
  ASSUME Types, Kinds, NEW i \in ConvIds, Inserted(i)
  PROVE  Inserted(i)'
<1>1. i # NULL
  BY ChatConstants DEF ConvIds
<1>2. CASE i # Legacy
  BY <1>1, <1>2, RequestKept DEF Inserted, ConvIds
<1> QED
  BY <1>2 DEF Inserted

\* Every step keeps ConvInv.
LEMMA ConvNext ==
  ASSUME Types, Types', ConvInv, Kinds
  PROVE  ConvInv'
<1>0. \A i \in ConvIds : i # NULL
  BY ChatConstants DEF ConvIds
<1>1. \A i \in ConvIds : convs[i] # NULL => convs[i].bot \in bots /\ Inserted(i)
  BY DEF ConvInv
<1>2. \A r \in Requests :
          req[r] # NULL /\ req[r].conv # NULL =>
              LET c == convs[req[r].conv] IN
              /\ req[r].conv \in ConvIds /\ Inserted(req[r].conv)
              /\ c # NULL => c.bot = req[r].bot /\ c.visitor = req[r].visitor
              /\ req[r].bot \in bots => c # NULL
  <2>1. \A r \in Requests : req[r] # NULL => req[r].conv \in ConvIds \cup {NULL}
    BY RequestFields DEF Types, TypeOK
  <2> QED
    BY <2>1 DEF ConvInv
<1>3. ASSUME NEW r \in Requests, NEW w \in Request, req' = [req EXCEPT ![r] = w],
             UNCHANGED <<bots, convs>>,
             w.conv # NULL =>
                /\ w.conv \in ConvIds /\ Inserted(w.conv)
                /\ convs[w.conv] # NULL =>
                      convs[w.conv].bot = w.bot /\ convs[w.conv].visitor = w.visitor
                /\ w.bot \in bots => convs[w.conv] # NULL
      PROVE  ConvInv'
  <2>1. req'[r] = w /\ \A q \in Requests : q # r => req'[q] = req[q]
    BY <1>3, RequestAfter
  <2>2. \A i \in ConvIds : convs[i] # NULL => convs[i].bot \in bots /\ Inserted(i)'
    BY <1>1, InsertedNext
  <2>3. \A q \in Requests :
          req'[q] # NULL /\ req'[q].conv # NULL =>
              LET c == convs[req'[q].conv] IN
              /\ req'[q].conv \in ConvIds /\ Inserted(req'[q].conv)
              /\ c # NULL => c.bot = req'[q].bot /\ c.visitor = req'[q].visitor
              /\ req'[q].bot \in bots => c # NULL
    BY <1>2, <1>3, <2>1
  <2>4. \A i \in ConvIds : Inserted(i) => Inserted(i)'
    BY InsertedNext
  <2> QED
    BY <1>3, <2>2, <2>3, <2>4 DEF ConvInv, Inserted
<1>4. ASSUME NEW r \in Requests, NEW w \in Request, Moves(r, w), w.conv = req[r].conv,
             UNCHANGED <<bots, convs>>
      PROVE  ConvInv'
  <2>1. req[r] # NULL /\ req' = [req EXCEPT ![r] = w] /\ w.bot = req[r].bot
        /\ w.visitor = req[r].visitor
    BY <1>4 DEF Moves, Of
  <2> QED
    BY <1>2, <1>3, <1>4, <2>1
<1>5. ASSUME NEW r \in Requests, NEW w \in Request, Arrives(r, w)
      PROVE  ConvInv'
  BY <1>3, <1>5 DEF Arrives
<1>6. ASSUME NEW r \in Requests, NEW w \in Request, NEW i \in ConvIds, Finds(r, i, w)
      PROVE  ConvInv'
  <2>1. /\ req' = [req EXCEPT ![r] = w] /\ w.conv = i /\ UNCHANGED <<bots, convs>>
        /\ i \in Matching(w.bot, w.visitor)
    BY <1>6 DEF Finds, Moves
  <2>2. convs[i] # NULL /\ convs[i].bot = w.bot /\ convs[i].visitor = w.visitor /\ Inserted(i)
    BY <1>1, <2>1 DEF Matching
  <2> QED
    BY <1>3, <2>1, <2>2
<1>7. ASSUME NEW r \in Requests, NEW w \in Request, NEW c \in Conv, Writes(r, w, c),
             w.conv # NULL, w.conv \in ConvIds, Inserted(w.conv)',
             \A q \in Requests : req[q] # NULL /\ req[q].conv = w.conv =>
                req[q].bot = w.bot /\ req[q].visitor = w.visitor
      PROVE  ConvInv'
  <2>1. /\ req' = [req EXCEPT ![r] = w] /\ convs' = [convs EXCEPT ![w.conv] = c]
        /\ UNCHANGED bots /\ c.bot = w.bot /\ c.visitor = w.visitor /\ w.bot \in bots
    BY <1>7 DEF Writes, Moves
  <2>2. req'[r] = w /\ \A q \in Requests : q # r => req'[q] = req[q]
    BY <2>1, RequestAfter
  <2>3. convs'[w.conv] = c /\ \A i \in ConvIds : i # w.conv => convs'[i] = convs[i]
    BY <1>7, <2>1 DEF Types, TypeOK
  <2>4. \A i \in ConvIds : convs'[i] # NULL => convs'[i].bot \in bots' /\ Inserted(i)'
    BY <1>1, <1>7, <2>1, <2>3, InsertedNext
  <2>5. c # NULL
    BY ConvFields
  <2>6. ASSUME NEW q \in Requests, NEW i \in ConvIds, req'[q] # NULL, req'[q].conv = i
        PROVE  /\ Inserted(i)'
               /\ convs'[i] # NULL => convs'[i].bot = req'[q].bot /\ convs'[i].visitor = req'[q].visitor
               /\ req'[q].bot \in bots' => convs'[i] # NULL
    <3>1. CASE q = r
      BY <1>7, <2>1, <2>2, <2>3, <2>5, <2>6, <3>1
    <3>2. CASE q # r
      <4>1. req'[q] = req[q] /\ req[q].conv = i
        BY <2>2, <2>6, <3>2
      <4>2. /\ Inserted(i)
            /\ convs[i] # NULL => convs[i].bot = req[q].bot /\ convs[i].visitor = req[q].visitor
            /\ req[q].bot \in bots => convs[i] # NULL
        BY <1>0, <1>2, <2>6, <4>1
      <4>3. Inserted(i)'
        BY <4>2, InsertedNext
      <4>4. CASE i = w.conv
        BY <1>7, <2>1, <2>3, <2>5, <2>6, <4>1, <4>3, <4>4
      <4> QED
        BY <2>1, <2>3, <4>1, <4>2, <4>3, <4>4
    <3> QED
      BY <3>1, <3>2
  <2>7. \A q \in Requests : req'[q] # NULL => req'[q].conv \in ConvIds \cup {NULL}
    BY RequestFields DEF Types, TypeOK
  <2>8. ASSUME NEW q \in Requests, (req[q] # NULL)', (req[q].conv # NULL)'
        PROVE  (LET d == convs[req[q].conv] IN
                /\ Inserted(req[q].conv)
                /\ d # NULL => d.bot = req[q].bot /\ d.visitor = req[q].visitor
                /\ req[q].bot \in bots => d # NULL)'
    BY <2>6, <2>7, <2>8 DEF Inserted
  <2> QED
    BY <2>4, <2>8 DEF ConvInv
<1>8. ASSUME NEW r \in Requests, NEW w \in Request, NEW c \in Conv, Inserts(r, w, c)
      PROVE  ConvInv'
  <2>1. /\ Writes(r, w, c) /\ w.conv = r /\ req[r] # NULL /\ req' = [req EXCEPT ![r] = w]
        /\ req[r].conv = NULL /\ r \in ConvIds
    BY <1>8 DEF Inserts, Writes, Moves, Types, ReqOK, Early, ConvIds
  <2>2. Inserted(r)'
    <3>1. req'[r] = w /\ w # NULL
      BY <2>1, RequestAfter, RequestFields
    <3> QED
      BY <2>1, <3>1 DEF Inserted
  <2>3. \A q \in Requests : req[q] # NULL => req[q].conv # r
    BY <1>0, <1>2, <2>1, ChatConstants DEF Inserted
  <2> QED
    BY <1>0, <1>7, <2>1, <2>2, <2>3
<1>9. ASSUME NEW r \in Requests, NEW w \in Request, NEW c \in Conv, Saves(r, w, c)
      PROVE  ConvInv'
  <2>1. /\ Writes(r, w, c) /\ w.conv = req[r].conv /\ req[r] # NULL
        /\ w.bot = req[r].bot /\ w.visitor = req[r].visitor /\ w.bot \in bots
        /\ req[r].conv # NULL
    BY <1>9 DEF Saves, Writes, Moves, Of, Types, ReqOK, Found
  <2>2. /\ w.conv \in ConvIds /\ Inserted(w.conv) /\ convs[w.conv] # NULL
        /\ convs[w.conv].bot = w.bot /\ convs[w.conv].visitor = w.visitor
    BY <1>2, <2>1
  <2>3. Inserted(w.conv)'
    BY <2>2, InsertedNext
  <2>4. \A q \in Requests : req[q] # NULL /\ req[q].conv = w.conv =>
                req[q].bot = w.bot /\ req[q].visitor = w.visitor
    BY <1>2, <2>1, <2>2
  <2> QED
    BY <1>7, <2>1, <2>2, <2>3, <2>4
<1>10. ASSUME NEW b \in Bots, DeleteBot(b)
       PROVE  ConvInv'
  <2>1. /\ req' = req /\ bots' = bots \ {b}
        /\ \A i \in ConvIds :
              convs'[i] = IF convs[i] # NULL /\ convs[i].bot = b THEN NULL ELSE convs[i]
    BY <1>10, Cascade
  <2>2. \A i \in ConvIds : convs'[i] # NULL => convs'[i].bot \in bots' /\ Inserted(i)'
    BY <1>1, <2>1 DEF Inserted
  <2> QED
    BY <1>2, <2>1, <2>2 DEF ConvInv, Inserted
<1> QED
  BY <1>4, <1>5, <1>6, <1>8, <1>9, <1>10 DEF Kinds, Local, Asks, Answers, Stores

\* A message is in the conversation of its own chatbot and visitor.
LEMMA OwnConversation ==
  ASSUME Types, ConvInv, MessageInv, NEW i \in Rows
  PROVE  LET q == req[messages[i].req]
             c == convs[messages[i].conv] IN
         /\ messages[i].req \in Requests /\ messages[i].conv \in ConvIds
         /\ q # NULL /\ q \in Request /\ q.conv = messages[i].conv /\ q.conv # NULL
         /\ q.bot \in bots /\ c # NULL /\ c.bot = q.bot /\ c.visitor = q.visitor
<1>1. messages[i].req \in Requests /\ messages[i].conv \in ConvIds
  BY RowsAreMessages
<1>2. messages[i].conv # NULL
  BY <1>1, ChatConstants DEF ConvIds
<1>3. /\ req[messages[i].req] # NULL /\ req[messages[i].req].conv = messages[i].conv
      /\ req[messages[i].req].bot \in bots
  BY DEF MessageInv
<1>4. req[messages[i].req] \in Request
  BY <1>1, <1>3 DEF Types, TypeOK
<1> QED
  BY <1>1, <1>2, <1>3, <1>4 DEF ConvInv

\* The messages that go with a chatbot are those of its requests.
LEMMA DeletedRows ==
  ASSUME Types, ConvInv, MessageInv, NEW b \in Bots, DeleteBot(b)
  PROVE  /\ Rows' = {i \in Rows : req[messages[i].req].bot # b}
         /\ \A i \in Rows' : messages'[i] = messages[i]
         /\ \A r, s : Stored(r, s)' = {i \in Stored(r, s) : req[r].bot # b}
<1>1. /\ Rows' = {k \in Rows : /\ convs[messages[k].conv] # NULL => convs[messages[k].conv].bot # b}
      /\ \A k \in Rows' : messages'[k] = messages[k]
  BY Cascade
<1>2. \A i \in Rows : convs[messages[i].conv] # NULL
                      /\ convs[messages[i].conv].bot = req[messages[i].req].bot
  BY OwnConversation
<1>3. Rows' = {i \in Rows : req[messages[i].req].bot # b}
  BY <1>1, <1>2
<1>4. \A r, s : Stored(r, s)' = {i \in Stored(r, s) : req[r].bot # b}
  BY <1>1, <1>3 DEF Stored
<1> QED
  BY <1>1, <1>3, <1>4

\* A message is stored: it is one more of its request and sender.
LEMMA AppendedStored ==
  ASSUME Types, NEW m \in Message, messages' = Append(messages, m)
  PROVE  /\ Stored(m.req, m.sender)' = Stored(m.req, m.sender) \cup {Len(messages) + 1}
         /\ \A r, s : (r # m.req \/ s # m.sender) => Stored(r, s)' = Stored(r, s)
<1>1. LET n == Len(messages) + 1 IN
      /\ n \notin Rows /\ Rows' = Rows \cup {n}
      /\ messages'[n] = m /\ \A i \in Rows : messages'[i] = messages[i]
  BY Appended
<1> QED
  BY <1>1 DEF Stored

\* A request stores a message only while its chatbot exists.
LEMMA StoringBot ==
  ASSUME Types, ConvInv, NEW r \in Requests, NEW w \in Request, NEW m \in Message, Stores(r, w, m)
  PROVE  w.bot \in bots /\ req[r].bot = w.bot /\ req[r] # NULL
<1>1. /\ req[r] # NULL /\ w.conv = req[r].conv /\ w.conv # NULL /\ convs[w.conv] # NULL
      /\ w.bot = req[r].bot /\ w.conv \in ConvIds
  BY RequestFields DEF Stores, Moves, Of
<1> QED
  BY <1>1 DEF ConvInv

\* Every step keeps MessageInv.
LEMMA MessageNext ==
  ASSUME Types, ConvInv, MessageInv, Kinds
  PROVE  MessageInv'
<1>1. \A i \in Rows :
         LET q == req[messages[i].req] IN
         messages[i].req \in Requests /\ q # NULL /\ q.conv = messages[i].conv /\ q.conv # NULL
         /\ q.bot \in bots
  BY OwnConversation
<1>2. \A i \in Rows :
         LET q == req'[messages[i].req] IN
         q # NULL /\ q.conv = messages[i].conv /\ q.bot \in bots
  BY <1>1, RequestKept
<1>3. ASSUME UNCHANGED <<bots, messages>>
      PROVE  MessageInv'
  BY <1>2, <1>3, SameRows DEF MessageInv
<1>4. ASSUME NEW r \in Requests, NEW w \in Request, NEW m \in Message, Stores(r, w, m)
      PROVE  MessageInv'
  <2>1. /\ messages' = Append(messages, m) /\ m.req = r /\ m.conv = w.conv /\ UNCHANGED bots
        /\ req' = [req EXCEPT ![r] = w]
    BY <1>4 DEF Stores, Moves
  <2>2. LET n == Len(messages) + 1 IN
        /\ Rows' = Rows \cup {n} /\ messages'[n] = m /\ \A i \in Rows : messages'[i] = messages[i]
    BY <2>1, Appended
  <2>3. req'[r] = w /\ w # NULL
    BY <2>1, RequestAfter, RequestFields
  <2>4. w.bot \in bots
    BY <1>4, StoringBot
  <2>5. ASSUME NEW i \in Rows'
        PROVE  LET q == req'[messages'[i].req] IN
               q # NULL /\ q.conv = messages'[i].conv /\ q.bot \in bots'
    <3>1. CASE i \in Rows
      <4>1. messages'[i] = messages[i] /\ bots' = bots
        BY <2>1, <2>2, <3>1
      <4> QED
        BY <1>2, <3>1, <4>1
    <3>2. CASE i \notin Rows
      BY <2>1, <2>2, <2>3, <2>4, <3>2
    <3> QED
      BY <3>1, <3>2
  <2> QED
    BY <2>5 DEF MessageInv
<1>5. ASSUME NEW b \in Bots, DeleteBot(b)
      PROVE  MessageInv'
  <2>1. /\ Rows' = {i \in Rows : req[messages[i].req].bot # b}
        /\ \A i \in Rows' : messages'[i] = messages[i]
    BY <1>5, DeletedRows
  <2>2. req' = req /\ bots' = bots \ {b}
    BY <1>5, Cascade
  <2> QED
    BY <1>1, <2>1, <2>2 DEF MessageInv
<1> QED
  BY <1>3, <1>4, <1>5
     DEF Kinds, Local, Arrives, Finds, Inserts, Saves, Writes, Asks, Answers

(***************************************************************************)
(* What the rest builds on: types, conversations and messages.             *)
(***************************************************************************)
Base == Types /\ ConvInv /\ MessageInv

\* It holds initially.
LEMMA BaseInit == Init => Base
  BY TypesInit, ConvInit DEF Base

\* Every step keeps it, and is of one of the kinds.
LEMMA BaseNext ==
  ASSUME Base, Next
  PROVE  Base' /\ Kinds
<1>1. Types /\ ConvInv /\ MessageInv
  BY DEF Base
<1>2. Kinds /\ Types'
  BY <1>1, KindsOfStep, TypesNext
<1>3. ConvInv' /\ MessageInv'
  BY <1>1, <1>2, ConvNext, MessageNext
<1> QED
  BY <1>2, <1>3 DEF Base

\* A stuttering step keeps it.
LEMMA BaseStutter ==
  ASSUME Base, UNCHANGED vars
  PROVE  Base'
  BY DEF Base, vars, Types, TypeOK, ConvInv, Inserted, MessageInv, Rows

(***************************************************************************)
(* Messages stay in the conversation of their own chatbot and visitor: the *)
(* lookup of get_or_create, the saves of stale Conversation objects and    *)
(* the cascade of a deletion never put one elsewhere, nor leave one behind.*)
(***************************************************************************)
THEOREM ChatOwnConversation == Spec => []InOwnConversation
<1>1. Init => Base
  BY BaseInit
<1>2. Base /\ [Next]_vars => Base'
  BY BaseNext, BaseStutter
<1>3. Base => InOwnConversation
  BY OwnConversation DEF Base, InOwnConversation
<1> QED
  BY <1>1, <1>2, <1>3, PTL DEF Spec

-----------------------------------------------------------------------------
(* What a request has stored. *)

\* Initially nothing is.
LEMMA StoreInit ==
  ASSUME Init
  PROVE  StoreInv
  BY DEF Init, StoreInv, StoreOK

\* A request whose step does not matter to what it has stored.
LEMMA StoreAlike ==
  ASSUME NEW r \in Requests, StoreOK(r), req[r] # NULL, UNCHANGED <<bots, messages>>,
         req'[r].bot = req[r].bot,
         \/ req'[r] = req[r]
         \/ req[r].step \in Early \cup Found /\ req'[r].step \in Early \cup Found \cup {"failed"}
         \/ /\ Alike(req[r].step, req'[r].step)
            /\ req'[r].step \in Answered => req'[r].got = req[r].got
  PROVE  StoreOK(r)'
<1>1. Rows' = Rows /\ \A s : Stored(r, s)' = Stored(r, s)
  BY SameRows
<1>2. CASE req'[r] = req[r]
  BY <1>1, <1>2 DEF StoreOK
<1>3. CASE req[r].step \in Early \cup Found /\ req'[r].step \in Early \cup Found \cup {"failed"}
  BY <1>1, <1>3 DEF StoreOK, Early, Found, Asked, Answered
<1>4. CASE Alike(req[r].step, req'[r].step)
           /\ (req'[r].step \in Answered => req'[r].got = req[r].got)
  <2>1. CASE req[r].step \in Asked
    BY <1>1, <1>4, <2>1 DEF StoreOK, Alike, Early, Found, Asked, Answered
  <2>2. CASE req[r].step = "bill"
    BY <1>1, <1>4, <2>2 DEF StoreOK, Alike, Early, Found, Asked, Answered
  <2> QED
    BY <1>3, <1>4, <2>1, <2>2 DEF Alike
<1> QED
  BY <1>2, <1>3, <1>4

\* A request stores its question or its answer.
LEMMA StoreOne ==
  ASSUME Types, ConvInv, NEW r \in Requests, StoreOK(r), NEW w \in Request, NEW m \in Message,
         Asks(r, w, m) \/ Answers(r, w, m)
  PROVE  StoreOK(r)'
<1>1. /\ Stores(r, w, m) /\ messages' = Append(messages, m) /\ m.req = r /\ UNCHANGED bots
      /\ req' = [req EXCEPT ![r] = w]
  BY DEF Asks, Answers, Stores, Moves
<1>2. req'[r] = w
  BY <1>1, RequestAfter
<1>3. w.bot \in bots /\ req[r].bot = w.bot /\ req[r] # NULL
  BY <1>1, StoringBot
<1>4. PICK n \in Nat : /\ n = Len(messages) + 1 /\ Rows' = Rows \cup {n} /\ messages'[n] = m
  BY <1>1, Appended
<1>5. /\ Stored(r, m.sender)' = Stored(r, m.sender) \cup {n}
      /\ \A s : s # m.sender => Stored(r, s)' = Stored(r, s)
  BY <1>1, <1>4, AppendedStored
<1>6. CASE Asks(r, w, m)
  <2>1. m.sender = "user" /\ req[r].step = "ask" /\ w.step = "history"
    BY <1>6 DEF Asks
  <2>2. Stored(r, "user")' = {n} /\ Stored(r, "bot")' = {}
    BY <1>3, <1>5, <2>1 DEF StoreOK, Found, Answered
  <2> QED
    BY <1>2, <1>4, <2>1, <2>2 DEF StoreOK, Early, Found, Asked, Answered
<1>7. CASE Answers(r, w, m)
  <2>1. m.sender = "bot" /\ req[r].step = "answer" /\ w.step \in Answered /\ m.content = w.got
    BY <1>7 DEF Answers
  <2>2. Stored(r, "bot")' = {n} /\ \E i \in Rows : Stored(r, "user")' = {i}
    BY <1>3, <1>5, <2>1 DEF StoreOK, Asked, Answered
  <2> QED
    BY <1>2, <1>4, <2>1, <2>2 DEF StoreOK, Early, Found, Asked, Answered
<1> QED
  BY <1>6, <1>7

\* Every step keeps StoreInv.
LEMMA StoreNext ==
  ASSUME Base, StoreInv, Kinds
  PROVE  StoreInv'
<1>0. Types /\ ConvInv /\ MessageInv
  BY DEF Base
<1>1. SUFFICES ASSUME NEW q \in Requests
               PROVE  StoreOK(q)'
  BY DEF StoreInv
<1>2. StoreOK(q)
  BY DEF StoreInv
<1>3. ASSUME NEW r \in Requests, NEW w \in Request, Moves(r, w), UNCHANGED <<bots, messages>>,
             \/ req[r].step \in Early \cup Found /\ w.step \in Early \cup Found \cup {"failed"}
             \/ Alike(req[r].step, w.step) /\ (w.step \in Answered => w.got = req[r].got)
      PROVE  StoreOK(q)'
  <2>1. /\ req' = [req EXCEPT ![r] = w] /\ req[r] # NULL /\ w.bot = req[r].bot
    BY <1>3 DEF Moves, Of
  <2>2. req'[r] = w /\ (q # r => req'[q] = req[q])
    BY <1>0, <2>1, RequestAfter
  <2>3. CASE q = r
    BY <1>2, <1>3, <2>1, <2>2, <2>3, StoreAlike
  <2>4. CASE q # r /\ req[q] # NULL
    BY <1>2, <1>3, <2>2, <2>4, StoreAlike
  <2>5. CASE q # r /\ req[q] = NULL
    BY <2>2, <2>5 DEF StoreOK
  <2> QED
    BY <2>3, <2>4, <2>5
<1>4. CASE \E r \in Requests, w \in Request : Local(r, w)
  BY <1>3, <1>4 DEF Local
<1>5. CASE \E r \in Requests, w \in Request : Arrives(r, w)
  <2>1. PICK r \in Requests, w \in Request : Arrives(r, w)
    BY <1>5
  <2>2. /\ req[r] = NULL /\ req' = [req EXCEPT ![r] = w] /\ UNCHANGED <<bots, messages>>
        /\ w.step = "translate"
    BY <2>1 DEF Arrives
  <2>3. req'[r] = w /\ (q # r => req'[q] = req[q])
    BY <1>0, <2>2, RequestAfter
  <2>4. \A s : Stored(r, s) = {}
    BY <2>2 DEF Stored, Base, MessageInv
  <2>5. CASE q = r
    BY <2>2, <2>3, <2>4, <2>5, SameRows DEF StoreOK, Early, Found, Asked, Answered
  <2>6. CASE q # r /\ req[q] # NULL
    BY <1>2, <2>2, <2>3, <2>6, StoreAlike
  <2>7. CASE q # r /\ req[q] = NULL
    BY <2>3, <2>7 DEF StoreOK
  <2> QED
    BY <2>5, <2>6, <2>7
<1>6. CASE \E r \in Requests, w \in Request, i \in ConvIds : Finds(r, i, w)
  BY <1>3, <1>6 DEF Finds, Early
<1>7. CASE \E r \in Requests, w \in Request, c \in Conv : Inserts(r, w, c) \/ Saves(r, w, c)
  BY <1>3, <1>7 DEF Inserts, Saves, Writes, Early, Found
<1>8. CASE \E r \in Requests, w \in Request, m \in Message : Asks(r, w, m) \/ Answers(r, w, m)
  <2>1. PICK r \in Requests, w \in Request, m \in Message : Asks(r, w, m) \/ Answers(r, w, m)
    BY <1>8
  <2>2. /\ messages' = Append(messages, m) /\ m.req = r /\ UNCHANGED bots
        /\ req' = [req EXCEPT ![r] = w]
    BY <2>1 DEF Asks, Answers, Stores, Moves
  <2>3. CASE q = r
    BY <1>0, <1>2, <2>1, <2>3, StoreOne
  <2>4. CASE q # r
    <3>1. req'[q] = req[q]
      BY <1>0, <2>2, <2>4, RequestAfter
    <3>2. \A s : Stored(q, s)' = Stored(q, s)
      BY <1>0, <2>2, <2>4, AppendedStored
    <3>3. Rows \subseteq Rows' /\ \A i \in Rows : messages'[i] = messages[i]
      BY <1>0, <2>2, Appended
    <3>4. /\ Stored(q, "user")' = Stored(q, "user") /\ Stored(q, "bot")' = Stored(q, "bot")
          /\ bots' = bots
      BY <2>2, <3>2
    <3>5. ASSUME req[q] # NULL, req[q].bot \in bots, req[q].step \in Answered
          PROVE  \E k \in Rows' : Stored(q, "bot")' = {k} /\ messages'[k].content = req[q].got
      <4>1. PICK k \in Rows : Stored(q, "bot") = {k} /\ messages[k].content = req[q].got
        BY <1>2, <3>5 DEF StoreOK
      <4>2. k \in Rows' /\ messages'[k] = messages[k]
        BY <3>3
      <4> QED
        BY <3>4, <4>1, <4>2
    <3>6. ASSUME req[q] # NULL, req[q].bot \in bots, req[q].step \in Asked \cup Answered
          PROVE  \E i \in Rows' : Stored(q, "user")' = {i}
      BY <1>2, <3>3, <3>4, <3>6 DEF StoreOK
    <3> QED
      BY <1>2, <3>1, <3>4, <3>5, <3>6 DEF StoreOK
  <2> QED
    BY <2>3, <2>4
<1>9. CASE \E b \in Bots : DeleteBot(b)
  <2>1. PICK b \in Bots : DeleteBot(b)
    BY <1>9
  <2>2. /\ Rows' = {i \in Rows : req[messages[i].req].bot # b}
        /\ \A i \in Rows' : messages'[i] = messages[i]
        /\ \A s : Stored(q, s)' = {i \in Stored(q, s) : req[q].bot # b}
    BY <1>0, <2>1, DeletedRows
  <2>3. req' = req /\ bots' = bots \ {b}
    BY <1>0, <2>1, Cascade
  <2>4. CASE req[q].bot = b
    BY <1>2, <2>2, <2>3, <2>4 DEF StoreOK
  <2>5. CASE req[q].bot # b
    <3>1. \A s : Stored(q, s)' = Stored(q, s)
      BY <2>2, <2>5
    <3>2. \A s : \A i \in Stored(q, s) : i \in Rows' /\ messages'[i] = messages[i]
      BY <2>2, <2>5 DEF Stored
    <3> QED
      BY <1>2, <2>3, <2>5, <3>1, <3>2 DEF StoreOK
  <2> QED
    BY <2>4, <2>5
<1> QED
  BY <1>4, <1>5, <1>6, <1>7, <1>8, <1>9 DEF Kinds

(***************************************************************************)
(* A finished request has left its question and exactly one answer, in the *)
(* same conversation, and the answer is what the client was handed; an     *)
(* abandoned or failed one has left no answer: SaveUserMessage, SaveAnswer *)
(* and the GeneratorExit at a yield, for any number of concurrent requests *)
(* and deletions.                                                          *)
(***************************************************************************)
THEOREM ChatAnswerStoredOnce == Spec => []AnswerStoredOnce
<1>1. Init => Base /\ StoreInv
  BY BaseInit, StoreInit
<1>2. Base /\ StoreInv /\ [Next]_vars => (Base /\ StoreInv)'
  <2>1. ASSUME Base, StoreInv, Next
        PROVE  Base' /\ StoreInv'
    BY <2>1, BaseNext, StoreNext
  <2>2. ASSUME Base, StoreInv, UNCHANGED vars
        PROVE  Base' /\ StoreInv'
    BY <2>2, BaseStutter DEF StoreInv, StoreOK, Stored, Rows, vars
  <2> QED
    BY <2>1, <2>2
<1>3. Base /\ StoreInv => AnswerStoredOnce
  <2> SUFFICES ASSUME Base, StoreInv, NEW r \in Requests, req[r] # NULL, req[r].bot \in bots
               PROVE  /\ req[r].step = "done" =>
                            \E i, k \in Rows :
                                /\ Stored(r, "user") = {i} /\ Stored(r, "bot") = {k}
                                /\ messages[k].content = req[r].got
                                /\ messages[k].conv = messages[i].conv
                      /\ req[r].step \in {"gone", "failed"} => Stored(r, "bot") = {}
    BY DEF AnswerStoredOnce
  <2>1. StoreOK(r)
    BY DEF StoreInv
  <2>2. CASE req[r].step = "done"
    <3>1. PICK i, k \in Rows : /\ Stored(r, "user") = {i} /\ Stored(r, "bot") = {k}
                               /\ messages[k].content = req[r].got
      BY <2>1, <2>2 DEF StoreOK, Answered
    <3>2. messages[i].req = r /\ messages[k].req = r
      BY <3>1 DEF Stored
    <3>3. messages[i].conv = req[r].conv /\ messages[k].conv = req[r].conv
      BY <3>2 DEF Base, MessageInv
    <3> QED
      BY <2>2, <3>1, <3>3
  <2>3. CASE req[r].step \in {"gone", "failed"}
    BY <2>1, <2>3 DEF StoreOK, Answered
  <2> QED
    BY <2>2, <2>3
<1> QED
  BY <1>1, <1>2, <1>3, PTL DEF Spec

-----------------------------------------------------------------------------
(* Preview chats. *)

\* Initially there are none.
LEMMA PreviewInit ==
  ASSUME Init
  PROVE  PreviewInv
  BY DEF Init, PreviewInv, PreviewOK

\* A visitor who is in one mode only has been so before.
LEMMA UniformBefore ==
  ASSUME Types, Kinds, NEW v, NEW p, Uniform(v, p)'
  PROVE  Uniform(v, p)
  BY RequestKept DEF Uniform

\* The usage rows stay those of live requests.
LEMMA UsageNext ==
  ASSUME Types, Kinds, \A r \in tokens : req[r] # NULL /\ ~req[r].preview
  PROVE  \A r \in tokens' : req'[r] # NULL /\ ~req'[r].preview
<1>1. \A r \in tokens : req'[r] # NULL /\ ~req'[r].preview
  BY RequestKept DEF Types, TypeOK
<1>2. ASSUME NEW r \in Requests, NEW w \in Request, Local(r, w)
      PROVE  \A q \in tokens' : req'[q] # NULL /\ ~req'[q].preview
  <2>1. /\ req' = [req EXCEPT ![r] = w] /\ tokens' \subseteq tokens \cup {r}
        /\ r \in tokens' \ tokens => ~w.preview
    BY <1>2 DEF Local, Moves
  <2>2. req'[r] = w /\ w # NULL
    BY <2>1, RequestAfter, RequestFields
  <2> QED
    BY <1>1, <2>1, <2>2
<1>3. ASSUME tokens' \subseteq tokens
      PROVE  \A q \in tokens' : req'[q] # NULL /\ ~req'[q].preview
  BY <1>1, <1>3
<1>4. ASSUME NEW b \in Bots, DeleteBot(b)
      PROVE  tokens' \subseteq tokens
  BY <1>4 DEF DeleteBot
<1> QED
  BY <1>2, <1>3, <1>4
     DEF Kinds, Arrives, Finds, Inserts, Saves, Writes, Asks, Answers, Stores

\* A request was marking its conversation already.
LEMMA PreviewKept ==
  ASSUME Types, Kinds, NEW q \in Requests, PreviewOK(q), req[q] # NULL, req[q].conv # NULL,
         bots' \subseteq bots, Marking(q)' => Marking(q),
         req[q].bot \in bots' => convs'[req[q].conv] = convs[req[q].conv]
  PROVE  PreviewOK(q)'
<1>1. PICK v, p, b, i : v = req[q].visitor /\ p = req[q].preview /\ b = req[q].bot /\ i = req[q].conv
  OBVIOUS
<1>2. /\ req'[q].bot = b /\ req'[q].visitor = v /\ req'[q].preview = p /\ req'[q].conv = i
  BY <1>1, RequestKept
<1>3. Uniform(v, p)' => Uniform(v, p)
  BY UniformBefore
<1>4. ASSUME b \in bots', Marking(q)', Uniform(v, p)'
      PROVE  convs'[i].preview = p
  BY <1>1, <1>3, <1>4 DEF PreviewOK
<1>5. PreviewOK(q)' <=> (/\ (req[q] # NULL)' /\ (req[q].conv # NULL)' /\ (req[q].bot \in bots)'
                         /\ Marking(q)' /\ Uniform(req[q].visitor, req[q].preview)'
                         => (convs[req[q].conv].preview = req[q].preview)')
  BY DEF PreviewOK
<1>6. Uniform(req[q].visitor, req[q].preview)' => Uniform(v, p)'
  BY <1>2 DEF Uniform
<1> QED
  BY <1>2, <1>4, <1>5, <1>6

\* A request that has not stored anything marks its conversation by its step.
LEMMA MarkingBefore ==
  ASSUME Types, NEW q \in Requests, UNCHANGED messages,
         req'[q].step \in {"link", "ask", "gone"} \cup Asked \cup Answered =>
            req[q].step \in {"link", "ask", "gone"} \cup Asked \cup Answered
  PROVE  Marking(q)' => Marking(q)
  BY SameRows DEF Marking

\* Every step keeps PreviewInv.
LEMMA PreviewNext ==
  ASSUME Base, Base', PreviewInv, Kinds
  PROVE  PreviewInv'
<1>0. Types /\ ConvInv /\ MessageInv /\ Types' /\ ConvInv'
  BY DEF Base
<1>1. \A r \in tokens' : req'[r] # NULL /\ ~req'[r].preview
  BY <1>0, UsageNext DEF PreviewInv
<1>2. SUFFICES ASSUME NEW q \in Requests
               PROVE  PreviewOK(q)'
  BY <1>1 DEF PreviewInv
<1>3. PreviewOK(q)
  BY DEF PreviewInv
<1>4. ASSUME req[q] # NULL, req[q].conv = NULL
      PROVE  ~ \E i \in Rows : messages[i].req = q
  BY <1>0, <1>4, OwnConversation
<1>5. ASSUME (req[q] = NULL)' \/ (req[q] # NULL /\ req[q].conv = NULL)'
      PROVE  PreviewOK(q)'
  BY <1>5 DEF PreviewOK
<1>6. ASSUME req'[q] = req[q], UNCHANGED <<bots, messages>>,
             req[q] # NULL /\ req[q].conv # NULL => convs'[req[q].conv] = convs[req[q].conv]
      PROVE  PreviewOK(q)'
  <2>1. CASE req[q] # NULL /\ req[q].conv # NULL
    <3>1. Marking(q)' => Marking(q)
      BY <1>0, <1>6, MarkingBefore
    <3> QED
      BY <1>0, <1>3, <1>6, <2>1, <3>1, PreviewKept
  <2> QED
    BY <1>5, <1>6, <2>1
<1>7. CASE \E r \in Requests, w \in Request : Local(r, w)
  <2>1. PICK r \in Requests, w \in Request : Local(r, w)
    BY <1>7
  <2>2. /\ req[r] # NULL /\ req' = [req EXCEPT ![r] = w] /\ w.conv = req[r].conv
        /\ Alike(req[r].step, w.step) /\ UNCHANGED <<bots, convs, messages>>
    BY <2>1 DEF Local, Moves
  <2>3. req'[r] = w /\ (q # r => req'[q] = req[q])
    BY <1>0, <2>2, RequestAfter
  <2>4. CASE q = r /\ req[r].conv # NULL
    <3>1. Marking(q)' => Marking(q)
      BY <1>0, <2>2, <2>3, <2>4, MarkingBefore DEF Alike, Early, Found, Asked, Answered
    <3> QED
      BY <1>0, <1>3, <2>2, <2>4, <3>1, PreviewKept
  <2>5. CASE q = r /\ req[r].conv = NULL
    BY <1>5, <2>2, <2>3, <2>5, RequestFields
  <2> QED
    BY <1>6, <2>2, <2>3, <2>4, <2>5
<1>8. CASE \E r \in Requests, w \in Request : Arrives(r, w)
  <2>1. PICK r \in Requests, w \in Request : Arrives(r, w)
    BY <1>8
  <2>2. /\ req' = [req EXCEPT ![r] = w] /\ w.conv = NULL /\ UNCHANGED <<bots, convs, messages>>
    BY <2>1 DEF Arrives
  <2>3. req'[r] = w /\ (q # r => req'[q] = req[q])
    BY <1>0, <2>2, RequestAfter
  <2> QED
    BY <1>5, <1>6, <2>2, <2>3, RequestFields
<1>9. CASE \E r \in Requests, w \in Request, i \in ConvIds : Finds(r, i, w)
  <2>1. PICK r \in Requests, w \in Request, i \in ConvIds : Finds(r, i, w)
    BY <1>9
  <2>2. /\ req[r] # NULL /\ req' = [req EXCEPT ![r] = w] /\ UNCHANGED <<bots, convs, messages>>
        /\ req[r].step = "lookup" /\ w.step \in Found /\ w.conv = i
        /\ w.step # "flip" => convs[i].preview = w.preview
    BY <2>1 DEF Finds, Moves
  <2>3. req'[r] = w /\ (q # r => req'[q] = req[q])
    BY <1>0, <2>2, RequestAfter
  <2>4. CASE q = r
    <3>1. req[r].conv = NULL
      BY <1>0, <2>2 DEF Types, ReqOK, Early
    <3>2. Marking(r)' => w.step # "flip"
      BY <1>4, <2>2, <2>3, <2>4, <3>1, SameRows DEF Marking, Asked, Answered
    <3> QED
      BY <2>2, <2>3, <2>4, <3>2 DEF PreviewOK
  <2> QED
    BY <1>6, <2>2, <2>3, <2>4
<1>10. CASE \E r \in Requests, w \in Request, c \in Conv : Inserts(r, w, c) \/ Saves(r, w, c)
  <2>1. PICK r \in Requests, w \in Request, c \in Conv : Inserts(r, w, c) \/ Saves(r, w, c)
    BY <1>10
  <2>2. /\ req[r] # NULL /\ req' = [req EXCEPT ![r] = w] /\ UNCHANGED <<bots, messages>>
        /\ convs' = [convs EXCEPT ![w.conv] = c] /\ c.preview = w.preview
        /\ w.step \in Found
    BY <2>1 DEF Inserts, Saves, Writes, Moves, Found
  <2>3. req'[r] = w /\ (q # r => req'[q] = req[q])
    BY <1>0, <2>2, RequestAfter
  <2>4. w.conv # NULL /\ w.conv \in ConvIds
    <3>1. ReqOK(w)
      BY <2>1 DEF Inserts, Saves, Writes, Moves, Of
    <3> QED
      BY <2>2, <3>1, RequestFields DEF ReqOK
  <2>5. convs'[w.conv] = c /\ c # NULL /\ \A i \in ConvIds : i # w.conv => convs'[i] = convs[i]
    BY <1>0, <2>2, <2>4, ConvFields DEF Types, TypeOK
  <2>6. CASE q = r
    BY <2>2, <2>3, <2>5, <2>6 DEF PreviewOK
  <2>7. CASE q # r /\ req[q] # NULL /\ req[q].conv = w.conv
    <3>1. w.visitor = req[q].visitor
      <4>1. /\ req'[r] # NULL /\ req'[r].conv = w.conv /\ req'[q] # NULL /\ req'[q].conv = w.conv
            /\ convs'[w.conv] # NULL
        BY <2>3, <2>5, <2>7, RequestFields
      <4>2. convs'[w.conv].visitor = req'[r].visitor /\ convs'[w.conv].visitor = req'[q].visitor
        BY <1>0, <2>4, <4>1 DEF ConvInv
      <4> QED
        BY <2>3, <2>7, <4>2
    <3>2. PICK v, p : v = req[q].visitor /\ p = req[q].preview
      OBVIOUS
    <3>3. Uniform(v, p)' => w.preview = p
      BY <2>3, <3>1, <3>2, RequestFields DEF Uniform
    <3>4. Uniform(req[q].visitor, req[q].preview)' => Uniform(v, p)'
      BY <2>3, <2>7, <3>2 DEF Uniform
    <3>5. Uniform(req[q].visitor, req[q].preview)' => (convs[req[q].conv].preview = req[q].preview)'
      BY <2>2, <2>3, <2>5, <2>7, <3>2, <3>3, <3>4
    <3> QED
      BY <3>5 DEF PreviewOK
  <2>8. CASE q # r /\ (req[q] # NULL => req[q].conv # w.conv)
    <3>1. req[q] # NULL /\ req[q].conv # NULL => convs'[req[q].conv] = convs[req[q].conv]
      <4>1. req[q] # NULL => req[q].conv \in ConvIds \cup {NULL}
        BY <1>0, RequestFields DEF Types, TypeOK
      <4> QED
        BY <2>5, <2>8, <4>1
    <3> QED
      BY <1>6, <2>2, <2>3, <2>8, <3>1
  <2> QED
    BY <2>6, <2>7, <2>8
<1>11. CASE \E r \in Requests, w \in Request, m \in Message : Asks(r, w, m) \/ Answers(r, w, m)
  <2>1. PICK r \in Requests, w \in Request, m \in Message : Asks(r, w, m) \/ Answers(r, w, m)
    BY <1>11
  <2>2. /\ req[r] # NULL /\ req' = [req EXCEPT ![r] = w] /\ UNCHANGED <<bots, convs>>
        /\ messages' = Append(messages, m) /\ m.req = r /\ req[r].step \in {"ask", "answer"}
    BY <2>1 DEF Asks, Answers, Stores, Moves
  <2>3. req'[r] = w /\ (q # r => req'[q] = req[q])
    BY <1>0, <2>2, RequestAfter
  <2>4. PICK n \in Nat : /\ Rows' = Rows \cup {n} /\ messages'[n] = m
                         /\ \A i \in Rows : messages'[i] = messages[i]
    BY <1>0, <2>2, Appended
  <2>5. Marking(q)' => Marking(q)
    <3>1. CASE q = r
      BY <2>2, <3>1 DEF Marking, Asked
    <3>2. CASE q # r
      BY <2>2, <2>3, <2>4, <3>2 DEF Marking
    <3> QED
      BY <3>1, <3>2
  <2>6. req[q] # NULL /\ req[q].conv = NULL => (req[q] # NULL /\ req[q].conv = NULL)'
    <3>1. w.conv = req[r].conv
      BY <2>1 DEF Asks, Answers, Stores
    <3> QED
      BY <2>3, <3>1, RequestFields
  <2>7. CASE req[q] # NULL /\ req[q].conv # NULL
    BY <1>0, <1>3, <2>2, <2>5, <2>7, PreviewKept
  <2> QED
    BY <1>5, <2>2, <2>3, <2>6, <2>7
<1>12. CASE \E b \in Bots : DeleteBot(b)
  <2>1. PICK b \in Bots : DeleteBot(b)
    BY <1>12
  <2>2. /\ req' = req /\ bots' = bots \ {b}
        /\ \A i \in ConvIds :
              convs'[i] = IF convs[i] # NULL /\ convs[i].bot = b THEN NULL ELSE convs[i]
    BY <1>0, <2>1, Cascade
  <2>3. Rows' \subseteq Rows /\ \A i \in Rows' : messages'[i] = messages[i]
    BY <1>0, <2>1, DeletedRows
  <2>4. Marking(q)' => Marking(q)
    BY <2>2, <2>3 DEF Marking
  <2>5. CASE req[q] # NULL /\ req[q].conv # NULL
    <3>1. req[q].bot \in bots' => convs'[req[q].conv] = convs[req[q].conv]
      <4>1. req[q].conv \in ConvIds
        BY <1>0, <2>5, RequestFields DEF Types, TypeOK
      <4>2. convs[req[q].conv] # NULL => convs[req[q].conv].bot = req[q].bot
        BY <1>0, <2>5 DEF ConvInv
      <4> QED
        BY <2>2, <4>1, <4>2
    <3> QED
      BY <1>0, <1>3, <2>2, <2>4, <2>5, <3>1, PreviewKept
  <2> QED
    BY <1>5, <2>2, <2>5
<1> QED
  BY <1>7, <1>8, <1>9, <1>10, <1>11, <1>12 DEF Kinds

(***************************************************************************)
(* Preview chats are kept apart: none of them is billed, and while a       *)
(* visitor is only ever in one mode, its conversation is marked with that  *)
(* mode before the first message is stored, whatever stale objects other   *)
(* requests of the visitor save over it.                                   *)
(***************************************************************************)
THEOREM ChatPreviewKeptApart == Spec => []PreviewKeptApart
<1>1. Init => Base /\ PreviewInv
  BY BaseInit, PreviewInit
<1>2. Base /\ PreviewInv /\ [Next]_vars => (Base /\ PreviewInv)'
  <2>1. ASSUME Base, PreviewInv, Next
        PROVE  Base' /\ PreviewInv'
    BY <2>1, BaseNext, PreviewNext
  <2>2. ASSUME Base, PreviewInv, UNCHANGED vars
        PROVE  Base' /\ PreviewInv'
    BY <2>2, BaseStutter DEF PreviewInv, PreviewOK, Marking, Uniform, Rows, vars
  <2> QED
    BY <2>1, <2>2
<1>3. Base /\ PreviewInv => PreviewKeptApart
  <2> SUFFICES ASSUME Base, PreviewInv
               PROVE  PreviewKeptApart
    OBVIOUS
  <2>1. ASSUME NEW i \in Rows, Uniform(req[messages[i].req].visitor, req[messages[i].req].preview)
        PROVE  convs[messages[i].conv].preview = req[messages[i].req].preview
    <3>1. LET q == req[messages[i].req] IN
          /\ messages[i].req \in Requests /\ q # NULL /\ q.conv = messages[i].conv /\ q.conv # NULL
          /\ q.bot \in bots
      BY OwnConversation DEF Base
    <3>2. PreviewOK(messages[i].req) /\ Marking(messages[i].req)
      BY <3>1 DEF PreviewInv, Marking
    <3> QED
      BY <2>1, <3>1, <3>2 DEF PreviewOK
  <2> QED
    BY <2>1 DEF PreviewKeptApart, PreviewInv, Uniform
<1> QED
  BY <1>1, <1>2, <1>3, PTL DEF Spec

-----------------------------------------------------------------------------
(* Visitors who wait. *)

\* Initially there is at most the conversation from before.
LEMMA SerialInit ==
  ASSUME Init
  PROVE  SerialInv
  BY DEF Init, SerialInv, InProgress, At, Matching

\* A request in progress was so before, or has just arrived.
LEMMA ProgressBefore ==
  ASSUME Types, Kinds, NEW q \in Requests, InProgress(q)'
  PROVE  InProgress(q) \/ \E w \in Request : Arrives(q, w)
<1>1. ASSUME NEW r \in Requests, NEW w \in Request, Moves(r, w), req[r].step \notin Over
      PROVE  InProgress(q)
  <2>1. req[r] # NULL /\ req' = [req EXCEPT ![r] = w]
    BY <1>1 DEF Moves
  <2>2. q # r => req'[q] = req[q]
    BY <2>1, RequestAfter
  <2> QED
    BY <1>1, <2>1, <2>2 DEF InProgress
<1>2. ASSUME NEW r \in Requests, NEW w \in Request, Arrives(r, w), q # r
      PROVE  InProgress(q)
  <2>1. req'[q] = req[q]
    BY <1>2, RequestAfter DEF Arrives
  <2> QED
    BY <2>1 DEF InProgress
<1>3. ASSUME NEW b \in Bots, DeleteBot(b)
      PROVE  InProgress(q)
  BY <1>3 DEF DeleteBot, InProgress
<1>4. \A s, t : Alike(s, t) => s \notin Over
  BY DEF Alike, Early, Found, Asked, Over
<1> QED
  BY <1>1, <1>2, <1>3, <1>4
     DEF Kinds, Local, Finds, Inserts, Saves, Writes, Asks, Answers, Stores, Over

\* The conversations of a visitor with a chatbot grow by an insertion only.
LEMMA MatchingNext ==
  ASSUME Base, Kinds, NEW b, NEW v
  PROVE  \/ Matching(b, v)' \subseteq Matching(b, v)
         \/ \E r \in Requests, w \in Request, c \in Conv :
               /\ Inserts(r, w, c) /\ w.bot = b /\ w.visitor = v
               /\ Matching(b, v)' \subseteq Matching(b, v) \cup {r}
<1>0. Types /\ ConvInv
  BY DEF Base
<1>1. ASSUME UNCHANGED convs
      PROVE  Matching(b, v)' \subseteq Matching(b, v)
  BY <1>1 DEF Matching
<1>2. ASSUME NEW r \in Requests, NEW w \in Request, NEW c \in Conv, Writes(r, w, c), w.conv \in ConvIds
      PROVE  /\ \A i \in Matching(b, v)' : i # w.conv => i \in Matching(b, v)
             /\ w.conv \in Matching(b, v)' => w.bot = b /\ w.visitor = v
  <2>1. /\ convs' = [convs EXCEPT ![w.conv] = c] /\ c.bot = w.bot /\ c.visitor = w.visitor
    BY <1>2 DEF Writes
  <2>2. convs'[w.conv] = c /\ \A i \in ConvIds : i # w.conv => convs'[i] = convs[i]
    BY <1>0, <1>2, <2>1 DEF Types, TypeOK
  <2> QED
    BY <2>1, <2>2 DEF Matching
<1>3. ASSUME NEW r \in Requests, NEW w \in Request, NEW c \in Conv, Inserts(r, w, c)
      PROVE  \/ Matching(b, v)' \subseteq Matching(b, v)
             \/ /\ w.bot = b /\ w.visitor = v
                /\ Matching(b, v)' \subseteq Matching(b, v) \cup {r}
  BY <1>2, <1>3 DEF Inserts, ConvIds
<1>4. ASSUME NEW r \in Requests, NEW w \in Request, NEW c \in Conv, Saves(r, w, c)
      PROVE  Matching(b, v)' \subseteq Matching(b, v)
  <2>1. /\ Writes(r, w, c) /\ w.conv = req[r].conv /\ req[r] # NULL /\ req[r].conv # NULL
        /\ w.bot = req[r].bot /\ w.visitor = req[r].visitor /\ w.bot \in bots
    BY <1>0, <1>4 DEF Saves, Writes, Moves, Of, Types, ReqOK, Found
  <2>2. w.conv \in ConvIds
    BY <2>1, RequestFields
  <2>3. convs[w.conv] # NULL /\ convs[w.conv].bot = w.bot /\ convs[w.conv].visitor = w.visitor
    BY <1>0, <2>1 DEF ConvInv
  <2>4. /\ \A i \in Matching(b, v)' : i # w.conv => i \in Matching(b, v)
        /\ w.conv \in Matching(b, v)' => w.bot = b /\ w.visitor = v
    BY <1>2, <2>1, <2>2
  <2> QED
    BY <2>2, <2>3, <2>4 DEF Matching
<1>5. ASSUME NEW d \in Bots, DeleteBot(d)
      PROVE  Matching(b, v)' \subseteq Matching(b, v)
  <2>1. \A i \in ConvIds :
            convs'[i] = IF convs[i] # NULL /\ convs[i].bot = d THEN NULL ELSE convs[i]
    BY <1>0, <1>5, Cascade
  <2> QED
    BY <2>1 DEF Matching
<1>6. CASE \E r \in Requests, w \in Request, c \in Conv : Inserts(r, w, c)
  BY <1>3, <1>6
<1> QED
  BY <1>1, <1>4, <1>5, <1>6 DEF Kinds, Local, Arrives, Finds, Asks, Answers, Stores

\* A visitor who waits still has one request under way at most.
LEMMA OneAtATime ==
  ASSUME Types, Kinds, SerialInv
  PROVE  \A q, r \in Requests :
            (/\ InProgress(q) /\ InProgress(r) /\ req[q].visitor = req[r].visitor
             /\ req[r].visitor \in Serial)' => q = r
<1>1. SUFFICES ASSUME NEW q \in Requests, NEW r \in Requests, q # r,
                      InProgress(q)', InProgress(r)', (req[q].visitor = req[r].visitor)',
                      (req[r].visitor \in Serial)'
               PROVE  FALSE
  OBVIOUS
<1>2. ASSUME NEW x \in Requests, NEW y \in Requests, NEW w \in Request, Arrives(x, w), x # y,
             InProgress(y)', req'[x].visitor = req'[y].visitor, req'[x].visitor \in Serial
      PROVE  FALSE
  <2>1. /\ req' = [req EXCEPT ![x] = w]
        /\ w.visitor \in Serial => \A p \in Requests : InProgress(p) => req[p].visitor # w.visitor
    BY <1>2 DEF Arrives
  <2>2. req'[x] = w /\ req'[y] = req[y]
    BY <1>2, <2>1, RequestAfter
  <2>3. InProgress(y)
    BY <1>2, <2>2 DEF InProgress
  <2> QED
    BY <1>2, <2>1, <2>2, <2>3
<1>3. CASE InProgress(q) /\ InProgress(r)
  <2>1. req'[q].visitor = req[q].visitor /\ req'[r].visitor = req[r].visitor
    BY <1>3, RequestKept DEF InProgress
  <2> QED
    BY <1>1, <1>3, <2>1 DEF SerialInv
<1>4. CASE \E w \in Request : Arrives(q, w)
  BY <1>1, <1>2, <1>4
<1>5. CASE \E w \in Request : Arrives(r, w)
  BY <1>1, <1>2, <1>5
<1> QED
  BY <1>1, <1>3, <1>4, <1>5, ProgressBefore

\* A request about to insert was so before, or has just found nothing.
LEMMA InsertBefore ==
  ASSUME Types, Kinds, NEW q \in Requests, At(q, "insert")'
  PROVE  /\ req[q] # NULL
         /\ \/ /\ UNCHANGED convs /\ Matching(req[q].bot, req[q].visitor) = {}
            \/ At(q, "insert") /\ \A w \in Request, c \in Conv : ~Inserts(q, w, c)
<1>1. ASSUME NEW r \in Requests, NEW w \in Request, req' = [req EXCEPT ![r] = w], w.step # "insert"
      PROVE  /\ At(q, "insert") /\ q # r
  <2>1. req'[r] = w /\ (q # r => req'[q] = req[q])
    BY <1>1, RequestAfter
  <2> QED
    BY <1>1, <2>1 DEF At
<1>2. ASSUME NEW w \in Request, NEW c \in Conv, Inserts(q, w, c)
      PROVE  FALSE
  BY <1>1, <1>2 DEF Inserts, Writes, Moves
<1>3. ASSUME NEW r \in Requests, NEW w \in Request, Local(r, w)
      PROVE  \/ UNCHANGED convs /\ req[q] # NULL /\ Matching(req[q].bot, req[q].visitor) = {}
             \/ At(q, "insert")
  <2>1. /\ req[r] # NULL /\ req' = [req EXCEPT ![r] = w] /\ UNCHANGED convs
        /\ w.bot = req[r].bot /\ w.visitor = req[r].visitor
        /\ w.step = "insert" => Matching(w.bot, w.visitor) = {}
    BY <1>3 DEF Local, Moves, Of
  <2>2. CASE w.step = "insert" /\ q = r
    BY <2>1, <2>2
  <2>3. CASE q # r
    BY <2>1, <2>3, RequestAfter DEF At
  <2> QED
    BY <1>1, <2>1, <2>2, <2>3
<1>4. ASSUME NEW b \in Bots, DeleteBot(b)
      PROVE  At(q, "insert")
  BY <1>4 DEF DeleteBot, At
<1>5. At(q, "insert") => req[q] # NULL
  BY DEF At
<1>6. \/ UNCHANGED convs /\ req[q] # NULL /\ Matching(req[q].bot, req[q].visitor) = {}
      \/ At(q, "insert")
  BY <1>1, <1>3, <1>4
     DEF Kinds, Arrives, Finds, Inserts, Saves, Writes, Asks, Answers, Stores, Moves, Found, Answered
<1> QED
  BY <1>2, <1>5, <1>6

\* Every step keeps SerialInv.
LEMMA SerialNext ==
  ASSUME Base, SerialInv, Kinds
  PROVE  SerialInv'
<1>0. Types /\ ConvInv
  BY DEF Base
<1>1. \A q, r \in Requests :
            (/\ InProgress(q) /\ InProgress(r) /\ req[q].visitor = req[r].visitor
             /\ req[r].visitor \in Serial)' => q = r
  BY <1>0, OneAtATime
<1>2. ASSUME NEW r \in Requests, NEW w \in Request, NEW c \in Conv, Inserts(r, w, c)
      PROVE  /\ InProgress(r) /\ At(r, "insert")
             /\ w.bot = req[r].bot /\ w.visitor = req[r].visitor
  BY <1>2 DEF Inserts, Writes, Moves, Of, InProgress, At, Over
<1>3. ASSUME NEW b \in Bots, NEW v \in Serial
      PROVE  \A i, k \in Matching(b, v)' : i = k
  <2>1. \A i, k \in Matching(b, v) : i = k
    BY DEF SerialInv
  <2>2. ASSUME NEW r \in Requests, NEW w \in Request, NEW c \in Conv,
               Inserts(r, w, c), w.bot = b, w.visitor = v
        PROVE  Matching(b, v) = {}
    BY <1>2, <2>2 DEF SerialInv
  <2> QED
    BY <2>1, <2>2, MatchingNext
<1>4. ASSUME NEW r \in Requests, At(r, "insert")', (req[r].visitor \in Serial)'
      PROVE  Matching(req[r].bot, req[r].visitor)' = {}
  <2>1. /\ req[r] # NULL
        /\ \/ /\ UNCHANGED convs /\ Matching(req[r].bot, req[r].visitor) = {}
           \/ At(r, "insert") /\ \A w \in Request, c \in Conv : ~Inserts(r, w, c)
    BY <1>0, <1>4, InsertBefore
  <2>2. PICK b, v : b = req[r].bot /\ v = req[r].visitor
    OBVIOUS
  <2>3. req'[r].bot = b /\ req'[r].visitor = v
    BY <1>0, <2>1, <2>2, RequestKept
  <2>4. Matching(b, v) = {}
    BY <1>4, <2>1, <2>2, <2>3 DEF SerialInv
  <2>5. Matching(b, v)' = {}
    <3>1. CASE UNCHANGED convs
      BY <2>4, <3>1 DEF Matching
    <3>2. CASE At(r, "insert") /\ \A w \in Request, c \in Conv : ~Inserts(r, w, c)
      <4>1. ASSUME NEW q \in Requests, NEW w \in Request, NEW c \in Conv,
                   Inserts(q, w, c), w.visitor = v
            PROVE  FALSE
        <5>1. InProgress(q) /\ req[q].visitor = v
          BY <1>2, <4>1
        <5>2. InProgress(r)
          BY <3>2 DEF InProgress, At, Over
        <5>3. q = r
          BY <1>4, <2>2, <2>3, <5>1, <5>2 DEF SerialInv
        <5> QED
          BY <3>2, <4>1, <5>3
      <4> QED
        BY <2>4, <4>1, MatchingNext
    <3> QED
      BY <2>1, <3>1, <3>2
  <2>6. Matching(req[r].bot, req[r].visitor)' = Matching(b, v)'
    BY <2>3 DEF Matching
  <2> QED
    BY <2>5, <2>6
<1> QED
  BY <1>1, <1>3, <1>4 DEF SerialInv

\* The invariant for visitors who wait.
Waiting == Base /\ SerialInv

\* It holds initially.
LEMMA WaitingInit == Init => Waiting
  BY BaseInit, SerialInit DEF Waiting

\* Every step keeps it.
LEMMA WaitingNext ==
  ASSUME Waiting, [Next]_vars
  PROVE  Waiting'
<1>1. CASE Next
  BY <1>1, BaseNext, SerialNext DEF Waiting
<1>2. CASE UNCHANGED vars
  BY <1>2, BaseStutter DEF Waiting, SerialInv, InProgress, At, Matching, vars
<1> QED
  BY <1>1, <1>2

(***************************************************************************)
(* A visitor whose client waits for each answer has one conversation with  *)
(* a chatbot, although get_or_create has no unique constraint to fall back *)
(* on: no request of his is under way to insert a second one.              *)
(***************************************************************************)
THEOREM ChatOneConversationIfSerial == Spec => []OneConversationIfSerial
<1>1. Init => Waiting
  BY WaitingInit
<1>2. Waiting /\ [Next]_vars => Waiting'
  BY WaitingNext
<1>3. Waiting => OneConversationIfSerial
  <2> SUFFICES ASSUME Waiting, NEW b \in Bots, NEW v \in Serial
               PROVE  Cardinality(Matching(b, v)) <= 1
    BY DEF OneConversationIfSerial
  <2>1. \A i, k \in Matching(b, v) : i = k
    BY DEF Waiting, SerialInv
  <2>2. CASE Matching(b, v) = {}
    BY <2>2, FS_EmptySet
  <2>3. CASE \E i \in Matching(b, v) : TRUE
    <3>1. PICK i : Matching(b, v) = {i}
      BY <2>1, <2>3
    <3>2. Cardinality({i}) = 1
      BY FS_Singleton
    <3> QED
      BY <3>1, <3>2
  <2> QED
    BY <2>2, <2>3
<1> QED
  BY <1>1, <1>2, <1>3, PTL DEF Spec

-----------------------------------------------------------------------------
(* The dialogue of a visitor who waits. *)

\* Initially nothing was said.
LEMMA DialogueInit ==
  ASSUME Init
  PROVE  DialogueInv
  BY DEF Init, DialogueInv, Rows

\* What was abandoned stays so.
LEMMA AbandonedNext ==
  ASSUME Types, Kinds, NEW v, Abandoned(v)
  PROVE  Abandoned(v)'
<1>1. PICK q \in Requests : /\ req[q] # NULL /\ req[q].visitor = v
                            /\ req[q].step \in {"gone", "failed"}
  BY DEF Abandoned
<1>2. ASSUME NEW r \in Requests, NEW w \in Request, req' = [req EXCEPT ![r] = w], q # r
      PROVE  req'[q] = req[q]
  BY <1>2, RequestAfter
<1>3. ASSUME NEW b \in Bots, DeleteBot(b)
      PROVE  req'[q] = req[q]
  BY <1>3 DEF DeleteBot
<1>4. \A t : ~Alike("gone", t) /\ ~Alike("failed", t)
  BY DEF Alike, Early, Found, Asked
<1>5. req'[q] = req[q]
  BY <1>1, <1>2, <1>3, <1>4
     DEF Kinds, Local, Arrives, Finds, Inserts, Saves, Writes, Asks, Answers, Stores, Moves
<1> QED
  BY <1>1, <1>5 DEF Abandoned

\* A message of a visitor was one before, unless it is new.
LEMMA ByBefore ==
  ASSUME Base, Kinds, NEW v, NEW l \in 1 .. Len(messages), messages'[l] \in {NULL, messages[l]},
         By(l, v)'
  PROVE  By(l, v)
<1>1. messages[l] # NULL /\ messages'[l] = messages[l]
  BY DEF By
<1>2. l \in Rows
  BY <1>1 DEF Rows
<1>3. messages[l].req \in Requests /\ req[messages[l].req] # NULL
  BY <1>2, OwnConversation DEF Base
<1>4. req'[messages[l].req].visitor = req[messages[l].req].visitor
  BY <1>3, RequestKept DEF Base
<1> QED
  BY <1>1, <1>4 DEF By

\* A request that has asked and whose answer is awaited is under way.
LEMMA Awaited ==
  ASSUME Types, StoreInv, NEW i \in Rows, NEW r \in Requests, messages[i].req = r,
         messages[i].sender = "user", req[r] # NULL, ~Abandoned(req[r].visitor)
  PROVE  req[r].step \in Asked \cup Answered /\ (req[r].step \in Asked => InProgress(r))
<1>1. StoreOK(r) /\ i \in Stored(r, "user")
  BY DEF StoreInv, Stored
<1>2. req[r].step \notin Early \cup Found
  BY <1>1 DEF StoreOK
<1>3. req[r].step \notin {"gone", "failed"}
  BY DEF Abandoned
<1>4. req[r].step \in Step \cup Over
  BY RequestFields DEF Types, TypeOK
<1> QED
  BY <1>2, <1>3, <1>4 DEF Step, Over, Early, Found, Asked, Answered, InProgress

\* A message that is there already, after a step.
LEMMA DialogueBefore ==
  ASSUME Base, Kinds, DialogueInv, NEW i \in Rows, NEW r \in Requests, NEW v \in Serial,
         messages[i].req = r, messages[i].sender = "user", (req[r].visitor = v)', ~Abandoned(v)'
  PROVE  /\ req[r] # NULL /\ req[r].visitor = v /\ ~Abandoned(v) /\ Dialogue(i, r, v)
<1>1. req[r] # NULL
  BY OwnConversation DEF Base
<1>2. req[r].visitor = v
  BY <1>1, RequestKept DEF Base
<1>3. ~Abandoned(v)
  BY AbandonedNext DEF Base
<1> QED
  BY <1>1, <1>2, <1>3 DEF DialogueInv

\* Nothing is stored and nothing deleted.
LEMMA DialogueQuiet ==
  ASSUME Base, Kinds, NEW i \in Rows, NEW r \in Requests, NEW v \in Serial, Dialogue(i, r, v),
         UNCHANGED messages, req[r].step \in Answered <=> req'[r].step \in Answered
  PROVE  Dialogue(i, r, v)'
<1>1. \A l \in 1 .. Len(messages) : By(l, v)' => By(l, v)
  BY ByBefore
<1>2. Rows' = Rows
  BY SameRows
<1> QED
  BY <1>1, <1>2 DEF Dialogue

\* A message is stored.
LEMMA DialogueStores ==
  ASSUME Waiting, StoreInv, DialogueInv, Kinds,
         NEW p \in Requests, NEW w \in Request, NEW m \in Message, Asks(p, w, m) \/ Answers(p, w, m),
         NEW i \in Rows', NEW r \in Requests, NEW v \in Serial, messages'[i].req = r,
         messages'[i].sender = "user", (req[r].visitor = v)', ~Abandoned(v)'
  PROVE  Dialogue(i, r, v)'
<1>0. Types /\ Base /\ ConvInv /\ SerialInv
  BY DEF Waiting, Base
<1>1. /\ req[p] # NULL /\ req' = [req EXCEPT ![p] = w] /\ messages' = Append(messages, m)
      /\ m.req = p /\ w.visitor = req[p].visitor
      /\ req[p].step \in {"ask", "answer"}
  BY DEF Asks, Answers, Stores, Moves, Of
<1>2. req'[p] = w /\ (r # p => req'[r] = req[r])
  BY <1>0, <1>1, RequestAfter
<1>3. PICK n \in Nat :
         /\ n = Len(messages) + 1 /\ n \notin Rows /\ Rows' = Rows \cup {n} /\ Len(messages)' = n
         /\ messages'[n] = m /\ \A x \in Rows : messages'[x] = messages[x]
         /\ \A x \in 1 .. Len(messages) : messages'[x] = messages[x]
  BY <1>0, <1>1, Appended
<1>4. \A l \in 1 .. Len(messages) : By(l, v)' => By(l, v)
  BY <1>0, <1>3, ByBefore
<1>5. Len(messages) \in Nat /\ Rows \subseteq 1 .. Len(messages)
  BY <1>0 DEF Types, TypeOK, Rows
<1>6. 1 .. n = (1 .. Len(messages)) \cup {n}
  BY <1>3, <1>5
<1>7. CASE i = n
  <2>1. r = p /\ w.step \notin Answered
    BY <1>1, <1>3, <1>7 DEF Asks, Answers, Answered
  <2>2. \A l \in 1 .. n : ~(n < l)
    BY <1>3
  <2> QED
    BY <1>2, <1>3, <1>7, <2>1, <2>2 DEF Dialogue
<1>8. CASE i # n
  <2>1. i \in Rows /\ messages[i].req = r /\ messages[i].sender = "user"
    BY <1>3, <1>8
  <2>2. /\ req[r] # NULL /\ req[r].visitor = v /\ ~Abandoned(v) /\ Dialogue(i, r, v)
    BY <1>0, <2>1, DialogueBefore
  <2>3. req[r].step \in Asked \cup Answered /\ (req[r].step \in Asked => InProgress(r))
    BY <1>0, <2>1, <2>2, Awaited
  <2>4. CASE req[r].step \in Answered
    <3>1. r # p /\ req'[r] = req[r]
      BY <1>1, <1>2, <2>4 DEF Answered
    <3>2. PICK k \in Rows :
             /\ k > i /\ messages[k].sender = "bot" /\ messages[k].req = r
             /\ \A l \in 1 .. Len(messages) : i < l /\ l < k => ~By(l, v)
      BY <2>2, <2>4 DEF Dialogue
    <3>3. k \in Rows' /\ messages'[k] = messages[k] /\ k \in 1 .. Len(messages)
      BY <1>3, <1>5
    <3>4. ASSUME NEW l \in 1 .. n, i < l, l < k
          PROVE  ~By(l, v)'
      <4>1. l \in 1 .. Len(messages)
        BY <1>3, <1>5, <3>3, <3>4
      <4> QED
        BY <1>4, <3>2, <3>4, <4>1
    <3> QED
      BY <1>3, <2>4, <3>1, <3>2, <3>3, <3>4 DEF Dialogue
  <2>5. CASE req[r].step \in Asked
    <3>1. \A l \in 1 .. Len(messages) : i < l => ~By(l, v)
      BY <2>2, <2>5 DEF Dialogue, Asked, Answered
    <3>2. \A l \in 1 .. Len(messages) : i < l => ~By(l, v)'
      BY <1>4, <3>1
    <3>3. CASE r = p
      <4>1. Answers(p, w, m)
        BY <2>5, <3>3 DEF Asks, Asked
      <4>2. w.step \in Answered /\ m.sender = "bot"
        BY <4>1 DEF Answers
      <4>3. n \in Rows' /\ n > i
        BY <1>3, <1>5, <2>1
      <4>4. \A l \in 1 .. n : i < l /\ l < n => ~By(l, v)'
        BY <1>3, <1>5, <3>2
      <4> QED
        BY <1>1, <1>2, <1>3, <3>3, <4>2, <4>3, <4>4 DEF Dialogue
    <3>4. CASE r # p
      <4>1. InProgress(p)
        BY <1>1 DEF InProgress, Over
      <4>2. req[p].visitor # v
        BY <1>0, <2>2, <2>3, <2>5, <3>4, <4>1 DEF SerialInv
      <4>3. ~By(n, v)'
        BY <1>1, <1>2, <1>3, <4>2 DEF By
      <4>4. \A l \in 1 .. n : i < l => ~By(l, v)'
        BY <1>6, <3>2, <4>3
      <4> QED
        BY <1>2, <1>3, <2>5, <3>4, <4>4 DEF Dialogue, Asked, Answered
    <3> QED
      BY <3>3, <3>4
  <2> QED
    BY <2>3, <2>4, <2>5
<1> QED
  BY <1>7, <1>8

\* A chatbot is deleted.
LEMMA DialogueDeletes ==
  ASSUME Base, DialogueInv, Kinds, NEW b \in Bots, DeleteBot(b),
         NEW i \in Rows', NEW r \in Requests, NEW v \in Serial, messages'[i].req = r,
         messages'[i].sender = "user", (req[r].visitor = v)', ~Abandoned(v)'
  PROVE  Dialogue(i, r, v)'
<1>0. Types /\ ConvInv /\ MessageInv
  BY DEF Base
<1>1. /\ Rows' = {x \in Rows : req[messages[x].req].bot # b}
      /\ \A x \in Rows' : messages'[x] = messages[x]
  BY <1>0, DeletedRows
<1>2. /\ req' = req /\ Len(messages)' = Len(messages)
      /\ \A l \in 1 .. Len(messages) : messages'[l] \in {NULL, messages[l]}
  BY <1>0, Cascade
<1>3. \A l \in 1 .. Len(messages) : By(l, v)' => By(l, v)
  BY <1>2, ByBefore
<1>4. i \in Rows /\ messages[i].req = r /\ messages[i].sender = "user" /\ req[r].bot # b
  BY <1>1
<1>5. Dialogue(i, r, v)
  BY <1>4, DialogueBefore
<1>6. CASE req[r].step \in Answered
  <2>1. PICK k \in Rows :
           /\ k > i /\ messages[k].sender = "bot" /\ messages[k].req = r
           /\ \A l \in 1 .. Len(messages) : i < l /\ l < k => ~By(l, v)
    BY <1>5, <1>6 DEF Dialogue
  <2>2. k \in Rows' /\ messages'[k] = messages[k]
    BY <1>1, <1>4, <2>1
  <2> QED
    BY <1>2, <1>3, <1>6, <2>1, <2>2 DEF Dialogue
<1>7. CASE req[r].step \notin Answered
  BY <1>2, <1>3, <1>5, <1>7 DEF Dialogue
<1> QED
  BY <1>6, <1>7

\* Every step keeps DialogueInv.
LEMMA DialogueNext ==
  ASSUME Waiting, Types', StoreInv, DialogueInv, Kinds
  PROVE  DialogueInv'
<1>0. Types /\ Base /\ MessageInv
  BY DEF Waiting, Base
<1>1. ASSUME NEW i \in Rows', NEW r \in Requests, NEW v \in Serial,
             messages'[i].req = r, messages'[i].sender = "user",
             (req[r].visitor = v)', ~Abandoned(v)'
      PROVE  Dialogue(i, r, v)'
  <2>1. ASSUME UNCHANGED messages, req[r] # NULL => (req[r].step \in Answered <=> req'[r].step \in Answered)
        PROVE  Dialogue(i, r, v)'
    <3>1. i \in Rows /\ messages[i].req = r /\ messages[i].sender = "user"
      BY <1>1, <2>1, SameRows
    <3>2. req[r] # NULL /\ Dialogue(i, r, v)
      BY <1>0, <1>1, <3>1, DialogueBefore
    <3> QED
      BY <1>0, <2>1, <3>1, <3>2, DialogueQuiet
  <2>2. ASSUME NEW p \in Requests, NEW w \in Request, req' = [req EXCEPT ![p] = w],
               UNCHANGED messages,
               req[p] # NULL => (req[p].step \in Answered <=> w.step \in Answered)
        PROVE  Dialogue(i, r, v)'
    <3>1. req'[p] = w /\ (r # p => req'[r] = req[r])
      BY <1>0, <2>2, RequestAfter
    <3> QED
      BY <2>1, <2>2, <3>1
  <2>3. CASE \E p \in Requests, w \in Request : Local(p, w) \/ Arrives(p, w)
    <3>1. \A s, t : Alike(s, t) => (s \in Answered <=> t \in Answered)
      BY DEF Alike, Early, Found, Asked, Answered
    <3> QED
      BY <2>2, <2>3, <3>1 DEF Local, Arrives, Moves
  <2>4. CASE \E p \in Requests, w \in Request, k \in ConvIds : Finds(p, k, w)
    BY <2>2, <2>4 DEF Finds, Moves, Found, Answered
  <2>5. CASE \E p \in Requests, w \in Request, c \in Conv : Inserts(p, w, c) \/ Saves(p, w, c)
    BY <2>2, <2>5 DEF Inserts, Saves, Writes, Moves, Answered
  <2>6. CASE \E p \in Requests, w \in Request, m \in Message : Asks(p, w, m) \/ Answers(p, w, m)
    BY <1>1, <2>6, DialogueStores
  <2>7. CASE \E b \in Bots : DeleteBot(b)
    BY <1>0, <1>1, <2>7, DialogueDeletes
  <2> QED
    BY <2>3, <2>4, <2>5, <2>6, <2>7 DEF Kinds
<1>2. ASSUME NEW i \in Rows'
      PROVE  (LET r == messages[i].req
                  v == req[r].visitor IN
              messages[i].sender = "user" /\ v \in Serial /\ ~Abandoned(v) => Dialogue(i, r, v))'
  <2>1. messages'[i].req \in Requests
    BY MessageFields DEF Rows, Types, TypeOK
  <2>2. PICK r, v : r = messages'[i].req /\ v = req'[r].visitor
    OBVIOUS
  <2>3. (messages[i].sender = "user")' /\ v \in Serial /\ ~Abandoned(v)' => Dialogue(i, r, v)'
    BY <1>1, <2>1, <2>2
  <2> QED
    BY <2>2, <2>3 DEF Abandoned, Dialogue, By
<1> QED
  BY <1>2 DEF DialogueInv

\* The last of some places: with one of them, every later one.
LEMMA LastOfUpward ==
  ASSUME Types, NEW P, P \subseteq Rows, NEW i \in LastOf(P), NEW k \in P, k > i
  PROVE  k \in LastOf(P)
<1>1. Len(messages) \in Nat /\ P \subseteq 1 .. Len(messages)
  BY DEF Types, TypeOK, Rows
<1> DEFINE A == {x \in P : x > k}
           B == {x \in P : x > i}
<1>2. IsFiniteSet(1 .. Len(messages))
  BY <1>1, FS_Interval
<1>3. IsFiniteSet(B)
  <2>1. B \subseteq 1 .. Len(messages)
    BY <1>1
  <2> QED
    BY <1>2, <2>1, FS_Subset
<1>4. A \subseteq B
  <2>1. i \in Int /\ k \in Int /\ \A x \in P : x \in Int
    BY <1>1 DEF LastOf
  <2>2. ASSUME NEW x \in P, x > k
        PROVE  x > i
    <3>1. x \in Int
      BY <2>1
    <3> QED
      BY <2>1, <2>2, <3>1
  <2> QED
    BY <2>2
<1>5. IsFiniteSet(A) /\ Cardinality(A) <= Cardinality(B)
  BY <1>3, <1>4, FS_Subset
<1>6. Cardinality(A) \in Nat /\ Cardinality(B) \in Nat
  BY <1>3, <1>5, FS_CardinalityType
<1>7. Cardinality(B) < HistoryLimit
  BY DEF LastOf
<1>8. Cardinality(A) < HistoryLimit
  <2> HIDE DEF A, B
  <2> QED
    BY <1>5, <1>6, <1>7, ChatConstants
<1> QED
  BY <1>8 DEF LastOf

(***************************************************************************)
(* The history in a waiting client's prompt is a dialogue: every question  *)
(* get_conversation_history returns is followed by its own answer, and the *)
(* question just saved is not among them, wherever the limit cuts.         *)
(***************************************************************************)
THEOREM ChatHistoryIsDialogue == Spec => []HistoryIsDialogue
<1> DEFINE Inv == Waiting /\ StoreInv /\ DialogueInv
<1>1. Init => Inv
  BY WaitingInit, StoreInit, DialogueInit
<1>2. Inv /\ [Next]_vars => Inv'
  <2> SUFFICES ASSUME Inv, [Next]_vars
               PROVE  Inv'
    OBVIOUS
  <2>1. Waiting'
    BY WaitingNext
  <2>2. CASE Next
    <3>1. Base /\ Kinds /\ Types'
      BY <2>2, BaseNext DEF Waiting, Base
    <3>2. StoreInv' /\ DialogueInv'
      BY <3>1, StoreNext, DialogueNext
    <3> QED
      BY <2>1, <3>2
  <2>3. CASE UNCHANGED vars
    BY <2>1, <2>3
       DEF StoreInv, StoreOK, Stored, DialogueInv, Dialogue, By, Abandoned, Rows, vars
  <2> QED
    BY <2>2, <2>3
<1>3. Inv => HistoryIsDialogue
  <2> SUFFICES ASSUME Inv, NEW r \in Requests, At(r, "history"), req[r].visitor \in Serial,
                      ~Abandoned(req[r].visitor), NEW i \in History(r), messages[i].sender = "user"
               PROVE  /\ messages[i].req # r
                      /\ \E k \in History(r) :
                            /\ k > i /\ \A l \in History(r) : l > i => l >= k
                            /\ messages[k].sender = "bot" /\ messages[k].req = messages[i].req
    BY DEF HistoryIsDialogue
  <2>0. Types /\ ConvInv /\ MessageInv /\ SerialInv
    BY DEF Waiting, Base
  <2>1. /\ req[r] # NULL /\ req[r].step = "history" /\ req[r].conv # NULL /\ InProgress(r)
    BY <2>0, Current DEF ReqOK, Asked, At, InProgress, Over
  <2> DEFINE P == {x \in Rows : /\ messages[x].conv = req[r].conv
                                /\ ~(messages[x].req = r /\ messages[x].sender = "user")}
             q == messages[i].req
             v == req[r].visitor
  <2>2. History(r) = LastOf(P) /\ P \subseteq Rows /\ LastOf(P) \subseteq P
    BY DEF History, LastOf
  <2>3. i \in Rows /\ messages[i].conv = req[r].conv /\ q # r /\ i \in P
    BY <2>2
  <2>4. \A x \in Rows : messages[x].conv = req[r].conv =>
           /\ messages[x].req \in Requests /\ req[messages[x].req] # NULL
           /\ req[messages[x].req].visitor = v
    <3>1. ASSUME NEW x \in Rows, messages[x].conv = req[r].conv
          PROVE  /\ messages[x].req \in Requests /\ req[messages[x].req] # NULL
                 /\ req[messages[x].req].visitor = v
      <4>1. /\ messages[x].req \in Requests /\ req[messages[x].req] # NULL
            /\ convs[req[r].conv] # NULL
            /\ convs[req[r].conv].visitor = req[messages[x].req].visitor
        BY <2>0, <3>1, OwnConversation
      <4>2. convs[req[r].conv].visitor = v
        BY <2>0, <2>1, <4>1 DEF ConvInv
      <4> QED
        BY <4>1, <4>2
    <3> QED
      BY <3>1
  <2>5. q \in Requests /\ req[q] # NULL /\ req[q].visitor = v
    BY <2>3, <2>4
  <2>6. req[q].step \in Answered
    <3>1. req[q].step \in Asked \cup Answered /\ (req[q].step \in Asked => InProgress(q))
      BY <2>0, <2>3, <2>5, Awaited
    <3>2. ~InProgress(q) \/ req[q].step \in Answered
      BY <2>0, <2>1, <2>3, <2>5 DEF SerialInv
    <3> QED
      BY <3>1, <3>2
  <2>7. Dialogue(i, q, v)
    BY <2>3, <2>5 DEF DialogueInv
  <2>8. PICK k \in Rows :
           /\ k > i /\ messages[k].sender = "bot" /\ messages[k].req = q
           /\ \A l \in 1 .. Len(messages) : i < l /\ l < k => ~By(l, v)
    BY <2>6, <2>7 DEF Dialogue
  <2>9. k \in P
    <3>1. messages[k].conv = req[q].conv /\ messages[i].conv = req[q].conv
      BY <2>0, <2>3, <2>8 DEF MessageInv
    <3> QED
      BY <2>3, <2>8, <3>1
  <2>10. k \in History(r)
    BY <2>0, <2>2, <2>8, <2>9, LastOfUpward
  <2>11. ASSUME NEW l \in History(r), l > i
         PROVE  l >= k
    <3>1. l \in Rows /\ messages[l].conv = req[r].conv
      BY <2>2
    <3>2. l \in 1 .. Len(messages) /\ messages[l] # NULL /\ k \in 1 .. Len(messages)
          /\ i \in 1 .. Len(messages) /\ Len(messages) \in Nat
      BY <2>0, <2>3, <3>1 DEF Rows, Types, TypeOK
    <3>3. By(l, v)
      BY <2>4, <3>1, <3>2 DEF By
    <3>4. ~(l < k)
      BY <2>8, <2>11, <3>2, <3>3
    <3> QED
      BY <3>2, <3>4
  <2> QED
    BY <2>3, <2>8, <2>10, <2>11
<1> QED
  BY <1>1, <1>2, <1>3, PTL DEF Spec
=============================================================================
