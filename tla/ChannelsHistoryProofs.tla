----------------------- MODULE ChannelsHistoryProofs -----------------------
(***************************************************************************)
(* Proofs of the properties of Channels that rest on what happened before: *)
(* the visitor's one session, the webhook of a connected chatbot and the   *)
(* owner's limit.  They use the invariant of ChannelsProofs.               *)
(***************************************************************************)
EXTENDS ChannelsProofs

-----------------------------------------------------------------------------
(* One session per browser. *)

Asking(i) == call[i] # NULL /\ call[i].kind = "session"

\* The token that the store holds.
StoredToken(token) == store # NULL /\ store.token = token

(***************************************************************************)
(* Unless two session requests overlapped or a token could not be stored:  *)
(* a request that is under way finds the store empty, and the tokens that  *)
(* pages hold, messages carry and the server accepted are the stored one.  *)
(***************************************************************************)
SessionInv ==
    ~split =>
        /\ \A i, j \in Slots : Asking(i) /\ Asking(j) => i = j
        /\ \A i \in Slots : Asking(i) => store = NULL
        /\ \A p \in Pages : page[p] # NULL /\ page[p].token # NULL => StoredToken(page[p].token)
        /\ \A i \in Slots : call[i] # NULL /\ call[i].kind = "chat" /\ call[i].token # NULL
                            => StoredToken(call[i].token)
        /\ \A token \in spoke : StoredToken(token)

\* Steps that store nothing, open no session and bring no new token into use.
LEMMA SessionKept ==
  ASSUME SessionInv, UNCHANGED store, split' = split,
         \A p \in Pages : page'[p] # NULL /\ page'[p].token # NULL =>
             StoredToken(page'[p].token) \/ (page[p] # NULL /\ page'[p].token = page[p].token),
         \A i \in Slots : Asking(i)' => Asking(i),
         \A i \in Slots : call'[i] # NULL /\ call'[i].kind = "chat" /\ call'[i].token # NULL =>
             \/ call[i] # NULL /\ call[i].kind = "chat" /\ call'[i].token = call[i].token
             \/ \E p \in Pages : page[p] # NULL /\ call'[i].token = page[p].token,
         \A token \in spoke' : token \in spoke \/
             \E i \in Slots : call[i] # NULL /\ call[i].kind = "chat" /\ call[i].token # NULL
                              /\ token = call[i].token
  PROVE  SessionInv'
<1>. SUFFICES ASSUME ~split PROVE SessionInv'
  BY DEF SessionInv
<1>1. \A token : StoredToken(token)' <=> StoredToken(token)
  BY DEF StoredToken
<1>. QED  BY <1>1 DEF SessionInv

\* fetch() again: which slot, and with what.
LEMMA FetchEffect ==
  ASSUME WidgetTypes, NEW p, NEW kind, NEW token, Fetch(p, kind, token)
  PROVE  \E s \in Slots : /\ call[s] = NULL
                          /\ call'[s].kind = kind /\ call'[s].token = token
                          /\ \A i \in Slots \ {s} : call'[i] = call[i]
  BY DEF Fetch, WidgetTypes

LEMMA SessionStep ==
  ASSUME WidgetOK, SessionInv, VisitorActs \/ WidgetRuns
  PROVE  SessionInv'
<1>1. ASSUME NEW p \in Pages, LoadPage(p) PROVE SessionInv'
  <2>1. UNCHANGED <<store, spoke, split>>
    BY <1>1 DEF LoadPage
  <2>2. page'[p].token = NULL /\ \A q \in Pages \ {p} : page'[q] = page[q]
    <3>1. Unloaded.token = NULL /\ [Unloaded EXCEPT !.phase = "ready", !.shows = cached[p]].token = NULL
      BY DEF Unloaded
    <3>2. page' \in {[page EXCEPT ![p] = Unloaded],
                     [page EXCEPT ![p] = [Unloaded EXCEPT !.phase = "ready", !.shows = cached[p]]]}
      BY <1>1 DEF LoadPage
    <3>. QED  BY <3>1, <3>2 DEF WidgetOK, WidgetTypes
  <2>3. UNCHANGED call \/ Fetch(p, "config", NULL)
    BY <1>1 DEF LoadPage
  <2>4. \A i \in Slots : call'[i] # NULL => call'[i].kind = "config" \/ call'[i] = call[i]
    BY <2>3, FetchEffect DEF WidgetOK
  <2>. QED  BY <2>1, <2>2, <2>4, SessionKept DEF Asking
<1>2. ASSUME NEW p \in Pages, NEW closed \in BOOLEAN, LeavePage(p, closed) PROVE SessionInv'
  <2>1. UNCHANGED <<store, spoke, split>>
    BY <1>2 DEF LeavePage
  <2>2. /\ \A q \in Pages : page'[q] # NULL => page'[q] = page[q]
        /\ \A i \in Slots : call'[i] # NULL => call'[i] = call[i]
    BY <1>2 DEF LeavePage, WidgetOK, WidgetTypes
  <2>. QED  BY <2>1, <2>2, SessionKept DEF Asking
<1>3. ASSUME NEW p \in Pages, ToggleChat(p) PROVE SessionInv'
  <2>1. UNCHANGED <<store, spoke>> /\ page[p] # NULL /\ page[p] \in Shell
    BY <1>3 DEF ToggleChat, Ready, WidgetOK, WidgetTypes
  <2>. DEFINE opened == [page EXCEPT ![p].open = ~@]
  <2>2. opened[p].token = page[p].token /\ \A q \in Pages \ {p} : opened[q] = page[q]
    BY <2>1 DEF WidgetOK, WidgetTypes, Shell
  <2>3. CASE page' = opened /\ UNCHANGED <<call, split>>
    BY <2>1, <2>2, <2>3, SessionKept DEF Asking
  <2>4. CASE HasSession /\ page' = [opened EXCEPT ![p].token = store.token] /\ UNCHANGED <<call, split>>
    <3>1. page'[p].token = store.token /\ \A q \in Pages \ {p} : page'[q] = page[q]
      BY <2>1, <2>4 DEF WidgetOK, WidgetTypes, Shell
    <3>2. StoredToken(store.token)
      BY <2>4 DEF StoredToken, HasSession
    <3>. QED  BY <2>1, <2>4, <3>1, <3>2, SessionKept DEF Asking
  <2>5. CASE ~HasSession /\ page' = opened /\ Fetch(p, "session", NULL)
             /\ split' = (split \/ Pending("session") # {})
    <3>. SUFFICES ASSUME ~split' PROVE SessionInv'
      BY <2>1 DEF SessionInv
    <3>1. ~split /\ \A i \in Slots : ~Asking(i)
      BY <2>5 DEF Pending, Asking
    <3>2. PICK s \in Slots : /\ call[s] = NULL
                             /\ call'[s].kind = "session" /\ call'[s].token = NULL
                             /\ \A i \in Slots \ {s} : call'[i] = call[i]
      BY <2>5, FetchEffect DEF WidgetOK
    <3>3. store = NULL /\ store' = NULL
      BY <2>1, <2>5 DEF HasSession
    <3>4. \A i \in Slots : Asking(i)' => i = s
      BY <3>1, <3>2 DEF Asking
    <3>5. \A q \in Pages : page'[q] # NULL /\ page'[q].token # NULL =>
                            page[q] # NULL /\ page[q].token # NULL
      BY <2>1, <2>2, <2>5
    <3>6. \A i \in Slots : call'[i] # NULL /\ call'[i].kind = "chat" => call'[i] = call[i]
      BY <3>2
    <3>. QED  BY <2>1, <3>1, <3>3, <3>4, <3>5, <3>6 DEF SessionInv, StoredToken
  <2>. QED  BY <1>3, <2>3, <2>4, <2>5 DEF ToggleChat
<1>4. ASSUME NEW p \in Pages, SendMessage(p) PROVE SessionInv'
  <2>1. UNCHANGED <<store, spoke, split>> /\ page[p] # NULL /\ page[p] \in Shell
    BY <1>4 DEF SendMessage, Ready, WidgetOK, WidgetTypes
  <2>2. page'[p].token = page[p].token /\ \A q \in Pages \ {p} : page'[q] = page[q]
    BY <1>4, <2>1 DEF SendMessage, WidgetOK, WidgetTypes, Shell
  <2>3. Fetch(p, "chat", page[p].token)
    BY <1>4 DEF SendMessage
  <2>4. \A i \in Slots : call'[i] # NULL => \/ call'[i] = call[i]
                                            \/ call'[i].kind = "chat" /\ call'[i].token = page[p].token
    BY <2>3, FetchEffect DEF WidgetOK
  <2>. QED  BY <2>1, <2>2, <2>4, SessionKept DEF Asking
<1>5. ASSUME NEW i \in Slots, Refuse(i) \/ GetConfig(i) \/ PostSession(i) \/ PostChat(i) PROVE SessionInv'
  <2>1. UNCHANGED <<page, store, split>> /\ call[i] # NULL /\ call[i] \in Call
    BY <1>5 DEF Refuse, GetConfig, PostSession, PostChat, Asked, WidgetOK, WidgetTypes
  <2>2. ASSUME NEW ok, NEW token, NEW config, Answer(i, ok, token, config)
        PROVE  /\ call'[i].kind = call[i].kind
               /\ call'[i].token = IF ok THEN token ELSE call[i].token
               /\ \A j \in Slots \ {i} : call'[j] = call[j]
    BY <2>1, <2>2 DEF Answer, Call, WidgetOK, WidgetTypes
  <2>3. /\ call'[i].kind = call[i].kind
        /\ call[i].kind = "chat" => call'[i].token = call[i].token
        /\ \A j \in Slots \ {i} : call'[j] = call[j]
    BY <1>5, <2>2 DEF Refuse, GetConfig, PostSession, PostChat, Asked
  <2>4. \A token \in spoke' : token \in spoke \/
           (call[i].kind = "chat" /\ call[i].token # NULL /\ token = call[i].token)
    BY <1>5 DEF Refuse, GetConfig, PostSession, PostChat, Asked
  <2>5. \A j \in Slots : call'[j] # NULL =>
           call[j] # NULL /\ call'[j].kind = call[j].kind
           /\ (call[j].kind = "chat" => call'[j].token = call[j].token)
    BY <2>1, <2>3
  <2>. QED  BY <2>1, <2>4, <2>5, SessionKept DEF Asking
<1>6. ASSUME NEW i \in Slots, SessionArrives(i) PROVE SessionInv'
  <2>. DEFINE p == call[i].page
  <2>. SUFFICES ASSUME ~split' PROVE SessionInv'
    BY DEF SessionInv
  <2>1. /\ Asking(i) /\ call[i] \in Call /\ p \in Pages /\ page[p] \in Shell
        /\ UNCHANGED spoke /\ ~split
    BY <1>6 DEF SessionArrives, Answered, Asking, WidgetOK, WidgetTypes, CallInv, Call
  <2>2. /\ page'[p].token = call[i].token /\ \A q \in Pages \ {p} : page'[q] = page[q]
        /\ call'[i] = NULL /\ \A j \in Slots \ {i} : call'[j] = call[j]
    BY <1>6, <2>1 DEF SessionArrives, Handled, WidgetOK, WidgetTypes, Shell
  <2>3. call[i].token = NULL \/ (store' # NULL /\ store'.token = call[i].token)
    <3>1. CASE store' = [token |-> call[i].token]
      <4>1. store' \in Session
        BY <2>1, <3>1 DEF Session, Call
      <4>. QED  BY <3>1, <4>1, ShellAssumption
    <3>. QED  BY <1>6, <3>1 DEF SessionArrives
  <2>4. store = NULL
    BY <2>1 DEF SessionInv
  <2>5. \A j \in Slots : ~Asking(j)'
    BY <2>1, <2>2 DEF SessionInv, Asking
  <2>6. /\ \A q \in Pages : page[q] # NULL => page[q].token = NULL
        /\ \A j \in Slots : call[j] # NULL /\ call[j].kind = "chat" => call[j].token = NULL
        /\ spoke = {}
    BY <2>1, <2>4 DEF SessionInv, StoredToken
  <2>7. \A q \in Pages : page'[q] # NULL /\ page'[q].token # NULL =>
                          store' # NULL /\ store'.token = page'[q].token
    BY <2>2, <2>3, <2>6
  <2>. QED  BY <2>1, <2>2, <2>5, <2>6, <2>7 DEF SessionInv, StoredToken
<1>7. ASSUME NEW i \in Slots, ConfigArrives(i) \/ ChatArrives(i) \/ CallFails(i) PROVE SessionInv'
  <2>. DEFINE p == call[i].page
  <2>1. /\ call[i] # NULL /\ call[i] \in Call /\ p \in Pages /\ page[p] \in Shell
        /\ UNCHANGED <<store, spoke, split>> /\ Handled(i)
    BY <1>7 DEF ConfigArrives, ChatArrives, CallFails, Answered, WidgetOK, WidgetTypes, CallInv, Call
  <2>2. page'[p].token = page[p].token /\ \A q \in Pages \ {p} : page'[q] = page[q]
    <3>1. CASE ConfigArrives(i)
      <4>1. \/ page' = [page EXCEPT ![p].phase = "dead"]
            \/ page' = [page EXCEPT ![p].phase = "ready", ![p].shows = call[i].config]
        BY <3>1 DEF ConfigArrives
      <4>. QED  BY <2>1, <4>1 DEF WidgetOK, WidgetTypes, Shell
    <3>2. CASE ChatArrives(i)
      BY <2>1, <3>2 DEF ChatArrives, WidgetOK, WidgetTypes, Shell
    <3>3. CASE CallFails(i)
      <4>1. AfterFailure(page[p], call[i].kind).token = page[p].token
        BY <2>1 DEF AfterFailure, Shell, Call
      <4>. QED  BY <2>1, <3>3, <4>1 DEF CallFails, WidgetOK, WidgetTypes
    <3>. QED  BY <1>7, <3>1, <3>2, <3>3
  <2>3. \A j \in Slots : call'[j] # NULL => call'[j] = call[j]
    BY <2>1 DEF Handled, WidgetOK, WidgetTypes
  <2>4. page[p] # NULL
    BY <2>1, ShellAssumption
  <2>. QED  BY <2>1, <2>2, <2>3, <2>4, SessionKept DEF Asking
<1>8. ASSUME NEW token \in Tokens, Expire(token) PROVE SessionInv'
  BY <1>8, SessionKept DEF Expire, Asking
<1>. QED
  BY <1>1, <1>2, <1>3, <1>4, <1>5, <1>6, <1>7, <1>8 DEF VisitorActs, WidgetRuns, CallEnds

-----------------------------------------------------------------------------
(* The webhook of a connected chatbot. *)

HookOf(d) == [bot |-> dialog[d].bot, secret |-> dialog[d].secret]

(***************************************************************************)
(* A connect request that nothing disturbed finds the webhook it set still *)
(* in place when it saves, and no other request is for its chatbot.        *)
(***************************************************************************)
ReachInv ==
    /\ ConnectedIsReachable
    /\ \A d \in Dialogs : On(d, "save") /\ dialog[d].alone => hook[dialog[d].key] = HookOf(d)
    /\ \A d, e \in Dialogs : /\ d # e /\ dialog[d] # NULL /\ dialog[e] # NULL
                             /\ dialog[d].bot = dialog[e].bot
                             => ~dialog[d].alone

\* e is after a step the request it was before, and not less disturbed.
SameRequest(e) ==
    /\ dialog[e] # NULL
    /\ dialog'[e].bot = dialog[e].bot /\ dialog'[e].key = dialog[e].key
    /\ dialog'[e].secret = dialog[e].secret /\ dialog'[e].step = dialog[e].step
    /\ dialog'[e].alone => dialog[e].alone

LEMMA DisturbedAlone ==
  ASSUME TelegramOK, NEW D \in SUBSET {e \in Dialogs : dialog[e] # NULL}, NEW e \in Dialogs,
         dialog'[e] = Disturbed(D)[e], dialog'[e] # NULL
  PROVE  SameRequest(e) /\ (e \in D => ~dialog'[e].alone)
<1>1. dialog[e] # NULL => dialog[e] \in Dialog
  BY DEF TelegramOK, TelegramTypes
<1>2. CASE e \in D
  <2>1. dialog'[e] = [dialog[e] EXCEPT !.alone = FALSE] /\ dialog[e] \in Dialog /\ dialog[e] # NULL
    BY <1>1, <1>2 DEF Disturbed
  <2>. QED  BY <2>1 DEF SameRequest, Dialog
<1>3. CASE e \notin D
  <2>1. dialog'[e] = dialog[e]
    BY <1>3 DEF Disturbed
  <2>. QED  BY <1>3, <2>1 DEF SameRequest
<1>. QED  BY <1>2, <1>3

LEMMA ReachConnect ==
  ASSUME TelegramOK, ReachInv, NEW d \in Dialogs, NEW b \in Ids, NEW k \in Keys, Connect(d, b, k)
  PROVE  ReachInv'
<1>. DEFINE others == {e \in Dialogs : dialog[e] # NULL /\ dialog[e].bot = b}
<1>1. /\ dialog[d] = NULL
      /\ dialog' = [Disturbed(others) EXCEPT ![d] =
                       [bot |-> b, key |-> k, secret |-> NULL, step |-> "verify",
                        alone |-> others = {}]]
      /\ UNCHANGED <<integ, hook, adrift>>
  BY DEF Connect
<1>2. /\ dialog'[d].bot = b /\ dialog'[d].step = "verify" /\ (dialog'[d].alone <=> others = {})
      /\ \A e \in Dialogs \ {d} : dialog'[e] = Disturbed(others)[e]
  BY <1>1 DEF Disturbed
<1>3. \A e \in Dialogs \ {d} : dialog'[e] # NULL =>
         SameRequest(e) /\ (e \in others => ~dialog'[e].alone)
  BY <1>2, DisturbedAlone
<1>4. ASSUME NEW e \in Dialogs, dialog'[e] # NULL, dialog'[e].step = "save", dialog'[e].alone
      PROVE  hook'[dialog'[e].key] = [bot |-> dialog'[e].bot, secret |-> dialog'[e].secret]
  <2>1. SameRequest(e)
    BY <1>2, <1>3, <1>4
  <2>2. hook[dialog[e].key] = HookOf(e)
    BY <1>4, <2>1 DEF ReachInv, On, SameRequest
  <2>. QED  BY <1>1, <2>1, <2>2 DEF SameRequest, HookOf
<1>5. ASSUME NEW e \in Dialogs, NEW f \in Dialogs, e # f, dialog'[e] # NULL, dialog'[f] # NULL,
             dialog'[e].bot = dialog'[f].bot
      PROVE  ~dialog'[e].alone
  <2>1. CASE e = d
    <3>1. f \in others
      BY <1>2, <1>3, <1>5, <2>1 DEF SameRequest
    <3>. QED  BY <1>2, <2>1, <3>1
  <2>2. CASE f = d
    <3>1. e \in others
      BY <1>2, <1>3, <1>5, <2>2 DEF SameRequest
    <3>. QED  BY <1>3, <1>5, <2>2, <3>1
  <2>3. CASE e # d /\ f # d
    BY <1>3, <1>5, <2>3 DEF SameRequest, ReachInv
  <2>. QED  BY <2>1, <2>2, <2>3
<1>6. ConnectedIsReachable'
  BY <1>1 DEF ReachInv, ConnectedIsReachable
<1>. QED  BY <1>4, <1>5, <1>6 DEF ReachInv, On, HookOf

LEMMA ReachSetWebhook ==
  ASSUME TelegramOK, ReachInv, NEW d \in Dialogs, NEW heard \in BOOLEAN, SetWebhook(d, heard)
  PROVE  ReachInv'
<1>. DEFINE b == dialog[d].bot
            k == dialog[d].key
            losers == {e \in Dialogs : /\ dialog[e] # NULL /\ dialog[e].step = "save"
                                       /\ dialog[e].bot # b /\ dialog[e].key = k}
<1>1. dialog[d] \in Dialog /\ dialog[d] # NULL /\ b \in Ids /\ k \in Keys /\ d \notin losers
  BY DEF SetWebhook, On, TelegramOK, TelegramTypes, Dialog
<1>2. /\ hook' = [hook EXCEPT ![k] = HookOf(d)]
      /\ adrift' = adrift \cup {b} \cup {c \in Ids : integ[c] # NULL /\ integ[c].key = k}
      /\ dialog' = [Disturbed(losers) EXCEPT ![d] =
                       IF heard THEN [@ EXCEPT !.step = "save"] ELSE NULL]
      /\ UNCHANGED integ
  BY DEF SetWebhook, HookOf
<1>3. /\ dialog'[d] # NULL => /\ dialog'[d].bot = b /\ dialog'[d].key = k
                              /\ dialog'[d].secret = dialog[d].secret
                              /\ dialog'[d].alone = dialog[d].alone
      /\ \A e \in Dialogs \ {d} : dialog'[e] = Disturbed(losers)[e]
  <2>1. Disturbed(losers)[d] = dialog[d]
    BY <1>1 DEF Disturbed
  <2>2. dialog' = [Disturbed(losers) EXCEPT ![d] =
                      IF heard THEN [dialog[d] EXCEPT !.step = "save"] ELSE NULL]
    BY <1>2, <2>1 DEF Disturbed
  <2>. QED  BY <1>1, <2>2 DEF Disturbed, Dialog
<1>4. \A e \in Dialogs \ {d} : dialog'[e] # NULL =>
         SameRequest(e) /\ (e \in losers => ~dialog'[e].alone)
  BY <1>3, DisturbedAlone
<1>. HIDE DEF losers
<1>5. ASSUME NEW e \in Dialogs, dialog'[e] # NULL, dialog'[e].step = "save", dialog'[e].alone
      PROVE  hook'[dialog'[e].key] = [bot |-> dialog'[e].bot, secret |-> dialog'[e].secret]
  <2>1. CASE e = d
    BY <1>1, <1>2, <1>3, <1>5, <2>1 DEF HookOf, TelegramOK, TelegramTypes
  <2>2. CASE e # d
    <3>1. SameRequest(e) /\ e \notin losers
      BY <1>4, <1>5, <2>2
    <3>2. dialog[e].bot # b
      BY <1>1, <1>5, <2>2, <3>1 DEF SameRequest, ReachInv
    <3>3. dialog[e].key # k
      BY <1>5, <3>1, <3>2 DEF SameRequest, losers
    <3>4. hook'[dialog[e].key] = hook[dialog[e].key] /\ hook[dialog[e].key] = HookOf(e)
      <4>1. dialog[e].key \in Keys
        BY <3>1 DEF SameRequest, TelegramOK, TelegramTypes, Dialog
      <4>. QED  BY <1>2, <1>5, <3>1, <3>3, <4>1
                DEF SameRequest, ReachInv, On, TelegramOK, TelegramTypes
    <3>. QED  BY <3>1, <3>4 DEF SameRequest, HookOf
  <2>. QED  BY <2>1, <2>2
<1>6. ASSUME NEW e \in Dialogs, NEW f \in Dialogs, e # f, dialog'[e] # NULL, dialog'[f] # NULL,
             dialog'[e].bot = dialog'[f].bot
      PROVE  ~dialog'[e].alone
  BY <1>1, <1>3, <1>4, <1>6 DEF SameRequest, ReachInv
<1>7. ConnectedIsReachable'
  <2>. SUFFICES ASSUME NEW c \in Ids \ adrift', integ[c] # NULL
       PROVE  hook'[integ[c].key] = [bot |-> c, secret |-> integ[c].secret]
    BY <1>2 DEF ConnectedIsReachable
  <2>1. integ[c].key # k /\ integ[c].key \in Keys /\ c \notin adrift
    BY <1>2 DEF TelegramOK, TelegramTypes, Integration
  <2>. QED  BY <1>2, <2>1 DEF ReachInv, ConnectedIsReachable, TelegramOK, TelegramTypes
<1>. QED  BY <1>5, <1>6, <1>7 DEF ReachInv, On, HookOf

LEMMA ReachSave ==
  ASSUME TelegramOK, ReachInv, NEW d \in Dialogs, SaveIntegration(d)
  PROVE  ReachInv'
<1>. DEFINE b == dialog[d].bot
<1>1. dialog[d] \in Dialog /\ dialog[d] # NULL /\ b \in Ids /\ dialog[d].step = "save"
  BY DEF SaveIntegration, On, TelegramOK, TelegramTypes, Dialog
<1>2. /\ \A e \in Dialogs : dialog'[e] # NULL => dialog'[e] = dialog[e]
      /\ UNCHANGED hook
  BY DEF SaveIntegration, Close, TelegramOK, TelegramTypes
<1>3. ConnectedIsReachable'
  <2>1. CASE /\ integ' = [integ EXCEPT ![b] = Saved(d)]
             /\ adrift' = IF dialog[d].alone THEN adrift \ {b} ELSE adrift \cup {b}
    <3>. SUFFICES ASSUME NEW c \in Ids \ adrift', integ'[c] # NULL
         PROVE  hook[integ'[c].key] = [bot |-> c, secret |-> integ'[c].secret]
      BY <1>2 DEF ConnectedIsReachable
    <3>1. CASE c = b
      <4>1. dialog[d].alone /\ integ'[b] = Saved(d)
        BY <1>1, <2>1, <3>1 DEF TelegramOK, TelegramTypes
      <4>2. hook[dialog[d].key] = HookOf(d)
        BY <1>1, <4>1 DEF ReachInv, On
      <4>. QED  BY <3>1, <4>1, <4>2 DEF Saved, HookOf
    <3>2. CASE c # b
      <4>1. c \notin adrift /\ integ'[c] = integ[c]
        BY <2>1, <3>2 DEF TelegramOK, TelegramTypes
      <4>. QED  BY <4>1 DEF ReachInv, ConnectedIsReachable
    <3>. QED  BY <3>1, <3>2
  <2>2. CASE UNCHANGED <<integ, adrift>>
    BY <1>2, <2>2 DEF ReachInv, ConnectedIsReachable
  <2>. QED  BY <2>1, <2>2 DEF SaveIntegration
<1>. QED  BY <1>2, <1>3 DEF ReachInv, On, HookOf

LEMMA ReachStep ==
  ASSUME TelegramOK, ReachInv, TelegramStarts \/ TelegramRuns
  PROVE  ReachInv'
<1>1. ASSUME NEW b \in Ids, SwitchIntegration(b) PROVE ReachInv'
  <2>1. integ[b] \in Integration /\ integ[b] # NULL /\ UNCHANGED <<hook, dialog, adrift>>
    BY <1>1 DEF SwitchIntegration, TelegramOK, TelegramTypes
  <2>2. /\ integ'[b].key = integ[b].key /\ integ'[b].secret = integ[b].secret
        /\ \A c \in Ids \ {b} : integ'[c] = integ[c]
    BY <1>1, <2>1 DEF SwitchIntegration, TelegramOK, TelegramTypes, Integration
  <2>3. ConnectedIsReachable'
    BY <2>1, <2>2 DEF ReachInv, ConnectedIsReachable
  <2>. QED  BY <2>1, <2>3 DEF ReachInv, On, HookOf
<1>2. ASSUME NEW d \in Dialogs, VerifyToken(d) PROVE ReachInv'
  <2>1. dialog[d] \in Dialog /\ dialog[d] # NULL /\ UNCHANGED <<hook, integ, adrift>>
    BY <1>2 DEF VerifyToken, On, TelegramOK, TelegramTypes
  <2>2. /\ dialog'[d].step = "hook" /\ dialog'[d].bot = dialog[d].bot
        /\ dialog'[d].alone = dialog[d].alone
        /\ \A e \in Dialogs \ {d} : dialog'[e] = dialog[e]
    BY <1>2, <2>1 DEF VerifyToken, TelegramOK, TelegramTypes, Dialog
  <2>3. ConnectedIsReachable'
    BY <2>1 DEF ReachInv, ConnectedIsReachable
  <2>. QED  BY <2>1, <2>2, <2>3 DEF ReachInv, On, HookOf
<1>3. ASSUME NEW d \in Dialogs, ConnectFails(d) PROVE ReachInv'
  <2>1. /\ \A e \in Dialogs : dialog'[e] # NULL => dialog'[e] = dialog[e]
        /\ UNCHANGED <<hook, integ, adrift>>
    BY <1>3 DEF ConnectFails, Close, TelegramOK, TelegramTypes
  <2>. QED  BY <2>1 DEF ReachInv, ConnectedIsReachable, On, HookOf
<1>4. ASSUME UNCHANGED <<integ, hook, dialog, adrift>> PROVE ReachInv'
  BY <1>4 DEF ReachInv, ConnectedIsReachable, On, HookOf
<1>5. ASSUME NEW u \in Updates,
             \/ \E k \in Keys, text \in BOOLEAN : Write(u, k, text)
             \/ Post(u) \/ Webhook(u) \/ PostLost(u) \/ Forget(u)
      PROVE  UNCHANGED <<integ, hook, dialog, adrift>>
  BY <1>5 DEF Write, Post, Webhook, PostLost, Forget
<1>. QED  BY <1>1, <1>2, <1>3, <1>4, <1>5, ReachConnect, ReachSetWebhook, ReachSave
          DEF TelegramStarts, TelegramRuns

-----------------------------------------------------------------------------
(* The composition. *)

HistoryInv == SessionInv /\ ReachInv

LEMMA InitHistory == Init => HistoryInv
<1>. SUFFICES ASSUME Init PROVE HistoryInv
  OBVIOUS
<1>1. /\ \A p \in Pages : page[p] = NULL
      /\ \A i \in Slots : call[i] = NULL
      /\ spoke = {}
  BY DEF Init, WidgetInit
<1>2. (\A b \in Ids : integ[b] = NULL) /\ (\A d \in Dialogs : dialog[d] = NULL)
  BY DEF Init, TelegramInit
<1>3. SessionInv
  BY <1>1 DEF SessionInv, Asking
<1>4. ReachInv
  BY <1>2 DEF ReachInv, ConnectedIsReachable, On
<1>. QED  BY <1>3, <1>4 DEF HistoryInv

LEMMA StepHistory ==
  ASSUME IInv, HistoryInv, [Next]_vars
  PROVE  HistoryInv'
<1>1. ASSUME UNCHANGED widgetVars PROVE SessionInv'
  BY <1>1 DEF HistoryInv, SessionInv, Asking, StoredToken, widgetVars
<1>2. ASSUME UNCHANGED telegramVars PROVE ReachInv'
  BY <1>2 DEF HistoryInv, ReachInv, ConnectedIsReachable, On, HookOf, telegramVars
<1>3. CASE OwnerStep \/ UNCHANGED vars
  BY <1>1, <1>2, <1>3 DEF OwnerStep, vars, HistoryInv
<1>4. ASSUME NEW t \in Tabs, DeleteBot(t) PROVE ReachInv' /\ UNCHANGED widgetVars
  <2>1. UNCHANGED widgetVars /\ UNCHANGED <<hook, dialog, adrift>>
    BY <1>4 DEF DeleteBot
  <2>2. \A b \in Ids : integ'[b] # NULL => integ'[b] = integ[b]
    BY <1>4 DEF DeleteBot, Cascade, IInv, TelegramOK, TelegramTypes
  <2>. QED  BY <2>1, <2>2 DEF HistoryInv, ReachInv, ConnectedIsReachable, On, HookOf
<1>5. CASE WidgetStep
  <2>1. (VisitorActs \/ WidgetRuns) /\ UNCHANGED telegramVars
    BY <1>5 DEF WidgetStep
  <2>. QED  BY <1>2, <2>1, SessionStep DEF IInv, HistoryInv
<1>6. CASE TelegramStep
  <2>1. (TelegramStarts \/ TelegramRuns) /\ UNCHANGED widgetVars
    BY <1>6 DEF TelegramStep
  <2>. QED  BY <1>1, <2>1, ReachStep DEF IInv, HistoryInv
<1>. QED  BY <1>1, <1>3, <1>4, <1>5, <1>6 DEF Next, HistoryInv

LEMMA AlwaysHistory == Spec => [](IInv /\ HistoryInv)
<1>1. IInv /\ HistoryInv /\ [Next]_vars => (IInv /\ HistoryInv)'
  BY StepIInv, StepHistory
<1>. QED  BY <1>1, InitIInv, InitHistory, PTL DEF Spec

(***************************************************************************)
(* ConnectedIsReachable for any number of chatbots, Telegram bots and      *)
(* connect requests.                                                       *)
(***************************************************************************)
THEOREM ChannelsReach == Spec => []ConnectedIsReachable
<1>1. HistoryInv => ConnectedIsReachable
  BY DEF HistoryInv, ReachInv
<1>. QED  BY <1>1, AlwaysHistory, PTL

(***************************************************************************)
(* OneVisitorPerBrowser for any number of pages, calls and tokens: over    *)
(* reloads and failures, what initSession() finds in the store is the only *)
(* token the server ever accepts from this browser, unless two session     *)
(* requests overlapped or a token could not be stored.                     *)
(***************************************************************************)
THEOREM ChannelsVisitor == Spec => []OneVisitorPerBrowser
<1>1. HistoryInv => OneVisitorPerBrowser
  <2>. SUFFICES ASSUME HistoryInv, ~split PROVE Cardinality(spoke) <= 1
    BY DEF OneVisitorPerBrowser
  <2>1. spoke \subseteq {store.token}
    BY DEF HistoryInv, SessionInv, StoredToken
  <2>2. IsFiniteSet({store.token}) /\ Cardinality({store.token}) = 1
    BY FS_Singleton
  <2>. QED  BY <2>1, <2>2, FS_Subset, FS_CardinalityType
<1>. QED  BY <1>1, AlwaysHistory, PTL

-----------------------------------------------------------------------------
(* The owner's limit. *)

\* Tabs about to save, and the chatbots a save may bring back.
Holders == {t \in Tabs : tab[t] # NULL /\ tab[t].step = "save"}

Held == {b \in Ids : \E t \in Tabs : Holds(t, b)}

\* Tabs whose creation has passed the limit, or will.
Approved ==
    {t \in Tabs :
        /\ tab[t] # NULL
        /\ \/ tab[t].step = "insert"
           \/ /\ tab[t].op = "create" /\ tab[t].step \in {"plan", "subscribe"}
              /\ MayCreate(tab[t].count)}

(***************************************************************************)
(* The chatbots that are there or may come back, and those that may yet be *)
(* created, together stay within the bound.  Every tab accounts for one at *)
(* most, and the one that counted last saw less than the limit.            *)
(***************************************************************************)
LimitInv ==
    Cardinality(Owned \cup Held) + Cardinality(Approved) <= BotLimit + Cardinality(Tabs) - 1

LEMMA FiniteParts ==
  /\ IsFiniteSet(Owned) /\ IsFiniteSet(Held) /\ IsFiniteSet(Owned \cup Held)
  /\ IsFiniteSet(Holders) /\ IsFiniteSet(Approved) /\ IsFiniteSet(Tabs)
  /\ Cardinality(Owned) \in Nat /\ Cardinality(Held) \in Nat /\ Cardinality(Owned \cup Held) \in Nat
  /\ Cardinality(Holders) \in Nat /\ Cardinality(Approved) \in Nat /\ Cardinality(Tabs) \in Nat
<1>1. IsFiniteSet(Ids) /\ IsFiniteSet(Tabs)
  BY LifecycleConstants, FS_Interval DEF Ids, LifecycleConstants
<1>2. /\ Owned \subseteq Ids /\ Held \subseteq Ids /\ (Owned \cup Held) \subseteq Ids
      /\ Holders \subseteq Tabs /\ Approved \subseteq Tabs
  BY DEF Owned, Held, Holders, Approved
<1>3. /\ IsFiniteSet(Owned) /\ IsFiniteSet(Held) /\ IsFiniteSet(Owned \cup Held)
      /\ IsFiniteSet(Holders) /\ IsFiniteSet(Approved)
  BY <1>1, <1>2, FS_Subset
<1>. QED  BY <1>1, <1>3, FS_CardinalityType

\* Neither set of chatbots grows.
LEMMA LimitShrinks ==
  ASSUME LimitInv, (Owned \cup Held)' \subseteq Owned \cup Held, Approved' \subseteq Approved
  PROVE  LimitInv'
<1>1. Cardinality((Owned \cup Held)') <= Cardinality(Owned \cup Held)
  BY FiniteParts, FS_Subset
<1>2. Cardinality(Approved') <= Cardinality(Approved)
  BY FiniteParts, FS_Subset
<1>3. Cardinality((Owned \cup Held)') \in Nat /\ Cardinality(Approved') \in Nat
  BY FiniteParts, FS_Subset, FS_CardinalityType
<1>. QED  BY <1>1, <1>2, <1>3, FiniteParts, LifecycleConstants DEF LimitInv, LifecycleConstants

\* A tab holds one chatbot.
LEMMA HeldByTabs == LifecycleOK => Cardinality(Held) <= Cardinality(Holders)
<1>. SUFFICES ASSUME LifecycleOK PROVE Cardinality(Held) <= Cardinality(Holders)
  OBVIOUS
<1>. DEFINE f == [t \in Holders |-> tab[t].bot]
<1>1. f \in Surjection(Holders, Held)
  <2>1. \A t \in Holders : tab[t].bot \in Held
    BY LifecycleConstants
    DEF Holders, Held, Holds, LifecycleOK, LifecycleTypes, JobInv, Ids, LifecycleConstants
  <2>2. \A b \in Held : \E t \in Holders : f[t] = b
    BY DEF Holders, Held, Holds
  <2>. QED  BY <2>1, <2>2 DEF Surjection
<1>. QED  BY <1>1, FiniteParts, FS_Surjection

\* The sum of the cardinalities bounds that of the union.
LEMMA UnionBound ==
  ASSUME NEW S, IsFiniteSet(S), NEW T, IsFiniteSet(T)
  PROVE  Cardinality(S \cup T) <= Cardinality(S) + Cardinality(T)
<1>1. IsFiniteSet(S \cap T) /\ Cardinality(S \cap T) \in Nat
  BY FS_Subset, FS_CardinalityType
<1>2. Cardinality(S) \in Nat /\ Cardinality(T) \in Nat
  BY FS_CardinalityType
<1>3. Cardinality(S \cup T) = Cardinality(S) + Cardinality(T) - Cardinality(S \cap T)
  BY FS_Union
<1>. QED  BY <1>1, <1>2, <1>3

LEMMA DisjointBound ==
  ASSUME NEW S, IsFiniteSet(S), NEW T, IsFiniteSet(T), S \cap T = {},
         NEW U, IsFiniteSet(U), S \subseteq U, T \subseteq U
  PROVE  Cardinality(S) + Cardinality(T) <= Cardinality(U)
<1>1. Cardinality(S \cup T) = Cardinality(S) + Cardinality(T)
  <2>1. Cardinality(S) \in Nat /\ Cardinality(T) \in Nat
    BY FS_CardinalityType
  <2>2. Cardinality(S \cup T) = Cardinality(S) + Cardinality(T) - Cardinality(S \cap T)
    BY FS_Union
  <2>3. Cardinality(S \cap T) = 0
    BY FS_EmptySet
  <2>. QED  BY <2>1, <2>2, <2>3
<1>2. Cardinality(S \cup T) <= Cardinality(U)
  BY FS_Subset
<1>. QED  BY <1>1, <1>2

\* A creation that starts below the limit.
LEMMA LimitCount ==
  ASSUME LifecycleOK, LimitInv, NEW t \in Tabs, CountBots(t)
  PROVE  LimitInv'
<1>1. /\ tab[t] = NULL
      /\ tab'[t] = [op |-> "create", step |-> "plan", bot |-> NULL, inst |-> NULL,
                    count |-> Cardinality(Owned)]
      /\ \A u \in Tabs \ {t} : tab'[u] = tab[u]
      /\ UNCHANGED bots
  BY DEF CountBots, LifecycleOK, LifecycleTypes
<1>2. Owned' = Owned /\ Held' = Held /\ Holders' = Holders
  BY <1>1 DEF Owned, Held, Holders, Holds
<1>3. CASE ~MayCreate(Cardinality(Owned))
  <2>1. Approved' \subseteq Approved
    BY <1>1, <1>3 DEF Approved
  <2>. QED  BY <1>2, <2>1, LimitShrinks
<1>4. CASE MayCreate(Cardinality(Owned))
  <2>1. Cardinality(Owned) <= BotLimit - 1
    BY <1>4, FiniteParts, LifecycleConstants DEF MayCreate, LifecycleConstants
  <2>2. Cardinality(Owned \cup Held) <= Cardinality(Owned) + Cardinality(Holders)
    <3>1. Cardinality(Owned \cup Held) <= Cardinality(Owned) + Cardinality(Held)
      BY FiniteParts, UnionBound
    <3>. QED  BY <3>1, FiniteParts, HeldByTabs
  <2>3. Approved' \subseteq Tabs /\ Holders \subseteq Tabs /\ Holders \cap Approved' = {}
    BY <1>1 DEF Approved, Holders
  <2>4. IsFiniteSet(Approved') /\ Cardinality(Approved') \in Nat
    BY <2>3, FiniteParts, FS_Subset, FS_CardinalityType
  <2>5. Cardinality(Holders) + Cardinality(Approved') <= Cardinality(Tabs)
    BY <2>3, <2>4, FiniteParts, DisjointBound
  <2>. QED
    BY <1>2, <2>1, <2>2, <2>4, <2>5, FiniteParts, LifecycleConstants
    DEF LimitInv, LifecycleConstants
<1>. QED  BY <1>3, <1>4

\* A creation that ends: one chatbot more, one tab less.
LEMMA LimitInsert ==
  ASSUME LifecycleOK, LimitInv, NEW t \in Tabs, InsertBot(t)
  PROVE  LimitInv'
<1>1. t \in Approved /\ tab'[t] = NULL /\ \A u \in Tabs \ {t} : tab'[u] = tab[u]
  BY DEF InsertBot, At, Done, Approved, LifecycleOK, LifecycleTypes
<1>2. Approved' \subseteq Approved \ {t}
  BY <1>1 DEF Approved
<1>3. (Owned \cup Held)' \subseteq (Owned \cup Held) \cup {made + 1}
  <2>1. \A b \in Ids : bots'[b] # NULL => b = made + 1 \/ bots[b] # NULL
    BY DEF InsertBot, LifecycleOK, LifecycleTypes
  <2>2. Held' \subseteq Held
    BY <1>1 DEF Held, Holds
  <2>. QED  BY <2>1, <2>2 DEF Owned
<1>4. Cardinality(Approved \ {t}) = Cardinality(Approved) - 1 /\ IsFiniteSet(Approved \ {t})
  BY <1>1, FiniteParts, FS_RemoveElement
<1>5. /\ Cardinality((Owned \cup Held) \cup {made + 1}) <= Cardinality(Owned \cup Held) + 1
      /\ IsFiniteSet((Owned \cup Held) \cup {made + 1})
  <2>. DEFINE U == Owned \cup Held
  <2>1. IsFiniteSet(U) /\ Cardinality(U) \in Nat
    BY FiniteParts
  <2>. HIDE DEF U
  <2>2. /\ IsFiniteSet(U \cup {made + 1})
        /\ Cardinality(U \cup {made + 1}) = IF made + 1 \in U THEN Cardinality(U) ELSE Cardinality(U) + 1
    BY <2>1, FS_AddElement
  <2>3. Cardinality(U \cup {made + 1}) <= Cardinality(U) + 1 /\ IsFiniteSet(U \cup {made + 1})
    BY <2>1, <2>2
  <2>. QED  BY <2>3 DEF U
<1>6. /\ Cardinality(Approved') <= Cardinality(Approved) - 1
      /\ Cardinality(Approved') \in Nat
  BY <1>2, <1>4, FS_Subset, FS_CardinalityType
<1>7. /\ Cardinality((Owned \cup Held)') <= Cardinality(Owned \cup Held) + 1
      /\ Cardinality((Owned \cup Held)') \in Nat
  <2>1. IsFiniteSet((Owned \cup Held)')
        /\ Cardinality((Owned \cup Held)') <= Cardinality((Owned \cup Held) \cup {made + 1})
    BY <1>3, <1>5, FS_Subset
  <2>2. Cardinality((Owned \cup Held)') \in Nat /\ Cardinality((Owned \cup Held) \cup {made + 1}) \in Nat
    BY <1>5, <2>1, FS_CardinalityType
  <2>. QED  BY <1>5, <2>1, <2>2, FiniteParts
<1>. QED
  BY <1>6, <1>7, FiniteParts, LifecycleConstants DEF LimitInv, LifecycleConstants

LEMMA LimitStep ==
  ASSUME LifecycleOK, LimitInv, OwnerStarts \/ OwnerEdits \/ \E t \in Tabs : Destroy(t)
  PROVE  LimitInv'
<1>1. ASSUME NEW t \in Tabs, GoogleLogin(t) \/ GetSubscription(t) \/ Subscribe(t) \/ Abort(t)
      PROVE  LimitInv'
  <2>1. UNCHANGED bots /\ \A u \in Tabs \ {t} : tab'[u] = tab[u]
    BY <1>1 DEF GoogleLogin, GetSubscription, Subscribe, Abort, Planned, Done,
                LifecycleOK, LifecycleTypes
  <2>2. \/ tab'[t] = NULL
        \/ tab'[t].op = "login" /\ tab'[t].step \in {"plan", "subscribe"}
        \/ /\ tab[t] # NULL /\ tab[t].op = "create" /\ tab[t].step \in {"plan", "subscribe"}
           /\ tab'[t].step = "insert" /\ MayCreate(tab[t].count)
        \/ /\ tab[t] # NULL /\ tab[t].step \in {"plan", "subscribe"} /\ tab'[t].step = "subscribe"
           /\ tab'[t].op = tab[t].op /\ tab'[t].count = tab[t].count
    <3>1. tab[t] # NULL => tab[t] \in Job
      BY DEF LifecycleOK, LifecycleTypes
    <3>2. CASE GoogleLogin(t) \/ Abort(t)
      BY <3>2 DEF GoogleLogin, Abort, Done, LifecycleOK, LifecycleTypes
    <3>3. CASE GetSubscription(t)
      BY <3>1, <3>3 DEF GetSubscription, At, Planned, Job, LifecycleOK, LifecycleTypes
    <3>4. CASE Subscribe(t)
      BY <3>1, <3>4 DEF Subscribe, At, Planned, Done, Job, LifecycleOK, LifecycleTypes
    <3>. QED  BY <1>1, <3>2, <3>3, <3>4
  <2>3. Approved' \subseteq Approved
    BY <2>1, <2>2 DEF Approved
  <2>4. (Owned \cup Held)' \subseteq Owned \cup Held
    BY <2>1, <2>2 DEF Owned, Held, Holds
  <2>. QED  BY <2>3, <2>4, LimitShrinks
<1>2. ASSUME NEW t \in Tabs, NEW b \in Ids, NEW op \in {"column", "activity", "publish", "destroy"},
             Begin(t, b, op)
      PROVE  LimitInv'
  <2>1. /\ UNCHANGED bots /\ bots[b] # NULL /\ \A u \in Tabs \ {t} : tab'[u] = tab[u]
        /\ tab'[t].bot = b /\ tab'[t].step = "save" 
    BY <1>2 DEF Begin, LifecycleOK, LifecycleTypes
  <2>2. Approved' \subseteq Approved
    BY <2>1 DEF Approved
  <2>3. (Owned \cup Held)' \subseteq Owned \cup Held
    BY <2>1 DEF Owned, Held, Holds
  <2>. QED  BY <2>2, <2>3, LimitShrinks
<1>3. ASSUME NEW t \in Tabs, At(t, {"column", "activity", "publish", "destroy"}, "save"),
             tab' = [tab EXCEPT ![t] = NULL],
             \A b \in Ids : bots'[b] # NULL => b = tab[t].bot \/ bots[b] # NULL
      PROVE  LimitInv'
  <2>1. tab'[t] = NULL /\ \A u \in Tabs \ {t} : tab'[u] = tab[u]
    BY <1>3 DEF LifecycleOK, LifecycleTypes
  <2>2. Approved' \subseteq Approved
    BY <2>1 DEF Approved
  <2>3. (Owned \cup Held)' \subseteq Owned \cup Held
    BY <1>3, <2>1 DEF Owned, Held, Holds, At
  <2>. QED  BY <2>2, <2>3, LimitShrinks
<1>4. ASSUME NEW t \in Tabs,
             \/ \E c \in Columns, v \in Texts : WriteColumn(t, c, v)
             \/ \E active \in BOOLEAN : WriteActivity(t, active)
             \/ Publish(t) \/ Destroy(t)
      PROVE  LimitInv'
  <2>1. At(t, {"column", "activity", "publish", "destroy"}, "save")
    BY <1>4 DEF WriteColumn, WriteActivity, Publish, Destroy, At
  <2>2. tab' = [tab EXCEPT ![t] = NULL]
    BY <1>4 DEF WriteColumn, WriteActivity, Publish, Destroy, SaveBot, Done
  <2>3. \E row : bots' = [bots EXCEPT ![tab[t].bot] = row]
    BY <1>4 DEF WriteColumn, WriteActivity, Publish, Destroy, SaveBot
  <2>4. \A b \in Ids : bots'[b] # NULL => b = tab[t].bot \/ bots[b] # NULL
    BY <2>3 DEF LifecycleOK, LifecycleTypes
  <2>. QED  BY <1>3, <2>1, <2>2, <2>4
<1>. QED  BY <1>1, <1>2, <1>4, LimitCount, LimitInsert DEF OwnerStarts, OwnerEdits

LEMMA LimitAtFirst == Init => LimitInv
<1>. SUFFICES ASSUME Init PROVE LimitInv
  OBVIOUS
<1>1. Held = {} /\ Approved = {}
  BY DEF Init, LifecycleInit, Held, Holds, Approved
<1>2. Owned \subseteq 1 .. made /\ made \in Nat /\ made <= BotLimit
  BY LifecycleConstants DEF Init, LifecycleInit, Owned, Ids, LifecycleConstants
<1>3. Cardinality(Owned) <= made
  <2>1. IsFiniteSet(1 .. made) /\ Cardinality(1 .. made) = made
    BY <1>2, FS_Interval
  <2>. QED  BY <1>2, <2>1, FS_Subset
<1>4. Cardinality(Tabs) >= 1
  BY LifecycleConstants, FiniteParts, FS_EmptySet DEF LifecycleConstants
<1>5. Cardinality(Owned \cup Held) = Cardinality(Owned) /\ Cardinality(Approved) = 0
  BY <1>1, FS_EmptySet
<1>. QED  BY <1>2, <1>3, <1>4, <1>5, FiniteParts, LifecycleConstants DEF LimitInv, LifecycleConstants

(***************************************************************************)
(* LimitHoldsUpToRaces for any number of tabs and any limit: the check of  *)
(* bot_count against bot_limit is passed at most once per tab too often.   *)
(***************************************************************************)
THEOREM ChannelsLimit == Spec => []LimitHoldsUpToRaces
<1>1. IInv /\ LimitInv /\ [Next]_vars => LimitInv'
  <2>. SUFFICES ASSUME IInv, LimitInv, [Next]_vars PROVE LimitInv'
    OBVIOUS
  <2>1. CASE UNCHANGED lifecycleVars
    BY <2>1 DEF LimitInv, Owned, Held, Holds, Approved, lifecycleVars
  <2>2. CASE OwnerStarts \/ OwnerEdits \/ \E t \in Tabs : Destroy(t)
    BY <2>2, LimitStep DEF IInv
  <2>. QED  BY <2>1, <2>2 DEF Next, OwnerStep, DeleteBot, WidgetStep, TelegramStep, vars
<1>2. LimitInv => LimitHoldsUpToRaces
  <2>1. Cardinality(Owned) <= Cardinality(Owned \cup Held)
    BY FiniteParts, FS_Subset
  <2>. QED  BY <2>1, FiniteParts, LifecycleConstants DEF LimitInv, LimitHoldsUpToRaces, LifecycleConstants
<1>. QED  BY <1>1, <1>2, LimitAtFirst, AlwaysIInv, PTL DEF Spec
=============================================================================
