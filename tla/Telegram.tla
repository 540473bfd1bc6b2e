------------------------------ MODULE Telegram ------------------------------
(***************************************************************************)
(* The Telegram channel: connecting a chatbot to a Telegram bot, and the   *)
(* webhook Telegram calls (integrations/telegram/views.py, services.py,    *)
(* models.py).  Telegram keeps one webhook per bot token, sends an update  *)
(* to the webhook it has at that moment, and sends it again until it is    *)
(* answered with 200 or given up.  No code disconnects a bot or removes a  *)
(* webhook.  process_telegram_message_task is never reached (see Webhook). *)
(***************************************************************************)
EXTENDS ChatbotLifecycle

CONSTANTS
    Keys,       \* tokens of Telegram bots
    Dialogs,    \* connect requests that can be under way at once
    Updates,    \* updates Telegram can hold at once
    MaxSecrets  \* bound: webhook secrets that are drawn

ASSUME TelegramConstants == MaxSecrets \in Nat

VARIABLES
    integ,      \* integ[b]: the TelegramIntegration row of chatbot b, or NULL
    hook,       \* hook[k]: the webhook Telegram has for token k, or NULL
    dialog,     \* dialog[d]: a connect request under way, or NULL
    secrets,    \* secrets drawn so far
    update,     \* update[u]: an update Telegram has to deliver, or NULL
    adrift      \* history: the chatbots whose webhook was replaced, by a connect of
                \* their own or with the same token, since they were last connected

telegramVars == <<integ, hook, dialog, secrets, update, adrift>>

Secrets == 1 .. MaxSecrets

Hook == [bot: Ids, secret: Secrets]

\* Encrypting a token twice gives two values, so the unique constraint on
\* telegram_bot_token_encrypted never keeps two rows from having one token.
Integration == [key: Keys, secret: Secrets, active: BOOLEAN]

\* alone is a history: no other connect touched the chatbot or took the webhook.
Dialog == [bot: Ids, key: Keys, secret: Secrets \cup {NULL}, step: {"verify", "hook", "save"},
           alone: BOOLEAN]

\* via is the request under way, code its last status, under the token of the
\* integration that accepted it.
Update == [key: Keys, text: BOOLEAN, via: Hook \cup {NULL},
           code: {200, 403, 404, 500, NULL}, under: Keys \cup {NULL}]

TelegramInit ==
    /\ integ = [b \in Ids |-> NULL]
    /\ hook = [k \in Keys |-> NULL]
    /\ dialog = [d \in Dialogs |-> NULL]
    /\ secrets = 0
    /\ update = [u \in Updates |-> NULL]
    /\ adrift = {}

-----------------------------------------------------------------------------
(* ConnectTelegramBotView.post *)

On(d, step) == dialog[d] # NULL /\ dialog[d].step = step

Close(d) == dialog' = [dialog EXCEPT ![d] = NULL]

\* The dialogs, of which those in D are no longer alone.
Disturbed(D) ==
    [d \in Dialogs |-> IF d \in D THEN [dialog[d] EXCEPT !.alone = FALSE] ELSE dialog[d]]

\* The chatbot is looked up; another connect of it may be on the way.
Connect(d, b, k) ==
    LET others == {e \in Dialogs : dialog[e] # NULL /\ dialog[e].bot = b} IN
    /\ dialog[d] = NULL
    /\ bots[b] # NULL
    /\ dialog' = [Disturbed(others) EXCEPT ![d] =
                    [bot |-> b, key |-> k, secret |-> NULL, step |-> "verify",
                     alone |-> others = {}]]
    /\ UNCHANGED <<integ, hook, secrets, update, adrift>>

\* Mutant: every webhook of a chatbot has the same secret.
SameSecret(d) == dialog[d].bot

\* Mutant: the webhook is set without a secret.
NoSecret(d) == NULL

\* secrets.token_urlsafe
FreshSecret(d) == secrets + 1

\* getMe, and the secret of the webhook URL.
VerifyToken(d) ==
    /\ On(d, "verify")
    /\ secrets < MaxSecrets
    /\ secrets' = secrets + 1
    /\ dialog' = [dialog EXCEPT ![d].secret = FreshSecret(d), ![d].step = "hook"]
    /\ UNCHANGED <<integ, hook, update, adrift>>

\* set_telegram_webhook; heard is whether the answer reaches the server.
SetWebhook(d, heard) ==
    LET b == dialog[d].bot
        k == dialog[d].key
        losers == {e \in Dialogs : /\ dialog[e] # NULL /\ dialog[e].step = "save"
                                   /\ dialog[e].bot # b /\ dialog[e].key = k} IN
    /\ On(d, "hook")
    /\ hook' = [hook EXCEPT ![k] = [bot |-> b, secret |-> dialog[d].secret]]
    /\ adrift' = adrift \cup {b} \cup {c \in Ids : integ[c] # NULL /\ integ[c].key = k}
    /\ dialog' = [Disturbed(losers) EXCEPT ![d] =
                    IF heard THEN [@ EXCEPT !.step = "save"] ELSE NULL]
    /\ UNCHANGED <<integ, secrets, update>>

\* Mutant: a new secret reaches the row only when the row is new.
SavedKeepsUrl(d) ==
    LET b == dialog[d].bot IN
    [key |-> dialog[d].key, active |-> TRUE,
     secret |-> IF integ[b] = NULL THEN dialog[d].secret ELSE integ[b].secret]

Saved(d) == [key |-> dialog[d].key, active |-> TRUE, secret |-> dialog[d].secret]

\* update_or_create; the foreign key needs the chatbot.
SaveIntegration(d) ==
    LET b == dialog[d].bot IN
    /\ On(d, "save")
    /\ \/ /\ bots[b] # NULL
          /\ integ' = [integ EXCEPT ![b] = Saved(d)]
          /\ adrift' = IF dialog[d].alone THEN adrift \ {b} ELSE adrift \cup {b}
       \/ /\ bots[b] = NULL
          /\ UNCHANGED <<integ, adrift>>
    /\ Close(d)
    /\ UNCHANGED <<hook, secrets, update>>

\* Telegram refuses or cannot be reached, or the request is lost.
ConnectFails(d) ==
    /\ dialog[d] # NULL
    /\ Close(d)
    /\ UNCHANGED <<integ, hook, secrets, update, adrift>>

\* is_active of the row, which the administration site can switch.
SwitchIntegration(b) ==
    /\ integ[b] # NULL
    /\ integ' = [integ EXCEPT ![b].active = ~@]
    /\ UNCHANGED <<hook, dialog, secrets, update, adrift>>

-----------------------------------------------------------------------------
(* Telegram and the webhook. *)

\* Somebody writes to the Telegram bot: a text, or something else.
Write(u, k, text) ==
    /\ update[u] = NULL
    /\ update' = [update EXCEPT ![u] = [key |-> k, text |-> text, via |-> NULL,
                                        code |-> NULL, under |-> NULL]]
    /\ UNCHANGED <<integ, hook, dialog, secrets, adrift>>

\* Telegram posts the update, for the first time or again.
Post(u) ==
    /\ update[u] # NULL
    /\ hook[update[u].key] # NULL
    /\ update[u].via = NULL /\ update[u].code # 200
    /\ update' = [update EXCEPT ![u].via = hook[update[u].key]]
    /\ UNCHANGED <<integ, hook, dialog, secrets, adrift>>

\* Mutant: the secret of the request is not compared.
AuthenticAlways(via) == TRUE

Authentic(via) == via.secret = integ[via.bot].secret

\* TelegramWebhookView.post; handing a text over raises, for a Celery task has
\* no method send.
Status(via, text) ==
    CASE bots[via.bot] = NULL -> 404
      [] bots[via.bot] # NULL /\ (integ[via.bot] = NULL \/ ~integ[via.bot].active) -> 403
      [] OTHER -> IF ~Authentic(via) THEN 403 ELSE IF text THEN 500 ELSE 200

Webhook(u) ==
    LET via  == update[u].via
        code == Status(via, update[u].text) IN
    /\ update[u] # NULL
    /\ via # NULL
    /\ update' = [update EXCEPT ![u].via = NULL, ![u].code = code,
                                ![u].under = IF code \in {200, 500} THEN integ[via.bot].key
                                             ELSE NULL]
    /\ UNCHANGED <<integ, hook, dialog, secrets, adrift>>

\* The post is lost.
PostLost(u) ==
    /\ update[u] # NULL
    /\ update[u].via # NULL
    /\ update' = [update EXCEPT ![u].via = NULL]
    /\ UNCHANGED <<integ, hook, dialog, secrets, adrift>>

\* It was delivered, or Telegram gives up.
Forget(u) ==
    /\ update[u] # NULL
    /\ update[u].via = NULL
    /\ update' = [update EXCEPT ![u] = NULL]
    /\ UNCHANGED <<integ, hook, dialog, secrets, adrift>>

TelegramStarts ==
    \/ \E d \in Dialogs, b \in Ids, k \in Keys : Connect(d, b, k)
    \/ \E b \in Ids : SwitchIntegration(b)
    \/ \E u \in Updates, k \in Keys, text \in BOOLEAN : Write(u, k, text)

TelegramRuns ==
    \/ \E d \in Dialogs :
        \/ VerifyToken(d) \/ SaveIntegration(d) \/ ConnectFails(d)
        \/ \E heard \in BOOLEAN : SetWebhook(d, heard)
    \/ \E u \in Updates : Post(u) \/ Webhook(u) \/ PostLost(u) \/ Forget(u)

-----------------------------------------------------------------------------
(* Properties. *)

TelegramTypes ==
    /\ integ \in [Ids -> Integration \cup {NULL}]
    /\ hook \in [Keys -> Hook \cup {NULL}]
    /\ dialog \in [Dialogs -> Dialog \cup {NULL}]
    /\ secrets \in 0 .. MaxSecrets
    /\ update \in [Updates -> Update \cup {NULL}]
    /\ adrift \subseteq Ids

(***************************************************************************)
(* A connected chatbot is reachable: Telegram's webhook for its token      *)
(* names the chatbot with the secret of the row, whatever connects of      *)
(* other chatbots, edits and deletions overlap.  A connect that broke off, *)
(* overlapped another or took the token of another chatbot can leave one   *)
(* cut off; a further connect that nothing disturbs repairs it.            *)
(***************************************************************************)
ConnectedIsReachable ==
    \A b \in Ids \ adrift :
        integ[b] # NULL => hook[integ[b].key] = [bot |-> b, secret |-> integ[b].secret]

(***************************************************************************)
(* An update gets past the webhook only under the token it was sent to: a  *)
(* webhook left behind at Telegram by an earlier connect, or a post that   *)
(* was on its way while the chatbot was connected to another Telegram bot, *)
(* is refused.                                                             *)
(***************************************************************************)
AcceptedUnderOwnToken ==
    \A u \in Updates : update[u] # NULL => update[u].under \in {update[u].key, NULL}

(***************************************************************************)
(* "Return a 200 OK response immediately": an update that passes the       *)
(* checks of the webhook is answered with 200.                             *)
(***************************************************************************)
AcceptedIsOk == \A u \in Updates : update[u] # NULL => update[u].code # 500
=============================================================================
