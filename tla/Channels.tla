------------------------------ MODULE Channels ------------------------------
(***************************************************************************)
(* The owner's chatbots together with the two channels that reach them:    *)
(* the widget and the Telegram webhook read the rows that the owner edits, *)
(* publishes and deletes meanwhile, and the deletion of a chatbot takes    *)
(* its integration along.  A behaviour has a budget for what people start; *)
(* servers, networks and Telegram take whatever steps follow from it.      *)
(***************************************************************************)
EXTENDS Widget, Telegram

CONSTANT Budgets    \* bounds: the numbers of requests, clicks and Telegram events

ASSUME BudgetsAssumption == Budgets \subseteq [edits: Nat, visits: Nat, telegram: Nat]

VARIABLE left       \* what people may still start

vars == <<lifecycleVars, widgetVars, telegramVars, left>>

Init == LifecycleInit /\ WidgetInit /\ TelegramInit /\ left \in Budgets

OwnerStep ==
    /\ \/ OwnerStarts /\ left.edits > 0 /\ left' = [left EXCEPT !.edits = @ - 1]
       \/ OwnerEdits /\ UNCHANGED left
    /\ UNCHANGED <<widgetVars, telegramVars>>

\* on_delete=CASCADE of TelegramIntegration.chatbot
Cascade(b) == [integ EXCEPT ![b] = NULL]

DeleteBot(t) ==
    /\ Destroy(t)
    /\ integ' = Cascade(tab[t].bot)
    /\ UNCHANGED <<hook, dialog, secrets, update, adrift, widgetVars, left>>

WidgetStep ==
    /\ \/ VisitorActs /\ left.visits > 0 /\ left' = [left EXCEPT !.visits = @ - 1]
       \/ WidgetRuns /\ UNCHANGED left
    /\ UNCHANGED <<lifecycleVars, telegramVars>>

TelegramStep ==
    /\ \/ TelegramStarts /\ left.telegram > 0 /\ left' = [left EXCEPT !.telegram = @ - 1]
       \/ TelegramRuns /\ UNCHANGED left
    /\ UNCHANGED <<lifecycleVars, widgetVars>>

Next == OwnerStep \/ (\E t \in Tabs : DeleteBot(t)) \/ WidgetStep \/ TelegramStep

(***************************************************************************)
(* A call of the browser ends: with an answer, or with an error when the   *)
(* connection is given up.  Nothing else is promised.                      *)
(***************************************************************************)
Fairness ==
    \A i \in Slots : WF_vars(CallEnds(i) /\ UNCHANGED <<lifecycleVars, telegramVars, left>>)

Spec == Init /\ [][Next]_vars /\ Fairness

-----------------------------------------------------------------------------
TypeOK ==
    /\ LifecycleTypes
    /\ WidgetTypes
    /\ TelegramTypes
    /\ left \in [edits: Nat, visits: Nat, telegram: Nat]
=============================================================================
