------------------------------- MODULE MCChat -------------------------------
(* Small instances of ChatService. *)
EXTENDS ChatService, TLC

CONSTANTS openaiBot, geminiBot

MCLlm == [b \in Bots |-> IF b = geminiBot THEN "gemini" ELSE "openai"]

\* The Studio preview, the widget and public API, and the Telegram task.
StudioEntries == [preview: {TRUE}, stream: BOOLEAN]
WidgetEntries == [preview: {FALSE}, stream: {TRUE}]
TelegramEntries == [preview: {FALSE}, stream: {FALSE}]
AllEntries == StudioEntries \cup WidgetEntries \cup TelegramEntries

\* Requests differ only in name.
SameRequests == Permutations(Requests)
=============================================================================
