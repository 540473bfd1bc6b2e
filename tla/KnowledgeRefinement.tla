------------------------- MODULE KnowledgeRefinement -------------------------
(***************************************************************************)
(* KnowledgePipeline implements KnowledgeBase for the files that are       *)
(* neither PATCHed nor delivered twice.  The chunks of a run that is still *)
(* going on, or that failed, are not part of the abstract index.           *)
(***************************************************************************)
EXTENDS KnowledgePipeline

StateOf(status) ==
    CASE status = "completed" -> "ready"
      [] status = "failed" -> "failed"
      [] OTHER -> "working"

\* The chunks that carry the row's own chatbot and document.
IndexOf(f) ==
    {c.index : c \in {c \in ChunksOf(f) : c.bot = files[f].bot /\ c.doc = files[f].doc}}

EntryOf(f) ==
    IF f \in Redeliverable \cup Patchable \cup removed
    THEN [state |-> "gone", bot |-> NULL, doc |-> NULL, index |-> {}]
    ELSE IF files[f] = NULL
    THEN [state |-> "absent", bot |-> NULL, doc |-> NULL, index |-> {}]
    ELSE [state |-> StateOf(files[f].status), bot |-> files[f].bot, doc |-> files[f].doc,
          index |-> IF files[f].status = "completed" THEN IndexOf(f) ELSE {}]

KB == INSTANCE KnowledgeBase WITH entry <- [f \in Files |-> EntryOf(f)]

(***************************************************************************)
(* Seen through the API, a file becomes ready in one step with exactly the *)
(* chunks of its document, is never taken back to an earlier status except *)
(* by the retry of a failed run, and changes no more once it is ready,     *)
(* whatever the workers, their failures and the other files' runs do.      *)
(***************************************************************************)
ImplementsKnowledgeBase == KB!Spec
=============================================================================
