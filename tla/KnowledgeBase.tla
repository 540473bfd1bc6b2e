---------------------------- MODULE KnowledgeBase ----------------------------
(***************************************************************************)
(* What knowledge ingestion promises: a file is absent, being worked on,   *)
(* ready, failed or gone; it becomes ready in one step, with every chunk   *)
(* of its document, and from then on only its removal changes it.          *)
(* KnowledgeRefinement shows that KnowledgePipeline implements this.       *)
(***************************************************************************)
EXTENDS Naturals

CONSTANTS
    Files, Bots, Docs,
    NChunks,    \* NChunks[d]: the number of chunks of document d
    NULL

VARIABLE entry  \* entry[f]: what the knowledge base says of file f

Absent == [state |-> "absent", bot |-> NULL, doc |-> NULL, index |-> {}]

\* Removed, or a file about which nothing is promised.
Gone == [state |-> "gone", bot |-> NULL, doc |-> NULL, index |-> {}]

Init == entry \in [Files -> {Absent, Gone}]

Add(f, b, d) ==
    /\ entry[f] = Absent
    /\ entry' = [entry EXCEPT ![f] =
                    [state |-> "working", bot |-> b, doc |-> d, index |-> {}]]

\* All chunks of the document appear at once.
Finish(f) ==
    /\ entry[f].state = "working"
    /\ entry' = [entry EXCEPT ![f].state = "ready",
                              ![f].index = 0 .. NChunks[entry[f].doc] - 1]

Fail(f) ==
    /\ entry[f].state = "working"
    /\ entry' = [entry EXCEPT ![f].state = "failed"]

Retry(f) ==
    /\ entry[f].state = "failed"
    /\ entry' = [entry EXCEPT ![f].state = "working"]

\* A chatbot takes its files with it.
Remove(S) ==
    /\ \A f \in S : entry[f].state \in {"working", "ready", "failed"}
    /\ entry' = [f \in Files |-> IF f \in S THEN Gone ELSE entry[f]]

Next ==
    \/ \E f \in Files :
           \/ \E b \in Bots, d \in Docs : Add(f, b, d)
           \/ Finish(f) \/ Fail(f) \/ Retry(f)
    \/ \E S \in SUBSET Files : Remove(S)

Spec == Init /\ [][Next]_entry
=============================================================================
