--------------------------- MODULE MCKnowledge ---------------------------
(* Small instances of KnowledgePipeline. *)
EXTENDS KnowledgeRefinement

CONSTANTS long, short, blank

\* Three chunks in batches of two, so that the last batch is a partial one,
\* and a document without text.
MCNChunks == [d \in Docs |-> IF d = blank THEN 0 ELSE IF d = long THEN 3 ELSE 1]
=============================================================================
