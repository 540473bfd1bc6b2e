------------------------------ MODULE SplitText ------------------------------
(***************************************************************************)
(* split_text (ai_services/utils.py): the loop that cuts a document into   *)
(* overlapping chunks before they are stored and embedded.  A chunk        *)
(* text[from:to] is the pair of its bounds; the text is its length.        *)
(***************************************************************************)
EXTENDS Integers, Sequences

CONSTANTS
    Lengths,    \* the lengths of the texts
    Sizes,      \* the values of chunk_size (2800 in the task, 1000 by default)
    Overlaps    \* the values of chunk_overlap (400, or 200); nothing stops them
                \* exceeding the size

ASSUME SplitConstants ==
    /\ Lengths \subseteq Nat
    /\ Sizes \subseteq Nat \ {0}
    /\ Overlaps \subseteq Nat

VARIABLES
    len, size, overlap,     \* the arguments: len(text), chunk_size, chunk_overlap
    start, chunks, pc

args == <<len, size, overlap>>

vars == <<len, size, overlap, start, chunks, pc>>

Smaller(a, b) == IF a < b THEN a ELSE b

\* Mutant: no forward step when the overlap swallows the chunk.
StepUnclamped == size - overlap

\* Mutant: the step does not subtract the overlap.
StepTooLong == size + 1

\* step = max(1, chunk_size - chunk_overlap)
Step == IF size - overlap > 1 THEN size - overlap ELSE 1

\* "if not text: return []", else the variables before the loop.
Init ==
    /\ len \in Lengths
    /\ size \in Sizes
    /\ overlap \in Overlaps
    /\ start = 0
    /\ chunks = <<>>
    /\ pc = IF len = 0 THEN "done" ELSE "loop"

\* Mutant: the slice always has its full length.
EndPastText(from) == from + size

\* end = min(start + chunk_size, text_len)
End(from) == Smaller(from + size, len)

\* Mutant: no break at the end of the text; only the while condition ends.
IterateNoBreak ==
    /\ pc = "loop"
    /\ start < len
    /\ chunks' = Append(chunks, [from |-> start, to |-> End(start)])
    /\ start' = start + Step
    /\ pc' = IF start + Step < len THEN "loop" ELSE "done"
    /\ UNCHANGED args

\* One turn of "while start < text_len": append text[start:end], then break at
\* the end of the text or step forward.
Iterate ==
    /\ pc = "loop"
    /\ start < len
    /\ chunks' = Append(chunks, [from |-> start, to |-> End(start)])
    /\ IF End(start) = len
       THEN pc' = "done" /\ UNCHANGED start
       ELSE start' = start + Step /\ UNCHANGED pc
    /\ UNCHANGED args

Next == Iterate

Spec == Init /\ [][Next]_vars

-----------------------------------------------------------------------------
\* The loop variables of split_text: start is never negative.
TypeOK ==
    /\ len \in Nat
    /\ size \in Nat \ {0}
    /\ overlap \in Nat
    /\ start \in Nat
    /\ chunks \in Seq([from: Nat, to: Nat])
    /\ pc \in {"loop", "done"}

\* How far the chunks made so far reach.
Reached == IF chunks = <<>> THEN 0 ELSE chunks[Len(chunks)].to

(***************************************************************************)
(* No character of the document is left out of the knowledge base: what    *)
(* the chunks have reached they cover, and at the end that is the text.    *)
(***************************************************************************)
Coverage ==
    /\ \A p \in 0 .. Reached - 1 :
           \E i \in 1 .. Len(chunks) : chunks[i].from <= p /\ p < chunks[i].to
    /\ pc = "done" => Reached = len

(***************************************************************************)
(* Every chunk is a non-empty slice of the text no longer than chunk_size, *)
(* and every one but the last is exactly that long.                        *)
(***************************************************************************)
WellSized ==
    \A i \in 1 .. Len(chunks) :
        /\ chunks[i].from < chunks[i].to
        /\ chunks[i].to <= len
        /\ chunks[i].to <= chunks[i].from + size
        /\ i < Len(chunks) => chunks[i].to = chunks[i].from + size

(***************************************************************************)
(* Neighbours share exactly the overlap asked for (one character less than *)
(* a chunk when more was asked for), and every chunk brings text that no   *)
(* earlier chunk has: the end of the text is never stored again in a chunk *)
(* of its own.                                                             *)
(***************************************************************************)
OverlapExact ==
    \A i \in 1 .. Len(chunks) - 1 :
        /\ chunks[i].to - chunks[i + 1].from = Smaller(overlap, size - 1)
        /\ chunks[i].to < chunks[i + 1].to

(***************************************************************************)
(* The number of chunks against its closed form: the chunk_count that the  *)
(* API shows for a document of this length.                                *)
(***************************************************************************)
CountIsClosedForm ==
    pc = "done" =>
        Len(chunks) = IF len = 0 THEN 0
                      ELSE IF len <= size THEN 1
                      ELSE 1 + (len - size + Step - 1) \div Step

(***************************************************************************)
(* Every turn moves forward or is the last, also when the overlap is not   *)
(* smaller than the chunk: "Ensure we always move forward at least 1 char  *)
(* to avoid infinite loop".  With start < len this is termination.         *)
(***************************************************************************)
MovesForward == [][start' > start \/ pc' = "done"]_vars
=============================================================================
