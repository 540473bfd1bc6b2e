--------------------------- MODULE SplitTextProofs ---------------------------
(***************************************************************************)
(* split_text is correct for every text length, chunk size and overlap.    *)
(***************************************************************************)
EXTENDS SplitText, TLAPS

\* What one turn of the loop needs to know of the chunks made so far.
ChunkInv ==
    /\ \A i \in 1 .. Len(chunks) :
           /\ chunks[i].from < len
           /\ chunks[i].to = End(chunks[i].from)
    /\ \A i \in 1 .. Len(chunks) - 1 :
           /\ chunks[i + 1].from = chunks[i].from + Step
           /\ chunks[i].to < len

\* Where the loop stands.
LoopInv ==
    /\ pc = "loop" =>
           /\ start < len
           /\ IF chunks = <<>> THEN start = 0
              ELSE /\ start = chunks[Len(chunks)].from + Step
                   /\ chunks[Len(chunks)].to < len
    /\ pc = "done" => Reached = len

\* Every character reached is in a chunk.
Covered ==
    \A p \in 0 .. Reached - 1 :
        \E i \in 1 .. Len(chunks) : chunks[i].from <= p /\ p < chunks[i].to

IInv == TypeOK /\ ChunkInv /\ LoopInv /\ Covered

-----------------------------------------------------------------------------
\* The step is at least one character and never longer than a chunk.
LEMMA StepBounds == TypeOK => Step \in Nat /\ 1 <= Step /\ Step <= size
  BY DEF TypeOK, Step

\* What appending a chunk does to the indices.
LEMMA AppendChunk ==
  ASSUME NEW S, NEW s \in Seq(S), NEW e \in S
  PROVE  /\ Append(s, e) \in Seq(S)
         /\ Len(Append(s, e)) = Len(s) + 1
         /\ Len(s) \in Nat
         /\ \A i \in 1 .. Len(s) : Append(s, e)[i] = s[i]
         /\ Append(s, e)[Len(s) + 1] = e
         /\ Append(s, e) # <<>>
  OBVIOUS

\* Bounds of chunks are naturals.
LEMMA ChunkTypes ==
  TypeOK => /\ Len(chunks) \in Nat
            /\ \A i \in 1 .. Len(chunks) : chunks[i].from \in Nat /\ chunks[i].to \in Nat
<1> SUFFICES ASSUME TypeOK, NEW i \in 1 .. Len(chunks)
             PROVE  Len(chunks) \in Nat /\ chunks[i].from \in Nat /\ chunks[i].to \in Nat
  BY DEF TypeOK
<1> DEFINE C == [from: Nat, to: Nat]
<1>1. chunks \in Seq(C)
  BY DEF TypeOK
<1>2. chunks[i] \in C /\ Len(chunks) \in Nat
  <2> HIDE DEF C
  <2> QED
    BY <1>1
<1> QED
  BY <1>2

\* The loop starts with no chunk.
LEMMA InitIInv == Init => IInv
<1> SUFFICES ASSUME Init PROVE IInv
  OBVIOUS
<1>1. TypeOK
  BY SplitConstants DEF Init, TypeOK
<1>2. chunks = <<>> /\ Len(chunks) = 0
  BY DEF Init
<1>3. ChunkInv
  BY <1>2 DEF ChunkInv
<1>4. LoopInv
  BY <1>1, <1>2 DEF Init, LoopInv, Reached, TypeOK
<1>5. Covered
  BY <1>2 DEF Covered, Reached
<1> QED
  BY <1>1, <1>3, <1>4, <1>5 DEF IInv

\* One turn of the loop keeps the invariant.
LEMMA IterateIInv == IInv /\ Iterate => IInv'
<1> SUFFICES ASSUME IInv, Iterate PROVE IInv'
  OBVIOUS
<1> DEFINE e == [from |-> start, to |-> End(start)]
           n == Len(chunks)
<1>1. /\ len \in Nat /\ start \in Nat /\ start < len
      /\ size \in Nat \ {0} /\ overlap \in Nat
      /\ len' = len /\ size' = size /\ overlap' = overlap
      /\ TypeOK
      /\ chunks \in Seq([from: Nat, to: Nat]) /\ pc = "loop"
      /\ chunks' = Append(chunks, e)
  BY DEF IInv, TypeOK, Iterate, args
<1>2. /\ End(start) \in Nat /\ start < End(start) /\ End(start) <= len
      /\ End(start) <= start + size
      /\ e \in [from: Nat, to: Nat]
  BY <1>1 DEF End, Smaller
<1>3. /\ chunks' \in Seq([from: Nat, to: Nat])
      /\ Len(chunks') = n + 1 /\ n \in Nat
      /\ \A i \in 1 .. n : chunks'[i] = chunks[i]
      /\ chunks'[n + 1] = e
      /\ chunks' # <<>>
  <2> DEFINE C == [from: Nat, to: Nat]
  <2>1. chunks \in Seq(C) /\ e \in C
    BY <1>1, <1>2
  <2> HIDE DEF e, C
  <2>2. /\ Append(chunks, e) \in Seq(C)
        /\ Len(Append(chunks, e)) = n + 1 /\ n \in Nat
        /\ \A i \in 1 .. n : Append(chunks, e)[i] = chunks[i]
        /\ Append(chunks, e)[n + 1] = e
        /\ Append(chunks, e) # <<>>
    BY <2>1, AppendChunk
  <2> QED
    BY <2>2, <1>1 DEF C
<1>4. Step' = Step
  BY <1>1 DEF Step
<1>5. \A i \in 1 .. n : chunks[i].from \in Nat /\ chunks[i].to \in Nat
  BY ChunkTypes DEF IInv
<1>6. Reached' = End(start)
  BY <1>3 DEF Reached
<1>7. n = 0 \/ (n \in 1 .. n /\ chunks # <<>> /\ start = chunks[n].from + Step /\ chunks[n].to < len)
  BY <1>1, <1>3 DEF IInv, LoopInv
<1>8. n = 0 => chunks = <<>> /\ start = 0
  BY <1>1 DEF IInv, LoopInv
<1>9. TypeOK'
  BY <1>1, <1>3, StepBounds DEF TypeOK, Iterate
<1>10. ChunkInv'
  <2>1. ASSUME NEW i \in 1 .. n + 1
        PROVE  chunks'[i].from < len /\ chunks'[i].to = End(chunks'[i].from)
    <3>1. CASE i = n + 1
      BY <3>1, <1>1, <1>3
    <3>2. CASE i \in 1 .. n
      BY <3>2, <1>3 DEF IInv, ChunkInv
    <3> QED
      BY <3>1, <3>2, <1>3
  <2>2. ASSUME NEW i \in 1 .. n
        PROVE  chunks'[i + 1].from = chunks'[i].from + Step /\ chunks'[i].to < len
    <3>1. CASE i = n
      BY <3>1, <1>3, <1>7
    <3>2. CASE i \in 1 .. n - 1
      <4>1. i \in 1 .. n /\ i + 1 \in 1 .. n
        BY <3>2, <1>3
      <4>2. chunks'[i] = chunks[i] /\ chunks'[i + 1] = chunks[i + 1]
        BY <4>1, <1>3
      <4>3. chunks[i + 1].from = chunks[i].from + Step /\ chunks[i].to < len
        BY <3>2 DEF IInv, ChunkInv
      <4> QED
        BY <4>2, <4>3
    <3> QED
      BY <3>1, <3>2, <1>3
  <2>3. \A i \in 1 .. Len(chunks') :
            /\ chunks'[i].from < len'
            /\ chunks'[i].to = Smaller(chunks'[i].from + size', len')
    BY <2>1, <1>1, <1>3 DEF End
  <2>4. \A i \in 1 .. Len(chunks') - 1 :
            chunks'[i + 1].from = chunks'[i].from + Step' /\ chunks'[i].to < len'
    BY <2>2, <1>1, <1>3, <1>4
  <2> QED
    BY <2>3, <2>4 DEF ChunkInv, End
<1>11. LoopInv'
  <2>1. CASE End(start) = len
    BY <2>1, <1>1, <1>6 DEF LoopInv, Iterate
  <2>2. CASE End(start) # len
    <3>1. start' = start + Step /\ pc' = "loop"
      BY <2>2, <1>1 DEF Iterate
    <3>2. End(start) = start + size /\ End(start) < len
      BY <2>2, <1>1 DEF End, Smaller
    <3>3. start' < len
      BY <3>1, <3>2, <1>1, StepBounds
    <3> QED
      BY <3>1, <3>2, <3>3, <1>1, <1>3, <1>4 DEF LoopInv
  <2> QED
    BY <2>1, <2>2
<1>12. Covered'
  <2>1. SUFFICES ASSUME NEW p \in 0 .. End(start) - 1
                 PROVE  \E i \in 1 .. n + 1 : chunks'[i].from <= p /\ p < chunks'[i].to
    BY <1>3, <1>6 DEF Covered
  <2>2. CASE start <= p
    BY <2>2, <1>1, <1>2, <1>3
  <2>3. CASE p < start
    <3>1. n # 0
      BY <2>3, <1>8
    <3>2. chunks[n].to = End(chunks[n].from) /\ chunks[n].from \in Nat
      BY <3>1, <1>3, <1>5, <1>7 DEF IInv, ChunkInv
    <3>3. start <= chunks[n].to
      BY <3>1, <3>2, <1>1, <1>7, StepBounds DEF End, Smaller
    <3>4. p \in 0 .. Reached - 1
      BY <3>1, <3>2, <3>3, <2>3, <1>1, <1>2, <1>5, <1>7 DEF Reached
    <3>5. PICK i \in 1 .. n : chunks[i].from <= p /\ p < chunks[i].to
      BY <3>4 DEF IInv, Covered
    <3>6. i \in 1 .. n + 1 /\ chunks'[i] = chunks[i]
      BY <3>5, <1>3
    <3>7. chunks'[i].from <= p /\ p < chunks'[i].to
      BY <3>5, <3>6, Zenon
    <3> QED
      BY <3>6, <3>7, Zenon
  <2>4. start <= p \/ p < start
    BY <1>1, <1>2
  <2> QED
    BY <2>2, <2>3, <2>4, Zenon
<1> QED
  BY <1>9, <1>10, <1>11, <1>12 DEF IInv

\* The inductive invariant.
THEOREM SplitInvariant == Spec => []IInv
<1>1. IInv /\ UNCHANGED vars => IInv'
  <2> SUFFICES ASSUME IInv, UNCHANGED vars PROVE IInv'
    OBVIOUS
  <2> QED
    BY DEF IInv, TypeOK, ChunkInv, LoopInv, Covered, Reached, End, Step, vars
<1> QED
  BY <1>1, InitIInv, IterateIInv, PTL DEF Spec, Next

-----------------------------------------------------------------------------
\* The variables of the loop keep their types, whatever the overlap.
THEOREM SplitTypes == Spec => []TypeOK
  BY SplitInvariant, PTL DEF IInv

\* No character of any text is left out of its chunks.
THEOREM SplitCoverage == Spec => []Coverage
<1>1. IInv => Coverage
  BY DEF IInv, LoopInv, Covered, Coverage
<1> QED
  BY <1>1, SplitInvariant, PTL

\* Every chunk is a non-empty slice of at most chunk_size characters.
THEOREM SplitSizes == Spec => []WellSized
<1>1. IInv => WellSized
  <2> SUFFICES ASSUME IInv, NEW i \in 1 .. Len(chunks)
               PROVE  /\ chunks[i].from < chunks[i].to
                      /\ chunks[i].to <= len
                      /\ chunks[i].to <= chunks[i].from + size
                      /\ i < Len(chunks) => chunks[i].to = chunks[i].from + size
    BY DEF WellSized
  <2>1. /\ len \in Nat /\ Len(chunks) \in Nat
        /\ size \in Nat \ {0} /\ overlap \in Nat
        /\ chunks[i].from \in Nat /\ chunks[i].from < len
        /\ chunks[i].to = End(chunks[i].from)
    BY ChunkTypes DEF IInv, TypeOK, ChunkInv
  <2>2. i < Len(chunks) => chunks[i].to < len
    BY <2>1 DEF IInv, ChunkInv
  <2> QED
    BY <2>1, <2>2 DEF End, Smaller
<1> QED
  BY <1>1, SplitInvariant, PTL

\* Neighbours share exactly the overlap, and every chunk adds text.
THEOREM SplitOverlaps == Spec => []OverlapExact
<1>1. IInv => OverlapExact
  <2> SUFFICES ASSUME IInv, NEW i \in 1 .. Len(chunks) - 1
               PROVE  /\ chunks[i].to - chunks[i + 1].from
                             = Smaller(overlap, size - 1)
                      /\ chunks[i].to < chunks[i + 1].to
    BY DEF OverlapExact
  <2>1. /\ len \in Nat /\ Len(chunks) \in Nat
        /\ size \in Nat \ {0} /\ overlap \in Nat
        /\ i \in 1 .. Len(chunks) /\ i + 1 \in 1 .. Len(chunks)
    BY ChunkTypes DEF IInv, TypeOK
  <2>2. /\ chunks[i].from \in Nat
        /\ chunks[i].to = End(chunks[i].from) /\ chunks[i].to < len
        /\ chunks[i + 1].from = chunks[i].from + Step
        /\ chunks[i + 1].from < len
        /\ chunks[i + 1].to = End(chunks[i + 1].from)
    BY <2>1, ChunkTypes DEF IInv, TypeOK, ChunkInv
  <2>3. chunks[i].to = chunks[i].from + size
    BY <2>1, <2>2 DEF End, Smaller
  <2> QED
    BY <2>1, <2>2, <2>3 DEF End, Smaller, Step
<1> QED
  BY <1>1, SplitInvariant, PTL

\* Every turn of the loop moves forward or ends it.
THEOREM SplitProgress == Spec => MovesForward
<1>1. IInv /\ [Next]_vars => [start' > start \/ pc' = "done"]_vars
  BY StepBounds DEF IInv, TypeOK, Next, Iterate, vars
<1> QED
  BY <1>1, SplitInvariant, PTL DEF Spec, MovesForward

-----------------------------------------------------------------------------
(* The number of chunks. *)

\* The turns of the loop are counted by where it stands; no turn was made at or
\* past the end of the text.
CountInv ==
    /\ pc = "loop" =>
           /\ start = Len(chunks) * Step
           /\ Len(chunks) > 0 => (start - Step) + size < len
    /\ pc = "done" =>
           IF len = 0 THEN Len(chunks) = 0
           ELSE /\ Len(chunks) > 0 /\ start = (Len(chunks) - 1) * Step
                /\ len <= start + size
                /\ Len(chunks) > 1 => (start - Step) + size < len

\* The quotient rounded up is the least number of steps that reaches d.
LEMMA RoundedUp ==
  ASSUME NEW n \in Nat, NEW s \in Nat, s > 0, NEW d \in Nat,
         d <= n * s, n * s - s < d
  PROVE  (d + s - 1) \div s = n
<1>1. PICK x : x = n * s
  OBVIOUS
<1>2. x \in Nat
  BY <1>1
<1>3. d + s - 1 \in Nat /\ x <= d + s - 1 /\ d + s - 1 < x + s
  BY <1>1, <1>2
<1>4. PICK q, r \in Int : d + s - 1 = q * s + r /\ 0 <= r /\ r < s /\ (d + s - 1) \div s = q
  BY <1>3
<1>5. q = n
  <2>1. CASE q < n
    <3>1. q * s + s <= n * s
      BY <1>4, <2>1
    <3> QED
      BY <1>1, <1>3, <1>4, <3>1
  <2>2. CASE q > n
    <3>1. n * s + s <= q * s
      BY <1>4, <2>2
    <3> QED
      BY <1>1, <1>3, <1>4, <3>1
  <2> QED
    BY <1>4, <2>1, <2>2
<1> QED
  BY <1>4, <1>5

\* One turn of the loop is counted.
LEMMA IterateCount ==
  ASSUME TypeOK, CountInv, Iterate
  PROVE  CountInv'
<1> PICK n, s : n = Len(chunks) /\ s = Step
  OBVIOUS
<1>1. /\ len \in Nat /\ start \in Nat /\ start < len /\ size \in Nat \ {0} /\ pc = "loop"
      /\ len' = len /\ size' = size /\ overlap' = overlap /\ len > 0
  BY DEF TypeOK, Iterate, args
<1>2. s \in Nat /\ s > 0 /\ Step' = s /\ n \in Nat
  BY <1>1, StepBounds DEF Step, TypeOK
<1>3. Len(chunks') = n + 1
  <2> DEFINE C == [from: Nat, to: Nat]
             e == [from |-> start, to |-> End(start)]
  <2>1. chunks \in Seq(C) /\ e \in C /\ chunks' = Append(chunks, e)
    BY <1>1 DEF TypeOK, Iterate, End, Smaller
  <2> HIDE DEF C, e
  <2> QED
    BY <2>1, AppendChunk
<1>4. start = n * s /\ (n > 0 => (start - s) + size < len)
  BY <1>1 DEF CountInv
<1>5. CASE End(start) = len
  <2>1. pc' = "done" /\ start' = start /\ len <= start + size
    BY <1>1, <1>5 DEF Iterate, End, Smaller
  <2>2. ((n + 1) - 1) * s = n * s
    BY <1>2
  <2> QED
    BY <1>1, <1>2, <1>3, <1>4, <2>1, <2>2 DEF CountInv
<1>6. CASE End(start) # len
  <2>1. pc' = "loop" /\ start' = start + s /\ start + size < len
    BY <1>1, <1>6 DEF Iterate, End, Smaller
  <2>2. (n + 1) * s = n * s + s
    BY <1>2
  <2>3. (start' - s) + size < len
    BY <1>1, <1>2, <2>1
  <2> QED
    BY <1>1, <1>2, <1>3, <1>4, <2>1, <2>2, <2>3 DEF CountInv
<1> QED
  BY <1>5, <1>6

\* The chunk_count of a document has its closed form, for every length of text,
\* chunk size and overlap.
THEOREM SplitCount == Spec => []CountIsClosedForm
<1>1. Init => CountInv
  BY SplitConstants, StepBounds, InitIInv DEF Init, CountInv, IInv
<1>2. TypeOK /\ CountInv /\ [Next]_vars => CountInv'
  <2>1. ASSUME CountInv, UNCHANGED vars PROVE CountInv'
    BY <2>1 DEF vars, CountInv, Step
  <2> QED
    BY <2>1, IterateCount DEF Next
<1>3. TypeOK /\ CountInv => CountIsClosedForm
  <2> SUFFICES ASSUME TypeOK, CountInv, pc = "done", len # 0
               PROVE  Len(chunks) = IF len <= size THEN 1
                                    ELSE 1 + (len - size + Step - 1) \div Step
    BY DEF CountIsClosedForm, CountInv
  <2> PICK n, s, d : n = Len(chunks) - 1 /\ s = Step /\ d = len - size
    OBVIOUS
  <2>1. /\ len \in Nat /\ size \in Nat /\ start \in Nat /\ s \in Nat /\ s > 0
        /\ Len(chunks) \in Nat /\ n \in Nat
    BY StepBounds DEF TypeOK, CountInv
  <2>2. start = n * s /\ len <= start + size /\ (n > 0 => (start - s) + size < len)
    BY <2>1 DEF CountInv
  <2>3. CASE len <= size
    <3>1. n > 0 => n * s >= s
      BY <2>1
    <3>2. ~(n > 0)
      BY <2>1, <2>2, <2>3, <3>1
    <3> QED
      BY <2>1, <2>3, <3>2
  <2>4. CASE len > size
    <3>1. d \in Nat /\ d > 0 /\ d <= n * s
      BY <2>1, <2>2, <2>4
    <3>2. n > 0
      BY <2>1, <3>1
    <3>3. n * s - s < d
      BY <2>1, <2>2, <3>2
    <3>4. (d + s - 1) \div s = n
      BY <2>1, <3>1, <3>3, RoundedUp
    <3> QED
      BY <2>1, <2>4, <3>4
  <2> QED
    BY <2>1, <2>3, <2>4
<1> QED
  BY <1>1, <1>2, <1>3, SplitTypes, PTL DEF Spec
=============================================================================
