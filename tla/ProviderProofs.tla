--------------------------- MODULE ProviderProofs ---------------------------
(***************************************************************************)
(* Proofs about ProviderConfig, for every number of administrators, rows   *)
(* and credentials.                                                        *)
(***************************************************************************)
EXTENDS ProviderConfig, FiniteSetTheorems, WellFoundedInduction, TLAPS

(***************************************************************************)
(* What is true of every configuration, disturbed or not.  Ids are handed  *)
(* out in order; a version is never larger than its id; a row hangs on a   *)
(* row of its own family; and a request in memory is at a step of its own  *)
(* operation, on rows of one family.                                       *)
(***************************************************************************)
Used == 1 .. top

Kin(row, i) ==
    /\ row.version <= i
    /\ row.parent # NULL => row.parent \in Used /\ origin[row.parent] = origin[i]

RowsInv ==
    \A i \in Ids :
        /\ i \in Used => origin[i] \in Used /\ origin[i] <= i
        /\ i \notin Used => origin[i] = NULL
        /\ rows[i] # NULL => i \in Used /\ Kin(rows[i], i)

StepsOf(op) ==
    CASE op = "create" -> {"save"}
      [] op = "update" -> {"insert", "save", "deactivate"}
      [] op = "rollback" -> {"find", "insert", "deactivate"}
      [] op = "delete" -> {"delete"}

JobInv(a) ==
    LET j == job[a] IN
    /\ j.step \in StepsOf(j.op)
    /\ j.op = "create" => j.id = NULL
    /\ j.op # "create" => j.id \in Used /\ j.inst # NULL /\ Kin(j.inst, j.id)
    /\ j.step = "save" => j.new \in Used
    /\ j.op = "update" /\ j.step = "save" => origin[j.new] = origin[j.id] /\ j.id < j.new

JobsInv == \A a \in Admins : job[a] # NULL => JobInv(a)

(***************************************************************************)
(* What is true of a family o that nobody disturbed: one request works on  *)
(* it at a time; the versions grow with the ids and hang on o; a row has   *)
(* the credentials it was meant to have, except the one an update has      *)
(* inserted and not saved yet; and the newest row alone is active, except  *)
(* the one a request has still to deactivate.                              *)
(***************************************************************************)
WorksOn(a, o) == job[a] # NULL /\ FamilyOf(job[a]) = o

Members(o) == {k \in Ids : rows[k] # NULL /\ origin[k] = o}

Sole(o) == \A a, b \in Admins : WorksOn(a, o) /\ WorksOn(b, o) => a = b

Line(o) ==
    /\ \A k \in Members(o) : rows[k].parent = IF k = o THEN NULL ELSE o
    /\ \A k, l \in Members(o) : k < l => rows[k].version < rows[l].version

Unsaved(a, k) == job[a] # NULL /\ job[a].step = "save" /\ job[a].new = k

Replaced(a, k) ==
    /\ job[a] # NULL /\ job[a].op # "create"
    /\ job[a].step \in {"save", "deactivate"} /\ job[a].id = k

Faithful(o) ==
    \A k \in Members(o) : rows[k].cred = meant[k] \/ \E a \in Admins : Unsaved(a, k)

NewestActive(o) ==
    \A k \in Members(o) :
        rows[k].active => \/ \A l \in Members(o) : l <= k
                          \/ \E a \in Admins : Replaced(a, k)

Fresh(a) ==
    LET j == job[a] IN
    /\ j.op # "create" => rows[j.id] = j.inst /\ j.inst.active
    /\ j.op = "create" =>
          /\ rows[j.new] = [version |-> FirstVersion, parent |-> NULL,
                            active |-> j.active, cred |-> NULL]
          /\ origin[j.new] = j.new /\ meant[j.new] = j.cred /\ j.cred # NULL
    /\ j.op = "update" /\ j.step \in {"insert", "save"} =>
          j.kept = IF j.cred = NULL THEN meant[j.id] ELSE j.cred
    /\ j.op = "rollback" /\ j.step = "insert" => j.kept = j.cred
    /\ j.op = "update" /\ j.step = "save" =>
          /\ rows[j.new] = [version |-> NewVersion(j), parent |-> Root(j),
                            active |-> j.active, cred |-> NULL]
          /\ meant[j.new] = j.kept

Orderly(o) ==
    /\ Sole(o) /\ Line(o) /\ Faithful(o) /\ NewestActive(o)
    /\ \A a \in Admins : WorksOn(a, o) => Fresh(a)

OrderlyInv == \A o \in Ids \ disturbed : Orderly(o)

ProviderInv == TypeOK /\ RowsInv /\ JobsInv /\ OrderlyInv

-----------------------------------------------------------------------------
(* Numbers and bounds. *)

\* A set of natural numbers that is not empty has a least element.
LEMMA LeastNat ==
  ASSUME NEW T \in SUBSET Nat, T # {}
  PROVE  \E n \in T : \A m \in T : n <= m
<1> DEFINE R == OpToRel(<, Nat)
<1>1. IsWellFoundedOn(R, Nat)
  BY NatLessThanWellFounded
<1>2. R = {ss \in Nat \X Nat : ss[1] < ss[2]}
  BY DEF OpToRel
<1> HIDE DEF R
<1>3. PICK n \in T : \A m \in T : ~(<<m, n>> \in R)
  BY <1>1, WFMin
<1>4. ASSUME NEW m \in T
      PROVE  n <= m
  <2>1. ~(m < n)
    BY <1>2, <1>3
  <2> QED
    BY <2>1
<1> QED
  BY <1>4

\* A finite one has a greatest: otherwise take the smallest set without one, and
\* remove an element.
LEMMA GreatestNat ==
  ASSUME NEW S \in SUBSET Nat, IsFiniteSet(S), S # {}
  PROVE  \E n \in S : \A m \in S : n >= m
<1> DEFINE Tops(T) == {n \in T : \A m \in T : n >= m}
           Bad == {T \in SUBSET S : T # {} /\ Tops(T) = {}}
           Sizes == {Cardinality(T) : T \in Bad}
<1>1. \A T \in SUBSET S : IsFiniteSet(T) /\ Cardinality(T) \in Nat
  BY FS_Subset, FS_CardinalityType
<1>2. SUFFICES ASSUME Bad # {} PROVE FALSE
  <2>1. S \notin Bad
    BY <1>2
  <2> QED
    BY <2>1
<1>3. Sizes \in SUBSET Nat /\ Sizes # {}
  BY <1>1, <1>2
<1>4. PICK n \in Sizes : \A m \in Sizes : n <= m
  BY <1>3, LeastNat
<1>5. PICK T \in Bad : Cardinality(T) = n
  BY <1>4
<1>6. PICK x \in T : TRUE
  BY <1>5
<1> DEFINE U == T \ {x}
<1>7. U \in SUBSET S /\ Cardinality(U) = n - 1 /\ n \in Nat
  BY <1>1, <1>3, <1>5, <1>6, FS_RemoveElement
<1>8. U \notin Bad
  <2> HIDE DEF Bad, U
  <2>1. U \in Bad => n <= n - 1
    BY <1>4, <1>7
  <2> QED
    BY <1>7, <2>1
<1>9. CASE U = {}
  BY <1>5, <1>6, <1>9
<1>10. CASE U # {}
  <2>1. PICK y \in U : \A m \in U : y >= m
    BY <1>7, <1>8, <1>10
  <2>2. x \in Nat /\ y \in Nat /\ T \subseteq Nat
    BY <1>5, <1>6, <2>1
  <2>3. CASE x >= y
    <3>1. \A m \in T : x >= m
      BY <2>1, <2>2, <2>3
    <3> QED
      BY <1>5, <1>6, <3>1
  <2>4. CASE ~(x >= y)
    <3>1. \A m \in T : y >= m
      BY <2>1, <2>2, <2>4
    <3> QED
      BY <1>5, <2>1, <3>1
  <2> QED
    BY <2>3, <2>4
<1> QED
  BY <1>9, <1>10

\* MaxRows is the largest of the bounds.
LEMMA RowBounds ==
  /\ MaxRows \in Nat
  /\ \A l \in Limits : l.rows \in Nat /\ l.rows <= MaxRows
<1> DEFINE T == {l.rows : l \in Limits}
           f == [l \in Limits |-> l.rows]
<1>1. T \in SUBSET Nat /\ T # {} /\ \A l \in Limits : l.rows \in Nat
  BY ProviderConstants
<1>2. f \in Surjection(Limits, T)
  BY DEF Surjection
<1>3. IsFiniteSet(T)
  <2> HIDE DEF T, f
  <2> QED
    BY <1>2, ProviderConstants, FS_Surjection
<1>4. \E n \in T : \A m \in T : n >= m
  <2> HIDE DEF T
  <2> QED
    BY <1>1, <1>3, GreatestNat
<1>5. Max(T) \in T /\ \A m \in T : Max(T) >= m
  BY <1>4 DEF Max
<1> QED
  BY <1>1, <1>5 DEF MaxRows

\* The next id is within the bounds.
LEMMA NextId ==
  ASSUME NEW n \in Nat, NEW F, Bounded(n, F)
  PROVE  n <= MaxRows
  BY RowBounds DEF Bounded

-----------------------------------------------------------------------------
(* Types, and what is true of every configuration. *)

Global == TypeOK /\ RowsInv /\ JobsInv

\* The fields of a request.
LEMMA JobTypes ==
  ASSUME TypeOK, NEW a \in Admins, job[a] # NULL
  PROVE  /\ job[a] \in Job
         /\ job[a].op \in {"create", "update", "rollback", "delete"}
         /\ job[a].step \in {"find", "insert", "save", "deactivate", "delete"}
         /\ job[a].id \in Ids \cup {NULL} /\ job[a].inst \in Row \cup {NULL}
         /\ job[a].new \in Ids \cup {NULL}
         /\ job[a].cred \in Creds \cup {NULL} /\ job[a].kept \in Creds \cup {NULL}
         /\ job[a].active \in BOOLEAN /\ job[a].version \in 0 .. MaxRows
<1>1. job[a] \in Job
  BY DEF TypeOK
<1> QED
  BY <1>1 DEF Job

\* The fields of a row.
LEMMA RowTypes ==
  ASSUME NEW r \in Row
  PROVE  /\ r.version \in 1 .. MaxRows /\ r.parent \in Ids \cup {NULL}
         /\ r.active \in BOOLEAN /\ r.cred \in Creds \cup {NULL} /\ r # NULL
  BY ProviderNull DEF Row

\* Ids in use are ids, and numbers.
LEMMA UsedIds ==
  ASSUME TypeOK
  PROVE  /\ top \in Nat /\ top <= MaxRows /\ Used \subseteq Ids /\ Ids \subseteq Nat
         /\ NULL \notin Ids /\ NULL \notin Used
<1>1. MaxRows \in Nat /\ top \in Nat /\ top <= MaxRows
  BY RowBounds DEF TypeOK
<1> QED
  BY <1>1, ProviderNull DEF Used, Ids

\* The family of a request is a family that exists.
LEMMA FamilyTypes ==
  ASSUME Global, NEW a \in Admins, job[a] # NULL
  PROVE  FamilyOf(job[a]) \in Used
<1>1. JobInv(a) /\ TypeOK /\ RowsInv
  BY DEF Global, JobsInv
<1>2. CASE job[a].op = "create"
  <2>1. job[a].id = NULL /\ job[a].new \in Used
    BY <1>1, <1>2 DEF JobInv, StepsOf
  <2> QED
    BY <1>1, <2>1, UsedIds DEF FamilyOf, RowsInv
<1>3. CASE job[a].op # "create"
  <2>1. job[a].id \in Used
    BY <1>1, <1>3 DEF JobInv
  <2> QED
    BY <1>1, <2>1, UsedIds DEF FamilyOf, RowsInv
<1> QED
  BY <1>2, <1>3

\* What an INSERT does.
LEMMA Inserted ==
  ASSUME TypeOK, RowsInv, NEW row \in Row, NEW from \in Used \cup {NULL},
         NEW cred \in Creds \cup {NULL}, Insert(row, from, cred), row.version <= top + 1,
         row.parent # NULL => /\ from # NULL /\ row.parent \in Used
                              /\ origin[row.parent] = origin[from]
  PROVE  /\ top + 1 \in Ids /\ top + 1 \notin Used
         /\ top' = top + 1 /\ Used' = Used \cup {top + 1}
         /\ rows' \in [Ids -> Row \cup {NULL}] /\ origin' \in [Ids -> Ids \cup {NULL}]
         /\ meant' \in [Ids -> Creds \cup {NULL}] /\ top' \in 0 .. MaxRows
         /\ rows'[top + 1] = row /\ meant'[top + 1] = cred
         /\ origin'[top + 1] = IF from = NULL THEN top + 1 ELSE origin[from]
         /\ \A i \in Ids : i # top + 1 => /\ rows'[i] = rows[i] /\ meant'[i] = meant[i]
                                          /\ origin'[i] = origin[i]
         /\ RowsInv'
<1>0. top \in Nat /\ MaxRows \in Nat /\ Used \subseteq Ids /\ Ids \subseteq Nat /\ NULL \notin Used
  BY UsedIds, RowBounds
<1>1. top + 1 <= MaxRows
  BY <1>0, NextId DEF Insert
<1>2. top + 1 \in Ids /\ top + 1 \notin Used /\ top' \in 0 .. MaxRows
  BY <1>0, <1>1 DEF Ids, Used, Insert
<1>3. top' = top + 1 /\ Used' = Used \cup {top + 1}
  BY <1>0 DEF Insert, Used
<1>4. (IF from = NULL THEN top + 1 ELSE origin[from]) \in Used'
  BY <1>0, <1>3 DEF RowsInv
<1>5. /\ rows' \in [Ids -> Row \cup {NULL}] /\ meant' \in [Ids -> Creds \cup {NULL}]
      /\ origin' \in [Ids -> Ids \cup {NULL}]
  BY <1>0, <1>2, <1>3, <1>4 DEF TypeOK, Insert
<1>6. /\ rows'[top + 1] = row /\ meant'[top + 1] = cred
      /\ origin'[top + 1] = IF from = NULL THEN top + 1 ELSE origin[from]
      /\ \A i \in Ids : i # top + 1 => /\ rows'[i] = rows[i] /\ meant'[i] = meant[i]
                                       /\ origin'[i] = origin[i]
  BY <1>2 DEF TypeOK, Insert
<1>7. RowsInv'
  <2> SUFFICES ASSUME NEW i \in Ids
               PROVE  /\ i \in Used' => origin'[i] \in Used' /\ origin'[i] <= i
                      /\ i \notin Used' => origin'[i] = NULL
                      /\ rows'[i] # NULL => i \in Used' /\ Kin(rows[i], i)'
    BY DEF RowsInv
  <2>1. CASE i # top + 1
    <3>1. rows'[i] = rows[i] /\ origin'[i] = origin[i] /\ (i \in Used' <=> i \in Used)
      BY <1>3, <1>6, <2>1
    <3>2. /\ i \in Used => origin[i] \in Used /\ origin[i] <= i
          /\ i \notin Used => origin[i] = NULL
          /\ rows[i] # NULL => i \in Used /\ Kin(rows[i], i)
      BY DEF RowsInv
    <3>3. rows[i] # NULL => Kin(rows[i], i)'
      BY <1>0, <1>2, <1>3, <1>6, <3>1, <3>2 DEF Kin
    <3> QED
      BY <1>3, <3>1, <3>2, <3>3
  <2>2. CASE i = top + 1
    <3>1. origin'[i] \in Used' /\ origin'[i] <= i
      BY <1>0, <1>3, <1>4, <1>6, <2>2 DEF Used
    <3>2. Kin(rows[i], i)'
      BY <1>0, <1>2, <1>3, <1>6, <2>2 DEF Kin
    <3> QED
      BY <1>3, <2>2, <3>1, <3>2
  <2> QED
    BY <2>1, <2>2
<1> QED
  BY <1>2, <1>3, <1>5, <1>6, <1>7

\* What an UPDATE of one row does.
LEMMA Saved ==
  ASSUME TypeOK, RowsInv, NEW i \in Used, NEW row \in Row, Kin(row, i), SaveRow(i, row),
         top' = top, origin' = origin
  PROVE  /\ rows' \in [Ids -> Row \cup {NULL}]
         /\ rows'[i] = row /\ \A k \in Ids : k # i => rows'[k] = rows[k]
         /\ RowsInv'
<1>0. Used' = Used /\ i \in Ids
  BY UsedIds DEF Used
<1>1. /\ rows' \in [Ids -> Row \cup {NULL}]
      /\ rows'[i] = row /\ \A k \in Ids : k # i => rows'[k] = rows[k]
  BY <1>0 DEF SaveRow, TypeOK
<1>2. RowsInv'
  BY <1>0, <1>1 DEF RowsInv, Kin
<1> QED
  BY <1>1, <1>2

\* A request that does not move keeps what is known of it.
LEMMA JobKeeps ==
  ASSUME Global, NEW b \in Admins, job[b] # NULL, job'[b] = job[b], Used \subseteq Used',
         \A i \in Used : origin'[i] = origin[i]
  PROVE  JobInv(b)'
<1>1. JobInv(b) /\ NULL \notin Used
  BY UsedIds DEF Global, JobsInv
<1> QED
  BY <1>1 DEF JobInv, Kin

\* The requests of the others keep what is known of them.
LEMMA OtherJobs ==
  ASSUME Global, NEW a \in Admins, NEW v, job' = [job EXCEPT ![a] = v],
         v = NULL \/ v \in Job, Used \subseteq Used', \A i \in Used : origin'[i] = origin[i],
         v # NULL => JobInv(a)'
  PROVE  JobsInv' /\ job' \in [Admins -> Job \cup {NULL}]
<1>1. job' \in [Admins -> Job \cup {NULL}] /\ job'[a] = v
  BY DEF Global, TypeOK
<1>2. \A b \in Admins : b # a => job'[b] = job[b]
  BY DEF Global, TypeOK
<1> QED
  BY <1>1, <1>2, JobKeeps DEF JobsInv

\* A request starts from this one.
LEMMA BlankJob == Blank \in Job
<1>1. 0 \in 0 .. MaxRows
  BY RowBounds
<1> QED
  BY <1>1 DEF Blank, Job

\* POST keeps the types.
LEMMA CreateGlobal ==
  ASSUME Global, NEW a \in Admins, NEW cred \in Creds \cup {NULL}, NEW active \in BOOLEAN,
         Create(a, cred, active)
  PROVE  /\ Global'
         /\ Insert([version |-> FirstVersion, parent |-> NULL, active |-> active,
                    cred |-> NULL], NULL, cred)
         /\ top + 1 \in Ids /\ top + 1 \notin Used /\ origin'[top + 1] = top + 1
         /\ meant'[top + 1] = cred /\ Used' = Used \cup {top + 1}
         /\ rows'[top + 1] = [version |-> FirstVersion, parent |-> NULL, active |-> active,
                              cred |-> NULL]
         /\ \A i \in Ids : i # top + 1 => /\ rows'[i] = rows[i] /\ meant'[i] = meant[i]
                                          /\ origin'[i] = origin[i]
<1> DEFINE row == [version |-> FirstVersion, parent |-> NULL, active |-> active,
                   cred |-> NULL]
           v == IF cred = NULL THEN NULL
                ELSE [Blank EXCEPT !.new = top + 1, !.cred = cred, !.active = active]
<1>1. TypeOK /\ RowsInv /\ Insert(row, NULL, cred) /\ job' = [job EXCEPT ![a] = v]
  BY DEF Global, Create
<1>2. top \in Nat /\ MaxRows \in Nat /\ top + 1 <= MaxRows
  BY <1>1, UsedIds, RowBounds, NextId DEF Insert
<1>3. row \in Row /\ row.version = 1 /\ row.parent = NULL
  BY <1>2 DEF Row, FirstVersion
<1> HIDE DEF row
<1>4. /\ top + 1 \in Ids /\ top + 1 \notin Used
      /\ top' = top + 1 /\ Used' = Used \cup {top + 1}
      /\ rows' \in [Ids -> Row \cup {NULL}] /\ origin' \in [Ids -> Ids \cup {NULL}]
      /\ meant' \in [Ids -> Creds \cup {NULL}] /\ top' \in 0 .. MaxRows
      /\ rows'[top + 1] = row /\ meant'[top + 1] = cred
      /\ origin'[top + 1] = top + 1
      /\ \A i \in Ids : i # top + 1 => /\ rows'[i] = rows[i] /\ meant'[i] = meant[i]
                                       /\ origin'[i] = origin[i]
      /\ RowsInv'
  <2>1. row.version <= top + 1 /\ NULL \in Used \cup {NULL}
    BY <1>2, <1>3
  <2> QED
    BY <1>1, <1>3, <2>1, Inserted
<1>5. \A i \in Used : origin'[i] = origin[i]
  BY <1>1, <1>4, UsedIds
<1>6. v = NULL \/ v \in Job
  <2>1. [Blank EXCEPT !.new = top + 1, !.cred = cred, !.active = active] \in Job
    BY <1>4, BlankJob DEF Job
  <2> QED
    BY <2>1
<1>7. v # NULL => JobInv(a)'
  <2> SUFFICES ASSUME v # NULL PROVE JobInv(a)'
    OBVIOUS
  <2>1. v.step = "save" /\ v.op = "create" /\ v.id = NULL /\ v.new = top + 1
    BY DEF Blank
  <2>2. job'[a] = v
    BY <1>1 DEF TypeOK
  <2> HIDE DEF v
  <2> QED
    BY <1>4, <2>1, <2>2 DEF JobInv, StepsOf
<1>8. JobsInv' /\ job' \in [Admins -> Job \cup {NULL}]
  <2> HIDE DEF v
  <2> QED
    BY <1>1, <1>4, <1>5, <1>6, <1>7, OtherJobs
<1>9. disturbed' \subseteq Ids
  BY <1>1 DEF Create, TypeOK
<1> QED
  BY <1>1, <1>4, <1>8, <1>9 DEF Global, TypeOK, row

\* So does the start of a request on an active row.
LEMMA BeginGlobal ==
  ASSUME Global, NEW a \in Admins, NEW i \in Ids, NEW j \in Job, Begin(a, i, j),
         j.step \in StepsOf(j.op), j.op # "create", j.step # "save"
  PROVE  /\ Global' /\ i \in Used
         /\ job' = [job EXCEPT ![a] = [j EXCEPT !.id = i, !.inst = rows[i]]]
         /\ [j EXCEPT !.id = i, !.inst = rows[i]] \in Job
<1> DEFINE v == [j EXCEPT !.id = i, !.inst = rows[i]]
<1>1. /\ TypeOK /\ RowsInv /\ rows[i] # NULL /\ i \in Used /\ Kin(rows[i], i)
      /\ rows[i] \in Row
  BY DEF Global, RowsInv, Begin, TypeOK
<1>2. v \in Job /\ v.op = j.op /\ v.step = j.step /\ v.id = i /\ v.inst = rows[i]
  BY <1>1 DEF Job
<1>3. /\ job' = [job EXCEPT ![a] = v] /\ Used' = Used /\ origin' = origin /\ top' = top
      /\ rows' = rows /\ meant' = meant
  BY DEF Begin, Used
<1> HIDE DEF v
<1>4. JobInv(a)'
  <2>1. job'[a] = v
    BY <1>1, <1>3 DEF TypeOK
  <2> QED
    BY <1>1, <1>2, <1>3, <2>1, RowTypes DEF JobInv, Kin
<1>5. JobsInv' /\ job' \in [Admins -> Job \cup {NULL}]
  BY <1>2, <1>3, <1>4, OtherJobs
<1>6. disturbed' \subseteq Ids
  <2>1. Overlap(a, i) \subseteq {origin[i]}
    BY DEF Overlap
  <2>2. origin[i] \in Ids
    BY <1>1, UsedIds DEF RowsInv
  <2> QED
    BY <1>1, <2>1, <2>2 DEF Begin, Disturb, TypeOK
<1>7. RowsInv'
  BY <1>1, <1>3 DEF RowsInv, Kin
<1> QED
  BY <1>1, <1>2, <1>3, <1>5, <1>6, <1>7 DEF Global, TypeOK, v

\* PATCH, rollback and DELETE start so.
LEMMA StartGlobal ==
  ASSUME Global, NEW a \in Admins, NEW i \in Ids, NEW cred \in Creds \cup {NULL},
         NEW active \in BOOLEAN, NEW version \in 1 .. MaxRows,
         Update(a, i, cred, active) \/ Rollback(a, i, version) \/ Delete(a, i)
  PROVE  \E j \in Job :
            /\ Begin(a, i, j) /\ j.step \in StepsOf(j.op) /\ j.op # "create"
            /\ j.step \notin {"save", "deactivate"}
            /\ j.op = "update" => j.kept = IF j.cred = NULL THEN meant[i] ELSE j.cred
            /\ j.op = "rollback" => j.step = "find"
<1>1. /\ MaxRows \in Nat /\ 0 \in 0 .. MaxRows /\ version \in 0 .. MaxRows
      /\ meant[i] \in Creds \cup {NULL}
  BY RowBounds DEF Global, TypeOK
<1>2. CASE Update(a, i, cred, active)
  <2> DEFINE kept == IF cred = NULL THEN meant[i] ELSE cred
             j == [Blank EXCEPT !.op = "update", !.step = "insert", !.cred = cred,
                                !.kept = kept, !.active = active]
  <2>1. kept \in Creds \cup {NULL}
    BY <1>1
  <2>2. Begin(a, i, j)
    BY <1>2 DEF Update
  <2>3. j \in Job /\ j.op = "update" /\ j.step = "insert" /\ j.cred = cred /\ j.kept = kept
    <3> HIDE DEF kept
    <3> QED
      BY <2>1, BlankJob DEF Job
  <2> HIDE DEF j
  <2>4. j.step \in StepsOf(j.op)
    BY <2>3 DEF StepsOf
  <2> QED
    BY <2>2, <2>3, <2>4
<1>3. CASE Rollback(a, i, version)
  <2> DEFINE j == [Blank EXCEPT !.op = "rollback", !.step = "find", !.version = version]
  <2>1. Begin(a, i, j)
    BY <1>3 DEF Rollback
  <2>2. j \in Job /\ j.op = "rollback" /\ j.step = "find"
    BY <1>1, BlankJob DEF Job
  <2> HIDE DEF j
  <2>4. j.step \in StepsOf(j.op)
    BY <2>2 DEF StepsOf
  <2> QED
    BY <2>1, <2>2, <2>4
<1>4. CASE Delete(a, i)
  <2> DEFINE j == [Blank EXCEPT !.op = "delete", !.step = "delete"]
  <2>1. Begin(a, i, j)
    BY <1>4 DEF Delete
  <2>2. j \in Job /\ j.op = "delete" /\ j.step = "delete"
    BY BlankJob DEF Job
  <2> HIDE DEF j
  <2>4. j.step \in StepsOf(j.op)
    BY <2>2 DEF StepsOf
  <2> QED
    BY <2>1, <2>2, <2>4
<1> QED
  BY <1>2, <1>3, <1>4

\* The row a request was asked for, and the one its versions hang on, are rows of
\* one family.
LEMMA RootKin ==
  ASSUME Global, NEW a \in Admins, job[a] # NULL, job[a].op # "create"
  PROVE  /\ job[a].id \in Used /\ job[a].id \in Ids /\ job[a].inst \in Row
         /\ Kin(job[a].inst, job[a].id) /\ FamilyOf(job[a]) = origin[job[a].id]
         /\ Root(job[a]) \in Used /\ origin[Root(job[a])] = origin[job[a].id]
<1>1. /\ TypeOK /\ job[a].id \in Used /\ job[a].inst # NULL
      /\ Kin(job[a].inst, job[a].id)
  BY DEF Global, JobsInv, JobInv
<1>2. job[a].inst \in Row /\ job[a].id \in Ids /\ job[a].id # NULL
  BY <1>1, JobTypes, UsedIds
<1> QED
  BY <1>1, <1>2 DEF FamilyOf, Root, Kin

\* A step that only moves or ends the request keeps the types.
LEMMA MoveGlobal ==
  ASSUME Global, NEW a \in Admins, NEW v, job' = [job EXCEPT ![a] = v],
         v = NULL \/ v \in Job, v # NULL => JobInv(a)',
         rows' \in [Ids -> Row \cup {NULL}], RowsInv', disturbed' \subseteq Ids,
         UNCHANGED <<top, origin, meant>>
  PROVE  Global'
<1>1. Used' = Used /\ TypeOK
  BY DEF Used, Global
<1>2. JobsInv' /\ job' \in [Admins -> Job \cup {NULL}]
  BY <1>1, OtherJobs
<1> QED
  BY <1>1, <1>2 DEF Global, TypeOK

\* So does the search of rollback(), which finds a row of its own family.
LEMMA FindTargetGlobal ==
  ASSUME Global, NEW a \in Admins, FindTarget(a)
  PROVE  /\ Global' /\ job[a] # NULL /\ job[a].op = "rollback" /\ job[a].step = "find"
         /\ UNCHANGED <<rows, top, origin, meant, disturbed>>
         /\ \/ job' = [job EXCEPT ![a] = NULL]
            \/ \E i \in Ids, v \in Job :
                  /\ job' = [job EXCEPT ![a] = v]
                  /\ rows[i] # NULL /\ origin[i] = origin[job[a].id]
                  /\ v.op = "rollback" /\ v.step = "insert" /\ v.id = job[a].id
                  /\ v.inst = job[a].inst /\ v.cred = rows[i].cred /\ v.kept = meant[i]
<1>1. /\ TypeOK /\ RowsInv /\ job[a] # NULL /\ JobInv(a) /\ job[a] \in Job
      /\ job[a].step = "find"
  BY DEF FindTarget, At, Global, JobsInv, TypeOK
<1>2. job[a].op = "rollback"
  BY <1>1, JobTypes DEF JobInv, StepsOf
<1>3. UNCHANGED <<rows, top, origin, meant, disturbed>>
  BY DEF FindTarget
<1>4. RowsInv' /\ rows' \in [Ids -> Row \cup {NULL}] /\ disturbed' \subseteq Ids
  BY <1>1, <1>3 DEF RowsInv, Kin, Used, TypeOK
<1>5. CASE job' = [job EXCEPT ![a] = NULL]
  <2>1. Global'
    BY <1>3, <1>4, <1>5, MoveGlobal
  <2> QED
    BY <1>1, <1>2, <1>3, <1>5, <2>1
<1>6. CASE \E i \in Targets(job[a]) :
              job' = [job EXCEPT ![a].cred = rows[i].cred, ![a].kept = meant[i],
                                 ![a].step = "insert"]
  <2>1. PICK i \in Targets(job[a]) :
              job' = [job EXCEPT ![a].cred = rows[i].cred, ![a].kept = meant[i],
                                 ![a].step = "insert"]
    BY <1>6
  <2>2. i \in Ids /\ rows[i] # NULL /\ rows[i].parent = Root(job[a])
    BY <2>1 DEF Targets
  <2>3. origin[i] = origin[job[a].id]
    <3>1. rows[i].parent # NULL
      BY <1>1, <1>2, <2>2, RootKin, UsedIds
    <3> QED
      BY <1>1, <1>2, <2>2, <3>1, RootKin DEF RowsInv, Kin
  <2> DEFINE v == [job[a] EXCEPT !.cred = rows[i].cred, !.kept = meant[i],
                                 !.step = "insert"]
  <2>4. job' = [job EXCEPT ![a] = v]
    BY <2>1
  <2>5. rows[i] \in Row /\ meant[i] \in Creds \cup {NULL}
    BY <1>1, <2>2 DEF TypeOK
  <2>6. rows[i].cred \in Creds \cup {NULL}
    BY <2>5, RowTypes
  <2>7. v \in Job
    BY <1>1, <2>5, <2>6 DEF Job
  <2>8. /\ v.op = "rollback" /\ v.step = "insert" /\ v.id = job[a].id
        /\ v.inst = job[a].inst /\ v.cred = rows[i].cred /\ v.kept = meant[i]
    BY <1>1, <1>2 DEF Job
  <2> HIDE DEF v
  <2>9. JobInv(a)'
    <3>1. job'[a] = v
      BY <1>1, <2>4 DEF TypeOK
    <3> QED
      BY <1>1, <1>2, <1>3, <2>8, <3>1 DEF JobInv, StepsOf, Kin, Used
  <2>10. Global'
    BY <1>3, <1>4, <2>4, <2>7, <2>9, MoveGlobal
  <2> QED
    BY <1>1, <1>2, <1>3, <2>2, <2>3, <2>4, <2>7, <2>8, <2>10
<1> QED
  BY <1>5, <1>6 DEF FindTarget

\* So does the INSERT of a new version, which counts on from the one it replaces.
LEMMA InsertVersionGlobal ==
  ASSUME Global, NEW a \in Admins, InsertVersion(a)
  PROVE  /\ Global' /\ job[a] # NULL /\ job[a].op \in {"update", "rollback"}
         /\ job[a].step = "insert" /\ top + 1 \in Ids /\ top + 1 \notin Used
         /\ Used' = Used \cup {top + 1} /\ disturbed' = disturbed
         /\ rows'[top + 1] =
               [version |-> NewVersion(job[a]), parent |-> Root(job[a]),
                active |-> job[a].active,
                cred |-> IF job[a].op = "rollback" THEN job[a].cred ELSE NULL]
         /\ rows'[top + 1] \in Row
         /\ origin'[top + 1] = origin[job[a].id] /\ meant'[top + 1] = job[a].kept
         /\ \A i \in Ids : i # top + 1 => /\ rows'[i] = rows[i] /\ meant'[i] = meant[i]
                                          /\ origin'[i] = origin[i]
         /\ \E v \in Job :
               /\ job' = [job EXCEPT ![a] = v]
               /\ v.op = job[a].op /\ v.id = job[a].id /\ v.inst = job[a].inst
               /\ v.new = top + 1 /\ v.cred = job[a].cred /\ v.kept = job[a].kept
               /\ v.active = job[a].active
               /\ v.step = IF job[a].op = "rollback" THEN "deactivate" ELSE "save"
<1> PICK j : j = job[a]
  OBVIOUS
<1> DEFINE row == [version |-> NewVersion(j), parent |-> Root(j), active |-> j.active,
                   cred |-> IF j.op = "rollback" THEN j.cred ELSE NULL]
           st == IF j.op = "rollback" THEN "deactivate" ELSE "save"
           v == [j EXCEPT !.new = top + 1, !.step = st]
<1>1. /\ TypeOK /\ RowsInv /\ job[a] # NULL /\ JobInv(a) /\ j \in Job /\ j.step = "insert"
  BY DEF InsertVersion, At, Global, JobsInv, TypeOK
<1>2. j.op \in {"update", "rollback"}
  BY <1>1, JobTypes DEF JobInv, StepsOf
<1>3. /\ j.id \in Used /\ j.inst \in Row /\ Kin(j.inst, j.id) /\ j.id \in Ids
      /\ Root(j) \in Used /\ origin[Root(j)] = origin[j.id]
  BY <1>1, <1>2, RootKin
<1>4. Insert(row, j.id, j.kept) /\ job' = [job EXCEPT ![a] = v] /\ disturbed' = disturbed
  BY DEF InsertVersion
<1>5. top \in Nat /\ MaxRows \in Nat /\ Used \subseteq Ids /\ NULL \notin Used /\ Ids \subseteq Nat
  BY <1>1, UsedIds, RowBounds
<1>6. top + 1 <= MaxRows
  BY <1>4, <1>5, NextId DEF Insert
<1>7. NewVersion(j) \in 1 .. MaxRows /\ NewVersion(j) <= top + 1
  <2>1. j.inst.version \in 1 .. MaxRows /\ j.inst.version <= j.id
    BY <1>3, RowTypes DEF Kin
  <2> QED
    BY <1>3, <1>5, <1>6, <2>1 DEF NewVersion, Used
<1>8. row \in Row /\ row.version = NewVersion(j) /\ row.parent = Root(j)
  <2>1. j.active \in BOOLEAN /\ j.cred \in Creds \cup {NULL}
    BY <1>1, JobTypes
  <2> QED
    BY <1>3, <1>5, <1>7, <2>1 DEF Row
<1>9. j.kept \in Creds \cup {NULL}
  BY <1>1, JobTypes
<1> HIDE DEF row
<1>10. /\ top + 1 \in Ids /\ top + 1 \notin Used
       /\ top' = top + 1 /\ Used' = Used \cup {top + 1}
       /\ rows' \in [Ids -> Row \cup {NULL}] /\ origin' \in [Ids -> Ids \cup {NULL}]
       /\ meant' \in [Ids -> Creds \cup {NULL}] /\ top' \in 0 .. MaxRows
       /\ rows'[top + 1] = row /\ meant'[top + 1] = j.kept
       /\ origin'[top + 1] = origin[j.id]
       /\ \A i \in Ids : i # top + 1 => /\ rows'[i] = rows[i] /\ meant'[i] = meant[i]
                                        /\ origin'[i] = origin[i]
       /\ RowsInv'
  <2>1. row.version <= top + 1 /\ j.id \in Used \cup {NULL} /\ j.id # NULL
    BY <1>3, <1>5, <1>7, <1>8
  <2>2. row.parent # NULL => /\ j.id # NULL /\ row.parent \in Used
                             /\ origin[row.parent] = origin[j.id]
    BY <1>3, <1>8, <2>1
  <2>3. Insert(row, j.id, j.kept)
    BY <1>4
  <2> QED
    BY <1>1, <1>8, <1>9, <2>1, <2>2, <2>3, Inserted
<1>11. \A i \in Used : i \in Ids /\ origin'[i] = origin[i]
  BY <1>5, <1>10
<1>12. /\ v \in Job /\ v.op = j.op /\ v.id = j.id /\ v.inst = j.inst /\ v.new = top + 1
       /\ v.cred = j.cred /\ v.kept = j.kept /\ v.active = j.active
       /\ v.step = st
  <2>1. st \in {"deactivate", "save"} /\ top + 1 \in Ids /\ j \in Job
    BY <1>1, <1>10
  <2> HIDE DEF st
  <2>2. v \in Job
    BY <2>1 DEF Job
  <2>3. v.op = j.op /\ v.id = j.id /\ v.inst = j.inst /\ v.new = top + 1 /\ v.step = st
    BY <2>1 DEF Job
  <2>4. v.cred = j.cred /\ v.kept = j.kept /\ v.active = j.active
    BY <2>1 DEF Job
  <2> QED
    BY <2>2, <2>3, <2>4
<1> HIDE DEF v
<1>13. JobInv(a)'
  <2>1. job'[a] = v
    BY <1>1, <1>4 DEF TypeOK
  <2>2. v.step \in StepsOf(v.op) /\ v.op # "create"
    BY <1>2, <1>12 DEF StepsOf
  <2>3. Kin(job[a].inst, job[a].id)'
    <3>1. j.inst.version <= j.id /\ (j.inst.parent # NULL => j.inst.parent \in Used
             /\ origin[j.inst.parent] = origin[j.id])
      BY <1>3 DEF Kin
    <3> QED
      BY <1>3, <1>10, <1>11, <1>12, <2>1, <3>1 DEF Kin
  <2>4. /\ v.id \in Used' /\ v.inst # NULL /\ v.new \in Used' /\ v.id < v.new
        /\ origin'[v.new] = origin'[v.id]
    BY <1>3, <1>5, <1>10, <1>11, <1>12, RowTypes DEF Used
  <2> QED
    BY <2>1, <2>2, <2>3, <2>4 DEF JobInv
<1>14. JobsInv' /\ job' \in [Admins -> Job \cup {NULL}]
  <2>1. Used \subseteq Used'
    BY <1>10
  <2> QED
    BY <1>4, <1>11, <1>12, <1>13, <2>1, OtherJobs
<1>15. Global'
  BY <1>1, <1>4, <1>10, <1>14 DEF Global, TypeOK
<1> QED
  BY <1>1, <1>2, <1>4, <1>8, <1>10, <1>12, <1>15 DEF row

\* So does the save of the credentials, into the row the request inserted.
LEMMA SaveCredentialsGlobal ==
  ASSUME Global, NEW a \in Admins, SaveCredentials(a)
  PROVE  /\ Global' /\ job[a] # NULL /\ job[a].op \in {"create", "update"}
         /\ job[a].step = "save" /\ job[a].new \in Used /\ rows'[job[a].new] \in Row
         /\ UNCHANGED <<top, origin, meant, disturbed>>
         /\ job[a].op = "create" =>
               /\ job' = [job EXCEPT ![a] = NULL]
               /\ rows'[job[a].new] = [version |-> FirstVersion, parent |-> NULL,
                                       active |-> job[a].active,
                                       cred |-> KeptCredentials(job[a])]
         /\ job[a].op = "update" =>
               /\ rows'[job[a].new] = [version |-> NewVersion(job[a]), parent |-> Root(job[a]),
                                       active |-> job[a].active,
                                       cred |-> KeptCredentials(job[a])]
               /\ \E v \in Job :
                     /\ job' = [job EXCEPT ![a] = v]
                     /\ v.op = "update" /\ v.id = job[a].id /\ v.inst = job[a].inst
                     /\ v.step = "deactivate"
         /\ \A i \in Ids : i # job[a].new => rows'[i] = rows[i]
<1> PICK j : j = job[a]
  OBVIOUS
<1> DEFINE row == [version |-> IF j.op = "create" THEN FirstVersion ELSE NewVersion(j),
                   parent |-> IF j.op = "create" THEN NULL ELSE Root(j),
                   active |-> j.active, cred |-> KeptCredentials(j)]
           w == [j EXCEPT !.step = "deactivate", !.cred = NULL, !.kept = NULL, !.new = NULL]
           v == IF j.op = "create" THEN NULL ELSE w
<1>1. /\ TypeOK /\ RowsInv /\ job[a] # NULL /\ JobInv(a) /\ j \in Job /\ j.step = "save"
  BY DEF SaveCredentials, At, Global, JobsInv, TypeOK
<1>2. j.op \in {"create", "update"} /\ j.new \in Used
  BY <1>1, JobTypes DEF JobInv, StepsOf
<1>3. SaveRow(j.new, row) /\ job' = [job EXCEPT ![a] = v]
  BY DEF SaveCredentials
<1>4. UNCHANGED <<top, origin, meant, disturbed>>
  BY DEF SaveCredentials
<1>5. MaxRows \in Nat /\ Used \subseteq Ids /\ Ids \subseteq Nat /\ top <= MaxRows /\ top \in Nat
      /\ NULL \notin Used
  BY <1>1, UsedIds, RowBounds
<1>6. j.active \in BOOLEAN /\ j.cred \in Creds \cup {NULL}
  BY <1>1, JobTypes
<1>7. row \in Row /\ Kin(row, j.new)
  <2>1. CASE j.op = "create"
    <3>1. KeptCredentials(j) \in Creds \cup {NULL}
      BY <1>6, <2>1 DEF KeptCredentials
    <3>2. 1 <= j.new /\ 1 \in 1 .. MaxRows
      BY <1>2, <1>5 DEF Used
    <3>3. row = [version |-> 1, parent |-> NULL, active |-> j.active,
                 cred |-> KeptCredentials(j)]
      BY <2>1 DEF FirstVersion
    <3> HIDE DEF row
    <3>4. row \in Row
      BY <1>6, <3>1, <3>2, <3>3 DEF Row
    <3>5. row.version = 1 /\ row.parent = NULL
      BY <3>3
    <3> QED
      BY <3>2, <3>4, <3>5 DEF Kin
  <2>2. CASE j.op = "update"
    <3>1. /\ j.id \in Used /\ j.inst \in Row /\ Kin(j.inst, j.id) /\ j.id \in Ids
          /\ Root(j) \in Used /\ origin[Root(j)] = origin[j.id]
      BY <1>1, <2>2, RootKin
    <3>2. origin[j.new] = origin[j.id] /\ j.id < j.new
      BY <1>1, <2>2 DEF JobInv
    <3>3. /\ j.inst.version \in 1 .. MaxRows /\ j.inst.cred \in Creds \cup {NULL}
          /\ j.inst.version <= j.id
      BY <3>1, RowTypes DEF Kin
    <3>4. NewVersion(j) \in 1 .. MaxRows /\ NewVersion(j) <= j.new
      BY <1>2, <1>5, <3>1, <3>2, <3>3 DEF NewVersion, Used
    <3>5. KeptCredentials(j) \in Creds \cup {NULL}
      BY <1>6, <2>2, <3>3 DEF KeptCredentials
    <3>6. row = [version |-> NewVersion(j), parent |-> Root(j), active |-> j.active,
                 cred |-> KeptCredentials(j)]
      BY <2>2
    <3> HIDE DEF row
    <3>7. row \in Row
      BY <1>5, <1>6, <3>1, <3>4, <3>5, <3>6 DEF Row
    <3>8. row.version = NewVersion(j) /\ row.parent = Root(j)
      BY <3>6
    <3> QED
      BY <3>1, <3>2, <3>4, <3>7, <3>8 DEF Kin
  <2> QED
    BY <1>2, <2>1, <2>2
<1>8. /\ rows' \in [Ids -> Row \cup {NULL}] /\ RowsInv'
      /\ rows'[j.new] = row /\ \A k \in Ids : k # j.new => rows'[k] = rows[k]
  <2> HIDE DEF row
  <2> QED
    BY <1>1, <1>2, <1>3, <1>4, <1>7, Saved
<1>9. w \in Job /\ w.op = j.op /\ w.id = j.id /\ w.inst = j.inst /\ w.step = "deactivate"
  BY <1>1 DEF Job
<1>10. v = NULL \/ v \in Job
  BY <1>9
<1>11. v # NULL => JobInv(a)'
  <2> SUFFICES ASSUME v # NULL PROVE JobInv(a)'
    OBVIOUS
  <2>1. j.op = "update" /\ v = w
    BY <1>2
  <2> HIDE DEF v, w
  <2>2. job'[a] = w
    BY <1>1, <1>3, <2>1 DEF TypeOK
  <2>3. /\ j.id \in Used /\ j.inst \in Row /\ Kin(j.inst, j.id)
    BY <1>1, <2>1, RootKin
  <2>4. Used' = Used /\ j.inst # NULL
    BY <1>4, <2>3, RowTypes DEF Used
  <2>5. Kin(job[a].inst, job[a].id)'
    BY <1>4, <1>9, <2>2, <2>3, <2>4 DEF Kin
  <2> QED
    BY <1>9, <2>1, <2>2, <2>3, <2>4, <2>5 DEF JobInv, StepsOf
<1>12. Global'
  <2>1. disturbed' \subseteq Ids
    BY <1>1, <1>4 DEF TypeOK
  <2> HIDE DEF v
  <2> QED
    BY <1>3, <1>4, <1>8, <1>10, <1>11, <2>1, MoveGlobal
<1>13. j.op = "create" =>
          /\ job' = [job EXCEPT ![a] = NULL]
          /\ rows'[j.new] = [version |-> FirstVersion, parent |-> NULL,
                             active |-> j.active, cred |-> KeptCredentials(j)]
  BY <1>3, <1>8
<1>14. j.op = "update" =>
          /\ rows'[j.new] = [version |-> NewVersion(j), parent |-> Root(j),
                             active |-> j.active, cred |-> KeptCredentials(j)]
          /\ job' = [job EXCEPT ![a] = w]
  BY <1>3, <1>8
<1> HIDE DEF v, w, row
<1> QED
  BY <1>1, <1>2, <1>4, <1>7, <1>8, <1>9, <1>12, <1>13, <1>14

\* So does the save that deactivates the old version.
LEMMA DeactivateGlobal ==
  ASSUME Global, NEW a \in Admins, Deactivate(a)
  PROVE  /\ Global' /\ job[a] # NULL /\ job[a].op # "create"
         /\ job[a].step = "deactivate" /\ job' = [job EXCEPT ![a] = NULL]
         /\ rows'[job[a].id] = [job[a].inst EXCEPT !.active = FALSE]
         /\ \A i \in Ids : i # job[a].id => rows'[i] = rows[i]
         /\ UNCHANGED <<top, origin, meant, disturbed>>
<1> PICK j : j = job[a]
  OBVIOUS
<1> DEFINE row == [j.inst EXCEPT !.active = FALSE]
<1>1. /\ TypeOK /\ RowsInv /\ job[a] # NULL /\ JobInv(a) /\ j.step = "deactivate"
  BY DEF Deactivate, At, Global, JobsInv
<1>2. j.op # "create"
  BY <1>1 DEF JobInv, StepsOf
<1>3. j.id \in Used /\ j.inst \in Row /\ Kin(j.inst, j.id)
  BY <1>1, <1>2, RootKin
<1>4. SaveRow(j.id, row) /\ job' = [job EXCEPT ![a] = NULL]
  BY DEF Deactivate
<1>5. UNCHANGED <<top, origin, meant, disturbed>>
  BY DEF Deactivate
<1>6. row \in Row /\ row.version = j.inst.version /\ row.parent = j.inst.parent
  BY <1>3 DEF Row
<1> HIDE DEF row
<1>7. Kin(row, j.id)
  BY <1>3, <1>6 DEF Kin
<1>8. /\ rows' \in [Ids -> Row \cup {NULL}] /\ RowsInv'
      /\ rows'[j.id] = row /\ \A k \in Ids : k # j.id => rows'[k] = rows[k]
  BY <1>1, <1>3, <1>4, <1>5, <1>6, <1>7, Saved
<1>9. disturbed' \subseteq Ids
  BY <1>1, <1>5 DEF TypeOK
<1>10. Global'
  BY <1>4, <1>5, <1>8, <1>9, MoveGlobal
<1> QED
  BY <1>1, <1>2, <1>4, <1>5, <1>8, <1>10 DEF row

\* So does DELETE.
LEMMA DeleteRowGlobal ==
  ASSUME Global, NEW a \in Admins, DeleteRow(a)
  PROVE  /\ Global' /\ job[a] # NULL /\ job[a].op = "delete"
         /\ job[a].step = "delete" /\ job' = [job EXCEPT ![a] = NULL]
         /\ rows'[job[a].id] = NULL
         /\ \A i \in Ids : i # job[a].id /\ (rows[i] # NULL => rows[i].parent # job[a].id)
                              => rows'[i] = rows[i]
         /\ \A i \in Ids : i # job[a].id => (rows'[i] = NULL <=> rows[i] = NULL)
         /\ UNCHANGED <<top, origin, meant, disturbed>>
<1> PICK i : i = job[a].id
  OBVIOUS
<1>1. /\ TypeOK /\ RowsInv /\ job[a] # NULL /\ JobInv(a) /\ job[a].step = "delete"
  BY DEF DeleteRow, At, Global, JobsInv
<1>2. job[a].op = "delete"
  BY <1>1, JobTypes DEF JobInv, StepsOf
<1>3. i \in Used /\ i \in Ids
  BY <1>1, <1>2, RootKin
<1>4. /\ job' = [job EXCEPT ![a] = NULL]
      /\ rows' = [k \in Ids |-> IF k = i THEN NULL
                                ELSE IF rows[k] # NULL /\ rows[k].parent = i
                                THEN [rows[k] EXCEPT !.parent = NULL] ELSE rows[k]]
  BY DEF DeleteRow
<1>5. UNCHANGED <<top, origin, meant, disturbed>>
  BY DEF DeleteRow
<1>6. ASSUME NEW k \in Ids
      PROVE  /\ rows'[k] \in Row \cup {NULL}
             /\ rows'[k] # NULL => /\ rows[k] # NULL /\ rows'[k].version = rows[k].version
                                   /\ rows'[k].parent \in {NULL, rows[k].parent}
             /\ k # i /\ rows[k] # NULL => rows'[k] # NULL
             /\ k # i /\ (rows[k] # NULL => rows[k].parent # i) => rows'[k] = rows[k]
  <2>1. rows[k] \in Row \cup {NULL}
    BY <1>1 DEF TypeOK
  <2>2. CASE k = i
    BY <1>4, <2>2
  <2>3. CASE k # i /\ rows[k] # NULL /\ rows[k].parent = i
    <3>1. rows'[k] = [rows[k] EXCEPT !.parent = NULL]
      BY <1>4, <2>3
    <3>2. /\ rows'[k] \in Row /\ rows'[k].version = rows[k].version
          /\ rows'[k].parent = NULL
      BY <2>1, <2>3, <3>1 DEF Row
    <3> QED
      BY <2>3, <3>2, RowTypes
  <2>4. CASE k # i /\ ~(rows[k] # NULL /\ rows[k].parent = i)
    BY <1>4, <2>1, <2>4
  <2> QED
    BY <2>2, <2>3, <2>4
<1>7. rows' \in [Ids -> Row \cup {NULL}] /\ rows'[i] = NULL
  BY <1>3, <1>4, <1>6
<1>8. Used' = Used
  BY <1>5 DEF Used
<1>9. RowsInv'
  BY <1>1, <1>5, <1>6, <1>8 DEF RowsInv, Kin
<1>10. disturbed' \subseteq Ids
  BY <1>1, <1>5 DEF TypeOK
<1>11. Global'
  BY <1>4, <1>5, <1>7, <1>9, <1>10, MoveGlobal
<1> QED
  BY <1>1, <1>2, <1>4, <1>5, <1>6, <1>7, <1>11

\* And the death of a request.
LEMMA DieGlobal ==
  ASSUME Global, NEW a \in Admins, Die(a)
  PROVE  /\ Global' /\ job[a] # NULL /\ job' = [job EXCEPT ![a] = NULL]
         /\ disturbed' = disturbed \cup {FamilyOf(job[a])}
         /\ UNCHANGED <<rows, top, origin, meant>>
<1>1. /\ TypeOK /\ RowsInv /\ job[a] # NULL /\ job' = [job EXCEPT ![a] = NULL]
      /\ disturbed' = disturbed \cup {FamilyOf(job[a])}
      /\ UNCHANGED <<rows, top, origin, meant>>
  BY DEF Die, Disturb, Global
<1>2. disturbed' \subseteq Ids
  BY <1>1, FamilyTypes, UsedIds DEF TypeOK
<1>3. RowsInv' /\ rows' \in [Ids -> Row \cup {NULL}]
  BY <1>1 DEF RowsInv, Kin, Used, TypeOK
<1> QED
  BY <1>1, <1>2, <1>3, MoveGlobal

\* What is true of every configuration is so initially, and after every step.
LEMMA InitGlobal == Init => Global
<1> SUFFICES ASSUME Init PROVE Global
  OBVIOUS
<1>1. MaxRows \in Nat /\ top = 0 /\ Used = {}
  BY RowBounds DEF Init, Used
<1> QED
  BY <1>1 DEF Init, Global, TypeOK, RowsInv, JobsInv

\* The steps keep it.
LEMMA NextGlobal ==
  ASSUME Global, [Next]_vars
  PROVE  Global'
<1>1. CASE UNCHANGED vars
  BY <1>1 DEF vars, Global, TypeOK, RowsInv, JobsInv, JobInv, Kin, Used
<1>2. CASE Next
  <2>1. PICK a \in Admins :
          \/ \E cred \in Creds \cup {NULL}, active \in BOOLEAN :
                 \/ Create(a, cred, active)
                 \/ \E i \in Ids : Update(a, i, cred, active)
          \/ \E i \in Ids, version \in 1 .. MaxRows : Rollback(a, i, version)
          \/ \E i \in Ids : Delete(a, i)
          \/ FindTarget(a) \/ InsertVersion(a) \/ SaveCredentials(a) \/ Deactivate(a)
          \/ DeleteRow(a) \/ Die(a)
    BY <1>2 DEF Next
  <2>2. CASE \E cred \in Creds \cup {NULL}, active \in BOOLEAN : Create(a, cred, active)
    BY <2>2, CreateGlobal
  <2>3. CASE \E i \in Ids : \/ \E cred \in Creds \cup {NULL}, active \in BOOLEAN :
                                   Update(a, i, cred, active)
                            \/ \E version \in 1 .. MaxRows : Rollback(a, i, version)
                            \/ Delete(a, i)
    <3>1. PICK i \in Ids, cred \in Creds \cup {NULL}, active \in BOOLEAN,
               version \in 1 .. MaxRows :
            Update(a, i, cred, active) \/ Rollback(a, i, version) \/ Delete(a, i)
      <4>1. Ids # {} => 1 \in 1 .. MaxRows
        BY RowBounds DEF Ids
      <4> QED
        BY <2>3, <4>1
    <3>2. PICK j \in Job :
            /\ Begin(a, i, j) /\ j.step \in StepsOf(j.op) /\ j.op # "create"
            /\ j.step \notin {"save", "deactivate"}
      BY <3>1, StartGlobal
    <3> QED
      BY <3>2, BeginGlobal
  <2>4. CASE FindTarget(a)
    BY <2>4, FindTargetGlobal
  <2>5. CASE InsertVersion(a)
    BY <2>5, InsertVersionGlobal
  <2>6. CASE SaveCredentials(a)
    BY <2>6, SaveCredentialsGlobal
  <2>7. CASE Deactivate(a)
    BY <2>7, DeactivateGlobal
  <2>8. CASE DeleteRow(a)
    BY <2>8, DeleteRowGlobal
  <2>9. CASE Die(a)
    BY <2>9, DieGlobal
  <2> QED
    BY <2>1, <2>2, <2>3, <2>4, <2>5, <2>6, <2>7, <2>8, <2>9
<1> QED
  BY <1>1, <1>2

\* The rows and the requests in memory of the ProviderConfigurationViewSet have
\* the shape the code gives them, and no version number exceeds the number of
\* rows ever stored, whatever requests overlap or die.
THEOREM ProviderTypes == Spec => []TypeOK
<1>1. Init => Global
  BY InitGlobal
<1>2. Global /\ [Next]_vars => Global'
  BY NextGlobal
<1>3. Global => TypeOK
  BY DEF Global
<1> QED
  BY <1>1, <1>2, <1>3, PTL DEF Spec

-----------------------------------------------------------------------------
(* The families nobody disturbs. *)

\* A row that waits for its credentials, or to be replaced, is a row of the
\* family the request works on.
LEMMA RowOfRequest ==
  ASSUME Global, NEW a \in Admins, NEW k \in Ids, Unsaved(a, k) \/ Replaced(a, k)
  PROVE  WorksOn(a, origin[k])
<1>1. TypeOK /\ job[a] # NULL /\ JobInv(a)
  BY DEF Unsaved, Replaced, Global, JobsInv
<1>2. NULL \notin Used
  BY <1>1, UsedIds
<1>3. CASE Replaced(a, k)
  BY <1>1, <1>2, <1>3 DEF Replaced, JobInv, WorksOn, FamilyOf
<1>4. CASE Unsaved(a, k) /\ job[a].op = "create"
  BY <1>1, <1>4 DEF Unsaved, JobInv, WorksOn, FamilyOf
<1>5. CASE Unsaved(a, k) /\ job[a].op # "create"
  <2>1. job[a].op = "update"
    BY <1>1, <1>5, JobTypes DEF Unsaved, JobInv, StepsOf
  <2> QED
    BY <1>1, <1>2, <1>5, <2>1 DEF Unsaved, JobInv, WorksOn, FamilyOf
<1> QED
  BY <1>3, <1>4, <1>5

\* When nobody but a works on an orderly family, the exceptions are a's.
LEMMA OneRequest ==
  ASSUME Global, NEW a \in Admins, NEW o \in Ids, Orderly(o),
         \A b \in Admins : b # a => ~WorksOn(b, o)
  PROVE  /\ \A k \in Members(o) : rows[k].cred = meant[k] \/ Unsaved(a, k)
         /\ \A k \in Members(o) :
               rows[k].active => (\A l \in Members(o) : l <= k) \/ Replaced(a, k)
<1>1. \A k \in Members(o), b \in Admins : Unsaved(b, k) \/ Replaced(b, k) => b = a
  BY RowOfRequest DEF Members
<1> QED
  BY <1>1 DEF Orderly, Faithful, NewestActive

\* Conversely, these facts about a make the family orderly after the step.
LEMMA OneRequestNext ==
  ASSUME NEW a \in Admins, NEW o \in Ids,
         \A b \in Admins : b # a => ~WorksOn(b, o)', Line(o)', WorksOn(a, o)' => Fresh(a)',
         \A k \in Members(o)' : rows'[k].cred = meant'[k] \/ Unsaved(a, k)',
         \A k \in Members(o)' :
            rows'[k].active => (\A l \in Members(o)' : l <= k) \/ Replaced(a, k)'
  PROVE  Orderly(o)'
<1>1. Sole(o)'
  BY DEF Sole
<1>2. Faithful(o)'
  BY DEF Faithful
<1>3. NewestActive(o)'
  BY DEF NewestActive
<1> QED
  BY <1>1, <1>2, <1>3 DEF Orderly

\* The others' requests stay with their families.
LEMMA OthersStay ==
  ASSUME Global, NEW b \in Admins, job'[b] = job[b],
         \A k \in Used : origin'[k] = origin[k], NEW o
  PROVE  WorksOn(b, o)' <=> WorksOn(b, o)
<1>1. CASE job[b] = NULL
  BY <1>1 DEF WorksOn
<1>2. CASE job[b] # NULL
  <2>1. JobInv(b) /\ NULL \notin Used
    BY <1>2, UsedIds DEF Global, JobsInv
  <2>2. IF job[b].id = NULL THEN job[b].new \in Used ELSE job[b].id \in Used
    BY <1>2, <2>1 DEF JobInv, StepsOf
  <2> QED
    BY <1>2, <2>2 DEF WorksOn, FamilyOf
<1> QED
  BY <1>1, <1>2

\* The row an undisturbed request has inserted and not saved yet is there.
LEMMA UnsavedRow ==
  ASSUME Global, NEW b \in Admins, job[b] # NULL, Fresh(b), job[b].step = "save"
  PROVE  /\ job[b].new \in Used /\ job[b].new \in Ids /\ job[b].op \in {"create", "update"}
         /\ rows[job[b].new] \in Row /\ origin[job[b].new] = FamilyOf(job[b])
<1>1. TypeOK /\ JobInv(b)
  BY DEF Global, JobsInv
<1>2. job[b].new \in Used /\ job[b].new \in Ids
  BY <1>1, UsedIds DEF JobInv
<1>3. job[b].op \in {"create", "update"}
  BY <1>1, JobTypes DEF JobInv, StepsOf
<1>4. rows[job[b].new] \in Row
  <2>1. CASE job[b].op = "create"
    <3>1. rows[job[b].new] = [version |-> FirstVersion, parent |-> NULL,
                              active |-> job[b].active, cred |-> NULL]
      BY <2>1 DEF Fresh
    <3> QED
      BY <1>1, <1>2, <3>1, JobTypes, RowBounds DEF Row, FirstVersion, Ids
  <2>2. CASE job[b].op = "update"
    <3>1. rows[job[b].new] = [version |-> NewVersion(job[b]), parent |-> Root(job[b]),
                              active |-> job[b].active, cred |-> NULL]
      BY <2>2 DEF Fresh
    <3>2. /\ job[b].id \in Ids /\ job[b].inst \in Row /\ Kin(job[b].inst, job[b].id)
          /\ Root(job[b]) \in Ids /\ job[b].id < job[b].new
      BY <1>1, <2>2, RootKin, UsedIds DEF JobInv
    <3>3. NewVersion(job[b]) \in 1 .. MaxRows
      BY <1>2, <3>2, RowTypes, RowBounds DEF Kin, NewVersion, Ids
    <3> QED
      BY <1>1, <3>1, <3>2, <3>3, JobTypes DEF Row
  <2> QED
    BY <1>3, <2>1, <2>2
<1>5. origin[job[b].new] = FamilyOf(job[b])
  BY <1>1, <1>3, UsedIds DEF FamilyOf, JobInv
<1> QED
  BY <1>2, <1>3, <1>4, <1>5

\* A family that the step of a is not about stays orderly.
LEMMA OtherFamily ==
  ASSUME Global, NEW o \in Ids, Orderly(o), NEW a \in Admins,
         \A b \in Admins : b # a => job'[b] = job[b],
         \A k \in Used : origin'[k] = origin[k] /\ meant'[k] = meant[k],
         \A k \in Members(o) : rows'[k] = rows[k], Members(o)' = Members(o),
         ~WorksOn(a, o), ~WorksOn(a, o)'
  PROVE  Orderly(o)'
<1>0. TypeOK /\ RowsInv
  BY DEF Global
<1>1. \A b \in Admins : WorksOn(b, o)' <=> WorksOn(b, o)
  BY OthersStay
<1>2. \A b \in Admins : WorksOn(b, o) => job'[b] = job[b]
  OBVIOUS
<1>3. \A k \in Members(o) : k \in Ids /\ k \in Used /\ origin[k] = o /\ rows[k] # NULL
  BY <1>0 DEF Members, RowsInv
<1>4. \A k \in Members(o), b \in Admins : Unsaved(b, k) \/ Replaced(b, k) => WorksOn(b, o)
  BY <1>3, RowOfRequest
<1>5. \A k \in Members(o), b \in Admins : /\ Unsaved(b, k) => Unsaved(b, k)'
                                          /\ Replaced(b, k) => Replaced(b, k)'
  BY <1>2, <1>4 DEF Unsaved, Replaced
<1>6. Sole(o)'
  BY <1>1 DEF Orderly, Sole
<1>7. Line(o)'
  BY DEF Orderly, Line
<1>8. Faithful(o)'
  BY <1>3, <1>5 DEF Orderly, Faithful
<1>9. NewestActive(o)'
  BY <1>5 DEF Orderly, NewestActive
<1>10. ASSUME NEW b \in Admins, WorksOn(b, o)'
       PROVE  Fresh(b)'
  <2>1. WorksOn(b, o) /\ job'[b] = job[b] /\ Fresh(b) /\ JobInv(b) /\ job[b] # NULL
    BY <1>1, <1>2, <1>10 DEF Orderly, WorksOn, Global, JobsInv
  <2>2. job[b].op # "create" => job[b].id \in Members(o) /\ job[b].id \in Used
    <3> SUFFICES ASSUME job[b].op # "create"
                 PROVE  job[b].id \in Members(o) /\ job[b].id \in Used
      OBVIOUS
    <3>1. /\ job[b].id \in Used /\ job[b].id \in Ids /\ job[b].inst \in Row
          /\ FamilyOf(job[b]) = origin[job[b].id]
      BY <2>1, RootKin
    <3> QED
      BY <2>1, <3>1, RowTypes DEF Fresh, WorksOn, Members
  <2>3. job[b].step = "save" => job[b].new \in Members(o) /\ job[b].new \in Used
    <3> SUFFICES ASSUME job[b].step = "save"
                 PROVE  job[b].new \in Members(o) /\ job[b].new \in Used
      OBVIOUS
    <3> QED
      BY <2>1, UnsavedRow, RowTypes DEF WorksOn, Members
  <2>4. job[b].op = "create" => job[b].step = "save"
    BY <2>1 DEF JobInv, StepsOf
  <2> QED
    BY <2>1, <2>2, <2>3, <2>4 DEF Fresh, NewVersion, Root
<1> QED
  BY <1>6, <1>7, <1>8, <1>9, <1>10 DEF Orderly

\* A change of one request leaves the others where they are.
LEMMA OthersKeep ==
  ASSUME Global, NEW a \in Admins, NEW v, job' = [job EXCEPT ![a] = v]
  PROVE  job'[a] = v /\ \A b \in Admins : b # a => job'[b] = job[b]
  BY DEF Global, TypeOK

\* The row a request was asked for is in the family it works on.
LEMMA OwnRow ==
  ASSUME Global, NEW a \in Admins, job[a] # NULL, job[a].op # "create", NEW o \in Ids,
         Orderly(o), WorksOn(a, o)
  PROVE  /\ job[a].id \in Used /\ job[a].id \in Ids /\ job[a].id \in Members(o)
         /\ origin[job[a].id] = o /\ o \in Used /\ o <= job[a].id /\ Root(job[a]) = o
         /\ rows[job[a].id] = job[a].inst /\ job[a].inst \in Row /\ job[a].inst.active
         /\ Fresh(a) /\ \A b \in Admins : b # a => ~WorksOn(b, o)
<1>1. /\ TypeOK /\ RowsInv /\ Fresh(a) /\ \A b \in Admins : b # a => ~WorksOn(b, o)
  BY DEF Global, Orderly, Sole
<1>2. /\ job[a].id \in Used /\ job[a].id \in Ids /\ job[a].inst \in Row
      /\ origin[job[a].id] = o
  BY RootKin DEF WorksOn
<1>3. rows[job[a].id] = job[a].inst /\ job[a].inst.active /\ job[a].inst # NULL
  BY <1>1, <1>2, RowTypes DEF Fresh
<1>4. o \in Used /\ o <= job[a].id /\ job[a].id \in Members(o) /\ NULL \notin Ids
  BY <1>1, <1>2, <1>3, UsedIds DEF RowsInv, Members
<1>5. job[a].inst.parent = IF job[a].id = o THEN NULL ELSE o
  BY <1>3, <1>4 DEF Orderly, Line
<1>6. Root(job[a]) = o
  BY <1>4, <1>5 DEF Root
<1> QED
  BY <1>1, <1>2, <1>3, <1>4, <1>6

\* A created row is a family of its own.
LEMMA CreateOrderly ==
  ASSUME Global, OrderlyInv, NEW a \in Admins, NEW cred \in Creds \cup {NULL},
         NEW active \in BOOLEAN, Create(a, cred, active)
  PROVE  OrderlyInv'
<1> PICK n : n = top + 1
  OBVIOUS
<1> DEFINE v == IF cred = NULL THEN NULL
                ELSE [Blank EXCEPT !.new = top + 1, !.cred = cred, !.active = active]
<1>0. TypeOK /\ RowsInv /\ Global'
  BY CreateGlobal DEF Global
<1>1. /\ job[a] = NULL /\ job' = [job EXCEPT ![a] = v] /\ disturbed' = disturbed
  BY DEF Create
<1>2. /\ n \in Ids /\ n \notin Used /\ origin'[n] = n
      /\ meant'[n] = cred /\ Used' = Used \cup {n}
      /\ rows'[n] = [version |-> FirstVersion, parent |-> NULL, active |-> active,
                     cred |-> NULL]
      /\ \A i \in Ids : i # n => /\ rows'[i] = rows[i] /\ meant'[i] = meant[i]
                                 /\ origin'[i] = origin[i]
  BY CreateGlobal
<1>3. Used \subseteq Ids /\ NULL \notin Ids /\ Ids \subseteq Nat
  BY <1>0, UsedIds
<1>4. v # NULL => /\ v.op = "create" /\ v.step = "save" /\ v.id = NULL /\ v.new = n
                  /\ v.cred = cred /\ v.active = active /\ cred # NULL
  BY DEF Blank
<1> HIDE DEF v
<1>5. job'[a] = v /\ \A b \in Admins : b # a => job'[b] = job[b]
  BY <1>1, OthersKeep
<1>6. \A k \in Used : origin'[k] = origin[k] /\ meant'[k] = meant[k]
  BY <1>2, <1>3
<1>7. v # NULL => WorksOn(a, n)'
  BY <1>2, <1>4, <1>5 DEF WorksOn, FamilyOf
<1>8. ASSUME NEW o \in Ids, o \notin disturbed', o # n
      PROVE  Orderly(o)'
  <2>1. Orderly(o)
    BY <1>1, <1>8 DEF OrderlyInv
  <2>2. \A k \in Ids : k \in Members(o)' <=> k \in Members(o)
    <3>1. n \notin Members(o) /\ n \notin Members(o)'
      BY <1>0, <1>2, <1>8 DEF Members, RowsInv
    <3> QED
      BY <1>2, <3>1 DEF Members
  <2>3. Members(o)' = Members(o) /\ \A k \in Members(o) : rows'[k] = rows[k]
    <3>1. Members(o)' \subseteq Ids /\ Members(o) \subseteq Ids /\ n \notin Members(o)
      BY <1>0, <1>2 DEF Members, RowsInv
    <3> QED
      BY <1>2, <2>2, <3>1
  <2>4. ~WorksOn(a, o) /\ ~WorksOn(a, o)'
    BY <1>1, <1>2, <1>4, <1>5, <1>8 DEF WorksOn, FamilyOf
  <2> QED
    BY <1>5, <1>6, <2>1, <2>3, <2>4, OtherFamily
<1>9. Orderly(n)'
  <2> PICK o : o = n
    OBVIOUS
  <2>1. o \in Ids /\ Members(o)' = {o}
    <3>1. \A k \in Ids : k # o => origin'[k] # o
      BY <1>0, <1>2, <1>3 DEF RowsInv
    <3>2. rows'[o] # NULL
      <4>1. rows'[o] \in Row
        BY <1>2, RowBounds DEF Row, FirstVersion, Ids
      <4> QED
        BY <4>1, RowTypes
    <3> QED
      BY <1>2, <3>1, <3>2 DEF Members
  <2>2. \A b \in Admins : b # a => ~WorksOn(b, o)'
    <3>1. \A b \in Admins : ~WorksOn(b, o)
      BY <1>2, FamilyTypes DEF WorksOn
    <3> QED
      BY <1>5, <1>6, <3>1, OthersStay
  <2>3. Line(o)'
    BY <1>2, <1>3, <2>1 DEF Line
  <2>4. rows'[o].cred = NULL /\ (cred = NULL \/ Unsaved(a, o)')
    <3>1. [Blank EXCEPT !.new = n, !.cred = cred, !.active = active] \in Job
      BY <1>2, BlankJob DEF Job
    <3>2. v = NULL => cred = NULL
      BY <3>1, ProviderNull DEF v
    <3> QED
      BY <1>2, <1>4, <1>5, <3>2 DEF Unsaved
  <2>5. Fresh(a)' \/ v = NULL
    BY <1>2, <1>4, <1>5 DEF Fresh
  <2>6. WorksOn(a, o)' => v # NULL
    BY <1>5 DEF WorksOn
  <2>7. \A k \in Members(o)' : (rows'[k].cred = meant'[k] \/ Unsaved(a, k)')
    BY <1>2, <2>1, <2>4
  <2>8. \A k, l \in Members(o)' : l <= k
    BY <1>2, <1>3, <2>1
  <2>9. Orderly(o)'
    BY <2>1, <2>2, <2>3, <2>5, <2>6, <2>7, <2>8, OneRequestNext
  <2> QED
    BY <2>9
<1> QED
  BY <1>8, <1>9 DEF OrderlyInv

\* A request that starts on a family where another is under way disturbs it; on
\* an undisturbed one it starts alone, from rows that are all saved.
LEMMA BeginOrderly ==
  ASSUME Global, OrderlyInv, NEW a \in Admins, NEW i \in Ids, NEW j \in Job,
         Begin(a, i, j), j.step \in StepsOf(j.op), j.op # "create",
         j.step \notin {"save", "deactivate"},
         j.op = "update" => j.kept = IF j.cred = NULL THEN meant[i] ELSE j.cred,
         j.op = "rollback" => j.step = "find"
  PROVE  OrderlyInv'
<1>0. PICK v : v = [j EXCEPT !.id = i, !.inst = rows[i]]
  OBVIOUS
<1>1. /\ TypeOK /\ RowsInv /\ rows[i] # NULL /\ rows[i].active /\ job[a] = NULL
      /\ UNCHANGED <<rows, top, origin, meant>> /\ i \in Used
  BY BeginGlobal DEF Begin, Global
<1>2. /\ job' = [job EXCEPT ![a] = v] /\ v \in Job /\ v.op = j.op /\ v.step = j.step
      /\ v.id = i /\ v.inst = rows[i] /\ v.cred = j.cred /\ v.kept = j.kept
  <2>1. job' = [job EXCEPT ![a] = v] /\ v \in Job
    BY <1>0, BeginGlobal
  <2>2. v.op = j.op /\ v.step = j.step /\ v.id = i /\ v.inst = rows[i]
    BY <1>0 DEF Job
  <2>3. v.cred = j.cred /\ v.kept = j.kept
    BY <1>0 DEF Job
  <2> QED
    BY <2>1, <2>2, <2>3
<1>3. job'[a] = v /\ \A b \in Admins : b # a => job'[b] = job[b]
  BY <1>2, OthersKeep
<1>4. v # NULL /\ i # NULL
  BY <1>1, <1>2, ProviderNull, UsedIds
<1>5. disturbed' = disturbed \cup Overlap(a, i)
  BY DEF Begin, Disturb
<1>6. \A o : Members(o)' = Members(o)
  BY <1>1 DEF Members
<1>7. ASSUME NEW o \in Ids, o \notin disturbed', o # origin[i]
      PROVE  Orderly(o)'
  <2>1. Orderly(o)
    BY <1>5, <1>7 DEF OrderlyInv
  <2>2. ~WorksOn(a, o) /\ ~WorksOn(a, o)'
    BY <1>1, <1>2, <1>3, <1>4, <1>7 DEF WorksOn, FamilyOf
  <2> QED
    BY <1>1, <1>3, <1>6, <2>1, <2>2, OtherFamily
<1>8. ASSUME NEW o \in Ids, o \notin disturbed', o = origin[i]
      PROVE  Orderly(o)'
  <2>1. Orderly(o)
    BY <1>5, <1>8 DEF OrderlyInv
  <2>2. \A b \in Admins : ~WorksOn(b, o)
    <3>1. o \notin Overlap(a, i)
      BY <1>5, <1>8
    <3> QED
      BY <1>1, <1>8, <3>1 DEF WorksOn, Overlap
  <2>3. \A b \in Admins : b # a => ~WorksOn(b, o)'
    BY <1>1, <1>3, <2>2, OthersStay
  <2>4. \A k \in Members(o) : ~Unsaved(a, k) /\ ~Replaced(a, k)
    BY <1>1 DEF Unsaved, Replaced
  <2>5. /\ \A k \in Members(o) : rows[k].cred = meant[k]
        /\ \A k \in Members(o) : rows[k].active => \A l \in Members(o) : l <= k
    BY <2>1, <2>2, <2>4, OneRequest
  <2>6. Line(o)'
    BY <1>1, <1>6, <2>1 DEF Orderly, Line
  <2>7. Fresh(a)'
    <3>1. rows'[v.id] = v.inst /\ v.inst.active /\ v.op # "create" /\ v.step # "save"
      BY <1>1, <1>2
    <3>2. v.op = "update" => v.kept = IF v.cred = NULL THEN meant'[v.id] ELSE v.cred
      BY <1>1, <1>2
    <3>3. v.op = "rollback" => v.step # "insert"
      BY <1>2
    <3> QED
      BY <1>3, <3>1, <3>2, <3>3 DEF Fresh
  <2> QED
    BY <1>1, <1>6, <2>3, <2>5, <2>6, <2>7, OneRequestNext
<1> QED
  BY <1>7, <1>8 DEF OrderlyInv

\* A step of a that leaves the rows and the families as they are keeps every
\* other family orderly.
LEMMA StepElsewhere ==
  ASSUME Global, OrderlyInv, NEW a \in Admins, job[a] # NULL, NEW v,
         job' = [job EXCEPT ![a] = v],
         v # NULL => /\ v.id = job[a].id
                     /\ job[a].id # NULL,
         UNCHANGED <<top, origin, meant>>, disturbed \subseteq disturbed',
         NEW o \in Ids, o \notin disturbed', o # FamilyOf(job[a]),
         \A k \in Members(o) : rows'[k] = rows[k], Members(o)' = Members(o)
  PROVE  Orderly(o)'
<1>1. Orderly(o)
  BY DEF OrderlyInv
<1>2. job'[a] = v /\ \A b \in Admins : b # a => job'[b] = job[b]
  BY OthersKeep
<1>3. ~WorksOn(a, o) /\ ~WorksOn(a, o)'
  BY <1>2 DEF WorksOn, FamilyOf
<1> QED
  BY <1>1, <1>2, <1>3, OtherFamily

\* rollback() finds a saved row of its own family.
LEMMA FindTargetOrderly ==
  ASSUME Global, OrderlyInv, NEW a \in Admins, FindTarget(a)
  PROVE  OrderlyInv'
<1>1. /\ job[a] # NULL /\ job[a].op = "rollback" /\ job[a].step = "find"
      /\ UNCHANGED <<rows, top, origin, meant, disturbed>>
      /\ \/ job' = [job EXCEPT ![a] = NULL]
         \/ \E i \in Ids, v \in Job :
               /\ job' = [job EXCEPT ![a] = v]
               /\ rows[i] # NULL /\ origin[i] = origin[job[a].id]
               /\ v.op = "rollback" /\ v.step = "insert" /\ v.id = job[a].id
               /\ v.inst = job[a].inst /\ v.cred = rows[i].cred /\ v.kept = meant[i]
  BY FindTargetGlobal
<1>2. PICK v : /\ job' = [job EXCEPT ![a] = v]
               /\ v = NULL \/ \E i \in Ids :
                    /\ rows[i] # NULL /\ origin[i] = origin[job[a].id]
                    /\ v.op = "rollback" /\ v.step = "insert" /\ v.id = job[a].id
                    /\ v.inst = job[a].inst /\ v.cred = rows[i].cred /\ v.kept = meant[i]
  BY <1>1
<1>3. /\ job[a].id \in Used /\ job[a].id # NULL /\ NULL \notin Used
      /\ FamilyOf(job[a]) = origin[job[a].id]
  BY <1>1, RootKin, UsedIds DEF Global
<1>4. job'[a] = v /\ \A b \in Admins : b # a => job'[b] = job[b]
  BY <1>2, OthersKeep
<1>5. \A o : Members(o)' = Members(o)
  BY <1>1 DEF Members
<1>6. ASSUME NEW o \in Ids, o \notin disturbed', o # FamilyOf(job[a])
      PROVE  Orderly(o)'
  <2>1. v # NULL => v.id = job[a].id /\ job[a].id # NULL
    BY <1>2, <1>3
  <2> QED
    BY <1>1, <1>2, <1>5, <1>6, <2>1, StepElsewhere
<1>7. ASSUME NEW o \in Ids, o \notin disturbed', o = FamilyOf(job[a])
      PROVE  Orderly(o)'
  <2>1. Orderly(o) /\ WorksOn(a, o)
    BY <1>1, <1>7 DEF OrderlyInv, WorksOn
  <2>2. /\ rows[job[a].id] = job[a].inst /\ job[a].inst.active
        /\ \A b \in Admins : b # a => ~WorksOn(b, o)
    BY <1>1, <2>1, OwnRow
  <2>3. \A k \in Members(o) : ~Unsaved(a, k) /\ ~Replaced(a, k)
    BY <1>1 DEF Unsaved, Replaced
  <2>4. /\ \A k \in Members(o) : rows[k].cred = meant[k]
        /\ \A k \in Members(o) : rows[k].active => \A l \in Members(o) : l <= k
    BY <2>1, <2>2, <2>3, OneRequest
  <2>5. \A b \in Admins : b # a => ~WorksOn(b, o)'
    BY <1>1, <1>4, <2>2, OthersStay
  <2>6. Line(o)'
    BY <1>1, <1>5, <2>1 DEF Orderly, Line
  <2>7. WorksOn(a, o)' => Fresh(a)'
    <3> SUFFICES ASSUME v # NULL PROVE Fresh(a)'
      BY <1>4 DEF WorksOn
    <3>1. PICK i \in Ids :
            /\ rows[i] # NULL /\ origin[i] = origin[job[a].id]
            /\ v.op = "rollback" /\ v.step = "insert" /\ v.id = job[a].id
            /\ v.inst = job[a].inst /\ v.cred = rows[i].cred /\ v.kept = meant[i]
      BY <1>2
    <3>2. rows[i].cred = meant[i]
      BY <1>3, <1>7, <2>4, <3>1 DEF Members
    <3> QED
      BY <1>1, <1>4, <2>2, <3>1, <3>2 DEF Fresh
  <2> QED
    BY <1>1, <1>5, <2>4, <2>5, <2>6, <2>7, OneRequestNext
<1> QED
  BY <1>6, <1>7 DEF OrderlyInv

\* The new version follows the newest one, and hangs on the first.
LEMMA InsertVersionOrderly ==
  ASSUME Global, OrderlyInv, NEW a \in Admins, InsertVersion(a)
  PROVE  OrderlyInv'
<1>0. PICK n, j : n = top + 1 /\ j = job[a]
  OBVIOUS
<1>1. /\ TypeOK /\ RowsInv /\ job[a] # NULL /\ j.op \in {"update", "rollback"}
      /\ j.step = "insert" /\ n \in Ids /\ n \notin Used
      /\ Used' = Used \cup {n} /\ disturbed' = disturbed
      /\ origin'[n] = origin[j.id] /\ meant'[n] = j.kept
      /\ \A i \in Ids : i # n => /\ rows'[i] = rows[i] /\ meant'[i] = meant[i]
                                 /\ origin'[i] = origin[i]
  BY <1>0, InsertVersionGlobal DEF Global
<1>2. rows'[n] = [version |-> NewVersion(j), parent |-> Root(j), active |-> j.active,
                  cred |-> IF j.op = "rollback" THEN j.cred ELSE NULL]
  BY <1>0, InsertVersionGlobal
<1>V. PICK v \in Job :
         /\ job' = [job EXCEPT ![a] = v]
         /\ v.op = job[a].op /\ v.id = job[a].id /\ v.inst = job[a].inst
         /\ v.new = top + 1 /\ v.cred = job[a].cred /\ v.kept = job[a].kept
         /\ v.active = job[a].active
         /\ v.step = IF job[a].op = "rollback" THEN "deactivate" ELSE "save"
  BY InsertVersionGlobal
<1>3. /\ job' = [job EXCEPT ![a] = v]
      /\ v.op = j.op /\ v.id = j.id /\ v.inst = j.inst
      /\ v.new = n /\ v.cred = j.cred /\ v.kept = j.kept /\ v.active = j.active
      /\ v.step = IF j.op = "rollback" THEN "deactivate" ELSE "save"
  BY <1>0, <1>V
<1>4. job'[a] = v /\ (\A b \in Admins : b # a => job'[b] = job[b]) /\ v # NULL
  BY <1>3, OthersKeep, ProviderNull
<1>5. Used \subseteq Ids /\ NULL \notin Ids /\ Ids \subseteq Nat /\ top \in Nat
  BY <1>1, UsedIds
<1>6. \A k \in Used : origin'[k] = origin[k] /\ meant'[k] = meant[k]
  BY <1>1, <1>5
<1>7. /\ j.id \in Used /\ j.id \in Ids /\ j.inst \in Row /\ FamilyOf(j) = origin[j.id]
      /\ j.id # NULL
  BY <1>0, <1>1, <1>5, RootKin
<1>8. rows[n] = NULL /\ \A o : n \notin Members(o)
  BY <1>1 DEF RowsInv, Members
<1>9. ASSUME NEW o \in Ids, o \notin disturbed', o # origin[j.id]
      PROVE  Orderly(o)'
  <2>1. Orderly(o)
    BY <1>1, <1>9 DEF OrderlyInv
  <2>2. Members(o)' = Members(o) /\ \A k \in Members(o) : rows'[k] = rows[k]
    <3>1. n \notin Members(o)' /\ Members(o) \subseteq Ids /\ Members(o)' \subseteq Ids
      BY <1>1, <1>9 DEF Members
    <3>2. \A k \in Ids : k # n => (k \in Members(o)' <=> k \in Members(o))
      BY <1>1 DEF Members
    <3> QED
      BY <1>1, <1>8, <3>1, <3>2
  <2>3. ~WorksOn(a, o)
    BY <1>0, <1>7, <1>9 DEF WorksOn
  <2>4. ~WorksOn(a, o)'
    BY <1>3, <1>4, <1>6, <1>7, <1>9 DEF WorksOn, FamilyOf
  <2> QED
    BY <1>4, <1>6, <2>1, <2>2, <2>3, <2>4, OtherFamily
<1>10. ASSUME NEW o \in Ids, o \notin disturbed', o = origin[j.id]
       PROVE  Orderly(o)'
  <2>1. Orderly(o) /\ WorksOn(a, o)
    BY <1>0, <1>1, <1>7, <1>10 DEF OrderlyInv, WorksOn
  <2>2. /\ j.id \in Members(o) /\ Root(j) = o /\ rows[j.id] = j.inst /\ o \in Used
        /\ j.inst.active /\ Fresh(a) /\ \A b \in Admins : b # a => ~WorksOn(b, o)
    BY <1>0, <1>1, <2>1, OwnRow
  <2>3. \A k \in Members(o) : ~Unsaved(a, k) /\ ~Replaced(a, k)
    BY <1>0, <1>1 DEF Unsaved, Replaced
  <2>4. /\ \A k \in Members(o) : rows[k].cred = meant[k]
        /\ \A k \in Members(o) : rows[k].active => \A l \in Members(o) : l <= k
    BY <2>1, <2>2, <2>3, OneRequest
  <2>5. \A b \in Admins : b # a => ~WorksOn(b, o)'
    BY <1>4, <1>6, <2>2, OthersStay
  <2>6. rows'[n] # NULL
    BY <1>0, InsertVersionGlobal, RowTypes
  <2>7. Members(o)' = Members(o) \cup {n}
    <3>1. n \in Members(o)'
      BY <1>1, <1>10, <2>6 DEF Members
    <3>2. \A k \in Ids : k # n => (k \in Members(o)' <=> k \in Members(o))
      BY <1>1 DEF Members
    <3>3. Members(o)' \subseteq Ids /\ Members(o) \subseteq Ids
      BY DEF Members
    <3> QED
      BY <1>1, <3>1, <3>2, <3>3
  <2>8. \A k \in Members(o) : /\ k \in Used /\ k # n /\ k < n /\ rows[k] \in Row
                              /\ rows'[k] = rows[k] /\ meant'[k] = meant[k]
    BY <1>0, <1>1, <1>5 DEF Members, RowsInv, Used, TypeOK
  <2>9. \A k \in Members(o) : rows[k].version < NewVersion(j)
    <3> SUFFICES ASSUME NEW k \in Members(o) PROVE rows[k].version < NewVersion(j)
      OBVIOUS
    <3>1. rows[k].version \in Nat /\ j.inst.version \in Nat
      BY <1>7, <2>8, RowTypes, RowBounds
    <3>2. k <= j.id /\ k \in Nat /\ j.id \in Nat
      BY <1>5, <1>7, <2>2, <2>4 DEF Members
    <3>3. k < j.id => rows[k].version < rows[j.id].version
      BY <2>1, <2>2 DEF Orderly, Line
    <3>4. rows[k].version <= j.inst.version
      BY <2>2, <3>1, <3>2, <3>3
    <3> QED
      BY <3>1, <3>4 DEF NewVersion
  <2>10. /\ rows'[n].version = NewVersion(j) /\ rows'[n].parent = o
         /\ rows'[n].cred = IF j.op = "rollback" THEN j.cred ELSE NULL
    BY <1>2, <2>2
  <2>11. Line(o)'
    <3>1. \A k \in Members(o)' : rows'[k].parent = IF k = o THEN NULL ELSE o
      BY <1>1, <2>1, <2>2, <2>7, <2>8, <2>10 DEF Orderly, Line
    <3>2. ASSUME NEW k \in Members(o)', NEW l \in Members(o)', k < l
          PROVE  rows'[k].version < rows'[l].version
      <4>1. CASE k = n
        BY <1>1, <1>5, <2>7, <2>8, <3>2, <4>1
      <4>2. CASE k # n /\ l = n
        BY <2>7, <2>8, <2>9, <2>10, <4>2
      <4>3. CASE k # n /\ l # n
        BY <2>1, <2>7, <2>8, <3>2, <4>3 DEF Orderly, Line
      <4> QED
        BY <4>1, <4>2, <4>3
    <3> QED
      BY <3>1, <3>2 DEF Line
  <2>12. \A k \in Members(o)' : rows'[k].cred = meant'[k] \/ Unsaved(a, k)'
    <3>1. j.op = "rollback" => j.kept = j.cred
      BY <1>0, <1>1, <2>2 DEF Fresh
    <3>2. rows'[n].cred = meant'[n] \/ Unsaved(a, n)'
      BY <1>1, <1>3, <1>4, <2>10, <3>1 DEF Unsaved
    <3> QED
      BY <2>4, <2>7, <2>8, <3>2
  <2>13. \A k \in Members(o)' :
            rows'[k].active => (\A l \in Members(o)' : l <= k) \/ Replaced(a, k)'
    <3>1. \A l \in Members(o)' : l <= n
      <4>1. n \in Nat /\ \A l \in Members(o) : l \in Nat /\ l < n
        BY <1>1, <1>5, <2>8
      <4> QED
        BY <2>7, <4>1
    <3>2. Replaced(a, j.id)'
      BY <1>1, <1>3, <1>4 DEF Replaced
    <3>3. \A k \in Members(o) : rows[k].active => k = j.id
      <4>1. \A k \in Members(o) : k \in Nat
        BY <1>5 DEF Members
      <4> QED
        BY <2>2, <2>4, <4>1
    <3> QED
      BY <2>7, <2>8, <3>1, <3>2, <3>3
  <2>14. Fresh(a)'
    <3>1. rows'[v.id] = v.inst /\ v.inst.active /\ v.op # "create"
          /\ meant'[v.id] = meant[j.id]
      BY <1>1, <1>3, <1>7, <2>2, <2>8
    <3>2. v.op = "update" => v.kept = IF v.cred = NULL THEN meant'[v.id] ELSE v.cred
      BY <1>0, <1>1, <1>3, <2>2, <3>1 DEF Fresh
    <3>3. v.op = "rollback" => v.step # "insert"
      BY <1>3
    <3>4. v.op = "update" =>
            /\ rows'[v.new] = [version |-> NewVersion(v), parent |-> Root(v),
                               active |-> v.active, cred |-> NULL]
            /\ meant'[v.new] = v.kept
      BY <1>1, <1>2, <1>3 DEF NewVersion, Root
    <3> QED
      BY <1>4, <3>1, <3>2, <3>3, <3>4 DEF Fresh, NewVersion, Root
  <2> QED
    BY <2>5, <2>11, <2>12, <2>13, <2>14, OneRequestNext
<1> QED
  BY <1>9, <1>10 DEF OrderlyInv

\* The saved row has the credentials it was meant to have.
LEMMA SaveCredentialsOrderly ==
  ASSUME Global, OrderlyInv, NEW a \in Admins, SaveCredentials(a)
  PROVE  OrderlyInv'
<1>0. PICK n, j : n = job[a].new /\ j = job[a]
  OBVIOUS
<1>1. /\ TypeOK /\ RowsInv /\ job[a] # NULL /\ j.op \in {"create", "update"}
      /\ j.step = "save" /\ n \in Used /\ JobInv(a) /\ j.new = n
      /\ UNCHANGED <<top, origin, meant, disturbed>>
      /\ \A i \in Ids : i # n => rows'[i] = rows[i]
  BY <1>0, SaveCredentialsGlobal DEF Global, JobsInv
<1>2. j.op = "create" =>
         /\ job' = [job EXCEPT ![a] = NULL]
         /\ rows'[n] = [version |-> FirstVersion, parent |-> NULL,
                        active |-> j.active, cred |-> KeptCredentials(j)]
  BY <1>0, SaveCredentialsGlobal
<1>3. j.op = "update" =>
         rows'[n] = [version |-> NewVersion(j), parent |-> Root(j),
                     active |-> j.active, cred |-> KeptCredentials(j)]
  BY <1>0, SaveCredentialsGlobal
<1>4. j.op = "update" => \E v \in Job :
         /\ job' = [job EXCEPT ![a] = v]
         /\ v.op = "update" /\ v.id = j.id /\ v.inst = j.inst /\ v.step = "deactivate"
  BY <1>0, SaveCredentialsGlobal
<1>5. PICK v : /\ job' = [job EXCEPT ![a] = v]
               /\ j.op = "create" => v = NULL
               /\ j.op = "update" => /\ v # NULL /\ v.op = "update" /\ v.id = j.id
                                     /\ v.inst = j.inst /\ v.step = "deactivate"
  BY <1>1, <1>2, <1>4, ProviderNull
<1>6. job'[a] = v /\ \A b \in Admins : b # a => job'[b] = job[b]
  BY <1>5, OthersKeep
<1>7. Used \subseteq Ids /\ NULL \notin Ids /\ Ids \subseteq Nat
  BY <1>1, UsedIds
<1>8. FamilyOf(j) = origin[n]
  BY <1>0, <1>1, <1>7 DEF JobInv, FamilyOf
<1>9. rows'[n] # NULL
  BY <1>0, SaveCredentialsGlobal, RowTypes
<1>10. ASSUME NEW o \in Ids, o \notin disturbed', o # origin[n]
       PROVE  Orderly(o)'
  <2>1. Members(o)' = Members(o) /\ \A k \in Members(o) : rows'[k] = rows[k]
    BY <1>1, <1>7, <1>10 DEF Members
  <2>2. v # NULL => v.id = job[a].id /\ job[a].id # NULL
    BY <1>0, <1>1, <1>5, <1>7 DEF JobInv
  <2> QED
    BY <1>0, <1>1, <1>5, <1>8, <1>10, <2>1, <2>2, StepElsewhere
<1>11. ASSUME NEW o \in Ids, o \notin disturbed', o = origin[n]
       PROVE  Orderly(o)'
  <2>1. Orderly(o) /\ WorksOn(a, o) /\ Fresh(a)
    BY <1>0, <1>1, <1>8, <1>11 DEF OrderlyInv, WorksOn, Orderly
  <2>2. \A b \in Admins : b # a => ~WorksOn(b, o)
    BY <2>1 DEF Orderly, Sole
  <2>3. \A b \in Admins : b # a => ~WorksOn(b, o)'
    BY <1>1, <1>6, <2>2, OthersStay
  <2>4. /\ \A k \in Members(o) : rows[k].cred = meant[k] \/ Unsaved(a, k)
        /\ \A k \in Members(o) :
              rows[k].active => (\A l \in Members(o) : l <= k) \/ Replaced(a, k)
    BY <2>1, <2>2, OneRequest
  <2>5. /\ rows[n] # NULL /\ rows'[n].version = rows[n].version
        /\ rows'[n].parent = rows[n].parent /\ rows'[n].active = rows[n].active
    <3>1. rows[n] # NULL
      BY <1>0, <1>1, <2>1, UnsavedRow, RowTypes
    <3>2. CASE j.op = "create"
      <4>1. rows[n] = [version |-> FirstVersion, parent |-> NULL, active |-> j.active,
                       cred |-> NULL]
        BY <1>0, <2>1, <3>2 DEF Fresh
      <4> QED
        BY <1>2, <3>1, <3>2, <4>1
    <3>3. CASE j.op = "update"
      <4>1. rows[n] = [version |-> NewVersion(j), parent |-> Root(j), active |-> j.active,
                       cred |-> NULL]
        BY <1>0, <1>1, <2>1, <3>3 DEF Fresh
      <4> QED
        BY <1>3, <3>1, <3>3, <4>1
    <3> QED
      BY <1>1, <3>2, <3>3
  <2>6. Members(o)' = Members(o)
    BY <1>1, <1>7, <1>9, <2>5 DEF Members
  <2>7. \A k \in Members(o) :
           /\ rows'[k].version = rows[k].version /\ rows'[k].parent = rows[k].parent
           /\ rows'[k].active = rows[k].active /\ (k # n => rows'[k] = rows[k])
    BY <1>1, <2>5 DEF Members
  <2>8. Line(o)'
    BY <2>1, <2>6, <2>7 DEF Orderly, Line
  <2>9. rows'[n].cred = meant[n]
    <3>1. rows'[n].cred = KeptCredentials(j)
      BY <1>1, <1>2, <1>3
    <3>2. CASE j.op = "create"
      <4>1. meant[n] = j.cred /\ j.cred # NULL
        BY <1>0, <2>1, <3>2 DEF Fresh
      <4> QED
        BY <3>1, <4>1 DEF KeptCredentials
    <3>3. CASE j.op = "update"
      <4>1. meant[n] = IF j.cred = NULL THEN meant[j.id] ELSE j.cred
        BY <1>0, <1>1, <2>1, <3>3 DEF Fresh
      <4>2. j.id \in Members(o) /\ rows[j.id] = j.inst
        BY <1>0, <1>1, <2>1, <3>3, OwnRow
      <4>3. j.id < n /\ j.id \in Nat /\ n \in Nat
        BY <1>0, <1>1, <1>7, <3>3, <4>2 DEF JobInv, Members
      <4>4. ~Unsaved(a, j.id)
        BY <1>0, <4>3 DEF Unsaved
      <4>5. j.inst.cred = meant[j.id]
        BY <2>4, <4>2, <4>4
      <4> QED
        BY <3>1, <3>3, <4>1, <4>5 DEF KeptCredentials
    <3> QED
      BY <1>1, <3>2, <3>3
  <2>10. \A k \in Members(o)' : rows'[k].cred = meant'[k]
    BY <1>0, <1>1, <2>4, <2>6, <2>7, <2>9 DEF Unsaved
  <2>11. \A k \in Members(o)' :
            rows'[k].active => (\A l \in Members(o)' : l <= k) \/ Replaced(a, k)'
    <3>1. \A k : Replaced(a, k) => Replaced(a, k)'
      BY <1>0, <1>1, <1>5, <1>6 DEF Replaced
    <3> QED
      BY <2>4, <2>6, <2>7, <3>1
  <2>12. WorksOn(a, o)' => Fresh(a)'
    <3> SUFFICES ASSUME v # NULL PROVE Fresh(a)'
      BY <1>6 DEF WorksOn
    <3>1. j.op = "update"
      BY <1>1, <1>5
    <3>2. j.id \in Members(o) /\ rows[j.id] = j.inst /\ j.inst.active
      BY <1>0, <1>1, <2>1, <3>1, OwnRow
    <3>3. j.id # n /\ j.id \in Ids
      BY <1>0, <1>1, <1>7, <3>1, <3>2 DEF JobInv, Members
    <3>4. rows'[v.id] = v.inst /\ v.inst.active
      BY <1>1, <1>5, <3>1, <3>2, <3>3
    <3> QED
      BY <1>5, <1>6, <3>1, <3>4 DEF Fresh
  <2> QED
    BY <2>3, <2>8, <2>10, <2>11, <2>12, OneRequestNext
<1> QED
  BY <1>1, <1>10, <1>11 DEF OrderlyInv

\* The stale object that is written back is still the row.
LEMMA DeactivateOrderly ==
  ASSUME Global, OrderlyInv, NEW a \in Admins, Deactivate(a)
  PROVE  OrderlyInv'
<1>0. PICK i, j : i = job[a].id /\ j = job[a]
  OBVIOUS
<1>1. /\ TypeOK /\ RowsInv /\ job[a] # NULL /\ j.op # "create" /\ j.step = "deactivate"
      /\ job' = [job EXCEPT ![a] = NULL] /\ j.id = i
      /\ rows'[i] = [j.inst EXCEPT !.active = FALSE]
      /\ \A k \in Ids : k # i => rows'[k] = rows[k]
      /\ UNCHANGED <<top, origin, meant, disturbed>>
  BY <1>0, DeactivateGlobal DEF Global
<1>2. job'[a] = NULL /\ \A b \in Admins : b # a => job'[b] = job[b]
  BY <1>1, OthersKeep
<1>3. /\ i \in Used /\ i \in Ids /\ FamilyOf(job[a]) = origin[i] /\ j.inst \in Row
      /\ j.inst # NULL
  BY <1>0, <1>1, RootKin, RowTypes
<1>4. /\ rows'[i] \in Row /\ rows'[i].version = j.inst.version
      /\ rows'[i].parent = j.inst.parent /\ rows'[i].cred = j.inst.cred
      /\ rows'[i].active = FALSE
  BY <1>1, <1>3 DEF Row
<1>5. rows'[i] # NULL
  BY <1>4, RowTypes
<1>6. ASSUME NEW o \in Ids, o \notin disturbed', o # origin[i]
      PROVE  Orderly(o)'
  <2>1. Members(o)' = Members(o) /\ \A k \in Members(o) : rows'[k] = rows[k]
    BY <1>1, <1>3, <1>6 DEF Members
  <2> QED
    BY <1>1, <1>3, <1>6, <2>1, StepElsewhere
<1>7. ASSUME NEW o \in Ids, o \notin disturbed', o = origin[i]
      PROVE  Orderly(o)'
  <2>1. Orderly(o) /\ WorksOn(a, o)
    BY <1>1, <1>3, <1>7 DEF OrderlyInv, WorksOn
  <2>2. /\ rows[i] = j.inst /\ i \in Members(o)
        /\ \A b \in Admins : b # a => ~WorksOn(b, o)
    BY <1>0, <1>1, <2>1, OwnRow
  <2>3. \A b \in Admins : b # a => ~WorksOn(b, o)'
    BY <1>1, <1>2, <2>2, OthersStay
  <2>4. \A k \in Members(o) : ~Unsaved(a, k) /\ (Replaced(a, k) => k = i)
    BY <1>0, <1>1 DEF Unsaved, Replaced
  <2>5. /\ \A k \in Members(o) : rows[k].cred = meant[k]
        /\ \A k \in Members(o) : rows[k].active => (\A l \in Members(o) : l <= k) \/ k = i
    BY <2>1, <2>2, <2>4, OneRequest
  <2>6. Members(o)' = Members(o)
    BY <1>1, <1>5, <2>2 DEF Members
  <2>7. \A k \in Members(o) :
           /\ rows'[k].version = rows[k].version /\ rows'[k].parent = rows[k].parent
           /\ rows'[k].cred = rows[k].cred
           /\ rows'[k].active => k # i /\ rows[k].active
    BY <1>1, <1>4, <2>2 DEF Members
  <2>8. Line(o)'
    BY <2>1, <2>6, <2>7 DEF Orderly, Line
  <2>9. ~WorksOn(a, o)'
    BY <1>2 DEF WorksOn
  <2> QED
    BY <1>1, <2>3, <2>5, <2>6, <2>7, <2>8, <2>9, OneRequestNext
<1> QED
  BY <1>6, <1>7 DEF OrderlyInv

\* The deleted row is the newest: when it is the first version, it is the only one.
LEMMA DeleteRowOrderly ==
  ASSUME Global, OrderlyInv, NEW a \in Admins, DeleteRow(a)
  PROVE  OrderlyInv'
<1>0. PICK i : i = job[a].id
  OBVIOUS
<1>1. /\ TypeOK /\ RowsInv /\ job[a] # NULL /\ job[a].op = "delete"
      /\ job[a].step = "delete" /\ job' = [job EXCEPT ![a] = NULL]
      /\ rows'[i] = NULL
      /\ \A k \in Ids : k # i /\ (rows[k] # NULL => rows[k].parent # i) => rows'[k] = rows[k]
      /\ \A k \in Ids : k # i => (rows'[k] = NULL <=> rows[k] = NULL)
      /\ UNCHANGED <<top, origin, meant, disturbed>>
  BY <1>0, DeleteRowGlobal DEF Global
<1>2. job'[a] = NULL /\ \A b \in Admins : b # a => job'[b] = job[b]
  BY <1>1, OthersKeep
<1>3. /\ i \in Used /\ i \in Ids /\ FamilyOf(job[a]) = origin[i] /\ i # NULL
      /\ Ids \subseteq Nat
  BY <1>0, <1>1, RootKin, UsedIds
<1>4. ASSUME NEW o \in Ids, o \notin disturbed', o # origin[i]
      PROVE  Orderly(o)'
  <2>1. \A k \in Members(o) : k \in Ids /\ k # i /\ rows[k].parent # i
    BY <1>1, <1>3, <1>4 DEF Members, RowsInv, Kin
  <2>2. Members(o)' = Members(o) /\ \A k \in Members(o) : rows'[k] = rows[k]
    BY <1>1, <1>4, <2>1 DEF Members
  <2> QED
    BY <1>1, <1>3, <1>4, <2>2, StepElsewhere
<1>5. ASSUME NEW o \in Ids, o \notin disturbed', o = origin[i]
      PROVE  Orderly(o)'
  <2>1. Orderly(o) /\ WorksOn(a, o)
    BY <1>1, <1>3, <1>5 DEF OrderlyInv, WorksOn
  <2>2. /\ rows[i] = job[a].inst /\ i \in Members(o) /\ rows[i].active /\ o <= i
        /\ \A b \in Admins : b # a => ~WorksOn(b, o)
    BY <1>0, <1>1, <2>1, OwnRow
  <2>3. \A b \in Admins : b # a => ~WorksOn(b, o)'
    BY <1>1, <1>2, <2>2, OthersStay
  <2>4. \A k \in Members(o) : ~Unsaved(a, k) /\ ~Replaced(a, k)
    BY <1>1 DEF Unsaved, Replaced
  <2>5. /\ \A k \in Members(o) : rows[k].cred = meant[k]
        /\ \A k \in Members(o) : rows[k].active => \A l \in Members(o) : l <= k
    BY <2>1, <2>2, <2>4, OneRequest
  <2>6. \A k \in Members(o) : k # i => rows[k].parent # i
    <3> SUFFICES ASSUME NEW k \in Members(o), k # i PROVE rows[k].parent # i
      OBVIOUS
    <3>1. rows[k].parent = IF k = o THEN NULL ELSE o
      BY <2>1 DEF Orderly, Line
    <3>2. k <= i /\ o <= k /\ k \in Nat /\ i \in Nat /\ o \in Nat
      BY <1>1, <1>3, <2>2, <2>5 DEF Members, RowsInv
    <3>3. o # i
      BY <3>2
    <3> QED
      BY <1>3, <3>1, <3>3
  <2>7. /\ Members(o)' = Members(o) \ {i}
        /\ \A k \in Members(o)' : rows'[k] = rows[k]
    <3>1. \A k \in Ids : k # i => (k \in Members(o)' <=> k \in Members(o))
      BY <1>1 DEF Members
    <3>2. i \notin Members(o)' /\ Members(o)' \subseteq Ids /\ Members(o) \subseteq Ids
      BY <1>1 DEF Members
    <3>3. Members(o)' = Members(o) \ {i}
      BY <3>1, <3>2
    <3> QED
      BY <1>1, <2>6, <3>2, <3>3
  <2>8. Line(o)'
    BY <2>1, <2>7 DEF Orderly, Line
  <2>9. ~WorksOn(a, o)'
    BY <1>2 DEF WorksOn
  <2> QED
    BY <1>1, <2>3, <2>5, <2>7, <2>8, <2>9, OneRequestNext
<1> QED
  BY <1>4, <1>5 DEF OrderlyInv

\* A request that dies disturbs its family, and no other.
LEMMA DieOrderly ==
  ASSUME Global, OrderlyInv, NEW a \in Admins, Die(a)
  PROVE  OrderlyInv'
<1>1. /\ job[a] # NULL /\ job' = [job EXCEPT ![a] = NULL]
      /\ disturbed' = disturbed \cup {FamilyOf(job[a])}
      /\ UNCHANGED <<rows, top, origin, meant>>
  BY DieGlobal
<1>2. \A o : Members(o)' = Members(o)
  BY <1>1 DEF Members
<1>3. ASSUME NEW o \in Ids, o \notin disturbed'
      PROVE  Orderly(o)'
  BY <1>1, <1>2, <1>3, StepElsewhere
<1> QED
  BY <1>3 DEF OrderlyInv

\* Initially there are no rows and no requests.
LEMMA InitOrderly == Init => OrderlyInv
  BY DEF Init, OrderlyInv, Orderly, Sole, Line, Faithful, NewestActive, Members, WorksOn

\* Every step keeps the undisturbed families orderly.
LEMMA NextOrderly ==
  ASSUME Global, OrderlyInv, [Next]_vars
  PROVE  OrderlyInv'
<1>1. CASE UNCHANGED vars
  BY <1>1 DEF vars, OrderlyInv, Orderly, Sole, Line, Faithful, NewestActive, Members,
              WorksOn, FamilyOf, Unsaved, Replaced, Fresh, NewVersion, Root
<1>2. CASE Next
  <2>1. PICK a \in Admins :
          \/ \E cred \in Creds \cup {NULL}, active \in BOOLEAN :
                 \/ Create(a, cred, active)
                 \/ \E i \in Ids : Update(a, i, cred, active)
          \/ \E i \in Ids, version \in 1 .. MaxRows : Rollback(a, i, version)
          \/ \E i \in Ids : Delete(a, i)
          \/ FindTarget(a) \/ InsertVersion(a) \/ SaveCredentials(a) \/ Deactivate(a)
          \/ DeleteRow(a) \/ Die(a)
    BY <1>2 DEF Next
  <2>2. CASE \E cred \in Creds \cup {NULL}, active \in BOOLEAN : Create(a, cred, active)
    BY <2>2, CreateOrderly
  <2>3. CASE \E i \in Ids : \/ \E cred \in Creds \cup {NULL}, active \in BOOLEAN :
                                   Update(a, i, cred, active)
                            \/ \E version \in 1 .. MaxRows : Rollback(a, i, version)
                            \/ Delete(a, i)
    <3>1. PICK i \in Ids, cred \in Creds \cup {NULL}, active \in BOOLEAN,
               version \in 1 .. MaxRows :
            Update(a, i, cred, active) \/ Rollback(a, i, version) \/ Delete(a, i)
      <4>1. Ids # {} => 1 \in 1 .. MaxRows
        BY RowBounds DEF Ids
      <4> QED
        BY <2>3, <4>1
    <3>2. PICK j \in Job :
            /\ Begin(a, i, j) /\ j.step \in StepsOf(j.op) /\ j.op # "create"
            /\ j.step \notin {"save", "deactivate"}
            /\ j.op = "update" => j.kept = IF j.cred = NULL THEN meant[i] ELSE j.cred
            /\ j.op = "rollback" => j.step = "find"
      BY <3>1, StartGlobal
    <3> QED
      BY <3>2, BeginOrderly
  <2>4. CASE FindTarget(a)
    BY <2>4, FindTargetOrderly
  <2>5. CASE InsertVersion(a)
    BY <2>5, InsertVersionOrderly
  <2>6. CASE SaveCredentials(a)
    BY <2>6, SaveCredentialsOrderly
  <2>7. CASE Deactivate(a)
    BY <2>7, DeactivateOrderly
  <2>8. CASE DeleteRow(a)
    BY <2>8, DeleteRowOrderly
  <2>9. CASE Die(a)
    BY <2>9, DieOrderly
  <2> QED
    BY <2>1, <2>2, <2>3, <2>4, <2>5, <2>6, <2>7, <2>8, <2>9
<1> QED
  BY <1>1, <1>2

\* An orderly family that nobody works on is a history.
LEMMA OrderlyIsSerial ==
  ASSUME Global, OrderlyInv
  PROVE  SerialHistory
<1> SUFFICES ASSUME Idle, NEW i \in Ids, rows[i] # NULL, origin[i] \notin disturbed
             PROVE  /\ Cardinality({k \in Family(i) : rows[k].active}) <= 1
                    /\ \A k \in Family(i) : rows[k].version = rows[i].version => k = i
                    /\ rows[i].parent = IF i = origin[i] THEN NULL ELSE origin[i]
                    /\ rows[i].cred = meant[i]
  BY DEF SerialHistory
<1>0. PICK o : o = origin[i]
  OBVIOUS
<1>1. /\ TypeOK /\ RowsInv /\ o \in Ids /\ o \notin disturbed /\ Ids \subseteq Nat
  BY <1>0, UsedIds DEF Global, RowsInv
<1>2. Orderly(o) /\ i \in Members(o) /\ Family(i) = Members(o)
  BY <1>0, <1>1 DEF OrderlyInv, Family, Members
<1>3. \A a \in Admins, k \in Ids : ~Unsaved(a, k) /\ ~Replaced(a, k)
  BY DEF Idle, Unsaved, Replaced
<1>4. \A k \in Members(o) :
         /\ k \in Nat /\ rows[k] \in Row /\ rows[k].cred = meant[k]
         /\ rows[k].active => \A l \in Members(o) : l <= k
  BY <1>1, <1>2, <1>3 DEF Orderly, Faithful, NewestActive, Members, TypeOK
<1>5. Cardinality({k \in Family(i) : rows[k].active}) <= 1
  <2> DEFINE A == {k \in Family(i) : rows[k].active}
  <2>1. \A k, l \in A : k = l
    BY <1>2, <1>4
  <2> HIDE DEF A
  <2>2. Cardinality(A) <= 1
    <3>1. CASE A = {}
      BY <3>1, FS_EmptySet
    <3>2. CASE A # {}
      <4>1. PICK k \in A : TRUE
        BY <3>2
      <4>2. A = {k}
        BY <2>1, <4>1
      <4>3. Cardinality({k}) = 1
        BY FS_Singleton
      <4> QED
        BY <4>2, <4>3
    <3> QED
      BY <3>1, <3>2
  <2> QED
    BY <2>2 DEF A
<1>6. ASSUME NEW k \in Members(o), rows[k].version = rows[i].version
      PROVE  k = i
  <2>1. /\ k \in Nat /\ i \in Nat /\ rows[k].version \in Nat /\ rows[i].version \in Nat
    BY <1>2, <1>4, RowTypes, RowBounds
  <2>2. ~(k < i) /\ ~(i < k)
    BY <1>2, <1>6, <2>1 DEF Orderly, Line
  <2> QED
    BY <2>1, <2>2
<1>7. rows[i].parent = IF i = o THEN NULL ELSE o
  BY <1>2 DEF Orderly, Line
<1> QED
  BY <1>0, <1>2, <1>4, <1>5, <1>6, <1>7

\* ProviderConfigurationViewSet: as long as administrators edit a configuration
\* one after the other, its versions form a history, for any number of
\* administrators, rows and credentials, and whatever requests overlap or die on
\* the other configurations: one version is active at most, no number is given
\* twice, all hang on the first version, and each has the credentials it was
\* created with.
THEOREM ProviderSerialHistory == Spec => []SerialHistory
<1> DEFINE Inv == Global /\ OrderlyInv
<1>1. Init => Inv
  BY InitGlobal, InitOrderly
<1>2. Inv /\ [Next]_vars => Inv'
  BY NextGlobal, NextOrderly
<1>3. Inv => SerialHistory
  BY OrderlyIsSerial
<1> HIDE DEF Inv
<1> QED
  BY <1>1, <1>2, <1>3, PTL DEF Spec
=============================================================================
