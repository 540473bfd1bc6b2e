--------------------------- MODULE ProviderConfig ---------------------------
(***************************************************************************)
(* The versioned provider configurations: ProviderConfigurationViewSet and *)
(* its serializer (ai_services/views.py, serializers.py).  An update or a  *)
(* rollback inserts a new row and deactivates the one it was asked for,    *)
(* statement by statement, with no transaction around them; another        *)
(* administrator's request may run, or the request may die, in between.    *)
(* provider_type, name and config_data are copied with the row and left    *)
(* out; so is the audit log, which is only written.                        *)
(***************************************************************************)
EXTENDS Naturals, FiniteSets, FiniteSetsExt

CONSTANTS
    Admins,     \* administrators, each with one request at a time
    Limits,     \* bounds: the pairs of a number of rows the id sequence hands
                \* out and of families in which requests overlap or die
    Creds,      \* values of the encrypted credentials
    NULL

ASSUME ProviderConstants ==
    /\ Limits # {} /\ Limits \subseteq [rows: Nat, disturbed: Nat]
    /\ IsFiniteSet(Limits)
    /\ NULL \notin Creds

MaxRows == Max({l.rows : l \in Limits})

VARIABLES
    rows,       \* rows[i]: the ProviderConfiguration with id i, or NULL
    top,        \* the last id handed out
    job,        \* job[a]: the request of a in progress, or NULL
    origin,     \* history: origin[i] is the first version i descends from
    meant,      \* history: meant[i] are the credentials i was created with
    disturbed   \* history: the first versions of the families where two requests
                \* overlapped, or one died half way

vars == <<rows, top, job, origin, meant, disturbed>>

Ids == 1 .. MaxRows

Row == [version: 1 .. MaxRows, parent: Ids \cup {NULL}, active: BOOLEAN,
        cred: Creds \cup {NULL}]

\* inst is the object get_object() gave, of row id; new the id of the row the
\* request inserted; cred the credentials it was given, or found in the version
\* it goes back to; kept (history) those its new version should end up with.
Job == [op: {"create", "update", "rollback", "delete"},
        step: {"find", "insert", "save", "deactivate", "delete"},
        id: Ids \cup {NULL}, inst: Row \cup {NULL}, new: Ids \cup {NULL},
        cred: Creds \cup {NULL}, kept: Creds \cup {NULL}, active: BOOLEAN,
        version: 0 .. MaxRows]

ASSUME ProviderNull == NULL \notin Nat /\ NULL \notin Row /\ NULL \notin Job

Init ==
    /\ rows = [i \in Ids |-> NULL]
    /\ top = 0
    /\ job = [a \in Admins |-> NULL]
    /\ origin = [i \in Ids |-> NULL]
    /\ meant = [i \in Ids |-> NULL]
    /\ disturbed = {}

-----------------------------------------------------------------------------
Blank == [op |-> "create", step |-> "save", id |-> NULL, inst |-> NULL, new |-> NULL,
          cred |-> NULL, kept |-> NULL, active |-> TRUE, version |-> 0]

At(a, step) == job[a] # NULL /\ job[a].step = step

\* History: the family a request in progress works on, and the one it now
\* disturbs by starting on row i.
FamilyOf(j) == IF j.id = NULL THEN origin[j.new] ELSE origin[j.id]

Overlap(a, i) ==
    {origin[i]} \cap {FamilyOf(job[b]) : b \in {b \in Admins \ {a} : job[b] # NULL}}

Bounded(n, families) ==
    \E l \in Limits : n <= l.rows /\ Cardinality(families) <= l.disturbed

Disturb(families) ==
    /\ disturbed' = disturbed \cup families
    /\ Bounded(top, disturbed')

\* objects.create: the next id; the foreign key needs the parent to exist.
Insert(row, from, cred) ==
    /\ Bounded(top + 1, disturbed)
    /\ row.parent # NULL => rows[row.parent] # NULL
    /\ top' = top + 1
    /\ rows' = [rows EXCEPT ![top + 1] = row]
    /\ origin' = [origin EXCEPT ![top + 1] = IF from = NULL THEN top + 1 ELSE origin[from]]
    /\ meant' = [meant EXCEPT ![top + 1] = cred]

\* Mutant: versions are counted from zero.
FirstVersionZero == 0

FirstVersion == 1

\* POST: create() inserts the row without its credentials.
Create(a, cred, active) ==
    /\ job[a] = NULL
    /\ Insert([version |-> FirstVersion, parent |-> NULL, active |-> active, cred |-> NULL],
              NULL, cred)
    /\ job' = [job EXCEPT ![a] =
                   IF cred = NULL THEN NULL
                   ELSE [Blank EXCEPT !.new = top + 1, !.cred = cred, !.active = active]]
    /\ UNCHANGED disturbed

\* get_object(): the queryset has the active rows only.
Begin(a, i, j) ==
    /\ job[a] = NULL
    /\ rows[i] # NULL /\ rows[i].active
    /\ job' = [job EXCEPT ![a] = [j EXCEPT !.id = i, !.inst = rows[i]]]
    /\ Disturb(Overlap(a, i))
    /\ UNCHANGED <<rows, top, origin, meant>>

\* PATCH, with or without new credentials, and possibly with is_active.
Update(a, i, cred, active) ==
    Begin(a, i, [Blank EXCEPT !.op = "update", !.step = "insert", !.cred = cred,
                              !.kept = IF cred = NULL THEN meant[i] ELSE cred,
                              !.active = active])

Rollback(a, i, version) ==
    Begin(a, i, [Blank EXCEPT !.op = "rollback", !.step = "find", !.version = version])

Delete(a, i) ==
    Begin(a, i, [Blank EXCEPT !.op = "delete", !.step = "delete"])

\* instance.parent_config or instance
Root(j) == IF j.inst.parent = NULL THEN j.id ELSE j.inst.parent

\* Mutant: the version is looked up without its family.
TargetsAnywhere(j) == {i \in Ids : rows[i] # NULL /\ rows[i].version = j.version}

\* The rows rollback's get() matches: the first version has no parent_config.
Targets(j) ==
    {i \in Ids : /\ rows[i] # NULL /\ rows[i].parent = Root(j)
                 /\ rows[i].version = j.version}

\* One match, and the request goes on; none is a 404, several are a 500.
FindTarget(a) ==
    LET found == Targets(job[a]) IN
    /\ At(a, "find")
    /\ \/ \E i \in found :
              /\ found = {i}
              /\ job' = [job EXCEPT ![a].cred = rows[i].cred, ![a].kept = meant[i],
                                    ![a].step = "insert"]
       \/ Cardinality(found) # 1 /\ job' = [job EXCEPT ![a] = NULL]
    /\ UNCHANGED <<rows, top, origin, meant, disturbed>>

\* Mutant: a rollback counts on from the version it goes back to.
NewVersionOfTarget(j) ==
    IF j.op = "rollback" THEN j.version + 1 ELSE j.inst.version + 1

NewVersion(j) == j.inst.version + 1

\* update() inserts the new version without credentials, rollback() with those
\* of the version it found.
InsertVersion(a) ==
    LET j == job[a]
        back == j.op = "rollback"
    IN
    /\ At(a, "insert")
    /\ Insert([version |-> NewVersion(j), parent |-> Root(j), active |-> j.active,
               cred |-> IF back THEN j.cred ELSE NULL], j.id, j.kept)
    /\ job' = [job EXCEPT ![a].new = top + 1,
                          ![a].step = IF back THEN "deactivate" ELSE "save"]
    /\ UNCHANGED disturbed

\* save() of an object in memory: every column, inserted when the row is gone.
SaveRow(i, row) ==
    /\ row.parent # NULL => rows[row.parent] # NULL
    /\ rows' = [rows EXCEPT ![i] = row]

\* Mutant: credentials that are not given are not copied.
KeptCredentialsForgotten(j) == j.cred

KeptCredentials(j) ==
    IF j.cred # NULL THEN j.cred
    ELSE IF j.op = "update" THEN j.inst.cred ELSE NULL

\* instance.save() after set_credentials, or new_version.save(): the object is
\* still the one that was inserted.
SaveCredentials(a) ==
    LET j == job[a]
        row == [version |-> IF j.op = "create" THEN FirstVersion ELSE NewVersion(j),
                parent |-> IF j.op = "create" THEN NULL ELSE Root(j),
                active |-> j.active, cred |-> KeptCredentials(j)]
    IN
    /\ At(a, "save")
    /\ SaveRow(j.new, row)
    /\ job' = [job EXCEPT ![a] = IF j.op = "create" THEN NULL
                                 ELSE [j EXCEPT !.step = "deactivate", !.cred = NULL,
                                                !.kept = NULL, !.new = NULL]]
    /\ UNCHANGED <<top, origin, meant, disturbed>>

\* Mutant: the old version stays active.
DeactivateNothing(a) ==
    /\ At(a, "deactivate")
    /\ job' = [job EXCEPT ![a] = NULL]
    /\ UNCHANGED <<rows, top, origin, meant, disturbed>>

\* "Deactivate old version": the stale object is written back whole.
Deactivate(a) ==
    /\ At(a, "deactivate")
    /\ SaveRow(job[a].id, [job[a].inst EXCEPT !.active = FALSE])
    /\ job' = [job EXCEPT ![a] = NULL]
    /\ UNCHANGED <<top, origin, meant, disturbed>>

\* destroy(): parent_config is SET_NULL in the versions of a deleted row.
DeleteRow(a) ==
    LET i == job[a].id IN
    /\ At(a, "delete")
    /\ rows' = [k \in Ids |-> IF k = i THEN NULL
                              ELSE IF rows[k] # NULL /\ rows[k].parent = i
                              THEN [rows[k] EXCEPT !.parent = NULL] ELSE rows[k]]
    /\ job' = [job EXCEPT ![a] = NULL]
    /\ UNCHANGED <<top, origin, meant, disturbed>>

\* A statement fails or the server dies: what was done stays done.
Die(a) ==
    /\ job[a] # NULL
    /\ job' = [job EXCEPT ![a] = NULL]
    /\ Disturb({FamilyOf(job[a])})
    /\ UNCHANGED <<rows, top, origin, meant>>

Next ==
    \E a \in Admins :
        \/ \E cred \in Creds \cup {NULL}, active \in BOOLEAN :
               \/ Create(a, cred, active)
               \/ \E i \in Ids : Update(a, i, cred, active)
        \/ \E i \in Ids, version \in 1 .. MaxRows : Rollback(a, i, version)
        \/ \E i \in Ids : Delete(a, i)
        \/ FindTarget(a) \/ InsertVersion(a) \/ SaveCredentials(a) \/ Deactivate(a)
        \/ DeleteRow(a) \/ Die(a)

Spec == Init /\ [][Next]_vars

-----------------------------------------------------------------------------
\* Rows, and requests in memory, have the shape the code gives them, and no
\* more versions are counted than rows were stored.
TypeOK ==
    /\ rows \in [Ids -> Row \cup {NULL}]
    /\ top \in 0 .. MaxRows
    /\ job \in [Admins -> Job \cup {NULL}]
    /\ origin \in [Ids -> Ids \cup {NULL}]
    /\ meant \in [Ids -> Creds \cup {NULL}]
    /\ disturbed \subseteq Ids

Idle == \A a \in Admins : job[a] = NULL

Family(i) == {k \in Ids : rows[k] # NULL /\ origin[k] = origin[i]}

(***************************************************************************)
(* The versions of a configuration that administrators edit one after the  *)
(* other form a history, whatever happens meanwhile to the others: one of  *)
(* them is active at most, no number is given twice (rollback's get()      *)
(* relies on it), all hang on the first version, which is never deleted    *)
(* under them, and each keeps the credentials it was created with, which   *)
(* never come from another configuration.                                  *)
(***************************************************************************)
SerialHistory ==
    Idle =>
        \A i \in Ids : rows[i] # NULL /\ origin[i] \notin disturbed =>
            /\ Cardinality({k \in Family(i) : rows[k].active}) <= 1
            /\ \A k \in Family(i) : rows[k].version = rows[i].version => k = i
            /\ rows[i].parent = IF i = origin[i] THEN NULL ELSE origin[i]
            /\ rows[i].cred = meant[i]
=============================================================================
