----------------------------- MODULE ContentImport -----------------------------
(***************************************************************************)
(* Operators' runs of the content command against one database: the file,  *)
(* the dry run, and the one transaction of an import, statement by         *)
(* statement where another import can be in the way.  The inserts into     *)
(* content_packs, case_revisions and region_catalog wait for a rival's     *)
(* uncommitted row of the same key, and publishing for a rival's           *)
(* uncommitted window; PostgreSQL ends a circle of waits by failing one.   *)
(***************************************************************************)
EXTENDS ContentPack

CONSTANTS Runs,     \* the runs of the command
          Jobs,     \* [Runs -> sets of [mode, file, pack]]
          None

ASSUME ContentAssumption == \A r \in Runs : \A job \in Jobs[r] : IsPack(job.pack)

VARIABLES stored,   \* the rows of committed transactions
          run       \* the runs, with the rows their open transactions wrote

vars == <<stored, run>>

Nothing == [packs |-> {}, catalog |-> {}, revisions |-> {}]
Open == {"find", "overlap", "pack", "revision", "children", "catalog", "rest", "publish",
         "exclude", "commit"}

Init ==
  /\ stored = Nothing
  /\ run = [r \in Runs |-> [pc |-> "idle", job |-> None, wrote |-> Nothing, verdict |-> {}]]

pack(r) == run[r].job.pack
Key(revision) == <<revision.pack.key, revision.pack.number>>
Of(r) == [by |-> r, pack |-> pack(r), status |-> "DRAFT"]

Go(r, pc) == run' = [run EXCEPT ![r].pc = pc]
Write(r, pc, rows) == run' = [run EXCEPT ![r].pc = pc, ![r].wrote = rows]

\* ROLLBACK and the diagnostics.
Refuse(r, codes) ==
  run' = [run EXCEPT ![r] = [@ EXCEPT !.pc = "done", !.wrote = Nothing, !.verdict = codes]]

\* A slip: a taken revision is told from other constraints by no name.
anyConstraint(state, table) ==
  CASE state = "23P01" -> "SLOT_OVERLAP" [] state = "55000" -> "PUBLISHED_CONTENT_IMMUTABLE"
    [] state \in {"23505", "23503", "23514"} -> "IMPORT_CONSTRAINT_VIOLATION"
    [] OTHER -> "DATABASE_UNAVAILABLE"

mapDatabaseError(state, table) ==
  CASE state = "23P01" -> "SLOT_OVERLAP"
    [] state = "23505" /\ table = "case_revisions" -> "DUPLICATE_REVISION"
    [] state = "55000" -> "PUBLISHED_CONTENT_IMMUTABLE"
    [] state \in {"23503", "23514"} \/ (state = "23505" /\ table # "case_revisions") ->
         "IMPORT_CONSTRAINT_VIOLATION"
    [] OTHER -> "DATABASE_UNAVAILABLE"

Fail(r, state, table) == Refuse(r, {mapDatabaseError(state, table)})

\* Rows inserted in order: the first error ends the transaction.
Insert(r, states, table, pc, rows) ==
  IF states # {} THEN \E state \in states : Fail(r, state, table) ELSE Write(r, pc, rows)

(***************************************************************************)
(* Whom a statement waits for                                              *)
(***************************************************************************)
Others(r) == Runs \ {r}

hasPublishedOverlap(p, revisions) ==
  \E revision \in revisions :
    revision.status = "PUBLISHED" /\ revision.pack.opens < p.closes /\ p.opens < revision.pack.closes

\* The next region of the pack that the run has not inserted.
NextRegion(r) ==
  CHOOSE i \in DOMAIN pack(r).regions :
    /\ pack(r).regions[i].id \notin stored.catalog \cup run[r].wrote.catalog
    /\ \A j \in 1..i - 1 : pack(r).regions[j].id \in stored.catalog \cup run[r].wrote.catalog
RegionsLeft(r) == Members(Ids(pack(r).regions)) \ (stored.catalog \cup run[r].wrote.catalog)

WaitsFor(r) ==
  {o \in Others(r) :
     LET theirs == run[o].wrote
     IN \/ run[r].pc = "pack" /\ pack(r).key \in theirs.packs
        \/ run[r].pc = "revision" /\ \E row \in theirs.revisions : Key(row) = Key(Of(r))
        \/ /\ run[r].pc = "catalog" /\ RegionsLeft(r) # {}
           /\ pack(r).regions[NextRegion(r)].id \in theirs.catalog
        \/ run[r].pc = "exclude" /\ hasPublishedOverlap(pack(r), theirs.revisions)}

Reached(S) == S \cup UNION {WaitsFor(o) : o \in S}
InCircle(r) == r \in Reached(Reached(WaitsFor(r)))  \* enough for three runs

At(r, pc) == run[r].pc = pc /\ WaitsFor(r) = {}

(***************************************************************************)
(* The command                                                             *)
(***************************************************************************)
\* The arguments, readBoundedJson and the database of executeContentCli.
readBoundedJson(file) ==
  CASE file = "arguments" -> {"INVALID_ARGUMENTS"}
    [] file \in {"missing", "directory"} -> {"FILE_READ_FAILED"}
    [] file \in {"large", "grown"} -> {"FILE_TOO_LARGE"}
    [] file = "text" -> {"INVALID_JSON"}
    [] file = "no database" -> {"MISSING_DATABASE_URL"}
    [] OTHER -> {}

\* BEGIN and SET LOCAL ROLE, and the validation in the transaction.
Start(r, job) ==
  LET file == readBoundedJson(job.file)
      refused == IF file # {} THEN file ELSE {d[1] : d \in validateContentPack(job.pack)}
      this == [run[r] EXCEPT !.job = job]
  IN /\ run[r].pc = "idle"
     /\ run' = [run EXCEPT ![r] = IF refused = {} THEN [this EXCEPT !.pc = "find"]
                                  ELSE [this EXCEPT !.pc = "done", !.verdict = refused]]
     /\ UNCHANGED stored

findExistingRevision(r) ==
  /\ At(r, "find")
  /\ IF \E row \in stored.revisions : Key(row) = Key(Of(r))
     THEN Refuse(r, {"DUPLICATE_REVISION"})
     ELSE Go(r, IF run[r].job.mode = "DRY_RUN" THEN "overlap" ELSE "pack")
  /\ UNCHANGED stored

DryRunEnds(r) ==
  /\ At(r, "overlap")
  /\ Refuse(r, {IF hasPublishedOverlap(pack(r), stored.revisions) THEN "SLOT_OVERLAP" ELSE "VALID"})
  /\ UNCHANGED stored

InsertPack(r) ==
  /\ At(r, "pack")
  /\ Write(r, "revision", [run[r].wrote EXCEPT !.packs = {pack(r).key} \ stored.packs])
  /\ UNCHANGED stored

InsertRevision(r) ==
  /\ At(r, "revision")
  /\ Insert(r, RevisionRow(pack(r)) \cup
               (IF \E row \in stored.revisions : Key(row) = Key(Of(r)) THEN {"23505"} ELSE {}),
            "case_revisions", "children", [run[r].wrote EXCEPT !.revisions = {Of(r)}])
  /\ UNCHANGED stored

\* The entities and their aliases.
InsertEntities(r) ==
  /\ At(r, "children")
  /\ Insert(r, EntityRows(pack(r)), "case_entities", "catalog", run[r].wrote)
  /\ UNCHANGED stored

\* One region after the other, in the order of the pack.
InsertRegion(r) ==
  /\ At(r, "catalog")
  /\ IF RegionsLeft(r) = {} THEN Go(r, "rest")
     ELSE Write(r, "catalog", [run[r].wrote EXCEPT !.catalog = @ \cup {pack(r).regions[NextRegion(r)].id}])
  /\ UNCHANGED stored

\* Regions, evidence and sources of the revision, and its answer.
InsertRest(r) ==
  /\ At(r, "rest")
  /\ Insert(r, OtherRows(pack(r)), "case_evidence",
            IF run[r].job.mode = "PUBLISH" THEN "publish" ELSE "commit", run[r].wrote)
  /\ UNCHANGED stored

\* The update passes protect_revision and puts its window into the index.
Publish(r) ==
  /\ At(r, "publish")
  /\ Insert(r, IF GraphIsComplete(pack(r)) THEN {} ELSE {"23514"}, "case_revisions", "exclude",
            [run[r].wrote EXCEPT !.revisions = {[Of(r) EXCEPT !.status = "PUBLISHED"]}])
  /\ UNCHANGED stored

\* published_case_windows_do_not_overlap.
CheckWindow(r) ==
  /\ At(r, "exclude")
  /\ IF hasPublishedOverlap(pack(r), stored.revisions)
     THEN Fail(r, "23P01", "case_revisions") ELSE Go(r, "commit")
  /\ UNCHANGED stored

Committed(r) ==
  stored' = [packs |-> stored.packs \cup run[r].wrote.packs,
             catalog |-> stored.catalog \cup run[r].wrote.catalog,
             revisions |-> stored.revisions \cup run[r].wrote.revisions]

Commit(r) ==
  /\ At(r, "commit") /\ Committed(r)
  /\ Refuse(r, {IF run[r].job.mode = "PUBLISH" THEN "PUBLISHED" ELSE "DRAFT"})

\* The connection breaks: at COMMIT the server may have committed.
Disconnect(r) ==
  /\ run[r].pc \in Open /\ Fail(r, "08006", "any")
  /\ \/ UNCHANGED stored
     \/ run[r].pc = "commit" /\ Committed(r)

Deadlock(r) ==
  /\ run[r].pc \in Open /\ InCircle(r) /\ Fail(r, "40P01", "any") /\ UNCHANGED stored

Next ==
  \E r \in Runs :
    \/ \E job \in Jobs[r] : Start(r, job)
    \/ findExistingRevision(r) \/ DryRunEnds(r)
    \/ InsertPack(r) \/ InsertRevision(r) \/ InsertEntities(r) \/ InsertRegion(r)
    \/ InsertRest(r) \/ Publish(r) \/ CheckWindow(r) \/ Commit(r)
    \/ Disconnect(r) \/ Deadlock(r)

Spec == Init /\ [][Next]_vars

\* The exit code of executeContentCli for a verdict.
exitCode(verdict) ==
  IF verdict \cap {"VALID", "PUBLISHED", "DRAFT"} # {} THEN 0
  ELSE IF verdict \cap {"DATABASE_UNAVAILABLE", "MISSING_DATABASE_URL"} # {} THEN 3 ELSE 2

-----------------------------------------------------------------------------
(***************************************************************************)
(* Properties                                                              *)
(***************************************************************************)
Mine(r) == {row \in stored.revisions : row.by = r}

\* What the command prints is so whatever the other imports do: "published"
\* leaves this run's rows in the database, exit code 2 leaves none and has
\* a reason the operator can see to - the file, a revision or a window that
\* is taken - and never a constraint a valid pack runs into (import.ts:76).
VerdictIsTruthful ==
  \A r \in Runs : run[r].pc = "done" =>
    LET verdict == run[r].verdict
    IN /\ "PUBLISHED" \in verdict => \E row \in Mine(r) : row.status = "PUBLISHED"
       /\ exitCode(verdict) = 2 =>
            /\ Mine(r) = {}
            /\ \/ run[r].job.file # "pack" \/ validateContentPack(pack(r)) # {}
               \/ /\ verdict = {"DUPLICATE_REVISION"}
                  /\ \E row \in stored.revisions : Key(row) = Key(Of(r))
               \/ verdict = {"SLOT_OVERLAP"} /\ hasPublishedOverlap(pack(r), stored.revisions)

\* What is published can be played: one case for an instant and one row for
\* a revision, four pieces of evidence in order, an answer among the
\* entities, and no name that two entities of a case share.
PublishedCanBePlayed ==
  \A row \in {row \in stored.revisions : row.status = "PUBLISHED"} :
    LET p == row.pack
    IN /\ ~hasPublishedOverlap(p, stored.revisions \ {row})
       /\ \A other \in stored.revisions \ {row} : Key(other) # Key(row)
       /\ Members(Ids(p.evidence)) = 1..4 /\ p.answer \in Members(Ids(p.entities))
       /\ \A i, j \in DOMAIN p.entities :
            (\E m \in Members(Names(p.entities[i])), n \in Members(Names(p.entities[j])) :
               Norm(m) = Norm(n)) => i = j
=============================================================================
