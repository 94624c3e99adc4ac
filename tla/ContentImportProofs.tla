------------------------ MODULE ContentImportProofs ------------------------
(***************************************************************************)
(* Any number of imports of any packs against one database: what is        *)
(* published can be played, and what the command prints is so.             *)
(***************************************************************************)
EXTENDS ContentImport, TLAPS

(***************************************************************************)
(* A pack the validator passes                                             *)
(***************************************************************************)
\* Two names that differ by their writing only are one name: what repeats by
\* the letter repeats for the validator.
LEMMA RepeatsInNorm ==
  ASSUME NEW values, reportDuplicates(values, "x") = {}
  PROVE  /\ ~Repeats(values)
         /\ \A i, j \in DOMAIN values : i < j => Norm(values[i]) # Norm(values[j])
<1> DEFINE norms == [i \in DOMAIN values |-> Norm(values[i])]
<1>1. ~Repeats(norms)
  BY DEF reportDuplicates
<1>2. \A i, j \in DOMAIN values : i < j => Norm(values[i]) # Norm(values[j])
  BY <1>1 DEF Repeats
<1> QED  BY <1>2 DEF Repeats

\* No diagnostic is the word for a committed publication.
LEMMA DiagnosticsAreNoSuccess ==
  ASSUME NEW p, NEW d \in validateContentPack(p)
  PROVE  d[1] # "PUBLISHED"
<1> DEFINE Quiet(D) == \A e \in D : e[1] # "PUBLISHED"
<1>1. ASSUME NEW text, NEW path PROVE Quiet(readString(text, path))
  BY DEF readString, TextFaults
<1>2. ASSUME NEW item, NEW path PROVE Quiet(rejectUnknownFields(item, path))
  BY DEF rejectUnknownFields
<1>3. ASSUME NEW list, NEW path, NEW maximum PROVE Quiet(readStringArray(list, path, maximum))
  BY DEF readStringArray
<1>4. ASSUME NEW values, NEW path PROVE Quiet(reportDuplicates(values, path))
  BY DEF reportDuplicates
<1>5. ASSUME NEW list, NEW path, NEW minimum, NEW maximum
      PROVE  Quiet(readItems(list, path, minimum, maximum))
  BY <1>1, <1>2 DEF readItems
<1>6. Quiet(readRegions(p.regions))
  BY <1>4, <1>5 DEF readRegions
<1>7. Quiet(reportAmbiguousAliases(p.entities))
  BY DEF reportAmbiguousAliases
<1>8. Quiet(readEntities(p.entities))
  BY <1>3, <1>4, <1>5, <1>7 DEF readEntities
<1>9. Quiet(readEvidence(p.evidence))
  BY <1>5 DEF readEvidence
<1>10. Quiet(readSources(p.sources))
  BY <1>4, <1>5 DEF readSources
<1>11. Quiet(validateWindow(p)) /\ Quiet(validateReferences(p))
  BY DEF validateWindow, validateReferences
<1>12. Quiet(IF p.provenance = "ORIGINAL_AUTHORED" THEN {} ELSE {<<"UNKNOWN_PROVENANCE", "provenance">>})
       /\ Quiet(IF p.schema = 1 THEN {} ELSE {<<"INVALID_FORMAT", "schemaVersion">>})
       /\ Quiet(IF p.number \notin 1..LargestRevision THEN {<<"OUT_OF_BOUNDS", "revisionNumber">>} ELSE {})
  OBVIOUS
<1>13. Quiet(validateContentPack(p))
  BY <1>1, <1>2, <1>3, <1>4, <1>6, <1>8, <1>9, <1>10, <1>11, <1>12 DEF validateContentPack
<1> QED  BY <1>13

\* What an accepted pack has against it: nothing, reader by reader.
LEMMA EveryReaderPasses ==
  ASSUME NEW p, validateContentPack(p) = {}
  PROVE  /\ readString(p.title, "title") = {}
         /\ p.provenance = "ORIGINAL_AUTHORED" /\ p.number \in 1..LargestRevision
         /\ readEntities(p.entities) = {} /\ readEvidence(p.evidence) = {}
         /\ reportDuplicates(p.regionIds, "regionIds") = {}
         /\ reportDuplicates(p.sourceIds, "sourceIds") = {}
         /\ validateWindow(p) = {} /\ validateReferences(p) = {}
<1>1. /\ readString(p.title, "title") = {}
      /\ (IF p.provenance = "ORIGINAL_AUTHORED" THEN {} ELSE {<<"UNKNOWN_PROVENANCE", "provenance">>}) = {}
      /\ (IF p.number \notin 1..LargestRevision THEN {<<"OUT_OF_BOUNDS", "revisionNumber">>} ELSE {}) = {}
      /\ readEntities(p.entities) = {} /\ readEvidence(p.evidence) = {}
      /\ reportDuplicates(p.regionIds, "regionIds") = {}
      /\ reportDuplicates(p.sourceIds, "sourceIds") = {}
      /\ validateWindow(p) = {} /\ validateReferences(p) = {}
  BY DEF validateContentPack
<1> QED  BY <1>1

\* The order of the evidence is 1 to 4, each once.
LEMMA EvidenceInOrder ==
  ASSUME NEW evidence, IsArray(evidence), readEvidence(evidence) = {}
  PROVE  Len(evidence) = 4 /\ Members(Ids(evidence)) = 1..4 /\ ~Repeats(Ids(evidence))
<1> DEFINE orders == Ids(evidence)
<1>1. Len(evidence) \in Nat /\ DOMAIN evidence = 1..Len(evidence)
  BY DEF IsArray
<1>2. readItems(evidence, "evidence", 4, 4) = {}
      /\ {<<"OUT_OF_BOUNDS", "order">> : order \in Members(orders) \ 1..4} = {}
      /\ {<<"INVALID_FORMAT", "evidence">> : order \in 1..4 \ Members(orders)} = {}
  BY DEF readEvidence
<1>3. Len(evidence) \in 4..4
  BY <1>2 DEF readItems
<1>4. Len(evidence) = 4 /\ DOMAIN evidence = 1..4
  <2>1. \A n \in Nat : n \in 4..4 => n = 4
    OBVIOUS
  <2> QED  BY <1>1, <1>3, <2>1
<1>5. Members(orders) = 1..4
  BY <1>2
<1>6. DOMAIN orders = 1..4
  BY <1>4 DEF Ids
<1> HIDE DEF orders
<1>7. /\ orders[1] \in 1..4 /\ orders[2] \in 1..4 /\ orders[3] \in 1..4 /\ orders[4] \in 1..4
      /\ \A n \in 1..4 : orders[1] = n \/ orders[2] = n \/ orders[3] = n \/ orders[4] = n
  BY <1>5, <1>6 DEF Members
<1>8. /\ orders[1] # orders[2] /\ orders[1] # orders[3] /\ orders[1] # orders[4]
      /\ orders[2] # orders[3] /\ orders[2] # orders[4] /\ orders[3] # orders[4]
  BY <1>7
<1>9. ~Repeats(orders)
  BY <1>6, <1>8 DEF Repeats
<1> QED  BY <1>4, <1>5, <1>9 DEF orders

\* No two entities go by one name, however it is written.
LEMMA NamesTellEntitiesApart ==
  ASSUME NEW entities, IsArray(entities), readEntities(entities) = {},
         NEW i \in DOMAIN entities, NEW j \in DOMAIN entities,
         NEW m \in Members(Names(entities[i])), NEW n \in Members(Names(entities[j])),
         Norm(m) = Norm(n)
  PROVE  i = j
<1>1. reportDuplicates(Ids(entities), "entities") = {} /\ reportAmbiguousAliases(entities) = {}
  BY DEF readEntities
<1>2. \A k, l \in DOMAIN entities : k < l => Norm(entities[k].id) # Norm(entities[l].id)
  BY <1>1 DEF reportDuplicates, Repeats, Ids
<1>3. entities[i].id = entities[j].id
  BY <1>1 DEF reportAmbiguousAliases
<1>4. i \in Nat /\ j \in Nat
  BY DEF IsArray
<1> QED  BY <1>2, <1>3, <1>4

\* The keys of case_entities and entity_aliases hold.
LEMMA EntitiesAreOnce ==
  ASSUME NEW p, IsPack(p), readEntities(p.entities) = {}
  PROVE  EntityRows(p) \subseteq {"22021"}
<1> DEFINE entities == p.entities
           names == [i \in DOMAIN entities |-> entities[i].name]
           aliases == [i \in DOMAIN entities |-> entities[i].aliases]
<1>1. /\ IsArray(entities) /\ DOMAIN entities \subseteq Nat
      /\ \A i \in DOMAIN entities : IsArray(entities[i].aliases)
  BY DEF IsPack, IsArray
<1>2. /\ reportDuplicates(Ids(entities), "entities") = {}
      /\ \A i \in DOMAIN entities : reportDuplicates(entities[i].aliases, "aliases") = {}
  BY DEF readEntities
<1>3. \A i \in DOMAIN entities :
        /\ entities[i].name \in Members(Names(entities[i]))
        /\ Members(entities[i].aliases) \subseteq Members(Names(entities[i]))
  <2> TAKE i \in DOMAIN entities
  <2> DEFINE list == entities[i].aliases  own == entities[i].name
  <2>1. list \in Seq(Members(list))
    BY <1>1 DEF IsArray
  <2> HIDE DEF list, own
  <2>2. /\ Len(<<own>> \o list) = 1 + Len(list) /\ Len(list) \in Nat
        /\ DOMAIN (<<own>> \o list) = 1..(1 + Len(list)) /\ DOMAIN list = 1..Len(list)
        /\ (<<own>> \o list)[1] = own
        /\ \A k \in 1..Len(list) : (<<own>> \o list)[k + 1] = list[k]
    BY <2>1
  <2> DEFINE whole == <<own>> \o list
  <2>3. /\ DOMAIN whole = 1..(1 + Len(list)) /\ whole[1] = own /\ Len(list) \in Nat
        /\ DOMAIN list = 1..Len(list) /\ \A k \in 1..Len(list) : whole[k + 1] = list[k]
    BY <2>2
  <2> HIDE DEF whole
  <2>4. own \in Members(whole)
    <3>1. 1 \in DOMAIN whole
      BY <2>3
    <3> QED  BY <2>3, <3>1 DEF Members
  <2>5. Members(list) \subseteq Members(whole)
    <3>1. \A k \in 1..Len(list) : k + 1 \in DOMAIN whole
      BY <2>3
    <3> QED  BY <2>3, <3>1 DEF Members
  <2> QED  BY <2>4, <2>5 DEF list, own, whole, Names
<1>4. ~Repeats(Ids(entities))
  BY <1>2, RepeatsInNorm DEF reportDuplicates
<1>5. ~Repeats(names)
  <2> SUFFICES ASSUME NEW i \in DOMAIN entities, NEW j \in DOMAIN entities, i < j,
                      entities[i].name = entities[j].name
               PROVE  FALSE
    BY DEF Repeats
  <2>1. i = j
    BY <1>1, <1>3, NamesTellEntitiesApart
  <2> QED  BY <1>1, <2>1
<1>6. \A i \in DOMAIN entities : ~Repeats(entities[i].aliases)
  BY <1>2, RepeatsInNorm DEF reportDuplicates
<1>7. \A i, j \in DOMAIN entities :
        i # j => Members(entities[i].aliases) \cap Members(entities[j].aliases) = {}
  BY <1>1, <1>3, NamesTellEntitiesApart
<1>8. \A i, j \in DOMAIN aliases :
        /\ ~Repeats(aliases[i])
        /\ i # j => Members(aliases[i]) \cap Members(aliases[j]) = {}
  BY <1>6, <1>7
<1> QED  BY <1>4, <1>5, <1>8 DEF EntityRows, Unstorable

\* The tables refuse nothing of an accepted pack but a character they cannot
\* store, and it is complete enough to be published.
LEMMA AcceptedPack ==
  ASSUME NEW p, IsPack(p), validateContentPack(p) = {}
  PROVE  /\ RevisionRow(p) \subseteq {"22021"} /\ EntityRows(p) \subseteq {"22021"}
         /\ OtherRows(p) \subseteq {"22021"} /\ GraphIsComplete(p)
         /\ p.answer \in Members(Ids(p.entities))
         /\ \A i, j \in DOMAIN p.entities :
              (\E m \in Members(Names(p.entities[i])), n \in Members(Names(p.entities[j])) :
                 Norm(m) = Norm(n)) => i = j
<1>1. /\ readString(p.title, "title") = {}
      /\ p.provenance = "ORIGINAL_AUTHORED" /\ p.number \in 1..LargestRevision
      /\ readEntities(p.entities) = {} /\ readEvidence(p.evidence) = {}
      /\ reportDuplicates(p.regionIds, "regionIds") = {}
      /\ reportDuplicates(p.sourceIds, "sourceIds") = {}
      /\ validateWindow(p) = {} /\ validateReferences(p) = {}
  BY EveryReaderPasses
<1>2. p.number \in Int /\ IsArray(p.entities) /\ IsArray(p.evidence)
  BY DEF IsPack
<1>3. p.title \cap {"OUT_OF_BOUNDS", "INVALID_FORMAT"} = {}
  BY <1>1 DEF readString, TextFaults
<1>4. p.opens = 2 * p.slot /\ p.closes = p.opens + 2
  BY <1>1 DEF validateWindow
<1>5. p.number > 0
  BY <1>1, <1>2
<1>6. RevisionRow(p) \subseteq {"22021"}
  BY <1>1, <1>3, <1>4, <1>5 DEF RevisionRow, Unstorable
<1>7. Len(p.evidence) = 4 /\ Members(Ids(p.evidence)) = 1..4 /\ ~Repeats(Ids(p.evidence))
  BY <1>1, <1>2, EvidenceInOrder
<1>8. ~Repeats(p.regionIds) /\ ~Repeats(p.sourceIds)
  BY <1>1, RepeatsInNorm DEF reportDuplicates
<1>9. OtherRows(p) \subseteq {"22021"}
  BY <1>7, <1>8 DEF OtherRows, Unstorable
<1>10. p.answer \in Members(Ids(p.entities))
  <2>1. {<<"UNKNOWN_ANSWER_ID", "answer">> : id \in {p.answer} \ Members(Ids(p.entities))} = {}
    BY <1>1 DEF validateReferences
  <2> QED  BY <2>1
<1> QED  BY <1>1, <1>2, <1>6, <1>7, <1>9, <1>10, EntitiesAreOnce, NamesTellEntitiesApart
         DEF GraphIsComplete

(***************************************************************************)
(* The inductive invariant                                                 *)
(***************************************************************************)
Steps == Open \cup {"idle", "done"}
Packs == {job.pack : job \in UNION {Jobs[r] : r \in Runs}}
Rows == [by : Runs, pack : Packs, status : {"DRAFT", "PUBLISHED"}]
IsWritten(w) ==
  /\ w = [packs |-> w.packs, catalog |-> w.catalog, revisions |-> w.revisions]
  /\ w.revisions \subseteq Rows
IsRun(r, x) ==
  /\ x = [pc |-> x.pc, job |-> x.job, wrote |-> x.wrote, verdict |-> x.verdict]
  /\ x.pc \in Steps /\ (x.pc # "idle" => x.job \in Jobs[r]) /\ IsWritten(x.wrote)

TypeOK ==
  /\ IsWritten(stored)
  /\ run = [r \in Runs |-> run[r]] /\ \A r \in Runs : IsRun(r, run[r])

OfPublished(r) == [Of(r) EXCEPT !.status = "PUBLISHED"]
Wrote(r, rows) == run[r].wrote.revisions = rows
HasWritten(r) == run[r].wrote.revisions # {}

\* What a transaction has written tells where it is: a draft, then the
\* published row if it is to be published.
Progress(r) ==
  /\ run[r].pc \in {"idle", "find", "overlap", "pack", "revision", "done"} => Wrote(r, {})
  /\ run[r].pc \in {"children", "catalog", "rest", "publish"} => Wrote(r, {Of(r)})
  /\ run[r].pc = "exclude" => Wrote(r, {OfPublished(r)})
  /\ run[r].pc \in {"publish", "exclude"} => run[r].job.mode = "PUBLISH"
  /\ run[r].pc = "commit" =>
       Wrote(r, {IF run[r].job.mode = "PUBLISH" THEN OfPublished(r) ELSE Of(r)})
  /\ run[r].pc \in Open => validateContentPack(pack(r)) = {}

\* Whoever has a row in the database has ended without a refusal.
Landed ==
  \A row \in stored.revisions :
    /\ run[row.by].pc = "done" /\ exitCode(run[row.by].verdict) # 2
    /\ validateContentPack(row.pack) = {}

\* A revision is written once, in the database and in all open transactions.
KeysApart ==
  /\ \A x, y \in stored.revisions : Key(x) = Key(y) => x = y
  /\ \A r \in Runs : HasWritten(r) => \A row \in stored.revisions : Key(row) # Key(Of(r))
  /\ \A r, o \in Runs : r # o /\ HasWritten(r) /\ HasWritten(o) => Key(Of(r)) # Key(Of(o))

\* Windows overlap with none published, neither those in the database nor
\* those that have passed the exclusion and wait for their commit.
Overlap(p, q) == q.opens < p.closes /\ p.opens < q.closes
Checked(r) == run[r].pc = "commit" /\ run[r].job.mode = "PUBLISH"
WindowsApart ==
  /\ \A x, y \in stored.revisions :
       x # y /\ x.status = "PUBLISHED" /\ y.status = "PUBLISHED" => ~Overlap(x.pack, y.pack)
  /\ \A r \in Runs : Checked(r) => ~hasPublishedOverlap(pack(r), stored.revisions)
  /\ \A r, o \in Runs : r # o /\ Checked(r) /\ Checked(o) => ~Overlap(pack(r), pack(o))

\* Why a run was refused, and what it was told of a success.
Reason(r) ==
  \/ run[r].job.file # "pack" \/ validateContentPack(pack(r)) # {}
  \/ /\ run[r].verdict = {"DUPLICATE_REVISION"}
     /\ \E row \in stored.revisions : Key(row) = Key(Of(r))
  \/ run[r].verdict = {"SLOT_OVERLAP"} /\ hasPublishedOverlap(pack(r), stored.revisions)

Told(r) ==
  run[r].pc = "done" =>
    /\ "PUBLISHED" \in run[r].verdict => \E row \in Mine(r) : row.status = "PUBLISHED"
    /\ exitCode(run[r].verdict) = 2 => Reason(r)

IInv ==
  /\ TypeOK /\ Landed /\ KeysApart /\ WindowsApart
  /\ \A r \in Runs : Progress(r) /\ Told(r)

(***************************************************************************)
(* What a step does                                                        *)
(***************************************************************************)
Alone(r) == \A o \in Others(r) : run'[o] = run[o]

LEMMA OneRunMoves ==
  ASSUME TypeOK, NEW r \in Runs, NEW x, IsRun(r, x), run' = [run EXCEPT ![r] = x],
         IsWritten(stored')
  PROVE  TypeOK' /\ Alone(r) /\ run'[r] = x
<1>1. run = [o \in Runs |-> run[o]] /\ \A o \in Runs : IsRun(o, run[o])
  BY DEF TypeOK
<1>2. run'[r] = x /\ \A o \in Others(r) : run'[o] = run[o]
  BY <1>1 DEF Others
<1>3. run' = [o \in Runs |-> run'[o]]
  BY <1>1
<1>4. \A o \in Runs : IsRun(o, run'[o])
  BY <1>1, <1>2 DEF Others
<1>5. TypeOK'
  BY <1>3, <1>4 DEF TypeOK, IsRun, IsWritten
<1> QED  BY <1>2, <1>5 DEF Alone

LEMMA TypeOfRun ==
  ASSUME TypeOK, NEW r \in Runs
  PROVE  /\ run[r] = [pc |-> run[r].pc, job |-> run[r].job, wrote |-> run[r].wrote,
                      verdict |-> run[r].verdict]
         /\ run[r].pc \in Steps /\ (run[r].pc # "idle" => run[r].job \in Jobs[r])
         /\ IsWritten(run[r].wrote) /\ IsWritten(stored)
         /\ run = [o \in Runs |-> run[o]]
  BY DEF TypeOK, IsRun

\* EXCEPT on several fields of a run, one after the other.
LEMMA FieldsOfRun ==
  ASSUME NEW x, x = [pc |-> x.pc, job |-> x.job, wrote |-> x.wrote, verdict |-> x.verdict],
         NEW pc, NEW rows
  PROVE  [x EXCEPT !.pc = pc, !.wrote = rows]
           = [pc |-> pc, job |-> x.job, wrote |-> rows, verdict |-> x.verdict]
<1>1. [x EXCEPT !.pc = pc] = [pc |-> pc, job |-> x.job, wrote |-> x.wrote, verdict |-> x.verdict]
  OBVIOUS
<1>2. [[pc |-> pc, job |-> x.job, wrote |-> x.wrote, verdict |-> x.verdict] EXCEPT !.wrote = rows]
        = [pc |-> pc, job |-> x.job, wrote |-> rows, verdict |-> x.verdict]
  OBVIOUS
<1>3. [x EXCEPT !.pc = pc, !.wrote = rows] = [[x EXCEPT !.pc = pc] EXCEPT !.wrote = rows]
  OBVIOUS
<1> QED  BY <1>1, <1>2, <1>3

LEMMA WriteEffect ==
  ASSUME TypeOK, NEW r \in Runs, NEW pc \in Open, run[r].pc # "idle",
         NEW rows, IsWritten(rows), Write(r, pc, rows), stored' = stored
  PROVE  /\ TypeOK' /\ Alone(r) /\ run'[r].pc = pc
         /\ run'[r].job = run[r].job /\ run'[r].wrote = rows
<1> DEFINE x == [pc |-> pc, job |-> run[r].job, wrote |-> rows, verdict |-> run[r].verdict]
<1>0. run[r] = [pc |-> run[r].pc, job |-> run[r].job, wrote |-> run[r].wrote,
                verdict |-> run[r].verdict]
  BY TypeOfRun
<1> DEFINE y == [run[r] EXCEPT !.pc = pc, !.wrote = rows]
<1>a. y = x
  BY <1>0, FieldsOfRun
<1>b. run' = [run EXCEPT ![r] = y]
  BY DEF Write
<1>1. run' = [run EXCEPT ![r] = x]
  BY <1>a, <1>b
<1>2. IsRun(r, x)
  BY TypeOfRun DEF IsRun, Steps
<1>3. IsWritten(stored')
  BY TypeOfRun
<1>4. /\ x.pc = pc /\ x.job = run[r].job
      /\ x.wrote = rows /\ x.verdict = run[r].verdict
  OBVIOUS
<1> HIDE DEF x
<1> QED  BY <1>1, <1>2, <1>3, <1>4, OneRunMoves

LEMMA GoEffect ==
  ASSUME TypeOK, NEW r \in Runs, NEW pc \in Open, run[r].pc # "idle",
         Go(r, pc), stored' = stored
  PROVE  /\ TypeOK' /\ Alone(r) /\ run'[r].pc = pc
         /\ run'[r].job = run[r].job /\ run'[r].wrote = run[r].wrote
<1> DEFINE x == [pc |-> pc, job |-> run[r].job, wrote |-> run[r].wrote, verdict |-> run[r].verdict]
<1>0. run[r] = [pc |-> run[r].pc, job |-> run[r].job, wrote |-> run[r].wrote,
                verdict |-> run[r].verdict]
  BY TypeOfRun
<1> DEFINE y == [run[r] EXCEPT !.pc = pc]
<1>a. y = x
  BY <1>0
<1>b. run' = [run EXCEPT ![r] = y]
  BY DEF Go
<1>1. run' = [run EXCEPT ![r] = x]
  BY <1>a, <1>b
<1>2. IsRun(r, x)
  BY TypeOfRun DEF IsRun, Steps
<1>3. IsWritten(stored')
  BY TypeOfRun
<1>4. /\ x.pc = pc /\ x.job = run[r].job
      /\ x.wrote = run[r].wrote /\ x.verdict = run[r].verdict
  OBVIOUS
<1> HIDE DEF x
<1> QED  BY <1>1, <1>2, <1>3, <1>4, OneRunMoves

LEMMA RefuseEffect ==
  ASSUME TypeOK, NEW r \in Runs, run[r].pc # "idle", NEW codes, Refuse(r, codes),
         IsWritten(stored')
  PROVE  /\ TypeOK' /\ Alone(r) /\ run'[r].pc = "done" /\ run'[r].verdict = codes
         /\ run'[r].job = run[r].job /\ run'[r].wrote.revisions = {}
<1> DEFINE x == [pc |-> "done", job |-> run[r].job, wrote |-> Nothing, verdict |-> codes]
<1>0. run[r] = [pc |-> run[r].pc, job |-> run[r].job, wrote |-> run[r].wrote,
                verdict |-> run[r].verdict]
  BY TypeOfRun
<1> DEFINE y == [run[r] EXCEPT !.pc = "done", !.wrote = Nothing, !.verdict = codes]
<1> DEFINE z == [run[r] EXCEPT !.pc = "done", !.wrote = Nothing]
<1>c. z = [pc |-> "done", job |-> run[r].job, wrote |-> Nothing, verdict |-> run[r].verdict]
  BY <1>0, FieldsOfRun
<1>d. y = [z EXCEPT !.verdict = codes]
  OBVIOUS
<1>a. y = x
  <2> HIDE DEF y, z
  <2> QED  BY <1>c, <1>d
<1>b. run' = [run EXCEPT ![r] = y]
  BY DEF Refuse
<1>1. run' = [run EXCEPT ![r] = x]
  BY <1>a, <1>b
<1>2. IsRun(r, x)
  BY TypeOfRun DEF IsRun, Steps, IsWritten, Nothing
<1>4. /\ x.pc = "done" /\ x.job = run[r].job
      /\ x.wrote = Nothing /\ x.verdict = codes
  OBVIOUS
<1> HIDE DEF x
<1>5. Nothing.revisions = {}
  BY DEF Nothing
<1> QED  BY <1>1, <1>2, <1>4, <1>5, OneRunMoves

\* A run opens its transaction or goes on in it.
KeyIsFree(r) ==
  /\ \A row \in stored.revisions : Key(row) # Key(Of(r))
  /\ \A o \in Others(r) : \A row \in run[o].wrote.revisions : Key(row) # Key(Of(r))
WindowIsFree(r) ==
  /\ ~hasPublishedOverlap(pack(r), stored.revisions)
  /\ \A o \in Others(r) : ~hasPublishedOverlap(pack(r), run[o].wrote.revisions)

Advances(r) ==
  /\ TypeOK' /\ Alone(r) /\ stored' = stored /\ Progress(r)'
  /\ run[r].pc # "done" /\ run'[r].pc \in Open
  /\ HasWritten(r)' => run'[r].job = run[r].job /\ (HasWritten(r) \/ KeyIsFree(r))
  /\ Checked(r)' => WindowIsFree(r)

\* A run ends and leaves nothing.
Concludes(r) ==
  /\ TypeOK' /\ Alone(r) /\ stored' = stored /\ Progress(r)'
  /\ run[r].pc # "done" /\ run'[r].pc = "done"
  /\ "PUBLISHED" \notin run'[r].verdict
  /\ exitCode(run'[r].verdict) = 2 => Reason(r)'

\* A run ends with its transaction committed.
Commits(r) ==
  /\ TypeOK' /\ Alone(r) /\ stored'.revisions = stored.revisions \cup run[r].wrote.revisions
  /\ Progress(r)' /\ run[r].pc = "commit" /\ run'[r].pc = "done"
  /\ exitCode(run'[r].verdict) # 2
  /\ "PUBLISHED" \in run'[r].verdict => run[r].job.mode = "PUBLISH"

\* An insert into the tables that refuse an accepted pack a NUL at most.
LEMMA RefusedInsert ==
  ASSUME TypeOK, NEW r \in Runs, run[r].pc # "idle", run[r].pc # "done", NEW table,
         Fail(r, "22021", table) \/ Fail(r, "08006", table) \/ Fail(r, "40P01", table),
         stored' = stored
  PROVE  Concludes(r)
<1>1. Refuse(r, {"DATABASE_UNAVAILABLE"})
  BY DEF Fail, mapDatabaseError
<1>2. IsWritten(stored')
  BY TypeOfRun
<1>3. /\ TypeOK' /\ Alone(r) /\ run'[r].pc = "done" /\ run'[r].verdict = {"DATABASE_UNAVAILABLE"}
      /\ run'[r].wrote.revisions = {}
  BY <1>1, <1>2, RefuseEffect
<1>4. exitCode(run'[r].verdict) = 3
  BY <1>3 DEF exitCode
<1>5. Progress(r)'
  BY <1>3 DEF Progress, Wrote, Open
<1> QED  BY <1>3, <1>4, <1>5 DEF Concludes

(***************************************************************************)
(* The invariant survives each kind of step                                *)
(***************************************************************************)
LEMMA RowsOfRun ==
  ASSUME TypeOK, NEW r \in Runs, run[r].pc # "idle"
  PROVE  /\ Of(r) = [by |-> r, pack |-> pack(r), status |-> "DRAFT"] /\ Of(r) \in Rows
         /\ OfPublished(r) = [by |-> r, pack |-> pack(r), status |-> "PUBLISHED"]
         /\ OfPublished(r) \in Rows /\ Key(OfPublished(r)) = Key(Of(r)) /\ IsPack(pack(r))
<1>1. run[r].job \in Jobs[r]
  BY TypeOfRun
<1>2. pack(r) \in Packs /\ IsPack(pack(r))
  BY <1>1, ContentAssumption DEF Packs, pack
<1> QED  BY <1>2 DEF Rows, Of, OfPublished, Key

\* What a transaction has written is its own row.
LEMMA WroteOwnRow ==
  ASSUME IInv, NEW r \in Runs, NEW row \in run[r].wrote.revisions
  PROVE  /\ run[r].pc \in Open /\ HasWritten(r)
         /\ row.by = r /\ row.pack = pack(r) /\ Key(row) = Key(Of(r))
         /\ row \in {Of(r), OfPublished(r)} /\ row \in Rows
         /\ run[r].pc = "commit" => (row.status = "PUBLISHED" <=> Checked(r))
         /\ \A other \in run[r].wrote.revisions : other = row
<1>1. TypeOK /\ Progress(r) /\ run[r].pc \in Steps
  BY TypeOfRun DEF IInv
<1>2. HasWritten(r) /\ run[r].pc \in Open /\ run[r].pc # "idle"
  BY <1>1 DEF HasWritten, Progress, Wrote, Steps, Open
<1>3. \/ Wrote(r, {Of(r)}) \/ Wrote(r, {OfPublished(r)})
  BY <1>1, <1>2 DEF Progress, Wrote, Open
<1>4. row \in {Of(r), OfPublished(r)} /\ \A other \in run[r].wrote.revisions : other = row
  BY <1>3 DEF Wrote
<1>5. run[r].pc = "commit" => (row.status = "PUBLISHED" <=> Checked(r))
  BY <1>1, <1>2, RowsOfRun DEF Progress, Wrote, Checked
<1> QED  BY <1>1, <1>2, <1>4, <1>5, RowsOfRun

\* The other runs do not notice, and what they were told stays true.
LEMMA OthersStay ==
  ASSUME IInv, NEW r \in Runs, Alone(r), stored.revisions \subseteq stored'.revisions,
         NEW o \in Others(r)
  PROVE  Progress(o)' /\ Told(o)'
<1>1. o \in Runs /\ run'[o] = run[o] /\ Progress(o) /\ Told(o)
  BY DEF IInv, Alone, Others
<1>2. Progress(o)'
  BY <1>1 DEF Progress, Wrote, Of, OfPublished, pack
<1>3. Mine(o) \subseteq Mine(o)'
  BY DEF Mine
<1>4. ASSUME Reason(o) PROVE Reason(o)'
  BY <1>1, <1>4 DEF Reason, hasPublishedOverlap, pack, Of, Key
<1>5. Told(o)'
  BY <1>1, <1>3, <1>4 DEF Told
<1> QED  BY <1>2, <1>5

LEMMA AdvancingKeeps ==
  ASSUME IInv, NEW r \in Runs, Advances(r)
  PROVE  IInv'
<1>1. /\ TypeOK' /\ Alone(r) /\ stored' = stored /\ Progress(r)'
      /\ run[r].pc # "done" /\ run'[r].pc \in Open
      /\ HasWritten(r)' => run'[r].job = run[r].job /\ (HasWritten(r) \/ KeyIsFree(r))
      /\ Checked(r)' => WindowIsFree(r)
  BY DEF Advances
<1>2. /\ TypeOK /\ Landed /\ KeysApart /\ WindowsApart
      /\ \A o \in Runs : Progress(o) /\ Told(o)
  BY DEF IInv
<1>3. \A o \in Runs : o # r => run'[o] = run[o] /\ o \in Others(r)
  BY <1>1 DEF Alone, Others
<1>4. Landed'
  <2>1. \A row \in stored.revisions : row.by \in Runs /\ row.by # r
    BY <1>1, <1>2 DEF Landed, TypeOK, IsWritten, Rows
  <2> QED  BY <1>1, <1>2, <1>3, <2>1 DEF Landed
<1>5. \A o \in Runs : o # r => /\ HasWritten(o)' = HasWritten(o) /\ Checked(o)' = Checked(o)
                                /\ Key(Of(o))' = Key(Of(o)) /\ pack(o)' = pack(o)
  BY <1>3 DEF HasWritten, Checked, Key, Of, pack
<1>6. run'[r].job = run[r].job => Key(Of(r))' = Key(Of(r)) /\ pack(r)' = pack(r)
  BY DEF Key, Of, pack
<1>7. KeysApart'
  <2>1. \A x, y \in stored'.revisions : Key(x) = Key(y) => x = y
    BY <1>1, <1>2 DEF KeysApart
  <2>2. HasWritten(r)' =>
          /\ \A row \in stored.revisions : Key(row) # Key(Of(r))
          /\ \A o \in Runs : o # r /\ HasWritten(o) => Key(Of(r)) # Key(Of(o))
    <3> SUFFICES ASSUME HasWritten(r)'
                 PROVE  /\ \A row \in stored.revisions : Key(row) # Key(Of(r))
                        /\ \A o \in Runs : o # r /\ HasWritten(o) => Key(Of(r)) # Key(Of(o))
      OBVIOUS
    <3>1. CASE HasWritten(r)
      BY <1>2, <3>1 DEF KeysApart
    <3>2. CASE KeyIsFree(r)
      <4>1. ASSUME NEW o \in Runs, o # r, HasWritten(o) PROVE Key(Of(r)) # Key(Of(o))
        <5>1. PICK row \in run[o].wrote.revisions : TRUE
          BY <4>1 DEF HasWritten
        <5>2. Key(row) = Key(Of(o)) /\ Key(row) # Key(Of(r))
          BY <1>3, <3>2, <4>1, <5>1, WroteOwnRow DEF KeyIsFree
        <5> QED  BY <5>2
      <4> QED  BY <3>2, <4>1 DEF KeyIsFree
    <3> QED  BY <1>1, <3>1, <3>2
  <2>3. ASSUME NEW o \in Runs, HasWritten(o)', NEW row \in stored'.revisions
        PROVE  Key(row) # Key(Of(o))'
    BY <1>1, <1>2, <1>5, <1>6, <2>2, <2>3 DEF KeysApart
  <2>4. ASSUME NEW o \in Runs, NEW q \in Runs, o # q, HasWritten(o)', HasWritten(q)'
        PROVE  Key(Of(o))' # Key(Of(q))'
    <3>1. CASE o = r  BY <1>1, <1>5, <1>6, <2>2, <2>4, <3>1
    <3>2. CASE q = r  BY <1>1, <1>5, <1>6, <2>2, <2>4, <3>2
    <3>3. CASE o # r /\ q # r  BY <1>2, <1>5, <2>4, <3>3 DEF KeysApart
    <3> QED  BY <3>1, <3>2, <3>3
  <2> QED  BY <2>1, <2>3, <2>4 DEF KeysApart, Key
<1>8. WindowsApart'
  <2>1. \A x, y \in stored'.revisions :
          x # y /\ x.status = "PUBLISHED" /\ y.status = "PUBLISHED" => ~Overlap(x.pack, y.pack)
    BY <1>1, <1>2 DEF WindowsApart
  <2>2. Checked(r)' => /\ pack(r)' = pack(r)
                       /\ ~hasPublishedOverlap(pack(r), stored.revisions)
                       /\ \A o \in Runs : o # r /\ Checked(o) => ~Overlap(pack(r), pack(o))
    <3> SUFFICES ASSUME Checked(r)'
                 PROVE  /\ pack(r)' = pack(r)
                        /\ ~hasPublishedOverlap(pack(r), stored.revisions)
                        /\ \A o \in Runs : o # r /\ Checked(o) => ~Overlap(pack(r), pack(o))
      OBVIOUS
    <3>1. HasWritten(r)'
      BY <1>1 DEF Checked, Progress, Wrote, HasWritten
    <3>2. ASSUME NEW o \in Runs, o # r, Checked(o) PROVE ~Overlap(pack(r), pack(o))
      <4>1. run[o].wrote.revisions = {OfPublished(o)} /\ run[o].pc # "idle"
        BY <1>2, <3>2 DEF Progress, Wrote, Checked
      <4>2. OfPublished(o).status = "PUBLISHED" /\ OfPublished(o).pack = pack(o)
        BY <1>2, <4>1, RowsOfRun
      <4>3. ~hasPublishedOverlap(pack(r), run[o].wrote.revisions)
        BY <1>1, <1>3, <3>2 DEF WindowIsFree
      <4> QED  BY <4>1, <4>2, <4>3 DEF hasPublishedOverlap, Overlap
    <3> QED  BY <1>1, <1>6, <3>1, <3>2 DEF WindowIsFree
  <2>3. ASSUME NEW o \in Runs, Checked(o)'
        PROVE  ~hasPublishedOverlap(pack(o)', stored'.revisions)
    BY <1>1, <1>2, <1>5, <2>2, <2>3 DEF WindowsApart
  <2>4. ASSUME NEW o \in Runs, NEW q \in Runs, o # q, Checked(o)', Checked(q)'
        PROVE  ~Overlap(pack(o)', pack(q)')
    <3>1. CASE o = r  BY <1>5, <2>2, <2>4, <3>1
    <3>2. CASE q = r  BY <1>5, <2>2, <2>4, <3>2 DEF Overlap
    <3>3. CASE o # r /\ q # r  BY <1>2, <1>5, <2>4, <3>3 DEF WindowsApart
    <3> QED  BY <3>1, <3>2, <3>3
  <2> QED  BY <2>1, <2>3, <2>4 DEF WindowsApart, hasPublishedOverlap, Overlap
<1>9. Told(r)'
  BY <1>1 DEF Told, Open
<1>10. \A o \in Runs : Progress(o)' /\ Told(o)'
  BY <1>1, <1>3, <1>9, OthersStay
<1> QED  BY <1>1, <1>4, <1>7, <1>8, <1>10 DEF IInv

LEMMA ConcludingKeeps ==
  ASSUME IInv, NEW r \in Runs, Concludes(r)
  PROVE  IInv'
<1>1. /\ TypeOK' /\ Alone(r) /\ stored' = stored /\ Progress(r)'
      /\ run[r].pc # "done" /\ run'[r].pc = "done"
      /\ "PUBLISHED" \notin run'[r].verdict
      /\ exitCode(run'[r].verdict) = 2 => Reason(r)'
  BY DEF Concludes
<1>2. /\ TypeOK /\ Landed /\ KeysApart /\ WindowsApart
  BY DEF IInv
<1>3. \A o \in Runs : o # r => run'[o] = run[o] /\ o \in Others(r)
  BY <1>1 DEF Alone, Others
<1>4. Landed'
  <2>1. \A row \in stored.revisions : row.by \in Runs /\ row.by # r
    BY <1>1, <1>2 DEF Landed, TypeOK, IsWritten, Rows
  <2> QED  BY <1>1, <1>2, <1>3, <2>1 DEF Landed
<1>5. \A o \in Runs : o # r => /\ HasWritten(o)' = HasWritten(o) /\ Checked(o)' = Checked(o)
                                /\ Key(Of(o))' = Key(Of(o)) /\ pack(o)' = pack(o)
  BY <1>3 DEF HasWritten, Checked, Key, Of, pack
<1>6. ~HasWritten(r)' /\ ~Checked(r)'
  BY <1>1 DEF Progress, Wrote, HasWritten, Checked
<1>7. KeysApart'
  <2>1. \A x, y \in stored'.revisions : Key(x) = Key(y) => x = y
    BY <1>1, <1>2 DEF KeysApart
  <2>2. ASSUME NEW o \in Runs, HasWritten(o)', NEW row \in stored'.revisions
        PROVE  Key(row) # Key(Of(o))'
    BY <1>1, <1>2, <1>5, <1>6, <2>2 DEF KeysApart
  <2>3. ASSUME NEW o \in Runs, NEW q \in Runs, o # q, HasWritten(o)', HasWritten(q)'
        PROVE  Key(Of(o))' # Key(Of(q))'
    BY <1>2, <1>5, <1>6, <2>3 DEF KeysApart
  <2> QED  BY <2>1, <2>2, <2>3 DEF KeysApart, Key
<1>8. WindowsApart'
  <2>1. \A x, y \in stored'.revisions :
          x # y /\ x.status = "PUBLISHED" /\ y.status = "PUBLISHED" => ~Overlap(x.pack, y.pack)
    BY <1>1, <1>2 DEF WindowsApart
  <2>2. ASSUME NEW o \in Runs, Checked(o)'
        PROVE  ~hasPublishedOverlap(pack(o)', stored'.revisions)
    BY <1>1, <1>2, <1>5, <1>6, <2>2 DEF WindowsApart
  <2>3. ASSUME NEW o \in Runs, NEW q \in Runs, o # q, Checked(o)', Checked(q)'
        PROVE  ~Overlap(pack(o)', pack(q)')
    BY <1>2, <1>5, <1>6, <2>3 DEF WindowsApart
  <2> QED  BY <2>1, <2>2, <2>3 DEF WindowsApart, hasPublishedOverlap, Overlap
<1>9. Told(r)'
  BY <1>1 DEF Told
<1>10. \A o \in Runs : Progress(o)' /\ Told(o)'
  BY <1>1, <1>3, <1>9, OthersStay
<1> QED  BY <1>1, <1>4, <1>7, <1>8, <1>10 DEF IInv

LEMMA CommittingKeeps ==
  ASSUME IInv, NEW r \in Runs, Commits(r)
  PROVE  IInv'
<1> DEFINE fresh == run[r].wrote.revisions
<1>1. /\ TypeOK' /\ Alone(r) /\ stored'.revisions = stored.revisions \cup fresh
      /\ Progress(r)' /\ run[r].pc = "commit" /\ run'[r].pc = "done"
      /\ exitCode(run'[r].verdict) # 2
      /\ "PUBLISHED" \in run'[r].verdict => run[r].job.mode = "PUBLISH"
  BY DEF Commits
<1>2. /\ TypeOK /\ Landed /\ KeysApart /\ WindowsApart /\ Progress(r)
  BY DEF IInv
<1>3. \A o \in Runs : o # r => run'[o] = run[o] /\ o \in Others(r)
  BY <1>1 DEF Alone, Others
<1>4. \A row \in fresh : /\ row.by = r /\ row.pack = pack(r) /\ Key(row) = Key(Of(r))
                         /\ row.status = "PUBLISHED" <=> Checked(r)
                         /\ \A other \in fresh : other = row
                         /\ row.status = "PUBLISHED" => HasWritten(r)
                         /\ HasWritten(r)
  BY <1>1, WroteOwnRow
<1>5. Landed'
  <2>1. \A row \in stored.revisions : row.by \in Runs /\ row.by # r
    BY <1>1, <1>2 DEF Landed, TypeOK, IsWritten, Rows
  <2>2. ASSUME NEW row \in stored.revisions
        PROVE  /\ run'[row.by].pc = "done" /\ exitCode(run'[row.by].verdict) # 2
               /\ validateContentPack(row.pack) = {}
    BY <1>2, <1>3, <2>1 DEF Landed
  <2>3. validateContentPack(pack(r)) = {}
    BY <1>1, <1>2 DEF Progress, Open
  <2> QED  BY <1>1, <1>4, <2>2, <2>3 DEF Landed
<1>6. \A o \in Runs : o # r => /\ HasWritten(o)' = HasWritten(o) /\ Checked(o)' = Checked(o)
                                /\ Key(Of(o))' = Key(Of(o)) /\ pack(o)' = pack(o)
  BY <1>3 DEF HasWritten, Checked, Key, Of, pack
<1>7. ~HasWritten(r)' /\ ~Checked(r)'
  BY <1>1 DEF Progress, Wrote, HasWritten, Checked
<1>8. KeysApart'
  <2>1. \A x, y \in stored'.revisions : Key(x) = Key(y) => x = y
    BY <1>1, <1>2, <1>4 DEF KeysApart
  <2>2. ASSUME NEW o \in Runs, HasWritten(o)', NEW row \in stored'.revisions
        PROVE  Key(row) # Key(Of(o))'
    BY <1>1, <1>2, <1>4, <1>6, <1>7, <2>2 DEF KeysApart
  <2>3. ASSUME NEW o \in Runs, NEW q \in Runs, o # q, HasWritten(o)', HasWritten(q)'
        PROVE  Key(Of(o))' # Key(Of(q))'
    BY <1>2, <1>6, <1>7, <2>3 DEF KeysApart
  <2> QED  BY <2>1, <2>2, <2>3 DEF KeysApart, Key
<1>9. WindowsApart'
  <2>0. Checked(r) => \A x \in stored.revisions :
                         x.status = "PUBLISHED" => ~Overlap(pack(r), x.pack) /\ ~Overlap(x.pack, pack(r))
    BY <1>2 DEF WindowsApart, hasPublishedOverlap, Overlap
  <2>1. ASSUME NEW x \in stored'.revisions, NEW y \in stored'.revisions,
               x # y, x.status = "PUBLISHED", y.status = "PUBLISHED"
        PROVE  ~Overlap(x.pack, y.pack)
    <3>1. CASE x \in stored.revisions /\ y \in stored.revisions
      BY <1>2, <2>1, <3>1 DEF WindowsApart
    <3>2. CASE x \in fresh /\ y \in stored.revisions
      BY <1>4, <2>0, <2>1, <3>2
    <3>3. CASE x \in stored.revisions /\ y \in fresh
      BY <1>4, <2>0, <2>1, <3>3
    <3>4. CASE x \in fresh /\ y \in fresh
      BY <1>4, <2>1, <3>4
    <3> QED  BY <1>1, <3>1, <3>2, <3>3, <3>4
  <2>2. ASSUME NEW o \in Runs, Checked(o)'
        PROVE  ~hasPublishedOverlap(pack(o)', stored'.revisions)
    <3>1. o # r /\ Checked(o) /\ pack(o)' = pack(o)
      BY <1>6, <1>7, <2>2
    <3>2. ~hasPublishedOverlap(pack(o), stored.revisions)
      BY <1>2, <3>1 DEF WindowsApart
    <3>3. \A row \in fresh : row.status = "PUBLISHED" => ~Overlap(pack(o), row.pack)
      BY <1>2, <1>4, <3>1 DEF WindowsApart
    <3> QED  BY <1>1, <3>1, <3>2, <3>3 DEF hasPublishedOverlap, Overlap
  <2>3. ASSUME NEW o \in Runs, NEW q \in Runs, o # q, Checked(o)', Checked(q)'
        PROVE  ~Overlap(pack(o)', pack(q)')
    BY <1>2, <1>6, <1>7, <2>3 DEF WindowsApart
  <2> QED  BY <2>1, <2>2, <2>3 DEF WindowsApart, hasPublishedOverlap, Overlap
<1>10. Told(r)'
  <2> SUFFICES ASSUME "PUBLISHED" \in run'[r].verdict
               PROVE  \E row \in Mine(r)' : row.status = "PUBLISHED"
    BY <1>1 DEF Told
  <2>1. fresh = {OfPublished(r)} /\ run[r].pc # "idle"
    BY <1>1, <1>2 DEF Progress, Wrote
  <2>2. OfPublished(r).status = "PUBLISHED" /\ OfPublished(r).by = r
    BY <1>2, <2>1, RowsOfRun
  <2>3. PICK row \in fresh : row = OfPublished(r)
    BY <2>1
  <2>4. row \in Mine(r)' /\ row.status = "PUBLISHED"
    BY <1>1, <2>2, <2>3 DEF Mine
  <2> QED  BY <2>4
<1>11. \A o \in Runs : Progress(o)' /\ Told(o)'
  BY <1>1, <1>3, <1>10, OthersStay
<1> QED  BY <1>1, <1>5, <1>8, <1>9, <1>11 DEF IInv

(***************************************************************************)
(* Every step is of one kind                                               *)
(***************************************************************************)
\* What is known of a run inside its transaction.
LEMMA InTransaction ==
  ASSUME IInv, NEW r \in Runs, run[r].pc \in Open
  PROVE  /\ TypeOK /\ Progress(r) /\ run[r].pc # "idle" /\ run[r].pc # "done"
         /\ validateContentPack(pack(r)) = {} /\ IsPack(pack(r))
         /\ RevisionRow(pack(r)) \subseteq {"22021"} /\ EntityRows(pack(r)) \subseteq {"22021"}
         /\ OtherRows(pack(r)) \subseteq {"22021"} /\ GraphIsComplete(pack(r))
         /\ IsWritten(run[r].wrote) /\ IsWritten(stored)
<1>1. TypeOK /\ Progress(r) /\ run[r].pc # "idle" /\ run[r].pc # "done"
  BY DEF IInv, Open
<1>2. validateContentPack(pack(r)) = {} /\ IsPack(pack(r))
  BY <1>1, RowsOfRun DEF Progress
<1> QED  BY <1>1, <1>2, AcceptedPack, TypeOfRun

\* The job stays, and with it pack, key and row.
LEMMA SameJob ==
  ASSUME NEW r \in Runs, run'[r].job = run[r].job
  PROVE  /\ pack(r)' = pack(r) /\ Of(r)' = Of(r) /\ OfPublished(r)' = OfPublished(r)
  BY DEF pack, Of, OfPublished

LEMMA Starting ==
  ASSUME IInv, NEW r \in Runs, NEW job \in Jobs[r], Start(r, job)
  PROVE  Advances(r) \/ Concludes(r)
<1> DEFINE file == readBoundedJson(job.file)
           refused == IF file # {} THEN file ELSE {d[1] : d \in validateContentPack(job.pack)}
           this == [run[r] EXCEPT !.job = job]
           old == run[r]
<1>1. /\ TypeOK /\ Progress(r) /\ run[r].pc = "idle" /\ stored' = stored
      /\ IsWritten(stored) /\ IsWritten(old.wrote) /\ old.wrote.revisions = {}
      /\ old = [pc |-> old.pc, job |-> old.job, wrote |-> old.wrote, verdict |-> old.verdict]
  BY TypeOfRun DEF IInv, Start, Progress, Wrote
<1>2. this = [pc |-> old.pc, job |-> job, wrote |-> old.wrote, verdict |-> old.verdict]
  BY <1>1
<1>3. CASE refused = {}
  <2> DEFINE x == [pc |-> "find", job |-> job, wrote |-> old.wrote, verdict |-> old.verdict]
  <2>1. [this EXCEPT !.pc = "find"] = x
    <3> HIDE DEF this
    <3> QED  BY <1>2
  <2>2. run' = [run EXCEPT ![r] = x]
    BY <1>3, <2>1 DEF Start
  <2>3. IsRun(r, x)
    BY <1>1 DEF IsRun, Steps, Open
  <2>4. x.pc = "find" /\ x.job = job /\ x.wrote = old.wrote
    OBVIOUS
  <2>5. validateContentPack(job.pack) = {}
    <3>1. {d[1] : d \in validateContentPack(job.pack)} = {}
      BY <1>3
    <3> QED  BY <3>1
  <2> HIDE DEF x
  <2>6. /\ TypeOK' /\ Alone(r) /\ run'[r].pc = "find" /\ run'[r].job = job
        /\ run'[r].wrote.revisions = {}
    BY <1>1, <2>2, <2>3, <2>4, OneRunMoves
  <2>7. Progress(r)' /\ ~HasWritten(r)' /\ ~Checked(r)'
    BY <2>5, <2>6 DEF Progress, Wrote, HasWritten, Checked, pack
  <2> QED  BY <1>1, <2>6, <2>7 DEF Advances, Open
<1>4. CASE refused # {}
  <2> DEFINE x == [pc |-> "done", job |-> job, wrote |-> old.wrote, verdict |-> refused]
  <2>0. [this EXCEPT !.pc = "done"] = [pc |-> "done", job |-> job, wrote |-> old.wrote,
                                        verdict |-> old.verdict]
    <3> HIDE DEF this
    <3> QED  BY <1>2
  <2>1. [this EXCEPT !.pc = "done", !.verdict = refused] = x
    <3> DEFINE z == [this EXCEPT !.pc = "done"]
    <3> HIDE DEF this, refused
    <3>1. [this EXCEPT !.pc = "done", !.verdict = refused] = [z EXCEPT !.verdict = refused]
      OBVIOUS
    <3>2. z = [pc |-> "done", job |-> job, wrote |-> old.wrote, verdict |-> old.verdict]
      BY <2>0
    <3> HIDE DEF z
    <3>3. [z EXCEPT !.verdict = refused] = x
      BY <3>2
    <3> QED  BY <3>1, <3>3
  <2>2. run' = [run EXCEPT ![r] = x]
    BY <1>4, <2>1 DEF Start
  <2>3. IsRun(r, x)
    BY <1>1 DEF IsRun, Steps, Open
  <2>4. x.pc = "done" /\ x.job = job /\ x.wrote = old.wrote /\ x.verdict = refused
    OBVIOUS
  <2>5. "PUBLISHED" \notin refused
    <3>1. "PUBLISHED" \notin file
      BY DEF readBoundedJson
    <3>2. \A d \in validateContentPack(job.pack) : d[1] # "PUBLISHED"
      BY DiagnosticsAreNoSuccess
    <3> QED  BY <3>1, <3>2
  <2>6. job.file # "pack" \/ validateContentPack(job.pack) # {}
    <3>1. readBoundedJson("pack") = {}
      BY DEF readBoundedJson
    <3> QED  BY <1>4, <3>1
  <2> HIDE DEF x, refused
  <2>7. /\ TypeOK' /\ Alone(r) /\ run'[r].pc = "done" /\ run'[r].job = job
        /\ run'[r].wrote.revisions = {} /\ run'[r].verdict = refused
    BY <1>1, <2>2, <2>3, <2>4, OneRunMoves
  <2>8. Progress(r)' /\ Reason(r)'
    BY <2>6, <2>7 DEF Progress, Wrote, Open, pack, Reason
  <2> QED  BY <1>1, <2>5, <2>7, <2>8 DEF Concludes
<1> QED  BY <1>3, <1>4

\* A transaction goes on: what is left to show is that it has the key or the
\* window when it needs it.
LEMMA GoingOn ==
  ASSUME IInv, NEW r \in Runs, run[r].pc \in Open, stored' = stored, NEW pc \in Open,
         NEW rows, IsWritten(rows),
         \/ Go(r, pc) /\ rows = run[r].wrote
         \/ Write(r, pc, rows),
         pc \in {"find", "overlap", "pack", "revision"} => rows.revisions = {},
         pc \in {"children", "catalog", "rest", "publish"} => rows.revisions = {Of(r)},
         pc = "exclude" => rows.revisions = {OfPublished(r)},
         pc \in {"publish", "exclude"} => run[r].job.mode = "PUBLISH",
         pc = "commit" =>
           rows.revisions = {IF run[r].job.mode = "PUBLISH" THEN OfPublished(r) ELSE Of(r)},
         rows.revisions # {} => HasWritten(r) \/ KeyIsFree(r),
         pc = "commit" /\ run[r].job.mode = "PUBLISH" => WindowIsFree(r)
  PROVE  Advances(r)
<1>1. /\ TypeOK /\ run[r].pc # "idle" /\ run[r].pc # "done"
      /\ validateContentPack(pack(r)) = {}
  BY InTransaction
<1>2. /\ TypeOK' /\ Alone(r) /\ run'[r].pc = pc
      /\ run'[r].job = run[r].job /\ run'[r].wrote = rows
  <2>1. CASE Go(r, pc) /\ rows = run[r].wrote
    BY <1>1, <2>1, GoEffect
  <2>2. CASE Write(r, pc, rows)
    BY <1>1, <2>2, WriteEffect
  <2> QED  BY <2>1, <2>2
<1>3. pack(r)' = pack(r) /\ Of(r)' = Of(r) /\ OfPublished(r)' = OfPublished(r)
  BY <1>2, SameJob
<1>4. Progress(r)'
  BY <1>1, <1>2, <1>3 DEF Progress, Wrote, Open
<1> QED  BY <1>1, <1>2, <1>4 DEF Advances, HasWritten, Checked

\* A transaction is refused for a reason the operator can see to.
LEMMA Refusing ==
  ASSUME IInv, NEW r \in Runs, run[r].pc \in Open, stored' = stored, NEW codes, Refuse(r, codes),
         \/ codes = {"DUPLICATE_REVISION"} /\ \E row \in stored.revisions : Key(row) = Key(Of(r))
         \/ codes = {"SLOT_OVERLAP"} /\ hasPublishedOverlap(pack(r), stored.revisions)
         \/ codes = {"VALID"}
  PROVE  Concludes(r)
<1>1. /\ TypeOK /\ run[r].pc # "idle" /\ run[r].pc # "done" /\ IsWritten(stored')
  BY InTransaction
<1>2. /\ TypeOK' /\ Alone(r) /\ run'[r].pc = "done" /\ run'[r].verdict = codes
      /\ run'[r].job = run[r].job /\ run'[r].wrote.revisions = {}
  BY <1>1, RefuseEffect
<1>3. pack(r)' = pack(r) /\ Of(r)' = Of(r)
  BY <1>2, SameJob
<1>4. Progress(r)'
  BY <1>2 DEF Progress, Wrote, Open
<1>5. exitCode(codes) = 2 => Reason(r)'
  <2>1. CASE codes = {"VALID"}
    BY <2>1 DEF exitCode
  <2>2. CASE codes = {"DUPLICATE_REVISION"} /\ \E row \in stored.revisions : Key(row) = Key(Of(r))
    <3>1. PICK row \in stored.revisions : Key(row) = Key(Of(r))
      BY <2>2
    <3>2. row \in stored'.revisions /\ Key(row)' = Key(Of(r))'
      BY <1>3, <3>1 DEF Key
    <3> QED  BY <1>2, <2>2, <3>2 DEF Reason, Key
  <2>3. CASE codes = {"SLOT_OVERLAP"} /\ hasPublishedOverlap(pack(r), stored.revisions)
    BY <1>2, <1>3, <2>3 DEF Reason, hasPublishedOverlap
  <2> QED  BY <2>1, <2>2, <2>3
<1> QED  BY <1>1, <1>2, <1>4, <1>5 DEF Concludes

LEMMA StepsHaveAKind ==
  ASSUME IInv, Next
  PROVE  \E r \in Runs : Advances(r) \/ Concludes(r) \/ Commits(r)
<1> SUFFICES ASSUME NEW r \in Runs,
                    \/ \E job \in Jobs[r] : Start(r, job)
                    \/ findExistingRevision(r) \/ DryRunEnds(r)
                    \/ InsertPack(r) \/ InsertRevision(r) \/ InsertEntities(r) \/ InsertRegion(r)
                    \/ InsertRest(r) \/ Publish(r) \/ CheckWindow(r) \/ Commit(r)
                    \/ Disconnect(r) \/ Deadlock(r)
             PROVE  Advances(r) \/ Concludes(r) \/ Commits(r)
  BY DEF Next
<1> DEFINE wrote == run[r].wrote
           taken == \E row \in stored.revisions : Key(row) = Key(Of(r))
<1>0. TypeOK /\ (run[r].pc \in Open => Progress(r) /\ IsWritten(wrote))
  BY InTransaction DEF IInv
<1>1. CASE \E job \in Jobs[r] : Start(r, job)
  BY <1>1, Starting
<1>2. CASE findExistingRevision(r)
  <2>1. run[r].pc = "find" /\ run[r].pc \in Open /\ stored' = stored
    BY <1>2 DEF findExistingRevision, At, Open
  <2>2. CASE taken
    <3>1. Refuse(r, {"DUPLICATE_REVISION"})
      BY <1>2, <2>2 DEF findExistingRevision
    <3> QED  BY <2>1, <2>2, <3>1, Refusing
  <2>3. CASE ~taken
    <3>1. PICK pc \in {"overlap", "pack"} : Go(r, pc)
      BY <1>2, <2>3 DEF findExistingRevision
    <3>2. wrote.revisions = {}
      BY <1>0, <2>1 DEF Progress, Wrote
    <3> QED  BY <1>0, <2>1, <3>1, <3>2, GoingOn DEF Open
  <2> QED  BY <2>2, <2>3
<1>3. CASE DryRunEnds(r)
  <2>1. run[r].pc \in Open /\ stored' = stored
    BY <1>3 DEF DryRunEnds, At, Open
  <2>2. PICK codes : /\ Refuse(r, codes)
                     /\ \/ codes = {"SLOT_OVERLAP"} /\ hasPublishedOverlap(pack(r), stored.revisions)
                        \/ codes = {"VALID"}
    BY <1>3 DEF DryRunEnds
  <2> QED  BY <2>1, <2>2, Refusing
<1>4. CASE InsertPack(r)
  <2> DEFINE rows == [wrote EXCEPT !.packs = {pack(r).key} \ stored.packs]
  <2>1. run[r].pc = "pack" /\ run[r].pc \in Open /\ stored' = stored /\ Write(r, "revision", rows)
    BY <1>4 DEF InsertPack, At, Open
  <2>2. wrote.revisions = {}
    BY <1>0, <2>1 DEF Progress, Wrote
  <2>3. IsWritten(rows) /\ rows.revisions = wrote.revisions
    BY <1>0, <2>1 DEF IsWritten
  <2> HIDE DEF rows
  <2> QED  BY <2>1, <2>2, <2>3, GoingOn DEF Open
<1>5. CASE InsertRevision(r)
  <2> DEFINE rows == [wrote EXCEPT !.revisions = {Of(r)}]
             states == RevisionRow(pack(r)) \cup (IF taken THEN {"23505"} ELSE {})
  <2>1. /\ run[r].pc = "revision" /\ run[r].pc \in Open /\ stored' = stored /\ WaitsFor(r) = {}
        /\ Insert(r, states, "case_revisions", "children", rows)
    BY <1>5 DEF InsertRevision, At, Open
  <2>2. CASE states # {}
    <3>1. PICK state \in states : Fail(r, state, "case_revisions")
      BY <2>1, <2>2 DEF Insert
    <3>2. CASE state = "22021"
      BY <1>0, <2>1, <3>1, <3>2, InTransaction, RefusedInsert
    <3>3. CASE state = "23505" /\ taken
      <4>1. Refuse(r, {"DUPLICATE_REVISION"})
        BY <3>1, <3>3 DEF Fail, mapDatabaseError
      <4> QED  BY <2>1, <3>3, <4>1, Refusing
    <3>4. state = "22021" \/ (state = "23505" /\ taken)
      BY <2>1, <3>1, InTransaction
    <3> QED  BY <3>2, <3>3, <3>4
  <2>3. CASE states = {}
    <3>1. Write(r, "children", rows) /\ ~taken
      BY <2>1, <2>3 DEF Insert
    <3>2. ASSUME NEW o \in Others(r), NEW row \in run[o].wrote.revisions
          PROVE  Key(row) # Key(Of(r))
      BY <2>1, <3>2 DEF WaitsFor
    <3>3. KeyIsFree(r)
      BY <3>1, <3>2 DEF KeyIsFree
    <3>4. IsWritten(rows) /\ rows.revisions = {Of(r)}
      <4>1. Of(r) \in Rows
        BY <1>0, <2>1, InTransaction, RowsOfRun
      <4> QED  BY <1>0, <2>1, <4>1 DEF IsWritten
    <3> HIDE DEF rows
    <3> QED  BY <2>1, <3>1, <3>3, <3>4, GoingOn DEF Open
  <2> QED  BY <2>2, <2>3
<1>6. CASE InsertEntities(r)
  <2>1. /\ run[r].pc = "children" /\ run[r].pc \in Open /\ stored' = stored
        /\ Insert(r, EntityRows(pack(r)), "case_entities", "catalog", wrote)
    BY <1>6 DEF InsertEntities, At, Open
  <2>2. CASE EntityRows(pack(r)) # {}
    <3>1. PICK state \in EntityRows(pack(r)) : Fail(r, state, "case_entities")
      BY <2>1, <2>2 DEF Insert
    <3>2. state = "22021"
      BY <2>1, <3>1, InTransaction
    <3> QED  BY <1>0, <2>1, <3>1, <3>2, InTransaction, RefusedInsert
  <2>3. CASE EntityRows(pack(r)) = {}
    <3>1. Write(r, "catalog", wrote)
      BY <2>1, <2>3 DEF Insert
    <3>2. wrote.revisions = {Of(r)} /\ HasWritten(r)
      BY <1>0, <2>1 DEF Progress, Wrote, HasWritten
    <3> QED  BY <1>0, <2>1, <3>1, <3>2, GoingOn DEF Open
  <2> QED  BY <2>2, <2>3
<1>7. CASE InsertRegion(r)
  <2>1. run[r].pc = "catalog" /\ run[r].pc \in Open /\ stored' = stored
    BY <1>7 DEF InsertRegion, At, Open
  <2>2. wrote.revisions = {Of(r)} /\ HasWritten(r)
    BY <1>0, <2>1 DEF Progress, Wrote, HasWritten
  <2>3. CASE RegionsLeft(r) = {}
    <3>1. Go(r, "rest")
      BY <1>7, <2>3 DEF InsertRegion
    <3> QED  BY <1>0, <2>1, <2>2, <3>1, GoingOn DEF Open
  <2>4. CASE RegionsLeft(r) # {}
    <3> DEFINE rows == [wrote EXCEPT !.catalog = @ \cup {pack(r).regions[NextRegion(r)].id}]
    <3>1. Write(r, "catalog", rows)
      BY <1>7, <2>4 DEF InsertRegion
    <3>2. IsWritten(rows) /\ rows.revisions = wrote.revisions
      BY <1>0, <2>1 DEF IsWritten
    <3> HIDE DEF rows
    <3> QED  BY <2>1, <2>2, <3>1, <3>2, GoingOn DEF Open
  <2> QED  BY <2>3, <2>4
<1>8. CASE InsertRest(r)
  <2> DEFINE pc == IF run[r].job.mode = "PUBLISH" THEN "publish" ELSE "commit"
  <2>1. /\ run[r].pc = "rest" /\ run[r].pc \in Open /\ stored' = stored
        /\ Insert(r, OtherRows(pack(r)), "case_evidence", pc, wrote)
    BY <1>8 DEF InsertRest, At, Open
  <2>2. CASE OtherRows(pack(r)) # {}
    <3>1. PICK state \in OtherRows(pack(r)) : Fail(r, state, "case_evidence")
      BY <2>1, <2>2 DEF Insert
    <3>2. state = "22021"
      BY <2>1, <3>1, InTransaction
    <3> QED  BY <1>0, <2>1, <3>1, <3>2, InTransaction, RefusedInsert
  <2>3. CASE OtherRows(pack(r)) = {}
    <3>1. Write(r, pc, wrote)
      BY <2>1, <2>3 DEF Insert
    <3>2. wrote.revisions = {Of(r)} /\ HasWritten(r)
      BY <1>0, <2>1 DEF Progress, Wrote, HasWritten
    <3>3. /\ pc \in Open /\ pc \in {"publish", "commit"}
          /\ pc = "publish" <=> run[r].job.mode = "PUBLISH"
      BY DEF Open
    <3> HIDE DEF pc
    <3> QED  BY <1>0, <2>1, <3>1, <3>2, <3>3, GoingOn
  <2> QED  BY <2>2, <2>3
<1>9. CASE Publish(r)
  <2> DEFINE rows == [wrote EXCEPT !.revisions = {OfPublished(r)}]
  <2>1. run[r].pc = "publish" /\ run[r].pc \in Open /\ stored' = stored
    BY <1>9 DEF Publish, At, Open
  <2>2. GraphIsComplete(pack(r))
    BY <2>1, InTransaction
  <2>3. Write(r, "exclude", rows)
    BY <1>9, <2>2 DEF Publish, Insert, OfPublished
  <2>4. HasWritten(r) /\ run[r].job.mode = "PUBLISH"
    BY <1>0, <2>1 DEF Progress, Wrote, HasWritten
  <2>5. IsWritten(rows) /\ rows.revisions = {OfPublished(r)}
    <3>1. OfPublished(r) \in Rows
      BY <1>0, <2>1, InTransaction, RowsOfRun
    <3> QED  BY <1>0, <2>1, <3>1 DEF IsWritten
  <2> HIDE DEF rows
  <2> QED  BY <2>1, <2>3, <2>4, <2>5, GoingOn DEF Open
<1>10. CASE CheckWindow(r)
  <2>1. run[r].pc = "exclude" /\ run[r].pc \in Open /\ stored' = stored /\ WaitsFor(r) = {}
    BY <1>10 DEF CheckWindow, At, Open
  <2>2. CASE hasPublishedOverlap(pack(r), stored.revisions)
    <3>1. Refuse(r, {"SLOT_OVERLAP"})
      BY <1>10, <2>2 DEF CheckWindow, Fail, mapDatabaseError
    <3> QED  BY <2>1, <2>2, <3>1, Refusing
  <2>3. CASE ~hasPublishedOverlap(pack(r), stored.revisions)
    <3>1. Go(r, "commit")
      BY <1>10, <2>3 DEF CheckWindow
    <3>2. ASSUME NEW o \in Others(r)
          PROVE  ~hasPublishedOverlap(pack(r), run[o].wrote.revisions)
      BY <2>1 DEF WaitsFor
    <3>3. WindowIsFree(r)
      BY <2>3, <3>2 DEF WindowIsFree
    <3>4. /\ HasWritten(r) /\ run[r].job.mode = "PUBLISH"
          /\ wrote.revisions = {OfPublished(r)}
      BY <1>0, <2>1 DEF Progress, Wrote, HasWritten
    <3> QED  BY <1>0, <2>1, <3>1, <3>3, <3>4, GoingOn DEF Open
  <2> QED  BY <2>2, <2>3
<1>11. ASSUME run[r].pc = "commit", Committed(r),
              \/ Fail(r, "08006", "any")
              \/ Refuse(r, {IF run[r].job.mode = "PUBLISH" THEN "PUBLISHED" ELSE "DRAFT"})
       PROVE  Commits(r)
  <2>1. /\ run[r].pc \in Open /\ run[r].pc # "idle" /\ IsWritten(stored) /\ IsWritten(wrote)
    BY <1>11, InTransaction DEF Open
  <2>2. /\ IsWritten(stored') /\ stored'.revisions = stored.revisions \cup wrote.revisions
    BY <1>11, <2>1 DEF Committed, IsWritten
  <2>3. PICK codes : /\ Refuse(r, codes) /\ exitCode(codes) # 2
                     /\ "PUBLISHED" \in codes => run[r].job.mode = "PUBLISH"
    BY <1>11 DEF Fail, mapDatabaseError, exitCode
  <2>4. /\ TypeOK' /\ Alone(r) /\ run'[r].pc = "done" /\ run'[r].verdict = codes
        /\ run'[r].wrote.revisions = {}
    BY <1>0, <2>1, <2>2, <2>3, RefuseEffect
  <2>5. Progress(r)'
    BY <2>4 DEF Progress, Wrote, Open
  <2> QED  BY <1>11, <2>2, <2>3, <2>4, <2>5 DEF Commits
<1>12. CASE Commit(r)
  BY <1>11, <1>12 DEF Commit, At
<1>13. CASE Disconnect(r) \/ Deadlock(r)
  <2>1. run[r].pc \in Open /\ run[r].pc # "idle" /\ run[r].pc # "done"
    BY <1>13, InTransaction DEF Disconnect, Deadlock
  <2>2. CASE stored' = stored
    BY <1>0, <1>13, <2>1, <2>2, RefusedInsert DEF Disconnect, Deadlock
  <2>3. CASE run[r].pc = "commit" /\ Committed(r) /\ Fail(r, "08006", "any")
    BY <1>11, <2>3
  <2> QED  BY <1>13, <2>2, <2>3 DEF Disconnect, Deadlock
<1> QED  BY <1>1, <1>2, <1>3, <1>4, <1>5, <1>6, <1>7, <1>8, <1>9, <1>10, <1>12, <1>13

(***************************************************************************)
(* The results                                                             *)
(***************************************************************************)
LEMMA InitIInv == Init => IInv
<1> SUFFICES ASSUME Init PROVE IInv
  OBVIOUS
<1> DEFINE x == [pc |-> "idle", job |-> None, wrote |-> Nothing, verdict |-> {}]
<1>1. stored = Nothing /\ run = [r \in Runs |-> x]
  BY DEF Init
<1>2. \A r \in Runs : IsRun(r, x)
  BY DEF IsRun, IsWritten, Nothing, Steps
<1>3. \A r \in Runs : /\ run[r] = x /\ x.pc = "idle" /\ x.wrote.revisions = {}
  BY <1>1 DEF Nothing
<1>4. IsWritten(stored) /\ stored.revisions = {}
  BY <1>1 DEF IsWritten, Nothing
<1> HIDE DEF x
<1>5. TypeOK
  BY <1>1, <1>2, <1>3, <1>4 DEF TypeOK
<1>6. Landed /\ KeysApart /\ WindowsApart
  BY <1>3, <1>4 DEF Landed, KeysApart, WindowsApart, HasWritten, Checked
<1>7. \A r \in Runs : Progress(r) /\ Told(r)
  BY <1>3 DEF Progress, Wrote, Told, Open
<1> QED  BY <1>5, <1>6, <1>7 DEF IInv

LEMMA NextIInv == IInv /\ [Next]_vars => IInv'
<1> SUFFICES ASSUME IInv, [Next]_vars PROVE IInv'
  OBVIOUS
<1>1. CASE Next
  BY <1>1, StepsHaveAKind, AdvancingKeeps, ConcludingKeeps, CommittingKeeps
<1>2. CASE UNCHANGED vars
  <2>1. stored' = stored /\ run' = run
    BY <1>2 DEF vars
  <2>2. TypeOK' /\ Landed'
    BY <2>1 DEF IInv, TypeOK, Landed, IsWritten, IsRun
  <2>3. KeysApart' /\ WindowsApart'
    BY <2>1 DEF IInv, KeysApart, WindowsApart, HasWritten, Checked, Of, pack, Key,
                hasPublishedOverlap, Overlap
  <2>4. \A r \in Runs : Progress(r)'
    BY <2>1 DEF IInv, Progress, Wrote, Of, OfPublished, pack
  <2>5. \A r \in Runs : Told(r)'
    BY <2>1 DEF IInv, Told, Reason, Mine, Of, pack, Key, hasPublishedOverlap
  <2> QED  BY <2>2, <2>3, <2>4, <2>5 DEF IInv
<1> QED  BY <1>1, <1>2

\* The database and every run, wherever they are: rows by key and by window,
\* what a transaction has written, and what a run that ended was told.
THEOREM ContentInvariant == Spec => []IInv
  BY InitIInv, NextIInv, PTL DEF Spec

\* Rows are rows of the operators' packs and every run is at a known step.
THEOREM ContentTypeOK == Spec => []TypeOK
<1>1. IInv => TypeOK
  BY DEF IInv
<1> QED  BY ContentInvariant, <1>1, PTL

\* What the command prints is so, whatever the other imports do
\* (importContentPack, mapDatabaseError, executeContentCli).
THEOREM ContentVerdictIsTruthful == Spec => []VerdictIsTruthful
<1>1. IInv => VerdictIsTruthful
  <2> SUFFICES ASSUME IInv, NEW r \in Runs, run[r].pc = "done"
               PROVE  /\ "PUBLISHED" \in run[r].verdict =>
                           \E row \in Mine(r) : row.status = "PUBLISHED"
                      /\ exitCode(run[r].verdict) = 2 => Mine(r) = {} /\ Reason(r)
    BY DEF VerdictIsTruthful, Reason
  <2>1. Landed /\ Told(r)
    BY DEF IInv
  <2>2. exitCode(run[r].verdict) = 2 => Mine(r) = {}
    BY <2>1 DEF Landed, Mine
  <2> QED  BY <2>1, <2>2 DEF Told
<1> QED  BY ContentInvariant, <1>1, PTL

\* Whatever packs are imported, in whatever interleaving, a published case is
\* alone in its window, unique by its key and complete (migrations 0001, 0002
\* and validateContentPack together).
THEOREM ContentPublishedCanBePlayed == Spec => []PublishedCanBePlayed
<1>1. IInv => PublishedCanBePlayed
  <2> SUFFICES ASSUME IInv, NEW row \in stored.revisions, row.status = "PUBLISHED"
               PROVE  LET p == row.pack
                      IN /\ ~hasPublishedOverlap(p, stored.revisions \ {row})
                         /\ \A other \in stored.revisions \ {row} : Key(other) # Key(row)
                         /\ Members(Ids(p.evidence)) = 1..4
                         /\ p.answer \in Members(Ids(p.entities))
                         /\ \A i, j \in DOMAIN p.entities :
                              (\E m \in Members(Names(p.entities[i])),
                                  n \in Members(Names(p.entities[j])) : Norm(m) = Norm(n)) => i = j
    BY DEF PublishedCanBePlayed
  <2>1. /\ validateContentPack(row.pack) = {} /\ KeysApart /\ WindowsApart /\ row.pack \in Packs
    BY DEF IInv, Landed, TypeOK, IsWritten, Rows
  <2>2. IsPack(row.pack)
    BY <2>1, ContentAssumption DEF Packs
  <2>3. ~hasPublishedOverlap(row.pack, stored.revisions \ {row})
    BY <2>1 DEF WindowsApart, Overlap, hasPublishedOverlap
  <2>4. \A other \in stored.revisions \ {row} : Key(other) # Key(row)
    BY <2>1 DEF KeysApart
  <2> QED  BY <2>1, <2>2, <2>3, <2>4, AcceptedPack DEF GraphIsComplete
<1> QED  BY ContentInvariant, <1>1, PTL
=============================================================================
