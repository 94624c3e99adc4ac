----------------------------- MODULE ContentPack -----------------------------
(***************************************************************************)
(* validateContentPack, and the constraints of the content schema that a   *)
(* pack's rows meet in PostgreSQL.  No state: ContentImport runs packs     *)
(* through both.                                                           *)
(*                                                                         *)
(* A pack is [key, number, slot, opens, closes, schema, provenance,        *)
(* unknown, title, briefing, answer, entities, regions, regionIds,         *)
(* evidence, sources, sourceIds].  A text is the set of what readString    *)
(* has against it, with "NUL" for a character it lets pass; the title      *)
(* stands for the fields the database checks too, an item has one text.    *)
(***************************************************************************)
EXTENDS Integers, Sequences, FiniteSets

CONSTANTS Normal,   \* [names -> names]: normalize('NFKC'), trim, lower case
          Limits    \* CONTENT_PACK_LIMITS, of the lists

Norm(name) == IF name \in DOMAIN Normal THEN Normal[name] ELSE name
Ids(list) == [i \in DOMAIN list |-> list[i].id]
Members(seq) == {seq[i] : i \in DOMAIN seq}
Repeats(seq) == \E i, j \in DOMAIN seq : i < j /\ seq[i] = seq[j]
Names(entity) == <<entity.name>> \o entity.aliases

\* A pack as it is written above: its lists are arrays, its numbers integers.
IsArray(list) == list \in Seq(Members(list))
IsPack(pack) ==
  /\ {pack.number, pack.slot, pack.opens, pack.closes} \subseteq Int
  /\ IsArray(pack.entities) /\ IsArray(pack.evidence)
  /\ \A i \in DOMAIN pack.entities : IsArray(pack.entities[i].aliases)

(***************************************************************************)
(* validate.ts: a diagnostic is a code and the field it is about, and the  *)
(* context keeps each once.                                                *)
(***************************************************************************)
TextFaults == {"INVALID_TYPE", "OUT_OF_BOUNDS", "INVALID_FORMAT", "EXTERNAL_URL", "UNSAFE_MARKUP"}

rejectUnknownFields(item, path) == IF item.unknown THEN {<<"UNKNOWN_FIELD", path>>} ELSE {}

readString(text, path) == {<<fault, path>> : fault \in text \cap TextFaults}

readStringArray(texts, path, maximum) ==
  (IF Len(texts) \notin 1..maximum THEN {<<"OUT_OF_BOUNDS", path>>} ELSE {})

reportDuplicates(values, path) ==
  IF Repeats([i \in DOMAIN values |-> Norm(values[i])]) THEN {<<"DUPLICATE_VALUE", path>>} ELSE {}

\* What each reader does first with the items of its list.
readItems(list, path, minimum, maximum) ==
  (IF Len(list) \notin minimum..maximum THEN {<<"OUT_OF_BOUNDS", path>>} ELSE {})
  \cup UNION {rejectUnknownFields(list[i], path) \cup readString(list[i].text, path)
              : i \in DOMAIN list}

readRegions(regions) ==
  readItems(regions, "regions", 1, Limits.regions) \cup reportDuplicates(Ids(regions), "regions")

\* A slip: two entities may go by one name.
sharedNames(entities) == {}

reportAmbiguousAliases(entities) ==
  IF \E i, j \in DOMAIN entities :
       /\ entities[i].id # entities[j].id
       /\ \E m \in Members(Names(entities[i])), n \in Members(Names(entities[j])) : Norm(m) = Norm(n)
  THEN {<<"AMBIGUOUS_ALIAS", "entities">>} ELSE {}

readEntities(entities) ==
  readItems(entities, "entities", 2, Limits.entities)
  \cup (UNION {readStringArray(entities[i].aliases, "aliases", Limits.aliases)
               \cup reportDuplicates(entities[i].aliases, "aliases") : i \in DOMAIN entities})
  \cup reportDuplicates(Ids(entities), "entities")
  \cup reportAmbiguousAliases(entities)

readEvidence(evidence) ==
  LET orders == Ids(evidence)
  IN readItems(evidence, "evidence", 4, 4)
     \cup {<<"OUT_OF_BOUNDS", "order">> : order \in Members(orders) \ 1..4}
     \cup (IF Repeats(SelectSeq(orders, LAMBDA order : order \in 1..4))
           THEN {<<"DUPLICATE_VALUE", "evidence">>} ELSE {})
     \cup {<<"INVALID_FORMAT", "evidence">> : order \in 1..4 \ Members(orders)}

readSources(sources) ==
  readItems(sources, "sources", 1, Limits.sources) \cup reportDuplicates(Ids(sources), "sources")

\* opensAt is the midnight slotId begins with, closesAt the next one; a
\* slot is a day and times are half days.
validateWindow(pack) ==
  IF pack.opens = 2 * pack.slot /\ pack.closes = pack.opens + 2 THEN {}
  ELSE {<<"INVALID_DAY_WINDOW", "opensAt">>}

validateReferences(pack) ==
  {<<"UNKNOWN_ANSWER_ID", "answer">> : id \in {pack.answer} \ Members(Ids(pack.entities))}
  \cup {<<"UNKNOWN_REGION_ID", "regionIds">> : id \in Members(pack.regionIds) \ Members(Ids(pack.regions))}
  \cup {<<"UNKNOWN_SOURCE_ID", "sourceIds">> : id \in Members(pack.sourceIds) \ Members(Ids(pack.sources))}

\* What an integer column holds.
LargestRevision == 2147483647

validateContentPack(pack) ==
  rejectUnknownFields(pack, "pack")
  \cup readString(pack.title, "title") \cup readString(pack.briefing, "briefing")
  \cup (IF pack.provenance = "ORIGINAL_AUTHORED" THEN {} ELSE {<<"UNKNOWN_PROVENANCE", "provenance">>})
  \cup (IF pack.schema = 1 THEN {} ELSE {<<"INVALID_FORMAT", "schemaVersion">>})
  \cup (IF pack.number \notin 1..LargestRevision THEN {<<"OUT_OF_BOUNDS", "revisionNumber">>} ELSE {})
  \cup readRegions(pack.regions) \cup readEntities(pack.entities)
  \cup readEvidence(pack.evidence) \cup readSources(pack.sources)
  \cup readStringArray(pack.regionIds, "regionIds", Limits.regions)
  \cup reportDuplicates(pack.regionIds, "regionIds")
  \cup readStringArray(pack.sourceIds, "sourceIds", Limits.sources)
  \cup reportDuplicates(pack.sourceIds, "sourceIds")
  \cup validateWindow(pack) \cup validateReferences(pack)

(***************************************************************************)
(* What the tables refuse of the rows of one pack: SQLSTATEs               *)
(***************************************************************************)
\* A NUL character is no text to PostgreSQL.
Unstorable(texts) == IF \E text \in texts : "NUL" \in text THEN {"22021"} ELSE {}

\* case_revisions with the checks of migration 0002.
RevisionRow(pack) ==
  Unstorable({pack.title, pack.briefing})
  \cup (IF pack.number > 0 /\ pack.opens = 2 * pack.slot /\ pack.closes = pack.opens + 2
           /\ pack.title \cap {"OUT_OF_BOUNDS", "INVALID_FORMAT"} = {}
           /\ pack.provenance = "ORIGINAL_AUTHORED"
        THEN {} ELSE {"23514"})

\* case_entities and entity_aliases: an id, a canonical name and an alias
\* once in a revision, by the letter.
EntityRows(pack) ==
  LET ids == Ids(pack.entities)
      names == [i \in DOMAIN pack.entities |-> pack.entities[i].name]
      aliases == [i \in DOMAIN pack.entities |-> pack.entities[i].aliases]
      once == /\ ~Repeats(ids) /\ ~Repeats(names)
              /\ \A i, j \in DOMAIN aliases :
                   /\ ~Repeats(aliases[i])
                   /\ i # j => Members(aliases[i]) \cap Members(aliases[j]) = {}
  IN Unstorable({pack.entities[i].text : i \in DOMAIN pack.entities})
     \cup (IF once THEN {} ELSE {"23505"})

\* revision_regions, case_evidence, case_sources.
OtherRows(pack) ==
  Unstorable({pack.evidence[i].text : i \in DOMAIN pack.evidence}
             \cup {pack.sources[i].text : i \in DOMAIN pack.sources}
             \cup {pack.regions[i].text : i \in DOMAIN pack.regions})
  \cup (IF Members(Ids(pack.evidence)) \subseteq 1..4 THEN {} ELSE {"23514"})
  \cup (IF Repeats(Ids(pack.evidence)) \/ Repeats(pack.regionIds) \/ Repeats(pack.sourceIds)
        THEN {"23505"} ELSE {})

\* protect_revision, when the status becomes PUBLISHED.
GraphIsComplete(pack) == Len(pack.evidence) = 4 /\ Members(Ids(pack.evidence)) = 1..4
=============================================================================
