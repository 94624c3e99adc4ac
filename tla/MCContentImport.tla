--------------------------- MODULE MCContentImport ---------------------------
(***************************************************************************)
(* ContentImport for TLC: one operator tries packs with every fault and    *)
(* every way two entities may be named, another publishes a rival of the   *)
(* same revision or of the same day, a third tries again.                  *)
(***************************************************************************)
EXTENDS ContentImport, TLC

CONSTANTS a, b, c

Lower == [ADA |-> "ada", ada |-> "ada", bo |-> "bo"]
SmallLimits == [regions |-> 2, entities |-> 2, aliases |-> 1, sources |-> 2]

Item(id, t) == [id |-> id, text |-> t, unknown |-> FALSE]
Entity(id, name, aliases) == [id |-> id, name |-> name, aliases |-> aliases, text |-> {}, unknown |-> FALSE]
Orders(seq) == [i \in DOMAIN seq |-> Item(seq[i], {})]

Plain == [key |-> "k", number |-> 1, slot |-> 1, opens |-> 2, closes |-> 4, schema |-> 1,
          provenance |-> "ORIGINAL_AUTHORED", unknown |-> FALSE, title |-> {}, briefing |-> {},
          answer |-> "e", entities |-> <<Entity("e", "ada", <<"ada">>), Entity("f", "bo", <<"bo">>)>>,
          regions |-> <<Item("n", {}), Item("s", {})>>, regionIds |-> <<"s">>,
          evidence |-> Orders(<<1, 2, 3, 4>>), sources |-> <<Item("x", {})>>, sourceIds |-> <<"x">>]

Named == {[Plain EXCEPT !.entities = <<Entity("e", m, <<s>>), Entity(id, n, <<t>>)>>] :
            m, n, s, t \in {"ada", "ADA", "bo"}, id \in {"e", "f"}}
Faulty == {[Plain EXCEPT !.evidence = Orders(o)] :
             o \in {<<4, 3, 2, 1>>, <<1, 2, 3, 3>>, <<1, 2, 3>>, <<1, 2, 3, 5>>}}
  \cup {[Plain EXCEPT !.title = {fault}] : fault \in TextFaults \cup {"NUL"}}
  \cup {[Plain EXCEPT !.closes = 6], [Plain EXCEPT !.number = 0], [Plain EXCEPT !.answer = "g"],
        [Plain EXCEPT !.regionIds = <<"n", "n">>], [Plain EXCEPT !.regionIds = <<"w">>],
        [Plain EXCEPT !.sourceIds = <<"x", "y">>], [Plain EXCEPT !.schema = 2],
        [Plain EXCEPT !.unknown = TRUE], [Plain EXCEPT !.regions = <<>>],
        [Plain EXCEPT !.evidence[1].text = {"NUL"}]}

Back == [Plain EXCEPT !.regions = <<Item("s", {}), Item("n", {})>>]
Rivals == {Back, [Back EXCEPT !.number = 2], [Back EXCEPT !.key = "l"],
           [Back EXCEPT !.key = "l", !.slot = 2, !.opens = 4, !.closes = 6]}

Job(m, f, p) == [mode |-> m, file |-> f, pack |-> p]
SmallJobs ==
  (a :> {Job("PUBLISH", "pack", p) : p \in Named \cup Faulty}
        \cup {Job("PUBLISH", f, Plain) : f \in {"arguments", "missing", "large", "text", "no database"}}
   @@ b :> {Job(m, "pack", p) : m \in {"PUBLISH", "DRAFT"}, p \in Rivals}
   @@ c :> {Job("DRY_RUN", "pack", Plain), Job("PUBLISH", "pack", Plain)})
=============================================================================
