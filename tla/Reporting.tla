------------------------------ MODULE Reporting ------------------------------
(***************************************************************************)
(* The profile and the leaderboard of a browser: ReportingController over  *)
(* reads that pass each other, and API processes that page through the     *)
(* leaderboard with signed cursors while games end and cursor keys rotate. *)
(* A read is answered from the database at one moment and returns later.   *)
(***************************************************************************)
EXTENDS PublicViews

CONSTANTS None,
          Slots,      \* the slots shown, days as numbers; the last is today
          Histories,  \* what the first guest's games of earlier days may be
          Outcomes,   \* what a game of today may have come to
          Entries,    \* [Slots -> sets of entries others may solve]
          Me,         \* the entry of either guest at the browser, today
          Rings,      \* key rings: [active, previous], as deployed in turn
          Limit,      \* entries on a page (25)
          MaxReads    \* a bound on the reads the browser makes

ASSUME ReportingAssumption ==
  /\ Limit \in Nat \ {0} /\ MaxReads \in Nat /\ None \notin Nat
  /\ Slots \subseteq Int /\ \E last \in Slots : \A s \in Slots : s <= last
  /\ \A s \in Slots : AreEntries(Entries[s] \cup {Me[0], Me[1]})
  /\ \A history \in Histories : IsHistory(history)
  /\ \A game \in Outcomes : game.attempt \in Snapshots /\ game.guessed \in BOOLEAN

VARIABLES
  entries,    \* leaderboard_entries, per slot
  games,      \* the games of the first and of the second guest, per day
  rings,      \* positions in Rings of the processes that serve
  session,    \* the guest at the browser: 0, or 1 in a new session
  read,       \* the browser's reads
  board,      \* the leaderboard of ReportingState, and what its page was read from
  profile,    \* the profile of ReportingState
  leaderboard,    \* #leaderboardGeneration, Abort, RequestKey and Request
  profileRead     \* LatestRead: its generation and the read in flight

vars == <<entries, games, rings, session, read, board, profile, leaderboard, profileRead>>

Today == Max(Slots)
Ids == DOMAIN read
NoBoard == [slot |-> None, status |-> "IDLE", shown |-> <<>>, cursor |-> <<>>,
            session |-> 0, first |-> {}]
NoProfile == [status |-> "IDLE", value |-> None, games |-> None, session |-> 0]
NoRequest == [generation |-> 0, abort |-> None, key |-> None, request |-> None]

Init ==
  /\ entries = [s \in Slots |-> {}]
  /\ \E history \in Histories : games = [guest \in {0, 1} |-> IF guest = 0 THEN history ELSE <<>>]
  /\ rings = {1} /\ session = 0 /\ read = <<>>
  /\ board = NoBoard /\ profile = NoProfile
  /\ leaderboard = NoRequest /\ profileRead = [generation |-> 0, inFlight |-> None]

Over == [st |-> "over", of |-> "none", aborted |-> FALSE]

Server == <<entries, games, rings>>
Browser == <<session, board, profile, leaderboard, profileRead>>

(***************************************************************************)
(* The database and the API processes                                      *)
(***************************************************************************)
Solve(s, a) ==
  /\ a \in Entries[s] \ entries[s] /\ a \notin {Me[0], Me[1]}
  /\ entries' = [entries EXCEPT ![s] = @ \cup {a}]
  /\ UNCHANGED <<games, rings, Browser, read>>

HasEnded(s) ==
  s \in DOMAIN games[session] /\ games[session][s].attempt.state \in TerminalStates

\* The guest plays on: today's game is begun, guessed at or over, and a
\* solve is entered.
Play(game) ==
  LET mine == games[session]
  IN /\ ~HasEnded(Today)
     /\ Today \in DOMAIN mine /\ mine[Today].guessed => game.guessed
     /\ games' = [games EXCEPT ![session] =
                    [day \in DOMAIN mine \cup {Today} |-> IF day = Today THEN game ELSE mine[day]]]
     /\ entries' = IF game.attempt.state = "SOLVED"
                   THEN [entries EXCEPT ![Today] = @ \cup {Me[session]}] ELSE entries
     /\ UNCHANGED <<rings, Browser, read>>

\* A rolling deployment adds a process with the next ring, then takes the old.
Deploy ==
  /\ Max(rings) < Len(Rings) /\ Cardinality(rings) = 1 /\ rings' = rings \cup {Max(rings) + 1}
  /\ UNCHANGED <<entries, games, Browser, read>>
Retire ==
  /\ Cardinality(rings) = 2 /\ rings' = {Max(rings)}
  /\ UNCHANGED <<entries, games, Browser, read>>

\* encodeCursor signs with the active key.
encodeCursor(ring, s, position) ==
  IF position = <<>> THEN <<>> ELSE <<[key |-> Rings[ring].active, slot |-> s, at |-> position[1]]>>

\* decodeCursor and the row the cursor must name.
CursorIsGood(ring, s, cursor) ==
  cursor = <<>> \/
    (/\ cursor[1].key \in {Rings[ring].active, Rings[ring].previous}
     /\ cursor[1].slot = s /\ cursor[1].at \in entries[s])

getLeaderboard(i, ring) ==
  LET r == read[i]
      page == readDailyLeaderboardPage(entries[r.slot],
                IF r.cursor = <<>> THEN <<>> ELSE <<r.cursor[1].at>>, Limit)
  IN IF ~CursorIsGood(ring, r.slot, r.cursor) THEN [ok |-> FALSE]
     ELSE [ok |-> TRUE, items |-> page.items, first |-> entries[r.slot],
           next |-> encodeCursor(ring, r.slot, page.next)]

\* The profile is that of the guest whose session the read was sent in.
getProfile(i) ==
  LET mine == games[read[i].session]
  IN [ok |-> TRUE, games |-> mine, value |-> calculateProfileStatistics(mine, Today)]

\* One of the processes answers, unless the read fails for good.
Serve(i, ring) ==
  /\ read[i].st = "sent" /\ ~read[i].aborted /\ ring \in rings
  /\ \E answer \in {IF read[i].of = "profile" THEN getProfile(i) ELSE getLeaderboard(i, ring),
                    [ok |-> FALSE]} :
       read' = [read EXCEPT ![i].st = "answered", ![i].answer = answer]
  /\ UNCHANGED <<Server, Browser>>

(***************************************************************************)
(* ReportingController: the leaderboard                                    *)
(***************************************************************************)
NewRead(reads, of, s, cursor, generation) ==
  Append(reads, [of |-> of, slot |-> s, cursor |-> cursor, generation |-> generation,
                 session |-> session, aborted |-> FALSE,
                 st |-> "sent", answer |-> None])
Abort(reads, i) == IF i = None THEN reads ELSE [reads EXCEPT ![i].aborted = TRUE]

\* A slip: a page that replaces leaves the pages under way alone.
loadNoAbort(reads, s, cursor, replace) ==
  LET i == Len(reads) + 1
      generation == leaderboard.generation
  IN /\ read' = NewRead(reads, "board", s, cursor, generation)
     /\ leaderboard' = [generation |-> generation, abort |-> i, key |-> <<s, cursor>>, request |-> i]

Load(reads, s, cursor, replace) ==
  LET i == Len(reads) + 1
      generation == leaderboard.generation + (IF replace THEN 1 ELSE 0)
  IN /\ read' = NewRead(IF replace THEN Abort(reads, leaderboard.abort) ELSE reads,
                        "board", s, cursor, generation)
     /\ leaderboard' = [generation |-> generation, abort |-> i, key |-> <<s, cursor>>, request |-> i]

\* #loadLeaderboard: a load of the same page that is under way is joined.
loadLeaderboard(reads, s, cursor, replace) ==
  IF leaderboard.key = <<s, cursor>> /\ leaderboard.request # None
  THEN read' = reads /\ UNCHANGED <<leaderboard, board>>
  ELSE /\ Len(reads) < MaxReads /\ Load(reads, s, cursor, replace)
       /\ board' = [board EXCEPT
            !.slot = s, !.status = IF cursor = <<>> THEN "LOADING" ELSE "APPENDING",
            !.shown = IF replace THEN <<>> ELSE @, !.cursor = IF replace THEN <<>> ELSE @]

selectLeaderboardSlot(s) ==
  /\ ~(board.slot = s /\ board.status # "IDLE")
  /\ loadLeaderboard(read, s, <<>>, TRUE) /\ UNCHANGED <<Server, session, profile, profileRead>>

refreshLeaderboard ==
  /\ board.slot # None /\ board.status = "ERROR"
  /\ loadLeaderboard(read, board.slot, <<>>, TRUE)
  /\ UNCHANGED <<Server, session, profile, profileRead>>

loadMoreLeaderboard ==
  /\ board.slot # None /\ board.cursor # <<>> /\ board.status # "APPENDING"
  /\ loadLeaderboard(read, board.slot, board.cursor, FALSE)
  /\ UNCHANGED <<Server, session, profile, profileRead>>

\* A read of the leaderboard ends: then, catch and finally.
BoardReturns(i) ==
  LET r == read[i]
      current == ~r.aborted /\ r.generation = leaderboard.generation
  IN /\ r.of = "board" /\ (r.st = "answered" \/ (r.st = "sent" /\ r.aborted))
     /\ read' = [read EXCEPT ![i] = Over]
     /\ board' =
          IF ~current THEN board
          ELSE IF ~r.answer.ok THEN [board EXCEPT !.status = "ERROR"]
          ELSE [board EXCEPT
                  !.shown = IF r.cursor = <<>> THEN r.answer.items ELSE @ \o r.answer.items,
                  !.cursor = r.answer.next, !.status = "READY", !.session = r.session,
                  !.first = IF r.cursor = <<>> THEN r.answer.first ELSE @]
     /\ leaderboard' = IF leaderboard.request = i
                       THEN [leaderboard EXCEPT !.request = None, !.key = None] ELSE leaderboard
     /\ UNCHANGED <<Server, session, profile, profileRead>>

(***************************************************************************)
(* ReportingController: the profile, over LatestRead                       *)
(***************************************************************************)
\* run(replace): a caller that is not the newest does not count.
runProfile(reads, replace) ==
  LET i == Len(reads) + 1
  IN IF ~replace /\ profileRead.inFlight # None
     THEN read' = reads /\ UNCHANGED profileRead
     ELSE /\ Len(reads) < MaxReads
          /\ read' = NewRead(IF replace THEN Abort(reads, profileRead.inFlight) ELSE reads,
                             "profile", None, <<>>, profileRead.generation + 1)
          /\ profileRead' = [generation |-> profileRead.generation + 1, inFlight |-> i]

refreshProfile(replace) ==
  /\ IF replace THEN profile.status = "ERROR" ELSE profile.status # "READY"
  /\ profile' = [profile EXCEPT !.status = "LOADING"] /\ runProfile(read, replace)
  /\ UNCHANGED <<Server, session, board, leaderboard>>

\* Whether a read fails: an aborted one may, also when it was answered.
Failures(r) ==
  IF r.st = "answered" THEN {~r.answer.ok, r.aborted \/ ~r.answer.ok} ELSE {TRUE}

\* A read that was superseded shows its error all the same.
ProfileReturns(i) ==
  LET r == read[i]
  IN /\ r.of = "profile" /\ (r.st = "answered" \/ (r.st = "sent" /\ r.aborted))
     /\ read' = [read EXCEPT ![i] = Over]
     /\ \E failed \in Failures(r) :
          profile' = IF failed THEN [profile EXCEPT !.status = "ERROR"]
                     ELSE IF r.aborted \/ r.generation # profileRead.generation THEN profile
                     ELSE [status |-> "READY", value |-> r.answer.value,
                           games |-> r.answer.games, session |-> r.session]
     /\ profileRead' = IF r.generation = profileRead.generation
                       THEN [profileRead EXCEPT !.inFlight = None] ELSE profileRead
     /\ UNCHANGED <<Server, session, board, leaderboard>>

(***************************************************************************)
(* The page                                                                *)
(***************************************************************************)
\* The page shows a game of slot s that is over, just ended or found so when it
\* is opened again, and calls refreshAfterTerminal, which is two loads in a row.
refreshAfterTerminal(s) ==
  /\ HasEnded(s) /\ Len(read) + 2 <= MaxReads
  /\ LET i == Len(read) + 1
         reads == NewRead(Abort(read, profileRead.inFlight), "profile", None, <<>>,
                          profileRead.generation + 1)
     IN /\ profile' = [profile EXCEPT !.status = "LOADING"]
        /\ profileRead' = [generation |-> profileRead.generation + 1, inFlight |-> i]
        /\ loadLeaderboard(reads, s, <<>>, TRUE)
  /\ UNCHANGED <<Server, session>>

Cancelled(reads) ==
  [i \in DOMAIN reads |->
     IF i \in {leaderboard.abort, profileRead.inFlight} THEN [reads[i] EXCEPT !.aborted = TRUE] ELSE reads[i]]

\* reset(), with the new session that follows.
reset ==
  /\ session = 0 /\ session' = 1
  /\ read' = Cancelled(read) /\ board' = NoBoard /\ profile' = NoProfile
  /\ leaderboard' = [NoRequest EXCEPT !.generation = leaderboard.generation + 1]
  /\ profileRead' = [generation |-> profileRead.generation + 1, inFlight |-> None]
  /\ UNCHANGED Server

Next ==
  \/ \E s \in Slots :
       selectLeaderboardSlot(s) \/ refreshAfterTerminal(s) \/ \E a \in Entries[s] : Solve(s, a)
  \/ \E game \in Outcomes : Play(game)
  \/ \E i \in Ids : BoardReturns(i) \/ ProfileReturns(i) \/ \E ring \in rings : Serve(i, ring)
  \/ \E replace \in BOOLEAN : refreshProfile(replace)
  \/ refreshLeaderboard \/ loadMoreLeaderboard \/ reset
  \/ Deploy \/ Retire

Spec == Init /\ [][Next]_vars

-----------------------------------------------------------------------------
(***************************************************************************)
(* Properties                                                              *)
(***************************************************************************)
Shown == {board.shown[i].entry : i \in DOMAIN board.shown}
TrueRank(a, all) == (CHOOSE r \in Range(rankLeaderboard(all)) : r.entry = a).rank

\* However many games end while the guest pages on: the rows shown are in
\* order and each is shown once; nobody who was on the leaderboard when its
\* first page was read is left out above the last row shown, or at all when
\* there is no next page; and a rank shown was the competition rank at some
\* moment since (leaderboard.ts:84).
PagesAreOneLeaderboard ==
  LET shown == board.shown
      complete == board.cursor = <<>> /\ board.status = "READY"
  IN board.status \in {"READY", "APPENDING"} =>
       /\ \A i, j \in DOMAIN shown : i < j => comparePaginationOrder(shown[i].entry, shown[j].entry) < 0
       /\ \A a \in board.first :
            \/ a \in Shown
            \/ ~complete /\ shown # <<>> /\ comparePaginationOrder(Last(shown).entry, a) < 0
       /\ \A i \in DOMAIN shown :
            /\ shown[i].rank <= TrueRank(shown[i].entry, entries[board.slot])
            /\ shown[i].entry \in board.first => shown[i].rank >= TrueRank(shown[i].entry, board.first)

\* Nothing that was asked for another guest or another slot is shown, what
\* is shown as a profile is what its games amount to, and a report that
\* says it is loading has a read under way that will end it
\* (controller.ts:158).
ReportsAreTheGuests ==
  /\ board.status \in {"READY", "APPENDING"} => board.session = session
  /\ \A a \in Shown : a \in entries[board.slot]
  /\ board.status \in {"LOADING", "APPENDING"} =>
       leaderboard.request # None /\ ~read[leaderboard.request].aborted
  /\ profile.status = "READY" =>
       profile.session = session /\ IsProfileOf(profile.value, profile.games, Today)
  /\ profile.status = "LOADING" => profileRead.inFlight # None
=============================================================================
