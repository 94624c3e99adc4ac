----------------------------- MODULE PlayService -----------------------------
(***************************************************************************)
(* What the browser sees of the backend: the guest its cookie names, the   *)
(* case of the day, one attempt per slot and the receipts that make a      *)
(* command with a used key a replay.  Gameplay models the transactions     *)
(* behind it; here each request is one atomic step, and an attempt keeps   *)
(* only what the browser's rules look at: its state, its version and the   *)
(* entity of the last guess.  "Limit" is the version whose wrong guess     *)
(* exhausts the attempt.                                                   *)
(***************************************************************************)
EXTENDS Naturals

CONSTANTS Guests,     \* identities that sessions are created for, in order
          Slots, Published, Limit,
          Entities, Answer,
          Gone,       \* an entity the case does not list as eligible
          None

ASSUME ServiceAssumption ==
  /\ 0 \in Guests /\ Guests \subseteq Nat
  /\ 0 \in Slots /\ Slots \subseteq Nat
  /\ Published \subseteq Slots /\ Limit \in Nat
  /\ Answer \in Entities \ {Gone}

VARIABLES guest,      \* the guest of the browser's session
          alive,      \* that session has not expired
          slot,       \* today's slot
          attempts,   \* the guest's attempt of each slot
          receipts    \* keys already used, with the slot they acted on

service == <<guest, alive, slot, attempts, receipts>>

Finished == {"SOLVED", "EXHAUSTED", "GIVEN_UP", "EXPIRED"}
Rows == [state : Finished \cup {"NONE", "ACTIVE"}, version : 0..Limit + 1,
         last : Entities \cup {None}]
NoAttempts == [s \in Slots |-> [state |-> "NONE", version |-> 0, last |-> None]]

\* A projection: what a response says of a case or an attempt.
Projection(s) ==
  [guest |-> guest, slot |-> s, state |-> attempts[s].state,
   version |-> attempts[s].version, last |-> attempts[s].last]

\* GET /cases/current.
CurrentCase ==
  IF slot \notin Published
  THEN [Projection(slot) EXCEPT !.state = "NO_CASE"]
  ELSE IF attempts[slot].state = "NONE"
       THEN [Projection(slot) EXCEPT !.state = "NOT_STARTED"]
       ELSE Projection(slot)

\* An accepted command raises the version and may finish the attempt.
Played(row, kind, entity) ==
  [state |-> CASE kind = "GIVE_UP" -> "GIVEN_UP"
               [] kind = "GUESS" /\ entity = Answer -> "SOLVED"
               [] kind = "GUESS" /\ entity # Answer /\ row.version = Limit -> "EXHAUSTED"
               [] OTHER -> "ACTIVE",
   version |-> row.version + 1,
   last |-> IF kind = "GUESS" THEN entity ELSE row.last]

Started == [state |-> "ACTIVE", version |-> 0, last |-> None]

\* A command the rules refuse: no evidence level is left to reveal.
AtEvidenceLimit(s, kind) == kind = "REVEAL" /\ attempts[s].version = Limit

\* The slot a START acts on is the server's, never the browser's.
Target(op) == IF op.kind = "START" THEN slot ELSE op.slot

StartOutcome == IF slot \in Published THEN "APPLIED" ELSE "NO_CURRENT_CASE"

CommandOutcome(op) ==
  LET row == attempts[op.slot]
  IN CASE op.guest # guest -> "UNKNOWN_ATTEMPT"
       [] op.guest = guest /\ row.state # "ACTIVE" -> "TERMINAL_ATTEMPT"
       [] op.guest = guest /\ row.state = "ACTIVE" ->
            IF row.version # op.version THEN "STALE_VERSION"
            ELSE IF op.entity = Gone THEN "REFUSED"
            ELSE IF AtEvidenceLimit(op.slot, op.kind) THEN "EVIDENCE_LIMIT"
            ELSE "APPLIED"

\* How the server answers the copy m of a mutation request.
Outcome(m) ==
  CASE ~alive \/ m.guest # guest -> "AUTHENTICATION_REQUIRED"
    [] alive /\ m.guest = guest ->
         IF \E r \in receipts : r.key = m.key THEN "REPLAYED"
         ELSE IF m.op.kind = "START" THEN StartOutcome
         ELSE CommandOutcome(m.op)

\* What serving m does to the stored attempts and receipts.
Serve(m) ==
  LET op == m.op
      s == Target(op)
  IN IF Outcome(m) = "APPLIED"
     THEN /\ attempts' = [attempts EXCEPT ![s] =
                            IF op.kind # "START" THEN Played(@, op.kind, op.entity)
                            ELSE IF @.state = "NONE" THEN Started ELSE @]
          /\ receipts' = receipts \cup {[key |-> m.key, slot |-> s]}
     ELSE UNCHANGED <<attempts, receipts>>

\* The attempt the answer to m shows: as it is once m is served.
AnswerTo(m) ==
  LET s == IF Outcome(m) = "REPLAYED"
           THEN (CHOOSE r \in receipts : r.key = m.key).slot ELSE Target(m.op)
  IN [guest |-> guest, slot |-> s, state |-> attempts'[s].state,
      version |-> attempts'[s].version, last |-> attempts'[s].last]

\* UTC midnight: the next slot opens and the attempts of the old one expire.
Rollover ==
  /\ slot + 1 \in Slots
  /\ slot' = slot + 1
  /\ attempts' = [s \in Slots |->
       IF attempts[s].state = "ACTIVE"
       THEN [attempts[s] EXCEPT !.state = "EXPIRED", !.version = @ + 1]
       ELSE attempts[s]]
  /\ UNCHANGED <<guest, alive, receipts>>

SessionEnds == alive /\ alive' = FALSE /\ UNCHANGED <<guest, slot, attempts, receipts>>

\* Another tab of the same guest plays today's case.
OtherTabPlays ==
  /\ alive /\ slot \in Published
  /\ \/ attempts[slot].state = "NONE" /\ attempts' = [attempts EXCEPT ![slot] = Started]
     \/ /\ attempts[slot].state = "ACTIVE"
        /\ \E kind \in {"GUESS", "REVEAL", "GIVE_UP"}, entity \in Entities \ {Gone} :
             /\ ~AtEvidenceLimit(slot, kind)
             /\ attempts' = [attempts EXCEPT ![slot] = Played(@, kind, entity)]
  /\ UNCHANGED <<guest, alive, slot, receipts>>

\* POST /guest-sessions: a new identity, with no attempts of its own.
CreateSession ==
  /\ guest + 1 \in Guests
  /\ guest' = guest + 1 /\ alive' = TRUE
  /\ attempts' = NoAttempts /\ receipts' = {}
  /\ UNCHANGED slot

ServiceInit == guest = 0 /\ alive = TRUE /\ slot = 0 /\ attempts = NoAttempts /\ receipts = {}
=============================================================================
