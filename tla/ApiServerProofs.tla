-------------------------- MODULE ApiServerProofs --------------------------
(***************************************************************************)
(* The API processes for any number of them, of requests and of ticks, any *)
(* limits and any requests; and what a configuration they start with       *)
(* guarantees, for every environment.                                      *)
(*                                                                         *)
(* That a request finds its database comes from where connections are: at  *)
(* a process past its drain none is open, unless it came to listen after   *)
(* the signal (Attended).  The limits hold because every request let       *)
(* through was counted first: at most as many are in a window as the       *)
(* window of the process says, and none is in a window to come             *)
(* (LocalSound); the same of Redis, where besides a key outlives the       *)
(* minute it counts (SharedSound).  A request that may have committed is   *)
(* answered in one of four ways (Uncertain).                               *)
(***************************************************************************)
EXTENDS ApiServer, Configuration, FiniteSetTheorems, TLAPS

Counters == {"session", "autocomplete", "mutation"}
Bucket == now \div Minute

(***************************************************************************)
(* Requests                                                                *)
(***************************************************************************)
Asked == UNION {Shapes[r] : r \in Ids}
Records ==
  [pc : {"unsent", "done"} \cup Working, at : Processes \cup {None}, q : Asked \cup {None},
   answer : {"none", "success", "cut"} \cup Codes,
   conn : {"none", "open", "delivered", "cut"}, aborted : BOOLEAN, inflight : BOOLEAN,
   committed : BOOLEAN, window : Nat,
   verdict : {"none", "allowed", "denied", "degraded"}, bucket : Nat]

\* What the client of a command that was committed hears.
Uncertain == {"success", "cut", "REQUEST_TIMEOUT", "INTERNAL_ERROR"}

Sound(this) ==
  /\ this \in Records
  /\ this.pc # "unsent" => this.at \in Processes
  /\ this.committed => this.pc = "done" /\ this.answer \in Uncertain

Placed == \A p \in Processes : life[p] \in {"new", "binding"} => Of(p) = {}

Attended ==
  \A r \in Ids : req[r].conn = "open" =>
    /\ req[r].at \in Processes
    /\ life[req[r].at] # "late" => stage[req[r].at] \in {"up", "draining"}

(***************************************************************************)
(* Windows                                                                 *)
(***************************************************************************)
\* The request has been counted by its process.
Entered(this) == this.pc \in {"connecting", "command", "lost"} \/ this.verdict # "none"

CountedFor(this, counter, i) ==
  category(this.q.op) = counter /\ i \in Identities(this.q, Trusted)

Local(p, m, counter, i) ==
  {r \in Ids : /\ req[r].at = p /\ Entered(req[r]) /\ req[r].window = m
               /\ CountedFor(req[r], counter, i)}

WindowSound(p) ==
  /\ window[p] = [bucket |-> window[p].bucket, used |-> window[p].used]
  /\ window[p].bucket \in 0..Bucket
  /\ \A x \in DOMAIN window[p].used : window[p].used[x] \in Nat
  /\ \A r \in Ids : req[r].at = p /\ Entered(req[r]) => req[r].window <= window[p].bucket
  /\ \A counter \in Counters, i \in Everyone :
       /\ Cardinality(Local(p, window[p].bucket, counter, i)) <= At(window[p].used, <<counter, i>>)
       /\ i[1] \in DOMAIN LocalLimit[counter] =>
            \A m \in 0..Bucket : Cardinality(Local(p, m, counter, i)) <= LocalLimit[counter][i[1]]

LocalSound == DOMAIN window = Processes /\ \A p \in Processes : WindowSound(p)

Allowed(m, counter, i) ==
  {r \in Ids : /\ req[r].at # None /\ req[r].verdict = "allowed" /\ req[r].bucket = m
               /\ CountedFor(req[r], counter, i)}

\* The counters of Redis and how long they live: each past its minute.
CountersSound(l) ==
  /\ l = [count |-> l.count, until |-> l.until, registry |-> l.registry]
  /\ DOMAIN l.count = DOMAIN l.until
  /\ \A k \in DOMAIN l.until :
       /\ l.count[k] \in Nat /\ l.until[k] \in Nat
       /\ k[1] \in Nat /\ Minute * (k[1] + 1) <= l.until[k]

SharedSound ==
  /\ CountersSound(limiter)
  /\ \A r \in Ids : req[r].verdict = "allowed" => req[r].bucket <= Bucket
  /\ \A counter \in Counters, i \in Everyone :
       /\ Cardinality(Allowed(Bucket, counter, i)) <= At(limiter.count, <<Bucket, counter, i>>)
       /\ i[1] \in DOMAIN SharedLimit[counter] =>
            \A m \in 0..Bucket : Cardinality(Allowed(m, counter, i)) <= SharedLimit[counter][i[1]]

IInv ==
  /\ TypeOK /\ DOMAIN req = Ids /\ \A r \in Ids : Sound(req[r])
  /\ Placed /\ Attended /\ LocalSound /\ SharedSound

(***************************************************************************)
(* Time                                                                    *)
(***************************************************************************)
LEMMA BucketIsNat == ASSUME TypeOK PROVE now \in Nat /\ Bucket \in Nat
<1>1. now \in Nat
  BY ServerAssumption DEF TypeOK
<1> QED
  BY <1>1, LimiterAssumption DEF Bucket

\* A tick belongs to its minute.
LEMMA MinuteOf ==
  ASSUME NEW t \in Nat
  PROVE  /\ t \div Minute \in Nat
         /\ Minute * (t \div Minute) <= t /\ t < Minute * (t \div Minute + 1)
         /\ t \div Minute <= (t + 1) \div Minute
BY LimiterAssumption

LEMMA MinuteIsNat == ASSUME NEW m \in Nat PROVE Minute * (m + 1) \in Nat
<1>1. Minute \in Nat
  BY LimiterAssumption
<1> QED
  BY <1>1

(***************************************************************************)
(* The middleware                                                          *)
(***************************************************************************)
LEMMA CodesFacts ==
  {"REQUEST_FORBIDDEN", "AUTHENTICATION_REQUIRED", "SERVICE_UNAVAILABLE", "INTERNAL_ERROR",
   "REQUEST_TIMEOUT", "RATE_LIMITED", "RESOURCE_NOT_FOUND", "INVALID_REQUEST",
   "UNSUPPORTED_MEDIA_TYPE", "BODY_TOO_LARGE", "STALE_VERSION"} \subseteq Codes
BY DEF Codes, API_ERROR_STATUS

\* The parts of a request that the middleware after the limiter leaves alone.
SameRequest(this, next) ==
  /\ next.at = this.at /\ next.q = this.q /\ next.conn = this.conn /\ next.window = this.window
  /\ next.bucket = this.bucket /\ next.committed = this.committed

LEMMA AnswerFacts ==
  ASSUME NEW this \in Records, NEW code \in {"success"} \cup Codes
  PROVE  /\ Answer(this, code) \in Records /\ SameRequest(this, Answer(this, code))
         /\ Answer(this, code).pc = "done" /\ Answer(this, code).verdict = this.verdict
         /\ Answer(this, code).answer \in {"cut", code}
<1>1. Answer(this, code) \in Records
  BY DEF Answer, Records
<1>2. SameRequest(this, Answer(this, code))
  BY DEF Answer, Records, SameRequest
<1>3. /\ Answer(this, code).pc = "done" /\ Answer(this, code).verdict = this.verdict
      /\ Answer(this, code).answer \in {"cut", code}
  BY DEF Answer, Records
<1> QED
  BY <1>1, <1>2, <1>3

LEMMA StepFacts ==
  ASSUME NEW this \in Records, NEW pc \in Working
  PROVE  LET next == [this EXCEPT !.pc = pc]
         IN /\ next \in Records /\ SameRequest(this, next)
            /\ next.pc = pc /\ next.verdict = this.verdict
<1> DEFINE next == [this EXCEPT !.pc = pc]
<1>1. next \in Records
  BY DEF Records
<1>2. SameRequest(this, next)
  BY DEF Records, SameRequest
<1>3. next.pc = pc /\ next.verdict = this.verdict
  BY DEF Records
<1> QED
  BY <1>1, <1>2, <1>3

\* A request goes on to its answer, its body or its handler.
Continues(this, next) ==
  /\ next \in Records /\ SameRequest(this, next) /\ next.verdict = this.verdict
  /\ next.pc \in {"done", "body", "handler"}

LEMMA HandleFacts ==
  ASSUME NEW this \in Records
  PROVE  Continues(this, Handle(this))
<1>1. \/ Handle(this) = Answer(this, "success")
      \/ Handle(this) = [this EXCEPT !.pc = "handler"]
      \/ Handle(this) = Answer(this, "SERVICE_UNAVAILABLE")
      \/ Handle(this) = Answer(this, "INTERNAL_ERROR")
  BY Zenon DEF Handle
<1>2. Continues(this, Answer(this, "success"))
  BY AnswerFacts DEF Continues
<1>3. Continues(this, Answer(this, "SERVICE_UNAVAILABLE"))
  BY AnswerFacts, CodesFacts DEF Continues
<1>4. Continues(this, Answer(this, "INTERNAL_ERROR"))
  BY AnswerFacts, CodesFacts DEF Continues
<1>5. Continues(this, [this EXCEPT !.pc = "handler"])
  BY StepFacts DEF Continues, Working
<1> QED
  BY <1>1, <1>2, <1>3, <1>4, <1>5

LEMMA OneOfFacts ==
  ASSUME NEW codes, codes # {}
  PROVE  OneOf(codes) \in codes
<1>1. PICK code \in codes : TRUE
  OBVIOUS
<1> QED
  BY <1>1 DEF OneOf

LEMMA RefusalFacts ==
  ASSUME NEW q
  PROVE  HeadRefusal(q) \subseteq Codes /\ BodyRefusal(q) \subseteq Codes
BY CodesFacts DEF HeadRefusal, BodyRefusal

LEMMA ParsedFacts ==
  ASSUME NEW this \in Records
  PROVE  Continues(this, Parsed(this))
<1>1. CASE BodyRefusal(this.q) # {}
  <2>1. OneOf(BodyRefusal(this.q)) \in Codes
    BY <1>1, OneOfFacts, RefusalFacts
  <2>2. Continues(this, Answer(this, OneOf(BodyRefusal(this.q))))
    BY <2>1, AnswerFacts DEF Continues
  <2> QED
    BY <1>1, <2>2 DEF Parsed
<1>2. CASE BodyRefusal(this.q) = {}
  BY <1>2, HandleFacts DEF Parsed
<1> QED
  BY <1>1, <1>2

LEMMA ValidateFacts ==
  ASSUME NEW this \in Records
  PROVE  Continues(this, Validate(this))
<1>1. CASE HeadRefusal(this.q) # {}
  <2>1. OneOf(HeadRefusal(this.q)) \in Codes
    BY <1>1, OneOfFacts, RefusalFacts
  <2>2. Continues(this, Answer(this, OneOf(HeadRefusal(this.q))))
    BY <2>1, AnswerFacts DEF Continues
  <2> QED
    BY <1>1, <2>2 DEF Validate
<1>2. CASE HeadRefusal(this.q) = {} /\ HasBody(this.q.op)
  <2>1. Continues(this, Answer(this, "REQUEST_TIMEOUT"))
    BY AnswerFacts, CodesFacts DEF Continues
  <2>2. Continues(this, [this EXCEPT !.pc = "body"])
    BY StepFacts DEF Continues, Working
  <2> QED
    BY <1>2, <2>1, <2>2 DEF Validate, AwaitBody
<1>3. CASE HeadRefusal(this.q) = {} /\ ~HasBody(this.q.op)
  BY <1>3, ParsedFacts DEF Validate
<1> QED
  BY <1>1, <1>2, <1>3

LEMMA DegradedFacts ==
  ASSUME NEW this \in Records
  PROVE  /\ Degraded(this) \in Records /\ SameRequest(this, Degraded(this))
         /\ Degraded(this).verdict = "degraded"
         /\ Degraded(this).pc \in {"done", "body", "handler"}
<1> DEFINE told == [this EXCEPT !.verdict = "degraded"]
<1>1. told \in Records
  BY DEF Records
<1>2. SameRequest(this, told) /\ told.verdict = "degraded"
  BY DEF SameRequest, Records
<1>3. Continues(told, Validate(told))
  BY <1>1, ValidateFacts
<1> QED
  BY <1>2, <1>3 DEF Degraded, Continues, SameRequest

(***************************************************************************)
(* Steps of the requests                                                   *)
(***************************************************************************)
\* A request stays where it is, or is a new one at a process that listens.
Moves(this, next) ==
  /\ Sound(next)
  /\ next.at = this.at \/ (next.at \in Processes /\ Accepting(next.at))
  /\ next.conn = "open" => \/ this.conn = "open" /\ next.at = this.at
                           \/ next.at \in Processes /\ Accepting(next.at)

\* What the process, and Redis, have let through, they did before.
KeepsWindow(this, next) ==
  Entered(next) => /\ Entered(this) /\ next.at = this.at /\ next.q = this.q
                   /\ next.window = this.window

KeepsVerdict(this, next) ==
  next.verdict = "allowed" => /\ this.verdict = "allowed" /\ next.at = this.at
                              /\ next.q = this.q /\ next.bucket = this.bucket

LEMMA RequestsMove ==
  ASSUME IInv, UNCHANGED <<life, stage>>, \A r \in Ids : Moves(req[r], req'[r])
  PROVE  (\A r \in Ids : Sound(req[r])') /\ Placed' /\ Attended'
<1>1. \A r \in Ids : Sound(req[r])'
  BY DEF Moves, Sound
<1>2. Placed'
  <2> SUFFICES ASSUME NEW p \in Processes, life[p] \in {"new", "binding"}
               PROVE  \A r \in Ids : req'[r].at # p
    BY DEF Placed, Of
  <2>1. ~Accepting(p)
    BY DEF Accepting
  <2>2. \A r \in Ids : req[r].at # p
    BY DEF IInv, Placed, Of
  <2> QED
    BY <2>1, <2>2 DEF Moves
<1>3. Attended'
  <2> SUFFICES ASSUME NEW r \in Ids, req'[r].conn = "open"
               PROVE  /\ req'[r].at \in Processes
                      /\ life[req'[r].at] # "late" => stage[req'[r].at] \in {"up", "draining"}
    BY DEF Attended
  <2>1. CASE req[r].conn = "open" /\ req'[r].at = req[r].at
    BY <2>1 DEF IInv, Attended
  <2>2. CASE req'[r].at \in Processes /\ Accepting(req'[r].at)
    BY <2>2 DEF Accepting
  <2> QED
    BY <2>1, <2>2 DEF Moves
<1> QED
  BY <1>1, <1>2, <1>3

LEMMA Fewer ==
  ASSUME NEW S \in SUBSET Ids, NEW T \in SUBSET S
  PROVE  /\ Cardinality(S) \in Nat /\ Cardinality(T) \in Nat
         /\ Cardinality(T) <= Cardinality(S)
<1>1. IsFiniteSet(Ids)
  BY ServerAssumption
<1>2. IsFiniteSet(S)
  BY <1>1, FS_Subset
<1> QED
  BY <1>2, FS_Subset, FS_CardinalityType

LEMMA OneMore ==
  ASSUME NEW S \in SUBSET Ids, NEW r \in Ids, NEW T \in SUBSET (S \cup {r})
  PROVE  Cardinality(S) \in Nat /\ Cardinality(T) \in Nat /\ Cardinality(T) <= Cardinality(S) + 1
<1>1. IsFiniteSet(S)
  BY ServerAssumption, FS_Subset
<1>2. Cardinality(S \cup {r}) \in {Cardinality(S), Cardinality(S) + 1}
  BY <1>1, FS_AddElement
<1>3. S \cup {r} \in SUBSET Ids
  OBVIOUS
<1>4. Cardinality(T) <= Cardinality(S \cup {r}) /\ Cardinality(T) \in Nat
  BY <1>3, Fewer
<1>5. Cardinality(S) \in Nat
  BY Fewer
<1> QED
  BY <1>2, <1>4, <1>5

LEMMA NoneOfThem == Cardinality({}) = 0
BY FS_EmptySet

(***************************************************************************)
(* The local windows                                                       *)
(***************************************************************************)
\* Nothing new is let through at a process whose window stays.
LEMMA WindowKept ==
  ASSUME TypeOK, NEW p \in Processes, WindowSound(p), UNCHANGED now, window'[p] = window[p],
         \A r \in Ids : KeepsWindow(req[r], req'[r]) \/ req'[r].at # p
  PROVE  WindowSound(p)'
<1>1. Bucket' = Bucket
  BY DEF Bucket
<1>2. \A m, counter, i : Local(p, m, counter, i)' \subseteq Local(p, m, counter, i)
  BY DEF Local, KeepsWindow, CountedFor
<1>3. \A m, counter, i : /\ Cardinality(Local(p, m, counter, i)') \in Nat
                         /\ Cardinality(Local(p, m, counter, i)) \in Nat
                         /\ Cardinality(Local(p, m, counter, i)') <= Cardinality(Local(p, m, counter, i))
  <2> SUFFICES ASSUME NEW m, NEW counter, NEW i
               PROVE  /\ Cardinality(Local(p, m, counter, i)') \in Nat
                      /\ Cardinality(Local(p, m, counter, i)) \in Nat
                      /\ Cardinality(Local(p, m, counter, i)') <= Cardinality(Local(p, m, counter, i))
    OBVIOUS
  <2>1. Local(p, m, counter, i) \in SUBSET Ids
    BY DEF Local
  <2>2. Local(p, m, counter, i)' \in SUBSET Local(p, m, counter, i)
    BY <1>2
  <2> QED
    BY <2>1, <2>2, Fewer
<1>4. \A r \in Ids : req'[r].at = p /\ Entered(req'[r]) => req'[r].window <= window[p].bucket
  BY DEF WindowSound, KeepsWindow
<1>5. ASSUME NEW counter \in Counters, NEW i \in Everyone
      PROVE  /\ Cardinality(Local(p, window[p].bucket, counter, i)') <= At(window[p].used, <<counter, i>>)
             /\ i[1] \in DOMAIN LocalLimit[counter] =>
                  \A m \in 0..Bucket : Cardinality(Local(p, m, counter, i)') <= LocalLimit[counter][i[1]]
  <2>1. At(window[p].used, <<counter, i>>) \in Nat
    BY DEF WindowSound, At
  <2>2. i[1] \in DOMAIN LocalLimit[counter] => LocalLimit[counter][i[1]] \in Nat
    BY LimitsAssumption DEF Counters
  <2>3. /\ Cardinality(Local(p, window[p].bucket, counter, i)) <= At(window[p].used, <<counter, i>>)
        /\ i[1] \in DOMAIN LocalLimit[counter] =>
             \A m \in 0..Bucket : Cardinality(Local(p, m, counter, i)) <= LocalLimit[counter][i[1]]
    BY DEF WindowSound
  <2>4. Cardinality(Local(p, window[p].bucket, counter, i)') <= At(window[p].used, <<counter, i>>)
    BY <1>3, <2>1, <2>3
  <2>5. ASSUME i[1] \in DOMAIN LocalLimit[counter], NEW m \in 0..Bucket
        PROVE  Cardinality(Local(p, m, counter, i)') <= LocalLimit[counter][i[1]]
    <3>1. Cardinality(Local(p, m, counter, i)) <= LocalLimit[counter][i[1]]
      BY <2>3, <2>5
    <3> QED
      BY <1>3, <2>2, <2>5, <3>1
  <2> QED
    BY <2>4, <2>5
<1>6. /\ window'[p] = [bucket |-> window'[p].bucket, used |-> window'[p].used]
      /\ window'[p].bucket \in 0..Bucket' /\ \A x \in DOMAIN window'[p].used : window'[p].used[x] \in Nat
  BY <1>1 DEF WindowSound
<1> QED
  BY <1>1, <1>4, <1>5, <1>6 DEF WindowSound, Local

\* The first request of a minute finds nobody of that minute.
LEMMA TurnedWindow ==
  ASSUME TypeOK, NEW p \in Processes, WindowSound(p)
  PROVE  LET mine == WindowAt(window[p], Bucket)
         IN /\ mine = [bucket |-> Bucket, used |-> mine.used]
            /\ \A x \in DOMAIN mine.used : mine.used[x] \in Nat
            /\ \A counter \in Counters, i \in Everyone :
                 Cardinality(Local(p, Bucket, counter, i)) <= At(mine.used, <<counter, i>>)
<1> DEFINE mine == WindowAt(window[p], Bucket)
<1>1. CASE window[p].bucket = Bucket
  <2>1. mine = window[p]
    BY <1>1 DEF WindowAt
  <2> QED
    BY <1>1, <2>1 DEF WindowSound
<1>2. CASE window[p].bucket # Bucket
  <2>1. mine = [bucket |-> Bucket, used |-> <<>>]
    BY <1>2 DEF WindowAt
  <2>2. mine.used = <<>> /\ mine.bucket = Bucket
    BY <2>1
  <2>3. DOMAIN mine.used = {}
    BY <2>2
  <2>4. window[p].bucket < Bucket
    BY <1>2, BucketIsNat DEF WindowSound
  <2>5. ASSUME NEW r \in Ids, req[r].at = p, Entered(req[r]), req[r].window = Bucket
        PROVE  FALSE
    BY <2>4, <2>5, BucketIsNat DEF WindowSound
  <2>6. \A counter, i : Local(p, Bucket, counter, i) = {}
    BY <2>5 DEF Local
  <2>7. \A counter, i : Cardinality(Local(p, Bucket, counter, i)) <= At(mine.used, <<counter, i>>)
    BY <2>3, <2>6, NoneOfThem DEF At
  <2> QED
    BY <2>1, <2>2, <2>3, <2>7
<1> QED
  BY <1>1, <1>2

\* A window that turns to the minute it is, with nobody let through.
LEMMA WindowTurned ==
  ASSUME TypeOK, NEW p \in Processes, WindowSound(p), UNCHANGED now,
         \A r \in Ids : req[r].window \in Nat,
         window'[p] = WindowAt(window[p], Bucket),
         \A r \in Ids : KeepsWindow(req[r], req'[r]) \/ req'[r].at # p
  PROVE  WindowSound(p)'
<1> DEFINE mine == WindowAt(window[p], Bucket)
<1>0. PICK n : n = Bucket
  OBVIOUS
<1>1. Bucket' = Bucket /\ Bucket \in Nat
  BY BucketIsNat DEF Bucket
<1>2. /\ mine = [bucket |-> Bucket, used |-> mine.used]
      /\ \A x \in DOMAIN mine.used : mine.used[x] \in Nat
      /\ \A counter \in Counters, i \in Everyone :
           Cardinality(Local(p, Bucket, counter, i)) <= At(mine.used, <<counter, i>>)
  BY TurnedWindow
<1> HIDE DEF mine
<1>3. window'[p] = mine
  BY DEF mine
<1>4. mine.bucket = Bucket
  BY <1>2
<1>5. \A m, counter, i : Local(p, m, counter, i)' \subseteq Local(p, m, counter, i)
  BY DEF Local, KeepsWindow, CountedFor
<1>6. \A r \in Ids : req'[r].at = p /\ Entered(req'[r]) => req'[r].window <= Bucket
  <2> SUFFICES ASSUME NEW r \in Ids, req'[r].at = p, Entered(req'[r])
               PROVE  req'[r].window <= Bucket
    OBVIOUS
  <2>1. req[r].at = p /\ Entered(req[r]) /\ req'[r].window = req[r].window
    BY DEF KeepsWindow
  <2>2. \/ req[r].window <= window[p].bucket
        \/ ~(req[r].at = p /\ Entered(req[r]))
    BY DEF WindowSound
  <2>3. window[p].bucket \in 0..Bucket
    BY DEF WindowSound
  <2> QED
    BY <1>1, <2>1, <2>2, <2>3
<1>7. ASSUME NEW counter \in Counters, NEW i \in Everyone
      PROVE  /\ Cardinality(Local(p, n, counter, i)') <= At(mine.used, <<counter, i>>)
             /\ i[1] \in DOMAIN LocalLimit[counter] =>
                  \A m \in 0..Bucket : Cardinality(Local(p, m, counter, i)') <= LocalLimit[counter][i[1]]
  <2>1. ASSUME NEW m
        PROVE  /\ Cardinality(Local(p, m, counter, i)) \in Nat
               /\ Cardinality(Local(p, m, counter, i)') \in Nat
               /\ Cardinality(Local(p, m, counter, i)') <= Cardinality(Local(p, m, counter, i))
    <3>1. Local(p, m, counter, i) \in SUBSET Ids
      BY DEF Local
    <3>2. Local(p, m, counter, i)' \in SUBSET Local(p, m, counter, i)
      BY <1>5
    <3> QED
      BY <3>1, <3>2, Fewer
  <2>2. At(mine.used, <<counter, i>>) \in Nat
    BY <1>2 DEF At
  <2>3. Cardinality(Local(p, n, counter, i)') <= At(mine.used, <<counter, i>>)
    BY <1>0, <1>2, <2>1, <2>2
  <2>4. ASSUME i[1] \in DOMAIN LocalLimit[counter], NEW m \in 0..Bucket
        PROVE  Cardinality(Local(p, m, counter, i)') <= LocalLimit[counter][i[1]]
    <3>1. Cardinality(Local(p, m, counter, i)) <= LocalLimit[counter][i[1]]
      BY <2>4 DEF WindowSound
    <3>2. LocalLimit[counter][i[1]] \in Nat
      BY <2>4, LimitsAssumption DEF Counters
    <3> QED
      BY <2>1, <3>1, <3>2
  <2> QED
    BY <2>3, <2>4
<1>8. window'[p].bucket = Bucket
  BY <1>3, <1>4
<1>9. /\ window'[p] = [bucket |-> window'[p].bucket, used |-> window'[p].used]
      /\ window'[p].bucket \in 0..Bucket' /\ \A x \in DOMAIN window'[p].used : window'[p].used[x] \in Nat
  BY <1>1, <1>2, <1>3, <1>8
<1> QED
  BY <1>0, <1>1, <1>3, <1>6, <1>7, <1>8, <1>9 DEF WindowSound, Local

\* What is charged is counted once more.
LEMMA ChargeFacts ==
  ASSUME NEW w, w = [bucket |-> w.bucket, used |-> w.used], NEW counter, NEW ids,
         \A x \in DOMAIN w.used : w.used[x] \in Nat
  PROVE  LET charged == Charge(w, counter, ids)
         IN /\ charged = [bucket |-> w.bucket, used |-> charged.used]
            /\ \A x \in DOMAIN charged.used : charged.used[x] \in Nat
            /\ \A i \in ids : At(charged.used, <<counter, i>>) = At(w.used, <<counter, i>>) + 1
            /\ \A c, i : c # counter \/ i \notin ids =>
                 At(charged.used, <<c, i>>) = At(w.used, <<c, i>>)
<1> DEFINE X == {<<counter, i>> : i \in ids}
           u == [x \in DOMAIN w.used \cup X |-> IF x \in X THEN At(w.used, x) + 1 ELSE w.used[x]]
<1>1. Charge(w, counter, ids) = [w EXCEPT !.used = u]
  BY DEF Charge, With
<1>2. Charge(w, counter, ids) = [bucket |-> w.bucket, used |-> u]
  BY <1>1
<1>3. Charge(w, counter, ids).used = u
  BY <1>2
<1>4. \A x : At(w.used, x) \in Nat
  BY DEF At
<1>5. \A x \in DOMAIN u : u[x] \in Nat
  BY <1>4
<1>6. \A i \in ids : At(u, <<counter, i>>) = At(w.used, <<counter, i>>) + 1
  BY DEF At
<1>7. ASSUME NEW c, NEW i, c # counter \/ i \notin ids
      PROVE  At(u, <<c, i>>) = At(w.used, <<c, i>>)
  <2>1. <<c, i>> \notin X
    BY <1>7
  <2> QED
    BY <2>1 DEF At
<1> QED
  BY <1>2, <1>3, <1>5, <1>6, <1>7

\* One request is let through, and was not denied.
LEMMA WindowCharged ==
  ASSUME TypeOK, NEW p \in Processes, WindowSound(p), UNCHANGED now,
         \A s \in Ids : req[s].window \in Nat,
         NEW r \in Ids, NEW counter \in Counters, NEW ids,
         ~LocallyDenied(WindowAt(window[p], Bucket), counter, ids),
         window'[p] = Charge(WindowAt(window[p], Bucket), counter, ids),
         \A s \in Ids \ {r} : KeepsWindow(req[s], req'[s]),
         req'[r].window = Bucket,
         \A c, i : CountedFor(req'[r], c, i) => c = counter /\ i \in ids
  PROVE  WindowSound(p)'
<1> DEFINE mine == WindowAt(window[p], Bucket)
           charged == Charge(mine, counter, ids)
<1>0. PICK n : n = Bucket
  OBVIOUS
<1>1. Bucket' = Bucket /\ Bucket \in Nat
  BY BucketIsNat DEF Bucket
<1>2. /\ mine = [bucket |-> Bucket, used |-> mine.used]
      /\ \A x \in DOMAIN mine.used : mine.used[x] \in Nat
      /\ \A c \in Counters, i \in Everyone :
           Cardinality(Local(p, Bucket, c, i)) <= At(mine.used, <<c, i>>)
  BY TurnedWindow
<1>3. \A i \in ids : ~(At(mine.used, <<counter, i>>) >= LocalLimit[counter][i[1]])
  BY DEF LocallyDenied
<1> HIDE DEF mine
<1>4. mine.bucket = Bucket
  BY <1>2
<1>5. /\ charged = [bucket |-> Bucket, used |-> charged.used]
      /\ \A x \in DOMAIN charged.used : charged.used[x] \in Nat
      /\ \A i \in ids : At(charged.used, <<counter, i>>) = At(mine.used, <<counter, i>>) + 1
      /\ \A c, i : c # counter \/ i \notin ids => At(charged.used, <<c, i>>) = At(mine.used, <<c, i>>)
  BY <1>2, <1>4, ChargeFacts
<1>6. window'[p] = charged
  BY DEF mine
<1> HIDE DEF charged
<1>7. window'[p].bucket = Bucket
  BY <1>5, <1>6
<1>8. \A s \in Ids : req'[s].at = p /\ Entered(req'[s]) => req'[s].window <= Bucket
  <2> SUFFICES ASSUME NEW s \in Ids \ {r}, req'[s].at = p, Entered(req'[s])
               PROVE  req'[s].window <= Bucket
    BY <1>1
  <2>1. req[s].at = p /\ Entered(req[s]) /\ req'[s].window = req[s].window
    BY DEF KeepsWindow
  <2>2. req[s].window <= window[p].bucket \/ ~(req[s].at = p /\ Entered(req[s]))
    BY DEF WindowSound
  <2>3. window[p].bucket \in 0..Bucket
    BY DEF WindowSound
  <2> QED
    BY <1>1, <2>1, <2>2, <2>3
<1>9. \A m, c, i : Local(p, m, c, i)' \subseteq Local(p, m, c, i) \cup {r}
  BY DEF Local, KeepsWindow, CountedFor
<1>10. \A m, c, i : m # Bucket \/ c # counter \/ i \notin ids =>
         Local(p, m, c, i)' \subseteq Local(p, m, c, i)
  BY DEF Local, KeepsWindow, CountedFor
<1>11. ASSUME NEW m, NEW c, NEW i
       PROVE  /\ Cardinality(Local(p, m, c, i)) \in Nat /\ Cardinality(Local(p, m, c, i)') \in Nat
              /\ Cardinality(Local(p, m, c, i)') <= Cardinality(Local(p, m, c, i)) + 1
              /\ m # Bucket \/ c # counter \/ i \notin ids =>
                   Cardinality(Local(p, m, c, i)') <= Cardinality(Local(p, m, c, i))
  <2>1. Local(p, m, c, i) \in SUBSET Ids
    BY DEF Local
  <2>2. Local(p, m, c, i)' \in SUBSET (Local(p, m, c, i) \cup {r})
    BY <1>9
  <2>3. m # Bucket \/ c # counter \/ i \notin ids =>
          Local(p, m, c, i)' \in SUBSET Local(p, m, c, i)
    BY <1>10
  <2>4. /\ Cardinality(Local(p, m, c, i)) \in Nat /\ Cardinality(Local(p, m, c, i)') \in Nat
        /\ Cardinality(Local(p, m, c, i)') <= Cardinality(Local(p, m, c, i)) + 1
    BY <2>1, <2>2, OneMore
  <2>5. m # Bucket \/ c # counter \/ i \notin ids =>
          Cardinality(Local(p, m, c, i)') <= Cardinality(Local(p, m, c, i))
    BY <2>1, <2>3, Fewer
  <2> QED
    BY <2>4, <2>5
<1>12. ASSUME NEW c \in Counters, NEW i \in Everyone
       PROVE  /\ Cardinality(Local(p, n, c, i)') <= At(charged.used, <<c, i>>)
              /\ i[1] \in DOMAIN LocalLimit[c] =>
                   \A m \in 0..Bucket : Cardinality(Local(p, m, c, i)') <= LocalLimit[c][i[1]]
  <2>1. At(mine.used, <<c, i>>) \in Nat /\ Cardinality(Local(p, Bucket, c, i)) <= At(mine.used, <<c, i>>)
    BY <1>2 DEF At
  <2>2. CASE c = counter /\ i \in ids
    <3>1. At(charged.used, <<c, i>>) = At(mine.used, <<c, i>>) + 1
      BY <1>5, <2>2
    <3>2. Cardinality(Local(p, n, c, i)') <= At(mine.used, <<c, i>>) + 1
      BY <1>0, <1>11, <2>1
    <3>3. ASSUME i[1] \in DOMAIN LocalLimit[c], NEW m \in 0..Bucket
          PROVE  Cardinality(Local(p, m, c, i)') <= LocalLimit[c][i[1]]
      <4>1. LocalLimit[c][i[1]] \in Nat
        BY <3>3, LimitsAssumption DEF Counters
      <4>2. At(mine.used, <<c, i>>) + 1 <= LocalLimit[c][i[1]]
        BY <1>3, <2>1, <2>2, <4>1
      <4>3. CASE m = Bucket
        BY <1>0, <1>11, <2>1, <3>2, <4>1, <4>2, <4>3
      <4>4. CASE m # Bucket
        <5>1. Cardinality(Local(p, m, c, i)) <= LocalLimit[c][i[1]]
          BY <3>3 DEF WindowSound
        <5> QED
          BY <1>0, <1>11, <4>1, <4>4, <5>1
      <4> QED
        BY <4>3, <4>4
    <3> QED
      BY <3>1, <3>2, <3>3
  <2>3. CASE ~(c = counter /\ i \in ids)
    <3>1. At(charged.used, <<c, i>>) = At(mine.used, <<c, i>>)
      BY <1>5, <2>3
    <3>2. Cardinality(Local(p, n, c, i)') <= At(mine.used, <<c, i>>)
      BY <1>0, <1>11, <2>1, <2>3
    <3>3. ASSUME i[1] \in DOMAIN LocalLimit[c], NEW m \in 0..Bucket
          PROVE  Cardinality(Local(p, m, c, i)') <= LocalLimit[c][i[1]]
      <4>1. LocalLimit[c][i[1]] \in Nat
        BY <3>3, LimitsAssumption DEF Counters
      <4>2. Cardinality(Local(p, m, c, i)) <= LocalLimit[c][i[1]]
        BY <3>3 DEF WindowSound
      <4> QED
        BY <1>11, <2>3, <4>1, <4>2
    <3> QED
      BY <3>1, <3>2, <3>3
  <2> QED
    BY <2>2, <2>3
<1>13. /\ window'[p] = [bucket |-> window'[p].bucket, used |-> window'[p].used]
       /\ window'[p].bucket \in 0..Bucket' /\ \A x \in DOMAIN window'[p].used : window'[p].used[x] \in Nat
  BY <1>1, <1>5, <1>6, <1>7
<1> QED
  BY <1>0, <1>1, <1>6, <1>7, <1>8, <1>12, <1>13 DEF WindowSound, Local

(***************************************************************************)
(* Redis                                                                   *)
(***************************************************************************)
\* What the script counts a request for, it counts once more.
LEMMA ScriptFacts ==
  ASSUME TypeOK, CountersSound(limiter), NEW counter, NEW ids
  PROVE  LET result == Script(limiter, now, counter, ids)
             used(i) == At(limiter.count, <<Bucket, counter, i>>)
         IN /\ CountersSound(result.limiter)
            /\ ~result.admitted => /\ result.limiter.count = limiter.count
                                   /\ result.limiter.until = limiter.until
            /\ result.admitted =>
                 /\ \A i \in ids : ~usedUp(used(i), SharedLimit[counter][i[1]])
                 /\ \A i \in ids : At(result.limiter.count, <<Bucket, counter, i>>) = used(i) + 1
                 /\ \A m, c, i : m # Bucket \/ c # counter \/ i \notin ids =>
                      At(result.limiter.count, <<m, c, i>>) = At(limiter.count, <<m, c, i>>)
<1> DEFINE result == Script(limiter, now, counter, ids)
           keys == LimiterKeys(counter, ids, now)
           lives(k) == IF k \in Live(limiter.until, now) THEN limiter.count[k] ELSE 0
           needed == {k \in keys : lives(k) = 0}
           known == Keep(limiter.registry, Live(limiter.registry, now))
           over == \E k \in keys : usedUp(lives(k), SharedLimit[counter][k[3][1]])
           full == Cardinality(DOMAIN known) + Cardinality(needed) > MaximumKeys - 2
           more(k) == lives(k) + 1
           expiry(k) == now + KeyLife
           counts == With(limiter.count, keys, more)
           untils == With(limiter.until, keys, expiry)
           registered == With(known, keys, expiry)
           next == [count |-> counts, until |-> untils, registry |-> registered]
<1>1. result = IF over THEN [admitted |-> FALSE, limiter |-> limiter]
               ELSE IF full THEN [admitted |-> FALSE, limiter |-> [limiter EXCEPT !.registry = known]]
               ELSE [admitted |-> TRUE, limiter |-> next]
  BY DEF Script
<1>2. now \in Nat /\ Bucket \in Nat /\ KeyLife \in Nat /\ KeyLife > Minute /\ Minute \in Nat
  BY BucketIsNat, LimiterAssumption
<1>3. Minute * Bucket <= now /\ now < Minute * (Bucket + 1)
  BY <1>2, MinuteOf DEF Bucket
<1>4. keys = {<<Bucket, counter, i>> : i \in ids}
  BY DEF LimiterKeys, Bucket
<1>5. \A k \in keys : k[1] = Bucket /\ \E i \in ids : k = <<Bucket, counter, i>>
  BY <1>4
<1>6. \A k \in keys : lives(k) = At(limiter.count, k) /\ lives(k) \in Nat
  <2> SUFFICES ASSUME NEW k \in keys PROVE lives(k) = At(limiter.count, k) /\ lives(k) \in Nat
    OBVIOUS
  <2>1. CASE k \in DOMAIN limiter.until
    <3>1. /\ limiter.until[k] \in Nat /\ limiter.count[k] \in Nat
          /\ Minute * (Bucket + 1) <= limiter.until[k] /\ k \in DOMAIN limiter.count
      BY <1>5, <2>1 DEF CountersSound
    <3>2. Minute * (Bucket + 1) \in Nat
      BY <1>2
    <3>3. limiter.until[k] > now
      BY <1>2, <1>3, <3>1, <3>2
    <3>4. k \in Live(limiter.until, now)
      BY <2>1, <3>3 DEF Live
    <3> QED
      BY <3>1, <3>4 DEF At
  <2>2. CASE k \notin DOMAIN limiter.until
    <3>1. k \notin Live(limiter.until, now) /\ k \notin DOMAIN limiter.count
      BY <2>2 DEF Live, CountersSound
    <3> QED
      BY <3>1 DEF At
  <2> QED
    BY <2>1, <2>2
<1>7. /\ DOMAIN counts = DOMAIN limiter.count \cup keys
      /\ \A k \in keys : counts[k] = lives(k) + 1
      /\ \A k \in DOMAIN limiter.count \ keys : counts[k] = limiter.count[k]
  BY DEF With
<1>8. /\ DOMAIN untils = DOMAIN limiter.until \cup keys
      /\ \A k \in keys : untils[k] = now + KeyLife
      /\ \A k \in DOMAIN limiter.until \ keys : untils[k] = limiter.until[k]
  BY DEF With
<1>0. \A k \in keys : ~over => ~usedUp(lives(k), SharedLimit[counter][k[3][1]])
  OBVIOUS
<1> HIDE DEF keys, lives, result, over, full, known, counts, untils, registered
<1> DEFINE used(i) == At(limiter.count, <<Bucket, counter, i>>)
<1> SUFFICES
      /\ CountersSound(result.limiter)
      /\ ~result.admitted => /\ result.limiter.count = limiter.count
                             /\ result.limiter.until = limiter.until
      /\ result.admitted =>
           /\ \A i \in ids : ~usedUp(used(i), SharedLimit[counter][i[1]])
           /\ \A i \in ids : At(result.limiter.count, <<Bucket, counter, i>>) = used(i) + 1
           /\ \A m, c, i : m # Bucket \/ c # counter \/ i \notin ids =>
                At(result.limiter.count, <<m, c, i>>) = At(limiter.count, <<m, c, i>>)
  BY Zenon DEF result
<1>9. CASE over
  <2>1. result.admitted = FALSE /\ result.limiter = limiter
    BY <1>1, <1>9
  <2> QED
    BY <2>1
<1>10. CASE ~over /\ full
  <2>1. result.admitted = FALSE /\ result.limiter = [limiter EXCEPT !.registry = known]
    BY <1>1, <1>10
  <2>2. /\ limiter = [count |-> limiter.count, until |-> limiter.until, registry |-> limiter.registry]
    BY DEF CountersSound
  <2>3. [limiter EXCEPT !.registry = known] =
          [count |-> limiter.count, until |-> limiter.until, registry |-> known]
    BY <2>2
  <2>4. /\ result.limiter = [count |-> limiter.count, until |-> limiter.until, registry |-> known]
    BY <2>1, <2>3
  <2>5. /\ result.limiter.count = limiter.count /\ result.limiter.until = limiter.until
        /\ result.limiter.registry = known
    BY <2>4
  <2>6. CountersSound(result.limiter)
    BY <2>4, <2>5 DEF CountersSound
  <2> QED
    BY <2>1, <2>5, <2>6
<1>11. CASE ~over /\ ~full
  <2>1. result.admitted = TRUE /\ result.limiter = next
    BY <1>1, <1>11
  <2>2. \A k \in keys : ~usedUp(lives(k), SharedLimit[counter][k[3][1]])
    BY <1>0, <1>11
  <2>3. \A i \in ids : <<Bucket, counter, i>> \in keys
    BY <1>4
  <2>4. \A i \in ids : <<Bucket, counter, i>>[3][1] = i[1]
    OBVIOUS
  <2>5. ASSUME NEW i \in ids
        PROVE  ~usedUp(At(limiter.count, <<Bucket, counter, i>>), SharedLimit[counter][i[1]])
    <3>1. <<Bucket, counter, i>> \in keys
      BY <2>3
    <3>2. ~usedUp(lives(<<Bucket, counter, i>>), SharedLimit[counter][i[1]])
      BY <2>2, <2>4, <3>1
    <3> QED
      BY <1>6, <3>1, <3>2
  <2>6. /\ result.limiter.count = counts /\ result.limiter.until = untils
        /\ result.limiter.registry = registered
    BY <2>1
  <2>7. result.limiter = [count |-> result.limiter.count, until |-> result.limiter.until,
                          registry |-> result.limiter.registry]
    BY <2>1, <2>6
  <2>8. ASSUME NEW i \in ids
        PROVE  At(result.limiter.count, <<Bucket, counter, i>>) =
                 At(limiter.count, <<Bucket, counter, i>>) + 1
    <3>1. <<Bucket, counter, i>> \in keys
      BY <2>3
    <3>2. result.limiter.count[<<Bucket, counter, i>>] = lives(<<Bucket, counter, i>>) + 1
      BY <1>7, <2>6, <3>1
    <3>3. <<Bucket, counter, i>> \in DOMAIN result.limiter.count
      BY <1>7, <2>6, <3>1
    <3>4. lives(<<Bucket, counter, i>>) = At(limiter.count, <<Bucket, counter, i>>)
      BY <1>6, <3>1
    <3>5. At(result.limiter.count, <<Bucket, counter, i>>) = result.limiter.count[<<Bucket, counter, i>>]
      BY <3>3 DEF At
    <3> QED
      BY <3>2, <3>4, <3>5
  <2>9. ASSUME NEW m, NEW c, NEW i, m # Bucket \/ c # counter \/ i \notin ids
        PROVE  At(result.limiter.count, <<m, c, i>>) = At(limiter.count, <<m, c, i>>)
    <3>1. <<m, c, i>> \notin keys
      BY <1>4, <2>9
    <3> QED
      BY <1>7, <2>6, <3>1 DEF At
  <2>10. DOMAIN result.limiter.count = DOMAIN result.limiter.until
    BY <1>7, <1>8, <2>6 DEF CountersSound
  <2>11. ASSUME NEW k \in DOMAIN result.limiter.until
         PROVE  /\ result.limiter.count[k] \in Nat /\ result.limiter.until[k] \in Nat
                /\ k[1] \in Nat /\ Minute * (k[1] + 1) <= result.limiter.until[k]
    <3>1. CASE k \in keys
      <4>1. k[1] = Bucket /\ lives(k) \in Nat
        BY <1>5, <1>6, <3>1
      <4>2. result.limiter.count[k] = lives(k) + 1 /\ result.limiter.until[k] = now + KeyLife
        BY <1>7, <1>8, <2>6, <3>1
      <4>3. Minute * (Bucket + 1) = Minute * Bucket + Minute /\ Minute * Bucket \in Nat
        BY <1>2
      <4>4. Minute * (Bucket + 1) <= now + KeyLife
        BY <1>2, <1>3, <4>3
      <4> QED
        BY <1>2, <4>1, <4>2, <4>4
    <3>2. CASE k \notin keys
      <4>1. k \in DOMAIN limiter.until /\ k \in DOMAIN limiter.count
        BY <1>8, <2>6, <3>2 DEF CountersSound
      <4>2. result.limiter.count[k] = limiter.count[k] /\ result.limiter.until[k] = limiter.until[k]
        BY <1>7, <1>8, <2>6, <3>2, <4>1
      <4> QED
        BY <4>1, <4>2 DEF CountersSound
    <3> QED
      BY <3>1, <3>2
  <2>12. CountersSound(result.limiter)
    BY <2>7, <2>10, <2>11 DEF CountersSound
  <2> QED
    BY <2>1, <2>5, <2>8, <2>9, <2>12
<1> QED
  BY <1>9, <1>10, <1>11

\* The script lets nobody through: its counts can only grow.
LEMMA CountersKept ==
  ASSUME TypeOK, SharedSound, UNCHANGED now, CountersSound(limiter'),
         \A m, c, i : At(limiter.count, <<m, c, i>>) <= At(limiter'.count, <<m, c, i>>),
         \A r \in Ids : KeepsVerdict(req[r], req'[r])
  PROVE  SharedSound'
<1>0. PICK n : n = Bucket
  OBVIOUS
<1>1. Bucket' = Bucket /\ Bucket \in Nat
  BY BucketIsNat DEF Bucket
<1>2. \A m, counter, i : Allowed(m, counter, i)' \subseteq Allowed(m, counter, i)
  BY DEF Allowed, KeepsVerdict, CountedFor
<1>3. ASSUME NEW m, NEW counter, NEW i
      PROVE  /\ Cardinality(Allowed(m, counter, i)') \in Nat
             /\ Cardinality(Allowed(m, counter, i)) \in Nat
             /\ Cardinality(Allowed(m, counter, i)') <= Cardinality(Allowed(m, counter, i))
  <2>1. Allowed(m, counter, i) \in SUBSET Ids
    BY DEF Allowed
  <2>2. Allowed(m, counter, i)' \in SUBSET Allowed(m, counter, i)
    BY <1>2
  <2> QED
    BY <2>1, <2>2, Fewer
<1>4. \A r \in Ids : req'[r].verdict = "allowed" => req'[r].bucket <= Bucket
  BY DEF SharedSound, KeepsVerdict
<1>5. ASSUME NEW counter \in Counters, NEW i \in Everyone
      PROVE  /\ Cardinality(Allowed(n, counter, i)') <= At(limiter'.count, <<n, counter, i>>)
             /\ i[1] \in DOMAIN SharedLimit[counter] =>
                  \A m \in 0..Bucket : Cardinality(Allowed(m, counter, i)') <= SharedLimit[counter][i[1]]
  <2>0. At(limiter'.count, <<n, counter, i>>) \in Nat
    BY DEF CountersSound, At
  <2>1. /\ At(limiter.count, <<n, counter, i>>) \in Nat
        /\ At(limiter.count, <<n, counter, i>>) <= At(limiter'.count, <<n, counter, i>>)
    BY DEF SharedSound, CountersSound, At
  <2>2. Cardinality(Allowed(n, counter, i)) <= At(limiter.count, <<n, counter, i>>)
    BY <1>0 DEF SharedSound
  <2>3. Cardinality(Allowed(n, counter, i)') <= At(limiter'.count, <<n, counter, i>>)
    BY <1>3, <2>0, <2>1, <2>2
  <2>4. ASSUME i[1] \in DOMAIN SharedLimit[counter], NEW m \in 0..Bucket
        PROVE  Cardinality(Allowed(m, counter, i)') <= SharedLimit[counter][i[1]]
    <3>1. Cardinality(Allowed(m, counter, i)) <= SharedLimit[counter][i[1]]
      BY <2>4 DEF SharedSound
    <3>2. SharedLimit[counter][i[1]] \in Nat
      BY <2>4, LimitsAssumption DEF Counters
    <3> QED
      BY <1>3, <3>1, <3>2
  <2> QED
    BY <2>3, <2>4
<1>6. CountersSound(limiter)'
  BY DEF CountersSound
<1> QED
  BY <1>0, <1>1, <1>4, <1>5, <1>6 DEF SharedSound, Allowed

\* One request more is let through by the script.
LEMMA CountersCharged ==
  ASSUME TypeOK, SharedSound, UNCHANGED now, NEW r \in Ids, NEW counter, NEW ids,
         LET result == Script(limiter, now, counter, ids)
         IN result.admitted /\ limiter' = result.limiter,
         \A s \in Ids \ {r} : KeepsVerdict(req[s], req'[s]),
         req'[r].bucket = Bucket,
         \A c, i : CountedFor(req'[r], c, i) => c = counter /\ i \in ids
  PROVE  SharedSound'
<1>0. PICK n : n = Bucket
  OBVIOUS
<1>1. Bucket' = Bucket /\ Bucket \in Nat
  BY BucketIsNat DEF Bucket
<1>2. /\ CountersSound(limiter')
      /\ \A i \in ids : ~usedUp(At(limiter.count, <<Bucket, counter, i>>), SharedLimit[counter][i[1]])
      /\ \A i \in ids : At(limiter'.count, <<Bucket, counter, i>>) =
                          At(limiter.count, <<Bucket, counter, i>>) + 1
      /\ \A m, c, i : m # Bucket \/ c # counter \/ i \notin ids =>
           At(limiter'.count, <<m, c, i>>) = At(limiter.count, <<m, c, i>>)
  BY ScriptFacts DEF SharedSound
<1>3. \A m, c, i : Allowed(m, c, i)' \subseteq Allowed(m, c, i) \cup {r}
  BY DEF Allowed, KeepsVerdict, CountedFor
<1>4. \A m, c, i : m # Bucket \/ c # counter \/ i \notin ids =>
        Allowed(m, c, i)' \subseteq Allowed(m, c, i)
  BY DEF Allowed, KeepsVerdict, CountedFor
<1>5. ASSUME NEW m, NEW c, NEW i
      PROVE  /\ Cardinality(Allowed(m, c, i)) \in Nat /\ Cardinality(Allowed(m, c, i)') \in Nat
             /\ Cardinality(Allowed(m, c, i)') <= Cardinality(Allowed(m, c, i)) + 1
             /\ m # Bucket \/ c # counter \/ i \notin ids =>
                  Cardinality(Allowed(m, c, i)') <= Cardinality(Allowed(m, c, i))
  <2>1. Allowed(m, c, i) \in SUBSET Ids
    BY DEF Allowed
  <2>2. Allowed(m, c, i)' \in SUBSET (Allowed(m, c, i) \cup {r})
    BY <1>3
  <2>3. m # Bucket \/ c # counter \/ i \notin ids => Allowed(m, c, i)' \in SUBSET Allowed(m, c, i)
    BY <1>4
  <2>4. /\ Cardinality(Allowed(m, c, i)) \in Nat /\ Cardinality(Allowed(m, c, i)') \in Nat
        /\ Cardinality(Allowed(m, c, i)') <= Cardinality(Allowed(m, c, i)) + 1
    BY <2>1, <2>2, OneMore
  <2>5. m # Bucket \/ c # counter \/ i \notin ids =>
          Cardinality(Allowed(m, c, i)') <= Cardinality(Allowed(m, c, i))
    BY <2>1, <2>3, Fewer
  <2> QED
    BY <2>4, <2>5
<1>6. \A s \in Ids : req'[s].verdict = "allowed" => req'[s].bucket <= Bucket
  <2>1. \A s \in Ids \ {r} : req'[s].verdict = "allowed" => req'[s].bucket <= Bucket
    BY DEF SharedSound, KeepsVerdict
  <2> QED
    BY <1>1, <2>1
<1>7. ASSUME NEW c \in Counters, NEW i \in Everyone
      PROVE  /\ Cardinality(Allowed(n, c, i)') <= At(limiter'.count, <<n, c, i>>)
             /\ i[1] \in DOMAIN SharedLimit[c] =>
                  \A m \in 0..Bucket : Cardinality(Allowed(m, c, i)') <= SharedLimit[c][i[1]]
  <2>1. /\ At(limiter.count, <<n, c, i>>) \in Nat
        /\ Cardinality(Allowed(n, c, i)) <= At(limiter.count, <<n, c, i>>)
    BY <1>0 DEF SharedSound, CountersSound, At
  <2>2. CASE c = counter /\ i \in ids
    <3>1. At(limiter'.count, <<n, c, i>>) = At(limiter.count, <<n, c, i>>) + 1
      BY <1>0, <1>2, <2>2
    <3>2. Cardinality(Allowed(n, c, i)') <= At(limiter.count, <<n, c, i>>) + 1
      BY <1>5, <2>1
    <3>3. ASSUME i[1] \in DOMAIN SharedLimit[c], NEW m \in 0..Bucket
          PROVE  Cardinality(Allowed(m, c, i)') <= SharedLimit[c][i[1]]
      <4>1. SharedLimit[c][i[1]] \in Nat
        BY <3>3, LimitsAssumption DEF Counters
      <4>2. At(limiter.count, <<n, c, i>>) + 1 <= SharedLimit[c][i[1]]
        BY <1>0, <1>2, <2>1, <2>2, <4>1 DEF usedUp
      <4>3. CASE m = n
        BY <1>5, <2>1, <3>2, <4>1, <4>2, <4>3
      <4>4. CASE m # n
        <5>1. Cardinality(Allowed(m, c, i)) <= SharedLimit[c][i[1]]
          BY <3>3 DEF SharedSound
        <5> QED
          BY <1>0, <1>5, <4>1, <4>4, <5>1
      <4> QED
        BY <4>3, <4>4
    <3> QED
      BY <3>1, <3>2, <3>3
  <2>3. CASE ~(c = counter /\ i \in ids)
    <3>1. At(limiter'.count, <<n, c, i>>) = At(limiter.count, <<n, c, i>>)
      BY <1>2, <2>3
    <3>2. Cardinality(Allowed(n, c, i)') <= At(limiter.count, <<n, c, i>>)
      BY <1>5, <2>1, <2>3
    <3>3. ASSUME i[1] \in DOMAIN SharedLimit[c], NEW m \in 0..Bucket
          PROVE  Cardinality(Allowed(m, c, i)') <= SharedLimit[c][i[1]]
      <4>1. SharedLimit[c][i[1]] \in Nat
        BY <3>3, LimitsAssumption DEF Counters
      <4>2. Cardinality(Allowed(m, c, i)) <= SharedLimit[c][i[1]]
        BY <3>3 DEF SharedSound
      <4> QED
        BY <1>5, <2>3, <4>1, <4>2
    <3> QED
      BY <3>1, <3>2, <3>3
  <2> QED
    BY <2>2, <2>3
<1>8. CountersSound(limiter)'
  BY <1>2 DEF CountersSound
<1> QED
  BY <1>0, <1>1, <1>6, <1>7, <1>8 DEF SharedSound, Allowed

(***************************************************************************)
(* Time passes                                                             *)
(***************************************************************************)
LEMMA TickIInv == ASSUME IInv, Tick PROVE IInv'
<1>1. /\ UNCHANGED <<life, stage, window, client, req>> /\ now < MaxTick /\ now' = now + 1
      /\ limiter' = Forget(limiter, now')
  BY DEF Tick
<1>2. TypeOK
  BY DEF IInv
<1>3. now \in Nat /\ Bucket \in Nat /\ MaxTick \in Nat
  BY <1>2, BucketIsNat, ServerAssumption
<1>4. now' \in Nat /\ Bucket <= Bucket' /\ Bucket' \in Nat
  BY <1>1, <1>3, MinuteOf DEF Bucket
<1>5. now' < Minute * (Bucket' + 1)
  BY <1>4, MinuteOf DEF Bucket
<1>0. PICK n : n = Bucket'
  OBVIOUS
<1>6. TypeOK'
  <2>1. now' \in 0..MaxTick
    BY <1>1, <1>3
  <2> QED
    BY <1>1, <1>2, <2>1 DEF TypeOK
<1>7. (DOMAIN req = Ids)' /\ (\A r \in Ids : Sound(req[r])') /\ Placed' /\ Attended'
  BY <1>1 DEF IInv, Placed, Of, Attended, Sound
<1>8. ASSUME NEW p \in Processes
      PROVE  WindowSound(p)'
  <2>1. WindowSound(p)
    BY DEF IInv, LocalSound
  <2>2. \A m, counter, i : Local(p, m, counter, i)' = Local(p, m, counter, i)
    BY <1>1 DEF Local
  <2>3. window[p].bucket \in 0..Bucket /\ window[p].bucket \in 0..Bucket'
    BY <1>3, <1>4, <2>1 DEF WindowSound
  <2>4. ASSUME NEW m \in 0..Bucket', m > Bucket, NEW counter, NEW i
        PROVE  Cardinality(Local(p, m, counter, i)) = 0
    <3>1. \A r \in Ids : req[r].at = p /\ Entered(req[r]) => req[r].window <= window[p].bucket
      BY <2>1 DEF WindowSound
    <3>2. \A r \in Ids : req[r].window \in Nat
      BY DEF IInv, Sound, Records
    <3>3. \A r \in Ids : ~(req[r].at = p /\ Entered(req[r]) /\ req[r].window = m)
      BY <1>3, <1>4, <2>3, <2>4, <3>1, <3>2
    <3>4. Local(p, m, counter, i) = {}
      BY <3>3 DEF Local
    <3> QED
      BY <3>4, NoneOfThem
  <2>5. ASSUME NEW counter \in Counters, NEW i \in Everyone
        PROVE  /\ Cardinality(Local(p, window[p].bucket, counter, i)) <= At(window[p].used, <<counter, i>>)
               /\ i[1] \in DOMAIN LocalLimit[counter] =>
                    \A m \in 0..Bucket' : Cardinality(Local(p, m, counter, i)) <= LocalLimit[counter][i[1]]
    <3>1. ASSUME i[1] \in DOMAIN LocalLimit[counter], NEW m \in 0..Bucket'
          PROVE  Cardinality(Local(p, m, counter, i)) <= LocalLimit[counter][i[1]]
      <4>1. LocalLimit[counter][i[1]] \in Nat
        BY <3>1, LimitsAssumption DEF Counters
      <4>2. CASE m \in 0..Bucket
        BY <2>1, <3>1, <4>2 DEF WindowSound
      <4>3. CASE m > Bucket
        BY <2>4, <4>1, <4>3
      <4> QED
        BY <1>3, <1>4, <4>2, <4>3
    <3> QED
      BY <2>1, <3>1 DEF WindowSound
  <2>6. window'[p] = window[p]
    BY <1>1
  <2> QED
    BY <1>1, <2>1, <2>2, <2>3, <2>5, <2>6 DEF WindowSound, Local
<1>9. LocalSound'
  BY <1>1, <1>8 DEF IInv, LocalSound
<1>10. SharedSound'
  <2> DEFINE alive == Live(limiter.until, now')
             counts == Keep(limiter.count, alive)
             untils == Keep(limiter.until, alive)
  <2>1. CountersSound(limiter)
    BY DEF IInv, SharedSound
  <2>2. limiter' = [limiter EXCEPT !.count = counts, !.until = untils]
    BY <1>1 DEF Forget
  <2>3. limiter = [count |-> limiter.count, until |-> limiter.until, registry |-> limiter.registry]
    BY <2>1 DEF CountersSound
  <2>4. /\ DOMAIN counts = DOMAIN limiter.count \cap alive
        /\ DOMAIN untils = DOMAIN limiter.until \cap alive
        /\ \A k \in DOMAIN counts : counts[k] = limiter.count[k]
        /\ \A k \in DOMAIN untils : untils[k] = limiter.until[k]
    BY DEF Keep
  <2>5. \A k \in DOMAIN limiter.until : k[1] = Bucket' => k \in alive
    <3> SUFFICES ASSUME NEW k \in DOMAIN limiter.until, k[1] = Bucket' PROVE k \in alive
      OBVIOUS
    <3>1. limiter.until[k] \in Nat /\ Minute * (Bucket' + 1) <= limiter.until[k]
      BY <2>1 DEF CountersSound
    <3>2. Minute * (n + 1) \in Nat
      BY <1>0, <1>4, MinuteIsNat
    <3>3. limiter.until[k] > now'
      BY <1>0, <1>4, <1>5, <3>1, <3>2
    <3> QED
      BY <3>3 DEF Live
  <2> HIDE DEF alive, counts, untils
  <2>6. limiter' = [count |-> counts, until |-> untils, registry |-> limiter.registry]
    BY <2>2, <2>3
  <2>7. /\ limiter'.count = counts /\ limiter'.until = untils /\ limiter'.registry = limiter.registry
    BY <2>6
  <2>8. CountersSound(limiter')
    BY <2>1, <2>4, <2>6, <2>7 DEF CountersSound
  <2>9. \A m, counter, i : Allowed(m, counter, i)' = Allowed(m, counter, i)
    BY <1>1 DEF Allowed
  <2>10. ASSUME NEW m \in 0..Bucket', m > Bucket, NEW counter, NEW i
         PROVE  Cardinality(Allowed(m, counter, i)) = 0
    <3>1. \A r \in Ids : req[r].verdict = "allowed" => req[r].bucket <= Bucket
      BY DEF IInv, SharedSound
    <3>2. \A r \in Ids : req[r].bucket \in Nat
      BY DEF IInv, Sound, Records
    <3>3. \A r \in Ids : ~(req[r].verdict = "allowed" /\ req[r].bucket = m)
      BY <1>3, <1>4, <2>10, <3>1, <3>2
    <3>4. Allowed(m, counter, i) = {}
      BY <3>3 DEF Allowed
    <3> QED
      BY <3>4, NoneOfThem
  <2>11. ASSUME NEW counter \in Counters, NEW i \in Everyone
         PROVE  /\ Cardinality(Allowed(n, counter, i)) <= At(counts, <<n, counter, i>>)
                /\ i[1] \in DOMAIN SharedLimit[counter] =>
                     \A m \in 0..Bucket' : Cardinality(Allowed(m, counter, i)) <= SharedLimit[counter][i[1]]
    <3>1. Cardinality(Allowed(n, counter, i)) <= At(counts, <<n, counter, i>>)
      <4>1. CASE n = Bucket
        <5>1. Cardinality(Allowed(n, counter, i)) <= At(limiter.count, <<n, counter, i>>)
          BY <4>1 DEF IInv, SharedSound
        <5>2. At(counts, <<n, counter, i>>) = At(limiter.count, <<n, counter, i>>)
          <6>1. CASE <<n, counter, i>> \in DOMAIN limiter.count
            <7>1. <<n, counter, i>> \in alive
              BY <1>0, <2>1, <2>5, <6>1 DEF CountersSound
            <7> QED
              BY <2>4, <6>1, <7>1 DEF At
          <6>2. CASE <<n, counter, i>> \notin DOMAIN limiter.count
            BY <2>4, <6>2 DEF At
          <6> QED
            BY <6>1, <6>2
        <5> QED
          BY <5>1, <5>2
      <4>2. CASE n # Bucket
        <5>1. Cardinality(Allowed(n, counter, i)) = 0
          BY <1>0, <1>3, <1>4, <2>10, <4>2
        <5>2. At(counts, <<n, counter, i>>) \in Nat
          BY <2>1, <2>4 DEF At, CountersSound
        <5> QED
          BY <5>1, <5>2
      <4> QED
        BY <4>1, <4>2
    <3>2. ASSUME i[1] \in DOMAIN SharedLimit[counter], NEW m \in 0..Bucket'
          PROVE  Cardinality(Allowed(m, counter, i)) <= SharedLimit[counter][i[1]]
      <4>1. SharedLimit[counter][i[1]] \in Nat
        BY <3>2, LimitsAssumption DEF Counters
      <4>2. CASE m \in 0..Bucket
        BY <3>2, <4>2 DEF IInv, SharedSound
      <4>3. CASE m > Bucket
        BY <2>10, <4>1, <4>3
      <4> QED
        BY <1>3, <1>4, <4>2, <4>3
    <3> QED
      BY <3>1, <3>2
  <2>12. \A r \in Ids : req'[r].verdict = "allowed" => req'[r].bucket <= Bucket'
    <3> SUFFICES ASSUME NEW r \in Ids, req[r].verdict = "allowed" PROVE req[r].bucket <= Bucket'
      BY <1>1
    <3>1. req[r].bucket <= Bucket /\ req[r].bucket \in Nat
      BY DEF IInv, SharedSound, Sound, Records
    <3> QED
      BY <1>3, <1>4, <3>1
  <2>13. CountersSound(limiter)'
    BY <2>8 DEF CountersSound
  <2>14. ASSUME NEW counter \in Counters, NEW i \in Everyone
         PROVE  /\ Cardinality(Allowed(n, counter, i)') <= At(limiter'.count, <<n, counter, i>>)
                /\ i[1] \in DOMAIN SharedLimit[counter] =>
                     \A m \in 0..Bucket' : Cardinality(Allowed(m, counter, i)') <= SharedLimit[counter][i[1]]
    BY <2>7, <2>9, <2>11
  <2> QED
    BY <1>0, <2>12, <2>13, <2>14 DEF SharedSound, Allowed
<1> QED
  BY <1>6, <1>7, <1>9, <1>10 DEF IInv

(***************************************************************************)
(* Requests on their way                                                   *)
(***************************************************************************)
ClientsOK == client \in [Processes -> [st : {"none", "connecting", "ready"}, promise : BOOLEAN]]

\* The request moves, and is let through nowhere it was not.
Quiet(this, next) == Moves(this, next) /\ KeepsWindow(this, next) /\ KeepsVerdict(this, next)

LEMMA QuietSame == ASSUME NEW this, Sound(this) PROVE Quiet(this, this)
BY DEF Quiet, Moves, KeepsWindow, KeepsVerdict

LEMMA QuietTwice ==
  ASSUME NEW this, NEW next, NEW last, Quiet(this, next), Quiet(next, last)
  PROVE  Quiet(this, last)
<1>1. Moves(this, last)
  BY DEF Quiet, Moves
<1>2. KeepsWindow(this, last) /\ KeepsVerdict(this, last)
  BY DEF Quiet, KeepsWindow, KeepsVerdict
<1> QED
  BY <1>1, <1>2 DEF Quiet

LEMMA WindowsKept ==
  ASSUME IInv, UNCHANGED <<now, window>>, \A r \in Ids : KeepsWindow(req[r], req'[r])
  PROVE  LocalSound'
<1>1. \A p \in Processes : WindowSound(p)'
  BY WindowKept DEF IInv, LocalSound
<1> QED
  BY <1>1 DEF IInv, LocalSound

LEMMA LimiterKept ==
  ASSUME IInv, UNCHANGED <<now, limiter>>, \A r \in Ids : KeepsVerdict(req[r], req'[r])
  PROVE  SharedSound'
<1>1. CountersSound(limiter')
  BY DEF IInv, SharedSound
<1>2. \A m, c, i : At(limiter.count, <<m, c, i>>) \in Nat
  BY DEF IInv, SharedSound, CountersSound, At
<1>3. \A m, c, i : At(limiter.count, <<m, c, i>>) <= At(limiter'.count, <<m, c, i>>)
  <2>1. limiter' = limiter
    OBVIOUS
  <2>2. ASSUME NEW m, NEW c, NEW i
        PROVE  At(limiter.count, <<m, c, i>>) <= At(limiter.count, <<m, c, i>>)
    <3>1. At(limiter.count, <<m, c, i>>) \in Nat
      BY <1>2
    <3> QED
      BY <3>1
  <2> QED
    BY <2>1, <2>2
<1> QED
  BY <1>1, <1>3, CountersKept DEF IInv

\* Types, with the requests sound.
LEMMA TypesMove ==
  ASSUME TypeOK, UNCHANGED <<now, life, stage>>, ClientsOK', \A r \in Ids : Sound(req[r])'
  PROVE  TypeOK'
<1>1. \A r \in Ids : req'[r] \in Records
  BY DEF Sound
<1>2. \A r \in Ids :
        /\ req'[r].pc \in {"unsent", "done"} \cup Working
        /\ req'[r].answer \in {"none", "success", "cut"} \cup Codes
        /\ req'[r].conn \in {"none", "open", "delivered", "cut"}
        /\ req'[r].verdict \in {"none", "allowed", "denied", "degraded"}
  BY <1>1 DEF Records
<1> QED
  BY <1>2 DEF TypeOK, ClientsOK

\* Nobody new is let through, locally or by Redis.
LEMMA QuietStep ==
  ASSUME IInv, UNCHANGED <<now, life, stage, window, limiter>>, DOMAIN req' = Ids, ClientsOK',
         \A r \in Ids : Quiet(req[r], req'[r])
  PROVE  IInv'
<1>1. (\A r \in Ids : Sound(req[r])') /\ Placed' /\ Attended'
  BY RequestsMove DEF Quiet
<1>2. LocalSound' /\ SharedSound'
  BY WindowsKept, LimiterKept DEF Quiet
<1>3. TypeOK'
  BY <1>1, TypesMove DEF IInv
<1> QED
  BY <1>1, <1>2, <1>3 DEF IInv

LEMMA SetFacts ==
  ASSUME IInv, NEW r \in Ids, NEW next, Set(r, next)
  PROVE  /\ DOMAIN req' = Ids /\ req'[r] = next
         /\ \A s \in Ids \ {r} : req'[s] = req[s] /\ Quiet(req[s], req'[s])
BY QuietSame DEF IInv, Set

LEMMA SetStep ==
  ASSUME IInv, NEW r \in Ids, NEW next, Set(r, next), Quiet(req[r], next),
         UNCHANGED <<now, life, stage, window, limiter>>, ClientsOK'
  PROVE  IInv'
<1>1. DOMAIN req' = Ids /\ \A s \in Ids : Quiet(req[s], req'[s])
  BY SetFacts
<1> QED
  BY <1>1, QuietStep

\* A request under way goes on, with the verdict it has or without one.
LEMMA GoesOn ==
  ASSUME NEW this, Sound(this), this.pc \in Working, NEW next \in Records,
         SameRequest(this, next), next.pc \in {"done"} \cup Working,
         next.verdict = this.verdict \/ (Entered(this) /\ next.verdict # "allowed"),
         next.pc \in {"connecting", "command", "lost"} => Entered(this)
  PROVE  Quiet(this, next)
<1>1. ~this.committed /\ this.at \in Processes
  BY DEF Sound, Working
<1>2. Sound(next)
  BY <1>1 DEF Sound, SameRequest
<1>3. Moves(this, next)
  BY <1>2 DEF Moves, SameRequest
<1>4. Entered(next) => Entered(this)
  BY DEF Entered
<1>5. KeepsWindow(this, next)
  BY <1>4 DEF KeepsWindow, SameRequest
<1>6. KeepsVerdict(this, next)
  BY DEF KeepsVerdict, SameRequest
<1> QED
  BY <1>3, <1>5, <1>6 DEF Quiet

LEMMA AnswerQuiet ==
  ASSUME NEW this, Sound(this), this.pc \in Working, NEW code \in {"success"} \cup Codes
  PROVE  Quiet(this, Answer(this, code))
<1>1. this \in Records
  BY DEF Sound
<1>2. /\ Answer(this, code) \in Records /\ SameRequest(this, Answer(this, code))
      /\ Answer(this, code).pc = "done" /\ Answer(this, code).verdict = this.verdict
  BY <1>1, AnswerFacts
<1>3. Answer(this, code).pc \notin {"connecting", "command", "lost"}
  BY <1>2
<1> QED
  BY <1>2, <1>3, GoesOn

LEMMA ContinuesQuiet ==
  ASSUME NEW this, Sound(this), this.pc \in Working, NEW next, Continues(this, next)
  PROVE  Quiet(this, next)
<1>1. /\ next \in Records /\ SameRequest(this, next) /\ next.verdict = this.verdict
      /\ next.pc \in {"done", "body", "handler"}
  BY DEF Continues
<1>2. next.pc \in {"done"} \cup Working /\ next.pc \notin {"connecting", "command", "lost"}
  BY <1>1 DEF Working
<1> QED
  BY <1>1, <1>2, GoesOn

LEMMA DegradedQuiet ==
  ASSUME NEW this, Sound(this), this.pc \in {"connecting", "command", "lost"}
  PROVE  Quiet(this, Degraded(this))
<1>1. this \in Records /\ Entered(this) /\ this.pc \in Working
  BY DEF Sound, Entered, Working
<1>2. /\ Degraded(this) \in Records /\ SameRequest(this, Degraded(this))
      /\ Degraded(this).verdict = "degraded" /\ Degraded(this).pc \in {"done", "body", "handler"}
  BY <1>1, DegradedFacts
<1>3. Degraded(this).pc \in {"done"} \cup Working /\ Degraded(this).verdict # "allowed"
  BY <1>2 DEF Working
<1> QED
  BY <1>1, <1>2, <1>3, GoesOn

\* A request whose client is destroyed.
LEMMA LostQuiet ==
  ASSUME NEW this, Sound(this), this.pc \in {"connecting", "command"}
  PROVE  Quiet(this, [this EXCEPT !.pc = "lost"])
<1>1. this \in Records /\ Entered(this) /\ this.pc \in Working /\ "lost" \in Working
  BY DEF Sound, Entered, Working
<1>2. LET next == [this EXCEPT !.pc = "lost"]
      IN /\ next \in Records /\ SameRequest(this, next) /\ next.pc = "lost"
         /\ next.verdict = this.verdict
  BY <1>1, StepFacts
<1> QED
  BY <1>1, <1>2, GoesOn

LEMMA FailCommandFacts ==
  ASSUME IInv, NEW r \in Ids, NEW this, FailCommand(r, this)
  PROVE  /\ ClientsOK' /\ DOMAIN req' = Ids /\ req'[r] = Degraded(this)
         /\ \A s \in Ids \ {r} : Quiet(req[s], req'[s])
<1>1. /\ client' = [client EXCEPT ![this.at] = NoClient]
      /\ req' = [s \in Ids |->
           IF s = r THEN Degraded(this)
           ELSE IF req[s].at = this.at /\ req[s].pc \in {"connecting", "command"}
           THEN [req[s] EXCEPT !.pc = "lost"] ELSE req[s]]
  BY DEF FailCommand
<1>2. NoClient \in [st : {"none", "connecting", "ready"}, promise : BOOLEAN]
  BY DEF NoClient
<1>3. ClientsOK'
  BY <1>1, <1>2 DEF IInv, TypeOK, ClientsOK
<1>4. ASSUME NEW s \in Ids \ {r}
      PROVE  Quiet(req[s], req'[s])
  <2>1. Sound(req[s])
    BY DEF IInv
  <2>2. CASE req[s].at = this.at /\ req[s].pc \in {"connecting", "command"}
    BY <1>1, <2>1, <2>2, LostQuiet
  <2>3. CASE ~(req[s].at = this.at /\ req[s].pc \in {"connecting", "command"})
    <3>1. req'[s] = req[s]
      BY <1>1, <2>3
    <3> QED
      BY <2>1, <3>1, QuietSame
  <2> QED
    BY <2>2, <2>3
<1> QED
  BY <1>1, <1>3, <1>4

(***************************************************************************)
(* The limiters and the requests that pass them                            *)
(***************************************************************************)
\* A request that is counted by its process goes to Redis, or on without it.
LEMMA ConsumeFacts ==
  ASSUME IInv, NEW r \in Ids, NEW this \in Records, this.at \in Processes, ~this.committed,
         Moves(req[r], this), KeepsVerdict(req[r], this), Consume(r, this)
  PROVE  /\ ClientsOK' /\ DOMAIN req' = Ids /\ Moves(req[r], req'[r])
         /\ KeepsVerdict(req[r], req'[r])
         /\ req'[r].at = this.at /\ req'[r].q = this.q /\ req'[r].window = this.window
         /\ \A s \in Ids \ {r} : Quiet(req[s], req'[s])
<1> DEFINE p == this.at
           c == client[p]
           Good(next) == /\ next \in Records /\ SameRequest(this, next) /\ next.pc # "unsent"
                         /\ next.verdict \in {this.verdict, "degraded"}
<1>1. ASSUME NEW next, Good(next)
      PROVE  /\ Moves(req[r], next) /\ KeepsVerdict(req[r], next)
             /\ next.at = this.at /\ next.q = this.q /\ next.window = this.window
  <2>1. SameRequest(this, next) /\ next \in Records /\ next.verdict \in {this.verdict, "degraded"}
    BY <1>1
  <2>2. Sound(next)
    BY <2>1 DEF Sound, SameRequest
  <2>3. Moves(req[r], next)
    BY <2>1, <2>2 DEF Moves, SameRequest
  <2>4. KeepsVerdict(req[r], next)
    BY <2>1 DEF KeepsVerdict, SameRequest
  <2> QED
    BY <2>1, <2>3, <2>4 DEF SameRequest
<1>2. Good(Degraded(this))
  BY DegradedFacts
<1>3. ClientsOK
  BY DEF IInv, TypeOK, ClientsOK
<1>4. CASE ~PoolOpen(p) /\ Set(r, Degraded(this)) /\ UNCHANGED client
  <2>1. ClientsOK'
    BY <1>3, <1>4 DEF ClientsOK
  <2>2. DOMAIN req' = Ids /\ req'[r] = Degraded(this) /\ \A s \in Ids \ {r} : Quiet(req[s], req'[s])
    BY <1>4, SetFacts
  <2> HIDE DEF Good
  <2> QED
    BY <1>1, <1>2, <2>1, <2>2
<1>5. CASE /\ PoolOpen(p) /\ c.st = "ready" /\ UNCHANGED client
           /\ Set(r, [this EXCEPT !.pc = "command", !.inflight = TRUE])
  <2> DEFINE next == [this EXCEPT !.pc = "command", !.inflight = TRUE]
  <2>1. ClientsOK'
    BY <1>3, <1>5 DEF ClientsOK
  <2>2. DOMAIN req' = Ids /\ req'[r] = next /\ \A s \in Ids \ {r} : Quiet(req[s], req'[s])
    BY <1>5, SetFacts
  <2>3. next \in Records
    BY DEF Records, Working
  <2>4. SameRequest(this, next) /\ next.pc = "command" /\ next.verdict = this.verdict
    BY DEF Records, SameRequest
  <2>5. Good(next)
    BY <2>3, <2>4
  <2> HIDE DEF Good, next
  <2> QED
    BY <1>1, <2>1, <2>2, <2>5
<1>6. CASE /\ PoolOpen(p) /\ (c.st = "none" \/ c.promise)
           /\ Set(r, [this EXCEPT !.pc = "connecting"])
           /\ client' = [client EXCEPT ![p] = [st |-> "connecting", promise |-> TRUE]]
  <2> DEFINE next == [this EXCEPT !.pc = "connecting"]
  <2>1. ClientsOK'
    BY <1>3, <1>6 DEF ClientsOK
  <2>2. DOMAIN req' = Ids /\ req'[r] = next /\ \A s \in Ids \ {r} : Quiet(req[s], req'[s])
    BY <1>6, SetFacts
  <2>3. "connecting" \in Working
    BY DEF Working
  <2>4. next \in Records /\ SameRequest(this, next) /\ next.pc = "connecting" /\ next.verdict = this.verdict
    BY <2>3, StepFacts
  <2>5. Good(next)
    BY <2>4
  <2> HIDE DEF Good, next
  <2> QED
    BY <1>1, <2>1, <2>2, <2>5
<1>7. CASE PoolOpen(p) /\ c.st = "connecting" /\ ~c.promise /\ FailCommand(r, this)
  <2>1. /\ ClientsOK' /\ DOMAIN req' = Ids /\ req'[r] = Degraded(this)
        /\ \A s \in Ids \ {r} : Quiet(req[s], req'[s])
    BY <1>7, FailCommandFacts
  <2> HIDE DEF Good
  <2> QED
    BY <1>1, <1>2, <2>1
<1> QED
  BY <1>4, <1>5, <1>6, <1>7 DEF Consume

LEMMA CountersAre == ASSUME NEW op, Counted(op) PROVE category(op) \in Counters
BY DEF Counted, category, Counters

\* A step that ends in an answer, with a window that may have turned.
LEMMA AnsweredStep ==
  ASSUME IInv, NEW r \in Ids, NEW p \in Processes, NEW next, Set(r, next), Quiet(req[r], next),
         UNCHANGED <<now, life, stage, limiter>>, ClientsOK',
         window' = [window EXCEPT ![p] = WindowAt(window[p], Bucket)]
  PROVE  IInv'
<1>1. DOMAIN req' = Ids /\ \A s \in Ids : Quiet(req[s], req'[s])
  BY SetFacts
<1>2. (\A s \in Ids : Sound(req[s])') /\ Placed' /\ Attended' /\ SharedSound'
  BY <1>1, RequestsMove, LimiterKept DEF Quiet
<1>3. TypeOK'
  BY <1>2, TypesMove DEF IInv
<1>4. DOMAIN window = Processes /\ TypeOK /\ \A o \in Processes : WindowSound(o)
  BY DEF IInv, LocalSound
<1>5. \A s \in Ids : req[s].window \in Nat
  BY DEF IInv, Sound, Records
<1>6. WindowSound(p)'
  BY <1>1, <1>4, <1>5, WindowTurned DEF Quiet
<1>7. ASSUME NEW o \in Processes, o # p
      PROVE  WindowSound(o)'
  BY <1>1, <1>4, <1>7, WindowKept DEF Quiet
<1>8. LocalSound'
  BY <1>4, <1>6, <1>7 DEF LocalSound
<1> QED
  BY <1>1, <1>2, <1>3, <1>8 DEF IInv

\* What a request may be when the limiter gets it: one on its way, or new.
LEMMA LimitStep ==
  ASSUME IInv, NEW r \in Ids, NEW this, Quiet(req[r], this), this.pc = "auth",
         Limit(r, this), UNCHANGED <<now, life, stage, limiter>>
  PROVE  IInv'
<1>1. Sound(this) /\ this.pc \in Working
  BY DEF Quiet, Moves, Working
<1>2. this \in Records /\ this.at \in Processes /\ ~this.committed
  BY <1>1 DEF Sound, Working
<1>3. ClientsOK
  BY DEF IInv, TypeOK, ClientsOK
<1>4. CASE ~Counted(this.q.op) /\ Set(r, Validate(this)) /\ UNCHANGED <<window, client>>
  <2>1. Quiet(this, Validate(this))
    BY <1>1, <1>2, ValidateFacts, ContinuesQuiet
  <2>2. Quiet(req[r], Validate(this))
    BY <2>1, QuietTwice
  <2>3. ClientsOK'
    BY <1>3, <1>4 DEF ClientsOK
  <2> QED
    BY <1>4, <2>2, <2>3, SetStep
<1>5. ASSUME NEW code \in Codes, Set(r, Answer(this, code)), UNCHANGED client,
             window' = [window EXCEPT ![this.at] = WindowAt(window[this.at], now \div Minute)]
      PROVE  IInv'
  <2>1. Quiet(this, Answer(this, code))
    BY <1>1, AnswerQuiet
  <2>2. Quiet(req[r], Answer(this, code))
    BY <2>1, QuietTwice
  <2>3. ClientsOK'
    BY <1>3, <1>5 DEF ClientsOK
  <2> QED
    BY <1>2, <1>5, <2>2, <2>3, AnsweredStep DEF Bucket
<1>6. CASE /\ Counted(this.q.op)
           /\ ~LocallyDenied(WindowAt(window[this.at], now \div Minute), category(this.q.op),
                             Identities(this.q, Trusted))
           /\ window' = [window EXCEPT ![this.at] =
                           Charge(WindowAt(window[this.at], now \div Minute), category(this.q.op),
                                  Identities(this.q, Trusted))]
           /\ Consume(r, [this EXCEPT !.window = now \div Minute])
  <2> DEFINE charged == [this EXCEPT !.window = now \div Minute]
             p == this.at
             counter == category(this.q.op)
             ids == Identities(this.q, Trusted)
  <2>0. now \div Minute \in Nat
    BY BucketIsNat DEF IInv, Bucket
  <2>1. charged \in Records
    BY <1>2, <2>0 DEF Records
  <2>2. /\ charged.at = p /\ charged.q = this.q /\ charged.window = now \div Minute
        /\ charged.committed = this.committed /\ charged.conn = this.conn /\ charged.pc = this.pc
        /\ charged.verdict = this.verdict /\ charged.bucket = this.bucket
    BY <1>2 DEF Records
  <2>3. Consume(r, charged)
    BY <1>6
  <2> HIDE DEF charged
  <2>4. Sound(charged)
    BY <1>2, <2>1, <2>2 DEF Sound
  <2>5. Moves(req[r], charged) /\ KeepsVerdict(req[r], charged)
    BY <2>2, <2>4 DEF Quiet, Moves, KeepsVerdict
  <2>6. /\ ClientsOK' /\ DOMAIN req' = Ids /\ Moves(req[r], req'[r])
        /\ KeepsVerdict(req[r], req'[r])
        /\ req'[r].at = p /\ req'[r].q = this.q /\ req'[r].window = now \div Minute
        /\ \A s \in Ids \ {r} : Quiet(req[s], req'[s])
    BY <1>2, <2>1, <2>2, <2>3, <2>5, ConsumeFacts
  <2>7. (\A s \in Ids : Sound(req[s])') /\ Placed' /\ Attended'
    <3>1. \A s \in Ids : Moves(req[s], req'[s])
      BY <2>6 DEF Quiet
    <3> QED
      BY <3>1, RequestsMove
  <2>8. SharedSound'
    <3>1. \A s \in Ids : KeepsVerdict(req[s], req'[s])
      BY <2>6 DEF Quiet
    <3> QED
      BY <3>1, LimiterKept
  <2>9. TypeOK'
    BY <2>6, <2>7, TypesMove DEF IInv
  <2>10. DOMAIN window = Processes /\ TypeOK /\ \A o \in Processes : WindowSound(o)
    BY DEF IInv, LocalSound
  <2>11. \A s \in Ids : req[s].window \in Nat
    BY DEF IInv, Sound, Records
  <2>12. counter \in Counters /\ p \in Processes
    BY <1>2, <1>6, CountersAre
  <2>13. \A c, i : CountedFor(req'[r], c, i) => c = counter /\ i \in ids
    BY <2>6 DEF CountedFor
  <2>14. /\ ~LocallyDenied(WindowAt(window[p], Bucket), counter, ids)
         /\ window'[p] = Charge(WindowAt(window[p], Bucket), counter, ids)
         /\ req'[r].window = Bucket
    BY <1>6, <2>6, <2>10, <2>12 DEF Bucket
  <2>15. \A s \in Ids \ {r} : KeepsWindow(req[s], req'[s])
    BY <2>6 DEF Quiet
  <2>20. DOMAIN window' = Processes /\ \A o \in Processes : o # p => window'[o] = window[o]
    BY <1>6, <2>10
  <2> HIDE DEF p, counter, ids
  <2>16. WindowSound(p)'
    BY <2>10, <2>11, <2>12, <2>13, <2>14, <2>15, WindowCharged
  <2>17. ASSUME NEW o \in Processes, o # p
         PROVE  WindowSound(o)'
    <3>1. window'[o] = window[o] /\ WindowSound(o) /\ TypeOK
      BY <2>10, <2>17, <2>20
    <3>2. \A s \in Ids : KeepsWindow(req[s], req'[s]) \/ req'[s].at # o
      BY <2>6, <2>15, <2>17
    <3> QED
      BY <3>1, <3>2, WindowKept
  <2>18. LocalSound'
    BY <2>16, <2>17, <2>20 DEF LocalSound
  <2> QED
    BY <2>6, <2>7, <2>8, <2>9, <2>18 DEF IInv
<1> QED
  BY <1>4, <1>5, <1>6, CodesFacts DEF Limit

LEMMA AfterAuthStep ==
  ASSUME IInv, NEW r \in Ids, NEW this, Quiet(req[r], this), this.pc = "auth",
         AfterAuth(r, this), UNCHANGED <<now, life, stage, limiter>>
  PROVE  IInv'
<1>1. Sound(this) /\ this.pc \in Working
  BY DEF Quiet, Moves, Working
<1>2. CASE Set(r, Answer(this, "REQUEST_FORBIDDEN")) /\ UNCHANGED <<window, client>>
  <2>1. Quiet(req[r], Answer(this, "REQUEST_FORBIDDEN"))
    BY <1>1, AnswerQuiet, CodesFacts, QuietTwice
  <2>2. ClientsOK'
    BY <1>2 DEF IInv, TypeOK, ClientsOK
  <2> QED
    BY <1>2, <2>1, <2>2, SetStep
<1> QED
  BY <1>2, LimitStep DEF AfterAuth

(***************************************************************************)
(* The steps of a request                                                  *)
(***************************************************************************)
LEMMA ArriveIInv ==
  ASSUME IInv, NEW r \in Ids, NEW p \in Processes, NEW q \in Shapes[r], Arrive(r, p, q)
  PROVE  IInv'
<1> DEFINE this == [Unsent EXCEPT !.pc = "auth", !.at = p, !.q = q, !.conn = "open"]
<1>1. /\ Accepting(p) /\ UNCHANGED <<now, life, stage, limiter>>
      /\ IF NeedsSession(q.op) \/ OriginRefused(q)
         THEN /\ Set(r, IF OriginRefused(q) THEN Answer(this, "REQUEST_FORBIDDEN")
                        ELSE IF SessionRefused(q) THEN Answer(this, "AUTHENTICATION_REQUIRED")
                        ELSE IF PoolOpen(p) THEN this ELSE Answer(this, "SERVICE_UNAVAILABLE"))
              /\ UNCHANGED <<window, client>>
         ELSE AfterAuth(r, this)
  BY DEF Arrive
<1>2. q \in Asked
  BY DEF Asked
<1>3. /\ this.pc = "auth" /\ this.at = p /\ this.committed = FALSE /\ this.verdict = "none"
      /\ this.conn = "open"
  BY DEF Unsent
<1>4. Unsent \in Records
  BY DEF Unsent, Records
<1>5. this \in Records
  BY <1>2, <1>4 DEF Records, Working
<1> HIDE DEF this
<1>6. Sound(this) /\ this.pc \in Working
  BY <1>3, <1>5 DEF Sound, Working
<1>7. Quiet(req[r], this)
  <2>1. Moves(req[r], this)
    BY <1>1, <1>3, <1>6 DEF Moves
  <2>2. ~Entered(this) /\ this.verdict # "allowed"
    BY <1>3 DEF Entered
  <2> QED
    BY <2>1, <2>2 DEF Quiet, KeepsWindow, KeepsVerdict
<1>8. \A code \in Codes : Quiet(req[r], Answer(this, code))
  BY <1>6, <1>7, AnswerQuiet, QuietTwice
<1>9. CASE NeedsSession(q.op) \/ OriginRefused(q)
  <2>1. UNCHANGED <<window, client>>
    BY <1>1, <1>9
  <2>2. \E next : Set(r, next) /\ Quiet(req[r], next)
    <3>1. \/ Set(r, Answer(this, "REQUEST_FORBIDDEN"))
          \/ Set(r, Answer(this, "AUTHENTICATION_REQUIRED"))
          \/ Set(r, this) \/ Set(r, Answer(this, "SERVICE_UNAVAILABLE"))
      BY <1>1, <1>9 DEF Set
    <3> QED
      BY <1>7, <1>8, <3>1, CodesFacts
  <2>3. PICK next : Set(r, next) /\ Quiet(req[r], next)
    BY <2>2
  <2>4. ClientsOK'
    BY <2>1 DEF IInv, TypeOK, ClientsOK
  <2> QED
    BY <1>1, <2>1, <2>3, <2>4, SetStep
<1>10. CASE ~(NeedsSession(q.op) \/ OriginRefused(q))
  BY <1>1, <1>3, <1>7, <1>10, AfterAuthStep
<1> QED
  BY <1>9, <1>10

LEMMA ClientsStay == ASSUME IInv, UNCHANGED client PROVE ClientsOK'
BY DEF IInv, TypeOK, ClientsOK

\* One request is set, and nothing else changes.
LEMMA OnlySet ==
  ASSUME IInv, NEW r \in Ids, NEW next, Set(r, next), Quiet(req[r], next),
         UNCHANGED <<now, life, stage, window, limiter, client>>
  PROVE  IInv'
BY ClientsStay, SetStep

LEMMA AuthenticatedIInv == ASSUME IInv, NEW r \in Ids, Authenticated(r) PROVE IInv'
<1>1. req[r].pc = "auth" /\ UNCHANGED <<now, life, stage, limiter>> /\ Sound(req[r])
  BY DEF Authenticated, IInv
<1>2. req[r].pc \in Working /\ Quiet(req[r], req[r])
  BY <1>1, QuietSame DEF Working
<1>3. CASE Set(r, Answer(req[r], "AUTHENTICATION_REQUIRED")) /\ UNCHANGED <<window, client>>
  <2>1. Quiet(req[r], Answer(req[r], "AUTHENTICATION_REQUIRED"))
    BY <1>1, <1>2, AnswerQuiet, CodesFacts
  <2> QED
    BY <1>1, <1>3, <2>1, OnlySet
<1>4. CASE AfterAuth(r, req[r])
  BY <1>1, <1>2, <1>4, AfterAuthStep
<1> QED
  BY <1>3, <1>4 DEF Authenticated

LEMMA RunScriptIInv == ASSUME IInv, NEW r \in Ids, RunScript(r) PROVE IInv'
<1> DEFINE counter == category(Op(r))
           ids == Identities(req[r].q, Trusted)
           result == Script(limiter, now, counter, ids)
           this == [req[r] EXCEPT !.inflight = FALSE]
           told == [this EXCEPT !.verdict = "allowed", !.bucket = now \div Minute]
           denied == [this EXCEPT !.verdict = "denied"]
<1>1. /\ limiter' = result.limiter /\ UNCHANGED <<now, life, stage, window, client>>
      /\ Set(r, IF this.pc # "command" THEN this
                ELSE IF result.admitted THEN Validate(told) ELSE Answer(denied, "RATE_LIMITED"))
  BY DEF RunScript
<1>2. TypeOK /\ SharedSound /\ Sound(req[r]) /\ req[r] \in Records /\ now \div Minute \in Nat
  BY BucketIsNat DEF IInv, Sound, Bucket
<1>3. this \in Records
  BY <1>2 DEF Records
<1>4. /\ SameRequest(req[r], this) /\ this.pc = req[r].pc /\ this.verdict = req[r].verdict
      /\ this.answer = req[r].answer
  BY <1>2 DEF Records, SameRequest
<1> HIDE DEF this
<1>5. Sound(this)
  BY <1>2, <1>3, <1>4 DEF Sound, SameRequest
<1>6. Quiet(req[r], this)
  <2>1. Moves(req[r], this)
    BY <1>4, <1>5 DEF Moves, SameRequest
  <2>2. Entered(this) => Entered(req[r])
    BY <1>4 DEF Entered
  <2> QED
    BY <1>4, <2>1, <2>2 DEF Quiet, KeepsWindow, KeepsVerdict, SameRequest
<1>7. /\ CountersSound(limiter')
      /\ ~result.admitted => limiter'.count = limiter.count
      /\ result.admitted =>
           /\ \A i \in ids : At(limiter'.count, <<Bucket, counter, i>>) =
                               At(limiter.count, <<Bucket, counter, i>>) + 1
           /\ \A m, c, i : m # Bucket \/ c # counter \/ i \notin ids =>
                At(limiter'.count, <<m, c, i>>) = At(limiter.count, <<m, c, i>>)
  BY <1>1, <1>2, ScriptFacts DEF SharedSound
<1> HIDE DEF result
<1>8. ASSUME NEW m, NEW c, NEW i
      PROVE  At(limiter.count, <<m, c, i>>) <= At(limiter'.count, <<m, c, i>>)
  <2>1. At(limiter.count, <<m, c, i>>) \in Nat
    BY <1>2 DEF SharedSound, CountersSound, At
  <2>2. \/ At(limiter'.count, <<m, c, i>>) = At(limiter.count, <<m, c, i>>)
        \/ At(limiter'.count, <<m, c, i>>) = At(limiter.count, <<m, c, i>>) + 1
    <3>1. CASE result.admitted /\ m = Bucket /\ c = counter /\ i \in ids
      BY <1>7, <3>1
    <3>2. CASE result.admitted /\ ~(m = Bucket /\ c = counter /\ i \in ids)
      BY <1>7, <3>2
    <3>3. CASE ~result.admitted
      BY <1>7, <3>3
    <3> QED
      BY <3>1, <3>2, <3>3
  <2> QED
    BY <2>1, <2>2
<1>9. ASSUME NEW next, Set(r, next), Moves(req[r], next), KeepsWindow(req[r], next)
      PROVE  /\ DOMAIN req' = Ids /\ (\A s \in Ids : Sound(req[s])') /\ Placed' /\ Attended'
             /\ LocalSound' /\ TypeOK' /\ req'[r] = next
             /\ \A s \in Ids \ {r} : KeepsVerdict(req[s], req'[s])
  <2>1. /\ DOMAIN req' = Ids /\ req'[r] = next
        /\ \A s \in Ids \ {r} : req'[s] = req[s] /\ Quiet(req[s], req'[s])
    BY <1>9, SetFacts
  <2>2. \A s \in Ids : Moves(req[s], req'[s]) /\ KeepsWindow(req[s], req'[s])
    BY <1>9, <2>1 DEF Quiet
  <2>3. (\A s \in Ids : Sound(req[s])') /\ Placed' /\ Attended'
    BY <1>1, <2>2, RequestsMove
  <2>4. LocalSound'
    BY <1>1, <2>2, WindowsKept
  <2>5. TypeOK'
    BY <1>1, <1>2, <2>3, ClientsStay, TypesMove
  <2> QED
    BY <2>1, <2>3, <2>4, <2>5 DEF Quiet
<1>10. ASSUME NEW next, Set(r, next), Quiet(req[r], next)
       PROVE  IInv'
  <2>1. /\ DOMAIN req' = Ids /\ (\A s \in Ids : Sound(req[s])') /\ Placed' /\ Attended'
        /\ LocalSound' /\ TypeOK' /\ req'[r] = next
        /\ \A s \in Ids \ {r} : KeepsVerdict(req[s], req'[s])
    BY <1>9, <1>10 DEF Quiet
  <2>2. \A s \in Ids : KeepsVerdict(req[s], req'[s])
    BY <1>10, <2>1 DEF Quiet
  <2>3. SharedSound'
    BY <1>1, <1>2, <1>7, <1>8, <2>2, CountersKept
  <2> QED
    BY <2>1, <2>3 DEF IInv
<1>11. CASE this.pc # "command"
  <2>1. Set(r, this)
    BY <1>1, <1>11
  <2> QED
    BY <1>6, <1>10, <2>1
<1>12. CASE this.pc = "command" /\ ~result.admitted
  <2>1. Set(r, Answer(denied, "RATE_LIMITED"))
    BY <1>1, <1>12 DEF result
  <2>2. denied \in Records
    BY <1>3 DEF Records
  <2>3. SameRequest(this, denied) /\ denied.verdict = "denied" /\ denied.pc = this.pc
    BY <1>3 DEF Records, SameRequest
  <2> HIDE DEF denied
  <2>4. Entered(this) /\ this.pc \in Working
    BY <1>12 DEF Entered, Working
  <2>5. /\ Answer(denied, "RATE_LIMITED") \in Records
        /\ SameRequest(denied, Answer(denied, "RATE_LIMITED"))
        /\ Answer(denied, "RATE_LIMITED").pc = "done"
        /\ Answer(denied, "RATE_LIMITED").verdict = "denied"
    BY <2>2, <2>3, AnswerFacts, CodesFacts
  <2>6. SameRequest(this, Answer(denied, "RATE_LIMITED"))
    BY <2>3, <2>5 DEF SameRequest
  <2>7. Quiet(this, Answer(denied, "RATE_LIMITED"))
    BY <1>5, <2>4, <2>5, <2>6, GoesOn
  <2> QED
    BY <1>6, <1>10, <2>1, <2>7, QuietTwice
<1>13. CASE this.pc = "command" /\ result.admitted
  <2>1. Set(r, Validate(told))
    BY <1>1, <1>13 DEF result
  <2>2. told \in Records
    BY <1>2, <1>3 DEF Records
  <2>3. /\ told.at = this.at /\ told.q = this.q /\ told.conn = this.conn
        /\ told.window = this.window /\ told.committed = this.committed
        /\ told.verdict = "allowed" /\ told.bucket = Bucket /\ told.pc = this.pc
    BY <1>3 DEF Records, Bucket
  <2> HIDE DEF told
  <2>4. Continues(told, Validate(told))
    BY <2>2, ValidateFacts
  <2>5. /\ Validate(told) \in Records /\ Validate(told).pc # "unsent"
        /\ Validate(told).at = req[r].at /\ Validate(told).q = req[r].q
        /\ Validate(told).conn = req[r].conn /\ Validate(told).window = req[r].window
        /\ Validate(told).committed = req[r].committed /\ Validate(told).bucket = Bucket
    BY <1>4, <2>3, <2>4 DEF Continues, SameRequest
  <2>6. Entered(req[r]) /\ ~req[r].committed /\ req[r].at \in Processes
    BY <1>2, <1>4, <1>13 DEF Entered, Sound
  <2>7. Moves(req[r], Validate(told)) /\ KeepsWindow(req[r], Validate(told))
    BY <2>5, <2>6 DEF Moves, KeepsWindow, Sound
  <2>8. /\ DOMAIN req' = Ids /\ (\A s \in Ids : Sound(req[s])') /\ Placed' /\ Attended'
        /\ LocalSound' /\ TypeOK' /\ req'[r] = Validate(told)
        /\ \A s \in Ids \ {r} : KeepsVerdict(req[s], req'[s])
    BY <1>9, <2>1, <2>7
  <2>9. /\ req'[r].bucket = Bucket
        /\ \A c, i : CountedFor(req'[r], c, i) => c = counter /\ i \in ids
    BY <2>5, <2>8 DEF CountedFor, Op
  <2>10. SharedSound'
    <3>1. LET answer == Script(limiter, now, counter, ids)
          IN answer.admitted /\ limiter' = answer.limiter
      BY <1>1, <1>13 DEF result
    <3> QED
      BY <1>1, <1>2, <2>8, <2>9, <3>1, CountersCharged
  <2> QED
    BY <2>8, <2>10 DEF IInv
<1> QED
  BY <1>11, <1>12, <1>13

LEMMA UndeliveredIInv == ASSUME IInv, NEW r \in Ids, Undelivered(r) PROVE IInv'
<1> DEFINE next == [req[r] EXCEPT !.inflight = FALSE]
<1>1. Set(r, next) /\ UNCHANGED <<now, life, stage, window, limiter, client>>
  BY DEF Undelivered
<1>2. Sound(req[r]) /\ req[r] \in Records
  BY DEF IInv, Sound
<1>3. next \in Records
  BY <1>2 DEF Records
<1>4. /\ SameRequest(req[r], next) /\ next.pc = req[r].pc /\ next.verdict = req[r].verdict
      /\ next.answer = req[r].answer
  BY <1>2 DEF Records, SameRequest
<1> HIDE DEF next
<1>5. Quiet(req[r], next)
  <2>1. Sound(next)
    BY <1>2, <1>3, <1>4 DEF Sound, SameRequest
  <2>2. Moves(req[r], next)
    BY <1>4, <2>1 DEF Moves, SameRequest
  <2>3. Entered(next) => Entered(req[r])
    BY <1>4 DEF Entered
  <2> QED
    BY <1>4, <2>2, <2>3 DEF Quiet, KeepsWindow, KeepsVerdict, SameRequest
<1> QED
  BY <1>1, <1>5, OnlySet

LEMMA GiveUpIInv == ASSUME IInv, NEW r \in Ids, GiveUp(r) PROVE IInv'
<1>1. /\ req[r].pc \in {"connecting", "command"} /\ FailCommand(r, req[r])
      /\ UNCHANGED <<now, life, stage, window, limiter>> /\ Sound(req[r])
  BY DEF GiveUp, IInv
<1>2. /\ ClientsOK' /\ DOMAIN req' = Ids /\ req'[r] = Degraded(req[r])
      /\ \A s \in Ids \ {r} : Quiet(req[s], req'[s])
  BY <1>1, FailCommandFacts
<1>3. Quiet(req[r], Degraded(req[r]))
  BY <1>1, DegradedQuiet
<1>4. \A s \in Ids : Quiet(req[s], req'[s])
  BY <1>2, <1>3
<1> QED
  BY <1>1, <1>2, <1>4, QuietStep

LEMMA LostWithClientIInv == ASSUME IInv, NEW r \in Ids, LostWithClient(r) PROVE IInv'
<1>1. /\ req[r].pc = "lost" /\ Set(r, Degraded(req[r])) /\ Sound(req[r])
      /\ client' = [client EXCEPT ![req[r].at].promise = FALSE]
      /\ UNCHANGED <<now, life, stage, window, limiter>>
  BY DEF LostWithClient, IInv
<1>2. Quiet(req[r], Degraded(req[r]))
  BY <1>1, DegradedQuiet
<1>3. ClientsOK
  BY DEF IInv, TypeOK, ClientsOK
<1>4. req[r].at \in Processes
  BY <1>1 DEF Sound
<1>5. [client[req[r].at] EXCEPT !.promise = FALSE] \in [st : {"none", "connecting", "ready"}, promise : BOOLEAN]
  BY <1>3, <1>4 DEF ClientsOK
<1>6. ClientsOK'
  BY <1>1, <1>3, <1>5 DEF ClientsOK
<1> QED
  BY <1>1, <1>2, <1>6, SetStep

LEMMA BodyArrivesIInv == ASSUME IInv, NEW r \in Ids, BodyArrives(r) PROVE IInv'
<1>1. /\ req[r].pc = "body" /\ Set(r, Parsed(req[r])) /\ Sound(req[r])
      /\ UNCHANGED <<now, life, stage, window, limiter, client>>
  BY DEF BodyArrives, IInv
<1>2. req[r] \in Records /\ req[r].pc \in Working
  BY <1>1 DEF Sound, Working
<1>3. Quiet(req[r], Parsed(req[r]))
  BY <1>1, <1>2, ParsedFacts, ContinuesQuiet
<1> QED
  BY <1>1, <1>3, OnlySet

\* An answer that may leave a committed command behind it.
LEMMA CommittedQuiet ==
  ASSUME NEW this, Sound(this), this.pc \in Working, NEW code \in {"success"} \cup Codes,
         NEW committed \in BOOLEAN, committed => code \in Uncertain
  PROVE  Quiet(this, [Answer(this, code) EXCEPT !.committed = committed])
<1> DEFINE answered == Answer(this, code)
           next == [answered EXCEPT !.committed = committed]
<1>1. this \in Records /\ this.at \in Processes
  BY DEF Sound, Working
<1>2. /\ answered \in Records /\ SameRequest(this, answered) /\ answered.pc = "done"
      /\ answered.verdict = this.verdict /\ answered.answer \in {"cut", code}
  BY <1>1, AnswerFacts
<1> HIDE DEF answered
<1>3. next \in Records
  BY <1>2 DEF Records
<1>4. /\ next.at = this.at /\ next.q = this.q /\ next.conn = this.conn /\ next.window = this.window
      /\ next.bucket = this.bucket /\ next.committed = committed /\ next.pc = "done"
      /\ next.verdict = this.verdict /\ next.answer \in {"cut", code}
  BY <1>2 DEF Records, SameRequest
<1> HIDE DEF next
<1>5. Sound(next)
  BY <1>1, <1>3, <1>4 DEF Sound, Uncertain
<1>6. Moves(this, next)
  BY <1>4, <1>5, <1>1 DEF Moves
<1>7. Entered(next) => Entered(this)
  BY <1>4 DEF Entered
<1>8. Quiet(this, next)
  BY <1>4, <1>6, <1>7 DEF Quiet, KeepsWindow, KeepsVerdict
<1> QED
  BY <1>8 DEF next, answered

LEMMA HandlerReturnsIInv == ASSUME IInv, NEW r \in Ids, HandlerReturns(r) PROVE IInv'
<1>1. /\ req[r].pc = "handler" /\ Sound(req[r])
      /\ UNCHANGED <<now, life, stage, window, limiter, client>>
  BY DEF HandlerReturns, IInv
<1>2. req[r] \in Records /\ req[r].pc \in Working
  BY <1>1 DEF Sound, Working
<1>3. CASE Set(r, [req[r] EXCEPT !.pc = "cache"])
  <2> DEFINE next == [req[r] EXCEPT !.pc = "cache"]
  <2>1. "cache" \in Working
    BY DEF Working
  <2>2. next \in Records /\ SameRequest(req[r], next) /\ next.pc = "cache" /\ next.verdict = req[r].verdict
    BY <1>2, <2>1, StepFacts
  <2> HIDE DEF next
  <2>3. Quiet(req[r], next)
    BY <1>1, <1>2, <2>1, <2>2, GoesOn
  <2> QED
    BY <1>1, <1>3, <2>3, OnlySet DEF next
<1>4. CASE Set(r, [Answer(req[r], "success") EXCEPT !.committed = TRUE])
  <2>1. Quiet(req[r], [Answer(req[r], "success") EXCEPT !.committed = TRUE])
    BY <1>1, <1>2, CommittedQuiet DEF Uncertain
  <2> QED
    BY <1>1, <1>4, <2>1, OnlySet
<1>5. ASSUME NEW code \in Codes, Set(r, Answer(req[r], code))
      PROVE  IInv'
  <2>1. Quiet(req[r], Answer(req[r], code))
    BY <1>1, <1>2, AnswerQuiet
  <2> QED
    BY <1>1, <1>5, <2>1, OnlySet
<1>6. GAMEPLAY_REJECTION_HTTP["STALE_VERSION"] \in Codes
  BY CodesFacts DEF GAMEPLAY_REJECTION_HTTP
<1> QED
  BY <1>3, <1>4, <1>5, <1>6, CodesFacts DEF HandlerReturns

LEMMA CacheReturnsIInv == ASSUME IInv, NEW r \in Ids, CacheReturns(r) PROVE IInv'
<1>1. /\ req[r].pc = "cache" /\ Sound(req[r])
      /\ UNCHANGED <<now, life, stage, window, limiter, client>>
  BY DEF CacheReturns, IInv
<1>2. req[r] \in Records /\ req[r].pc \in Working
  BY <1>1 DEF Sound, Working
<1>3. CASE Set(r, [req[r] EXCEPT !.pc = "index"])
  <2> DEFINE next == [req[r] EXCEPT !.pc = "index"]
  <2>1. "index" \in Working
    BY DEF Working
  <2>2. next \in Records /\ SameRequest(req[r], next) /\ next.pc = "index" /\ next.verdict = req[r].verdict
    BY <1>2, <2>1, StepFacts
  <2> HIDE DEF next
  <2>3. Quiet(req[r], next)
    BY <1>1, <1>2, <2>1, <2>2, GoesOn
  <2> QED
    BY <1>1, <1>3, <2>3, OnlySet DEF next
<1>4. ASSUME NEW code \in {"success"} \cup Codes, Set(r, Answer(req[r], code))
      PROVE  IInv'
  <2>1. Quiet(req[r], Answer(req[r], code))
    BY <1>1, <1>2, AnswerQuiet
  <2> QED
    BY <1>1, <1>4, <2>1, OnlySet
<1> QED
  BY <1>3, <1>4, CodesFacts DEF CacheReturns

LEMMA IndexReturnsIInv == ASSUME IInv, NEW r \in Ids, IndexReturns(r) PROVE IInv'
<1>1. /\ req[r].pc = "index" /\ Sound(req[r])
      /\ UNCHANGED <<now, life, stage, window, limiter, client>>
  BY DEF IndexReturns, IInv
<1>2. req[r].pc \in Working
  BY <1>1 DEF Working
<1>3. PICK code \in {"success", "RESOURCE_NOT_FOUND"} : Set(r, Answer(req[r], code))
  BY DEF IndexReturns
<1>4. code \in {"success"} \cup Codes
  BY CodesFacts
<1>5. Quiet(req[r], Answer(req[r], code))
  BY <1>1, <1>2, <1>4, AnswerQuiet
<1> QED
  BY <1>1, <1>3, <1>5, OnlySet

LEMMA MutatingOperations ==
  ASSUME NEW op, Mutates(op)
  PROVE  op \notin {"createSession", "healthReady", "getSuggestions"}
BY DEF Mutates, AuthOf

LEMMA TransactionFailsIInv == ASSUME IInv, NEW r \in Ids, TransactionFails(r) PROVE IInv'
<1> DEFINE other == IF req[r].pc = "auth" \/ Op(r) \in {"createSession", "healthReady"}
                    THEN "SERVICE_UNAVAILABLE" ELSE "INTERNAL_ERROR"
<1>1. /\ req[r].pc \in {"auth", "handler", "index"} /\ Sound(req[r])
      /\ UNCHANGED <<now, life, stage, window, limiter, client>>
  BY DEF TransactionFails, IInv
<1>2. req[r].pc \in Working
  BY <1>1 DEF Working
<1>3. PICK code \in {"REQUEST_TIMEOUT", other}, committed \in BOOLEAN :
        /\ committed => req[r].pc = "handler" /\ Mutates(Op(r))
        /\ Set(r, [Answer(req[r], code) EXCEPT !.committed = committed])
  BY DEF TransactionFails
<1>4. code \in {"success"} \cup Codes
  BY CodesFacts
<1>5. committed => code \in Uncertain
  BY <1>3, MutatingOperations DEF Uncertain
<1>6. Quiet(req[r], [Answer(req[r], code) EXCEPT !.committed = committed])
  BY <1>1, <1>2, <1>4, <1>5, CommittedQuiet
<1> QED
  BY <1>1, <1>3, <1>6, OnlySet

\* An abort stops the wait for a body, and nothing else.
LEMMA AbortedFacts ==
  ASSUME NEW this, Sound(this)
  PROVE  /\ Sound(Aborted(this)) /\ Quiet(this, Aborted(this))
<1>1. this \in Records
  BY DEF Sound
<1>2. CASE this.pc = "done"
  BY <1>2, QuietSame DEF Aborted
<1>3. CASE this.pc = "body"
  <2>1. Aborted(this) = Answer(this, "REQUEST_TIMEOUT")
    BY <1>3 DEF Aborted
  <2>2. Quiet(this, Answer(this, "REQUEST_TIMEOUT"))
    BY <1>3, AnswerQuiet, CodesFacts DEF Working
  <2> QED
    BY <2>1, <2>2 DEF Quiet, Moves
<1>4. CASE this.pc \notin {"done", "body"}
  <2> DEFINE next == [this EXCEPT !.aborted = TRUE]
  <2>1. Aborted(this) = next
    BY <1>4 DEF Aborted
  <2>2. next \in Records
    BY <1>1 DEF Records
  <2>3. /\ SameRequest(this, next) /\ next.pc = this.pc /\ next.verdict = this.verdict
        /\ next.answer = this.answer
    BY <1>1 DEF Records, SameRequest
  <2> HIDE DEF next
  <2>4. Sound(next)
    BY <2>2, <2>3 DEF Sound, SameRequest
  <2>5. Moves(this, next)
    BY <2>3, <2>4 DEF Moves, SameRequest
  <2>6. Entered(next) => Entered(this)
    BY <2>3 DEF Entered
  <2>7. Quiet(this, next)
    BY <2>3, <2>5, <2>6 DEF Quiet, KeepsWindow, KeepsVerdict, SameRequest
  <2> QED
    BY <2>1, <2>4, <2>7
<1> QED
  BY <1>2, <1>3, <1>4

LEMMA CutQuiet == ASSUME NEW this, Sound(this) PROVE Quiet(this, Cut(this))
<1>1. this \in Records
  BY DEF Sound
<1>2. Cut(this) \in Records
  BY <1>1 DEF Cut, Records
<1>3. /\ Cut(this).at = this.at /\ Cut(this).q = this.q /\ Cut(this).conn = "cut"
      /\ Cut(this).window = this.window /\ Cut(this).bucket = this.bucket
      /\ Cut(this).committed = this.committed /\ Cut(this).pc = this.pc
      /\ Cut(this).verdict = this.verdict
      /\ this.pc = "done" => Cut(this).answer = "cut"
  BY <1>1 DEF Cut, Records
<1>4. Sound(Cut(this))
  BY <1>2, <1>3 DEF Sound, Uncertain
<1>5. Moves(this, Cut(this))
  BY <1>3, <1>4 DEF Moves
<1>6. Entered(Cut(this)) => Entered(this)
  BY <1>3 DEF Entered
<1> QED
  BY <1>3, <1>5, <1>6 DEF Quiet, KeepsWindow, KeepsVerdict

LEMMA CutAborted == ASSUME NEW this, Sound(this) PROVE Quiet(this, Cut(Aborted(this)))
BY AbortedFacts, CutQuiet, QuietTwice

LEMMA DeadlineIInv == ASSUME IInv, NEW r \in Ids, Deadline(r) PROVE IInv'
<1>1. Set(r, Aborted(req[r])) /\ UNCHANGED <<now, life, stage, window, limiter, client>> /\ Sound(req[r])
  BY DEF Deadline, IInv
<1>2. Quiet(req[r], Aborted(req[r]))
  BY <1>1, AbortedFacts
<1> QED
  BY <1>1, <1>2, OnlySet

LEMMA DisconnectIInv == ASSUME IInv, NEW r \in Ids, Disconnect(r) PROVE IInv'
<1>1. /\ Set(r, Cut(Aborted(req[r]))) /\ Sound(req[r])
      /\ UNCHANGED <<now, life, stage, window, limiter, client>>
  BY DEF Disconnect, IInv
<1>2. Quiet(req[r], Cut(Aborted(req[r])))
  BY <1>1, CutAborted
<1> QED
  BY <1>1, <1>2, OnlySet

LEMMA DeliverIInv == ASSUME IInv, NEW r \in Ids, Deliver(r) PROVE IInv'
<1> DEFINE next == [req[r] EXCEPT !.conn = "delivered"]
<1>1. /\ Set(r, next) /\ Sound(req[r]) /\ req[r].pc = "done"
      /\ UNCHANGED <<now, life, stage, window, limiter, client>>
  BY DEF Deliver, IInv
<1>2. req[r] \in Records
  BY <1>1 DEF Sound
<1>3. next \in Records
  BY <1>2 DEF Records
<1>4. /\ next.at = req[r].at /\ next.q = req[r].q /\ next.conn = "delivered"
      /\ next.window = req[r].window /\ next.bucket = req[r].bucket
      /\ next.committed = req[r].committed /\ next.pc = req[r].pc
      /\ next.verdict = req[r].verdict /\ next.answer = req[r].answer
  BY <1>2 DEF Records
<1> HIDE DEF next
<1>5. Sound(next)
  BY <1>1, <1>3, <1>4 DEF Sound
<1>6. Moves(req[r], next)
  BY <1>4, <1>5 DEF Moves
<1>7. Entered(next) => Entered(req[r])
  BY <1>4 DEF Entered
<1>8. Quiet(req[r], next)
  BY <1>4, <1>6, <1>7 DEF Quiet, KeepsWindow, KeepsVerdict
<1> QED
  BY <1>1, <1>8, OnlySet

(***************************************************************************)
(* The steps of a process                                                  *)
(***************************************************************************)
\* A process moves; its requests do not.
LEMMA StageStep ==
  ASSUME IInv, UNCHANGED <<now, window, limiter, client, req>>, TypeOK', Placed', Attended'
  PROVE  IInv'
<1>1. \A r \in Ids : Sound(req[r])' /\ Quiet(req[r], req'[r])
  BY QuietSame DEF IInv, Sound
<1>2. LocalSound' /\ SharedSound'
  BY <1>1, WindowsKept, LimiterKept DEF Quiet
<1>3. DOMAIN req' = Ids
  BY DEF IInv
<1> QED
  BY <1>1, <1>2, <1>3 DEF IInv

LEMMA StartIInv == ASSUME IInv, NEW p \in Processes, Start(p) PROVE IInv'
<1>1. /\ life[p] = "new" /\ life' = [life EXCEPT ![p] = "binding"]
      /\ UNCHANGED <<now, stage, window, limiter, client, req>>
  BY DEF Start
<1>2. TypeOK'
  BY <1>1 DEF IInv, TypeOK
<1>3. \A o \in Processes : /\ life'[o] \in {"new", "binding"} => life[o] \in {"new", "binding"}
                           /\ life'[o] # "late" => life[o] # "late"
  BY <1>1 DEF IInv, TypeOK
<1>4. Placed'
  BY <1>1, <1>3 DEF IInv, Placed, Of
<1>5. Attended'
  BY <1>1, <1>3 DEF IInv, Attended
<1> QED
  BY <1>1, <1>2, <1>4, <1>5, StageStep

LEMMA BoundIInv == ASSUME IInv, NEW p \in Processes, Bound(p) PROVE IInv'
<1>1. /\ life[p] = "binding" /\ UNCHANGED <<now, stage, window, limiter, client, req>>
      /\ life' = [life EXCEPT ![p] = IF stage[p] = "up" THEN "serving" ELSE "late"]
  BY DEF Bound
<1>2. TypeOK'
  BY <1>1 DEF IInv, TypeOK
<1>3. \A o \in Processes : life'[o] = life[o] \/ o = p
  BY <1>1 DEF IInv, TypeOK
<1>4. life'[p] \in {"serving", "late"}
  BY <1>1 DEF IInv, TypeOK
<1>5. Placed'
  BY <1>1, <1>3, <1>4 DEF IInv, Placed, Of
<1>6. \A r \in Ids : req[r].at # p
  BY <1>1 DEF IInv, Placed, Of
<1>7. Attended'
  BY <1>1, <1>3, <1>6 DEF IInv, Attended
<1> QED
  BY <1>1, <1>2, <1>5, <1>7, StageStep

\* stop() goes on where no connection is, or where the process came late.
LEMMA ToStageStep ==
  ASSUME IInv, NEW p \in Processes, NEW s \in {"draining", "producer", "closing", "stopped"},
         ToStage(p, s), UNCHANGED <<now, life, window, limiter, client, req>>,
         \A r \in Of(p) : req[r].conn = "open" /\ life[p] # "late" => s = "draining"
  PROVE  IInv'
<1>1. stage' = [stage EXCEPT ![p] = s]
  BY DEF ToStage
<1>2. TypeOK'
  BY <1>1 DEF IInv, TypeOK
<1>3. stage'[p] = s /\ \A o \in Processes : stage'[o] = stage[o] \/ o = p
  BY <1>1 DEF IInv, TypeOK
<1>4. Placed'
  BY DEF IInv, Placed, Of
<1>5. Attended'
  <2> SUFFICES ASSUME NEW r \in Ids, req[r].conn = "open"
               PROVE  /\ req[r].at \in Processes
                      /\ life[req[r].at] # "late" => stage'[req[r].at] \in {"up", "draining"}
    BY DEF Attended
  <2>1. /\ req[r].at \in Processes
        /\ life[req[r].at] # "late" => stage[req[r].at] \in {"up", "draining"}
    BY DEF IInv, Attended
  <2>2. CASE req[r].at = p
    BY <1>3, <2>1, <2>2 DEF Of
  <2>3. CASE req[r].at # p
    BY <1>3, <2>1, <2>3
  <2> QED
    BY <2>2, <2>3
<1> QED
  BY <1>2, <1>4, <1>5, StageStep

LEMMA SignalIInv == ASSUME IInv, NEW p \in Processes, Signal(p) PROVE IInv'
<1> DEFINE s == IF life[p] = "serving" THEN "draining" ELSE "producer"
<1>1. /\ life[p] # "new" /\ ToStage(p, s) /\ UNCHANGED <<now, life, window, limiter, client, req>>
  BY DEF Signal
<1>2. s \in {"draining", "producer", "closing", "stopped"}
  OBVIOUS
<1>3. life[p] \in {"binding", "serving", "late"}
  BY <1>1 DEF IInv, TypeOK
<1>4. life[p] = "binding" => Of(p) = {}
  BY DEF IInv, Placed
<1>5. \A r \in Of(p) : req[r].conn = "open" /\ life[p] # "late" => s = "draining"
  BY <1>3, <1>4
<1> HIDE DEF s
<1> QED
  BY <1>1, <1>2, <1>5, ToStageStep

LEMMA CutConnectionsIInv == ASSUME IInv, NEW p \in Processes, CutConnections(p) PROVE IInv'
<1>1. /\ req' = [r \in Ids |-> IF r \in Of(p) /\ req[r].conn = "open"
                              THEN Cut(Aborted(req[r])) ELSE req[r]]
      /\ UNCHANGED <<now, life, stage, window, limiter, client>>
  BY DEF CutConnections
<1>2. ASSUME NEW r \in Ids
      PROVE  Quiet(req[r], req'[r])
  <2>1. Sound(req[r])
    BY DEF IInv
  <2>2. req'[r] = Cut(Aborted(req[r])) \/ req'[r] = req[r]
    BY <1>1
  <2> QED
    BY <2>1, <2>2, CutAborted, QuietSame
<1>3. DOMAIN req' = Ids /\ ClientsOK'
  BY <1>1, ClientsStay
<1> QED
  BY <1>1, <1>2, <1>3, QuietStep

LEMMA ServerClosedIInv == ASSUME IInv, NEW p \in Processes, ServerClosed(p) PROVE IInv'
BY ToStageStep DEF ServerClosed, drained

LEMMA DatabaseClosedIInv == ASSUME IInv, NEW p \in Processes, DatabaseClosed(p) PROVE IInv'
<1>1. /\ stage[p] = "closing" /\ ToStage(p, "stopped")
      /\ UNCHANGED <<now, life, window, limiter, client, req>>
  BY DEF DatabaseClosed
<1>2. \A r \in Of(p) : ~(req[r].conn = "open" /\ life[p] # "late")
  BY <1>1 DEF IInv, Attended, Of
<1> QED
  BY <1>1, <1>2, ToStageStep

\* What happens to the requests of a process, each on its own.
LEMMA ProducerStoppedIInv == ASSUME IInv, NEW p \in Processes, ProducerStopped(p) PROVE IInv'
<1>1. /\ stage[p] = "producer" /\ stage' = [stage EXCEPT ![p] = "closing"]
      /\ client' = [client EXCEPT ![p] = NoClient] /\ UNCHANGED <<now, life, window, limiter>>
      /\ req' = [r \in Ids |-> IF r \in Of(p) /\ req[r].pc \in {"connecting", "command"}
                              THEN [req[r] EXCEPT !.pc = "lost"] ELSE req[r]]
  BY DEF ProducerStopped, ToStage
<1>2. ASSUME NEW r \in Ids
      PROVE  /\ Quiet(req[r], req'[r]) /\ Sound(req[r])'
             /\ req'[r].at = req[r].at /\ req'[r].conn = req[r].conn
  <2>1. Sound(req[r]) /\ req[r] \in Records
    BY DEF IInv, Sound
  <2>2. CASE r \in Of(p) /\ req[r].pc \in {"connecting", "command"}
    <3>1. req'[r] = [req[r] EXCEPT !.pc = "lost"]
      BY <1>1, <2>2
    <3>2. Quiet(req[r], req'[r])
      BY <2>1, <2>2, <3>1, LostQuiet
    <3>3. Sound(req[r])'
      BY <3>2 DEF Quiet, Moves, Sound
    <3> QED
      BY <2>1, <3>1, <3>2, <3>3 DEF Records
  <2>3. CASE ~(r \in Of(p) /\ req[r].pc \in {"connecting", "command"})
    <3>1. req'[r] = req[r]
      BY <1>1, <2>3
    <3> QED
      BY <2>1, <3>1, QuietSame DEF Sound
  <2> QED
    BY <2>2, <2>3
<1>3. NoClient \in [st : {"none", "connecting", "ready"}, promise : BOOLEAN]
  BY DEF NoClient
<1>4. /\ stage' \in [Processes -> {"up", "draining", "producer", "closing", "stopped"}]
      /\ ClientsOK'
  BY <1>1, <1>3 DEF IInv, TypeOK, ClientsOK
<1>5. TypeOK'
  <2>1. \A r \in Ids : req'[r] \in Records
    BY <1>2 DEF Sound
  <2>2. \A r \in Ids :
          /\ req'[r].pc \in {"unsent", "done"} \cup Working
          /\ req'[r].answer \in {"none", "success", "cut"} \cup Codes
          /\ req'[r].conn \in {"none", "open", "delivered", "cut"}
          /\ req'[r].verdict \in {"none", "allowed", "denied", "degraded"}
    BY <2>1 DEF Records
  <2> QED
    BY <1>1, <1>4, <2>2 DEF IInv, TypeOK, ClientsOK
<1>6. Placed'
  BY <1>1, <1>2 DEF IInv, Placed, Of
<1>7. Attended'
  <2> SUFFICES ASSUME NEW r \in Ids, req[r].conn = "open"
               PROVE  /\ req[r].at \in Processes
                      /\ life[req[r].at] # "late" => stage'[req[r].at] \in {"up", "draining"}
    BY <1>1, <1>2 DEF Attended
  <2>1. /\ req[r].at \in Processes
        /\ life[req[r].at] # "late" => stage[req[r].at] \in {"up", "draining"}
    BY DEF IInv, Attended
  <2>2. life[req[r].at] # "late" => req[r].at # p
    BY <1>1, <2>1
  <2> QED
    BY <1>1, <2>1, <2>2 DEF IInv, TypeOK
<1>8. LocalSound' /\ SharedSound'
  BY <1>1, <1>2, WindowsKept, LimiterKept DEF Quiet
<1> QED
  BY <1>1, <1>2, <1>5, <1>6, <1>7, <1>8 DEF IInv

LEMMA ConnectedIInv == ASSUME IInv, NEW p \in Processes, Connected(p) PROVE IInv'
<1>1. /\ client' = [client EXCEPT ![p] = [NoClient EXCEPT !.st = "ready"]]
      /\ UNCHANGED <<now, life, stage, window, limiter>>
      /\ req' = [r \in Ids |-> IF r \in Of(p) /\ req[r].pc = "connecting"
                              THEN [req[r] EXCEPT !.pc = "command", !.inflight = TRUE] ELSE req[r]]
  BY DEF Connected
<1>2. ASSUME NEW r \in Ids
      PROVE  Quiet(req[r], req'[r])
  <2>1. Sound(req[r]) /\ req[r] \in Records
    BY DEF IInv, Sound
  <2>2. CASE r \in Of(p) /\ req[r].pc = "connecting"
    <3> DEFINE next == [req[r] EXCEPT !.pc = "command", !.inflight = TRUE]
    <3>1. req'[r] = next
      BY <1>1, <2>2
    <3>2. next \in Records
      BY <2>1 DEF Records, Working
    <3>3. SameRequest(req[r], next) /\ next.pc = "command" /\ next.verdict = req[r].verdict
      BY <2>1 DEF Records, SameRequest
    <3> HIDE DEF next
    <3>4. req[r].pc \in Working /\ next.pc \in Working /\ Entered(req[r])
      BY <2>2, <3>3 DEF Working, Entered
    <3> QED
      BY <2>1, <3>1, <3>2, <3>3, <3>4, GoesOn
  <2>3. CASE ~(r \in Of(p) /\ req[r].pc = "connecting")
    <3>1. req'[r] = req[r]
      BY <1>1, <2>3
    <3> QED
      BY <2>1, <3>1, QuietSame
  <2> QED
    BY <2>2, <2>3
<1>3. [NoClient EXCEPT !.st = "ready"] \in [st : {"none", "connecting", "ready"}, promise : BOOLEAN]
  BY DEF NoClient
<1>4. DOMAIN req' = Ids /\ ClientsOK'
  BY <1>1, <1>3 DEF IInv, TypeOK, ClientsOK
<1> QED
  BY <1>1, <1>2, <1>4, QuietStep

LEMMA BrokenIInv == ASSUME IInv, NEW p \in Processes, Broken(p) PROVE IInv'
<1> DEFINE next == IF \E r \in Of(p) : req[r].pc = "command" THEN NoClient
                   ELSE [NoClient EXCEPT !.st = "connecting"]
<1>1. /\ client' = [client EXCEPT ![p] = next]
      /\ UNCHANGED <<now, life, stage, window, limiter>>
      /\ req' = [r \in Ids |-> IF r \in Of(p) /\ req[r].pc = "command"
                              THEN [req[r] EXCEPT !.pc = "lost"] ELSE req[r]]
  BY DEF Broken
<1>2. ASSUME NEW r \in Ids
      PROVE  Quiet(req[r], req'[r])
  <2>1. Sound(req[r])
    BY DEF IInv
  <2>2. CASE r \in Of(p) /\ req[r].pc = "command"
    BY <1>1, <2>1, <2>2, LostQuiet
  <2>3. CASE ~(r \in Of(p) /\ req[r].pc = "command")
    <3>1. req'[r] = req[r]
      BY <1>1, <2>3
    <3> QED
      BY <2>1, <3>1, QuietSame
  <2> QED
    BY <2>2, <2>3
<1>3. next \in [st : {"none", "connecting", "ready"}, promise : BOOLEAN]
  <2>1. /\ NoClient \in [st : {"none", "connecting", "ready"}, promise : BOOLEAN]
        /\ [NoClient EXCEPT !.st = "connecting"]
             \in [st : {"none", "connecting", "ready"}, promise : BOOLEAN]
    BY DEF NoClient
  <2> QED
    BY <2>1
<1> HIDE DEF next
<1>4. DOMAIN req' = Ids /\ ClientsOK'
  BY <1>1, <1>3 DEF IInv, TypeOK, ClientsOK
<1> QED
  BY <1>1, <1>2, <1>4, QuietStep

(***************************************************************************)
(* The invariant                                                           *)
(***************************************************************************)
LEMMA EmptyAt == ASSUME NEW x PROVE At(<<>>, x) = 0
BY DEF At

LEMMA InitIInv == Init => IInv
<1> SUFFICES ASSUME Init PROVE IInv
  OBVIOUS
<1>1. /\ now = 0 /\ req = [r \in Ids |-> Unsent] /\ limiter = EmptyLimiter
      /\ life = [p \in Processes |-> "new"] /\ stage = [p \in Processes |-> "up"]
      /\ window = [p \in Processes |-> EmptyWindow] /\ client = [p \in Processes |-> NoClient]
  BY DEF Init
<1>2. /\ Unsent.pc = "unsent" /\ Unsent.at = None /\ Unsent.conn = "none"
      /\ Unsent.answer = "none" /\ Unsent.verdict = "none" /\ Unsent.committed = FALSE
  BY DEF Unsent
<1>3. Unsent \in Records
  BY DEF Unsent, Records
<1>4. Sound(Unsent) /\ ~Entered(Unsent)
  BY <1>2, <1>3 DEF Sound, Entered
<1>5. TypeOK
  <2>1. NoClient \in [st : {"none", "connecting", "ready"}, promise : BOOLEAN]
    BY DEF NoClient
  <2>2. now \in 0..MaxTick
    BY <1>1, ServerAssumption
  <2> QED
    BY <1>1, <1>2, <2>1, <2>2 DEF TypeOK
<1>6. Bucket \in Nat
  BY <1>5, BucketIsNat
<1>7. Placed /\ Attended
  BY <1>1, <1>2, ServerAssumption DEF Placed, Attended, Of
<1>8. LocalSound
  <2> SUFFICES ASSUME NEW p \in Processes PROVE WindowSound(p)
    BY <1>1 DEF LocalSound
  <2>1. window[p] = [bucket |-> 0, used |-> <<>>]
    BY <1>1 DEF EmptyWindow
  <2>2. \A m, counter, i : Local(p, m, counter, i) = {}
    BY <1>1, <1>4 DEF Local
  <2>3. \A r \in Ids : ~Entered(req[r])
    BY <1>1, <1>4
  <2>4. window[p].bucket \in 0..Bucket
    BY <1>6, <2>1
  <2>5. DOMAIN window[p].used = {}
    BY <2>1
  <2>6. ASSUME NEW counter \in Counters, NEW i \in Everyone
        PROVE  /\ Cardinality(Local(p, window[p].bucket, counter, i)) <= At(window[p].used, <<counter, i>>)
               /\ i[1] \in DOMAIN LocalLimit[counter] =>
                    \A m \in 0..Bucket : Cardinality(Local(p, m, counter, i)) <= LocalLimit[counter][i[1]]
    <3>1. At(window[p].used, <<counter, i>>) = 0
      BY <2>1, EmptyAt
    <3>2. i[1] \in DOMAIN LocalLimit[counter] => LocalLimit[counter][i[1]] \in Nat
      BY LimitsAssumption DEF Counters
    <3>3. \A m : Cardinality(Local(p, m, counter, i)) = 0
      BY <2>2, NoneOfThem
    <3> QED
      BY <3>1, <3>2, <3>3
  <2> QED
    BY <2>1, <2>3, <2>4, <2>5, <2>6 DEF WindowSound
<1>9. SharedSound
  <2>1. limiter = [count |-> <<>>, until |-> <<>>, registry |-> <<>>]
    BY <1>1 DEF EmptyLimiter
  <2>2. CountersSound(limiter)
    BY <2>1 DEF CountersSound
  <2>3. \A r \in Ids : req[r].verdict # "allowed"
    BY <1>1, <1>2
  <2>4. \A m, counter, i : Allowed(m, counter, i) = {}
    BY <2>3 DEF Allowed
  <2>5. ASSUME NEW counter \in Counters, NEW i \in Everyone
        PROVE  /\ Cardinality(Allowed(Bucket, counter, i)) <= At(limiter.count, <<Bucket, counter, i>>)
               /\ i[1] \in DOMAIN SharedLimit[counter] =>
                    \A m \in 0..Bucket : Cardinality(Allowed(m, counter, i)) <= SharedLimit[counter][i[1]]
    <3>1. At(limiter.count, <<Bucket, counter, i>>) = 0
      BY <2>1, EmptyAt
    <3>2. i[1] \in DOMAIN SharedLimit[counter] => SharedLimit[counter][i[1]] \in Nat
      BY LimitsAssumption DEF Counters
    <3>3. \A m : Cardinality(Allowed(m, counter, i)) = 0
      BY <2>4, NoneOfThem
    <3> QED
      BY <3>1, <3>2, <3>3
  <2> QED
    BY <2>2, <2>3, <2>5 DEF SharedSound
<1> QED
  BY <1>1, <1>4, <1>5, <1>7, <1>8, <1>9 DEF IInv

LEMMA StutterIInv == ASSUME IInv, UNCHANGED vars PROVE IInv'
<1>1. DOMAIN req' = Ids /\ ClientsOK'
  BY ClientsStay DEF IInv, vars
<1>2. \A r \in Ids : Quiet(req[r], req'[r])
  BY QuietSame DEF IInv, vars
<1> QED
  BY <1>1, <1>2, QuietStep DEF vars

LEMMA NextIInv == IInv /\ [Next]_vars => IInv'
<1> SUFFICES ASSUME IInv, [Next]_vars PROVE IInv'
  OBVIOUS
<1>1. ASSUME NEW r \in Ids, NEW p \in Processes, NEW q \in Shapes[r], Arrive(r, p, q)
      PROVE  IInv'
  BY <1>1, ArriveIInv
<1>2. ASSUME NEW r \in Ids,
             \/ Authenticated(r) \/ HandlerReturns(r) \/ IndexReturns(r)
             \/ TransactionFails(r) \/ GiveUp(r) \/ LostWithClient(r)
             \/ CacheReturns(r) \/ RunScript(r) \/ Undelivered(r)
             \/ BodyArrives(r) \/ Deadline(r) \/ Disconnect(r) \/ Deliver(r)
      PROVE  IInv'
  BY <1>2, AuthenticatedIInv, HandlerReturnsIInv, IndexReturnsIInv, TransactionFailsIInv,
     GiveUpIInv, LostWithClientIInv, CacheReturnsIInv, RunScriptIInv, UndeliveredIInv,
     BodyArrivesIInv, DeadlineIInv, DisconnectIInv, DeliverIInv
<1>3. ASSUME NEW p \in Processes,
             \/ Start(p) \/ Bound(p) \/ Signal(p) \/ CutConnections(p)
             \/ ServerClosed(p) \/ ProducerStopped(p) \/ DatabaseClosed(p)
             \/ Connected(p) \/ Broken(p)
      PROVE  IInv'
  BY <1>3, StartIInv, BoundIInv, SignalIInv, CutConnectionsIInv, ServerClosedIInv,
     ProducerStoppedIInv, DatabaseClosedIInv, ConnectedIInv, BrokenIInv
<1> QED
  BY <1>1, <1>2, <1>3, TickIInv, StutterIInv DEF Next

\* The invariant of the API processes, from which the theorems below follow.
THEOREM ApiInvariant == Spec => []IInv
BY InitIInv, NextIInv, PTL DEF Spec

\* Every variable keeps its type, for any processes, requests and limits.
THEOREM ApiTypeOK == Spec => []TypeOK
<1>1. IInv => TypeOK
  BY DEF IInv
<1> QED
  BY <1>1, ApiInvariant, PTL

\* While a request can be answered its process has its database, however
\* many requests and signals there are and whatever the drain meets
\* (server.ts:323).
THEOREM ApiAnsweredBeforeThePoolCloses == Spec => []AnsweredBeforeThePoolCloses
<1>1. IInv => AnsweredBeforeThePoolCloses
  BY DEF IInv, Attended, AnsweredBeforeThePoolCloses, PoolOpen
<1> QED
  BY <1>1, ApiInvariant, PTL

\* What the client of a command does with an answer that leaves it uncertain.
LEMMA ReplayDirective ==
  ASSUME NEW op, Mutates(op), NEW answer \in {"cut", "REQUEST_TIMEOUT", "INTERNAL_ERROR"}
  PROVE  retryDirective(op, answer) = "REPLAY_EXACT_MUTATION"
<1>1. op # "createSession"
  BY MutatingOperations
<1>2. 504 \in errorStatuses(op) /\ 500 \in errorStatuses(op)
  <2>1. errorStatuses(op) = {400, 401, 403, 409, 413, 415, 429, 500, 503, 504}
    BY <1>1, SMT DEF errorStatuses, Mutates, AuthOf
  <2> QED
    BY <2>1
<1>3. CASE answer = "cut"
  <2>1. clientError(op, answer) = "NETWORK_ERROR"
    BY <1>3 DEF clientError
  <2> QED
    BY <2>1, Zenon DEF retryDirective
<1>4. CASE answer # "cut"
  <2>1. API_ERROR_STATUS[answer] \in errorStatuses(op)
    BY <1>2, <1>4 DEF API_ERROR_STATUS
  <2>2. clientError(op, answer) = "API_ERROR"
    BY <1>4, <2>1 DEF clientError
  <2>3. policyAction(op, answer) = "SAME_IDEMPOTENCY_KEY_ONLY"
    BY <1>4 DEF policyAction
  <2> QED
    BY <2>2, <2>3 DEF retryDirective
<1> QED
  BY <1>3, <1>4

\* A command that may have been committed is replayed with its key whenever
\* its client does not hear of its success (retry.ts:62).
THEOREM ApiUncertainIsReplayed == Spec => []UncertainIsReplayed
<1>1. IInv => UncertainIsReplayed
  BY ReplayDirective DEF IInv, Sound, Uncertain, UncertainIsReplayed
<1> QED
  BY <1>1, ApiInvariant, PTL

\* No identity has more requests let through in a minute than the limits,
\* by one process or by Redis, for any limits and any interleaving of the
\* requests (rate-limit.ts:47).
THEOREM ApiAdmittedWithinLimits == Spec => []AdmittedWithinLimits
<1>1. IInv => AdmittedWithinLimits
  <2> SUFFICES ASSUME IInv, NEW i \in Everyone, NEW b \in 0..(now \div Minute),
                      NEW counter \in {"session", "autocomplete", "mutation"}
               PROVE  LET shared(r) == req[r].verdict = "allowed" /\ req[r].bucket = b
                      IN /\ i[1] \in DOMAIN SharedLimit[counter] =>
                              Cardinality(Passed(shared, counter, i)) <= SharedLimit[counter][i[1]]
                         /\ \A p \in Processes :
                              LET here(r) == req[r].at = p /\ req[r].verdict \in {"allowed", "degraded"}
                                             /\ req[r].window = b
                              IN i[1] \in DOMAIN LocalLimit[counter] =>
                                   Cardinality(Passed(here, counter, i)) <= LocalLimit[counter][i[1]]
    BY DEF AdmittedWithinLimits
  <2> DEFINE shared(r) == req[r].verdict = "allowed" /\ req[r].bucket = b
  <2>1. b \in 0..Bucket /\ counter \in Counters
    BY DEF Bucket, Counters
  <2>2. Passed(shared, counter, i) = Allowed(b, counter, i)
    BY DEF Passed, Allowed, CountedFor, Op
  <2>3. i[1] \in DOMAIN SharedLimit[counter] =>
          Cardinality(Allowed(b, counter, i)) <= SharedLimit[counter][i[1]]
    BY <2>1 DEF IInv, SharedSound
  <2>4. ASSUME NEW p \in Processes, i[1] \in DOMAIN LocalLimit[counter]
        PROVE  LET here(r) == req[r].at = p /\ req[r].verdict \in {"allowed", "degraded"}
                              /\ req[r].window = b
               IN Cardinality(Passed(here, counter, i)) <= LocalLimit[counter][i[1]]
    <3> DEFINE here(r) == req[r].at = p /\ req[r].verdict \in {"allowed", "degraded"}
                          /\ req[r].window = b
    <3>1. Passed(here, counter, i) \in SUBSET Local(p, b, counter, i)
      BY DEF Passed, Local, Entered, CountedFor, Op
    <3>2. Local(p, b, counter, i) \in SUBSET Ids
      BY DEF Local
    <3>3. Cardinality(Local(p, b, counter, i)) <= LocalLimit[counter][i[1]]
      BY <2>1, <2>4 DEF IInv, LocalSound, WindowSound
    <3>4. LocalLimit[counter][i[1]] \in Nat
      BY <2>4, LimitsAssumption
    <3>5. /\ Cardinality(Local(p, b, counter, i)) \in Nat
          /\ Cardinality(Passed(here, counter, i)) \in Nat
          /\ Cardinality(Passed(here, counter, i)) <= Cardinality(Local(p, b, counter, i))
      BY <3>1, <3>2, Fewer
    <3> QED
      BY <3>3, <3>4, <3>5
  <2> QED
    BY <2>2, <2>3, <2>4
<1> QED
  BY <1>1, ApiInvariant, PTL

(***************************************************************************)
(* What an accepted configuration of the API server guarantees, for every  *)
(* environment                                                             *)
(***************************************************************************)
\* A secret that is given by neither setting has no value.
LEMMA AbsentIsNone ==
  ASSUME NEW s, Absent(s)
  PROVE  resolveFileSecrets(s) = Unset
BY DEF Absent, resolveFileSecrets

\* Redis is not both enabled and disabled; no mode is an absent setting.
LEMMA UnsetIsNoText ==
  ASSUME NEW e
  PROVE  /\ e.enabled = "true" => ~Disabled(e)
         /\ Unset # "production"
<1>1. Unset # "true" /\ Unset # "production"
  BY UnsetAssumption
<1>2. "true" # "false"
  OBVIOUS
<1> QED BY <1>1, <1>2 DEF Disabled

\* The process that starts signs cursors and hashes the limiter's identities
\* with different keys (parseServerEnvironment, parseApiRedisConfiguration).
THEOREM DistinctKeys ==
  ASSUME NEW e
  PROVE  KeysAreDistinct(e)
<1> DEFINE config == serverConfiguration(e)
<1>1. SUFFICES ASSUME Starts(e)
               PROVE  /\ config.active # config.previous
                      /\ e.enabled = "true" =>
                           resolveFileSecrets(e.hmacKey) \notin {config.active, config.previous}
  BY DEF KeysAreDistinct
<1>2. /\ config.active = resolveFileSecrets(e.activeKey)
      /\ config.previous = resolveFileSecrets(e.previousKey)
  BY DEF serverConfiguration
<1>3. Given(e.activeKey)
  BY <1>1 DEF Starts, parseServerEnvironment, parseCursorKey
<1>4. CASE HasPrevious(e)
  <2>1. config.active # config.previous
    BY <1>1, <1>2, <1>4 DEF Starts, parseServerEnvironment
  <2>2. cursorKeys(e) = {config.active, config.previous}
    BY <1>2, <1>4 DEF cursorKeys
  <2>3. e.enabled = "true" => resolveFileSecrets(e.hmacKey) \notin cursorKeys(e)
    BY <1>1, UnsetIsNoText DEF Starts, parseApiRedisConfiguration
  <2> QED BY <2>1, <2>2, <2>3
<1>5. CASE ~HasPrevious(e)
  <2>1. config.previous = Unset
    BY <1>2, <1>5, AbsentIsNone DEF HasPrevious
  <2>2. config.active # config.previous
    BY <2>1, <1>2, <1>3 DEF Given
  <2>3. config.active \in cursorKeys(e)
    BY <1>2 DEF cursorKeys
  <2>4. ASSUME e.enabled = "true"
        PROVE  /\ resolveFileSecrets(e.hmacKey) \notin cursorKeys(e)
               /\ Given(e.hmacKey)
    BY <1>1, <2>4, UnsetIsNoText DEF Starts, parseApiRedisConfiguration
  <2> QED BY <2>1, <2>2, <2>3, <2>4 DEF Given
<1> QED BY <1>4, <1>5

\* In production: https, __Host- cookies, secrets from files, TLS to Redis
\* (requireFilesInProduction, redisUrl), also under LOREMASTER_REDIS_MODE.
THEOREM SealedProduction ==
  ASSUME NEW e
  PROVE  ProductionIsSealed(e)
<1>1. SUFFICES ASSUME Starts(e), e.mode = "production"
               PROVE  /\ serverConfiguration(e).origin = "https"
                      /\ serverConfiguration(e).secureCookies
                      /\ \A s \in serverSecrets(e) \cup apiSecrets(e) : s.text = Unset
                      /\ e.enabled = "true" =>
                           \A u \in {e.cacheUrl, e.limiterUrl, e.producerUrl} :
                              resolveFileSecrets(u).tls
  BY DEF ProductionIsSealed
<1>2. e.origin = "https"
  BY <1>1 DEF Starts, parseServerEnvironment, parseOrigin
<1>3. \A s \in serverSecrets(e) : s.text = Unset
  BY <1>1 DEF Starts, parseServerEnvironment, requireFilesInProduction
<1>4. parseApiRedisConfiguration(e, cursorKeys(e)) /\ modeAgrees(e)
  BY <1>1 DEF Starts, parseApiRedisConfiguration
<1>5. e.mode \in {Unset, redisMode(e)}
  BY <1>4 DEF modeAgrees
<1>6. CASE Disabled(e)
  <2>1. \A s \in apiSecrets(e) : s.text = Unset
    BY <1>6 DEF Disabled, Absent
  <2>2. e.enabled # "true"
    BY <1>6, UnsetIsNoText
  <2> QED BY <2>1, <2>2, <1>1, <1>2, <1>3 DEF serverConfiguration
<1>7. CASE ~Disabled(e)
  <2>1. redisMode(e) = "production"
    BY <1>1, <1>5, UnsetIsNoText
  <2>2. \A s \in apiSecrets(e) : s.text = Unset
    BY <2>1, <1>4, <1>7 DEF parseApiRedisConfiguration, fileSecrets, requireFilesInProduction
  <2>3. \A u \in {e.cacheUrl, e.limiterUrl, e.producerUrl} : redisUrl(e, u)
    BY <1>4, <1>7 DEF parseApiRedisConfiguration, roleRedisUrl
  <2>4. \A u \in {e.cacheUrl, e.limiterUrl, e.producerUrl} : resolveFileSecrets(u).tls
    BY <2>1, <2>3 DEF redisUrl
  <2> QED BY <2>2, <2>4, <1>1, <1>2, <1>3 DEF serverConfiguration
<1> QED BY <1>6, <1>7
=============================================================================
