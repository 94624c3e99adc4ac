------------------------------ MODULE ApiServer ------------------------------
(***************************************************************************)
(* API processes and the requests they handle, from the connection to the  *)
(* answer, with the limiters, the request deadline, the bounded Redis      *)
(* connection of each process, and the shutdown on SIGTERM.  Node runs one *)
(* callback at a time: a step here ends where the code awaits.             *)
(***************************************************************************)
EXTENDS Naturals, FiniteSets, RequestPolicy, SharedLimiter

CONSTANTS Processes, Ids, None,
          Shapes,       \* [Ids -> sets of the requests a client sends]
          Trusted,      \* trustedProxies
          MaxTick,      \* a bound on time
          MaxSignals    \* how many processes are told to stop

ASSUME ServerAssumption == IsFiniteSet(Ids) /\ None \notin Processes /\ MaxTick \in Nat

VARIABLES now,      \* ticks, by the clocks of Redis and the processes
          life,     \* whether the process listens: start() and its callback
          stage,    \* how far stop() is
          window,   \* the local limiter of each process
          limiter,  \* the shared limiter in Redis
          client,   \* the BoundedRedisConnection of each process's limiter
          req       \* the requests

vars == <<now, life, stage, window, limiter, client, req>>

Unsent == [pc |-> "unsent", at |-> None, q |-> None, answer |-> "none", conn |-> "none",
           aborted |-> FALSE, inflight |-> FALSE, committed |-> FALSE,
           window |-> 0, verdict |-> "none", bucket |-> 0]
NoClient == [st |-> "none", promise |-> FALSE]
Working == {"auth", "connecting", "command", "lost", "body", "handler", "cache", "index"}

TypeOK ==
  /\ now \in 0..MaxTick
  /\ life \in [Processes -> {"new", "binding", "serving", "late"}]
  /\ stage \in [Processes -> {"up", "draining", "producer", "closing", "stopped"}]
  /\ client \in [Processes -> [st : {"none", "connecting", "ready"}, promise : BOOLEAN]]
  /\ \A r \in Ids :
       /\ req[r].pc \in {"unsent", "done"} \cup Working
       /\ req[r].answer \in {"none", "success", "cut"} \cup Codes
       /\ req[r].conn \in {"none", "open", "delivered", "cut"}
       /\ req[r].verdict \in {"none", "allowed", "denied", "degraded"}

Init ==
  /\ now = 0
  /\ life = [p \in Processes |-> "new"] /\ stage = [p \in Processes |-> "up"]
  /\ window = [p \in Processes |-> EmptyWindow] /\ limiter = EmptyLimiter
  /\ client = [p \in Processes |-> NoClient] /\ req = [r \in Ids |-> Unsent]

Op(r) == req[r].q.op
Of(p) == {r \in Ids : req[r].at = p}
PoolOpen(p) == stage[p] \in {"up", "draining", "producer"}
Accepting(p) == life[p] = "late" \/ (life[p] = "serving" /\ stage[p] = "up")

Set(r, this) == req' = [req EXCEPT ![r] = this]
Answer(this, code) ==
  [this EXCEPT !.pc = "done", !.aborted = FALSE,
               !.answer = IF this.conn = "cut" THEN "cut" ELSE code]
Cut(this) == [this EXCEPT !.conn = "cut", !.answer = IF this.pc = "done" THEN "cut" ELSE @]
OneOf(codes) == CHOOSE code \in codes : TRUE

(***************************************************************************)
(* The middleware of one request.  Each operator takes the request's       *)
(* record and gives the next one, up to where the code awaits.             *)
(***************************************************************************)
\* invokeHandler, with what a closed pool makes of the handlers.
Handle(this) ==
  CASE this.q.op \in {"getSession", "healthLive"} -> Answer(this, "success")
    [] this.q.op \notin {"getSession", "healthLive"} /\ PoolOpen(this.at) ->
         [this EXCEPT !.pc = "handler"]
    [] this.q.op \in {"createSession", "healthReady"} /\ ~PoolOpen(this.at) ->
         Answer(this, "SERVICE_UNAVAILABLE")
    [] OTHER -> Answer(this, "INTERNAL_ERROR")

Parsed(this) ==
  IF BodyRefusal(this.q) # {} THEN Answer(this, OneOf(BodyRefusal(this.q))) ELSE Handle(this)

\* readBoundedBody: a signal that has fired already ends it at once.
AwaitBody(this) ==
  IF this.aborted THEN Answer(this, "REQUEST_TIMEOUT") ELSE [this EXCEPT !.pc = "body"]

\* requestValidator.
Validate(this) ==
  IF HeadRefusal(this.q) # {} THEN Answer(this, OneOf(HeadRefusal(this.q)))
  ELSE IF HasBody(this.q.op) THEN AwaitBody(this) ELSE Parsed(this)

\* The limiter's catch: without a verdict of Redis the request goes on.
Degraded(this) == Validate([this EXCEPT !.verdict = "degraded"])

\* The client is destroyed: the others that use it fail too, later.
FailCommand(r, this) ==
  /\ client' = [client EXCEPT ![this.at] = NoClient]
  /\ req' = [s \in Ids |->
       IF s = r THEN Degraded(this)
       ELSE IF req[s].at = this.at /\ req[s].pc \in {"connecting", "command"}
       THEN [req[s] EXCEPT !.pc = "lost"] ELSE req[s]]

\* consume() and BoundedRedisConnection.run: a client is connected by the
\* first run and shared; one that connects while its promise has been
\* dropped refuses to be connected again.
Consume(r, this) ==
  LET p == this.at
      c == client[p]
  IN \/ ~PoolOpen(p) /\ Set(r, Degraded(this)) /\ UNCHANGED client
     \/ /\ PoolOpen(p) /\ c.st = "ready" /\ UNCHANGED client
        /\ Set(r, [this EXCEPT !.pc = "command", !.inflight = TRUE])
     \/ /\ PoolOpen(p) /\ (c.st = "none" \/ c.promise)
        /\ Set(r, [this EXCEPT !.pc = "connecting"])
        /\ client' = [client EXCEPT ![p] = [st |-> "connecting", promise |-> TRUE]]
     \/ PoolOpen(p) /\ c.st = "connecting" /\ ~c.promise /\ FailCommand(r, this)

\* createRateLimitControl: the local window, then the shared one.
Limit(r, this) ==
  LET counter == category(this.q.op)
      bucket == now \div Minute
      ids == Identities(this.q, Trusted)
      mine == WindowAt(window[this.at], bucket)
  IN \/ /\ ~Counted(this.q.op) /\ Set(r, Validate(this)) /\ UNCHANGED <<window, client>>
     \/ /\ Counted(this.q.op) /\ AddressRefused(this.q, Trusted)
        /\ Set(r, Answer(this, "REQUEST_FORBIDDEN")) /\ UNCHANGED client
        /\ window' = [window EXCEPT ![this.at] = mine]
     \/ /\ Counted(this.q.op) /\ ~AddressRefused(this.q, Trusted)
        /\ LocallyDenied(mine, counter, ids)
        /\ Set(r, Answer(this, "RATE_LIMITED")) /\ UNCHANGED client
        /\ window' = [window EXCEPT ![this.at] = mine]
     \/ /\ Counted(this.q.op) /\ ~AddressRefused(this.q, Trusted)
        /\ ~LocallyDenied(mine, counter, ids)
        /\ window' = [window EXCEPT ![this.at] = Charge(mine, counter, ids)]
        /\ Consume(r, [this EXCEPT !.window = bucket])

AfterAuth(r, this) ==
  \/ /\ CsrfRefused(this.q) /\ Set(r, Answer(this, "REQUEST_FORBIDDEN"))
     /\ UNCHANGED <<window, client>>
  \/ ~CsrfRefused(this.q) /\ Limit(r, this)

(***************************************************************************)
(* Requests                                                                *)
(***************************************************************************)
Arrive(r, p, q) ==
  LET this == [Unsent EXCEPT !.pc = "auth", !.at = p, !.q = q, !.conn = "open"]
  IN /\ req[r].pc = "unsent" /\ Accepting(p)
     /\ IF NeedsSession(q.op) \/ OriginRefused(q)
        THEN /\ Set(r, IF OriginRefused(q) THEN Answer(this, "REQUEST_FORBIDDEN")
                       ELSE IF SessionRefused(q) THEN Answer(this, "AUTHENTICATION_REQUIRED")
                       ELSE IF PoolOpen(p) THEN this ELSE Answer(this, "SERVICE_UNAVAILABLE"))
             /\ UNCHANGED <<window, client>>
        ELSE AfterAuth(r, this)
     /\ UNCHANGED <<now, life, stage, limiter>>

\* authenticateSession returns, or its transaction fails.
Authenticated(r) ==
  /\ req[r].pc = "auth"
  /\ IF req[r].q.session = "unknown"
     THEN Set(r, Answer(req[r], "AUTHENTICATION_REQUIRED")) /\ UNCHANGED <<window, client>>
     ELSE AfterAuth(r, req[r])
  /\ UNCHANGED <<now, life, stage, limiter>>

\* Redis runs the script, also for a request that no longer waits for it.
RunScript(r) ==
  LET result == Script(limiter, now, category(Op(r)), Identities(req[r].q, Trusted))
      this == [req[r] EXCEPT !.inflight = FALSE]
      told == [this EXCEPT !.verdict = "allowed", !.bucket = now \div Minute]
  IN /\ req[r].inflight /\ limiter' = result.limiter
     /\ Set(r, IF this.pc # "command" THEN this
               ELSE IF result.admitted THEN Validate(told)
               ELSE Answer([this EXCEPT !.verdict = "denied"], "RATE_LIMITED"))
     /\ UNCHANGED <<now, life, stage, window, client>>

\* A script whose connection was destroyed may never reach Redis.
Undelivered(r) ==
  /\ req[r].inflight /\ req[r].pc # "command" /\ Set(r, [req[r] EXCEPT !.inflight = FALSE])
  /\ UNCHANGED <<now, life, stage, window, limiter, client>>

\* The connect (500 ms) or the command (100 ms) takes too long or fails.
GiveUp(r) ==
  /\ req[r].pc \in {"connecting", "command"} /\ FailCommand(r, req[r])
  /\ UNCHANGED <<now, life, stage, window, limiter>>

\* One that failed with another's client drops the promise of the newer one.
LostWithClient(r) ==
  /\ req[r].pc = "lost" /\ Set(r, Degraded(req[r]))
  /\ client' = [client EXCEPT ![req[r].at].promise = FALSE]
  /\ UNCHANGED <<now, life, stage, window, limiter>>

BodyArrives(r) ==
  /\ req[r].pc = "body" /\ Set(r, Parsed(req[r]))
  /\ UNCHANGED <<now, life, stage, window, limiter, client>>

\* The handler's transaction ends: authorizeAttemptSuggestions is followed
\* by the cache; a command is played or rejected.
HandlerReturns(r) ==
  /\ req[r].pc = "handler"
  /\ \/ Op(r) = "getSuggestions" /\ Set(r, [req[r] EXCEPT !.pc = "cache"])
     \/ Op(r) # "getSuggestions" /\ Set(r, [Answer(req[r], "success") EXCEPT !.committed = TRUE])
     \/ Mutates(Op(r)) /\ Set(r, Answer(req[r], GAMEPLAY_REJECTION_HTTP["STALE_VERSION"]))
     \/ Op(r) = "getSuggestions" /\ Set(r, Answer(req[r], "RESOURCE_NOT_FOUND"))
  /\ UNCHANGED <<now, life, stage, window, limiter, client>>

\* The cache answers, or fails in any way: then the index is read.
CacheReturns(r) ==
  /\ req[r].pc = "cache"
  /\ \/ Set(r, Answer(req[r], "success"))
     \/ Set(r, IF PoolOpen(req[r].at) THEN [req[r] EXCEPT !.pc = "index"]
               ELSE Answer(req[r], "INTERNAL_ERROR"))
  /\ UNCHANGED <<now, life, stage, window, limiter, client>>

IndexReturns(r) ==
  /\ req[r].pc = "index"
  /\ \E code \in {"success", "RESOURCE_NOT_FOUND"} : Set(r, Answer(req[r], code))
  /\ UNCHANGED <<now, life, stage, window, limiter, client>>

\* A transaction fails or is aborted.  Of a write the API may not know
\* whether it is committed.
TransactionFails(r) ==
  LET other == IF req[r].pc = "auth" \/ Op(r) \in {"createSession", "healthReady"}
               THEN "SERVICE_UNAVAILABLE" ELSE "INTERNAL_ERROR"
  IN /\ req[r].pc \in {"auth", "handler", "index"}
     /\ \E code \in {"REQUEST_TIMEOUT", other}, committed \in BOOLEAN :
          /\ committed => req[r].pc = "handler" /\ Mutates(Op(r))
          /\ Set(r, [Answer(req[r], code) EXCEPT !.committed = committed])
     /\ UNCHANGED <<now, life, stage, window, limiter, client>>

\* What an abort does at once: the body is no longer awaited.
Aborted(this) ==
  CASE this.pc = "done" -> this
    [] this.pc = "body" -> Answer(this, "REQUEST_TIMEOUT")
    [] OTHER -> [this EXCEPT !.aborted = TRUE]

Deadline(r) ==
  /\ req[r].pc \in Working /\ ~req[r].aborted /\ Set(r, Aborted(req[r]))
  /\ UNCHANGED <<now, life, stage, window, limiter, client>>

Disconnect(r) ==
  /\ req[r].conn = "open" /\ Set(r, Cut(Aborted(req[r])))
  /\ UNCHANGED <<now, life, stage, window, limiter, client>>

\* The answer reaches the client, which may read as slowly as it likes.
Deliver(r) ==
  /\ req[r].pc = "done" /\ req[r].conn = "open"
  /\ Set(r, [req[r] EXCEPT !.conn = "delivered"])
  /\ UNCHANGED <<now, life, stage, window, limiter, client>>

(***************************************************************************)
(* Processes                                                               *)
(***************************************************************************)
Start(p) ==
  /\ life[p] = "new" /\ life' = [life EXCEPT ![p] = "binding"]
  /\ UNCHANGED <<now, stage, window, limiter, client, req>>

Bound(p) ==
  /\ life[p] = "binding"
  /\ life' = [life EXCEPT ![p] = IF stage[p] = "up" THEN "serving" ELSE "late"]
  /\ UNCHANGED <<now, stage, window, limiter, client, req>>

ToStage(p, s) == stage' = [stage EXCEPT ![p] = s]

\* stop(): server.close is called if start() is over.
Signal(p) ==
  /\ life[p] # "new" /\ stage[p] = "up"
  /\ Cardinality({o \in Processes : stage[o] # "up"}) < MaxSignals
  /\ ToStage(p, IF life[p] = "serving" THEN "draining" ELSE "producer")
  /\ UNCHANGED <<now, life, window, limiter, client, req>>

drainIsOver(p) == stage[p] = "draining"

\* closeAllConnections, ten seconds after the signal.
CutConnections(p) ==
  /\ drainIsOver(p) /\ \E r \in Of(p) : req[r].conn = "open"
  /\ req' = [r \in Ids |-> IF r \in Of(p) /\ req[r].conn = "open"
                           THEN Cut(Aborted(req[r])) ELSE req[r]]
  /\ UNCHANGED <<now, life, stage, window, limiter, client>>

\* A slip: the connections are not waited for.
closedAtOnce(p) == stage[p] = "draining"

drained(p) == stage[p] = "draining" /\ \A r \in Of(p) : req[r].conn # "open"

ServerClosed(p) ==
  /\ drained(p) /\ ToStage(p, "producer")
  /\ UNCHANGED <<now, life, window, limiter, client, req>>

\* The producer has stopped: Redis is closed and the pool begins to end.
ProducerStopped(p) ==
  /\ stage[p] = "producer" /\ ToStage(p, "closing")
  /\ client' = [client EXCEPT ![p] = NoClient]
  /\ req' = [r \in Ids |-> IF r \in Of(p) /\ req[r].pc \in {"connecting", "command"}
                           THEN [req[r] EXCEPT !.pc = "lost"] ELSE req[r]]
  /\ UNCHANGED <<now, life, window, limiter>>

\* pool.end() waits for the clients that are lent.
DatabaseClosed(p) ==
  /\ stage[p] = "closing" /\ \A r \in Of(p) : req[r].pc \notin {"auth", "handler", "index"}
  /\ ToStage(p, "stopped")
  /\ UNCHANGED <<now, life, window, limiter, client, req>>

Connected(p) ==
  /\ client[p].st = "connecting" /\ client' = [client EXCEPT ![p] = [NoClient EXCEPT !.st = "ready"]]
  /\ req' = [r \in Ids |-> IF r \in Of(p) /\ req[r].pc = "connecting"
                           THEN [req[r] EXCEPT !.pc = "command", !.inflight = TRUE] ELSE req[r]]
  /\ UNCHANGED <<now, life, stage, window, limiter>>

\* The connection breaks: a command that fails with it destroys the client,
\* which otherwise connects anew by itself.
Broken(p) ==
  /\ client[p].st = "ready"
  /\ client' = [client EXCEPT ![p] = IF \E r \in Of(p) : req[r].pc = "command" THEN NoClient
                                     ELSE [NoClient EXCEPT !.st = "connecting"]]
  /\ req' = [r \in Ids |-> IF r \in Of(p) /\ req[r].pc = "command"
                           THEN [req[r] EXCEPT !.pc = "lost"] ELSE req[r]]
  /\ UNCHANGED <<now, life, stage, window, limiter>>

Tick ==
  /\ now < MaxTick /\ now' = now + 1 /\ limiter' = Forget(limiter, now')
  /\ UNCHANGED <<life, stage, window, client, req>>

Next ==
  \/ \E r \in Ids, p \in Processes : \E q \in Shapes[r] : Arrive(r, p, q)
  \/ \E r \in Ids : \/ Authenticated(r) \/ HandlerReturns(r) \/ IndexReturns(r)
                    \/ TransactionFails(r) \/ GiveUp(r) \/ LostWithClient(r)
                    \/ CacheReturns(r) \/ RunScript(r) \/ Undelivered(r)
                    \/ BodyArrives(r) \/ Deadline(r) \/ Disconnect(r) \/ Deliver(r)
  \/ \E p \in Processes : \/ Start(p) \/ Bound(p) \/ Signal(p) \/ CutConnections(p)
                          \/ ServerClosed(p) \/ ProducerStopped(p) \/ DatabaseClosed(p)
                          \/ Connected(p) \/ Broken(p)
  \/ Tick

Spec == Init /\ [][Next]_vars

-----------------------------------------------------------------------------
(***************************************************************************)
(* Properties                                                              *)
(***************************************************************************)
Passed(P(_), counter, i) ==
  {r \in Ids : req[r].at # None /\ P(r) /\ category(Op(r)) = counter
               /\ i \in Identities(req[r].q, Trusted)}
Everyone == UNION {Identities(q, Trusted) : q \in UNION {Shapes[r] : r \in Ids}}

\* However requests overlap, time out or lose Redis: of those Redis admitted
\* in one of its minutes no identity has more than the shared limit, and of
\* those one process let through in a minute, with Redis or without, none
\* has more than the local one (rate-limit.ts:47).
AdmittedWithinLimits ==
  \A i \in Everyone, b \in 0..(now \div Minute), counter \in {"session", "autocomplete", "mutation"} :
    LET shared(r) == req[r].verdict = "allowed" /\ req[r].bucket = b
    IN /\ i[1] \in DOMAIN SharedLimit[counter] =>
            Cardinality(Passed(shared, counter, i)) <= SharedLimit[counter][i[1]]
       /\ \A p \in Processes :
            LET here(r) == req[r].at = p /\ req[r].verdict \in {"allowed", "degraded"}
                           /\ req[r].window = b
            IN i[1] \in DOMAIN LocalLimit[counter] =>
                 Cardinality(Passed(here, counter, i)) <= LocalLimit[counter][i[1]]

\* While a request can still be answered, the process that handles it has
\* its database: stop() closes the pool after the last connection
\* (server.ts:323).  A process signalled while it binds is the exception.
AnsweredBeforeThePoolCloses ==
  \A r \in Ids : req[r].pc \in Working /\ req[r].conn = "open" /\ life[req[r].at] # "late" =>
                   PoolOpen(req[r].at)

\* A command that was committed and whose success the client does not hear
\* of is replayed with its key, whatever it heard instead (retry.ts:62).
UncertainIsReplayed ==
  \A r \in Ids : req[r].pc = "done" /\ req[r].committed /\ Mutates(Op(r)) /\ req[r].answer # "success" =>
                   retryDirective(Op(r), req[r].answer) = "REPLAY_EXACT_MUTATION"
=============================================================================
