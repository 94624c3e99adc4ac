---------------------------- MODULE RequestPolicy ----------------------------
(***************************************************************************)
(* What one HTTP request carries, the order in which the API's middleware  *)
(* looks at it, the answer it gets and what the browser's client makes of  *)
(* that answer.  No state: ApiServer runs requests through it.             *)
(***************************************************************************)
EXTENDS Naturals, Sequences, FiniteSetsExt

\* API_OPERATIONS: who may call, and the error statuses a client expects.
AuthOf ==
  [createSession |-> "BOOTSTRAP", getSession |-> "SESSION",
   getCurrentCase |-> "SESSION", startCurrentAttempt |-> "GAMEPLAY_MUTATION",
   getOwnedAttempt |-> "SESSION", runGameplayCommand |-> "GAMEPLAY_MUTATION",
   getSuggestions |-> "SESSION", getProfile |-> "SESSION",
   getLeaderboard |-> "SESSION", healthLive |-> "NONE", healthReady |-> "NONE"]
Operations == DOMAIN AuthOf
Mutates(op) == AuthOf[op] = "GAMEPLAY_MUTATION"
NeedsSession(op) == AuthOf[op] \in {"SESSION", "GAMEPLAY_MUTATION"}
HasBody(op) == AuthOf[op] \in {"BOOTSTRAP", "GAMEPLAY_MUTATION"}

errorStatuses(op) ==
  CASE op = "createSession" -> {400, 403, 413, 415, 429, 500, 503}
    [] Mutates(op) -> {400, 401, 403, 409, 413, 415, 429, 500, 503, 504}
    [] op = "getSuggestions" -> {400, 401, 403, 404, 429, 500, 503}
    [] op = "getOwnedAttempt" -> {400, 401, 403, 404, 500, 503}
    [] op = "getLeaderboard" -> {400, 401, 403, 500, 503}
    [] op = "healthLive" -> {500}
    [] op = "healthReady" -> {500, 503}
    [] OTHER -> {401, 403, 500, 503}

API_ERROR_STATUS ==
  [INVALID_REQUEST |-> 400, INVALID_GUESS |-> 400, AUTHENTICATION_REQUIRED |-> 401,
   REQUEST_FORBIDDEN |-> 403, RESOURCE_NOT_FOUND |-> 404, NO_CURRENT_CASE |-> 409,
   IDEMPOTENCY_CONFLICT |-> 409, STALE_VERSION |-> 409, EVIDENCE_LIMIT |-> 409,
   TERMINAL_ATTEMPT |-> 409, BODY_TOO_LARGE |-> 413, UNSUPPORTED_MEDIA_TYPE |-> 415,
   RATE_LIMITED |-> 429, INTERNAL_ERROR |-> 500, SERVICE_UNAVAILABLE |-> 503,
   REQUEST_TIMEOUT |-> 504]
Codes == DOMAIN API_ERROR_STATUS

(***************************************************************************)
(* A request: its operation, what its headers and cookies amount to, the   *)
(* peer and the X-Forwarded-For chain, and its body.                       *)
(***************************************************************************)
Requests(Guests, Addresses) ==
  [op : Operations, origin : {"none", "exact", "other", "repeated"},
   session : Guests \cup {"none", "repeated", "malformed", "unknown"},
   csrf : {"none", "unequal", "foreign", "match"},
   repeated : BOOLEAN, media : {"json", "other"},
   body : {"small", "declaredLarge", "streamedLarge", "duplicateKey", "wrongShape"},
   fits : BOOLEAN, peer : Addresses, forwarded : Seq(Addresses)]

\* createCorsMiddleware and createRequestPolicy.
OriginRefused(q) ==
  \/ q.origin \in {"other", "repeated"}
  \/ HasBody(q.op) /\ q.origin # "exact"

\* readUniqueCookie and the token's pattern, before the store is asked.
SessionRefused(q) == NeedsSession(q.op) /\ q.session \in {"none", "repeated", "malformed"}

CsrfRefused(q) == Mutates(q.op) /\ q.csrf # "match"

\* The refusals of the validator that need no body, then those that do.
HeadRefusal(q) ==
  IF q.repeated THEN {"INVALID_REQUEST"}
  ELSE IF HasBody(q.op) /\ q.media # "json" THEN {"UNSUPPORTED_MEDIA_TYPE"}
  ELSE IF HasBody(q.op) /\ q.body = "declaredLarge" THEN {"BODY_TOO_LARGE"}
  ELSE {}

BodyRefusal(q) ==
  IF HasBody(q.op) /\ q.body = "streamedLarge" THEN {"BODY_TOO_LARGE"}
  ELSE IF (HasBody(q.op) /\ q.body \in {"duplicateKey", "wrongShape"}) \/ ~q.fits
  THEN {"INVALID_REQUEST"} ELSE {}

(***************************************************************************)
(* The source address and the counters                                     *)
(***************************************************************************)
\* A forwarded chain is believed from a trusted peer only.
AddressRefused(q, Trusted) == q.forwarded # <<>> /\ q.peer \notin Trusted

\* From the peer leftwards, the first hop that is not a trusted proxy.
sourceIpFor(q, Trusted) ==
  LET hops == Append(q.forwarded, q.peer)
  IN hops[Max({1} \cup {i \in DOMAIN hops : hops[i] \notin Trusted})]

category(op) ==
  IF op = "createSession" THEN "session"
  ELSE IF op = "getSuggestions" THEN "autocomplete"
  ELSE IF Mutates(op) THEN "mutation" ELSE "none"
Counted(op) == category(op) # "none"

\* What a counted request is counted for; a session has no guest yet.
Identities(q, Trusted) ==
  {<<"ip", sourceIpFor(q, Trusted)>>} \cup
  (IF q.op = "createSession" THEN {} ELSE {<<"guest", q.session>>})

\* GAMEPLAY_REJECTION_HTTP: what a rejected command is answered.
GAMEPLAY_REJECTION_HTTP ==
  [EVIDENCE_LIMIT |-> "EVIDENCE_LIMIT", IDEMPOTENCY_CONFLICT |-> "IDEMPOTENCY_CONFLICT",
   INVALID_COMMAND |-> "INVALID_REQUEST", SESSION_EXPIRED |-> "AUTHENTICATION_REQUIRED",
   STALE_VERSION |-> "STALE_VERSION", TERMINAL_ATTEMPT |-> "TERMINAL_ATTEMPT",
   UNKNOWN_ATTEMPT |-> "RESOURCE_NOT_FOUND", UNKNOWN_ENTITY |-> "INVALID_GUESS",
   NO_CASE |-> "NO_CURRENT_CASE"]

(***************************************************************************)
(* The client: client.ts and retry.ts                                      *)
(***************************************************************************)
\* What the client makes of an answer; "cut" is a connection that ended.
clientError(op, answer) ==
  IF answer = "cut" THEN "NETWORK_ERROR"
  ELSE IF API_ERROR_STATUS[answer] \notin errorStatuses(op) THEN "MALFORMED_RESPONSE"
  ELSE IF answer = "RATE_LIMITED" THEN "RATE_LIMITED"
  ELSE "API_ERROR"

\* A slip: mutations are looked up in the policy of the reads.
readPolicy(op, code) ==
  IF code \in {"INTERNAL_ERROR", "SERVICE_UNAVAILABLE"} THEN "AFTER_BACKOFF" ELSE "NONE"

policyAction(op, code) ==
  IF Mutates(op)
  THEN CASE code \in {"INTERNAL_ERROR", "SERVICE_UNAVAILABLE", "REQUEST_TIMEOUT"} ->
              "SAME_IDEMPOTENCY_KEY_ONLY"
         [] code = "STALE_VERSION" -> "AFTER_REFRESH_WITH_NEW_COMMAND_KEY"
         [] code = "IDEMPOTENCY_CONFLICT" -> "NEW_VALID_COMMAND_KEY"
         [] OTHER -> "NONE"
  ELSE IF code \in {"INTERNAL_ERROR", "SERVICE_UNAVAILABLE"} THEN "AFTER_BACKOFF"
  ELSE "NONE"

retryDirective(op, answer) ==
  LET kind == clientError(op, answer)
      action == policyAction(op, answer)
  IN CASE kind \in {"NETWORK_ERROR", "MALFORMED_RESPONSE", "RATE_LIMITED"} ->
            IF Mutates(op) THEN "REPLAY_EXACT_MUTATION" ELSE "AUTOMATIC_RETRY"
       [] kind = "API_ERROR" /\ action = "SAME_IDEMPOTENCY_KEY_ONLY" -> "REPLAY_EXACT_MUTATION"
       [] kind = "API_ERROR" /\ action = "AFTER_BACKOFF" -> "AUTOMATIC_RETRY"
       [] kind = "API_ERROR" /\ action = "AFTER_REFRESH_WITH_NEW_COMMAND_KEY" ->
            "REFRESH_THEN_NEW_COMMAND"
       [] kind = "API_ERROR" /\ action = "NEW_VALID_COMMAND_KEY" -> "USE_NEW_COMMAND_KEY"
       [] OTHER -> "DO_NOT_RETRY"
=============================================================================
