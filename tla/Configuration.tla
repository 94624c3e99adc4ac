--------------------------- MODULE Configuration ---------------------------
(***************************************************************************)
(* What the API server, the worker and the queue observer accept as their  *)
(* configuration (packages/config): settings from the environment, secrets *)
(* from the environment or from files, and the rules that relate settings  *)
(* to one another.  A parser is the condition under which it does not      *)
(* throw; a configuration is what the process then runs with.              *)
(***************************************************************************)
EXTENDS Integers, Sequences

CONSTANTS Unset,   \* a setting that is not given
          Refused  \* a value whose form the parser refuses

\* Neither is a text that the parsers accept of a mode or of a switch.
ASSUME UnsetAssumption ==
  {"local", "production", "true", "false"} \cap {Unset, Refused} = {}

(***************************************************************************)
(* Secrets: [text, file], the setting and the one with the suffix _FILE.   *)
(***************************************************************************)

\* "sound" is a file the process may trust: an absolute path without links
\* to a small regular file, read-only, of root or of the process's user.
readSecret(file) == IF file.sound THEN file.value ELSE Refused

resolveFileSecrets(secret) ==
  IF secret.file = Unset THEN secret.text
  ELSE IF secret.text # Unset THEN Refused ELSE readSecret(secret.file)

requireFilesInProduction(mode, secrets) ==
  mode = "production" => \A s \in secrets : s.text = Unset

Given(secret) == resolveFileSecrets(secret) \notin {Unset, Refused}
Absent(secret) == secret.text = Unset /\ secret.file = Unset

(***************************************************************************)
(* The API server: parseServerEnvironment                                  *)
(***************************************************************************)
Modes == {"local", "production"}

exactInteger(raw, minimum, maximum) ==
  raw = Unset \/ (raw # Refused /\ minimum <= raw /\ raw <= maximum)

fixedInteger(raw, expected) == raw \in {Unset, expected}

listenHost(host) == host \in {Unset, "127.0.0.1", "0.0.0.0"}

validateDatabaseUrl(secret) == Given(secret)

parseOrigin(origin, mode) ==
  origin = "https" \/ (origin = "http" /\ mode # "production")

\* An optional list of distinct networks.
parseTrustedProxies(proxies) ==
  /\ \A i \in DOMAIN proxies : proxies[i] # Refused
  /\ \A i, j \in DOMAIN proxies : proxies[i] = proxies[j] => i = j

\* A key is its version and its material; the previous one may be missing.
parseCursorKey(version, material, requiredKey) ==
  \/ ~requiredKey /\ version = Unset /\ Absent(material)
  \/ version \notin {Unset, Refused} /\ Given(material)

HasPrevious(e) == e.previousVersion # Unset \/ ~Absent(e.previousKey)

serverSecrets(e) == {e.database, e.activeKey, e.previousKey}

\* The cookies are named for the mode: __Host- in production.
expectedName(mode) == IF mode = "production" THEN "__Host-" ELSE "loremaster_local_"

parseServerEnvironment(e) ==
  /\ \A s \in serverSecrets(e) : resolveFileSecrets(s) # Refused
  /\ ~e.unknownKey
  /\ e.mode \in Modes
  /\ requireFilesInProduction(e.mode, serverSecrets(e))
  /\ validateDatabaseUrl(e.database)
  /\ parseOrigin(e.origin, e.mode)
  /\ listenHost(e.listenHost)
  /\ exactInteger(e.port, 1, 65535)
  /\ parseTrustedProxies(e.proxies)
  /\ e.cookieNames \in {Unset, expectedName(e.mode)}
  /\ fixedInteger(e.commandMs, 5000) /\ fixedInteger(e.lockMs, 1000)
  /\ fixedInteger(e.statementMs, 3000)
  /\ parseCursorKey(e.activeVersion, e.activeKey, TRUE)
  /\ parseCursorKey(e.previousVersion, e.previousKey, FALSE)
  /\ fixedInteger(e.graceSeconds, 86400)
  /\ HasPrevious(e) =>
       /\ e.activeVersion # e.previousVersion
       /\ resolveFileSecrets(e.activeKey) # resolveFileSecrets(e.previousKey)
  /\ exactInteger(e.guestCapacity, 300, 1000000)
  /\ exactInteger(e.ipCapacity, 300, 1000000)

serverConfiguration(e) ==
  [mode |-> e.mode, origin |-> e.origin,
   secureCookies |-> e.mode = "production", prefix |-> expectedName(e.mode),
   active |-> resolveFileSecrets(e.activeKey),
   previous |-> resolveFileSecrets(e.previousKey)]

\* createApiRuntime's caller hands the cursor keys to the Redis parser.
cursorKeys(e) ==
  {resolveFileSecrets(e.activeKey)} \cup
  (IF HasPrevious(e) THEN {resolveFileSecrets(e.previousKey)} ELSE {})

(***************************************************************************)
(* Redis: parseApiRedisConfiguration and its siblings.  A URL is its user  *)
(* and whether it is rediss:.                                              *)
(***************************************************************************)
redisMode(e) ==
  IF e.redisMode # Unset THEN e.redisMode
  ELSE IF e.mode # Unset THEN e.mode ELSE "local"

\* No setting under the prefixes of Redis, worker and observer is unknown.
validateKeys(e) == ~e.unknownRedisKey

modeAgrees(e) == redisMode(e) \in Modes /\ e.mode \in {Unset, redisMode(e)}

\* Every secret resolves, and in production comes from a file.
fileSecrets(e, secrets) ==
  /\ \A s \in secrets : resolveFileSecrets(s) # Refused
  /\ requireFilesInProduction(redisMode(e), secrets)

redisUrl(e, secret) ==
  /\ Given(secret)
  /\ redisMode(e) = "production" => resolveFileSecrets(secret).tls

\* Each role connects as a user of its own.
roleRedisUrl(e, secret, expectedUser) ==
  redisUrl(e, secret) /\ resolveFileSecrets(secret).user = expectedUser

apiSecrets(e) == {e.cacheUrl, e.limiterUrl, e.producerUrl, e.producerDatabase, e.hmacKey}

Disabled(e) ==
  /\ e.enabled \in {Unset, "false"} /\ e.hmacVersion = Unset
  /\ \A s \in apiSecrets(e) : Absent(s)

parseApiRedisConfiguration(e, cursors) ==
  /\ validateKeys(e) /\ modeAgrees(e)
  /\ \/ Disabled(e)
     \/ /\ e.enabled = "true"
        /\ fileSecrets(e, apiSecrets(e))
        /\ roleRedisUrl(e, e.cacheUrl, "loremaster_api_cache")
        /\ roleRedisUrl(e, e.limiterUrl, "loremaster_api_limiter")
        /\ roleRedisUrl(e, e.producerUrl, "loremaster_producer")
        /\ validateDatabaseUrl(e.producerDatabase)
        /\ Given(e.hmacKey) /\ resolveFileSecrets(e.hmacKey) \notin cursors
        /\ e.hmacVersion \notin {Unset, Refused}

workerSecrets(e) == {e.workerUrl, e.workerCacheUrl, e.workerDatabase}

parseWorkerConfiguration(e) ==
  /\ validateKeys(e) /\ modeAgrees(e)
  /\ fileSecrets(e, workerSecrets(e))
  /\ roleRedisUrl(e, e.workerUrl, "loremaster_worker")
  /\ roleRedisUrl(e, e.workerCacheUrl, "loremaster_worker_cache")
  /\ validateDatabaseUrl(e.workerDatabase)
  /\ exactInteger(e.concurrency, 1, 4)
  /\ listenHost(e.healthHost)

parseObserverConfiguration(e) ==
  /\ validateKeys(e) /\ modeAgrees(e)
  /\ fileSecrets(e, {e.observerUrl})
  /\ roleRedisUrl(e, e.observerUrl, "loremaster_observer")
  /\ listenHost(e.healthHost)

\* The API process starts: runProcess runs both parsers.
Starts(e) ==
  parseServerEnvironment(e) /\ parseApiRedisConfiguration(e, cursorKeys(e))

(***************************************************************************)
(* Properties                                                              *)
(***************************************************************************)

\* The keys that sign leaderboard cursors and the one that hashes the
\* limiter's identities are different keys, whichever of them are given in
\* the environment and whichever in files.
KeysAreDistinct(e) ==
  LET config == serverConfiguration(e)
  IN Starts(e) =>
       /\ config.active # config.previous
       /\ e.enabled = "true" =>
            resolveFileSecrets(e.hmacKey) \notin {config.active, config.previous}

\* A production server runs on an https origin with __Host- cookies, keeps
\* no secret in its environment and talks to Redis over TLS only, even when
\* LOREMASTER_REDIS_MODE is given.
ProductionIsSealed(e) ==
  Starts(e) /\ e.mode = "production" =>
    /\ serverConfiguration(e).origin = "https" /\ serverConfiguration(e).secureCookies
    /\ \A s \in serverSecrets(e) \cup apiSecrets(e) : s.text = Unset
    /\ e.enabled = "true" =>
         \A u \in {e.cacheUrl, e.limiterUrl, e.producerUrl} : resolveFileSecrets(u).tls
=============================================================================
