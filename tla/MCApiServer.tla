----------------------------- MODULE MCApiServer -----------------------------
(***************************************************************************)
(* ApiServer for TLC: a command or a new browser, and beside it the same   *)
(* again, one without its CSRF token, a read, and a guest who asks for     *)
(* suggestions through a proxy or claims to.  Before it, the configuration *)
(* the process may start with: the keys in every mix of settings and files,*)
(* in both modes, with and without Redis and TLS.                          *)
(***************************************************************************)
EXTENDS ApiServer, Configuration, TLC

CONSTANTS a, b, k1, k2, k3

Valid == [op |-> "runGameplayCommand", origin |-> "exact", session |-> "guest",
          csrf |-> "match", repeated |-> FALSE, media |-> "json", body |-> "small",
          fits |-> TRUE, peer |-> "home", forwarded |-> <<>>]
Forged == [Valid EXCEPT !.csrf = "none"]
Boot == [Valid EXCEPT !.op = "createSession", !.session = "none"]
Read == [Valid EXCEPT !.op = "getProfile", !.origin = "none", !.csrf = "none"]
Suggest == [Read EXCEPT !.op = "getSuggestions", !.peer = "proxy", !.forwarded = <<"office">>]
Spoofed == [Suggest EXCEPT !.peer = "home"]

SmallShapes == (a :> {Valid, Boot} @@ b :> {Valid, Forged, Boot, Read, Suggest, Spoofed})
SmallTrusted == {"proxy"}
One(i, g) == [session |-> [ip |-> i], autocomplete |-> [ip |-> i, guest |-> g],
              mutation |-> [ip |-> i, guest |-> g]]
SmallLocal == [One(2, 2) EXCEPT !.session = [ip |-> 1]]
SmallShared == One(2, 1)
SmallCapacity == [ip |-> 1, guest |-> 1]

InFile(value) == [text |-> Unset, file |-> [sound |-> TRUE, value |-> value]]
InText(value) == [text |-> value, file |-> Unset]
MCSecrets == {InFile(k) : k \in {k1, k2, k3}} \cup {InText(k) : k \in {k1, k2, k3, Unset}}
             \cup {[InFile(k1) EXCEPT !.text = k1]}
Url(user, tls) == InFile([user |-> user, tls |-> tls])

MCEnvironment(mode, rmode, enabled, tls, version, active, previous, hmac) ==
  LET Redis(user) == IF enabled = "true" THEN Url(user, tls) ELSE InText(Unset)
  IN
  [mode |-> mode, redisMode |-> rmode, enabled |-> enabled,
   unknownKey |-> FALSE, unknownRedisKey |-> FALSE, listenHost |-> Unset,
   origin |-> IF tls THEN "https" ELSE "http", port |-> 3000, proxies |-> <<"proxy">>,
   cookieNames |-> Unset, commandMs |-> Unset, lockMs |-> 1000, statementMs |-> Unset,
   guestCapacity |-> Unset, ipCapacity |-> 300, database |-> Url("api", tls),
   activeVersion |-> "a", activeKey |-> active,
   previousVersion |-> version, previousKey |-> previous, graceSeconds |-> Unset,
   cacheUrl |-> Redis("loremaster_api_cache"),
   limiterUrl |-> Redis("loremaster_api_limiter"),
   producerUrl |-> Redis("loremaster_producer"),
   producerDatabase |-> Redis("producer"), hmacKey |-> hmac,
   hmacVersion |-> IF enabled = "true" THEN "h" ELSE Unset]

MCEnvironments ==
  {MCEnvironment(m, r, e, tls, v, a1, p1, h1) :
     m \in Modes, r \in Modes \cup {Unset}, e \in {"true", "false"}, tls \in BOOLEAN,
     v \in {Unset, "b"}, a1, p1, h1 \in MCSecrets}

\* Only a configuration with distinct keys, sealed in production, starts;
\* and in both modes there is one that does.
ASSUME ConfigurationAssumption ==
  /\ \A e \in MCEnvironments : KeysAreDistinct(e) /\ ProductionIsSealed(e)
  /\ \A m \in Modes : \E e \in MCEnvironments :
       Starts(e) /\ e.mode = m /\ e.enabled = "true" /\ HasPrevious(e)
=============================================================================
