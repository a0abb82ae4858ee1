------------------------------- MODULE Server -------------------------------
(***************************************************************************)
(* What every request passes before its handler, and how the process ends: *)
(* the router and its layers (app.rs), authentication and roles            *)
(* (middleware/auth.rs), the bucket a request is counted in                *)
(* (middleware/rate_limit.rs), the response headers                        *)
(* (middleware/headers.rs) and graceful shutdown (main.rs).  The limiter   *)
(* is FixedWindow, which RateLimiter implements; what a handler does is in *)
(* SecretService, Signing and Hashing.                                     *)
(***************************************************************************)
EXTENDS Naturals, Sequences

CONSTANTS
  Conns,        \* connections of clients
  Environments, \* values of APP_API_KEYS, a sequence of entries, and APP_API_KEY
  Requests,     \* [peer, forwarded, key, path], with "" for an absent header
  Max, Window,  \* of the limiter
  Closed, NoAnswer, NoRequest, NoReply

VARIABLES
  environment, \* of this life of the process
  phase,       \* of the process
  conn,        \* per connection the layer its request is at, and the reply
  window, answer \* the limiter's

vars == <<environment, phase, conn, window, answer>>

-----------------------------------------------------------------------------
\* The paths that are routed, by the role they take.
EncryptPaths == {"/encrypt", "/v1/crypto/encrypt", "/v1/crypto/sign", "/v1/crypto/hash"}
DecryptPaths == {"/decrypt", "/v1/crypto/decrypt", "/v1/crypto/verify"}

\* APP_API_KEYS as its entries, trimmed and without the empty ones.
ASSUME ServerAssumption ==
  /\ Max \in Nat /\ Window \in Nat \ {0}
  /\ \A env \in Environments : env.keys \in Seq([key : STRING, role : STRING])
  /\ \A r \in Requests : r.path \in EncryptPaths \cup DecryptPaths

\* Mutant: a role that may decrypt may sign.
Allows_SignToo(role, path) ==
  CASE role = "Both"        -> TRUE
    [] role = "EncryptOnly" -> path \in EncryptPaths
    [] role = "DecryptOnly" -> path \in DecryptPaths \cup {"/v1/crypto/sign"}

Allows(role, path) ==
  CASE role = "Both"        -> TRUE
    [] role = "EncryptOnly" -> path \in EncryptPaths
    [] role = "DecryptOnly" -> path \in DecryptPaths

\* Role::parse, on a word that is trimmed and in lower case; an entry without
\* a colon has none, and is Both as any other word is.
Parse(word) ==
  CASE word \in {"encrypt", "enc", "e"} -> "EncryptOnly"
    [] word \in {"decrypt", "dec", "d"} -> "DecryptOnly"
    [] OTHER                            -> "Both"

\* Mutant: the first entry of a key stays (entry().or_insert() for insert()).
LastFor_First(entries, key) ==
  CHOOSE i \in DOMAIN entries :
    /\ entries[i].key = key
    /\ \A j \in DOMAIN entries : j < i => entries[j].key # key

\* The entry of APP_API_KEYS that is inserted last for a key.
LastFor(entries, key) ==
  CHOOSE i \in DOMAIN entries :
    /\ entries[i].key = key
    /\ \A j \in DOMAIN entries : j > i => entries[j].key # key

\* Mutant: an APP_API_KEY that is set and empty is taken for a key.
ApiKeys_EmptyKey(env) ==
  IF env.keys # <<>>
    THEN [k \in {env.keys[i].key : i \in DOMAIN env.keys} |->
            Parse(env.keys[LastFor(env.keys, k)].role)]
    ELSE [k \in {env.key} |-> "Both"]

\* ApiKeyStore::from_env: key -> Role.  APP_API_KEY counts when there is no entry.
ApiKeys(env) ==
  IF env.keys # <<>>
    THEN [k \in {env.keys[i].key : i \in DOMAIN env.keys} |->
            Parse(env.keys[LastFor(env.keys, k)].role)]
    ELSE [k \in {env.key} \ {""} |-> "Both"]

\* What require_api_key returns instead of going on, or 0.
Refusal(env, r) ==
  LET keys == ApiKeys(env)
  IN CASE DOMAIN keys = {}                -> 500
       [] DOMAIN keys # {} /\ r.key \notin DOMAIN keys -> 401
       [] r.key \in DOMAIN keys /\ ~Allows(keys[r.key], r.path) -> 403
       [] OTHER                           -> 0

\* No layer inserts the peer's address, so the header decides.
ClientIp(r) == IF r.forwarded = "" THEN "unknown" ELSE r.forwarded

Bucket(r) == [ip |-> ClientIp(r), key |-> IF r.key = "" THEN "anon" ELSE r.key]

Buckets == {Bucket(r) : r \in Requests}

FW == INSTANCE FixedWindow

-----------------------------------------------------------------------------
\* Mutant: the layer that is added first is the outermost.
Route_AsAdded == <<"headers", "limit", "auth", "body", "handler">>

\* The way of a request.  protected_routes adds security_headers, then
\* rate_limit_middleware, then require_api_key, each around those before it;
\* inside them all the handler's extractor awaits the body.
Route == <<"auth", "limit", "headers", "body", "handler">>

Position(layer) == CHOOSE i \in DOMAIN Route : Route[i] = layer

Idle == [stage |-> "idle", request |-> NoRequest, reply |-> NoReply, last |-> FALSE]
Gone == [Idle EXCEPT !.stage = "gone"]

Up == phase \in {"serving", "draining"}

\* The request at a layer goes on to the next one.
Pass(c) ==
  conn' = [conn EXCEPT ![c] = [conn[c] EXCEPT !.stage = Route[Position(conn[c].stage) + 1]]]

\* An answer from a layer goes out through the layers around it; those inside
\* never see it.
Reply(c, status) ==
  LET reply == [status  |-> status,
                headers |-> Position("headers") < Position(conn[c].stage)]
  IN conn' = [conn EXCEPT ![c] = [stage   |-> "answered",
                                  request |-> conn[c].request,
                                  reply   |-> reply,
                                  last    |-> conn[c].last]]

-----------------------------------------------------------------------------
\* A client connects; the listener is closed once the signal came.
Connect(c) ==
  /\ phase = "serving"
  /\ conn[c] = Gone
  /\ conn' = [conn EXCEPT ![c] = Idle]
  /\ UNCHANGED <<environment, phase, window, answer>>

\* The head of a request is there.  A connection that was told of the shutdown
\* takes no more.
Take(c, r) ==
  /\ Up
  /\ conn[c].stage = "idle" /\ ~conn[c].last
  /\ conn' = [conn EXCEPT ![c] = [stage |-> Route[1], request |-> r, reply |-> NoReply, last |-> FALSE]]
  /\ UNCHANGED <<environment, phase, window, answer>>

require_api_key(c) ==
  /\ conn[c].stage = "auth"
  /\ LET status == Refusal(environment, conn[c].request)
     IN IF status = 0 THEN Pass(c) ELSE Reply(c, status)
  /\ UNCHANGED <<environment, phase, window, answer>>

\* The request is counted here, before its body is awaited.
rate_limit_middleware(c) ==
  /\ conn[c].stage = "limit"
  /\ LET b == Bucket(conn[c].request)
     IN \/ FW!Grant(b) /\ Pass(c)
        \/ FW!Refuse(b) /\ Reply(c, 429)
  /\ UNCHANGED <<environment, phase>>

\* security_headers acts on the way back: Reply.
security_headers(c) ==
  /\ conn[c].stage = "headers"
  /\ Pass(c)
  /\ UNCHANGED <<environment, phase, window, answer>>

\* The client sends the rest of its request, or never does.
BodyArrives(c) ==
  /\ conn[c].stage = "body"
  /\ Pass(c)
  /\ UNCHANGED <<environment, phase, window, answer>>

\* The handler answers; 200 stands for whatever its answer is.
Handle(c) ==
  /\ conn[c].stage = "handler"
  /\ Reply(c, 200)
  /\ UNCHANGED <<environment, phase, window, answer>>

\* Mutant: the connection is ready for the next request with the reply in place.
Sent_Kept(c) ==
  /\ conn[c].stage = "answered"
  /\ conn' = [conn EXCEPT ![c] = IF @.last THEN Gone ELSE [@ EXCEPT !.stage = "idle"]]
  /\ UNCHANGED <<environment, phase, window, answer>>

\* Mutant: the connection is kept although it was told of the shutdown.
Sent_KeepAlive(c) ==
  /\ conn[c].stage = "answered"
  /\ conn' = [conn EXCEPT ![c] = Idle]
  /\ UNCHANGED <<environment, phase, window, answer>>

\* The reply is out, and the connection is kept for another request.
Sent(c) ==
  /\ conn[c].stage = "answered"
  /\ conn' = [conn EXCEPT ![c] = IF @.last THEN Gone ELSE Idle]
  /\ UNCHANGED <<environment, phase, window, answer>>

\* A client leaves, and its request is dropped wherever it is.
Leave(c) ==
  /\ conn[c] # Gone
  /\ conn' = [conn EXCEPT ![c] = Gone]
  /\ UNCHANGED <<environment, phase, window, answer>>

-----------------------------------------------------------------------------
\* shutdown_signal returns: Ctrl+C or SIGTERM.
Signal ==
  /\ phase = "serving"
  /\ phase' = "draining"
  /\ UNCHANGED <<environment, conn, window, answer>>

\* Mutant: a connection between two requests is left open.
Told_WhenBusy(c) ==
  /\ phase = "draining"
  /\ conn[c] # Gone /\ ~conn[c].last
  /\ conn' = [conn EXCEPT ![c].last = TRUE]
  /\ UNCHANGED <<environment, phase, window, answer>>

\* The task of a connection learns of the signal: it closes the connection now,
\* or after the reply to the request it has.
Told(c) ==
  /\ phase = "draining"
  /\ conn[c] # Gone /\ ~conn[c].last
  /\ conn' = [conn EXCEPT ![c] = IF @.stage = "idle" THEN Gone ELSE [@ EXCEPT !.last = TRUE]]
  /\ UNCHANGED <<environment, phase, window, answer>>

\* serve() returns when every connection is closed; there is no timeout.
Exit ==
  /\ phase = "draining"
  /\ \A c \in Conns : conn[c] = Gone
  /\ phase' = "ended"
  /\ UNCHANGED <<environment, conn, window, answer>>

Crash ==
  /\ Up
  /\ phase' = "ended"
  /\ conn' = [c \in Conns |-> Gone]
  /\ UNCHANGED <<environment, window, answer>>

\* A new life of the process, perhaps with other keys, and an empty limiter.
Start ==
  /\ phase = "ended"
  /\ environment' \in Environments
  /\ phase' = "serving"
  /\ window' = [b \in Buckets |-> Closed]
  /\ answer' = NoAnswer
  /\ UNCHANGED conn

Tick == FW!Tick /\ UNCHANGED <<environment, phase, conn>>

Init ==
  /\ environment \in Environments
  /\ phase = "serving"
  /\ conn = [c \in Conns |-> Gone]
  /\ FW!Init

\* What the runtime does for a connection, without its client.
Proceed(c) ==
  \/ require_api_key(c) \/ rate_limit_middleware(c) \/ security_headers(c)
  \/ Handle(c) \/ Sent(c)

Next ==
  \/ \E c \in Conns : \/ Connect(c) \/ Proceed(c) \/ BodyArrives(c) \/ Leave(c) \/ Told(c)
                      \/ \E r \in Requests : Take(c, r)
  \/ Signal \/ Exit \/ Crash \/ Start \/ Tick

\* The runtime polls every connection's task and the one that waits for them.
\* Clients need not send a body nor leave, and nobody need send the signal.
Fairness == (\A c \in Conns : WF_vars(Proceed(c)) /\ WF_vars(Told(c))) /\ WF_vars(Exit)

Spec == Init /\ [][Next]_vars /\ Fairness

-----------------------------------------------------------------------------
Stages == {Route[i] : i \in DOMAIN Route}

ConnType ==
  [stage : {"idle"}, request : {NoRequest}, reply : {NoReply}, last : {FALSE}]
    \cup {Gone}
    \cup [stage : Stages, request : Requests, reply : {NoReply}, last : BOOLEAN]
    \cup [stage : {"answered"}, request : Requests,
          reply : [status : {200, 401, 403, 429, 500}, headers : BOOLEAN], last : BOOLEAN]

TypeOK ==
  /\ environment \in Environments
  /\ phase \in {"serving", "draining", "ended"}
  /\ conn \in [Conns -> ConnType]
  /\ window \in [Buckets -> {Closed} \cup [age : 0..Window - 1, used : 0..Max]]
  /\ answer \in {NoAnswer} \cup [bucket : Buckets, granted : BOOLEAN]
  /\ phase = "ended" => \A c \in Conns : conn[c] = Gone

\* What a handler answered was asked with a key whose last entry in this life's
\* environment gives it the right role; or, when there is no entry, with the
\* single key, and then with one.  A role that a later entry took away, a key of
\* an earlier life, and no key where none is configured, reach no handler
\* (auth.rs:17-31, 46-55, 95-110).
HandledByRole ==
  \A c \in Conns :
    conn[c].stage \in {"body", "handler"} \/ (conn[c].stage = "answered" /\ conn[c].reply.status = 200) =>
      LET r == conn[c].request
          given == {i \in DOMAIN environment.keys : environment.keys[i].key = r.key}
      IN \/ environment.keys = <<>> /\ r.key = environment.key /\ r.key # ""
         \/ \E i \in given :
              /\ \A j \in given : j <= i
              /\ LET word == environment.keys[i].role
                 IN \/ r.path \in EncryptPaths /\ word \notin {"decrypt", "dec", "d"}
                    \/ r.path \in DecryptPaths /\ word \notin {"encrypt", "enc", "e"}

\* The limiter has a tracker only for a bucket that some request which
\* authentication lets through is counted in: one with a key that is not known
\* in this life, or whose role forbids all it is used for, leaves no trace, at
\* whatever point it is refused (app.rs:109-111).
OnlyAdmittedCounted ==
  \A b \in Buckets :
    window[b] # Closed =>
      phase = "ended" \/ \E r \in Requests : Bucket(r) = b /\ Refusal(environment, r) = 0

\* A reply has the security headers exactly when the handler gave it: refusals
\* by authentication or by the limiter have none (app.rs:109-111, headers.rs).
HeadersOnHandled ==
  \A c \in Conns :
    conn[c].stage = "answered" => (conn[c].reply.headers <=> conn[c].reply.status = 200)

\* While the process drains nobody connects, and a connection that was told of
\* the shutdown stays with the request it has until it is gone: it takes no
\* other and is not kept.  The way back to serving is a new life (main.rs:34-37).
OnlyDrains ==
  [][phase = "draining" =>
       /\ phase' \in {"draining", "ended"}
       /\ \A c \in Conns :
            /\ conn[c] = Gone => conn'[c] = Gone
            /\ conn[c].last =>
                 \/ conn'[c] = Gone
                 \/ conn'[c].last /\ conn'[c].request = conn[c].request]_vars

\* After the signal the process ends, unless some client never sends the body
\* of a request it began and never leaves (main.rs:34-37).
Drains ==
  phase = "draining" ~> \/ phase # "draining"
                        \/ \E c \in Conns : [](conn[c].stage = "body")
=============================================================================
