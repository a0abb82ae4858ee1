---------------------------- MODULE ServerProofs ----------------------------
(***************************************************************************)
(* For any number of connections, keys, entries and requests: what reaches *)
(* a handler passed authentication with a key whose last entry in this     *)
(* life's environment has the role, what authentication refuses leaves no  *)
(* trace in the limiter, only handlers' replies have the security headers, *)
(* and a process that drains takes nothing new.                            *)
(***************************************************************************)
EXTENDS Server, WellFoundedInduction, SequenceTheorems, TLAPS

LEMMA Positions ==
  /\ Position("auth") = 1 /\ Position("limit") = 2 /\ Position("headers") = 3
  /\ Position("body") = 4 /\ Position("handler") = 5
  /\ Route[1] = "auth" /\ Route[2] = "limit" /\ Route[3] = "headers"
  /\ Route[4] = "body" /\ Route[5] = "handler"
  /\ Stages = {"auth", "limit", "headers", "body", "handler"}
<1>1. DOMAIN Route = 1..5
  BY DEF Route
<1>2. /\ Route[1] = "auth" /\ Route[2] = "limit" /\ Route[3] = "headers"
      /\ Route[4] = "body" /\ Route[5] = "handler"
  BY DEF Route
<1>3. Position("auth") = 1
  BY <1>1, <1>2 DEF Position
<1>4. Position("limit") = 2
  BY <1>1, <1>2 DEF Position
<1>5. Position("headers") = 3
  BY <1>1, <1>2 DEF Position
<1>6. Position("body") = 4
  BY <1>1, <1>2 DEF Position
<1>7. Position("handler") = 5
  BY <1>1, <1>2 DEF Position
<1>8. Stages = {"auth", "limit", "headers", "body", "handler"}
  BY <1>1, <1>2 DEF Stages
<1>. QED  BY <1>2, <1>3, <1>4, <1>5, <1>6, <1>7, <1>8

\* A key that has an entry has a last one.
LEMMA LastExists ==
  ASSUME NEW T, NEW es \in Seq(T), NEW k, NEW i \in DOMAIN es, es[i].key = k
  PROVE  /\ LastFor(es, k) \in DOMAIN es /\ es[LastFor(es, k)].key = k
         /\ \A j \in DOMAIN es : es[j].key = k => j <= LastFor(es, k)
<1>. DEFINE D == {m \in Nat : \E j \in DOMAIN es : es[j].key = k /\ m = Len(es) - j}
<1>1. DOMAIN es = 1..Len(es) /\ Len(es) \in Nat
  OBVIOUS
<1>2. D \subseteq Nat /\ D # {}
  <2>1. Len(es) - i \in Nat
    BY <1>1
  <2>. QED  BY <2>1
<1>3. PICK x \in D : \A y \in D : ~(<<y, x>> \in OpToRel(<, Nat))
  BY <1>2, NatLessThanWellFounded, WFMin, Zenon
<1>4. \A y \in D : ~(y < x)
  BY <1>2, <1>3 DEF OpToRel
<1>5. PICK j \in DOMAIN es : es[j].key = k /\ x = Len(es) - j
  OBVIOUS
<1>6. ASSUME NEW l \in DOMAIN es, l > j, es[l].key = k PROVE FALSE
  <2>1. Len(es) - l \in D
    BY <1>1, <1>6
  <2>2. Len(es) - l < x
    BY <1>1, <1>5, <1>6
  <2>. QED  BY <1>4, <2>1, <2>2
<1>7. /\ LastFor(es, k) \in DOMAIN es /\ es[LastFor(es, k)].key = k
      /\ \A l \in DOMAIN es : l > LastFor(es, k) => es[l].key # k
  BY <1>5, <1>6 DEF LastFor
<1>. QED  BY <1>1, <1>7

\* The last entry of the key in the environment lets it ask for this path, or
\* there is no entry and it is the single key.
MayAsk(env, r) ==
  LET given == {i \in DOMAIN env.keys : env.keys[i].key = r.key}
  IN \/ env.keys = <<>> /\ r.key = env.key /\ r.key # ""
     \/ \E i \in given :
          /\ \A j \in given : j <= i
          /\ LET word == env.keys[i].role
             IN \/ r.path \in EncryptPaths /\ word \notin {"decrypt", "dec", "d"}
                \/ r.path \in DecryptPaths /\ word \notin {"encrypt", "enc", "e"}

\* What authentication lets through asks with a key of the environment, whose
\* last entry gives it the role.
LEMMA Granted ==
  ASSUME NEW env \in Environments, NEW r \in Requests, Refusal(env, r) = 0
  PROVE  MayAsk(env, r)
<1>1. r.key \in DOMAIN ApiKeys(env) /\ Allows(ApiKeys(env)[r.key], r.path)
  BY DEF Refusal
<1>2. CASE env.keys = <<>>
  BY <1>1, <1>2 DEF ApiKeys, MayAsk
<1>3. CASE env.keys # <<>>
  <2>. DEFINE l == LastFor(env.keys, r.key)
  <2>1. PICK i \in DOMAIN env.keys : env.keys[i].key = r.key
    BY <1>1, <1>3 DEF ApiKeys
  <2>2. /\ l \in DOMAIN env.keys /\ env.keys[l].key = r.key
        /\ \A j \in DOMAIN env.keys : env.keys[j].key = r.key => j <= l
    BY <2>1, LastExists, ServerAssumption
  <2>3. ApiKeys(env)[r.key] = Parse(env.keys[l].role)
    BY <1>1, <1>3 DEF ApiKeys
  <2>4. Allows(Parse(env.keys[l].role), r.path)
    BY <1>1, <2>3
  <2>5. r.path \in EncryptPaths \cup DecryptPaths /\ EncryptPaths \cap DecryptPaths = {}
    BY ServerAssumption DEF EncryptPaths, DecryptPaths
  <2>. HIDE DEF l
  <2>6. \/ r.path \in EncryptPaths /\ env.keys[l].role \notin {"decrypt", "dec", "d"}
        \/ r.path \in DecryptPaths /\ env.keys[l].role \notin {"encrypt", "enc", "e"}
    BY <2>4, <2>5 DEF Allows, Parse
  <2>. QED  BY <1>1, <2>2, <2>6 DEF MayAsk
<1>. QED  BY <1>2, <1>3
-----------------------------------------------------------------------------
\* Who is past the authentication layer has the right to be there.
Admitted ==
  \A c \in Conns :
    \/ conn[c].stage \in {"limit", "headers", "body", "handler"}
    \/ conn[c].stage = "answered" /\ conn[c].reply.status = 200
    => Refusal(environment, conn[c].request) = 0

Inv == TypeOK /\ Admitted /\ OnlyAdmittedCounted /\ HeadersOnHandled

\* The connections, as every action but those of the process leaves them.
ConnOK(c, conn_c) ==
  /\ conn_c \in ConnType
  /\ \/ conn_c.stage \in {"limit", "headers", "body", "handler"}
     \/ conn_c.stage = "answered" /\ conn_c.reply.status = 200
     => Refusal(environment, conn_c.request) = 0
  /\ conn_c.stage = "answered" => (conn_c.reply.headers <=> conn_c.reply.status = 200)

LEMMA OneConn ==
  ASSUME Inv, NEW c \in Conns, NEW v, conn' = [conn EXCEPT ![c] = v], ConnOK(c, v),
         environment' = environment, phase' = phase, phase # "ended"
  PROVE  /\ conn' \in [Conns -> ConnType] /\ Admitted' /\ HeadersOnHandled'
         /\ phase' = "ended" => \A d \in Conns : conn'[d] = Gone
<1>1. conn' \in [Conns -> ConnType]
  BY DEF Inv, TypeOK, ConnOK
<1>2. \A d \in Conns : conn'[d] = IF d = c THEN v ELSE conn[d]
  BY DEF Inv, TypeOK
<1>3. Admitted'
  BY <1>2 DEF Inv, Admitted, ConnOK
<1>4. HeadersOnHandled'
  BY <1>2 DEF Inv, HeadersOnHandled, ConnOK
<1>. QED  BY <1>1, <1>3, <1>4

\* The values a connection has.
LEMMA ConnValues ==
  ASSUME Inv, NEW c \in Conns
  PROVE  /\ conn[c] \in ConnType /\ ConnOK(c, conn[c]) /\ ConnOK(c, Gone) /\ ConnOK(c, Idle)
         /\ phase = "ended" => conn[c] = Gone
<1>1. Gone \in ConnType /\ Idle \in ConnType /\ Gone.stage = "gone" /\ Idle.stage = "idle"
  BY DEF ConnType, Gone, Idle
<1>2. conn[c] \in ConnType /\ (phase = "ended" => conn[c] = Gone)
  BY DEF Inv, TypeOK
<1>3. ConnOK(c, conn[c])
  BY <1>2 DEF Inv, Admitted, HeadersOnHandled, ConnOK
<1>4. ConnOK(c, Gone) /\ ConnOK(c, Idle)
  BY <1>1 DEF ConnOK
<1>. QED  BY <1>2, <1>3, <1>4

\* A connection with a request, and what a layer makes of it.
LEMMA AtLayer ==
  ASSUME Inv, NEW c \in Conns, conn[c].stage \in Stages
  PROVE  /\ conn[c] \in [stage : Stages, request : Requests, reply : {NoReply}, last : BOOLEAN]
         /\ conn[c].request \in Requests /\ phase # "ended"
<1>1. conn[c] \in ConnType /\ (phase = "ended" => conn[c] = Gone)
  BY ConnValues
<1>2. conn[c].stage \notin {"idle", "gone", "answered"}
  BY Positions
<1>3. Gone.stage = "gone"
  BY DEF Gone, Idle
<1>4. conn[c] # Gone
  BY <1>2, <1>3
<1>5. conn[c] \in [stage : Stages, request : Requests, reply : {NoReply}, last : BOOLEAN]
  BY <1>1, <1>2, <1>4, ZenonT(40) DEF ConnType
<1>. QED  BY <1>1, <1>4, <1>5

LEMMA PassOK ==
  ASSUME Inv, NEW c \in Conns, NEW from, NEW to, conn[c].stage = from, from \in Stages,
         Route[Position(from) + 1] = to, to \in Stages \ {"auth"},
         Refusal(environment, conn[c].request) = 0, Pass(c)
  PROVE  \E v : conn' = [conn EXCEPT ![c] = v] /\ ConnOK(c, v)
<1>. DEFINE v == [conn[c] EXCEPT !.stage = to]
<1>1. conn' = [conn EXCEPT ![c] = v]
  <2>1. conn' = [conn EXCEPT ![c] = [conn[c] EXCEPT !.stage = Route[Position(conn[c].stage) + 1]]]
    BY DEF Pass
  <2>2. Route[Position(conn[c].stage) + 1] = to
    OBVIOUS
  <2>. QED  BY <2>1, <2>2, Zenon
<1>2. conn[c] \in [stage : Stages, request : Requests, reply : {NoReply}, last : BOOLEAN]
  BY AtLayer
<1>3. /\ v \in [stage : Stages, request : Requests, reply : {NoReply}, last : BOOLEAN]
      /\ v.stage = to /\ v.request = conn[c].request
  BY <1>2
<1>4. to # "answered"
  BY Positions
<1>5. ConnOK(c, v)
  BY <1>3, <1>4 DEF ConnOK, ConnType
<1>. QED  BY <1>1, <1>5

LEMMA ReplyOK ==
  ASSUME Inv, NEW c \in Conns, NEW from, conn[c].stage = from, from \in Stages,
         NEW status \in {200, 401, 403, 429, 500}, Reply(c, status),
         status = 200 => Refusal(environment, conn[c].request) = 0,
         (3 < Position(from)) <=> status = 200
  PROVE  \E v : conn' = [conn EXCEPT ![c] = v] /\ ConnOK(c, v)
<1>. DEFINE reply == [status |-> status, headers |-> Position("headers") < Position(from)]
            v == [stage |-> "answered", request |-> conn[c].request,
                  reply |-> reply, last |-> conn[c].last]
<1>1. conn' = [conn EXCEPT ![c] = v]
  BY DEF Reply
<1>2. conn[c] \in [stage : Stages, request : Requests, reply : {NoReply}, last : BOOLEAN]
  BY AtLayer
<1>3. /\ reply \in [status : {200, 401, 403, 429, 500}, headers : BOOLEAN]
      /\ reply.status = status /\ (reply.headers <=> status = 200)
  <2>. DEFINE seen == Position("headers") < Position(from)
  <2>1. seen \in BOOLEAN /\ (seen <=> status = 200)
    BY Positions
  <2>. HIDE DEF seen
  <2>2. reply = [status |-> status, headers |-> seen]
    BY DEF seen
  <2>3. reply.status = status /\ reply.headers = seen
    BY <2>2
  <2>4. reply \in [status : {200, 401, 403, 429, 500}, headers : BOOLEAN]
    BY <2>1, <2>2
  <2>. QED  BY <2>1, <2>3, <2>4
<1>. HIDE DEF reply
<1>4. /\ v \in [stage : {"answered"}, request : Requests,
                reply : [status : {200, 401, 403, 429, 500}, headers : BOOLEAN], last : BOOLEAN]
      /\ v.stage = "answered" /\ v.request = conn[c].request /\ v.reply = reply
  BY <1>2, <1>3
<1>5. ConnOK(c, v)
  BY <1>3, <1>4 DEF ConnOK, ConnType
<1>. HIDE DEF v
<1>. QED  BY <1>1, <1>5

\* A step that changes one connection and nothing else.
LEMMA ConnStep ==
  ASSUME Inv, NEW c \in Conns, phase # "ended",
         \E v : conn' = [conn EXCEPT ![c] = v] /\ ConnOK(c, v),
         UNCHANGED <<environment, phase, window, answer>>
  PROVE  Inv'
<1>1. PICK v : conn' = [conn EXCEPT ![c] = v] /\ ConnOK(c, v)
  OBVIOUS
<1>2. /\ conn' \in [Conns -> ConnType] /\ Admitted' /\ HeadersOnHandled'
      /\ phase' = "ended" => \A d \in Conns : conn'[d] = Gone
  BY <1>1, OneConn
<1>3. TypeOK'
  BY <1>2 DEF Inv, TypeOK
<1>4. OnlyAdmittedCounted'
  BY DEF Inv, OnlyAdmittedCounted
<1>. QED  BY <1>2, <1>3, <1>4 DEF Inv

\* Counting a request of a known key.
LEMMA CountStep ==
  ASSUME Inv, NEW r \in Requests, Refusal(environment, r) = 0,
         FW!Grant(Bucket(r)) \/ FW!Refuse(Bucket(r)),
         environment' = environment, phase' = phase
  PROVE  /\ window' \in [Buckets -> {Closed} \cup [age : 0..Window - 1, used : 0..Max]]
         /\ answer' \in {NoAnswer} \cup [bucket : Buckets, granted : BOOLEAN]
         /\ OnlyAdmittedCounted'
<1>. DEFINE b == Bucket(r)
            Windows == [age : 0..Window - 1, used : 0..Max]
<1>1. b \in Buckets
  BY DEF Buckets
<1>2. window \in [Buckets -> {Closed} \cup Windows]
  BY DEF Inv, TypeOK
<1>3. FW!Open(b) \in Windows
  BY <1>1, <1>2, ServerAssumption DEF FW!Open
<1>4. PICK w \in Windows : window' = [window EXCEPT ![b] = w]
  <2>1. CASE FW!Grant(b)
    <3>1. [FW!Open(b) EXCEPT !.used = @ + 1] \in Windows
      BY <1>3, <2>1, ServerAssumption DEF FW!Grant
    <3>. QED  BY <2>1, <3>1 DEF FW!Grant
  <2>2. CASE FW!Refuse(b)
    BY <1>3, <2>2 DEF FW!Refuse
  <2>. QED  BY <2>1, <2>2
<1>5. answer' \in [bucket : Buckets, granted : BOOLEAN]
  <2>1. answer' = [bucket |-> b, granted |-> TRUE] \/ answer' = [bucket |-> b, granted |-> FALSE]
    BY DEF FW!Grant, FW!Refuse, FW!Answers
  <2>. HIDE DEF b
  <2>2. [bucket |-> b, granted |-> TRUE] \in [bucket : Buckets, granted : BOOLEAN]
    BY <1>1
  <2>3. [bucket |-> b, granted |-> FALSE] \in [bucket : Buckets, granted : BOOLEAN]
    BY <1>1
  <2>. QED  BY <2>1, <2>2, <2>3
<1>6. window' \in [Buckets -> {Closed} \cup Windows]
  BY <1>1, <1>2, <1>4
<1>7. OnlyAdmittedCounted'
  <2>1. ASSUME NEW d \in Buckets, window'[d] # Closed, phase' # "ended"
        PROVE  \E q \in Requests : Bucket(q) = d /\ Refusal(environment, q) = 0
    <3>1. CASE d = b
      BY <3>1
    <3>2. CASE d # b
      <4>1. window[d] # Closed /\ phase # "ended"
        BY <1>2, <1>4, <2>1, <3>2
      <4>. QED  BY <4>1 DEF Inv, OnlyAdmittedCounted
    <3>. QED  BY <3>1, <3>2
  <2>. QED  BY <2>1 DEF OnlyAdmittedCounted
<1>. QED  BY <1>5, <1>6, <1>7

-----------------------------------------------------------------------------
LEMMA ProceedStep == ASSUME Inv, NEW c \in Conns, Proceed(c) PROVE Inv'
<1>0. environment \in Environments /\ Position("auth") = 1
  BY Positions DEF Inv, TypeOK
<1>1. CASE require_api_key(c)
  <2>1. conn[c].stage = "auth" /\ "auth" \in Stages /\ UNCHANGED <<environment, phase, window, answer>>
    BY <1>1, Positions DEF require_api_key
  <2>2. conn[c].request \in Requests /\ phase # "ended"
    BY <2>1, AtLayer
  <2>. DEFINE status == Refusal(environment, conn[c].request)
  <2>3. status \in {0, 401, 403, 500}
    BY DEF Refusal
  <2>4. CASE status = 0
    <3>1. Pass(c)
      BY <1>1, <2>4 DEF require_api_key
    <3>2. \E v : conn' = [conn EXCEPT ![c] = v] /\ ConnOK(c, v)
      <4>1. Route[Position("auth") + 1] = "limit" /\ "limit" \in Stages \ {"auth"}
        BY Positions
      <4>. QED  BY <2>1, <2>4, <3>1, <4>1, PassOK
    <3>. QED  BY <2>1, <2>2, <3>2, ConnStep
  <2>5. CASE status # 0
    <3>1. Reply(c, status)
      BY <1>1, <2>5 DEF require_api_key
    <3>. HIDE DEF status
    <3>2. \E v : conn' = [conn EXCEPT ![c] = v] /\ ConnOK(c, v)
      <4>1. status \in {200, 401, 403, 429, 500} /\ status # 200 /\ ~(3 < Position("auth"))
        BY <1>0, <2>3, <2>5
      <4>. QED  BY <2>1, <3>1, <4>1, ReplyOK
    <3>. QED  BY <2>1, <2>2, <3>2, ConnStep
  <2>. QED  BY <2>4, <2>5
<1>2. CASE rate_limit_middleware(c)
  <2>. DEFINE r == conn[c].request
  <2>1. /\ conn[c].stage = "limit" /\ "limit" \in Stages
        /\ environment' = environment /\ phase' = phase
        /\ FW!Grant(Bucket(r)) \/ FW!Refuse(Bucket(r))
    BY <1>2, Positions DEF rate_limit_middleware
  <2>2. r \in Requests /\ phase # "ended" /\ Refusal(environment, r) = 0
    BY <2>1, AtLayer DEF Inv, Admitted
  <2>3. /\ window' \in [Buckets -> {Closed} \cup [age : 0..Window - 1, used : 0..Max]]
        /\ answer' \in {NoAnswer} \cup [bucket : Buckets, granted : BOOLEAN]
        /\ OnlyAdmittedCounted'
    BY <2>1, <2>2, CountStep
  <2>4. \E v : conn' = [conn EXCEPT ![c] = v] /\ ConnOK(c, v)
    <3>1. CASE Pass(c)
      <4>1. Route[Position("limit") + 1] = "headers" /\ "headers" \in Stages \ {"auth"}
        BY Positions
      <4>. QED  BY <2>1, <2>2, <3>1, <4>1, PassOK
    <3>2. CASE Reply(c, 429)
      <4>1. 429 \in {200, 401, 403, 429, 500} /\ 429 # 200 /\ ~(3 < Position("limit"))
        BY Positions
      <4>. QED  BY <2>1, <3>2, <4>1, ReplyOK
    <3>. QED  BY <1>2, <3>1, <3>2 DEF rate_limit_middleware
  <2>5. /\ conn' \in [Conns -> ConnType] /\ Admitted' /\ HeadersOnHandled'
        /\ phase' = "ended" => \A d \in Conns : conn'[d] = Gone
    <3>1. PICK v : conn' = [conn EXCEPT ![c] = v] /\ ConnOK(c, v)
      BY <2>4
    <3>. QED  BY <2>1, <2>2, <3>1, OneConn
  <2>6. TypeOK'
    BY <2>1, <2>3, <2>5 DEF Inv, TypeOK
  <2>. QED  BY <2>3, <2>5, <2>6 DEF Inv
<1>3. CASE security_headers(c)
  <2>1. /\ conn[c].stage = "headers" /\ "headers" \in Stages /\ Pass(c)
        /\ UNCHANGED <<environment, phase, window, answer>>
    BY <1>3, Positions DEF security_headers
  <2>2. phase # "ended" /\ Refusal(environment, conn[c].request) = 0
    BY <2>1, AtLayer DEF Inv, Admitted
  <2>3. Route[Position("headers") + 1] = "body" /\ "body" \in Stages \ {"auth"}
    BY Positions
  <2>4. \E v : conn' = [conn EXCEPT ![c] = v] /\ ConnOK(c, v)
    BY <2>1, <2>2, <2>3, PassOK
  <2>. QED  BY <2>1, <2>2, <2>4, ConnStep
<1>4. CASE Handle(c)
  <2>1. /\ conn[c].stage = "handler" /\ "handler" \in Stages /\ Reply(c, 200)
        /\ UNCHANGED <<environment, phase, window, answer>>
    BY <1>4, Positions DEF Handle
  <2>2. phase # "ended" /\ Refusal(environment, conn[c].request) = 0
    BY <2>1, AtLayer DEF Inv, Admitted
  <2>3. 200 \in {200, 401, 403, 429, 500} /\ 3 < Position("handler")
    BY Positions
  <2>4. \E v : conn' = [conn EXCEPT ![c] = v] /\ ConnOK(c, v)
    BY <2>1, <2>2, <2>3, ReplyOK
  <2>. QED  BY <2>1, <2>2, <2>4, ConnStep
<1>5. CASE Sent(c)
  <2>1. /\ conn[c].stage = "answered" /\ UNCHANGED <<environment, phase, window, answer>>
        /\ conn' = [conn EXCEPT ![c] = IF conn[c].last THEN Gone ELSE Idle]
    BY <1>5 DEF Sent
  <2>2. phase # "ended" /\ ConnOK(c, Gone) /\ ConnOK(c, Idle)
    BY <2>1, ConnValues DEF Gone, Idle
  <2>3. \E v : conn' = [conn EXCEPT ![c] = v] /\ ConnOK(c, v)
    BY <2>1, <2>2
  <2>. QED  BY <2>1, <2>2, <2>3, ConnStep
<1>. QED  BY <1>1, <1>2, <1>3, <1>4, <1>5 DEF Proceed

LEMMA ClientStep ==
  ASSUME Inv, NEW c \in Conns,
         Connect(c) \/ BodyArrives(c) \/ Leave(c) \/ Told(c) \/ \E r \in Requests : Take(c, r)
  PROVE  Inv'
<1>0. /\ conn[c] \in ConnType /\ ConnOK(c, conn[c]) /\ ConnOK(c, Gone) /\ ConnOK(c, Idle)
      /\ phase = "ended" => conn[c] = Gone
  BY ConnValues
<1>1. CASE Connect(c)
  <2>1. /\ phase # "ended" /\ conn' = [conn EXCEPT ![c] = Idle]
        /\ UNCHANGED <<environment, phase, window, answer>>
    BY <1>1 DEF Connect
  <2>2. \E v : conn' = [conn EXCEPT ![c] = v] /\ ConnOK(c, v)
    BY <1>0, <2>1
  <2>. QED  BY <2>1, <2>2, ConnStep
<1>2. CASE BodyArrives(c)
  <2>1. /\ conn[c].stage = "body" /\ "body" \in Stages /\ Pass(c)
        /\ UNCHANGED <<environment, phase, window, answer>>
    BY <1>2, Positions DEF BodyArrives
  <2>2. phase # "ended" /\ Refusal(environment, conn[c].request) = 0
    BY <2>1, AtLayer DEF Inv, Admitted
  <2>3. Route[Position("body") + 1] = "handler" /\ "handler" \in Stages \ {"auth"}
    BY Positions
  <2>4. \E v : conn' = [conn EXCEPT ![c] = v] /\ ConnOK(c, v)
    BY <2>1, <2>2, <2>3, PassOK
  <2>. QED  BY <2>1, <2>2, <2>4, ConnStep
<1>3. CASE Leave(c)
  <2>1. /\ phase # "ended" /\ conn' = [conn EXCEPT ![c] = Gone]
        /\ UNCHANGED <<environment, phase, window, answer>>
    BY <1>0, <1>3 DEF Leave
  <2>2. \E v : conn' = [conn EXCEPT ![c] = v] /\ ConnOK(c, v)
    BY <1>0, <2>1
  <2>. QED  BY <2>1, <2>2, ConnStep
<1>4. CASE Told(c)
  <2>. DEFINE v == IF conn[c].stage = "idle" THEN Gone ELSE [conn[c] EXCEPT !.last = TRUE]
  <2>1. /\ phase # "ended" /\ conn[c] # Gone /\ conn' = [conn EXCEPT ![c] = v]
        /\ UNCHANGED <<environment, phase, window, answer>>
    BY <1>4 DEF Told
  <2>2. ConnOK(c, v)
    <3>1. CASE conn[c].stage = "idle"
      BY <1>0, <3>1
    <3>2. CASE conn[c].stage # "idle"
      <4>. DEFINE Busy == [stage : Stages, request : Requests, reply : {NoReply}, last : BOOLEAN]
                  Replies == [status : {200, 401, 403, 429, 500}, headers : BOOLEAN]
                  Done == [stage : {"answered"}, request : Requests, reply : Replies, last : BOOLEAN]
      <4>0. v = [conn[c] EXCEPT !.last = TRUE] /\ TRUE \in BOOLEAN
        BY <3>2
      <4>. HIDE DEF v
      <4>1. /\ v \in ConnType /\ v.stage = conn[c].stage
            /\ v.request = conn[c].request /\ v.reply = conn[c].reply
        <5>1. CASE conn[c] \in Busy
          <6>1. /\ v \in Busy /\ v.stage = conn[c].stage
                /\ v.request = conn[c].request /\ v.reply = conn[c].reply
            BY <4>0, <5>1
          <6>. QED  BY <6>1, ZenonT(40) DEF ConnType
        <5>2. CASE conn[c] \in Done
          <6>1. v.stage = conn[c].stage /\ v.request = conn[c].request /\ v.reply = conn[c].reply
            BY <4>0, <5>2
          <6>2. v \in Done
            <7>. HIDE DEF Replies
            <7>. QED  BY <4>0, <5>2
          <6>. QED  BY <6>1, <6>2, ZenonT(40) DEF ConnType
        <5>. QED  BY <1>0, <2>1, <3>2, <5>1, <5>2, ZenonT(40) DEF ConnType
      <4>. QED  BY <1>0, <4>1 DEF ConnOK
    <3>. QED  BY <3>1, <3>2
  <2>. HIDE DEF v
  <2>. QED  BY <2>1, <2>2, ConnStep
<1>5. ASSUME NEW r \in Requests, Take(c, r) PROVE Inv'
  <2>. DEFINE v == [stage |-> Route[1], request |-> r, reply |-> NoReply, last |-> FALSE]
  <2>1. /\ phase # "ended" /\ conn' = [conn EXCEPT ![c] = v]
        /\ UNCHANGED <<environment, phase, window, answer>>
    BY <1>5 DEF Take, Up
  <2>3. v = [stage |-> "auth", request |-> r, reply |-> NoReply, last |-> FALSE]
    BY Positions
  <2>4. v \in ConnType /\ v.stage = "auth"
    BY <2>3, Positions DEF ConnType
  <2>. HIDE DEF v
  <2>5. ConnOK(c, v)
    BY <2>4 DEF ConnOK
  <2>. QED  BY <2>1, <2>5, ConnStep
<1>. QED  BY <1>1, <1>2, <1>3, <1>4, <1>5

\* What a drained connection may become.
StillDrained(v, w) ==
  /\ v = Gone => w = Gone
  /\ v.last => w = Gone \/ (w.last /\ w.request = v.request)

\* One connection that may change so, and the others that stay.
LEMMA OneDrains ==
  ASSUME Inv, NEW c \in Conns, NEW v, conn' = [conn EXCEPT ![c] = v], StillDrained(conn[c], v)
  PROVE  \A d \in Conns : StillDrained(conn[d], conn'[d])
<1>1. \A d \in Conns : conn'[d] = IF d = c THEN v ELSE conn[d]
  BY DEF Inv, TypeOK
<1>. QED  BY <1>1 DEF StillDrained

\* A layer leaves the request and the word of the shutdown alone.
LEMMA LayerDrains ==
  ASSUME Inv, NEW c \in Conns, conn[c].stage \in Stages,
         Pass(c) \/ \E status \in {200, 401, 403, 429, 500} : Reply(c, status)
  PROVE  \A d \in Conns : StillDrained(conn[d], conn'[d])
<1>1. conn[c] \in [stage : Stages, request : Requests, reply : {NoReply}, last : BOOLEAN]
  BY AtLayer
<1>2. conn[c] # Gone
  <2>1. conn[c].stage # "gone" /\ Gone.stage = "gone"
    BY Positions DEF Gone, Idle
  <2>. QED  BY <2>1
<1>3. CASE Pass(c)
  <2>. DEFINE v == [conn[c] EXCEPT !.stage = Route[Position(conn[c].stage) + 1]]
  <2>1. v.last = conn[c].last /\ v.request = conn[c].request
    BY <1>1
  <2>2. conn' = [conn EXCEPT ![c] = v]
    BY <1>3, Zenon DEF Pass
  <2>. HIDE DEF v
  <2>3. /\ conn'[c].last = conn[c].last /\ conn'[c].request = conn[c].request
        /\ \A d \in Conns : d # c => conn'[d] = conn[d]
    BY <2>1, <2>2 DEF Inv, TypeOK
  <2>. QED  BY <1>2, <2>3 DEF StillDrained
<1>4. ASSUME NEW status, Reply(c, status)
      PROVE  \A d \in Conns : StillDrained(conn[d], conn'[d])
  <2>. DEFINE reply == [status  |-> status,
                        headers |-> Position("headers") < Position(conn[c].stage)]
              v == [stage |-> "answered", request |-> conn[c].request,
                    reply |-> reply, last |-> conn[c].last]
  <2>1. v.last = conn[c].last /\ v.request = conn[c].request
    OBVIOUS
  <2>2. conn' = [conn EXCEPT ![c] = v]
    BY <1>4, Zenon DEF Reply
  <2>. HIDE DEF v
  <2>3. /\ conn'[c].last = conn[c].last /\ conn'[c].request = conn[c].request
        /\ \A d \in Conns : d # c => conn'[d] = conn[d]
    BY <2>1, <2>2 DEF Inv, TypeOK
  <2>. QED  BY <1>2, <2>3 DEF StillDrained
<1>. QED  BY <1>3, <1>4

\* So does everything that happens to a connection while the process drains.
LEMMA ConnDrains ==
  ASSUME Inv, phase = "draining", NEW c \in Conns,
         \/ Connect(c) \/ Proceed(c) \/ BodyArrives(c) \/ Leave(c) \/ Told(c)
         \/ \E r \in Requests : Take(c, r)
  PROVE  phase' = "draining" /\ \A d \in Conns : StillDrained(conn[d], conn'[d])
<1>1. phase' = "draining" /\ ~Connect(c)
  BY DEF Connect, Proceed, BodyArrives, Leave, Told, Take, require_api_key,
         rate_limit_middleware, security_headers, Handle, Sent
<1>2. ASSUME NEW v, conn[c] # Gone, ~conn[c].last \/ v = Gone, conn' = [conn EXCEPT ![c] = v]
      PROVE  \A d \in Conns : StillDrained(conn[d], conn'[d])
  <2>1. StillDrained(conn[c], v)
    BY <1>2 DEF StillDrained
  <2>. QED  BY <1>2, <2>1, OneDrains
<1>3. CASE require_api_key(c) \/ rate_limit_middleware(c) \/ security_headers(c)
           \/ BodyArrives(c) \/ Handle(c)
  <2>1. conn[c].stage \in Stages
    BY <1>3, Positions
       DEF require_api_key, rate_limit_middleware, security_headers, BodyArrives, Handle
  <2>2. Refusal(environment, conn[c].request) \in {0, 401, 403, 500}
    BY DEF Refusal
  <2>3. Pass(c) \/ \E status \in {200, 401, 403, 429, 500} : Reply(c, status)
    BY <1>3, <2>2
       DEF require_api_key, rate_limit_middleware, security_headers, BodyArrives, Handle
  <2>. QED  BY <1>1, <2>1, <2>3, LayerDrains
<1>4. CASE Sent(c)
  <2>1. conn[c] # Gone
    BY <1>4 DEF Sent, Gone, Idle
  <2>. QED  BY <1>1, <1>2, <1>4, <2>1 DEF Sent
<1>5. CASE Leave(c)
  BY <1>1, <1>2, <1>5 DEF Leave
<1>6. CASE Told(c)
  BY <1>1, <1>2, <1>6 DEF Told
<1>7. ASSUME NEW r \in Requests, Take(c, r)
      PROVE  \A d \in Conns : StillDrained(conn[d], conn'[d])
  <2>1. conn[c] # Gone
    BY <1>7 DEF Take, Gone, Idle
  <2>. QED  BY <1>2, <1>7, <2>1 DEF Take
<1>. QED  BY <1>1, <1>3, <1>4, <1>5, <1>6, <1>7 DEF Proceed

LEMMA SameConns ==
  ASSUME Inv, UNCHANGED <<environment, conn, window, answer>>,
         phase' \in {"serving", "draining", "ended"}, phase' = "ended" <=> phase = "ended"
  PROVE  Inv'
<1>1. TypeOK'
  BY DEF Inv, TypeOK
<1>2. Admitted'
  BY DEF Inv, Admitted
<1>3. OnlyAdmittedCounted'
  BY DEF Inv, OnlyAdmittedCounted
<1>4. HeadersOnHandled'
  BY DEF Inv, HeadersOnHandled
<1>. QED  BY <1>1, <1>2, <1>3, <1>4 DEF Inv

LEMMA ProcessStep == ASSUME Inv, Signal \/ Exit \/ Crash \/ Start \/ Tick PROVE Inv'
<1>0. /\ conn \in [Conns -> ConnType] /\ Gone \in ConnType /\ Gone.stage = "gone"
      /\ window \in [Buckets -> {Closed} \cup [age : 0..Window - 1, used : 0..Max]]
  BY ZenonT(40) DEF Inv, TypeOK, ConnType, Gone, Idle
<1>1. CASE Signal
  <2>1. UNCHANGED <<environment, conn, window, answer>> /\ phase = "serving" /\ phase' = "draining"
    BY <1>1 DEF Signal
  <2>. QED  BY <2>1, SameConns
<1>2. CASE Exit
  BY <1>2, ZenonT(40) DEF Exit, Inv, TypeOK, Admitted, OnlyAdmittedCounted, HeadersOnHandled
<1>3. CASE Crash
  <2>1. /\ phase' = "ended" /\ conn' = [c \in Conns |-> Gone]
        /\ UNCHANGED <<environment, window, answer>>
    BY <1>3 DEF Crash
  <2>2. \A c \in Conns : conn'[c] = Gone
    BY <2>1
  <2>. QED  BY <1>0, <2>1, <2>2 DEF Inv, TypeOK, Admitted, OnlyAdmittedCounted, HeadersOnHandled
<1>4. CASE Start
  <2>1. /\ environment' \in Environments /\ phase' = "serving" /\ conn' = conn
        /\ window' = [b \in Buckets |-> Closed] /\ answer' = NoAnswer
        /\ \A c \in Conns : conn[c] = Gone
    BY <1>4 DEF Start, Inv, TypeOK
  <2>. QED  BY <1>0, <2>1, ZenonT(40) DEF Inv, TypeOK, Admitted, OnlyAdmittedCounted, HeadersOnHandled
<1>5. CASE Tick
  <2>1. /\ UNCHANGED <<environment, phase, conn>> /\ answer' = NoAnswer
        /\ window' = [b \in Buckets |-> FW!Lapse(window[b])]
    BY <1>5 DEF Tick, FW!Tick
  <2>2. ASSUME NEW b \in Buckets
        PROVE  /\ window'[b] \in {Closed} \cup [age : 0..Window - 1, used : 0..Max]
               /\ window'[b] # Closed => window[b] # Closed
    <3>1. window'[b] = FW!Lapse(window[b])
      BY <2>1
    <3>2. CASE window[b] = Closed \/ window[b].age + 1 = Window
      BY <3>1, <3>2 DEF FW!Lapse
    <3>3. CASE ~(window[b] = Closed \/ window[b].age + 1 = Window)
      <4>1. window'[b] = [window[b] EXCEPT !.age = @ + 1]
        BY <3>1, <3>3 DEF FW!Lapse
      <4>2. window[b] \in [age : 0..Window - 1, used : 0..Max]
        BY <1>0, <3>3
      <4>. QED  BY <3>3, <4>1, <4>2, ServerAssumption
    <3>. QED  BY <3>2, <3>3
  <2>3. window' \in [Buckets -> {Closed} \cup [age : 0..Window - 1, used : 0..Max]]
    BY <2>1, <2>2
  <2>4. TypeOK' /\ Admitted' /\ HeadersOnHandled'
    BY <2>1, <2>3 DEF Inv, TypeOK, Admitted, HeadersOnHandled
  <2>5. OnlyAdmittedCounted'
    BY <2>1, <2>2 DEF Inv, OnlyAdmittedCounted
  <2>. QED  BY <2>4, <2>5 DEF Inv
<1>. QED  BY <1>1, <1>2, <1>3, <1>4, <1>5

\* The invariant.
LEMMA Inductive == Spec => []Inv
<1>1. Init => Inv
  <2>. SUFFICES ASSUME Init PROVE Inv
    OBVIOUS
  <2>1. /\ environment \in Environments /\ phase = "serving" /\ conn = [c \in Conns |-> Gone]
        /\ window = [b \in Buckets |-> Closed] /\ answer = NoAnswer
    BY DEF Init, FW!Init
  <2>2. Gone \in ConnType /\ Gone.stage = "gone"
    BY DEF ConnType, Gone, Idle
  <2>. QED  BY <2>1, <2>2 DEF Inv, TypeOK, Admitted, OnlyAdmittedCounted, HeadersOnHandled
<1>2. Inv /\ [Next]_vars => Inv'
  <2>. SUFFICES ASSUME Inv, [Next]_vars PROVE Inv'
    OBVIOUS
  <2>1. CASE UNCHANGED vars
    BY <2>1, SameConns DEF vars, Inv, TypeOK
  <2>2. ASSUME NEW c \in Conns, Proceed(c) PROVE Inv'
    BY <2>2, ProceedStep
  <2>3. ASSUME NEW c \in Conns,
               Connect(c) \/ BodyArrives(c) \/ Leave(c) \/ Told(c) \/ \E r \in Requests : Take(c, r)
        PROVE  Inv'
    BY <2>3, ClientStep
  <2>. QED  BY <2>1, <2>2, <2>3, ProcessStep DEF Next
<1>. QED  BY <1>1, <1>2, PTL DEF Spec

\* TypeOK holds in every reachable state.
THEOREM TypeCorrect == Spec => []TypeOK
<1>1. Inv => TypeOK
  BY DEF Inv
<1>. QED  BY <1>1, Inductive, PTL

\* What reaches a handler was asked with a key whose last entry in this life's
\* environment gives it the right role, or with the single key; with none
\* configured nothing does (auth.rs:17-31, 46-55, 95-110).
THEOREM RolesRespected == Spec => []HandledByRole
<1>1. Inv => HandledByRole
  <2>. SUFFICES ASSUME Inv, NEW c \in Conns,
                       \/ conn[c].stage \in {"body", "handler"}
                       \/ conn[c].stage = "answered" /\ conn[c].reply.status = 200
                PROVE  MayAsk(environment, conn[c].request)
    BY DEF HandledByRole, MayAsk
  <2>1. Refusal(environment, conn[c].request) = 0 /\ environment \in Environments
    BY DEF Inv, Admitted, TypeOK
  <2>2. conn[c].request \in Requests
    <3>. DEFINE Quiet == [stage : {"idle"}, request : {NoRequest}, reply : {NoReply}, last : {FALSE}]
                Asking == [stage : Stages, request : Requests, reply : {NoReply}, last : BOOLEAN]
                Served == [stage : {"answered"}, request : Requests,
                           reply : [status : {200, 401, 403, 429, 500}, headers : BOOLEAN],
                           last : BOOLEAN]
    <3>1. Gone.stage = "gone" /\ conn[c] \in ConnType
      BY ConnValues DEF Gone, Idle
    <3>2. conn[c].stage # "idle" /\ conn[c].stage # "gone"
      OBVIOUS
    <3>3. \A x \in Quiet : x.stage = "idle"
      OBVIOUS
    <3>4. \A x \in Asking \cup Served : x.request \in Requests
      OBVIOUS
    <3>5. ConnType = Quiet \cup {Gone} \cup Asking \cup Served
      BY Zenon DEF ConnType
    <3>. HIDE DEF Quiet, Asking, Served
    <3>. QED  BY <3>1, <3>2, <3>3, <3>4, <3>5
  <2>. QED  BY <2>1, <2>2, Granted
<1>. QED  BY <1>1, Inductive, PTL

\* The limiter has trackers only for what authentication lets through
\* (app.rs:109-111).
THEOREM RefusedNotCounted == Spec => []OnlyAdmittedCounted
<1>1. Inv => OnlyAdmittedCounted
  BY DEF Inv
<1>. QED  BY <1>1, Inductive, PTL

\* A process that drains takes no connection, and none that was told takes
\* another request (main.rs:34-37).
THEOREM DrainsOnly == Spec => OnlyDrains
<1>. DEFINE Step ==
       phase = "draining" =>
         /\ phase' \in {"draining", "ended"}
         /\ \A c \in Conns :
              /\ conn[c] = Gone => conn'[c] = Gone
              /\ conn[c].last =>
                   \/ conn'[c] = Gone
                   \/ conn'[c].last /\ conn'[c].request = conn[c].request
<1>1. Inv /\ [Next]_vars => Step
  <2>. SUFFICES ASSUME Inv, [Next]_vars, phase = "draining" PROVE Step
    OBVIOUS
  <2>1. CASE Signal \/ Exit \/ Crash \/ Start \/ Tick \/ UNCHANGED vars
    <3>1. /\ phase' \in {"draining", "ended"}
          /\ conn' = conn \/ conn' = [c \in Conns |-> Gone]
      BY <2>1 DEF Signal, Exit, Crash, Start, Tick, vars
    <3>. QED  BY <3>1
  <2>2. ASSUME NEW c \in Conns,
               \/ Connect(c) \/ Proceed(c) \/ BodyArrives(c) \/ Leave(c) \/ Told(c)
               \/ \E r \in Requests : Take(c, r)
        PROVE  Step
    <3>1. phase' = "draining" /\ \A d \in Conns : StillDrained(conn[d], conn'[d])
      BY <2>2, ConnDrains
    <3>. QED  BY <3>1 DEF StillDrained
  <2>. QED  BY <2>1, <2>2 DEF Next
<1>2. Spec => [][Step]_vars
  BY <1>1, Inductive, PTL DEF Spec
<1>. QED  BY <1>2 DEF OnlyDrains

\* A reply has the security headers exactly when a handler gave it
\* (app.rs:109-111).
THEOREM RefusalsBare == Spec => []HeadersOnHandled
<1>1. Inv => HeadersOnHandled
  BY DEF Inv
<1>. QED  BY <1>1, Inductive, PTL
=============================================================================
