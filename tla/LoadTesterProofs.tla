-------------------------- MODULE LoadTesterProofs --------------------------
(***************************************************************************)
(* For any number of workers and requests and any limit: the load tester's *)
(* reports are complete, and /decrypt is tested only after a success.      *)
(*                                                                         *)
(* The claims are about reports; what makes them true is where the indexes *)
(* are while a test runs.  The inductive invariant adds that: an index is  *)
(* in the channel, with one worker, or has its result.                     *)
(***************************************************************************)
EXTENDS LoadTester, Integers, TLAPS

Busy(w) == worker[w] \notin {Free, Done}

\* How the three counts of a request go together.
JobOK(j) ==
  /\ j.refused = j.attempt + (IF j.stage = "sending" THEN 0 ELSE 1)
  /\ j.waited = j.attempt + (IF j.stage = "slept" THEN 1 ELSE 0)
  /\ j.stage # "sending" => j.attempt < maxRetries

\* Rate limited is who was refused to the end.
ResultOK(r) ==
  r.rateLimited => ~r.success /\ r.refused = maxRetries + 1 /\ r.waited = maxRetries

Counted == \A w \in Workers : Busy(w) => JobOK(worker[w])

\* Every index is in one place.
Indexed ==
  /\ \A w \in Workers : Busy(w) => worker[w].idx < taken /\ results[worker[w].idx] = NoResult
  /\ \A v, w \in Workers : v # w /\ Busy(v) /\ Busy(w) => worker[v].idx # worker[w].idx
  /\ \A i \in Indexes :
       /\ i >= taken => results[i] = NoResult
       /\ i < taken /\ results[i] = NoResult => \E w \in Workers : Busy(w) /\ worker[w].idx = i
       /\ results[i] # NoResult => ResultOK(results[i])
  /\ \A w \in Workers : worker[w] = Done => taken = N

Complete(rs) == \A i \in Indexes : rs[i] # NoResult /\ ResultOK(rs[i])

Succeeded(rs) == \E i \in Indexes : rs[i] # NoResult /\ rs[i].success

Reported == \A t \in Tests : reports[t] # NotRun => Complete(reports[t])

\* Where the success is that an envelope came from.
Captured ==
  /\ phase \in {"smoke encrypt", "smoke decrypt"} => ~envelope /\ reports["decrypt"] = NotRun
  /\ phase = "encrypt" => reports["decrypt"] = NotRun /\ (envelope => Succeeded(results))
  /\ phase = "decrypt" => Succeeded(reports["encrypt"])
  /\ reports["decrypt"] # NotRun => Succeeded(reports["encrypt"])

Inv == TypeOK /\ Counted /\ Indexed /\ Reported /\ Captured

-----------------------------------------------------------------------------
Windows == {Closed} \cup [age : 0..Window - 1, used : 0..Max]

LimiterType == window \in [{"tool"} -> Windows]

\* A request leaves the limiter's window in its type.
LEMMA PostType ==
  ASSUME LimiterType, FW!Grant("tool") \/ FW!Refuse("tool")
  PROVE  LimiterType'
<1>1. FW!Open("tool") \in [age : 0..Window - 1, used : 0..Max]
  BY LoadTesterAssumption DEF FW!Open, LimiterType, Windows
<1>2. CASE FW!Grant("tool")
  <2>1. [FW!Open("tool") EXCEPT !.used = @ + 1] \in Windows
    BY <1>1, <1>2, LoadTesterAssumption DEF FW!Grant, Windows
  <2> QED
    BY <1>2, <2>1 DEF FW!Grant, LimiterType
<1>3. CASE FW!Refuse("tool")
  BY <1>1, <1>3 DEF FW!Refuse, LimiterType, Windows
<1> QED
  BY <1>2, <1>3

\* So does any outcome of one.
LEMMA OutcomeType ==
  ASSUME LimiterType, NEW outcome, Post(outcome)
  PROVE  LimiterType'
<1>1. CASE UNCHANGED <<window, answer>>
  BY <1>1 DEF LimiterType
<1> QED
  BY <1>1, PostType DEF Post

\* And so does a tick.
LEMMA TickType ==
  ASSUME LimiterType, FW!Tick
  PROVE  LimiterType'
<1>1. window' = [b \in {"tool"} |-> FW!Lapse(window[b])]
  BY DEF FW!Tick
<1>2. FW!Lapse(window["tool"]) \in Windows
  <2>1. window["tool"] \in Windows
    BY DEF LimiterType
  <2>2. CASE window["tool"] = Closed \/ window["tool"].age + 1 = Window
    BY <2>2 DEF FW!Lapse, Windows
  <2>3. CASE ~(window["tool"] = Closed \/ window["tool"].age + 1 = Window)
    <3>1. FW!Lapse(window["tool"]) = [window["tool"] EXCEPT !.age = @ + 1]
      BY <2>3 DEF FW!Lapse
    <3>2. window["tool"] \in [age : 0..Window - 1, used : 0..Max]
      BY <2>1, <2>3 DEF Windows
    <3> QED
      BY <2>3, <3>1, <3>2, LoadTesterAssumption DEF Windows
  <2> QED
    BY <2>2, <2>3
<1> QED
  BY <1>1, <1>2 DEF LimiterType

-----------------------------------------------------------------------------
\* A worker at one of the stages of a request has one.
LEMMA AtWork ==
  ASSUME TypeOK, NEW w \in Workers, worker[w].stage \in {"sending", "sleeping", "slept"}
  PROVE  worker[w] \in Job /\ Busy(w)
<1>1. worker[w] \in Job \cup {Free, Done}
  BY DEF TypeOK
<1>2. Free.stage = "free" /\ Done.stage = "done"
  BY DEF Free, Done
<1> QED
  BY <1>1, <1>2 DEF Busy

\* A request is not an idle worker.
LEMMA JobIsBusy ==
  ASSUME NEW j \in Job
  PROVE  j \notin {Free, Done}
<1>1. j.stage \in {"sending", "sleeping", "slept"}
  BY DEF Job
<1>2. Free.stage = "free" /\ Done.stage = "done"
  BY DEF Free, Done
<1> QED
  BY <1>1, <1>2

\* A worker that goes on with its request.
LEMMA GoesOn ==
  ASSUME Inv, NEW w \in Workers, Busy(w), NEW j \in Job, JobOK(j), j.idx = worker[w].idx,
         worker' = [worker EXCEPT ![w] = j], UNCHANGED <<taken, results>>
  PROVE  worker' \in [Workers -> Job \cup {Free, Done}] /\ Counted' /\ Indexed'
<1>1. worker' \in [Workers -> Job \cup {Free, Done}]
  BY DEF Inv, TypeOK
<1>2. \A v \in Workers : worker'[v] = IF v = w THEN j ELSE worker[v]
  BY DEF Inv, TypeOK
<1>3. j \notin {Free, Done}
  BY JobIsBusy
<1>4. \A v \in Workers : (Busy(v))' <=> Busy(v)
  BY <1>2, <1>3 DEF Busy
<1>5. \A v \in Workers : Busy(v) => worker'[v].idx = worker[v].idx
  BY <1>2
<1>6. Counted'
  <2> SUFFICES ASSUME NEW v \in Workers, (Busy(v))' PROVE JobOK(worker'[v])
    BY DEF Counted, JobOK
  <2> QED
    BY <1>2, <1>4 DEF Inv, Counted
<1>7. Indexed'
  <2>1. \A v \in Workers : (Busy(v))' =>
          worker'[v].idx < taken' /\ results'[worker'[v].idx] = NoResult
    BY <1>4, <1>5 DEF Inv, Indexed
  <2>2. \A u, v \in Workers : u # v /\ (Busy(u))' /\ (Busy(v))' => worker'[u].idx # worker'[v].idx
    BY <1>4, <1>5 DEF Inv, Indexed
  <2>3. \A i \in Indexes :
          /\ i >= taken' => results'[i] = NoResult
          /\ i < taken' /\ results'[i] = NoResult =>
               \E v \in Workers : (Busy(v))' /\ worker'[v].idx = i
          /\ results'[i] # NoResult => ResultOK(results'[i])
    BY <1>4, <1>5 DEF Inv, Indexed
  <2>4. \A v \in Workers : worker'[v] = Done => taken' = N
    BY <1>2, <1>3 DEF Inv, Indexed
  <2> QED
    BY <2>1, <2>2, <2>3, <2>4 DEF Indexed, ResultOK
<1> QED
  BY <1>1, <1>6, <1>7

\* A worker that stores the result of its request.
LEMMA Stores ==
  ASSUME Inv, NEW w \in Workers, worker[w].stage = "sending",
         NEW s \in BOOLEAN, NEW limited \in BOOLEAN,
         limited => ~s /\ worker[w].attempt = maxRetries,
         Store(w, s, limited), taken' = taken
  PROVE  /\ worker' \in [Workers -> Job \cup {Free, Done}] /\ Counted' /\ Indexed'
         /\ results' \in [Indexes -> Result \cup {NoResult}]
         /\ Succeeded(results) \/ s => Succeeded(results')
<1> DEFINE k == worker[w].idx
           r == [success |-> s, rateLimited |-> limited,
                 refused |-> worker[w].refused + (IF limited THEN 1 ELSE 0),
                 waited |-> worker[w].waited]
<1>1. worker[w] \in Job /\ Busy(w) /\ JobOK(worker[w]) /\ k \in Indexes /\ k < taken
      /\ results[k] = NoResult
  BY AtWork DEF Inv, Counted, Indexed, Job
<1>2. r \in Result /\ ResultOK(r) /\ r # NoResult
  <2>1. /\ worker[w].attempt \in 0..maxRetries /\ worker[w].refused = worker[w].attempt
        /\ worker[w].waited = worker[w].attempt
    BY <1>1 DEF Job, JobOK, maxRetries
  <2>2. r \in Result
    BY <2>1 DEF Result, maxRetries
  <2>3. ResultOK(r)
    BY <2>1 DEF ResultOK, maxRetries
  <2> QED
    BY <2>2, <2>3, LoadTesterAssumption
<1>3. results' = [results EXCEPT ![k] = r] /\ worker' = [worker EXCEPT ![w] = Free]
  BY DEF Store
<1> HIDE DEF k, r
<1>4. results' \in [Indexes -> Result \cup {NoResult}]
  BY <1>2, <1>3 DEF Inv, TypeOK
<1>5. worker' \in [Workers -> Job \cup {Free, Done}]
  BY <1>3 DEF Inv, TypeOK
<1>6. \A v \in Workers : worker'[v] = IF v = w THEN Free ELSE worker[v]
  BY <1>3 DEF Inv, TypeOK
<1>7. \A i \in Indexes : results'[i] = IF i = k THEN r ELSE results[i]
  BY <1>1, <1>3 DEF Inv, TypeOK
<1>8. \A v \in Workers : (Busy(v))' <=> v # w /\ Busy(v)
  BY <1>6 DEF Busy
<1>9. Counted'
  BY <1>6, <1>8 DEF Inv, Counted, JobOK
<1>10. Indexed'
  <2>1. \A v \in Workers : (Busy(v))' =>
          worker'[v].idx < taken' /\ results'[worker'[v].idx] = NoResult
    <3> SUFFICES ASSUME NEW v \in Workers, (Busy(v))'
                 PROVE  worker'[v].idx < taken' /\ results'[worker'[v].idx] = NoResult
      OBVIOUS
    <3>1. v # w /\ Busy(v) /\ worker'[v] = worker[v]
      BY <1>6, <1>8
    <3>2. worker[v].idx # k /\ worker[v].idx < taken /\ results[worker[v].idx] = NoResult
      BY <1>1, <3>1 DEF Inv, Indexed, k
    <3>3. worker[v].idx \in Indexes
      BY <3>1 DEF Inv, TypeOK, Busy, Job
    <3> QED
      BY <1>7, <3>1, <3>2, <3>3
  <2>2. \A u, v \in Workers : u # v /\ (Busy(u))' /\ (Busy(v))' => worker'[u].idx # worker'[v].idx
    BY <1>6, <1>8 DEF Inv, Indexed
  <2>3. ASSUME NEW i \in Indexes
        PROVE  /\ i >= taken' => results'[i] = NoResult
               /\ i < taken' /\ results'[i] = NoResult =>
                    \E v \in Workers : (Busy(v))' /\ worker'[v].idx = i
               /\ results'[i] # NoResult => ResultOK(results'[i])
    <3>1. CASE i = k
      <4>1. k \in Int /\ taken \in Int /\ k < taken
        <5>1. N \in Int
          BY LoadTesterAssumption
        <5>2. taken \in Int
          <6>1. taken \in 0..N
            BY DEF Inv, TypeOK
          <6> QED
            BY <5>1, <6>1
        <5>3. k \in Int
          <6>1. k \in Indexes
            BY <1>1
          <6> QED
            BY <5>1, <6>1 DEF Indexes
        <5> QED
          BY <1>1, <5>2, <5>3
      <4> QED
        BY <1>1, <1>2, <1>7, <3>1, <4>1
    <3>2. CASE i # k
      <4>1. results'[i] = results[i]
        BY <1>7, <3>2
      <4>2. ASSUME i < taken, results[i] = NoResult
            PROVE  \E v \in Workers : (Busy(v))' /\ worker'[v].idx = i
        <5>1. PICK v \in Workers : Busy(v) /\ worker[v].idx = i
          BY <4>2 DEF Inv, Indexed
        <5>2. v # w
          BY <3>2, <5>1 DEF k
        <5> QED
          BY <1>6, <1>8, <5>1, <5>2
      <4> QED
        BY <4>1, <4>2 DEF Inv, Indexed
    <3> QED
      BY <3>1, <3>2
  <2>4. \A v \in Workers : worker'[v] = Done => taken' = N
    BY <1>6 DEF Inv, Indexed, Free, Done
  <2> QED
    BY <2>1, <2>2, <2>3, <2>4 DEF Indexed, ResultOK
<1>11. Succeeded(results) \/ s => Succeeded(results')
  BY <1>1, <1>2, <1>7 DEF Succeeded, r
<1> QED
  BY <1>4, <1>5, <1>9, <1>10, <1>11

-----------------------------------------------------------------------------
\* The first two parts of the invariant are kept by what only ends a test or
\* never touches it.
LEMMA Untouched ==
  ASSUME Inv, UNCHANGED <<taken, worker, results>>
  PROVE  Counted' /\ Indexed'
BY DEF Inv, Counted, Indexed, JobOK, ResultOK, Busy

\* A worker without a request starts one, or finds the channel closed.
LEMMA ReceiveKeeps ==
  ASSUME Inv, NEW w \in Workers, Receive(w)
  PROVE  Inv'
<1>1. UNCHANGED <<phase, results, once, envelope, reports, window, answer>> /\ ~Busy(w)
  BY DEF Receive, Busy
<1>2. taken \in 0..N /\ N \in Nat \ {0} /\ worker \in [Workers -> Job \cup {Free, Done}]
  BY LoadTesterAssumption DEF Inv, TypeOK
<1>3. CASE taken = N
  <2>1. worker' = [worker EXCEPT ![w] = Done] /\ taken' = taken
    BY <1>3 DEF Receive
  <2>2. worker' \in [Workers -> Job \cup {Free, Done}]
    BY <1>2, <2>1
  <2>3. \A v \in Workers : worker'[v] = IF v = w THEN Done ELSE worker[v]
    BY <1>2, <2>1
  <2>4. \A v \in Workers : (Busy(v))' <=> Busy(v)
    BY <1>1, <2>3 DEF Busy
  <2>5. \A v \in Workers : Busy(v) => worker'[v] = worker[v]
    BY <1>1, <2>3
  <2>6. Counted'
    BY <2>4, <2>5 DEF Inv, Counted, JobOK
  <2>7. Indexed'
    <3>1. \A i \in Indexes :
            i < taken /\ results[i] = NoResult => \E v \in Workers : (Busy(v))' /\ worker'[v].idx = i
      BY <2>4, <2>5 DEF Inv, Indexed
    <3>2. \A v \in Workers : worker'[v] = Done => taken' = N
      BY <1>3, <2>1
    <3>3. \A v \in Workers : (Busy(v))' =>
            worker'[v].idx < taken' /\ results'[worker'[v].idx] = NoResult
      BY <1>1, <2>1, <2>4, <2>5 DEF Inv, Indexed
    <3>4. \A u, v \in Workers : u # v /\ (Busy(u))' /\ (Busy(v))' => worker'[u].idx # worker'[v].idx
      BY <2>4, <2>5 DEF Inv, Indexed
    <3> QED
      BY <1>1, <2>1, <3>1, <3>2, <3>3, <3>4 DEF Inv, Indexed, ResultOK
  <2> QED
    BY <1>1, <2>1, <2>2, <2>6, <2>7, ZenonT(40) DEF Inv, TypeOK, Reported, Captured, Complete, Succeeded, ResultOK
<1>4. CASE taken # N
  <2> DEFINE j == [stage |-> "sending", idx |-> taken, attempt |-> 0, refused |-> 0, waited |-> 0]
  <2>1. worker' = [worker EXCEPT ![w] = j] /\ taken' = taken + 1
    BY <1>4 DEF Receive
  <2>2. taken \in Indexes /\ taken' \in 0..N
    BY <1>2, <1>4, <2>1 DEF Indexes
  <2>3. j \in Job /\ JobOK(j) /\ j.idx = taken
    BY <2>2 DEF Job, JobOK, maxRetries
  <2> HIDE DEF j
  <2>4. worker' \in [Workers -> Job \cup {Free, Done}]
    BY <1>2, <2>1, <2>3
  <2>5. \A v \in Workers : worker'[v] = IF v = w THEN j ELSE worker[v]
    BY <1>2, <2>1
  <2>6. j \notin {Free, Done}
    BY <2>3, JobIsBusy
  <2>7. \A v \in Workers : (Busy(v))' <=> v = w \/ Busy(v)
    BY <2>5, <2>6 DEF Busy
  <2>8. Counted'
    BY <2>3, <2>5, <2>7 DEF Inv, Counted, JobOK
  <2>9. Indexed'
    <3>1. \A v \in Workers : Busy(v) => worker[v].idx \in Int /\ worker[v].idx < taken
      BY <1>2 DEF Inv, Indexed, Busy, Job, Indexes
    <3>2. results[taken] = NoResult
      BY <1>2, <2>2 DEF Inv, Indexed
    <3>3. \A v \in Workers : (Busy(v))' =>
            worker'[v].idx < taken' /\ results'[worker'[v].idx] = NoResult
      <4> SUFFICES ASSUME NEW v \in Workers, (Busy(v))'
                   PROVE  worker'[v].idx < taken' /\ results'[worker'[v].idx] = NoResult
        OBVIOUS
      <4>1. CASE v = w
        BY <1>1, <1>2, <2>1, <2>3, <2>5, <3>2, <4>1
      <4>2. CASE v # w
        BY <1>1, <1>2, <2>1, <2>5, <2>7, <3>1, <4>2 DEF Inv, Indexed
      <4> QED
        BY <4>1, <4>2
    <3>4. \A u, v \in Workers : u # v /\ (Busy(u))' /\ (Busy(v))' => worker'[u].idx # worker'[v].idx
      <4>1. \A v \in Workers : Busy(v) => worker[v].idx # taken
        BY <1>2, <3>1
      <4> QED
        BY <2>3, <2>5, <2>7, <4>1 DEF Inv, Indexed
    <3>5. ASSUME NEW i \in Indexes
          PROVE  /\ i >= taken' => results'[i] = NoResult
                 /\ i < taken' /\ results'[i] = NoResult =>
                      \E v \in Workers : (Busy(v))' /\ worker'[v].idx = i
                 /\ results'[i] # NoResult => ResultOK(results'[i])
      <4>1. i \in Int /\ taken \in Int
        BY <1>2 DEF Indexes
      <4>2. i >= taken' => i >= taken
        BY <2>1, <4>1
      <4>3. i < taken' => i < taken \/ i = taken
        BY <2>1, <4>1
      <4>4. ASSUME i < taken, results[i] = NoResult
            PROVE  \E v \in Workers : (Busy(v))' /\ worker'[v].idx = i
        <5>1. PICK v \in Workers : Busy(v) /\ worker[v].idx = i
          BY <4>4 DEF Inv, Indexed
        <5>2. v # w
          BY <1>1, <5>1
        <5> QED
          BY <2>5, <2>7, <5>1, <5>2
      <4>5. (Busy(w))' /\ worker'[w].idx = taken
        BY <2>3, <2>5, <2>7
      <4> QED
        BY <1>1, <4>2, <4>3, <4>4, <4>5 DEF Inv, Indexed
    <3>6. \A v \in Workers : worker'[v] = Done => taken' = N
      BY <1>2, <1>4, <2>5, <2>6 DEF Inv, Indexed
    <3> QED
      BY <3>3, <3>4, <3>5, <3>6 DEF Indexed, ResultOK
  <2> QED
    BY <1>1, <2>2, <2>4, <2>8, <2>9, ZenonT(40) DEF Inv, TypeOK, Reported, Captured, Complete, Succeeded, ResultOK
<1> QED
  BY <1>3, <1>4

\* A turn of the retry loop.
LEMMA AttemptKeeps ==
  ASSUME Inv, NEW w \in Workers, Attempt(w)
  PROVE  Inv'
<1>1. worker[w].stage = "sending" /\ UNCHANGED <<phase, taken, reports>>
  BY DEF Attempt
<1>2. worker[w] \in Job /\ Busy(w) /\ JobOK(worker[w])
  BY <1>1, AtWork DEF Inv, Counted
<1>3. PICK outcome \in Outcomes :
        /\ Post(outcome)
        /\ \/ /\ outcome = "429" /\ worker[w].attempt < maxRetries
              /\ worker' = [worker EXCEPT ![w] =
                   [worker[w] EXCEPT !.stage = "sleeping", !.refused = @ + 1]]
              /\ UNCHANGED <<results, once, envelope>>
           \/ /\ outcome = "429" /\ worker[w].attempt = maxRetries
              /\ Store(w, FALSE, TRUE) /\ UNCHANGED <<once, envelope>>
           \/ outcome \in {"200", "200 cut"} /\ Store(w, TRUE, FALSE) /\ Capture(outcome)
           \/ outcome = "error" /\ Store(w, FALSE, FALSE) /\ UNCHANGED <<once, envelope>>
  BY DEF Attempt
<1>4. LimiterType'
  BY <1>3, OutcomeType DEF Inv, TypeOK, LimiterType, Windows
<1>5. CASE /\ worker[w].attempt < maxRetries /\ UNCHANGED <<results, once, envelope>>
           /\ worker' = [worker EXCEPT ![w] = [worker[w] EXCEPT !.stage = "sleeping", !.refused = @ + 1]]
  <2> DEFINE j == [worker[w] EXCEPT !.stage = "sleeping", !.refused = @ + 1]
  <2>1. worker' = [worker EXCEPT ![w] = j]
    BY <1>5
  <2>2. /\ worker[w].attempt \in 0..maxRetries /\ worker[w].refused = worker[w].attempt
        /\ worker[w].waited = worker[w].attempt
    BY <1>1, <1>2 DEF Job, JobOK, maxRetries
  <2>3. j \in Job /\ j.idx = worker[w].idx
    <3>1. worker[w].refused + 1 \in 0..maxRetries
      BY <1>5, <2>2 DEF maxRetries
    <3> QED
      BY <1>2, <3>1 DEF Job
  <2>4. JobOK(j)
    BY <1>2, <1>5, <2>2 DEF JobOK, Job, maxRetries
  <2> HIDE DEF j
  <2>5. worker' \in [Workers -> Job \cup {Free, Done}] /\ Counted' /\ Indexed'
    BY <1>1, <1>2, <1>5, <2>1, <2>3, <2>4, GoesOn
  <2> QED
    BY <1>1, <1>4, <1>5, <2>5, ZenonT(40)
       DEF Inv, TypeOK, Reported, Captured, Complete, Succeeded, ResultOK, LimiterType, Windows
<1>6. ASSUME NEW s \in BOOLEAN, NEW limited \in BOOLEAN,
             limited => ~s /\ worker[w].attempt = maxRetries, Store(w, s, limited),
             once' \in BOOLEAN, envelope' = envelope \/ (phase = "encrypt" /\ s /\ envelope' \in BOOLEAN)
      PROVE  Inv'
  <2>1. /\ worker' \in [Workers -> Job \cup {Free, Done}] /\ Counted' /\ Indexed'
        /\ results' \in [Indexes -> Result \cup {NoResult}]
        /\ Succeeded(results) \/ s => Succeeded(results')
    BY <1>1, <1>6, Stores
  <2>2. TypeOK'
    BY <1>1, <1>4, <1>6, <2>1 DEF Inv, TypeOK, LimiterType, Windows
  <2>3. Captured'
    <3>1. phase' = phase /\ reports' = reports
      BY <1>1
    <3>2. (Succeeded(reports["encrypt"]))' <=> Succeeded(reports["encrypt"])
      BY <3>1 DEF Succeeded
    <3>3. envelope' => envelope \/ (phase = "encrypt" /\ s)
      BY <1>6
    <3>4. (Succeeded(results))' <=> Succeeded(results')
      BY DEF Succeeded
    <3>5. phase = "encrypt" => (envelope' => (Succeeded(results))')
      BY <2>1, <3>3, <3>4 DEF Inv, Captured
    <3> QED
      BY <3>1, <3>2, <3>3, <3>5 DEF Inv, Captured
  <2>4. Reported'
    BY <1>1 DEF Inv, Reported, Complete, ResultOK
  <2> QED
    BY <2>1, <2>2, <2>3, <2>4 DEF Inv
<1>7. CASE /\ worker[w].attempt = maxRetries
           /\ Store(w, FALSE, TRUE) /\ UNCHANGED <<once, envelope>>
  <2>1. once' \in BOOLEAN
    BY <1>7 DEF Inv, TypeOK
  <2> QED
    BY <1>6, <1>7, <2>1
<1>8. CASE Store(w, TRUE, FALSE) /\ Capture(outcome)
  <2>1. once' \in BOOLEAN /\ (envelope' = envelope \/ (phase = "encrypt" /\ envelope' \in BOOLEAN))
    BY <1>8 DEF Capture, Inv, TypeOK
  <2> QED
    BY <1>6, <1>8, <2>1
<1>9. CASE Store(w, FALSE, FALSE) /\ UNCHANGED <<once, envelope>>
  <2>1. once' \in BOOLEAN
    BY <1>9 DEF Inv, TypeOK
  <2> QED
    BY <1>6, <1>9, <2>1
<1> QED
  BY <1>3, <1>5, <1>7, <1>8, <1>9

\* A worker whose second is over.
LEMMA AwakeKeeps ==
  ASSUME Inv, NEW w \in Workers, Awake(w)
  PROVE  Inv'
<1> DEFINE j == [worker[w] EXCEPT !.stage = "sending", !.attempt = @ + 1]
<1>1. /\ worker[w].stage = "slept" /\ worker' = [worker EXCEPT ![w] = j]
      /\ UNCHANGED <<phase, taken, results, once, envelope, reports, window, answer>>
  BY DEF Awake
<1>2. worker[w] \in Job /\ Busy(w) /\ JobOK(worker[w])
  BY <1>1, AtWork DEF Inv, Counted
<1>3. /\ worker[w].attempt \in 0..maxRetries - 1
      /\ worker[w].refused = worker[w].attempt + 1 /\ worker[w].waited = worker[w].attempt + 1
  BY <1>1, <1>2 DEF Job, JobOK, maxRetries
<1>4. j \in Job /\ j.idx = worker[w].idx
  <2>1. worker[w].attempt + 1 \in 0..maxRetries
    BY <1>3 DEF maxRetries
  <2> QED
    BY <1>2, <2>1 DEF Job
<1>5. JobOK(j)
  BY <1>2, <1>3 DEF JobOK, Job, maxRetries
<1> HIDE DEF j
<1>6. worker' \in [Workers -> Job \cup {Free, Done}] /\ Counted' /\ Indexed'
  BY <1>1, <1>2, <1>4, <1>5, GoesOn
<1> QED
  BY <1>1, <1>6, ZenonT(40) DEF Inv, TypeOK, Reported, Captured, Complete, Succeeded, ResultOK

\* A second for everyone.
LEMMA TickKeeps ==
  ASSUME Inv, Tick
  PROVE  Inv'
<1>1. /\ worker' = [w \in Workers |-> Later(worker[w])] /\ FW!Tick
      /\ UNCHANGED <<phase, taken, results, once, envelope, reports>>
  BY DEF Tick
<1>2. ASSUME NEW w \in Workers
      PROVE  /\ worker'[w] \in Job \cup {Free, Done}
             /\ (Busy(w))' <=> Busy(w)
             /\ Busy(w) => worker'[w].idx = worker[w].idx /\ JobOK(worker'[w])
             /\ worker'[w] = Done => worker[w] = Done
  <2>1. worker'[w] = Later(worker[w]) /\ worker[w] \in Job \cup {Free, Done}
    BY <1>1 DEF Inv, TypeOK
  <2>2. CASE worker[w].stage = "sleeping"
    <3> DEFINE j == [worker[w] EXCEPT !.stage = "slept", !.waited = @ + 1]
    <3>1. worker[w] \in Job /\ Busy(w) /\ JobOK(worker[w])
      BY <2>2, AtWork DEF Inv, Counted
    <3>2. worker'[w] = j
      BY <2>1, <2>2 DEF Later
    <3>3. /\ worker[w].attempt \in 0..maxRetries - 1
          /\ worker[w].refused = worker[w].attempt + 1 /\ worker[w].waited = worker[w].attempt
      BY <2>2, <3>1 DEF Job, JobOK, maxRetries
    <3>4. j \in Job /\ j.idx = worker[w].idx
      <4>1. worker[w].waited + 1 \in 0..maxRetries
        BY <3>3 DEF maxRetries
      <4> QED
        BY <3>1, <4>1 DEF Job
    <3>5. JobOK(j)
      BY <3>1, <3>3 DEF JobOK, Job, maxRetries
    <3> HIDE DEF j
    <3>6. j \notin {Free, Done}
      BY <3>4, JobIsBusy
    <3> QED
      BY <3>1, <3>2, <3>4, <3>5, <3>6 DEF Busy
  <2>3. CASE worker[w].stage # "sleeping"
    <3>1. worker'[w] = worker[w]
      BY <2>1, <2>3 DEF Later
    <3> QED
      BY <2>1, <3>1 DEF Busy, Inv, Counted
  <2> QED
    BY <2>2, <2>3
<1>3. worker' \in [Workers -> Job \cup {Free, Done}]
  BY <1>1, <1>2
<1>4. Counted'
  <2> SUFFICES ASSUME NEW w \in Workers, (Busy(w))' PROVE JobOK(worker'[w])
    BY DEF Counted, JobOK
  <2> QED
    BY <1>2
<1>5. Indexed'
  <2>1. \A w \in Workers : (Busy(w))' =>
          worker'[w].idx < taken' /\ results'[worker'[w].idx] = NoResult
    BY <1>1, <1>2 DEF Inv, Indexed
  <2>2. \A v, w \in Workers : v # w /\ (Busy(v))' /\ (Busy(w))' => worker'[v].idx # worker'[w].idx
    BY <1>2 DEF Inv, Indexed
  <2>3. \A i \in Indexes :
          /\ i >= taken' => results'[i] = NoResult
          /\ i < taken' /\ results'[i] = NoResult =>
               \E w \in Workers : (Busy(w))' /\ worker'[w].idx = i
          /\ results'[i] # NoResult => ResultOK(results'[i])
    BY <1>1, <1>2 DEF Inv, Indexed
  <2>4. \A w \in Workers : worker'[w] = Done => taken' = N
    BY <1>1, <1>2 DEF Inv, Indexed
  <2> QED
    BY <2>1, <2>2, <2>3, <2>4 DEF Indexed, ResultOK
<1>6. TypeOK'
  <2>1. LimiterType'
    BY <1>1, TickType DEF Inv, TypeOK, LimiterType, Windows
  <2> QED
    BY <1>1, <1>3, <2>1 DEF Inv, TypeOK, LimiterType, Windows
<1> QED
  BY <1>1, <1>4, <1>5, <1>6 DEF Inv, Reported, Captured, Complete, Succeeded, ResultOK

\* A request of the smoke test: no index has been taken, and nothing captured.
LEMMA SmokeTestKeeps ==
  ASSUME Inv, SmokeTest
  PROVE  Inv'
<1>1. /\ phase \in {"smoke encrypt", "smoke decrypt"}
      /\ phase' \in {"aborted", "smoke decrypt", "encrypt"}
      /\ \E outcome \in Outcomes : Post(outcome)
      /\ UNCHANGED <<taken, worker, results, once, envelope, reports>>
  BY DEF SmokeTest
<1>2. TypeOK'
  <2>1. LimiterType'
    BY <1>1, OutcomeType DEF Inv, TypeOK, LimiterType, Windows
  <2> QED
    BY <1>1, <2>1 DEF Inv, TypeOK, Tests, LimiterType, Windows
<1>3. Counted' /\ Indexed'
  BY <1>1, Untouched
<1>4. Reported'
  BY <1>1 DEF Inv, Reported, Complete, ResultOK
<1>5. Captured'
  BY <1>1 DEF Inv, Captured, Succeeded
<1> QED
  BY <1>2, <1>3, <1>4, <1>5 DEF Inv

\* All workers have seen the channel closed, so every index has its result.
LEMMA ReportKeeps ==
  ASSUME Inv, Report
  PROVE  Inv'
<1>1. /\ phase \in Tests /\ \A w \in Workers : worker[w] = Done
      /\ reports' = [reports EXCEPT ![phase] = results]
      /\ phase' = IF phase = "encrypt" /\ envelope THEN "decrypt" ELSE "finished"
      /\ taken' = 0 /\ worker' = [w \in Workers |-> Free]
      /\ results' = [i \in Indexes |-> NoResult]
      /\ UNCHANGED <<once, envelope, window, answer>>
  BY DEF Report
<1>2. Complete(results)
  <2>1. taken = N
    BY <1>1, LoadTesterAssumption DEF Inv, Indexed
  <2>2. \A i \in Indexes : i < taken
    BY <2>1, LoadTesterAssumption DEF Indexes
  <2>3. \A w \in Workers : ~Busy(w)
    BY <1>1 DEF Busy
  <2> QED
    BY <2>2, <2>3 DEF Inv, Indexed, Complete
<1>3. /\ reports' \in [Tests -> [Indexes -> Result \cup {NoResult}] \cup {NotRun}]
      /\ \A t \in Tests : reports'[t] = IF t = phase THEN results ELSE reports[t]
  BY <1>1 DEF Inv, TypeOK
<1>4. TypeOK'
  <2>1. 0 \in 0..N
    BY LoadTesterAssumption
  <2> QED
    BY <1>1, <1>3, <2>1 DEF Inv, TypeOK, Tests
<1>5. \A w \in Workers : worker'[w] = Free /\ ~(Busy(w))'
  BY <1>1 DEF Busy
<1>6. Counted'
  BY <1>5 DEF Counted, Busy
<1>7. Indexed'
  <2>1. Free # Done
    BY DEF Free, Done
  <2>2. \A i \in Indexes : results'[i] = NoResult /\ ~(i < taken')
    BY <1>1, LoadTesterAssumption DEF Indexes
  <2>3. \A v, w \in Workers : v # w /\ (Busy(v))' /\ (Busy(w))' => worker'[v].idx # worker'[w].idx
    BY <1>5
  <2>4. \A w \in Workers : (Busy(w))' =>
          worker'[w].idx < taken' /\ results'[worker'[w].idx] = NoResult
    BY <1>5
  <2>5. \A w \in Workers : worker'[w] = Done => taken' = N
    BY <1>5, <2>1
  <2> QED
    BY <2>2, <2>3, <2>4, <2>5 DEF Indexed
<1>8. Reported'
  <2> SUFFICES ASSUME NEW t \in Tests, reports'[t] # NotRun PROVE Complete(reports'[t])
    BY DEF Reported, Complete, ResultOK
  <2>1. reports'[t] = IF t = phase THEN results ELSE reports[t]
    BY <1>3
  <2> QED
    BY <1>2, <2>1 DEF Inv, Reported
<1>9. Captured'
  <2>1. CASE phase = "encrypt"
    <3>1. reports'["encrypt"] = results /\ reports'["decrypt"] = NotRun
      BY <1>3, <2>1 DEF Inv, Captured, Tests
    <3>2. phase' = "decrypt" => Succeeded(results)
      BY <1>1, <2>1 DEF Inv, Captured
    <3> QED
      BY <1>1, <2>1, <3>1, <3>2 DEF Captured, Succeeded
  <2>2. CASE phase = "decrypt"
    <3>1. reports'["encrypt"] = reports["encrypt"] /\ Succeeded(reports["encrypt"])
      BY <1>3, <2>2 DEF Inv, Captured, Tests
    <3> QED
      BY <1>1, <2>2, <3>1 DEF Captured, Succeeded
  <2> QED
    BY <1>1, <2>1, <2>2 DEF Tests
<1> QED
  BY <1>4, <1>6, <1>7, <1>8, <1>9 DEF Inv

-----------------------------------------------------------------------------
LEMMA InitInv == Init => Inv
<1> SUFFICES ASSUME Init PROVE Inv
  OBVIOUS
<1>1. TypeOK
  <2>1. 0 \in 0..N
    BY LoadTesterAssumption
  <2>2. window \in [{"tool"} -> {Closed} \cup [age : 0..Window - 1, used : 0..Max]]
    BY DEF Init, FW!Init
  <2> QED
    BY <2>1, <2>2 DEF Init, TypeOK
<1>2. \A w \in Workers : worker[w] = Free /\ ~Busy(w)
  BY DEF Init, Busy
<1>3. Counted
  BY <1>2 DEF Counted
<1>4. Indexed
  <2>1. Free # Done
    BY DEF Free, Done
  <2>2. \A i \in Indexes : results[i] = NoResult /\ ~(i < taken)
    <3>1. taken = 0 /\ \A i \in Indexes : results[i] = NoResult
      BY DEF Init
    <3>2. \A i \in Indexes : ~(i < 0)
      BY LoadTesterAssumption DEF Indexes
    <3> QED
      BY <3>1, <3>2
  <2> QED
    BY <1>2, <2>1, <2>2 DEF Indexed
<1>5. \A t \in Tests : reports[t] = NotRun
  BY DEF Init
<1>6. Reported
  BY <1>5 DEF Reported
<1>7. Captured
  BY <1>5 DEF Captured, Init, Tests
<1> QED
  BY <1>1, <1>3, <1>4, <1>6, <1>7 DEF Inv

LEMMA NextInv == Inv /\ [Next]_vars => Inv'
<1> SUFFICES ASSUME Inv, [Next]_vars PROVE Inv'
  OBVIOUS
<1>1. ASSUME NEW w \in Workers, Work(w) PROVE Inv'
  BY <1>1, ReceiveKeeps, AttemptKeeps, AwakeKeeps DEF Work
<1>2. CASE UNCHANGED vars
  <2>1. Counted' /\ Indexed'
    BY <1>2, Untouched DEF vars
  <2> QED
    BY <1>2, <2>1, ZenonT(40) DEF vars, Inv, TypeOK, Reported, Captured, Complete, Succeeded, ResultOK
<1> QED
  BY <1>1, <1>2, SmokeTestKeeps, ReportKeeps, TickKeeps DEF Next

THEOREM Invariant == Spec => []Inv
BY InitInv, NextInv, PTL DEF Spec

\* The tool's state and the limiter's have their types.
THEOREM TypeCorrect == Spec => []TypeOK
<1>1. Inv => TypeOK
  BY DEF Inv
<1> QED
  BY <1>1, Invariant, PTL

\* For any number of workers, requests and any limit, a report is about exactly
\* its N requests, and rate limited is who was refused four times
\* (perf-test.go:205-274, 303-315).
THEOREM ReportsAreComplete == Spec => []ReportsComplete
<1>1. Inv => ReportsComplete
  <2> SUFFICES ASSUME Inv PROVE ReportsComplete
    OBVIOUS
  <2>1. \A v, w \in Workers :
          v # w /\ {worker[v], worker[w]} \cap {Free, Done} = {} => worker[v].idx # worker[w].idx
    BY DEF Inv, Indexed, Busy
  <2>2. \A t \in Tests : reports[t] # NotRun =>
          \A i \in Indexes : reports[t][i] # NoResult /\ ResultOK(reports[t][i])
    BY DEF Inv, Reported, Complete
  <2> QED
    BY <2>1, <2>2 DEF ReportsComplete, ResultOK
<1> QED
  BY <1>1, Invariant, PTL

\* /decrypt is tested only after /encrypt had a success (perf-test.go:163-179).
THEOREM DecryptNeedsSuccess == Spec => []DecryptAfterSuccess
<1>1. Inv => DecryptAfterSuccess
  BY DEF Inv, Captured, Succeeded, DecryptAfterSuccess
<1> QED
  BY <1>1, Invariant, PTL

-----------------------------------------------------------------------------
\* The reports that are still to come.
Unreported ==
  /\ phase \in {"smoke encrypt", "smoke decrypt"} => reports["encrypt"] = NotRun
  /\ phase \in Tests => reports[phase] = NotRun

LEMMA StillUnreported == Inv /\ Unreported /\ [Next]_vars => Unreported'
<1> SUFFICES ASSUME Inv, Unreported, [Next]_vars PROVE Unreported'
  OBVIOUS
<1>1. CASE SmokeTest
  <2>1. /\ phase \in {"smoke encrypt", "smoke decrypt"} /\ reports' = reports
        /\ phase' \in {"aborted", "smoke decrypt", "encrypt"}
    BY <1>1 DEF SmokeTest
  <2> QED
    BY <2>1 DEF Unreported, Tests
<1>2. CASE Report
  <2>1. /\ phase \in Tests /\ reports' = [reports EXCEPT ![phase] = results]
        /\ phase' = IF phase = "encrypt" /\ envelope THEN "decrypt" ELSE "finished"
    BY <1>2 DEF Report
  <2>2. phase' = "decrypt" => phase = "encrypt" /\ reports["decrypt"] = NotRun
    BY <2>1 DEF Inv, Captured
  <2>3. phase' = "decrypt" => reports'["decrypt"] = NotRun
    BY <2>1, <2>2 DEF Inv, TypeOK, Tests
  <2> QED
    BY <2>1, <2>3 DEF Unreported, Tests
<1>3. CASE UNCHANGED <<phase, reports>>
  BY <1>3 DEF Unreported
<1> QED
  BY <1>1, <1>2, <1>3 DEF Next, Work, Receive, Attempt, Awake, Tick, vars

\* A worker writes where no result is.
LEMMA StoresOnce ==
  ASSUME Inv, NEW w \in Workers, worker[w].stage = "sending", NEW s, NEW limited,
         Store(w, s, limited)
  PROVE  \A i \in Indexes : results[i] # NoResult => results'[i] = results[i]
<1>1. Busy(w)
  BY AtWork DEF Inv
<1>2. results[worker[w].idx] = NoResult
  BY <1>1 DEF Inv, Indexed
<1> QED
  BY <1>2 DEF Store, Inv, TypeOK

\* What is written stays: a result until its test is reported, the captured
\* envelope, and a report (perf-test.go:159-165, 205, 266-271).
THEOREM NothingOverwritten == Spec => WrittenOnce
<1> DEFINE Step ==
      /\ \A i \in Indexes :
           results[i] # NoResult => results'[i] = results[i] \/ phase' # phase
      /\ once => UNCHANGED <<once, envelope>>
      /\ \A t \in Tests : reports[t] # NotRun => reports'[t] = reports[t]
<1>1. Init => Unreported
  BY DEF Init, Unreported, Tests
<1>2. Spec => []Unreported
  BY <1>1, StillUnreported, Invariant, PTL DEF Spec
<1>3. Inv /\ Unreported /\ [Next]_vars => Step
  <2> SUFFICES ASSUME Inv, Unreported, [Next]_vars PROVE Step
    OBVIOUS
  <2>1. CASE UNCHANGED <<results, once, envelope, reports>>
    BY <2>1
  <2>2. CASE Report
    <3>1. /\ phase \in Tests /\ reports' = [reports EXCEPT ![phase] = results]
          /\ phase' # phase /\ UNCHANGED <<once, envelope>>
      BY <2>2 DEF Report, Tests
    <3>2. \A t \in Tests : reports[t] # NotRun => t # phase
      BY <3>1 DEF Unreported
    <3> QED
      BY <3>1, <3>2 DEF Inv, TypeOK
  <2>3. ASSUME NEW w \in Workers, Attempt(w) PROVE Step
    <3>1. worker[w].stage = "sending" /\ reports' = reports
      BY <2>3 DEF Attempt
    <3>2. results' = results \/ \E s, limited \in BOOLEAN : Store(w, s, limited)
      BY <2>3 DEF Attempt
    <3>3. \A i \in Indexes : results[i] # NoResult => results'[i] = results[i]
      BY <3>1, <3>2, StoresOnce
    <3>4. once => UNCHANGED <<once, envelope>>
      BY <2>3 DEF Attempt, Capture
    <3> QED
      BY <3>1, <3>3, <3>4
  <2> QED
    BY <2>1, <2>2, <2>3 DEF Next, Work, SmokeTest, Receive, Awake, Tick, vars
<1>4. Spec => [][Step]_vars
  BY <1>2, <1>3, Invariant, PTL DEF Spec
<1> QED
  BY <1>4 DEF WrittenOnce
=============================================================================
