----------------------------- MODULE LoadTester -----------------------------
(***************************************************************************)
(* perf-test/perf-test.go against the rate limiter: a smoke test of two    *)
(* requests, then N requests to /encrypt and N to /decrypt, each by        *)
(* concurrent workers that take indexes from a channel and retry what the  *)
(* limiter refuses.  The limiter is FixedWindow with the one bucket of the *)
(* tool's key; a tick is the second a worker sleeps before a retry.        *)
(***************************************************************************)
EXTENDS Naturals

CONSTANTS
  Workers,     \* -c goroutines
  N,           \* -n requests per test
  Max, Window, \* of the limiter
  Closed, NoAnswer, NoResult, NotRun

VARIABLES
  phase,          \* what main is at
  taken,          \* indexes taken from idxChan
  worker,         \* per goroutine what it is doing
  results,        \* per index its Result
  once, envelope, \* encryptOnce is done; encryptResult holds an envelope
  reports,        \* per test its results, when it was reported
  window, answer  \* the service's limiter

vars == <<phase, taken, worker, results, once, envelope, reports, window, answer>>

maxRetries == 3

Indexes == 0..N - 1

\* A Result, with how often the request was refused and how long it waited.
Result == [success : BOOLEAN, rateLimited : BOOLEAN, refused : 0..maxRetries + 1,
           waited : 0..maxRetries]

\* A request that a worker is at.
Job == [stage : {"sending", "sleeping", "slept"}, idx : Indexes, attempt : 0..maxRetries,
        refused : 0..maxRetries, waited : 0..maxRetries]

Free == [stage |-> "free"]
Done == [stage |-> "done"]

ASSUME LoadTesterAssumption ==
  /\ Workers # {} /\ N \in Nat \ {0} /\ Max \in Nat /\ Window \in Nat \ {0}
  /\ NoResult \notin Result
  /\ Closed \notin [age : Nat, used : Nat]

Tests == {"encrypt", "decrypt"}

FW == INSTANCE FixedWindow WITH Buckets <- {"tool"}

-----------------------------------------------------------------------------
\* What a request meets: the limiter refuses it, or lets it through and the
\* handler's reply arrives, arrives cut short, or is an error; or it fails
\* before it is counted, or loses its refusal.
Post(outcome) ==
  \/ outcome = "429" /\ FW!Refuse("tool")
  \/ outcome \in {"200", "200 cut", "error"} /\ FW!Grant("tool")
  \/ outcome = "error" /\ (FW!Refuse("tool") \/ UNCHANGED <<window, answer>>)

Outcomes == {"200", "200 cut", "429", "error"}

\* runSmokeTest: the first outcome that is no complete 200 ends the tool, and
\* nothing is retried.
SmokeTest ==
  /\ phase \in {"smoke encrypt", "smoke decrypt"}
  /\ \E outcome \in Outcomes :
       /\ Post(outcome)
       /\ phase' = CASE outcome # "200"         -> "aborted"
                     [] outcome = "200" /\ phase = "smoke encrypt" -> "smoke decrypt"
                     [] outcome = "200" /\ phase = "smoke decrypt" -> "encrypt"
  /\ UNCHANGED <<taken, worker, results, once, envelope, reports>>

-----------------------------------------------------------------------------
\* Mutant: the channel is never closed, and a worker waits for an index.
Receive_NotClosed(w) ==
  /\ phase \in Tests /\ worker[w] = Free
  /\ taken < N
  /\ worker' = [worker EXCEPT ![w] =
       [stage |-> "sending", idx |-> taken, attempt |-> 0, refused |-> 0, waited |-> 0]]
  /\ taken' = taken + 1
  /\ UNCHANGED <<phase, results, once, envelope, reports, window, answer>>

\* range idxChan: the next index, or the end of the closed channel.
Receive(w) ==
  /\ phase \in Tests /\ worker[w] = Free
  /\ IF taken = N
       THEN worker' = [worker EXCEPT ![w] = Done] /\ UNCHANGED taken
       ELSE /\ worker' = [worker EXCEPT ![w] =
                 [stage |-> "sending", idx |-> taken, attempt |-> 0, refused |-> 0, waited |-> 0]]
            /\ taken' = taken + 1
  /\ UNCHANGED <<phase, results, once, envelope, reports, window, answer>>

\* The worker's request ends as this, and it goes for the next index.
Store(w, success, rateLimited) ==
  /\ results' = [results EXCEPT ![worker[w].idx] =
                   [success |-> success, rateLimited |-> rateLimited,
                    refused |-> worker[w].refused + (IF rateLimited THEN 1 ELSE 0),
                    waited |-> worker[w].waited]]
  /\ worker' = [worker EXCEPT ![w] = Free]

\* Mutant: every body of a 200 is captured.
Capture_Every(outcome) ==
  IF phase = "encrypt"
    THEN once' = TRUE /\ envelope' = (outcome = "200")
    ELSE UNCHANGED <<once, envelope>>

\* onSuccess: only the first body of a 200 is looked at, whether it parses or not.
Capture(outcome) ==
  IF phase = "encrypt" /\ ~once
    THEN once' = TRUE /\ envelope' = (outcome = "200")
    ELSE UNCHANGED <<once, envelope>>

\* Mutant: the last refusal is retried too.
Attempt_OneMore(w) ==
  /\ worker[w].stage = "sending"
  /\ \E outcome \in Outcomes :
       /\ Post(outcome)
       /\ \/ /\ outcome = "429" /\ worker[w].attempt <= maxRetries
             /\ worker' = [worker EXCEPT ![w] =
                  [worker[w] EXCEPT !.stage = "sleeping", !.refused = @ + 1]]
             /\ UNCHANGED <<results, once, envelope>>
          \/ /\ outcome = "429" /\ worker[w].attempt > maxRetries
             /\ Store(w, FALSE, TRUE) /\ UNCHANGED <<once, envelope>>
          \/ outcome \in {"200", "200 cut"} /\ Store(w, TRUE, FALSE) /\ Capture(outcome)
          \/ outcome = "error" /\ Store(w, FALSE, FALSE) /\ UNCHANGED <<once, envelope>>
  /\ UNCHANGED <<phase, taken, reports>>

\* One turn of the retry loop.
Attempt(w) ==
  /\ worker[w].stage = "sending"
  /\ \E outcome \in Outcomes :
       /\ Post(outcome)
       /\ \/ /\ outcome = "429" /\ worker[w].attempt < maxRetries
             /\ worker' = [worker EXCEPT ![w] =
                  [worker[w] EXCEPT !.stage = "sleeping", !.refused = @ + 1]]
             /\ UNCHANGED <<results, once, envelope>>
          \/ /\ outcome = "429" /\ worker[w].attempt = maxRetries
             /\ Store(w, FALSE, TRUE) /\ UNCHANGED <<once, envelope>>
          \/ outcome \in {"200", "200 cut"} /\ Store(w, TRUE, FALSE) /\ Capture(outcome)
          \/ outcome = "error" /\ Store(w, FALSE, FALSE) /\ UNCHANGED <<once, envelope>>
  /\ UNCHANGED <<phase, taken, reports>>

\* time.Sleep(1 * time.Second) is over: a tick passed at least.
Awake(w) ==
  /\ worker[w].stage = "slept"
  /\ worker' = [worker EXCEPT ![w] = [worker[w] EXCEPT !.stage = "sending", !.attempt = @ + 1]]
  /\ UNCHANGED <<phase, taken, results, once, envelope, reports, window, answer>>

-----------------------------------------------------------------------------
\* Mutant: the wait group does not count the workers.
Report_NoWait ==
  /\ phase \in Tests
  /\ taken = N
  /\ reports' = [reports EXCEPT ![phase] = results]
  /\ phase' = IF phase = "encrypt" /\ envelope THEN "decrypt" ELSE "finished"
  /\ taken' = 0
  /\ worker' = [w \in Workers |-> Free]
  /\ results' = [i \in Indexes |-> NoResult]
  /\ UNCHANGED <<once, envelope, window, answer>>

\* Mutant: the test of /decrypt runs with whatever envelope there is.
Report_NoSkip ==
  /\ phase \in Tests
  /\ \A w \in Workers : worker[w] = Done
  /\ reports' = [reports EXCEPT ![phase] = results]
  /\ phase' = IF phase = "encrypt" THEN "decrypt" ELSE "finished"
  /\ taken' = 0
  /\ worker' = [w \in Workers |-> Free]
  /\ results' = [i \in Indexes |-> NoResult]
  /\ UNCHANGED <<once, envelope, window, answer>>

\* wg.Wait() returns and reportResults counts.  The test of /decrypt is skipped
\* when no envelope was captured.
Report ==
  /\ phase \in Tests
  /\ \A w \in Workers : worker[w] = Done
  /\ reports' = [reports EXCEPT ![phase] = results]
  /\ phase' = IF phase = "encrypt" /\ envelope THEN "decrypt" ELSE "finished"
  /\ taken' = 0
  /\ worker' = [w \in Workers |-> Free]
  /\ results' = [i \in Indexes |-> NoResult]
  /\ UNCHANGED <<once, envelope, window, answer>>

\* A second passes.
Later(record) ==
  CASE record.stage = "sleeping" -> [record EXCEPT !.stage = "slept", !.waited = @ + 1]
    [] OTHER                     -> record

Tick ==
  /\ FW!Tick
  /\ worker' = [w \in Workers |-> Later(worker[w])]
  /\ UNCHANGED <<phase, taken, results, once, envelope, reports>>

Init ==
  /\ phase = "smoke encrypt"
  /\ taken = 0
  /\ worker = [w \in Workers |-> Free]
  /\ results = [i \in Indexes |-> NoResult]
  /\ once = FALSE /\ envelope = FALSE
  /\ reports = [t \in Tests |-> NotRun]
  /\ FW!Init

Work(w) == Receive(w) \/ Attempt(w) \/ Awake(w)

Next == SmokeTest \/ Report \/ Tick \/ \E w \in Workers : Work(w)

\* Goroutines are scheduled, time passes, and a request ends: the client has a
\* timeout of 30 seconds.
Fairness ==
  /\ WF_vars(SmokeTest) /\ WF_vars(Report) /\ WF_vars(Tick)
  /\ \A w \in Workers : WF_vars(Work(w))

Spec == Init /\ [][Next]_vars /\ Fairness

-----------------------------------------------------------------------------
TypeOK ==
  /\ phase \in {"smoke encrypt", "smoke decrypt", "aborted", "finished"} \cup Tests
  /\ taken \in 0..N
  /\ worker \in [Workers -> Job \cup {Free, Done}]
  /\ results \in [Indexes -> Result \cup {NoResult}]
  /\ once \in BOOLEAN /\ envelope \in BOOLEAN
  /\ reports \in [Tests -> [Indexes -> Result \cup {NoResult}] \cup {NotRun}]
  /\ window \in [{"tool"} -> {Closed} \cup [age : 0..Window - 1, used : 0..Max]]

\* A report is about exactly the N requests: each index was worked on once, by
\* one worker, and had its result in when the results were counted; what counts
\* as rate limited was refused four times over at least three seconds
\* (perf-test.go:205-274, 303-315).
ReportsComplete ==
  /\ \A v, w \in Workers :
       v # w /\ {worker[v], worker[w]} \cap {Free, Done} = {} =>
         worker[v].idx # worker[w].idx
  /\ \A t \in Tests : reports[t] # NotRun =>
       \A i \in Indexes :
         /\ reports[t][i] # NoResult
         /\ reports[t][i].rateLimited =>
              /\ ~reports[t][i].success
              /\ reports[t][i].refused = maxRetries + 1 /\ reports[t][i].waited = maxRetries

\* The test of /decrypt is reported only after a complete reply of the test of
\* /encrypt, which counts it as a success (perf-test.go:163-179).
DecryptAfterSuccess ==
  reports["decrypt"] # NotRun => \E i \in Indexes : reports["encrypt"][i].success

\* What is written stays: a worker never overwrites the result of a request that
\* was retried or done by another, the envelope of /decrypt is the first one and
\* not the last, and a report is final (perf-test.go:159-165, 205, 266-271).
WrittenOnce ==
  [][/\ \A i \in Indexes :
          results[i] # NoResult => results'[i] = results[i] \/ phase' # phase
     /\ once => UNCHANGED <<once, envelope>>
     /\ \A t \in Tests : reports[t] # NotRun => reports'[t] = reports[t]]_vars

\* The tool ends: no retry goes on for ever, and nobody waits for a worker that
\* is gone (perf-test.go:202-275).
Ends == <>(phase \in {"aborted", "finished"})
=============================================================================
