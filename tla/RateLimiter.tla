---------------------------- MODULE RateLimiter ----------------------------
(***************************************************************************)
(* middleware/rate_limit.rs: request handlers count requests per bucket    *)
(* while a background task drops the trackers of idle buckets, one shard   *)
(* of the map after the other, against the time it read before the first.  *)
(*                                                                         *)
(* An Instant is represented by how many ticks ago it was.  What is older  *)
(* than Stale ticks is old for every comparison of the code, and counts    *)
(* above Max are all refused, so ages stop at Stale and counts at Max + 1. *)
(***************************************************************************)
EXTENDS Naturals

CONSTANTS
  Buckets,  \* the bucket keys "ip:key" that occur
  Shards,   \* DashMap has shards 1..Shards
  ShardOf,  \* the shard of a bucket
  Max,      \* RATE_LIMIT
  Window,   \* WINDOW, in ticks
  MaxLag,   \* bound: a pruning pass takes at most this many ticks
  NoTracker, NoAnswer, Asleep

VARIABLES
  clients, \* bucket -> ClientTracker or NoTracker
  pass,    \* the pruning task: Asleep, or the shard it is at
  timer,   \* ticks the task still sleeps; when awake, ticks since it read the time
  answer,  \* the last answer of this tick
  grants   \* history: grants[b][a] requests of b let through in the last a + 1 ticks

vars == <<clients, pass, timer, answer, grants>>

ASSUME RateLimiterAssumption ==
  /\ Shards \in Nat \ {0} /\ ShardOf \in [Buckets -> 1..Shards]
  /\ Max \in Nat /\ Window \in Nat \ {0} /\ MaxLag \in Nat
  /\ NoTracker \notin [count : Nat, age : Nat] \cup [age : Nat, used : Nat]
  /\ Asleep \notin Nat

Stale == 2 * Window + MaxLag

Older(age) == IF age < Stale THEN age + 1 ELSE Stale

-----------------------------------------------------------------------------
\* Mutant: the window runs out a tick too early.
Current_TooEarly(tracker) ==
  IF tracker = NoTracker \/ tracker.age + 1 >= Window
    THEN [count |-> 0, age |-> 0] ELSE tracker

\* Mutant: the window runs out only after WINDOW (> for >=).
Current_TooLate(tracker) ==
  IF tracker = NoTracker \/ tracker.age > Window
    THEN [count |-> 0, age |-> 0] ELSE tracker

\* entry().or_insert(), then the reset of a window that has run out.
Current(tracker) ==
  IF tracker = NoTracker \/ tracker.age >= Window
    THEN [count |-> 0, age |-> 0] ELSE tracker

\* A request let through now is one of the last tick and of any longer time.
OneMore(totals) == [a \in 0..Window - 1 |-> totals[a] + 1]

\* What was let through in the last tick is, one tick later, what was let
\* through in the last two, and so on.
OneTickLater(totals) ==
  [a \in 0..Window - 1 |-> IF a = 0 THEN 0 ELSE totals[a - 1]]

\* RateLimiter::check, atomic because the entry holds its shard's lock.  A
\* request that is refused is counted all the same.
check(b) ==
  LET t == Current(clients[b])
      granted == t.count + 1 <= Max
  IN /\ clients' = [clients EXCEPT ![b] =
                      [t EXCEPT !.count = IF granted THEN @ + 1 ELSE Max + 1]]
     /\ answer' = [bucket |-> b, granted |-> granted]
     /\ grants' = IF granted THEN [grants EXCEPT ![b] = OneMore(@)] ELSE grants
     /\ UNCHANGED <<pass, timer>>

-----------------------------------------------------------------------------
\* The task's sleep(WINDOW) is over, perhaps late, and it reads the time.
Wake ==
  /\ pass = Asleep
  /\ timer = 0
  /\ pass' = 1
  /\ UNCHANGED <<clients, timer, answer, grants>>

\* Mutant: duration_since the wrong way round, which saturates at zero.
Keeps_Reversed(tracker) ==
  (IF timer > tracker.age THEN timer - tracker.age ELSE 0) < 2 * Window

\* Mutant: what is exactly two windows old is kept (<= for <).
Keeps_AtTwoWindows(tracker) ==
  (IF tracker.age > timer THEN tracker.age - timer ELSE 0) <= 2 * Window

\* The closure of retain, with the age the tracker had when the task read the
\* time: duration_since gives zero for a window that started after that.
Keeps(tracker) ==
  (IF tracker.age > timer THEN tracker.age - timer ELSE 0) < 2 * Window

\* Mutant: a pass goes on after the last shard.
PruneShard_PastLast ==
  /\ pass # Asleep
  /\ clients' = [b \in Buckets |->
                   IF /\ ShardOf[b] = pass
                      /\ clients[b] # NoTracker
                      /\ ~Keeps(clients[b])
                     THEN NoTracker ELSE clients[b]]
  /\ IF pass <= Shards THEN pass' = pass + 1 /\ timer' = timer
                       ELSE pass' = Asleep /\ timer' = Window
  /\ UNCHANGED <<answer, grants>>

\* retain on one shard, under its lock; after the last one the task sleeps.
PruneShard ==
  /\ pass # Asleep
  /\ clients' = [b \in Buckets |->
                   IF /\ ShardOf[b] = pass
                      /\ clients[b] # NoTracker
                      /\ ~Keeps(clients[b])
                     THEN NoTracker ELSE clients[b]]
  /\ IF pass < Shards THEN pass' = pass + 1 /\ timer' = timer
                      ELSE pass' = Asleep /\ timer' = Window
  /\ UNCHANGED <<answer, grants>>

-----------------------------------------------------------------------------
\* Time passes.
Tick ==
  /\ pass # Asleep => timer < MaxLag
  /\ clients' = [b \in Buckets |->
                   IF clients[b] = NoTracker THEN NoTracker
                   ELSE [clients[b] EXCEPT !.age = Older(@)]]
  /\ timer' = IF pass # Asleep THEN timer + 1
              ELSE IF timer > 0 THEN timer - 1 ELSE 0
  /\ grants' = [b \in Buckets |-> OneTickLater(grants[b])]
  /\ answer' = NoAnswer
  /\ pass' = pass

Init ==
  /\ clients = [b \in Buckets |-> NoTracker]
  /\ pass = Asleep
  /\ timer = Window
  /\ answer = NoAnswer
  /\ grants = [b \in Buckets |-> [a \in 0..Window - 1 |-> 0]]

Next == Tick \/ Wake \/ PruneShard \/ \E b \in Buckets : check(b)

\* Time goes on and the runtime keeps polling the pruning task.  Nothing is
\* assumed of the clients.
Fairness == WF_vars(Tick) /\ WF_vars(Wake) /\ WF_vars(PruneShard)

Spec == Init /\ [][Next]_vars /\ Fairness

-----------------------------------------------------------------------------
Trackers == [count : 1..Max + 1, age : 0..Stale]

TypeOK ==
  /\ clients \in [Buckets -> Trackers \cup {NoTracker}]
  /\ pass \in 1..Shards \cup {Asleep}
  /\ timer \in 0..(IF pass = Asleep THEN Window ELSE MaxLag)
  /\ answer \in [bucket : Buckets, granted : BOOLEAN] \cup {NoAnswer}
  /\ grants \in [Buckets -> [0..Window - 1 -> Nat]]

\* Whatever the pruning task drops while requests come in, the answers are
\* those of the fixed-window limiter: a tracker is dropped only when its window
\* is long over, although the task compares with a time that is out of date
\* (rate_limit.rs:29).
WindowOf(tracker) ==
  IF tracker = NoTracker \/ tracker.age >= Window THEN NoTracker
  ELSE [age |-> tracker.age, used |-> IF tracker.count < Max THEN tracker.count ELSE Max]

FW == INSTANCE FixedWindow
        WITH window <- [b \in Buckets |-> WindowOf(clients[b])], Closed <- NoTracker

ImplementsFixedWindow == FW!Spec

\* Over any Window ticks in a row, however they lie to the bucket's windows, less
\* than twice the limit is let through: all of one window, and all of the window
\* before but the request that opened it, which is a tick too old
\* (rate_limit.rs:36-51).
SlidingBound ==
  \A b \in Buckets : grants[b][Window - 1] <= IF Max = 0 THEN 0 ELSE 2 * Max - 1

\* A pass leaves nothing behind it that had been idle for two windows when it
\* read the time, whatever the requests do to the shards it has been through
\* and however long it takes (rate_limit.rs:29-30).
PassForgets ==
  pass # Asleep =>
    \A b \in Buckets :
      ShardOf[b] < pass /\ clients[b] # NoTracker =>
        clients[b].age < 2 * Window + timer

\* The map does not keep what nobody uses: the tracker of a bucket that gets no
\* more requests is dropped, so trackers are bounded by the buckets in use
\* (rate_limit.rs:26-32).
IdleBucketsForgotten ==
  \A b \in Buckets : []<><<check(b)>>_vars \/ <>[](clients[b] = NoTracker)
=============================================================================
