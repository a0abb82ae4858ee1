-------------------------- MODULE RateLimiterProofs --------------------------
(***************************************************************************)
(* The rate limiter is type-correct, implements FixedWindow, lets through  *)
(* less than twice the limit in any Window ticks, and forgets idle buckets *)
(* behind every pass, for any number of buckets and shards, any limit,     *)
(* window and lag of the pruning task.                                     *)
(***************************************************************************)
EXTENDS RateLimiter, TLAPS

USE RateLimiterAssumption

\* Once a tracker has reached the age that counts as stale it is not kept by
\* the pruning task, and whatever is not kept is out of its window: the task
\* compares with a time in the past, which only makes a tracker look younger.
LEMMA DroppedIsLapsed ==
  ASSUME NEW t \in Trackers, timer \in Nat, ~Keeps(t)
  PROVE  t.age >= Window
BY DEF Trackers, Keeps

\* The tracker that check works on counts up to the first refusal, and its window
\* is open.
LEMMA CurrentType ==
  ASSUME NEW t \in Trackers \cup {NoTracker}
  PROVE  /\ Current(t).count \in 0..Max + 1
         /\ Current(t).age \in 0..Stale
         /\ Current(t).age < Window
         /\ Current(t) = [count |-> Current(t).count, age |-> Current(t).age]
<1>1. Stale \in Nat
  BY DEF Stale
<1>. QED  BY <1>1 DEF Current, Trackers

\* The history of one bucket: running totals over the last 1 .. Window ticks.
Totals == [0..Window - 1 -> Nat]

LEMMA OneMoreType ==
  ASSUME NEW totals \in Totals
  PROVE  OneMore(totals) \in Totals
BY DEF Totals, OneMore

LEMMA OneTickLaterType ==
  ASSUME NEW totals \in Totals
  PROVE  OneTickLater(totals) \in Totals
<1>1. ASSUME NEW a \in 0..Window - 1
      PROVE  (IF a = 0 THEN 0 ELSE totals[a - 1]) \in Nat
  BY DEF Totals
<1>. QED  BY <1>1 DEF Totals, OneTickLater

\* TypeOK holds in every reachable state (the types of rate_limit.rs:12-20).
THEOREM TypeCorrect == Spec => []TypeOK
<1>0. Stale \in Nat
  BY DEF Stale
<1>1. Init => TypeOK
  BY DEF Init, TypeOK
<1>2. TypeOK /\ [Next]_vars => TypeOK'
  <2>. SUFFICES ASSUME TypeOK, [Next]_vars PROVE TypeOK'
    OBVIOUS
  <2>1. CASE Tick
    <3>1. ASSUME NEW b \in Buckets, clients[b] # NoTracker
          PROVE  [clients[b] EXCEPT !.age = Older(@)] \in Trackers
      BY <1>0, <3>1, SMTT(25) DEF TypeOK, Trackers, Older
    <3>2. clients' \in [Buckets -> Trackers \cup {NoTracker}]
      BY <2>1, <3>1 DEF Tick, TypeOK
    <3>3. timer' \in 0..(IF pass' = Asleep THEN Window ELSE MaxLag)
      BY <2>1 DEF Tick, TypeOK
    <3>4. grants' \in [Buckets -> [0..Window - 1 -> Nat]]
      <4>1. ASSUME NEW b \in Buckets PROVE OneTickLater(grants[b]) \in Totals
        BY OneTickLaterType DEF TypeOK, Totals
      <4>. QED  BY <2>1, <4>1 DEF Tick, Totals
    <3>. QED  BY <2>1, <3>2, <3>3, <3>4 DEF Tick, TypeOK
  <2>2. CASE Wake
    BY <2>2 DEF Wake, TypeOK
  <2>3. CASE PruneShard
    <3>1. clients' \in [Buckets -> Trackers \cup {NoTracker}]
      BY <2>3 DEF PruneShard, TypeOK
    <3>2. /\ pass' \in 1..Shards \cup {Asleep}
          /\ timer' \in 0..(IF pass' = Asleep THEN Window ELSE MaxLag)
      BY <2>3 DEF PruneShard, TypeOK
    <3>. QED  BY <2>3, <3>1, <3>2 DEF PruneShard, TypeOK
  <2>4. ASSUME NEW b \in Buckets, check(b) PROVE TypeOK'
    <3>. DEFINE t == Current(clients[b])
                granted == t.count + 1 <= Max
    <3>1. /\ t.count \in 0..Max + 1
          /\ t.age \in 0..Stale
          /\ t = [count |-> t.count, age |-> t.age]
      BY CurrentType DEF TypeOK
    <3>2. [t EXCEPT !.count = IF granted THEN @ + 1 ELSE Max + 1] \in Trackers
      BY <1>0, <3>1 DEF Trackers
    <3>3. clients' \in [Buckets -> Trackers \cup {NoTracker}]
      BY <2>4, <3>2 DEF check, TypeOK
    <3>4. answer' \in [bucket : Buckets, granted : BOOLEAN] \cup {NoAnswer}
      <4>1. answer' = [bucket |-> b, granted |-> granted]
        BY <2>4 DEF check
      <4>2. granted \in BOOLEAN
        OBVIOUS
      <4>. HIDE DEF granted
      <4>. QED  BY <4>1, <4>2
    <3>5. grants' \in [Buckets -> [0..Window - 1 -> Nat]]
      <4>1. OneMore(grants[b]) \in Totals
        BY OneMoreType DEF TypeOK, Totals
      <4>2. [grants EXCEPT ![b] = OneMore(@)] \in [Buckets -> [0..Window - 1 -> Nat]]
        BY <4>1 DEF TypeOK, Totals
      <4>. QED  BY <2>4, <4>2 DEF check, TypeOK
    <3>. QED  BY <2>4, <3>3, <3>4, <3>5 DEF check, TypeOK
  <2>5. CASE UNCHANGED vars
    BY <2>5 DEF vars, TypeOK
  <2>. QED  BY <2>1, <2>2, <2>3, <2>4, <2>5 DEF Next
<1>. QED  BY <1>1, <1>2, PTL DEF Spec

-----------------------------------------------------------------------------
\* What check works on is the window that FixedWindow would open or use.
LEMMA CurrentIsOpen ==
  ASSUME NEW t \in Trackers \cup {NoTracker}
  PROVE  LET c == Current(t)
             w == IF WindowOf(t) = NoTracker THEN [age |-> 0, used |-> 0] ELSE WindowOf(t)
         IN w = [age |-> c.age, used |-> IF c.count < Max THEN c.count ELSE Max]
<1>1. CASE t = NoTracker \/ t.age >= Window
  BY <1>1 DEF Current, WindowOf
<1>2. CASE ~(t = NoTracker \/ t.age >= Window)
  <2>1. /\ Current(t) = t
        /\ WindowOf(t) = [age |-> t.age, used |-> IF t.count < Max THEN t.count ELSE Max]
    BY <1>2 DEF Current, WindowOf
  <2>2. WindowOf(t) # NoTracker
    BY <1>2, <2>1 DEF Trackers, Stale
  <2>. QED  BY <2>1, <2>2
<1>. QED  BY <1>1, <1>2

\* Growing older in the limiter is a window's tick: it closes after Window ticks.
LEMMA OlderLapses ==
  ASSUME NEW t \in Trackers \cup {NoTracker}
  PROVE  WindowOf(IF t = NoTracker THEN NoTracker ELSE [t EXCEPT !.age = Older(@)])
           = FW!Lapse(WindowOf(t))
<1>. DEFINE older == IF t = NoTracker THEN NoTracker ELSE [t EXCEPT !.age = Older(@)]
<1>1. CASE t = NoTracker
  BY <1>1 DEF WindowOf, FW!Lapse
<1>2. CASE t # NoTracker
  <2>1. /\ older = [count |-> t.count, age |-> Older(t.age)]
        /\ t.age \in Nat /\ t.count \in Nat
        /\ Older(t.age) = IF t.age < Stale THEN t.age + 1 ELSE Stale
        /\ Stale \in Nat /\ Window < Stale
    BY <1>2 DEF Trackers, Stale, Older
  <2>2. older # NoTracker
    BY <2>1
  <2>3. CASE t.age >= Window
    <3>1. Older(t.age) >= Window
      BY <2>1, <2>3
    <3>. QED  BY <2>1, <2>2, <2>3, <3>1 DEF WindowOf, FW!Lapse
  <2>4. CASE t.age < Window
    <3>. DEFINE used == IF t.count < Max THEN t.count ELSE Max
    <3>1. WindowOf(t) = [age |-> t.age, used |-> used] /\ WindowOf(t) # NoTracker
      <4>1. WindowOf(t) = [age |-> t.age, used |-> used]
        BY <1>2, <2>1, <2>4 DEF WindowOf
      <4>. QED  BY <2>1, <4>1
    <3>2. Older(t.age) = t.age + 1
      BY <2>1, <2>4
    <3>3. CASE t.age + 1 = Window
      BY <2>1, <2>2, <3>1, <3>2, <3>3 DEF WindowOf, FW!Lapse
    <3>4. CASE t.age + 1 # Window
      <4>1. WindowOf(older) = [age |-> t.age + 1, used |-> used]
        BY <2>1, <2>2, <2>4, <3>2, <3>4 DEF WindowOf
      <4>2. FW!Lapse(WindowOf(t)) = [age |-> t.age + 1, used |-> used]
        BY <3>1, <3>4 DEF FW!Lapse
      <4>. QED  BY <4>1, <4>2
    <3>. QED  BY <3>3, <3>4
  <2>. QED  BY <2>1, <2>3, <2>4
<1>. QED  BY <1>1, <1>2

\* Pruning takes no tracker whose window is open, so it changes no window.
LEMMA PruneWindows ==
  ASSUME TypeOK, PruneShard, NEW b \in Buckets
  PROVE  WindowOf(clients'[b]) = WindowOf(clients[b])
<1>. SUFFICES ASSUME clients'[b] # clients[b]
              PROVE  WindowOf(clients'[b]) = WindowOf(clients[b])
  OBVIOUS
<1>1. clients'[b] = NoTracker /\ clients[b] # NoTracker /\ ~Keeps(clients[b])
  BY DEF PruneShard
<1>2. clients[b] \in Trackers /\ timer \in Nat
  BY <1>1 DEF TypeOK
<1>3. clients[b].age >= Window
  BY <1>1, <1>2, DroppedIsLapsed
<1>. QED  BY <1>1, <1>3 DEF WindowOf

\* A check is a grant or a refusal of the fixed-window limiter.
LEMMA CheckImplements ==
  ASSUME TypeOK, NEW b \in Buckets, check(b)
  PROVE  FW!Grant(b) \/ FW!Refuse(b)
<1>. DEFINE c == Current(clients[b])
            n == [c EXCEPT !.count = IF c.count + 1 <= Max THEN @ + 1 ELSE Max + 1]
            w == [d \in Buckets |-> WindowOf(clients[d])]
<1>1. /\ c.count \in 0..Max + 1
      /\ c.age \in 0..Stale
      /\ c = [count |-> c.count, age |-> c.age]
      /\ c.age < Window
  BY CurrentType DEF TypeOK
<1>2. n = [count |-> IF c.count + 1 <= Max THEN c.count + 1 ELSE Max + 1, age |-> c.age]
  BY <1>1
<1>3. clients' = [clients EXCEPT ![b] = n]
  BY DEF check
<1>4. n # NoTracker /\ n.age = c.age /\ c.age \in Nat
  <2>1. Stale \in Nat
    BY DEF Stale
  <2>. QED  BY <1>1, <1>2, <2>1
<1>5. FW!Open(b) = [age |-> c.age, used |-> IF c.count < Max THEN c.count ELSE Max]
  BY CurrentIsOpen DEF FW!Open, TypeOK
<1>6. WindowOf(n) = [age |-> c.age, used |-> IF n.count < Max THEN n.count ELSE Max]
  BY <1>1, <1>4 DEF WindowOf
<1>7. [d \in Buckets |-> WindowOf(clients'[d])] = [w EXCEPT ![b] = WindowOf(n)]
  BY <1>3 DEF TypeOK
<1>8. answer' = [bucket |-> b, granted |-> c.count + 1 <= Max]
  BY DEF check
<1>9. CASE c.count + 1 <= Max
  <2>1. WindowOf(n) = [FW!Open(b) EXCEPT !.used = @ + 1]
    BY <1>1, <1>2, <1>5, <1>6, <1>9
  <2>2. FW!Open(b).used < Max
    BY <1>1, <1>5, <1>9
  <2>3. answer' = [bucket |-> b, granted |-> TRUE]
    BY <1>8, <1>9, Zenon
  <2>. QED  BY <1>7, <2>1, <2>2, <2>3 DEF FW!Grant, FW!Answers
<1>10. CASE ~(c.count + 1 <= Max)
  <2>1. WindowOf(n) = FW!Open(b)
    BY <1>1, <1>2, <1>5, <1>6, <1>10
  <2>2. FW!Open(b).used = Max
    BY <1>1, <1>5, <1>10
  <2>3. answer' = [bucket |-> b, granted |-> FALSE]
    <3>. DEFINE granted == c.count + 1 <= Max
    <3>1. answer' = [bucket |-> b, granted |-> granted]
      BY <1>8
    <3>2. granted = FALSE
      BY <1>10
    <3>. HIDE DEF granted
    <3>. QED  BY <3>1, <3>2
  <2>. QED  BY <1>7, <2>1, <2>2, <2>3 DEF FW!Refuse, FW!Answers
<1>. QED  BY <1>9, <1>10

\* Every behaviour of the limiter, with its pruning task running at any time
\* and comparing with a time that is out of date, is one of FixedWindow
\* (rate_limit.rs:26-51).
THEOREM Refinement == Spec => ImplementsFixedWindow
<1>1. Init => FW!Init
  BY DEF Init, FW!Init, WindowOf
<1>2. TypeOK /\ [Next]_vars => [FW!Next]_FW!vars
  <2>. SUFFICES ASSUME TypeOK, [Next]_vars PROVE [FW!Next]_FW!vars
    OBVIOUS
  <2>1. CASE Tick
    <3>1. \A b \in Buckets : WindowOf(clients'[b]) = FW!Lapse(WindowOf(clients[b]))
      <4>. SUFFICES ASSUME NEW b \in Buckets
                    PROVE  WindowOf(clients'[b]) = FW!Lapse(WindowOf(clients[b]))
        OBVIOUS
      <4>1. clients[b] \in Trackers \cup {NoTracker}
        BY DEF TypeOK
      <4>2. clients'[b] = IF clients[b] = NoTracker THEN NoTracker
                          ELSE [clients[b] EXCEPT !.age = Older(@)]
        BY <2>1 DEF Tick
      <4>. QED  BY <4>1, <4>2, OlderLapses
    <3>2. FW!Tick
      BY <2>1, <3>1 DEF Tick, FW!Tick
    <3>. QED  BY <3>2 DEF FW!Next
  <2>2. CASE Wake
    BY <2>2 DEF Wake, FW!vars
  <2>3. CASE PruneShard
    <3>1. \A b \in Buckets : WindowOf(clients'[b]) = WindowOf(clients[b])
      BY <2>3, PruneWindows
    <3>. QED  BY <2>3, <3>1 DEF PruneShard, FW!vars
  <2>4. ASSUME NEW b \in Buckets, check(b) PROVE [FW!Next]_FW!vars
    BY <2>4, CheckImplements DEF FW!Next
  <2>5. CASE UNCHANGED vars
    BY <2>5 DEF vars, FW!vars
  <2>. QED  BY <2>1, <2>2, <2>3, <2>4, <2>5 DEF Next
<1>. QED  BY <1>1, <1>2, TypeCorrect, PTL DEF Spec, ImplementsFixedWindow, FW!Spec

-----------------------------------------------------------------------------
\* Bounding the total of Window ticks alone is not inductive.  What is: while a
\* window is open, the requests let through since it opened are among those it
\* has used, less the one that opened it when that is longer ago, and those
\* before it are a window's without the one that opened that; while none is open,
\* nothing was let through in the last tick, and what was let through in any of
\* the times looked back at is such a window's.
Windows == [age : 0..Window - 1, used : 0..Max]

AfterFirst(used) == IF used = 0 THEN 0 ELSE used - 1

Counted(w, totals) ==
  IF w = NoTracker
  THEN totals[0] = 0 /\ \A a \in 0..Window - 1 : totals[a] <= AfterFirst(Max)
  ELSE /\ w.used = 0 => Max = 0
       /\ \A a \in 0..Window - 1 :
            totals[a] <= (IF a < w.age THEN AfterFirst(w.used)
                          ELSE IF a = w.age THEN w.used
                          ELSE w.used + AfterFirst(Max))

WindowsCounted == \A b \in Buckets : Counted(WindowOf(clients[b]), grants[b])

LEMMA WindowType ==
  ASSUME NEW t \in Trackers \cup {NoTracker}
  PROVE  WindowOf(t) \in Windows \cup {NoTracker}
BY DEF Trackers, WindowOf, Windows, Stale

\* A tick moves the totals on as it moves the window on.  When the window closes,
\* all Window totals but the last, which is forgotten, are within its age.
LEMMA TickCounted ==
  ASSUME NEW w \in Windows \cup {NoTracker}, NEW totals \in Totals, Counted(w, totals)
  PROVE  Counted(FW!Lapse(w), OneTickLater(totals))
<1>. DEFINE later == OneTickLater(totals)
<1>1. /\ later[0] = 0
      /\ \A a \in 0..Window - 1 : a # 0 => a - 1 \in 0..Window - 1 /\ later[a] = totals[a - 1]
      /\ \A a \in 0..Window - 1 : totals[a] \in Nat
  <2>1. \A a \in 0..Window - 1 : later[a] = IF a = 0 THEN 0 ELSE totals[a - 1]
    BY DEF OneTickLater
  <2>2. \A a \in 0..Window - 1 : a # 0 => a - 1 \in 0..Window - 1
    OBVIOUS
  <2>3. 0 \in 0..Window - 1 /\ \A a \in 0..Window - 1 : totals[a] \in Nat
    BY DEF Totals
  <2>. HIDE DEF later
  <2>. QED  BY <2>1, <2>2, <2>3
<1>. HIDE DEF later
<1>2. CASE w = NoTracker
  <2>1. FW!Lapse(w) = NoTracker
    BY <1>2 DEF FW!Lapse
  <2>2. \A a \in 0..Window - 1 : later[a] <= AfterFirst(Max)
    BY <1>1, <1>2, RateLimiterAssumption DEF Counted, AfterFirst
  <2>. QED  BY <1>1, <2>1, <2>2 DEF Counted, later
<1>3. CASE w # NoTracker
  <2>1. /\ w = [age |-> w.age, used |-> w.used]
        /\ w.age \in 0..Window - 1 /\ w.used \in 0..Max
    BY <1>3 DEF Windows
  <2>2. /\ w.used = 0 => Max = 0
        /\ \A a \in 0..Window - 1 :
             totals[a] <= (IF a < w.age THEN AfterFirst(w.used)
                           ELSE IF a = w.age THEN w.used
                           ELSE w.used + AfterFirst(Max))
    BY <1>3 DEF Counted
  <2>3. CASE w.age + 1 = Window
    <3>1. FW!Lapse(w) = NoTracker
      BY <2>3 DEF FW!Lapse
    <3>2. \A a \in 0..Window - 1 : later[a] <= AfterFirst(Max)
      BY <1>1, <2>1, <2>2, <2>3, RateLimiterAssumption DEF AfterFirst
    <3>. QED  BY <1>1, <3>1, <3>2 DEF Counted, later
  <2>4. CASE w.age + 1 # Window
    <3>1. FW!Lapse(w) = [age |-> w.age + 1, used |-> w.used]
      BY <1>3, <2>1, <2>4 DEF FW!Lapse
    <3>2. FW!Lapse(w) # NoTracker
      BY <2>1, <3>1
    <3>3. \A a \in 0..Window - 1 :
            later[a] <= (IF a < w.age + 1 THEN AfterFirst(w.used)
                         ELSE IF a = w.age + 1 THEN w.used
                         ELSE w.used + AfterFirst(Max))
      BY <1>1, <2>1, <2>2 DEF AfterFirst
    <3>. QED  BY <2>2, <3>1, <3>2, <3>3 DEF Counted, later
  <2>. QED  BY <2>3, <2>4
<1>. QED  BY <1>2, <1>3

\* A request let through is counted by its window and by every total.  The one
\* that opens a window finds the totals of at most one earlier window.
LEMMA GrantCounted ==
  ASSUME NEW w \in Windows \cup {NoTracker}, NEW totals \in Totals, Counted(w, totals),
         NEW o, o = IF w = NoTracker THEN [age |-> 0, used |-> 0] ELSE w,
         o.used < Max
  PROVE  Counted([o EXCEPT !.used = @ + 1], OneMore(totals))
<1>. DEFINE n == [o EXCEPT !.used = @ + 1]
            more == OneMore(totals)
<1>1. \A a \in 0..Window - 1 : more[a] = totals[a] + 1 /\ totals[a] \in Nat
  BY DEF OneMore, Totals
<1>2. /\ o = [age |-> o.age, used |-> o.used]
      /\ o.age \in 0..Window - 1 /\ o.used \in 0..Max
  BY DEF Windows
<1>3. n = [age |-> o.age, used |-> o.used + 1]
  BY <1>2
<1>4. n # NoTracker
  BY <1>2, <1>3
<1>5. \A a \in 0..Window - 1 :
        totals[a] <= (IF a < o.age THEN AfterFirst(o.used)
                      ELSE IF a = o.age THEN o.used
                      ELSE o.used + AfterFirst(Max))
  <2>1. CASE w = NoTracker
    <3>1. o.age = 0 /\ o.used = 0
      BY <2>1
    <3>. QED  BY <1>1, <2>1, <3>1, RateLimiterAssumption DEF Counted, AfterFirst
  <2>2. CASE w # NoTracker
    BY <2>2 DEF Counted
  <2>. QED  BY <2>1, <2>2
<1>6. \A a \in 0..Window - 1 : a < o.age => o.used > 0
  <2>1. CASE w = NoTracker
    <3>1. o.age = 0
      BY <2>1
    <3>. QED  BY <3>1
  <2>2. CASE w # NoTracker
    BY <1>2, <2>2, RateLimiterAssumption DEF Counted
  <2>. QED  BY <2>1, <2>2
<1>. HIDE DEF n, more
<1>7. \A a \in 0..Window - 1 :
        more[a] <= (IF a < n.age THEN AfterFirst(n.used)
                    ELSE IF a = n.age THEN n.used
                    ELSE n.used + AfterFirst(Max))
  BY <1>1, <1>2, <1>3, <1>5, <1>6, RateLimiterAssumption DEF AfterFirst
<1>8. n.used # 0
  BY <1>2, <1>3
<1>. QED  BY <1>4, <1>7, <1>8 DEF Counted, n, more

\* A refusal opens a window only when the limit is zero.
LEMMA RefuseCounted ==
  ASSUME NEW w \in Windows \cup {NoTracker}, NEW totals \in Totals, Counted(w, totals),
         NEW o, o = IF w = NoTracker THEN [age |-> 0, used |-> 0] ELSE w,
         ~(o.used < Max)
  PROVE  Counted(o, totals)
<1>1. CASE w = NoTracker
  <2>1. o # NoTracker /\ o.age = 0 /\ o.used = 0 /\ Max = 0
    BY <1>1, RateLimiterAssumption
  <2>. QED  BY <1>1, <2>1 DEF Counted, Totals, AfterFirst
<1>2. CASE w # NoTracker
  BY <1>2
<1>. QED  BY <1>1, <1>2

\* What check does to the bucket's window and to its history goes together: the
\* history counts the request exactly if the fixed-window limiter grants it.
LEMMA CheckCounted ==
  ASSUME TypeOK, WindowsCounted, NEW b \in Buckets, check(b)
  PROVE  WindowsCounted'
<1>. DEFINE w == WindowOf(clients[b])
            o == FW!Open(b)
            c == Current(clients[b])
<1>1. o = IF w = NoTracker THEN [age |-> 0, used |-> 0] ELSE w
  BY DEF FW!Open
<1>2. w \in Windows \cup {NoTracker} /\ grants[b] \in Totals /\ Counted(w, grants[b])
  BY WindowType DEF TypeOK, Totals, WindowsCounted
<1>3. \A d \in Buckets \ {b} : clients'[d] = clients[d] /\ grants'[d] = grants[d]
  BY DEF check, TypeOK
<1>4. Counted(WindowOf(clients'[b]), grants'[b])
  <2>1. /\ answer'.granted = (c.count + 1 <= Max)
        /\ c.count + 1 <= Max => grants'[b] = OneMore(grants[b])
        /\ ~(c.count + 1 <= Max) => grants'[b] = grants[b]
    BY DEF check, TypeOK
  <2>2. CASE FW!Grant(b)
    <3>1. o.used < Max /\ WindowOf(clients'[b]) = [o EXCEPT !.used = @ + 1]
      BY <2>2 DEF FW!Grant
    <3>2. answer'.granted = TRUE
      BY <2>2 DEF FW!Grant, FW!Answers
    <3>3. grants'[b] = OneMore(grants[b])
      BY <2>1, <3>2
    <3>. HIDE DEF w, o
    <3>. QED  BY <1>1, <1>2, <3>1, <3>3, GrantCounted
  <2>3. CASE FW!Refuse(b)
    <3>1. ~(o.used < Max) /\ WindowOf(clients'[b]) = o
      BY <2>3 DEF FW!Refuse
    <3>2. answer'.granted = FALSE
      BY <2>3 DEF FW!Refuse, FW!Answers
    <3>3. grants'[b] = grants[b]
      BY <2>1, <3>2
    <3>. HIDE DEF w, o
    <3>. QED  BY <1>1, <1>2, <3>1, <3>3, RefuseCounted
  <2>. QED  BY <2>2, <2>3, CheckImplements
<1>. QED  BY <1>3, <1>4 DEF WindowsCounted

\* Always less than twice the limit in Window ticks (rate_limit.rs:36-51).
THEOREM LessThanTwice == Spec => []SlidingBound
<1>1. Init => WindowsCounted
  <2>. SUFFICES ASSUME Init, NEW b \in Buckets
                PROVE  Counted(WindowOf(clients[b]), grants[b])
    BY DEF WindowsCounted
  <2>1. clients[b] = NoTracker /\ grants[b] = [a \in 0..Window - 1 |-> 0]
    BY DEF Init
  <2>2. WindowOf(clients[b]) = NoTracker
    BY <2>1 DEF WindowOf
  <2>. QED  BY <2>1, <2>2, RateLimiterAssumption DEF Counted, AfterFirst
<1>2. TypeOK /\ WindowsCounted /\ [Next]_vars => WindowsCounted'
  <2>. SUFFICES ASSUME TypeOK, WindowsCounted, [Next]_vars PROVE WindowsCounted'
    OBVIOUS
  <2>1. CASE Tick
    <3>. SUFFICES ASSUME NEW b \in Buckets
                  PROVE  Counted(WindowOf(clients'[b]), grants'[b])
      BY DEF WindowsCounted
    <3>1. /\ clients[b] \in Trackers \cup {NoTracker}
          /\ grants[b] \in Totals
          /\ Counted(WindowOf(clients[b]), grants[b])
      BY DEF TypeOK, Totals, WindowsCounted
    <3>2. clients'[b] = IF clients[b] = NoTracker THEN NoTracker
                        ELSE [clients[b] EXCEPT !.age = Older(@)]
      BY <2>1 DEF Tick
    <3>3. WindowOf(clients'[b]) = FW!Lapse(WindowOf(clients[b]))
      BY <3>1, <3>2, OlderLapses
    <3>4. grants'[b] = OneTickLater(grants[b])
      BY <2>1 DEF Tick
    <3>. QED  BY <3>1, <3>3, <3>4, WindowType, TickCounted
  <2>2. CASE Wake
    BY <2>2 DEF Wake, WindowsCounted
  <2>3. CASE PruneShard
    <3>1. grants' = grants
      BY <2>3 DEF PruneShard
    <3>. QED  BY <2>3, <3>1, PruneWindows DEF WindowsCounted
  <2>4. ASSUME NEW b \in Buckets, check(b) PROVE WindowsCounted'
    BY <2>4, CheckCounted
  <2>5. CASE UNCHANGED vars
    BY <2>5 DEF vars, WindowsCounted
  <2>. QED  BY <2>1, <2>2, <2>3, <2>4, <2>5 DEF Next
<1>3. TypeOK /\ WindowsCounted => SlidingBound
  <2>. SUFFICES ASSUME TypeOK, WindowsCounted, NEW b \in Buckets
                PROVE  grants[b][Window - 1] <= IF Max = 0 THEN 0 ELSE 2 * Max - 1
    BY DEF SlidingBound
  <2>. DEFINE w == WindowOf(clients[b])
  <2>1. /\ w \in Windows \cup {NoTracker}
        /\ Counted(w, grants[b])
        /\ grants[b][Window - 1] \in Nat
    BY WindowType DEF TypeOK, WindowsCounted
  <2>. HIDE DEF w
  <2>2. CASE w = NoTracker
    BY <2>1, <2>2, RateLimiterAssumption DEF Counted, AfterFirst
  <2>3. CASE w # NoTracker
    <3>1. w.age \in 0..Window - 1 /\ w.used \in 0..Max
      BY <2>1, <2>3 DEF Windows
    <3>. QED  BY <2>1, <2>3, <3>1, RateLimiterAssumption DEF Counted, AfterFirst
  <2>. QED  BY <2>2, <2>3
<1>. QED  BY <1>1, <1>2, <1>3, TypeCorrect, PTL DEF Spec

-----------------------------------------------------------------------------
\* A request leaves a tracker whose window is open.
LEMMA CheckedIsOpen ==
  ASSUME TypeOK, NEW b \in Buckets, check(b)
  PROVE  clients'[b].age \in Nat /\ clients'[b].age < Window
<1>. DEFINE c == Current(clients[b])
<1>1. /\ c.age \in 0..Stale /\ c.age < Window
      /\ c = [count |-> c.count, age |-> c.age]
  BY CurrentType DEF TypeOK
<1>2. clients'[b].age = c.age
  BY <1>1 DEF check, TypeOK
<1>. QED  BY <1>1, <1>2 DEF Stale

\* Behind a pass nothing is left that had been idle for two windows when it began:
\* it drops what is, a request opens a window, and a tick makes the trackers and
\* the time the task has read older alike (rate_limit.rs:29-30).
THEOREM PassesForget == Spec => []PassForgets
<1>1. Init => PassForgets
  BY DEF Init, PassForgets
<1>2. TypeOK /\ PassForgets /\ [Next]_vars => PassForgets'
  <2>. SUFFICES ASSUME TypeOK, PassForgets, [Next]_vars,
                       pass' # Asleep, NEW b \in Buckets,
                       ShardOf[b] < pass', clients'[b] # NoTracker
                PROVE  clients'[b].age < 2 * Window + timer'
    BY DEF PassForgets
  <2>1. CASE Tick
    <3>1. /\ pass' = pass /\ timer' = timer + 1
          /\ clients[b] # NoTracker
          /\ clients'[b] = [clients[b] EXCEPT !.age = Older(@)]
      BY <2>1 DEF Tick
    <3>2. clients[b] \in Trackers /\ clients[b].age < 2 * Window + timer
      BY <3>1 DEF PassForgets, TypeOK
    <3>3. clients[b].age \in Nat /\ timer \in Nat /\ 2 * Window \in Nat
      BY <3>2 DEF TypeOK, Trackers, Stale
    <3>4. clients'[b].age = Older(clients[b].age)
      BY <3>1, <3>2 DEF Trackers
    <3>5. clients'[b].age \in {clients[b].age, clients[b].age + 1}
      BY <3>2, <3>4 DEF Older, Trackers, Stale
    <3>. QED  BY <3>1, <3>2, <3>3, <3>5
  <2>2. CASE Wake
    <3>1. pass' = 1 /\ ShardOf[b] \in 1..Shards
      BY <2>2 DEF Wake
    <3>2. ~(ShardOf[b] < pass')
      BY <3>1
    <3>. QED  BY <3>2
  <2>3. CASE PruneShard
    <3>1. /\ pass # Asleep /\ pass' = pass + 1 /\ timer' = timer
          /\ clients'[b] = IF /\ ShardOf[b] = pass
                              /\ clients[b] # NoTracker
                              /\ ~Keeps(clients[b])
                             THEN NoTracker ELSE clients[b]
      BY <2>3 DEF PruneShard
    <3>2. /\ clients[b] \in Trackers /\ clients'[b] = clients[b]
          /\ pass \in Nat /\ ShardOf[b] \in Nat /\ timer \in Nat
      BY <3>1 DEF TypeOK
    <3>3. CASE ShardOf[b] < pass
      BY <3>1, <3>2, <3>3 DEF PassForgets
    <3>4. CASE ShardOf[b] = pass
      <4>1. Keeps(clients[b])
        BY <3>1, <3>2, <3>4
      <4>2. clients[b].age \in Nat
        BY <3>2 DEF Trackers
      <4>. QED  BY <3>1, <3>2, <4>1, <4>2 DEF Keeps
    <3>. QED  BY <3>1, <3>2, <3>3, <3>4
  <2>4. ASSUME NEW d \in Buckets, check(d)
        PROVE  clients'[b].age < 2 * Window + timer'
    <3>1. pass' = pass /\ timer' = timer /\ timer \in Nat
      BY <2>4 DEF check, TypeOK
    <3>2. CASE b = d
      BY <2>4, <3>1, <3>2, CheckedIsOpen
    <3>3. CASE b # d
      <4>1. clients'[b] = clients[b]
        BY <2>4, <3>3 DEF check, TypeOK
      <4>. QED  BY <3>1, <4>1 DEF PassForgets
    <3>. QED  BY <3>2, <3>3
  <2>5. CASE UNCHANGED vars
    BY <2>5 DEF vars, PassForgets
  <2>. QED  BY <2>1, <2>2, <2>3, <2>4, <2>5 DEF Next
<1>. QED  BY <1>1, <1>2, TypeCorrect, PTL DEF Spec
=============================================================================
