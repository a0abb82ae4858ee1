----------------------------- MODULE FixedWindow -----------------------------
(***************************************************************************)
(* What middleware/rate_limit.rs promises (README: "fixed-window limiter,  *)
(* RATE_LIMIT per 60s"): a bucket's first request opens a window of Window *)
(* ticks; while it is open the first Max requests are let through and the  *)
(* rest refused; then it closes.  Nothing else ever opens, closes or       *)
(* refills a window.                                                       *)
(***************************************************************************)
EXTENDS Naturals

CONSTANTS Buckets, Max, Window, Closed, NoAnswer

VARIABLES
  window, \* per bucket Closed, or how long ago it opened and how much is used
  answer  \* the last answer of this tick

vars == <<window, answer>>

Init == window = [b \in Buckets |-> Closed] /\ answer = NoAnswer

Answers(b, granted) == answer' = [bucket |-> b, granted |-> granted]

Open(b) == IF window[b] = Closed THEN [age |-> 0, used |-> 0] ELSE window[b]

Grant(b) ==
  /\ Open(b).used < Max
  /\ window' = [window EXCEPT ![b] = [Open(b) EXCEPT !.used = @ + 1]]
  /\ Answers(b, TRUE)

Refuse(b) ==
  /\ Open(b).used = Max
  /\ window' = [window EXCEPT ![b] = Open(b)]
  /\ Answers(b, FALSE)

Lapse(w) ==
  IF w = Closed \/ w.age + 1 = Window THEN Closed ELSE [w EXCEPT !.age = @ + 1]

Tick ==
  /\ window' = [b \in Buckets |-> Lapse(window[b])]
  /\ answer' = NoAnswer

Next == Tick \/ \E b \in Buckets : Grant(b) \/ Refuse(b)

Spec == Init /\ [][Next]_vars
=============================================================================
