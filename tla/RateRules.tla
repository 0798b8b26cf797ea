----------------------------- MODULE RateRules ------------------------------
(**************************************************************************)
(* What a caller of the request limiter may count on: a key's first        *)
(* request opens a window, the window admits Limit requests and closes     *)
(* Window ticks after it opened, and nothing but a restart closes it       *)
(* sooner.  RateLimiter is shown to implement this.                        *)
(**************************************************************************)
EXTENDS Naturals

CONSTANTS
  Keys,     \* who is limited
  Limit,    \* requests a window admits
  Window,   \* the ticks it lasts
  Closed    \* no window

VARIABLE window

OpenWindow == [age: 0..(Window - 1), count: 1..Limit]

RateInit == window = [k \in Keys |-> Closed]

Grant(k) ==
  \/ /\ window[k] = Closed
     /\ window' = [window EXCEPT ![k] = [age |-> 0, count |-> 1]]
  \/ /\ window[k] # Closed
     /\ window[k].count < Limit
     /\ window' = [window EXCEPT ![k] = [age |-> @.age, count |-> @.count + 1]]

Pass ==
  window' = [k \in Keys |->
               IF window[k] = Closed \/ window[k].age + 1 >= Window
                 THEN Closed ELSE [window[k] EXCEPT !.age = @ + 1]]

Restart == window' = [k \in Keys |-> Closed]

RateNext == (\E k \in Keys : Grant(k)) \/ Pass \/ Restart

RateSpec == RateInit /\ [][RateNext]_window
=============================================================================
