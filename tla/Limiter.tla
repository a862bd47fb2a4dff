------------------------------ MODULE Limiter ------------------------------
(***************************************************************************)
(* The fixed-window rate limiter in front of the Workers' routes           *)
(* (packages/worker-kit: ratelimit.ts, hono.ts; policies in the API's      *)
(* lib/limits.ts and the indexer's app.ts).                                *)
(*                                                                         *)
(* One policy and one client address.  The counter is read and written     *)
(* back by two KV calls, so calls in flight interleave between the two.    *)
(* KV answers one address from one place, which sees its own writes: the   *)
(* staleness of KV between places does not matter here.                    *)
(*                                                                         *)
(* A window lasts longer than a request, so a request in flight is of this *)
(* window or of the one before, each of which has a key of its own.        *)
(***************************************************************************)
EXTENDS Naturals

CONSTANTS
  Calls,   \* bound: requests in flight at once
  Limit    \* policy.limit

ASSUME LimitAssumption == Limit \in Nat \ {0}

VARIABLES
  call,      \* the requests: where each is, the count it read and its window
  count,     \* KV: the counters of the two windows
  admitted   \* how many requests each window has let through

limiterVars == <<call, count, admitted>>

Windows == {"now", "before"}
\* Every count above the limit does the same: they are one.
Capped(n) == IF n > Limit THEN Limit + 1 ELSE n

\* "refused" is 429 over the limit, 503 when the store fails.
Answered == {"idle", "next", "refused"}
Request(at) == [at |-> at, read |-> 0, window |-> "now"]

LimiterTypeOK ==
  /\ call \in [Calls -> [at : Answered \cup {"put"}, read : 0 .. Limit + 1, window : Windows]]
  /\ count \in [Windows -> 0 .. Limit + 1]
  /\ admitted \in [Windows -> Nat]

LimiterInit ==
  /\ call = [c \in Calls |-> Request("idle")]
  /\ count = [w \in Windows |-> 0]
  /\ admitted = [w \in Windows |-> 0]

Reply(c, status) == call' = [call EXCEPT ![c] = Request(status)]

\* consume, up to the first await: the count the request will add one to.
consume(c) ==
  /\ call[c].at \in Answered
  /\ call' = [call EXCEPT ![c] = [Request("put") EXCEPT !.read = count["now"]]]
  /\ UNCHANGED <<count, admitted>>

\* The rest of consume, and what the middleware makes of it.
allowed_slip(n) == n <= Limit + 1
allowed(n) == n <= Limit
charge(c) ==
  LET n == Capped(call[c].read + 1)
      w == call[c].window
  IN /\ call[c].at = "put"
     /\ count' = [count EXCEPT ![w] = n]
     /\ IF allowed(n)
          THEN Reply(c, "next") /\ admitted' = [admitted EXCEPT ![w] = @ + 1]
          ELSE Reply(c, "refused") /\ UNCHANGED admitted

\* Either KV call throws, or the namespace is not bound: denied, and not counted.
storeFails(c) ==
  /\ Reply(c, "refused")
  /\ UNCHANGED <<count, admitted>>

\* The clock enters the next window, whose key has not been written yet.  The
\* slip leaves the window out of the key, whose TTL every hit refreshes.
ShiftWindow(f, fresh) ==
  [now |-> fresh,
   before |-> IF \E c \in Calls : call[c].at = "put" THEN f["now"] ELSE 0]
nextWindow_slip ==
  /\ \A c \in Calls : call[c].window = "now"
  /\ call' = [c \in Calls |-> IF call[c].at = "put" THEN [call[c] EXCEPT !.window = "before"] ELSE call[c]]
  /\ count' = ShiftWindow(count, count["now"])
  /\ admitted' = ShiftWindow(admitted, 0)
nextWindow ==
  /\ \A c \in Calls : call[c].window = "now"
  /\ call' = [c \in Calls |-> IF call[c].at = "put" THEN [call[c] EXCEPT !.window = "before"] ELSE call[c]]
  /\ count' = ShiftWindow(count, 0)
  /\ admitted' = ShiftWindow(admitted, 0)

LimiterNext ==
  \/ \E c \in Calls : consume(c) \/ charge(c) \/ storeFails(c)
  \/ nextWindow

-----------------------------------------------------------------------------
(* Properties *)

\* What a window lets through while two requests can be in flight.  The limit
\* alone does not bound it: a request that has read n and is slow to write puts
\* the counter back to n + 1 after the other has driven it to the limit, once
\* for each n (ratelimit.ts:60-64, whose header expects "a hair more").
LimiterBound == \A w \in Windows : 2 * admitted[w] <= Limit * (Limit + 3)
=============================================================================
