----------------------------- MODULE RateLimiter -----------------------------
(***************************************************************************)
(* The limiter in Redis (github.com/go-redis/redis_rate), as the handlers  *)
(* of sign-in and support use it: limiter.Allow(ctx, key, limit) is one    *)
(* atomic script.  For each key it keeps the time by which everything let  *)
(* through so far would have been earned at the steady rate; a request may *)
(* run ahead of that time by the burst.  Redis outlives a restart of the   *)
(* site.                                                                   *)
(*                                                                         *)
(* The clock counts periods of the sign-in limiter, of 6 seconds each.     *)
(***************************************************************************)
EXTENDS Server

CONSTANTS
  Emails,          \* e-mails that sign in
  Browsers,        \* browsers; each has an address of its own
  TicketInterval,  \* 20 seconds, in periods
  MaxRequests      \* bound: requests let through in all

ASSUME LimiterAssumption ==
  /\ TicketInterval \in Nat \ {0}
  /\ MaxRequests \in Nat

VARIABLES
  gate,      \* what the limiter keeps for each key
  admitted   \* the number of requests let through, for the bound

limiterVars == <<gate, admitted>>

\* What requests are counted by: sendcode:<email>, login:<email>, ticket:<address>.
Keys == ({"sendcode", "login"} \X Emails) \cup ({"ticket"} \X Browsers)

\* redis_rate.Limit: interval is Period / Rate.  For tickets that is what the code
\* asks for (support.go:67-71), three a minute, and not what the comment above it
\* says (support.go:66), three in 15 minutes.
Limit(k) ==
  IF k[1] = "ticket" THEN [interval |-> TicketInterval, burst |-> 3]
                     ELSE [interval |-> 1, burst |-> 1]

LimiterTypeOK == gate \in [Keys -> Nat] /\ admitted \in 0 .. MaxRequests

LimiterInit ==
  /\ gate = [k \in Keys |-> 0]
  /\ admitted = 0

-----------------------------------------------------------------------------

\* The gate of k once one more request is let through.
NextGate(k) == (IF gate[k] < clock THEN clock ELSE gate[k]) + Limit(k).interval

Allows(k) == NextGate(k) - Limit(k).burst * Limit(k).interval <= clock

\* Allow lets a request through.  One that is refused leaves no trace.
Admit(k) ==
  /\ admitted < MaxRequests
  /\ Allows(k)
  /\ gate' = [gate EXCEPT ![k] = NextGate(k)]
  /\ admitted' = admitted + 1

=============================================================================
