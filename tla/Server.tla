------------------------------- MODULE Server -------------------------------
(***************************************************************************)
(* The site is one Go process (cmd/server/main.go).  Every request handler *)
(* and the cron job run in it as goroutines that read the same wall clock, *)
(* and everything they hold in memory is gone when the process is killed   *)
(* and started again.  This module is that common ground: the clock and    *)
(* the restarts.  The clock counts whole days where access is concerned    *)
(* and periods of the sign-in limiter where a sign-in is.                  *)
(***************************************************************************)
EXTENDS Integers

CONSTANTS
  MaxDay,      \* bound: the last day (or period) the clock reaches
  MaxCrashes   \* bound: how often the process is killed and restarted

ASSUME ServerAssumption ==
  /\ MaxDay \in Nat
  /\ MaxCrashes \in Nat

VARIABLES
  clock,       \* what time.Now() returns
  crashes      \* restarts so far

serverVars == <<clock, crashes>>

\* The clock and the restarts stay within their bounds.
ServerTypeOK ==
  /\ clock \in 0 .. MaxDay
  /\ crashes \in 0 .. MaxCrashes

ServerInit ==
  /\ clock = 0
  /\ crashes = 0

Tick ==
  /\ clock < MaxDay
  /\ clock' = clock + 1
  /\ UNCHANGED crashes

\* The modules that own goroutines say what each of them loses.
Restart ==
  /\ crashes < MaxCrashes
  /\ crashes' = crashes + 1
  /\ UNCHANGED clock

=============================================================================
