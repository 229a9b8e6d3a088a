--------------------------- MODULE ScheduledJobs ----------------------------
(***************************************************************************)
(* What a scheduler of sessions promises, without accounts, threads,       *)
(* leases or clocks: a job is open until it is claimed, a claim starts it, *)
(* gives it back or drops it, and a job is begun exactly once; one that    *)
(* was dropped never begins, one that has begun only ends; every outcome   *)
(* is final, and reported at most once. A step moves one job, and may end  *)
(* running ones that it replaces.                                          *)
(***************************************************************************)
EXTENDS Naturals

CONSTANT Jobs

VARIABLES state,     \* of each job
          begun,     \* how often it has begun
          reported   \* whether its result has been published

vars == <<state, begun, reported>>

Dropped == {"skipped", "cancelled", "failed"}
Over    == {"completed", "failed"}
States  == Dropped \cup Over \cup {"none", "open", "claimed", "running"}

Init ==
  /\ state = [j \in Jobs |-> "none"]
  /\ begun = [j \in Jobs |-> 0]
  /\ reported = [j \in Jobs |-> FALSE]

Moves(j, from, to) == state[j] \in from /\ state'[j] \in to

Create(j)   == Moves(j, {"none"}, {"open"}) /\ begun'[j] = begun[j]
Claim(j)    == Moves(j, {"open"}, {"claimed"}) /\ begun'[j] = begun[j]
GiveBack(j) == Moves(j, {"claimed"}, {"open"}) /\ begun'[j] = begun[j]

(* Only a job that has not begun is dropped or begins.                     *)
Drop(j) ==
  /\ Moves(j, {"open", "claimed"}, Dropped)
  /\ begun[j] = 0 /\ begun'[j] = 0
Begin(j) ==
  /\ Moves(j, {"claimed"}, {"running"})
  /\ begun[j] = 0 /\ begun'[j] = 1

(* Only a job that has begun is over, and reported.                        *)
End(j) == Moves(j, {"running"}, Over) /\ begun[j] = 1 /\ begun'[j] = 1
Report(j) ==
  /\ state[j] \in Over /\ begun[j] = 1 /\ ~reported[j]
  /\ reported'[j]

Stays(j) == state'[j] = state[j] /\ begun'[j] = begun[j]

Advance(j) ==
  /\ \/ Create(j) \/ Claim(j) \/ GiveBack(j) \/ Drop(j) \/ Begin(j) \/ End(j) \/ Stays(j)
  /\ \A k \in Jobs \ {j} : Stays(k) \/ End(k)
  /\ state' \in [Jobs -> States] /\ begun' \in [Jobs -> 0 .. 1]
  /\ UNCHANGED reported

Publish ==
  /\ reported' \in [Jobs -> BOOLEAN]
  /\ \A j \in Jobs : Report(j) \/ reported'[j] = reported[j]
  /\ UNCHANGED <<state, begun>>

Next == (\E j \in Jobs : Advance(j)) \/ Publish

Spec == Init /\ [][Next]_vars
=============================================================================
