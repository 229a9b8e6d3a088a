----------------------- MODULE MCAutomationScheduler -----------------------
(* Two schedules of one account: the second can find the first waiting,    *)
(* claimed or running, and replace, skip or wait for it. And two schedules *)
(* of two accounts, which should not concern each other.                   *)
EXTENDS AutomationScheduler, TLC

OneAccount == [s \in Schedules |-> CHOOSE a \in Accounts : TRUE]

OneEach == CHOOSE f \in [Schedules -> Accounts] :
             \A s, t \in Schedules : s # t => f[s] # f[t]
=============================================================================
