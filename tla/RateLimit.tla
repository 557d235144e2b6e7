----------------------------- MODULE RateLimit -----------------------------
(***************************************************************************)
(* What docs/scheduling-control.md promises of the Refresh button: after a *)
(* collection was requested for a server, no further one is requested for  *)
(* it until the cooldown of that server is over.  Servers are independent. *)
(* Controls implements this specification.                                 *)
(***************************************************************************)
EXTENDS Integers

CONSTANT Servers

VARIABLES granted,  \* the number of collections requested for each server
          cooling   \* servers whose cooldown runs

RateLimitInit ==
    /\ granted = [s \in Servers |-> 0]
    /\ cooling = {}

Grant(s) ==
    /\ s \notin cooling
    /\ granted' = [granted EXCEPT ![s] = @ + 1]
    /\ cooling' = cooling \cup {s}

\* The cooldown of any number of servers is over.
CooldownsOver ==
    /\ cooling' \subseteq cooling
    /\ UNCHANGED granted

RateLimitNext == (\E s \in Servers : Grant(s)) \/ CooldownsOver

RateLimitSpec == RateLimitInit /\ [][RateLimitNext]_<<granted, cooling>>
=============================================================================
