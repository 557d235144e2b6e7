--------------------------- MODULE ConfigFollower ---------------------------
(***************************************************************************)
(* What ApplyConfig of internal/exporter promises the hot reloader in its  *)
(* comment: the workers follow the configuration.  A worker takes up       *)
(* entries in the order in which they were published and skips those that  *)
(* were replaced meanwhile; when ApplyConfig returns, every enabled server *)
(* has a worker that has, or will take up, its published entry, and no     *)
(* other server has one.  Poller implements this specification with        *)
(* goroutines and channels.                                                *)
(***************************************************************************)
CONSTANTS Servers, Entry, None

VARIABLES config,    \* the published entry of each server, None when not listed
          applying,  \* a call of ApplyConfig is under way
          serving,   \* the entry each worker works with, None where there is no worker
          told,      \* the entry a worker was told last
          down       \* the program is stopping

follower == <<config, applying, serving, told, down>>

Enabled(entry) == entry # None /\ entry.enabled

Wanted(s) == IF Enabled(config[s]) THEN config[s] ELSE None

Settled == down \/ \A s \in Servers : told[s] = Wanted(s)

FollowerInit ==
    /\ config \in [Servers -> Entry \cup {None}]
    /\ applying = FALSE /\ down = FALSE
    /\ serving = [s \in Servers |-> Wanted(s)]
    /\ told = serving

\* While the program stops, a configuration is only stored.
Publish ==
    /\ ~applying
    /\ config' \in [Servers -> Entry \cup {None}]
    /\ applying' = ~down
    /\ UNCHANGED <<serving, told, down>>

Tell(s) ==
    /\ applying /\ serving[s] # None
    /\ told' = [told EXCEPT ![s] = config[s]]
    /\ UNCHANGED <<config, applying, serving, down>>

TakeUp(s) ==
    /\ serving[s] # None
    /\ serving' = [serving EXCEPT ![s] = told[s]]
    /\ UNCHANGED <<config, applying, told, down>>

\* The workers that are missing, all at once.
Start(S) ==
    /\ applying
    /\ \A s \in S : serving[s] = None /\ Enabled(config[s])
    /\ serving' = [s \in Servers |-> IF s \in S THEN config[s] ELSE serving[s]]
    /\ told' = [s \in Servers |-> IF s \in S THEN config[s] ELSE told[s]]
    /\ UNCHANGED <<config, down>>

Return == applying' = FALSE /\ Settled'

End(s) ==
    /\ down \/ ~Enabled(config[s])
    /\ serving' = [serving EXCEPT ![s] = None]
    /\ told' = [told EXCEPT ![s] = None]
    /\ UNCHANGED <<config, applying, down>>

Stop == down' = TRUE /\ UNCHANGED <<config, applying, serving, told>>

FollowerNext ==
    \/ Publish
    \/ \E s \in Servers : Tell(s) \/ TakeUp(s) \/ End(s)
    \/ \E S \in SUBSET Servers : Start(S) /\ (UNCHANGED applying \/ Return)
    \/ Stop

FollowerSpec == FollowerInit /\ [][FollowerNext]_follower
=============================================================================
