---------------------------- MODULE ApprovalGate ----------------------------
(***************************************************************************)
(* What docs/ops-agent-overview.md promises of the commands of a task: the *)
(* calls of the model are taken one at a time; a command that needs        *)
(* approval waits until an administrator approves or denies it, and        *)
(* meanwhile nothing else happens; it is executed at most once, after it   *)
(* was approved, and no call is answered twice.  OpsTask implements this   *)
(* specification.                                                          *)
(***************************************************************************)
EXTENDS Integers

CONSTANTS Calls,     \* the tool calls a model may make
          Commands,  \* those that run a shell command
          Guarded,   \* those that need approval to do so
          None       \* no pending command

VARIABLES pending,   \* the command that waits for an administrator
          approved,  \* commands an administrator approved
          executed,  \* how often each command was started
          answered   \* calls the model has the result of

gate == <<pending, approved, executed, answered>>

GateInit ==
    /\ pending = None
    /\ approved = {} /\ answered = {}
    /\ executed = [c \in Calls |-> 0]

\* Calls that were begun and not answered yet.
Begun == {c \in Calls : c \in approved \/ executed[c] > 0} \ answered

\* No other call is waiting or under way, and this one is not done.
Free(c) == pending = None /\ Begun \subseteq {c} /\ c \notin answered

Propose(c) ==
    /\ c \in Guarded /\ c \notin approved /\ Free(c)
    /\ pending' = c
    /\ UNCHANGED <<approved, executed, answered>>

Approve ==
    /\ pending # None /\ pending' = None
    /\ approved' = approved \cup {pending}
    /\ UNCHANGED <<executed, answered>>

Deny ==
    /\ pending # None /\ pending' = None
    /\ answered' = answered \cup {pending}
    /\ UNCHANGED <<approved, executed>>

Execute(c) ==
    /\ c \in Commands /\ (c \in Guarded => c \in approved)
    /\ executed[c] = 0 /\ Free(c)
    /\ executed' = [executed EXCEPT ![c] = 1]
    /\ UNCHANGED <<pending, approved, answered>>

\* The result of a command, or of a call that runs none or is not let through.
Reply(c) ==
    /\ Free(c) /\ (c \in approved => executed[c] = 1)
    /\ answered' = answered \cup {c}
    /\ UNCHANGED <<pending, approved, executed>>

GateNext == (\E c \in Calls : Propose(c) \/ Execute(c) \/ Reply(c)) \/ Approve \/ Deny

GateSpec == GateInit /\ [][GateNext]_gate
=============================================================================
