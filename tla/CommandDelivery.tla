-------------------------- MODULE CommandDelivery --------------------------
(***************************************************************************)
(* What WemoAdapterOpenWemo promises of a command: whatever other commands *)
(* run at the same time, it is handed to the engine at most once, to the   *)
(* device it names and as it was asked for; otherwise it is given up, and  *)
(* either way it ends.                                                     *)
(***************************************************************************)
CONSTANTS Threads, Commands, None

VARIABLES
    request,  \* what each thread was asked for, None before
    outcome,  \* "none", "pending", "sent" or "failed"
    sent      \* the commands the engine was handed, with their thread

Init ==
    /\ request = [t \in Threads |-> None]
    /\ outcome = [t \in Threads |-> "none"]
    /\ sent = {}

Ask(t, c) ==
    /\ outcome[t] = "none"
    /\ request' = [request EXCEPT ![t] = c]
    /\ outcome' = [outcome EXCEPT ![t] = "pending"]
    /\ UNCHANGED sent

Send(t) ==
    /\ outcome[t] = "pending"
    /\ sent' = sent \cup {[thread |-> t, what |-> request[t]]}
    /\ outcome' = [outcome EXCEPT ![t] = "sent"]
    /\ UNCHANGED request

GiveUp(t) ==
    /\ outcome[t] = "pending"
    /\ outcome' = [outcome EXCEPT ![t] = "failed"]
    /\ UNCHANGED <<request, sent>>

Next == \E t \in Threads : Send(t) \/ GiveUp(t) \/ \E c \in Commands : Ask(t, c)

Spec == Init /\ [][Next]_<<request, outcome, sent>>
=============================================================================
