---------------------------- MODULE SettledValue ----------------------------
(***************************************************************************)
(* What the bridge promises of every attribute a controller can command.   *)
(* A command is shown at once and held for exactly Window ticks of the     *)
(* clock.  What the devices are observed to be is queued and taken in      *)
(* order: an observation that agrees with the held value, or that finds    *)
(* nothing held, must be shown; one that contradicts it must not.  Nothing *)
(* else moves a shown value, and nothing is left of a command afterwards.  *)
(***************************************************************************)
EXTENDS Integers, Sequences

CONSTANTS
    Keys,   \* the attributes
    Values, \* what they may be commanded to, or observed as
    Window, \* the ticks a command is held for
    None    \* nothing is held, nothing was observed: not one of Values

VARIABLES
    shown,  \* the value of each attribute
    held,   \* what it is held at
    left,   \* the ticks left of that, -1 when nothing is held
    queue   \* observations: of each attribute a value, or None

Init ==
    /\ shown \in [Keys -> Values]
    /\ held = [a \in Keys |-> None]
    /\ left = [a \in Keys |-> -1]
    /\ queue = << >>

\* Observations that wait keep their order; others come behind them.
Waiting(items) == \A i \in DOMAIN items : i \in DOMAIN queue' /\ queue'[i] = items[i]

\* A controller writes the attribute.
Command(a, v) ==
    /\ v \in Values
    /\ shown' = [shown EXCEPT ![a] = v]
    /\ held' = [held EXCEPT ![a] = v]
    /\ left' = [left EXCEPT ![a] = Window]
    /\ Waiting(queue)

\* The value of the attribute once the oldest observation has been taken.
Followed(a) ==
    LET v == Head(queue)[a]
    IN  IF v # None /\ held[a] \in {None, v} THEN v ELSE shown[a]

Observe ==
    /\ queue # << >>
    /\ shown' = [a \in Keys |-> Followed(a)]
    /\ UNCHANGED <<held, left>>
    /\ Waiting(Tail(queue))

\* More is observed of the devices.
Queue == UNCHANGED <<shown, held, left>> /\ Waiting(queue)

Tick ==
    /\ left' = [a \in Keys |-> IF left[a] >= 0 THEN left[a] - 1 ELSE -1]
    /\ held' = [a \in Keys |-> IF left[a] > 0 THEN held[a] ELSE None]
    /\ UNCHANGED <<shown, queue>>

\* (The value that was written is read off the step.)
Next == Observe \/ Queue \/ Tick \/ \E a \in Keys : Command(a, shown'[a])

Spec == Init /\ [][Next]_<<shown, held, left, queue>>
=============================================================================
