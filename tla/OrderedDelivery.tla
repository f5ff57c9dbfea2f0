-------------------------- MODULE OrderedDelivery --------------------------
(***************************************************************************)
(* What a session promises the application behind it.  A process takes a   *)
(* number over, and may take another as long as it has handled nothing.    *)
(* From there it hands the messages on in the order of their numbers, each *)
(* once, and counts the next one only when the one before was handled.     *)
(* When the process ends, what it counted is forgotten.                    *)
(***************************************************************************)
EXTENDS Integers

CONSTANT Numbers   \* the numbers of messages

VARIABLES
    on,      \* a process runs
    base,    \* the number it took over
    last,    \* the last message counted
    hand,    \* the message counted and not yet handled, or 0
    times    \* how often each message was handled by this process

vars == <<on, base, last, hand, times>>

Untouched == [x \in Numbers |-> 0]

Init ==
    /\ on = FALSE /\ base = 0 /\ last = 0
    /\ hand = 0 /\ times = Untouched

\* Nothing was handled: the number may still be set.
TakeOver(n) ==
    /\ hand = 0 /\ times = Untouched
    /\ on' = TRUE /\ base' = n /\ last' = n
    /\ UNCHANGED <<hand, times>>

Count ==
    /\ on /\ hand = 0 /\ last + 1 \in Numbers
    /\ last' = last + 1 /\ hand' = last + 1
    /\ UNCHANGED <<on, base, times>>

Handle ==
    /\ on /\ hand # 0 /\ times[hand] = 0
    /\ times' = [times EXCEPT ![hand] = 1]
    /\ hand' = 0
    /\ UNCHANGED <<on, base, last>>

Stop ==
    /\ on' = FALSE /\ base' = 0 /\ last' = 0
    /\ hand' = 0 /\ times' = Untouched

Next ==
    \/ \E n \in Numbers \cup {0} : TakeOver(n)
    \/ Count \/ Handle
    \/ Stop

Spec == Init /\ [][Next]_vars
=============================================================================
