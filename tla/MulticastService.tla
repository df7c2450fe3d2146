-------------------------- MODULE MulticastService --------------------------
(***************************************************************************)
(* What the multicast downlink promises its caller, without transactions,  *)
(* locks, schedulers and acknowledgements: a message is accepted in one    *)
(* step with a frame-counter the group has not used, it is transmitted     *)
(* only while it is in the outbox, and it leaves the outbox only when it   *)
(* was transmitted, is too large for the data-rate, or when the group or   *)
(* its queue is removed.                                                   *)
(***************************************************************************)
EXTENDS Naturals

CONSTANTS
    Groups,    \* multicast-groups
    None,      \* no group
    Large,     \* payloads that some data-rates cannot carry
    FCntSize   \* the size of a frame-counter

VARIABLES
    counter,   \* the next frame-counter of each group, or None
    outbox,    \* accepted messages: [id, g, w, fCnt, pl]
    aired,     \* messages handed to a gateway
    doomed     \* messages whose removal the caller has asked for

vars == <<counter, outbox, aired, doomed>>

Init ==
    /\ counter \in [Groups -> (0 .. FCntSize - 1) \cup {None}]
    /\ outbox = {}
    /\ aired = {}
    /\ doomed = {}

\* The group is created, updated or deleted.  With the group go its messages.
Configure(g, c) ==
    /\ counter' = [counter EXCEPT ![g] = c]
    /\ outbox' = IF c = None THEN {m \in outbox : m.g # g} ELSE outbox
    /\ UNCHANGED <<aired, doomed>>

\* A message is accepted, for the gateways that are to transmit it.
Accept(g, c, new) ==
    /\ counter[g] # None
    /\ c >= counter[g]
    /\ \A m \in new : m.g = g /\ m.fCnt = c
    /\ \A m, n \in new : m.pl = n.pl /\ (m # n => m.w # n.w)
    /\ \A m \in new, n \in outbox : m.id # n.id
    /\ counter' = [counter EXCEPT ![g] = (c + 1) % FCntSize]
    /\ outbox' = outbox \cup new
    /\ UNCHANGED <<aired, doomed>>

Transmit(m) ==
    /\ m \in outbox
    /\ aired' = aired \cup {m}
    /\ UNCHANGED <<counter, outbox, doomed>>

\* The caller asks to flush the queue of the group.
Flush(g) ==
    /\ doomed' = doomed \cup {m \in outbox : m.g = g}
    /\ UNCHANGED <<counter, outbox, aired>>

\* Messages leave the outbox: transmitted ones, flushed ones and ones that are
\* too large.
Remove(gone) ==
    /\ \A m \in gone : m \in aired \cup doomed \/ m.pl \in Large
    /\ outbox' = outbox \ gone
    /\ UNCHANGED <<counter, aired, doomed>>

\* The new messages of a step are the ones it adds to the outbox.
Next ==
    \/ \E g \in Groups, c \in (0 .. FCntSize - 1) \cup {None} : Configure(g, c)
    \/ \E g \in Groups, c \in 0 .. FCntSize - 1 : Accept(g, c, outbox' \ outbox)
    \/ \E m \in outbox : Transmit(m)
    \/ \E g \in Groups : Flush(g)
    \/ Remove(outbox \ outbox')

Spec == Init /\ [][Next]_vars
=============================================================================
