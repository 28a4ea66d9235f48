---------------------------- MODULE BestEffortLink ----------------------------
(***************************************************************************)
(* What the packets of a session promise in one direction                  *)
(* (docs/protocol_overview.md): a packet is handled at most once, in any   *)
(* order, or not at all, and the SequencedUnreliable channel shows the     *)
(* application only what is newer than everything it has shown.            *)
(***************************************************************************)
EXTENDS Integers, Sequences

VARIABLES
    sent,       \* packets sealed for the receiver
    handled,    \* packets handled, in order
    shown       \* the newest sequenced number shown; 0 before the first

linkVars == <<sent, handled, shown>>

LinkInit == sent = {} /\ handled = <<>> /\ shown = 0

Seal ==
    /\ \E x \in sent' \ sent : sent' = sent \cup {x}
    /\ UNCHANGED <<handled, shown>>

Handle ==
    \E x \in sent :
        /\ \A i \in DOMAIN handled : handled[i] # x
        /\ handled' = Append(handled, x)
        /\ shown' = IF x.number > shown THEN x.number ELSE shown
        /\ UNCHANGED sent

LinkNext == Seal \/ Handle

LinkSpec == LinkInit /\ [][LinkNext]_linkVars
=============================================================================
