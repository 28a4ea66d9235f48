----------------------------- MODULE MessageChannel -----------------------------
(***************************************************************************)
(* What the two reliable channels promise the applications at their ends   *)
(* (docs/protocol_overview.md, docs/reliability_model.md): the Reliable    *)
(* channel hands over each message that was taken for sending at most      *)
(* once, in any order; the ReliableOrdered channel hands over the numbers  *)
(* 1, 2, 3, ... in order, several at once when a gap closes.  Neither      *)
(* hands over a message that was never taken for sending.                  *)
(***************************************************************************)
EXTENDS Naturals, Sequences

VARIABLES
    taken,      \* [channel]: the messages send() has taken
    delivered   \* [channel]: the messages handed over, in order

channelVars == <<taken, delivered>>

ChannelInit ==
    /\ taken = [c \in {"Reliable", "ReliableOrdered"} |-> {}]
    /\ delivered = [c \in {"Reliable", "ReliableOrdered"} |-> <<>>]

Take(c) ==
    /\ \E x \in taken'[c] \ taken[c] :
            taken' = [taken EXCEPT ![c] = taken[c] \cup {x}]
    /\ UNCHANGED delivered

Deliver ==
    \E x \in taken["Reliable"] :
        /\ \A i \in DOMAIN delivered["Reliable"] : delivered["Reliable"][i] # x
        /\ delivered' = [delivered EXCEPT !["Reliable"] = Append(@, x)]
        /\ UNCHANGED taken

DeliverOrdered ==
    \E n \in taken["ReliableOrdered"] :
        LET last == Len(delivered["ReliableOrdered"]) IN
        /\ n > last
        /\ (last + 1)..n \subseteq taken["ReliableOrdered"]
        /\ delivered' = [delivered EXCEPT !["ReliableOrdered"] =
                            @ \o [i \in 1..(n - last) |-> last + i]]
        /\ UNCHANGED taken

ChannelNext == Take("Reliable") \/ Take("ReliableOrdered") \/ Deliver \/ DeliverOrdered

ChannelSpec == ChannelInit /\ [][ChannelNext]_channelVars
=============================================================================
