------------------------------ MODULE ReplayWindow ------------------------------
(***************************************************************************)
(* The sliding window of scn::ReplayWindow (packet sequence numbers,       *)
(* protocol.hpp) and scn::ReliableReceiveWindow (reliable message ids,     *)
(* reliability.hpp).  The two classes run the same algorithm: the highest  *)
(* number accepted so far and one bit for each of the 64 numbers below it. *)
(* The 64-bit mask is a set of distances from `latest'; shifting the mask  *)
(* left by delta moves every distance up by delta and drops those that     *)
(* reach 64.                                                               *)
(***************************************************************************)
EXTENDS Integers

CONSTANT Window  \* bits of the mask: 64 in the code

ASSUME WindowAssumption == Window \in Nat \ {0}

Distances == 0..(Window - 1)

WindowType == [initialized : BOOLEAN, latest : Nat, seen : SUBSET Distances]

EmptyWindow == [initialized |-> FALSE, latest |-> 0, seen |-> {}]

(* A window that forgets the lower bound: too old is taken as new. *)
AcceptsTooOld(w, s) ==
    \/ ~w.initialized
    \/ s > w.latest
    \/ w.latest - s \notin w.seen

(* A window one number narrower than its mask. *)
AcceptsNarrow(w, s) ==
    \/ ~w.initialized
    \/ s > w.latest
    \/ w.latest - s < Window - 1 /\ w.latest - s \notin w.seen

(* What accept() answers. *)
Accepts(w, s) ==
    \/ ~w.initialized
    \/ s > w.latest
    \/ w.latest - s < Window /\ w.latest - s \notin w.seen

Shift(seen, delta) ==
    IF delta >= Window THEN {} ELSE {d \in Distances : d - delta \in seen}

(* What accept() leaves behind. *)
Advance(w, s) ==
    IF ~w.initialized
      THEN [initialized |-> TRUE, latest |-> s, seen |-> {0}]
    ELSE IF s > w.latest
      THEN [w EXCEPT !.latest = s, !.seen = Shift(w.seen, s - w.latest) \cup {0}]
    ELSE IF w.latest - s < Window
      THEN [w EXCEPT !.seen = w.seen \cup {w.latest - s}]
    ELSE w

(* w is the window that has accepted exactly the numbers of the set S.     *)
Tracks(w, S) ==
    /\ w.initialized <=> S # {}
    /\ S # {} => w.latest \in S
    /\ \A s \in S : s <= w.latest
    /\ \A d \in Distances : d \in w.seen <=> (w.initialized /\ w.latest - d \in S)
=============================================================================
