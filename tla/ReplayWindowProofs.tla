--------------------------- MODULE ReplayWindowProofs ---------------------------
(***************************************************************************)
(* What the sliding window guarantees, for every window size: a number is  *)
(* accepted at most once, and the mask is exactly the record of the        *)
(* accepted numbers that are still within the window.                      *)
(***************************************************************************)
EXTENDS ReplayWindow, TLAPS

(* accept() keeps the window well formed (protocol.hpp 99-125).            *)
LEMMA AdvanceType ==
    ASSUME NEW w \in WindowType, NEW s \in Nat
    PROVE  Advance(w, s) \in WindowType
  <1>1. CASE ~w.initialized
    BY <1>1, WindowAssumption DEF WindowType, Advance, Distances
  <1>2. CASE w.initialized /\ s > w.latest
    <2>1. Shift(w.seen, s - w.latest) \cup {0} \in SUBSET Distances
      BY WindowAssumption DEF Shift, Distances
    <2>. QED
      BY <1>2, <2>1, Zenon DEF WindowType, Advance
  <1>3. CASE w.initialized /\ s <= w.latest /\ w.latest - s < Window
    <2>1. w.seen \cup {w.latest - s} \in SUBSET Distances
      BY <1>3, WindowAssumption DEF WindowType, Distances
    <2>. QED
      BY <1>3, <2>1 DEF WindowType, Advance
  <1>4. CASE w.initialized /\ s <= w.latest /\ w.latest - s >= Window
    BY <1>4, WindowAssumption DEF WindowType, Advance
  <1>. QED
    BY <1>1, <1>2, <1>3, <1>4, WindowAssumption DEF WindowType

(* A fresh window has accepted nothing.                                    *)
LEMMA EmptyTracks == EmptyWindow \in WindowType /\ Tracks(EmptyWindow, {})
  BY WindowAssumption DEF EmptyWindow, WindowType, Tracks, Distances

(* accept() returns true only for a number it has not accepted before,     *)
(* even when the mask has been shifted past it in between.                 *)
LEMMA AcceptedIsFresh ==
    ASSUME NEW w \in WindowType, NEW S \in SUBSET Nat, Tracks(w, S),
           NEW s \in Nat, Accepts(w, s)
    PROVE  s \notin S
  <1>1. CASE ~w.initialized
    BY <1>1 DEF Tracks
  <1>2. CASE w.initialized /\ s > w.latest
    BY <1>2 DEF Tracks, WindowType
  <1>3. CASE w.initialized /\ s <= w.latest
    <2>1. w.latest - s \in Distances /\ w.latest - s \notin w.seen
      BY <1>3, WindowAssumption DEF Accepts, WindowType, Distances
    <2>2. w.latest - (w.latest - s) \notin S
      BY <1>3, <2>1 DEF Tracks
    <2>. QED
      BY <2>2 DEF WindowType
  <1>. QED
    BY <1>1, <1>2, <1>3 DEF WindowType

(* A number that accept() rejects was accepted before or lies at least a   *)
(* window below the latest one.                                            *)
LEMMA RejectedIsOldOrSeen ==
    ASSUME NEW w \in WindowType, NEW S \in SUBSET Nat, Tracks(w, S),
           NEW s \in Nat, ~Accepts(w, s)
    PROVE  s \in S \/ w.latest - s >= Window
  <1>1. w.initialized /\ s <= w.latest
    BY DEF Accepts, WindowType
  <1>2. CASE w.latest - s < Window
    <2>1. w.latest - s \in Distances /\ w.latest - s \in w.seen
      BY <1>1, <1>2, WindowAssumption DEF Accepts, WindowType, Distances
    <2>2. w.latest - (w.latest - s) \in S
      BY <2>1 DEF Tracks
    <2>. QED
      BY <2>2 DEF WindowType
  <1>. QED
    BY <1>2, WindowAssumption DEF WindowType

(* Accepting s adds s to the numbers the window stands for.                *)
LEMMA AcceptTracks ==
    ASSUME NEW w \in WindowType, NEW S \in SUBSET Nat, Tracks(w, S),
           NEW s \in Nat, Accepts(w, s)
    PROVE  Tracks(Advance(w, s), S \cup {s})
  <1>. DEFINE v == Advance(w, s)
              T == S \cup {s}
  <1>1. CASE ~w.initialized
    <2>1. S = {} /\ v = [initialized |-> TRUE, latest |-> s, seen |-> {0}]
      BY <1>1 DEF Tracks, Advance
    <2>. QED
      BY <2>1, WindowAssumption DEF Tracks, Distances
  <1>2. CASE w.initialized /\ s > w.latest
    <2>1. v = [initialized |-> TRUE, latest |-> s,
               seen |-> Shift(w.seen, s - w.latest) \cup {0}]
      BY <1>2, Zenon DEF Advance, WindowType
    <2>2. ASSUME NEW d \in Distances
          PROVE  d \in v.seen <=> s - d \in T
      <3>1. CASE d = 0
        BY <2>1, <3>1
      <3>2. CASE d # 0 /\ s - w.latest >= Window
        <4>1. d \notin v.seen
          BY <2>1, <3>2 DEF Shift
        <4>2. s - d > w.latest
          BY <3>2, WindowAssumption DEF Distances, WindowType
        <4>. QED
          BY <1>2, <3>2, <4>1, <4>2 DEF Tracks, WindowType, Distances
      <3>3. CASE d # 0 /\ s - w.latest < Window
        <4>1. d \in v.seen <=> d - (s - w.latest) \in w.seen
          BY <2>1, <3>3, WindowAssumption DEF Shift, WindowType
        <4>2. CASE d - (s - w.latest) \in Distances
          <5>1. w.latest - (d - (s - w.latest)) = s - d
            BY DEF WindowType, Distances
          <5>2. d - (s - w.latest) \in w.seen <=> s - d \in S
            BY <1>2, <4>2, <5>1 DEF Tracks
          <5>3. s - d # s
            BY <3>3 DEF Distances
          <5>. QED
            BY <4>1, <5>2, <5>3
        <4>3. CASE d - (s - w.latest) \notin Distances
          <5>1. d - (s - w.latest) < 0
            BY <1>2, <4>3, WindowAssumption DEF Distances, WindowType
          <5>2. s - d > w.latest /\ s - d # s
            BY <3>3, <5>1 DEF Distances, WindowType
          <5>3. d - (s - w.latest) \notin w.seen
            BY <4>3 DEF WindowType
          <5>. QED
            BY <4>1, <5>2, <5>3 DEF Tracks, WindowType
        <4>. QED
          BY <4>2, <4>3
      <3>. QED
        BY <3>1, <3>2, <3>3, WindowAssumption DEF WindowType
    <2>. QED
      BY <1>2, <2>1, <2>2 DEF Tracks, WindowType
  <1>3. CASE w.initialized /\ s <= w.latest
    <2>1. w.latest - s \in Distances
      BY <1>3, WindowAssumption DEF Accepts, WindowType, Distances
    <2>2. v = [initialized |-> TRUE, latest |-> w.latest,
               seen |-> w.seen \cup {w.latest - s}]
      <3>1. w.latest - s < Window /\ ~(s > w.latest)
        BY <1>3, <2>1, WindowAssumption DEF WindowType, Distances
      <3>2. v = [w EXCEPT !.seen = w.seen \cup {w.latest - s}]
        BY <1>3, <3>1 DEF Advance
      <3>. QED
        BY <1>3, <3>2, Zenon DEF WindowType
    <2>3. ASSUME NEW d \in Distances
          PROVE  d \in v.seen <=> w.latest - d \in T
      <3>1. w.latest - d = s <=> d = w.latest - s
        BY DEF WindowType, Distances
      <3>. QED
        BY <1>3, <2>2, <3>1 DEF Tracks
    <2>. QED
      BY <1>3, <2>2, <2>3 DEF Tracks, WindowType
  <1>. QED
    BY <1>1, <1>2, <1>3 DEF WindowType

(* Rejecting s changes nothing.                                            *)
LEMMA RejectKeeps ==
    ASSUME NEW w \in WindowType, NEW s \in Nat, ~Accepts(w, s)
    PROVE  Advance(w, s) = w
  <1>1. w.initialized /\ s <= w.latest
    BY DEF Accepts, WindowType
  <1>2. CASE w.latest - s < Window
    <2>1. w.seen \cup {w.latest - s} = w.seen
      BY <1>1, <1>2 DEF Accepts
    <2>. QED
      BY <1>1, <1>2, <2>1 DEF Advance, WindowType
  <1>. QED
    BY <1>1, <1>2, WindowAssumption DEF Advance, WindowType
=============================================================================
