---------------------------- MODULE MCRiderDesk ----------------------------
(***************************************************************************)
(* RiderDesk for TLC, in two halves that meet only in the keys of Redis:   *)
(* in one the phones ping for their orders, in the other they report while *)
(* riders are on and off duty and are chosen.  Nothing needs a bound: ages *)
(* and counts are finite once Throttle, TTL and Lifetime are.              *)
(***************************************************************************)
EXTENDS RiderDesk, TLC

VARIABLE half   \* which of the two a behaviour is about

CONSTANTS near, far

\* Every order is near the one and far from the other.
NearAndFar == [o \in Orders |-> [p \in Places |-> IF p = near THEN 1 ELSE 2]]

MCInit == Init /\ half \in {"pings", "assigns"}

MCStep(w) ==
    \/ /\ half = "pings"
       /\ \/ \E r \in Riders, o \in Orders : PingOpen(w, r, o, near)
          \/ PingLast(w) \/ PingInsert(w)
    \/ /\ half = "assigns"
       /\ \/ \E r \in Riders, p \in Places : Report(w, r, p)
          \/ Assigns(w)
    \/ Die(w)

MCNext == (Tick \/ \E w \in Workers : MCStep(w)) /\ UNCHANGED half

MCSpec == MCInit /\ [][MCNext]_<<vars, half>>

Symmetry == Permutations(Workers) \cup Permutations(Riders)
=============================================================================
