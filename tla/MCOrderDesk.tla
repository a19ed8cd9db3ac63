---------------------------- MODULE MCOrderDesk ----------------------------
(***************************************************************************)
(* OrderDesk for TLC.  An order can be cancelled, assigned again and       *)
(* cancelled again without end, each time with a refund: MaxRefunds stops  *)
(* that, and with it every sum of money.  A worker that dies between UPDATE*)
(* and INSERT leaves a reward paid and not recorded, to be paid again:     *)
(* MaxGranted stops that.                                                  *)
(*                                                                         *)
(* A behaviour may be about a part: one order and its rewards, workers     *)
(* that die included; or two orders of a customer nobody invited, so that  *)
(* the reward of the first pays for the second, and may be refunded.       *)
(***************************************************************************)
EXTENDS OrderDesk, TLC

CONSTANTS MaxRefunds,  \* bound: refunds of one order
          MaxGranted,  \* bound: no worker dies once more than this was credited
          Parts        \* of "all", "rewards", "refunds"

CONSTANTS anu, ravi   \* the customers of the runs; anu was invited by ravi

AnuReferredByRavi == (anu :> ravi) @@ (ravi :> NoOne)
Nobody == [c \in Customers |-> NoOne]
HalfOf == [s \in Subtotals |-> s \div 2]

VARIABLE part   \* which of Parts a behaviour is about

mcvars == <<vars, part>>

MCInit == Init /\ part \in Parts

FirstOrder == CHOOSE o \in Orders : TRUE
Buyers == IF part = "refunds" THEN {c \in Customers : Referrer[c] = NoOne} ELSE Customers
Posted == IF part = "refunds" THEN {"delivered"} ELSE RiderPosts

MCStart(w) ==
    \/ \E c \in Buyers : CheckoutOpen(w, c)
    \/ \E o \in Orders : refunds[o] < MaxRefunds /\ CancelLock(w, o)
    \/ \E o \in Orders, r \in Riders : Assign(w, o, r)
    \/ \E o \in Orders, s \in Posted : RiderLoad(w, o, s)
    \/ \E o \in Orders : SpinLock(w, o)

MCDie(w) == /\ part # "refunds"
            /\ \A c \in Customers : granted[c] <= MaxGranted
            /\ Die(w)

\* The second order is not placed in the part about rewards.
InPart == /\ part = "rewards" => \A o \in Orders \ {FirstOrder} : order'[o] = order[o]
          /\ UNCHANGED part

MCNext == /\ \E w \in Workers : MCStart(w) \/ Serve(w) \/ BrokerDown(w) \/ MCDie(w)
          /\ InPart

MCSpec == MCInit /\ [][MCNext]_mcvars

MCFairSpec == /\ MCSpec
              /\ \A w \in Workers : SF_mcvars(Serve(w) /\ InPart)

Symmetry == Permutations(Workers)
=============================================================================
