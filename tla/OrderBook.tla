----------------------------- MODULE OrderBook -----------------------------
(***************************************************************************)
(* What the order handlers promise, with nothing said of how: an order, the*)
(* wallets and the rewards change together.  Placing an order spends from  *)
(* the wallet, cancelling an open one gives the money back, and a post of  *)
(* "delivered" pays the delivery bonus of the order and the referral bonus *)
(* of its customer, each once.                                             *)
(*                                                                         *)
(* OrderDesk implements this module as long as requests do not overlap.    *)
(***************************************************************************)
EXTENDS Integers

CONSTANTS Customers, Orders, Riders, NoOne, Referrer, Subtotals, WalletShare,
          DeliveryBonuses, ReferralBonus, MinForBonus, RiderPosts

VARIABLES order,         \* order[o]: status, customer, rider, subtotal, used, bonus, deliveredAt
          money,         \* money[c]: what c can spend
          bonusPaid,     \* bonusPaid[o]: the delivery bonus of o is paid
          referralPaid   \* referralPaid[c]: the referral bonus for c is paid

bvars == <<order, money, bonusPaid, referralPaid>>

Init == /\ order = [o \in Orders |->
                      [status |-> "none", customer |-> NoOne, rider |-> NoOne,
                       subtotal |-> 0, used |-> 0, bonus |-> 0, deliveredAt |-> FALSE]]
        /\ money = [c \in Customers |-> 0]
        /\ bonusPaid = [o \in Orders |-> FALSE]
        /\ referralPaid = [c \in Customers |-> FALSE]

\* The wallet pays as much as it holds and the settings allow.
Place(c, o, s, b, spend) ==
    /\ order[o].status = "none"
    /\ spend <= money[c] /\ spend <= WalletShare[s]
    /\ spend = money[c] \/ spend = WalletShare[s]
    /\ order' = [order EXCEPT ![o] =
                   [status |-> "placed", customer |-> c, rider |-> NoOne,
                    subtotal |-> s, used |-> spend, bonus |-> b, deliveredAt |-> FALSE]]
    /\ money' = [money EXCEPT ![c] = @ - spend]
    /\ UNCHANGED <<bonusPaid, referralPaid>>

Assign(o, r) ==
    /\ order[o].status # "none"
    /\ order' = [order EXCEPT ![o].rider = r, ![o].status = "confirmed"]
    /\ UNCHANGED <<money, bonusPaid, referralPaid>>

Cancel(o) ==
    /\ order[o].status \in {"placed", "confirmed"}
    /\ order' = [order EXCEPT ![o].status = "cancelled"]
    /\ money' = [money EXCEPT ![order[o].customer] = @ + order[o].used]
    /\ UNCHANGED <<bonusPaid, referralPaid>>

BonusDue(o) == order[o].bonus > 0 /\ ~bonusPaid[o]
ReferralDue(o) == /\ Referrer[order[o].customer] # NoOne
                  /\ order[o].subtotal >= MinForBonus
                  /\ ~referralPaid[order[o].customer]

Reward(o, c) ==
    (IF BonusDue(o) /\ order[o].customer = c THEN order[o].bonus ELSE 0)
      + (IF ReferralDue(o) /\ Referrer[order[o].customer] = c THEN ReferralBonus ELSE 0)

Deliver(o) ==
    /\ order[o].rider # NoOne
    /\ order' = [order EXCEPT ![o].status = "delivered", ![o].deliveredAt = TRUE]
    /\ money' = [c \in Customers |-> money[c] + Reward(o, c)]
    /\ bonusPaid' = [bonusPaid EXCEPT ![o] = @ \/ BonusDue(o)]
    /\ referralPaid' = [referralPaid EXCEPT ![order[o].customer] = @ \/ ReferralDue(o)]

\* Any other status a rider posts.
Post(o, s) ==
    /\ order[o].rider # NoOne
    /\ order' = [order EXCEPT ![o].status = s]
    /\ UNCHANGED <<money, bonusPaid, referralPaid>>

Next ==
    \/ \E c \in Customers, o \in Orders, s \in Subtotals, b \in DeliveryBonuses :
          \E spend \in 0..WalletShare[s] : Place(c, o, s, b, spend)
    \/ \E o \in Orders : \/ \E r \in Riders : Assign(o, r)
                         \/ Cancel(o)
                         \/ "delivered" \in RiderPosts /\ Deliver(o)
                         \/ \E s \in RiderPosts \ {"delivered"} : Post(o, s)

Spec == Init /\ [][Next]_bvars
=============================================================================
