----------------------------- MODULE MCCheckout -----------------------------
(***************************************************************************)
(* Checkout for TLC.  Adding to the cart has no end: no request adds to a  *)
(* variant beyond MaxQuantity.  The amounts are paise of a toy shop: what  *)
(* can be in the cart lies on both sides of the minimum and of free        *)
(* delivery, and half of 3 or of 5 has to be rounded.                      *)
(***************************************************************************)
EXTENDS Checkout, TLC

CONSTANTS MaxQuantity,  \* bound: pieces of one variant in a cart
          tomato, onion

LessOrMore == {-1, 1}
TwoPrices == (tomato :> {1, 3}) @@ (onion :> {2})

Rules(minimum, free, charge, share) ==
    [minimum_order_amount |-> minimum, free_delivery_minimum |-> free,
     delivery_charge |-> charge, max_wallet_usage_percent |-> share]
TwoSettings == {Rules(2, 3, 1, 500), Rules(3, 5, 2, 1000)}

MCStep(w) ==
    \/ \E b \in Browsers : Load(w, b)
    \/ \E v \in Variants : \/ \E q \in Steps : req[w].cart[v] + q <= MaxQuantity /\ Add(w, v, q)
                           \/ \E q \in Counts : SetQuantity(w, v, q)
                           \/ AddGone(w, v)
    \/ CheckoutCart(w) \/ CheckoutEmpty(w)
    \/ \E balance \in Balances : CheckoutPrice(w, balance)
    \/ CheckoutPage(w) \/ CheckoutSmall(w) \/ CheckoutNowhere(w)
    \/ \E o \in Orders : CheckoutPlace(w, o)
    \/ Save(w)
    \/ Die(w)

\* Staff touch the tomato only, the variant with two prices, and rest after the first
\* order: the second is there for the cart.
MCStaff == /\ Placed = {}
           /\ \/ Toggle(tomato)
              \/ \E p \in Prices[tomato] : SetPrice(tomato, p)
              \/ \E s \in Settings \ {settings} : SaveSettings(s)

MCNext == MCStaff \/ \E w \in Workers : MCStep(w)

MCSpec == Init /\ [][MCNext]_vars

Symmetry == Permutations(Workers) \cup Permutations(Orders)
=============================================================================
