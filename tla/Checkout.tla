------------------------------ MODULE Checkout ------------------------------
(***************************************************************************)
(* The cart in the session (orders/cart.py and its three views) and what   *)
(* checkout makes of it (orders/views.py), for one shop whose staff change *)
(* prices and switch variants off while customers buy.                     *)
(*                                                                         *)
(* Django reads the session row when a request begins and, if the request  *)
(* modified it, writes it back whole with the response.  checkout reads    *)
(* the catalog three times: to see whether the cart is empty, to price it, *)
(* and, in its transaction, to create the items of the order.              *)
(*                                                                         *)
(* Money is in paise.  What happens to an order and to the wallet          *)
(* afterwards is the module OrderDesk.                                     *)
(***************************************************************************)
EXTENDS Integers, FiniteSets, Functions

CONSTANTS Browsers,      \* one session each
          Variants,      \* rows of ProductVariant
          Orders,        \* ids of the orders that will ever be placed
          Workers,       \* Gunicorn workers
          NoOne,
          Prices,        \* Prices[v]: what v may cost
          Steps,         \* quantities posted to add_to_cart
          Counts,        \* quantities posted to update_cart_item
          Balances,      \* what a wallet may hold when it is read
          Settings       \* what the row of ReferralSettings may say

ASSUME CheckoutAssumption ==
    /\ NoOne \notin Browsers
    /\ IsFiniteSet(Variants)
    /\ Prices \in [Variants -> SUBSET Nat]
    /\ \A v \in Variants : Prices[v] # {}
    /\ Steps \subseteq Int /\ Counts \subseteq Int
    /\ Balances \subseteq Nat
    \* max_wallet_usage_percent is in tenths of a percent.
    /\ Settings \subseteq [minimum_order_amount : Nat, free_delivery_minimum : Nat,
                            delivery_charge : Nat, max_wallet_usage_percent : Nat]
    /\ Settings # {}

VARIABLES session,    \* session[b]: the cart stored in the session row of b
          price,      \* price[v]
          onSale,     \* onSale[v]: is_active
          settings,   \* the row of ReferralSettings
          placed,     \* placed[o]: what order o was created with
          req,        \* req[w]: the request of w, with the session it loaded
          wanted      \* wanted[b]: the cart as the customer of b left it, or Unknown
                      \* once requests of b overlapped or one died (history)

catalog == <<price, onSale, settings>>
vars == <<session, price, onSale, settings, placed, req, wanted>>

\* {variant_id: quantity}; a variant that is not in it has quantity 0.
Cart == [Variants -> Nat]
Empty == [v \in Variants |-> 0]

\* A session without the key "cart".
NoCart == [v \in Variants |-> -1]
Unknown == NoCart

\* No settings have been read.
NoRules == [minimum_order_amount |-> 0, free_delivery_minimum |-> 0, delivery_charge |-> 0,
            max_wallet_usage_percent |-> 0]

NotPlaced == [placed |-> FALSE, items |-> Empty, total |-> 0, fee |-> 0, used |-> 0,
              rules |-> NoRules, edited |-> FALSE]
NoRequest == [pc |-> "idle", browser |-> NoOne, cart |-> Empty, new |-> FALSE, usable |-> 0,
              fee |-> 0, rules |-> NoRules, edited |-> FALSE]

Init == /\ session = [b \in Browsers |-> NoCart]
        /\ price \in {p \in [Variants -> UNION {Prices[v] : v \in Variants}] :
                          \A v \in Variants : p[v] \in Prices[v]}
        /\ onSale = [v \in Variants |-> TRUE]
        /\ settings \in Settings
        /\ placed = [o \in Orders |-> NotPlaced]
        /\ req = [w \in Workers |-> NoRequest]
        /\ wanted = [b \in Browsers |-> Empty]

At(w, pc) == req[w].pc = pc
MinOf(a, b) == IF a <= b THEN a ELSE b

-----------------------------------------------------------------------------
(* Any request of a browser *)

\* The session row is read, once.
Load(w, b) ==
    /\ At(w, "idle")
    /\ req' = [req EXCEPT ![w] = [NoRequest EXCEPT !.pc = "loaded", !.browser = b,
                                        !.cart = IF session[b] = NoCart THEN Empty
                                                                        ELSE session[b],
                                        !.new = session[b] = NoCart]]
    /\ wanted' = [wanted EXCEPT ![b] = IF \E v \in Workers : req[v].browser = b
                                       THEN Unknown ELSE @]
    /\ UNCHANGED <<session, catalog, placed>>

\* Seeded fault: a modified session is not written back.
SaveNothing(w) ==
    /\ At(w, "modified")
    /\ req' = [req EXCEPT ![w] = NoRequest]
    /\ UNCHANGED <<session, catalog, placed, wanted>>

\* The response: a modified session is written back, whole.
Save(w) ==
    /\ At(w, "modified")
    /\ session' = [session EXCEPT ![req[w].browser] = req[w].cart]
    /\ req' = [req EXCEPT ![w] = NoRequest]
    /\ UNCHANGED <<catalog, placed, wanted>>

\* The response of a request that changed nothing.
Done(w) ==
    /\ req' = [req EXCEPT ![w] = NoRequest]
    /\ UNCHANGED <<session, catalog, placed, wanted>>

\* The worker dies, or an exception leaves the handler: no response, no session.
Die(w) ==
    /\ ~At(w, "idle")
    /\ req' = [req EXCEPT ![w] = NoRequest]
    /\ wanted' = [wanted EXCEPT ![req[w].browser] = Unknown]
    /\ UNCHANGED <<session, catalog, placed>>

-----------------------------------------------------------------------------
(* The cart views *)

\* Seeded fault: add lets an entry go below zero.
EntryUnfloored(n) == n

\* A quantity of zero or less is no entry.
Entry(n) == IF n <= 0 THEN 0 ELSE n

\* What the customer means by a request that leaves the cart as given.
Means(b, cart) == wanted' = [wanted EXCEPT ![b] = IF @ = Unknown THEN @ ELSE cart]

\* The views change the loaded cart; the customer sees the change in the response.
Change(w, v, n) ==
    /\ req' = [req EXCEPT ![w].pc = "modified", ![w].cart[v] = n]
    /\ UNCHANGED <<session, catalog, placed>>

\* add_to_cart, Cart.add: a variant on sale only.
Add(w, v, q) ==
    /\ At(w, "loaded")
    /\ onSale[v]
    /\ Change(w, v, Entry(req[w].cart[v] + q))
    /\ Means(req[w].browser,
             [wanted[req[w].browser] EXCEPT ![v] = IF @ + q <= 0 THEN 0 ELSE @ + q])

\* add_to_cart answers 404 before it looks at the cart.
AddGone(w, v) == At(w, "loaded") /\ ~onSale[v] /\ Done(w)

\* update_cart_item, Cart.set_quantity; remove_from_cart is a quantity of zero.
SetQuantity(w, v, q) ==
    /\ At(w, "loaded")
    /\ Change(w, v, Entry(q))
    /\ Means(req[w].browser,
             [wanted[req[w].browser] EXCEPT ![v] = IF q <= 0 THEN 0 ELSE q])

-----------------------------------------------------------------------------
(* checkout *)

\* Cart.line_items: what is in the cart and on sale now.
LineItems(cart) == {v \in Variants : cart[v] > 0 /\ onSale[v]}
Subtotal(cart) == SumFunctionOnSet([v \in Variants |-> cart[v] * price[v]], LineItems(cart))

\* Decimal.quantize rounds half to even.
HalfEven(n, d) ==
    LET q == n \div d
        r == n % d
    IN  IF 2 * r > d \/ (2 * r = d /\ q % 2 = 1) THEN q + 1 ELSE q

\* max_wallet_usable and delivery_fee, by the settings read.
Usable(balance, subtotal, rules) ==
    MinOf(balance, HalfEven(subtotal * rules.max_wallet_usage_percent, 1000))
Fee(subtotal, rules) ==
    IF subtotal >= rules.free_delivery_minimum THEN 0 ELSE rules.delivery_charge

CheckoutCart(w) ==
    /\ At(w, "loaded")
    /\ LineItems(req[w].cart) # {}
    /\ req' = [req EXCEPT ![w].pc = "filled"]
    /\ UNCHANGED <<session, catalog, placed, wanted>>

\* "Your cart is empty."  Cart() has put an empty cart where there was none.
CheckoutEmpty(w) ==
    /\ At(w, "loaded")
    /\ LineItems(req[w].cart) = {}
    /\ req' = [req EXCEPT ![w] = IF @.new THEN [@ EXCEPT !.pc = "modified"] ELSE NoRequest]
    /\ UNCHANGED <<session, catalog, placed, wanted>>

\* The settings, the balance and the subtotal, once for the rest of the request.
CheckoutPrice(w, balance) ==
    LET subtotal == Subtotal(req[w].cart) IN
    /\ At(w, "filled")
    /\ subtotal >= settings.minimum_order_amount
    /\ req' = [req EXCEPT ![w].pc = "priced", ![w].rules = settings,
                          ![w].usable = Usable(balance, subtotal, settings),
                          ![w].fee = Fee(subtotal, settings)]
    /\ UNCHANGED <<session, catalog, placed, wanted>>

\* The page itself, a GET.
CheckoutPage(w) == At(w, "filled") /\ Done(w)

\* Below minimum_order_amount.
CheckoutSmall(w) == At(w, "filled") /\ Subtotal(req[w].cart) < settings.minimum_order_amount
                    /\ Done(w)

\* No pin on the map, or an address outside every area.
CheckoutNowhere(w) == At(w, "priced") /\ Done(w)

\* Seeded fault: the wallet pays what was offered, whatever the order costs.
SpendOffered(r, total) == r.usable

\* What the wallet pays of the order.
Spend(r, total) == IF r.usable > 0 THEN MinOf(r.usable, total + r.fee) ELSE 0

\* The rows of the order: the items on sale now, at the prices of now.
Created(r) ==
    LET items == LineItems(r.cart)
        total == Subtotal(r.cart)
    IN  [placed |-> TRUE, rules |-> r.rules, edited |-> r.edited,
         items  |-> [v \in Variants |-> IF v \in items THEN r.cart[v] ELSE 0],
         total  |-> total, fee |-> r.fee, used |-> Spend(r, total)]

\* Seeded fault: the cart is not cleared after the order.
CheckoutPlaceKeepsCart(w, o) ==
    LET r == req[w] IN
    /\ At(w, "priced")
    /\ ~placed[o].placed
    /\ placed' = [placed EXCEPT ![o] = Created(r)]
    /\ req' = [req EXCEPT ![w] = NoRequest]
    /\ Means(r.browser, Empty)
    /\ UNCHANGED <<session, catalog>>

\* The transaction (order, items, totals, wallet); then the cart of the request is
\* cleared.
CheckoutPlace(w, o) ==
    LET r == req[w] IN
    /\ At(w, "priced")
    /\ ~placed[o].placed
    /\ placed' = [placed EXCEPT ![o] = Created(r)]
    /\ req' = [req EXCEPT ![w] = [NoRequest EXCEPT !.pc = "modified", !.browser = r.browser]]
    /\ Means(r.browser, Empty)
    /\ UNCHANGED <<session, catalog>>

-----------------------------------------------------------------------------
(* Staff, in Django admin *)

\* Requests that have priced their cart do not notice.
Noticed == req' = [w \in Workers |-> IF At(w, "priced") THEN [req[w] EXCEPT !.edited = TRUE]
                                     ELSE req[w]]

SetPrice(v, p) ==
    /\ p \in Prices[v] \ {price[v]}
    /\ price' = [price EXCEPT ![v] = p]
    /\ Noticed
    /\ UNCHANGED <<session, onSale, settings, placed, wanted>>

Toggle(v) ==
    /\ onSale' = [onSale EXCEPT ![v] = ~@]
    /\ Noticed
    /\ UNCHANGED <<session, price, settings, placed, wanted>>

\* Requests that read the settings keep what they read.
SaveSettings(s) ==
    /\ settings' = s
    /\ UNCHANGED <<session, price, onSale, placed, req, wanted>>

Step(w) == \/ \E b \in Browsers : Load(w, b)
           \/ \E v \in Variants : \/ \E q \in Steps : Add(w, v, q)
                                  \/ \E q \in Counts : SetQuantity(w, v, q)
                                  \/ AddGone(w, v)
           \/ CheckoutCart(w) \/ CheckoutEmpty(w)
           \/ \E balance \in Balances : CheckoutPrice(w, balance)
           \/ CheckoutPage(w) \/ CheckoutSmall(w) \/ CheckoutNowhere(w)
           \/ \E o \in Orders : CheckoutPlace(w, o)
           \/ Save(w)
           \/ Die(w)

Staff == \/ \E v \in Variants : Toggle(v) \/ \E p \in Prices[v] : SetPrice(v, p)
         \/ \E s \in Settings \ {settings} : SaveSettings(s)

Next == Staff \/ \E w \in Workers : Step(w)

Spec == Init /\ [][Next]_vars

-----------------------------------------------------------------------------
(* Properties *)

Placed == {o \in Orders : placed[o].placed}

OrderRow == [placed : BOOLEAN, items : Cart, total : Nat, fee : Nat, used : Nat,
             rules : Settings \cup {NoRules}, edited : BOOLEAN]

Request == [pc : {"idle", "loaded", "modified", "filled", "priced"},
            browser : Browsers \cup {NoOne}, cart : Cart, new : BOOLEAN, usable : Nat,
            fee : Nat, rules : Settings \cup {NoRules}, edited : BOOLEAN]

\* Quantities, prices and amounts are natural numbers: Cart.add and set_quantity
\* drop what falls to zero or below (orders/cart.py:17-28).
TypeOK ==
    /\ session \in [Browsers -> Cart \cup {NoCart}]
    /\ wanted \in [Browsers -> Cart \cup {Unknown}]
    /\ price \in [Variants -> Nat] /\ \A v \in Variants : price[v] \in Prices[v]
    /\ onSale \in [Variants -> BOOLEAN]
    /\ settings \in Settings
    /\ placed \in [Orders -> OrderRow]
    /\ req \in [Workers -> Request]

\* Whatever staff do between the pricing and the transaction of checkout, the wallet
\* never pays more than the order costs (orders/views.py:178).  If they leave the
\* catalog alone, the order is what was priced, by one and the same settings: not
\* below the minimum, not without items, the fee the one of its total, the wallet
\* within its share, however the settings change meanwhile.
FairlyCharged ==
    \A o \in Placed :
        LET p == placed[o]
            rules == p.rules
        IN
        /\ p.used <= p.total + p.fee
        /\ ~p.edited =>
              /\ p.total >= rules.minimum_order_amount
              /\ rules.minimum_order_amount > 0 => p.items # Empty
              /\ p.fee = Fee(p.total, rules)
              /\ 2000 * p.used <= 2 * p.total * rules.max_wallet_usage_percent + 1000

\* A customer whose requests never overlapped, and never died, finds the cart as the
\* last response left it: across pages, and empty after an order (orders/cart.py:2-3,
\* orders/views.py:188).
CartKept ==
    \A b \in Browsers :
        (wanted[b] # Unknown /\ \A w \in Workers : req[w].browser # b) =>
            session[b] = wanted[b] \/ (session[b] = NoCart /\ wanted[b] = Empty)

\* Such a customer is charged for the cart as it was left, once: what an order holds
\* of a variant is all of it or nothing, and nothing only if it went off sale.
OrderIsCart ==
    [][\A o \in Orders, w \in Workers, v \in Variants :
          (/\ placed'[o] # placed[o]
           /\ At(w, "priced") /\ req'[w].pc # "priced"
           /\ wanted[req[w].browser] # Unknown)
          => placed'[o].items[v] = IF onSale[v] THEN wanted[req[w].browser][v] ELSE 0]_vars
=============================================================================
