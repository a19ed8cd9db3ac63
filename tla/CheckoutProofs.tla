--------------------------- MODULE CheckoutProofs ---------------------------
(***************************************************************************)
(* Proofs about Checkout, for every shop, number of workers and browsers.  *)
(*                                                                         *)
(* The inductive invariant says of a request what its customer is owed: if *)
(* the requests of a browser never overlapped there is one of them at most,*)
(* it holds the cart the customer left, and a cart that was priced and not *)
(* touched by staff since still costs what it was priced at.               *)
(***************************************************************************)
EXTENDS Checkout, SumFacts

\* A request and its browser; a priced one has read the settings.
RequestsOK == \A w \in Workers :
    /\ req[w].browser \in Browsers <=> req[w].pc # "idle"
    /\ req[w].pc = "priced" => req[w].rules \in Settings

\* The session row says c: it holds it, or there is no cart and c is empty.
Says(b, c) == session[b] = c \/ (session[b] = NoCart /\ c = Empty)

\* What is known of a browser whose customer is still followed.
FollowedBy(b) ==
    /\ \A v, w \in Workers : req[v].browser = b /\ req[w].browser = b => v = w
    /\ \A w \in Workers : req[w].browser = b => req[w].cart = wanted[b]
    /\ (\A w \in Workers : req[w].browser = b => req[w].pc # "modified") => Says(b, wanted[b])

Followed == \A b \in Browsers : wanted[b] # Unknown => FollowedBy(b)

\* What a cart costs at prices p of what is on sale by s.
Cost(p, s, cart) == SumFunctionOnSet([v \in Variants |-> cart[v] * p[v]],
                                     {v \in Variants : cart[v] > 0 /\ s[v]})

\* The terms of a request that were set by what its cart costs.
TermsOf(r, cost) ==
    /\ cost >= r.rules.minimum_order_amount
    /\ r.fee = Fee(cost, r.rules)
    /\ r.usable <= HalfEven(cost * r.rules.max_wallet_usage_percent, 1000)

\* A price that nobody has made wrong since.
PricesHold == \A w \in Workers :
    req[w].pc = "priced" /\ ~req[w].edited => TermsOf(req[w], Cost(price, onSale, req[w].cart))

IInv == TypeOK /\ RequestsOK /\ Followed /\ PricesHold /\ FairlyCharged

-----------------------------------------------------------------------------
(* Amounts *)

LEMMA CostIsNat ==
    ASSUME NEW p \in [Variants -> Nat], NEW s, NEW cart \in Cart
    PROVE  Cost(p, s, cart) \in Nat
<1> DEFINE f == [v \in Variants |-> cart[v] * p[v]]
           S == {v \in Variants : cart[v] > 0 /\ s[v]}
<1>1. IsFiniteSet(S)
  <2>1. S \subseteq Variants
    OBVIOUS
  <2> HIDE DEF S
  <2> QED
    BY <2>1, CheckoutAssumption, FS_Subset
<1>2. ASSUME NEW v \in S PROVE f[v] \in Nat
  <2>1. v \in Variants /\ cart[v] \in Nat /\ p[v] \in Nat
    BY DEF Cart
  <2>2. cart[v] * p[v] \in Nat
    BY <2>1
  <2> QED
    BY <2>1, <2>2
<1> HIDE DEF f, S
<1>3. SumFunctionOnSet(f, S) \in Nat
  BY <1>1, <1>2, SumIsNat
<1> QED
  BY <1>3 DEF Cost, f, S

LEMMA SubtotalIsCost == \A cart : Subtotal(cart) = Cost(price, onSale, cart)
BY DEF Subtotal, LineItems, Cost

\* What costs something is something.
LEMMA CostOfItems ==
    ASSUME NEW p \in [Variants -> Nat], NEW s, NEW cart \in Cart, Cost(p, s, cart) > 0
    PROVE  \E v \in Variants : cart[v] > 0 /\ s[v]
<1> SUFFICES ASSUME {v \in Variants : cart[v] > 0 /\ s[v]} = {} PROVE FALSE
  OBVIOUS
<1>1. Cost(p, s, cart) = SumFunctionOnSet([v \in Variants |-> cart[v] * p[v]], {})
  BY DEF Cost
<1>2. Cost(p, s, cart) = 0
  BY <1>1, SumOfNothing
<1> QED
  BY <1>2

LEMMA HalfEvenBound ==
    ASSUME NEW n \in Nat
    PROVE  HalfEven(n, 1000) \in Nat /\ 2000 * HalfEven(n, 1000) <= 2 * n + 1000
<1> DEFINE q == n \div 1000
           r == n % 1000
<1>1. q \in Nat /\ r \in 0..999 /\ n = 1000 * q + r
  OBVIOUS
<1>2. HalfEven(n, 1000) = IF 2 * r > 1000 \/ (2 * r = 1000 /\ q % 2 = 1) THEN q + 1 ELSE q
  BY DEF HalfEven
<1> HIDE DEF q, r
<1> QED
  BY <1>1, <1>2

LEMMA MinOfNat ==
    ASSUME NEW a \in Nat, NEW b \in Nat
    PROVE  MinOf(a, b) \in Nat /\ MinOf(a, b) <= a /\ MinOf(a, b) <= b
BY DEF MinOf

LEMMA SettingsType ==
    \A s \in Settings : /\ s.minimum_order_amount \in Nat
                        /\ s.free_delivery_minimum \in Nat
                        /\ s.delivery_charge \in Nat
                        /\ s.max_wallet_usage_percent \in Nat
BY CheckoutAssumption

\* What CheckoutPrice reads.
LEMMA TermsType ==
    ASSUME NEW cost \in Nat, NEW s \in Settings, NEW balance \in Balances
    PROVE  /\ Fee(cost, s) \in Nat
           /\ Usable(balance, cost, s) \in Nat
           /\ Usable(balance, cost, s) <= HalfEven(cost * s.max_wallet_usage_percent, 1000)
<1>1. s.delivery_charge \in Nat /\ s.max_wallet_usage_percent \in Nat /\ balance \in Nat
  BY SettingsType, CheckoutAssumption
<1>2. cost * s.max_wallet_usage_percent \in Nat
  BY <1>1
<1> DEFINE n == cost * s.max_wallet_usage_percent
<1> HIDE DEF n
<1>3. HalfEven(n, 1000) \in Nat
  BY <1>2, HalfEvenBound DEF n
<1>4. Usable(balance, cost, s) = MinOf(balance, HalfEven(n, 1000))
  BY DEF Usable, n
<1>5. /\ MinOf(balance, HalfEven(n, 1000)) \in Nat
      /\ MinOf(balance, HalfEven(n, 1000)) <= HalfEven(n, 1000)
  BY <1>1, <1>3, MinOfNat
<1> QED
  BY <1>1, <1>4, <1>5 DEF Fee, n

-----------------------------------------------------------------------------
(* Types *)

LEMMA CartTypes ==
    /\ Empty \in Cart
    /\ NoRequest \in Request
    /\ NotPlaced \in OrderRow
<1>1. Empty \in Cart
  BY DEF Empty, Cart
<1>2. NoRequest \in Request
  BY <1>1 DEF NoRequest, Request
<1>3. NotPlaced \in OrderRow
  BY <1>1 DEF NotPlaced, OrderRow, NoRules
<1> QED
  BY <1>1, <1>2, <1>3

\* A request that ends leaves nothing behind, one that goes on stays a request.
LEMMA RequestType ==
    ASSUME TypeOK, NEW w \in Workers, NEW r \in Request, req' = [req EXCEPT ![w] = r]
    PROVE  req' \in [Workers -> Request]
BY DEF TypeOK

LEMMA MeansType ==
    ASSUME TypeOK, NEW b, NEW cart \in Cart \cup {Unknown}, Means(b, cart)
    PROVE  wanted' \in [Browsers -> Cart \cup {Unknown}]
BY DEF TypeOK, Means

LEMMA EntryType == \A n \in Int : Entry(n) \in Nat
BY DEF Entry

LEMMA LoadType ==
    ASSUME TypeOK, NEW w \in Workers, NEW b \in Browsers, Load(w, b)
    PROVE  TypeOK'
<1> DEFINE cart == IF session[b] = NoCart THEN Empty ELSE session[b]
           r == [NoRequest EXCEPT !.pc = "loaded", !.browser = b, !.cart = cart,
                                  !.new = session[b] = NoCart]
<1>1. cart \in Cart
  <2>1. session[b] \in Cart \cup {NoCart} /\ Empty \in Cart
    BY CartTypes DEF TypeOK, Empty, Cart
  <2> QED
    BY <2>1
<1>2. r \in Request
  <2> HIDE DEF cart
  <2> QED
    BY <1>1 DEF NoRequest, Request
<1>3. req' = [req EXCEPT ![w] = r]
  BY DEF Load
<1> HIDE DEF r
<1>4. req' \in [Workers -> Request]
  BY <1>2, <1>3, RequestType
<1>5. wanted' \in [Browsers -> Cart \cup {Unknown}]
  BY DEF Load, TypeOK
<1> QED
  BY <1>4, <1>5 DEF Load, catalog, TypeOK

\* A request that is over: its response, or its death.
LEMMA EndType ==
    ASSUME TypeOK, NEW w \in Workers, Done(w) \/ Save(w) \/ Die(w)
    PROVE  TypeOK'
<1>1. req' = [req EXCEPT ![w] = NoRequest]
  BY DEF Done, Save, Die
<1>2. req' \in [Workers -> Request]
  BY <1>1, RequestType, CartTypes
<1>3. session' \in [Browsers -> Cart \cup {NoCart}]
  <2>1. req[w].cart \in Cart
    BY DEF TypeOK, Request
  <2> QED
    BY <2>1 DEF Done, Save, Die, TypeOK
<1>4. wanted' \in [Browsers -> Cart \cup {Unknown}]
  BY DEF Done, Save, Die, TypeOK
<1> QED
  BY <1>2, <1>3, <1>4 DEF Done, Save, Die, catalog, TypeOK

LEMMA ChangeType ==
    ASSUME TypeOK, NEW w \in Workers, NEW v \in Variants, NEW n \in Nat, Change(w, v, n),
           NEW cart \in Cart \cup {Unknown}, Means(req[w].browser, cart)
    PROVE  TypeOK'
<1> DEFINE r == [req[w] EXCEPT !.pc = "modified", !.cart[v] = n]
<1>1. r \in Request
  <2>1. req[w] \in Request /\ [req[w].cart EXCEPT ![v] = n] \in Cart
    BY DEF TypeOK, Request, Cart
  <2> QED
    BY <2>1 DEF Request
<1>2. req' = [req EXCEPT ![w] = r]
  BY DEF Change
<1> HIDE DEF r
<1>3. req' \in [Workers -> Request]
  BY <1>1, <1>2, RequestType
<1> QED
  BY <1>3, MeansType DEF Change, catalog, TypeOK

LEMMA AddType ==
    ASSUME TypeOK, RequestsOK, NEW w \in Workers, NEW v \in Variants, NEW q \in Int,
           Add(w, v, q) \/ (At(w, "loaded") /\ SetQuantity(w, v, q))
    PROVE  TypeOK'
<1> DEFINE b == req[w].browser
<1>1. b \in Browsers /\ req[w].cart \in Cart /\ wanted[b] \in Cart \cup {Unknown}
  BY DEF RequestsOK, TypeOK, Request, Add, SetQuantity, At
<1>2. req[w].cart[v] + q \in Int
  BY <1>1 DEF Cart
<1>3. CASE Add(w, v, q)
  <2> DEFINE cart == [wanted[b] EXCEPT ![v] = IF @ + q <= 0 THEN 0 ELSE @ + q]
  <2>1. Change(w, v, Entry(req[w].cart[v] + q)) /\ Means(b, cart)
    BY <1>3 DEF Add
  <2>2. CASE wanted[b] # Unknown
    <3>1. cart \in Cart
      BY <1>1, <2>2 DEF Cart
    <3> HIDE DEF cart, b
    <3> QED
      BY <1>2, <2>1, <3>1, EntryType, ChangeType DEF b
  <2>3. CASE wanted[b] = Unknown
    <3>1. Means(b, Unknown)
      BY <2>1, <2>3 DEF Means
    <3> HIDE DEF cart, b
    <3> QED
      BY <1>2, <2>1, <3>1, EntryType, ChangeType DEF b
  <2> QED
    BY <2>2, <2>3
<1>4. CASE SetQuantity(w, v, q)
  <2> DEFINE cart == [wanted[b] EXCEPT ![v] = IF q <= 0 THEN 0 ELSE q]
  <2>1. Change(w, v, Entry(q)) /\ Means(b, cart)
    BY <1>4 DEF SetQuantity
  <2>2. CASE wanted[b] # Unknown
    <3>1. cart \in Cart
      BY <1>1, <2>2 DEF Cart
    <3> HIDE DEF cart, b
    <3> QED
      BY <2>1, <3>1, EntryType, ChangeType DEF b
  <2>3. CASE wanted[b] = Unknown
    <3>1. Means(b, Unknown)
      BY <2>1, <2>3 DEF Means
    <3> HIDE DEF cart, b
    <3> QED
      BY <2>1, <3>1, EntryType, ChangeType DEF b
  <2> QED
    BY <2>2, <2>3
<1> QED
  BY <1>3, <1>4

LEMMA CheckoutCartType ==
    ASSUME TypeOK, NEW w \in Workers, CheckoutCart(w) \/ CheckoutEmpty(w)
    PROVE  TypeOK'
<1>1. PICK r \in {[req[w] EXCEPT !.pc = "filled"], [req[w] EXCEPT !.pc = "modified"], NoRequest} :
         req' = [req EXCEPT ![w] = r]
  BY DEF CheckoutCart, CheckoutEmpty
<1>2. r \in Request
  <2>1. req[w] \in Request
    BY DEF TypeOK
  <2> QED
    BY <1>1, <2>1, CartTypes DEF Request
<1>3. req' \in [Workers -> Request]
  BY <1>1, <1>2, RequestType
<1> QED
  BY <1>3 DEF CheckoutCart, CheckoutEmpty, catalog, TypeOK

LEMMA CostNow ==
    ASSUME TypeOK, NEW cart \in Cart
    PROVE  Cost(price, onSale, cart) \in Nat /\ Subtotal(cart) = Cost(price, onSale, cart)
BY CostIsNat, SubtotalIsCost DEF TypeOK

\* What a request has become when its cart is priced.
PricedAs(r, balance, cost) ==
    [r EXCEPT !.pc = "priced", !.rules = settings, !.usable = Usable(balance, cost, settings),
              !.fee = Fee(cost, settings)]

LEMMA CheckoutPriceIs ==
    ASSUME TypeOK, NEW w \in Workers, NEW balance \in Balances, CheckoutPrice(w, balance)
    PROVE  LET cost == Cost(price, onSale, req[w].cart) IN
           /\ cost \in Nat /\ cost >= settings.minimum_order_amount
           /\ req' = [req EXCEPT ![w] = PricedAs(req[w], balance, cost)]
           /\ PricedAs(req[w], balance, cost) \in Request
<1> DEFINE cost == Cost(price, onSale, req[w].cart)
<1>1. req[w] \in Request /\ req[w].cart \in Cart /\ settings \in Settings
  BY DEF TypeOK, Request
<1>2. cost \in Nat /\ Subtotal(req[w].cart) = cost
  BY <1>1, CostNow
<1> HIDE DEF cost
<1>3. Usable(balance, cost, settings) \in Nat /\ Fee(cost, settings) \in Nat
  BY <1>1, <1>2, TermsType
<1>4. req' = [req EXCEPT ![w] = PricedAs(req[w], balance, cost)]
  BY <1>2 DEF CheckoutPrice, PricedAs
<1>5. PricedAs(req[w], balance, cost) \in Request
  BY <1>1, <1>3 DEF PricedAs, Request
<1>6. cost >= settings.minimum_order_amount
  BY <1>2 DEF CheckoutPrice
<1> QED
  BY <1>2, <1>4, <1>5, <1>6 DEF cost

LEMMA CheckoutPriceType ==
    ASSUME TypeOK, NEW w \in Workers, NEW balance \in Balances, CheckoutPrice(w, balance)
    PROVE  TypeOK'
<1>1. req' \in [Workers -> Request]
  BY CheckoutPriceIs, RequestType
<1> QED
  BY <1>1 DEF CheckoutPrice, catalog, TypeOK

\* The order of a priced request.
LEMMA CreatedIs ==
    ASSUME TypeOK, NEW r \in Request
    PROVE  LET cost == Cost(price, onSale, r.cart) IN
           /\ cost \in Nat
           /\ Created(r) \in OrderRow
           /\ Created(r).total = cost
           /\ Created(r).fee = r.fee /\ Created(r).rules = r.rules
           /\ Created(r).edited = r.edited
           /\ Created(r).used <= cost + r.fee /\ Created(r).used <= r.usable
           /\ \A v \in Variants : Created(r).items[v] = IF onSale[v] THEN r.cart[v] ELSE 0
<1> DEFINE cost == Cost(price, onSale, r.cart)
           items == [v \in Variants |-> IF v \in LineItems(r.cart) THEN r.cart[v] ELSE 0]
           used == Spend(r, cost)
<1>1. r.cart \in Cart /\ r.fee \in Nat /\ r.usable \in Nat /\ r.rules \in Settings \cup {NoRules}
        /\ r.edited \in BOOLEAN
  BY DEF Request
<1>2. cost \in Nat /\ Subtotal(r.cart) = cost
  BY <1>1, CostNow
<1>3. items \in Cart /\ \A v \in Variants : items[v] = IF onSale[v] THEN r.cart[v] ELSE 0
  <2>1. \A v \in Variants : r.cart[v] \in Nat
    BY <1>1 DEF Cart
  <2> QED
    BY <2>1 DEF LineItems, Cart
<1> HIDE DEF cost
<1>4. used \in Nat /\ used <= cost + r.fee /\ used <= r.usable
  BY <1>1, <1>2 DEF Spend, MinOf
<1>5. Created(r) = [placed |-> TRUE, rules |-> r.rules, edited |-> r.edited, items |-> items,
                    total |-> cost, fee |-> r.fee, used |-> used]
  BY <1>2 DEF Created
<1> HIDE DEF items, used
<1>6. Created(r) \in OrderRow
  BY <1>1, <1>2, <1>3, <1>4, <1>5 DEF OrderRow
<1> QED
  BY <1>2, <1>3, <1>4, <1>5, <1>6 DEF cost

LEMMA CheckoutPlaceType ==
    ASSUME TypeOK, RequestsOK, NEW w \in Workers, NEW o \in Orders, CheckoutPlace(w, o)
    PROVE  TypeOK'
<1> DEFINE r == [NoRequest EXCEPT !.pc = "modified", !.browser = req[w].browser]
<1>1. req[w] \in Request
  BY DEF TypeOK
<1>2. r \in Request
  <2>1. req[w].browser \in Browsers \cup {NoOne}
    BY <1>1 DEF Request
  <2> QED
    BY <2>1, CartTypes DEF NoRequest, Request
<1>3. req' = [req EXCEPT ![w] = r]
  BY DEF CheckoutPlace
<1> HIDE DEF r
<1>4. req' \in [Workers -> Request]
  BY <1>2, <1>3, RequestType
<1>5. placed' \in [Orders -> OrderRow]
  BY <1>1, CreatedIs DEF CheckoutPlace, TypeOK
<1>6. wanted' \in [Browsers -> Cart \cup {Unknown}]
  BY CartTypes, MeansType DEF CheckoutPlace
<1> QED
  BY <1>4, <1>5, <1>6 DEF CheckoutPlace, catalog, TypeOK

LEMMA StaffType == ASSUME TypeOK, Staff PROVE TypeOK'
<1>1. ASSUME Noticed PROVE req' \in [Workers -> Request]
  <2>1. \A w \in Workers : [req[w] EXCEPT !.edited = TRUE] \in Request
    <3>1. ASSUME NEW r \in Request PROVE [r EXCEPT !.edited = TRUE] \in Request
      BY DEF Request
    <3>2. \A w \in Workers : req[w] \in Request
      BY DEF TypeOK
    <3> QED
      BY <3>1, <3>2
  <2> QED
    BY <1>1, <2>1 DEF Noticed, TypeOK
<1>2. ASSUME NEW v \in Variants, Toggle(v) PROVE TypeOK'
  BY <1>1, <1>2 DEF Toggle, TypeOK
<1>3. ASSUME NEW v \in Variants, NEW p \in Prices[v], SetPrice(v, p) PROVE TypeOK'
  <2>1. p \in Nat
    BY CheckoutAssumption
  <2> QED
    BY <1>1, <1>3, <2>1 DEF SetPrice, TypeOK
<1>4. ASSUME NEW s \in Settings, SaveSettings(s) PROVE TypeOK'
  BY <1>4 DEF SaveSettings, TypeOK
<1> QED
  BY <1>2, <1>3, <1>4 DEF Staff

LEMMA TypeStep == ASSUME TypeOK, RequestsOK, Next PROVE TypeOK'
<1>1. ASSUME NEW w \in Workers, Step(w) PROVE TypeOK'
  <2>1. ASSUME NEW v \in Variants, NEW q \in Steps, Add(w, v, q) PROVE TypeOK'
    BY <2>1, AddType, CheckoutAssumption
  <2>2. ASSUME NEW v \in Variants, NEW q \in Counts, SetQuantity(w, v, q) PROVE TypeOK'
    BY <2>2, AddType, CheckoutAssumption DEF SetQuantity
  <2>3. ASSUME Done(w) \/ Save(w) \/ Die(w) PROVE TypeOK'
    BY <2>3, EndType
  <2> QED
    BY <1>1, <2>1, <2>2, <2>3, LoadType, CheckoutCartType, CheckoutPriceType,
       CheckoutPlaceType
       DEF Step, AddGone, CheckoutPage, CheckoutSmall, CheckoutNowhere
<1> QED
  BY <1>1, StaffType DEF Next

-----------------------------------------------------------------------------
(* Prices and orders *)

\* A step of a worker changes its own request; it is priced only by CheckoutPrice.
LEMMA WorkerMoves ==
    ASSUME TypeOK, RequestsOK, NEW w \in Workers, Step(w)
    PROVE  /\ UNCHANGED catalog
           /\ \E r : /\ req' = [req EXCEPT ![w] = r]
                     /\ r.browser \in Browsers <=> r.pc # "idle"
                     /\ r.pc = "priced" =>
                           r.rules \in Settings /\ TermsOf(r, Cost(price, onSale, r.cart))
<1> DEFINE Good(r) == /\ req' = [req EXCEPT ![w] = r]
                      /\ r.browser \in Browsers <=> r.pc # "idle"
                      /\ r.pc = "priced" =>
                            r.rules \in Settings /\ TermsOf(r, Cost(price, onSale, r.cart))
<1>1. req[w] \in Request /\ NoOne \notin Browsers
  BY CheckoutAssumption DEF TypeOK
<1>2. (req[w].browser \in Browsers) <=> (req[w].pc # "idle")
  BY DEF RequestsOK
<1>3. ASSUME NEW r, req' = [req EXCEPT ![w] = r], r.pc # "priced",
             (r.browser \in Browsers) <=> (r.pc # "idle")
      PROVE  \E s : Good(s)
  BY <1>3
<1>4. ASSUME NEW r, req' = [req EXCEPT ![w] = r], r.pc # "priced", r.pc # "idle",
             r.browser = req[w].browser, req[w].pc # "idle"
      PROVE  \E s : Good(s)
  BY <1>2, <1>3, <1>4
<1>5. ASSUME Done(w) \/ Save(w) \/ Die(w) PROVE \E s : Good(s)
  <2>1. req' = [req EXCEPT ![w] = NoRequest] /\ NoRequest.pc = "idle" /\ NoRequest.browser = NoOne
    BY <1>5 DEF Done, Save, Die, NoRequest
  <2> QED
    BY <1>1, <1>3, <2>1
<1>6. ASSUME NEW b \in Browsers, Load(w, b) PROVE \E s : Good(s)
  <2> DEFINE r == [NoRequest EXCEPT !.pc = "loaded", !.browser = b,
                      !.cart = IF session[b] = NoCart THEN Empty ELSE session[b],
                      !.new = session[b] = NoCart]
  <2>1. req' = [req EXCEPT ![w] = r] /\ r.pc = "loaded" /\ r.browser = b
    BY <1>6 DEF Load, NoRequest
  <2> HIDE DEF r
  <2> QED
    BY <1>3, <2>1
<1>7. ASSUME NEW v \in Variants, NEW n, Change(w, v, n), At(w, "loaded") PROVE \E s : Good(s)
  <2> DEFINE r == [req[w] EXCEPT !.pc = "modified", !.cart[v] = n]
  <2>1. /\ req' = [req EXCEPT ![w] = r] /\ r.pc = "modified" /\ r.browser = req[w].browser
        /\ req[w].pc = "loaded"
    BY <1>1, <1>7 DEF Change, At, Request
  <2> HIDE DEF r
  <2> QED
    BY <1>4, <2>1
<1>8. ASSUME CheckoutCart(w) \/ CheckoutEmpty(w) PROVE \E s : Good(s)
  <2>1. CASE req' = [req EXCEPT ![w] = NoRequest]
    <3>1. NoRequest.pc = "idle" /\ NoRequest.browser = NoOne
      BY DEF NoRequest
    <3> QED
      BY <1>1, <1>3, <2>1, <3>1
  <2>2. ASSUME NEW p \in {"filled", "modified"}, req' = [req EXCEPT ![w] = [@ EXCEPT !.pc = p]]
        PROVE  \E s : Good(s)
    <3> DEFINE r == [req[w] EXCEPT !.pc = p]
    <3>1. /\ req' = [req EXCEPT ![w] = r] /\ r.pc = p /\ r.browser = req[w].browser
          /\ req[w].pc = "loaded"
      BY <1>1, <1>8, <2>2 DEF CheckoutCart, CheckoutEmpty, At, Request
    <3> HIDE DEF r
    <3> QED
      BY <1>4, <3>1
  <2> QED
    BY <1>8, <2>1, <2>2 DEF CheckoutCart, CheckoutEmpty
<1>9. ASSUME NEW balance \in Balances, CheckoutPrice(w, balance) PROVE \E s : Good(s)
  <2> DEFINE cost == Cost(price, onSale, req[w].cart)
             r == PricedAs(req[w], balance, cost)
  <2>1. /\ cost \in Nat /\ cost >= settings.minimum_order_amount
        /\ req' = [req EXCEPT ![w] = r]
    BY <1>9, CheckoutPriceIs
  <2>2. /\ settings \in Settings /\ req[w].pc = "filled"
    BY <1>9 DEF CheckoutPrice, At, TypeOK
  <2>3. /\ r.pc = "priced" /\ r.browser = req[w].browser /\ r.cart = req[w].cart
        /\ r.rules = settings /\ r.fee = Fee(cost, settings)
        /\ r.usable = Usable(balance, cost, settings)
    BY <1>1 DEF PricedAs, Request
  <2> HIDE DEF cost, r
  <2>4. TermsOf(r, cost)
    BY <2>1, <2>2, <2>3, TermsType DEF TermsOf
  <2>5. Cost(price, onSale, r.cart) = cost
    BY <2>3 DEF cost
  <2>6. (r.browser \in Browsers) <=> (r.pc # "idle")
    BY <1>2, <2>2, <2>3
  <2>7. Good(r)
    BY <2>1, <2>2, <2>3, <2>4, <2>5, <2>6
  <2> QED
    BY <2>7
<1>10. ASSUME NEW o \in Orders, CheckoutPlace(w, o) PROVE \E s : Good(s)
  <2> DEFINE r == [NoRequest EXCEPT !.pc = "modified", !.browser = req[w].browser]
  <2>1. /\ req' = [req EXCEPT ![w] = r] /\ r.pc = "modified" /\ r.browser = req[w].browser
        /\ req[w].pc = "priced"
    BY <1>1, <1>10 DEF CheckoutPlace, At, NoRequest
  <2> HIDE DEF r
  <2> QED
    BY <1>4, <2>1
<1>11. \E s : Good(s)
  <2> HIDE DEF Good
  <2>1. ASSUME NEW v \in Variants, NEW q, Add(w, v, q) \/ SetQuantity(w, v, q)
        PROVE  \E s : Good(s)
    BY <1>7, <2>1 DEF Add, SetQuantity
  <2> QED
    BY <1>5, <1>6, <1>8, <1>9, <1>10, <2>1
       DEF Step, AddGone, CheckoutPage, CheckoutSmall, CheckoutNowhere
<1>12. UNCHANGED catalog
  BY DEF Step, Load, Add, SetQuantity, Change, AddGone, Done, CheckoutCart, CheckoutEmpty,
         CheckoutPrice, CheckoutPage, CheckoutSmall, CheckoutNowhere, CheckoutPlace, Save, Die
<1> QED
  BY <1>11, <1>12

\* Staff: whoever has priced a cart is told, unless nothing in it could change.
LEMMA StaffMoves ==
    ASSUME TypeOK, Staff
    PROVE  \A w \in Workers :
              /\ req'[w].pc = req[w].pc /\ req'[w].browser = req[w].browser
              /\ req'[w].cart = req[w].cart /\ req'[w].rules = req[w].rules
              /\ req'[w].pc = "priced" /\ ~req'[w].edited =>
                    req'[w] = req[w] /\ UNCHANGED <<price, onSale>>
<1> SUFFICES ASSUME NEW w \in Workers
             PROVE  /\ req'[w].pc = req[w].pc /\ req'[w].browser = req[w].browser
                    /\ req'[w].cart = req[w].cart /\ req'[w].rules = req[w].rules
                    /\ req'[w].pc = "priced" /\ ~req'[w].edited =>
                          req'[w] = req[w] /\ UNCHANGED <<price, onSale>>
  OBVIOUS
<1>1. req[w] \in Request
  BY DEF TypeOK
<1>2. CASE Noticed
  <2>1. CASE req[w].pc = "priced"
    <3>1. req'[w] = [req[w] EXCEPT !.edited = TRUE]
      BY <1>2, <2>1 DEF Noticed, At
    <3> QED
      BY <1>1, <3>1 DEF Request
  <2>2. CASE req[w].pc # "priced"
    <3>1. req'[w] = req[w]
      BY <1>2, <2>2 DEF Noticed, At
    <3> QED
      BY <2>2, <3>1
  <2> QED
    BY <2>1, <2>2
<1>3. CASE \E s \in Settings : SaveSettings(s)
  BY <1>3 DEF SaveSettings
<1> QED
  BY <1>2, <1>3 DEF Staff, SetPrice, Toggle

LEMMA RequestsStep == ASSUME TypeOK, RequestsOK, Next PROVE RequestsOK'
<1>1. CASE Staff
  BY <1>1, StaffMoves DEF RequestsOK
<1>2. ASSUME NEW w \in Workers, Step(w) PROVE RequestsOK'
  <2>1. PICK r : /\ req' = [req EXCEPT ![w] = r]
                 /\ (r.browser \in Browsers) <=> (r.pc # "idle")
                 /\ r.pc = "priced" => r.rules \in Settings
    BY <1>2, WorkerMoves
  <2> QED
    BY <2>1 DEF RequestsOK, TypeOK
<1> QED
  BY <1>1, <1>2 DEF Next

LEMMA PricesStep == ASSUME TypeOK, RequestsOK, PricesHold, Next PROVE PricesHold'
<1>1. CASE Staff
  <2>1. ASSUME NEW w \in Workers, req'[w].pc = "priced", ~req'[w].edited
        PROVE  TermsOf(req'[w], Cost(price', onSale', req'[w].cart))
    <3>1. req'[w] = req[w] /\ price' = price /\ onSale' = onSale
      BY <1>1, <2>1, StaffMoves
    <3>2. TermsOf(req[w], Cost(price, onSale, req[w].cart))
      BY <2>1, <3>1 DEF PricesHold
    <3> QED
      BY <3>1, <3>2
  <2> QED
    BY <2>1 DEF PricesHold, TermsOf, Fee, HalfEven
<1>2. ASSUME NEW w \in Workers, Step(w) PROVE PricesHold'
  <2>1. PICK r : /\ req' = [req EXCEPT ![w] = r]
                 /\ r.pc = "priced" => TermsOf(r, Cost(price, onSale, r.cart))
    BY <1>2, WorkerMoves
  <2>2. price' = price /\ onSale' = onSale
    BY <1>2, WorkerMoves DEF catalog
  <2>3. ASSUME NEW v \in Workers, req'[v].pc = "priced", ~req'[v].edited
        PROVE  TermsOf(req'[v], Cost(price', onSale', req'[v].cart))
    <3>1. CASE v = w
      <4>1. req'[v] = r
        BY <2>1, <3>1 DEF TypeOK
      <4> QED
        BY <2>1, <2>2, <2>3, <4>1
    <3>2. CASE v # w
      <4>1. req'[v] = req[v]
        BY <2>1, <3>2 DEF TypeOK
      <4>2. TermsOf(req[v], Cost(price, onSale, req[v].cart))
        BY <2>3, <4>1 DEF PricesHold
      <4> QED
        BY <2>2, <4>1, <4>2
    <3> QED
      BY <3>1, <3>2
  <2> QED
    BY <2>3 DEF PricesHold, TermsOf, Fee, HalfEven
<1> QED
  BY <1>1, <1>2 DEF Next

\* The body of FairlyCharged.
Fair(p) == /\ p.used <= p.total + p.fee
           /\ ~p.edited =>
                 /\ p.total >= p.rules.minimum_order_amount
                 /\ p.rules.minimum_order_amount > 0 => p.items # Empty
                 /\ p.fee = Fee(p.total, p.rules)
                 /\ 2000 * p.used <= 2 * p.total * p.rules.max_wallet_usage_percent + 1000

LEMMA CreatedIsFair ==
    ASSUME TypeOK, RequestsOK, PricesHold, NEW w \in Workers, req[w].pc = "priced"
    PROVE  Fair(Created(req[w]))
<1> DEFINE r == req[w]
           cost == Cost(price, onSale, r.cart)
           p == Created(r)
<1>1. r \in Request /\ r.rules \in Settings /\ r.cart \in Cart /\ r.fee \in Nat /\ r.usable \in Nat
  BY DEF TypeOK, RequestsOK, Request
<1>2. /\ cost \in Nat /\ p.total = cost /\ p.fee = r.fee /\ p.rules = r.rules
      /\ p.edited = r.edited /\ p.used <= cost + r.fee /\ p.used <= r.usable /\ p.used \in Nat
      /\ \A v \in Variants : p.items[v] = IF onSale[v] THEN r.cart[v] ELSE 0
  <2>1. p.used \in Nat
    BY <1>1, CreatedIs DEF OrderRow
  <2> QED
    BY <1>1, <2>1, CreatedIs
<1>3. ASSUME ~r.edited
      PROVE  /\ cost >= r.rules.minimum_order_amount
             /\ r.fee = Fee(cost, r.rules)
             /\ 2000 * p.used <= 2 * cost * r.rules.max_wallet_usage_percent + 1000
  <2> DEFINE n == cost * r.rules.max_wallet_usage_percent
  <2>1. r.rules.max_wallet_usage_percent \in Nat
    BY <1>1, SettingsType
  <2>2. n \in Nat /\ 2 * cost * r.rules.max_wallet_usage_percent = 2 * n
    BY <1>2, <2>1
  <2>3. TermsOf(r, cost)
    BY <1>3 DEF PricesHold
  <2>4. r.usable <= HalfEven(n, 1000)
    BY <2>3 DEF TermsOf
  <2> HIDE DEF n
  <2>5. HalfEven(n, 1000) \in Nat /\ 2000 * HalfEven(n, 1000) <= 2 * n + 1000
    BY <2>2, HalfEvenBound
  <2> HIDE DEF r, cost, p
  <2>6. 2000 * p.used <= 2 * n + 1000
    BY <1>1, <1>2, <2>2, <2>4, <2>5
  <2> QED
    BY <2>2, <2>3, <2>6 DEF TermsOf
<1>4. ASSUME ~r.edited, r.rules.minimum_order_amount > 0 PROVE p.items # Empty
  <2>1. cost > 0
    BY <1>1, <1>2, <1>3, <1>4, SettingsType
  <2>2. PICK v \in Variants : r.cart[v] > 0 /\ onSale[v]
    <3>1. price \in [Variants -> Nat]
      BY DEF TypeOK
    <3> HIDE DEF r
    <3> QED
      BY <1>1, <2>1, <3>1, CostOfItems
  <2>3. p.items[v] # 0
    BY <1>2, <2>2
  <2> HIDE DEF p
  <2> QED
    BY <2>3 DEF Empty
<1> HIDE DEF r, cost, p
<1>5. Fair(p)
  BY <1>2, <1>3, <1>4 DEF Fair
<1> QED
  BY <1>5 DEF p, r

LEMMA FairStep ==
    ASSUME TypeOK, RequestsOK, PricesHold, FairlyCharged, Next
    PROVE  FairlyCharged'
<1>1. \A o \in Orders : placed[o].placed => Fair(placed[o])
  BY DEF FairlyCharged, Placed, Fair
<1>2. ASSUME NEW o \in Orders, placed'[o].placed PROVE Fair(placed'[o])
  <2>1. CASE placed'[o] = placed[o]
    BY <1>1, <1>2, <2>1
  <2>2. ASSUME NEW w \in Workers, NEW q \in Orders, CheckoutPlace(w, q), placed'[o] # placed[o]
        PROVE  Fair(placed'[o])
    <3>1. placed'[o] = Created(req[w]) /\ req[w].pc = "priced"
      BY <2>2 DEF CheckoutPlace, At, TypeOK
    <3> QED
      BY <3>1, CreatedIsFair
  <2>3. ASSUME NEW w \in Workers, Step(w)
        PROVE  placed' = placed \/ \E q \in Orders : CheckoutPlace(w, q)
    BY <2>3 DEF Step, Load, Add, SetQuantity, Change, AddGone, Done, CheckoutCart,
           CheckoutEmpty, CheckoutPrice, CheckoutPage, CheckoutSmall, CheckoutNowhere, Save, Die
  <2>4. Staff => placed' = placed
    BY DEF Staff, Toggle, SetPrice, SaveSettings
  <2> QED
    BY <2>1, <2>2, <2>3, <2>4 DEF Next
<1>3. \A o \in Orders : placed'[o].placed => Fair(placed'[o])
  BY <1>2
<1> QED
  BY <1>3 DEF FairlyCharged, Placed, Fair, Fee

-----------------------------------------------------------------------------
(* The carts of the customers who are followed *)

\* What a step of w does to the browser b it serves: the request is over, goes on with
\* its cart, or has changed the cart as the customer meant.
OwnMove(w, b) ==
    \/ /\ req'[w].browser \notin Browsers
       /\ wanted'[b] = wanted[b]
       /\ \/ req[w].pc # "modified" /\ session'[b] = session[b]
          \/ session'[b] = req[w].cart
    \/ /\ req'[w].browser = b /\ req'[w].cart = req[w].cart
       /\ wanted'[b] = wanted[b] /\ session'[b] = session[b] /\ req[w].pc # "modified"
    \/ /\ req'[w].browser = b /\ req'[w].pc = "modified"
       /\ req[w].cart = wanted[b] => req'[w].cart = wanted'[b]

LEMMA OwnMoves ==
    ASSUME TypeOK, RequestsOK, NEW w \in Workers, Step(w), req[w].pc # "idle",
           wanted'[req[w].browser] # Unknown
    PROVE  wanted[req[w].browser] # Unknown /\ OwnMove(w, req[w].browser)
<1> DEFINE b == req[w].browser
<1>1. /\ b \in Browsers /\ NoOne \notin Browsers /\ req \in [Workers -> Request]
      /\ req[w] \in Request /\ wanted \in [Browsers -> Cart \cup {Unknown}]
      /\ session \in [Browsers -> Cart \cup {NoCart}]
  BY CheckoutAssumption DEF RequestsOK, TypeOK
<1>2. NoRequest.browser = NoOne /\ NoRequest.cart = Empty
  BY DEF NoRequest
<1>3. ASSUME Done(w), req[w].pc # "modified" PROVE wanted[b] # Unknown /\ OwnMove(w, b)
  BY <1>1, <1>2, <1>3 DEF Done, OwnMove
<1>4. ASSUME Save(w) PROVE wanted[b] # Unknown /\ OwnMove(w, b)
  BY <1>1, <1>2, <1>4 DEF Save, OwnMove
<1>5. ASSUME Die(w) PROVE FALSE
  BY <1>1, <1>5 DEF Die
<1>6. ASSUME NEW v \in Variants, NEW q, Add(w, v, q) PROVE wanted[b] # Unknown /\ OwnMove(w, b)
  <2>1. /\ req'[w] = [req[w] EXCEPT !.pc = "modified", !.cart[v] = Entry(req[w].cart[v] + q)]
        /\ wanted'[b] = IF wanted[b] = Unknown THEN Unknown
                        ELSE [wanted[b] EXCEPT ![v] = IF @ + q <= 0 THEN 0 ELSE @ + q]
    BY <1>1, <1>6 DEF Add, Change, Means
  <2>2. /\ req'[w].pc = "modified" /\ req'[w].browser = b
        /\ req'[w].cart = [req[w].cart EXCEPT ![v] = Entry(req[w].cart[v] + q)]
    BY <1>1, <2>1 DEF Request
  <2> HIDE DEF b
  <2> QED
    BY <2>1, <2>2 DEF OwnMove, Entry, b
<1>7. ASSUME NEW v \in Variants, NEW q, SetQuantity(w, v, q)
      PROVE  wanted[b] # Unknown /\ OwnMove(w, b)
  <2>1. /\ req'[w] = [req[w] EXCEPT !.pc = "modified", !.cart[v] = Entry(q)]
        /\ wanted'[b] = IF wanted[b] = Unknown THEN Unknown
                        ELSE [wanted[b] EXCEPT ![v] = IF q <= 0 THEN 0 ELSE q]
    BY <1>1, <1>7 DEF SetQuantity, Change, Means
  <2>2. /\ req'[w].pc = "modified" /\ req'[w].browser = b
        /\ req'[w].cart = [req[w].cart EXCEPT ![v] = Entry(q)]
    BY <1>1, <2>1 DEF Request
  <2> HIDE DEF b
  <2> QED
    BY <2>1, <2>2 DEF OwnMove, Entry, b
<1>8. ASSUME CheckoutCart(w) \/ CheckoutEmpty(w) PROVE wanted[b] # Unknown /\ OwnMove(w, b)
  <2>1. /\ wanted' = wanted /\ session' = session /\ req[w].pc = "loaded"
        /\ req'[w] \in {NoRequest, [req[w] EXCEPT !.pc = "filled"],
                        [req[w] EXCEPT !.pc = "modified"]}
    BY <1>1, <1>8 DEF CheckoutCart, CheckoutEmpty, At
  <2>2. \A p : [req[w] EXCEPT !.pc = p].browser = b /\ [req[w] EXCEPT !.pc = p].cart = req[w].cart
    BY <1>1 DEF Request
  <2> QED
    BY <1>1, <1>2, <2>1, <2>2 DEF OwnMove
<1>9. ASSUME NEW balance \in Balances, CheckoutPrice(w, balance)
      PROVE  wanted[b] # Unknown /\ OwnMove(w, b)
  <2>1. req'[w] = PricedAs(req[w], balance, Cost(price, onSale, req[w].cart))
    BY <1>1, <1>9, CheckoutPriceIs
  <2>2. \A c : PricedAs(req[w], balance, c).browser = b /\ PricedAs(req[w], balance, c).cart = req[w].cart
    BY <1>1 DEF PricedAs, Request
  <2>3. wanted' = wanted /\ session' = session /\ req[w].pc = "filled"
    BY <1>9 DEF CheckoutPrice, At
  <2> QED
    BY <2>1, <2>2, <2>3 DEF OwnMove
<1>10. ASSUME NEW o \in Orders, CheckoutPlace(w, o) PROVE wanted[b] # Unknown /\ OwnMove(w, b)
  <2>1. /\ req'[w] = [NoRequest EXCEPT !.pc = "modified", !.browser = b]
        /\ wanted'[b] = IF wanted[b] = Unknown THEN Unknown ELSE Empty
    BY <1>1, <1>10 DEF CheckoutPlace, Means
  <2>2. req'[w].pc = "modified" /\ req'[w].browser = b /\ req'[w].cart = Empty
    BY <2>1 DEF NoRequest
  <2> HIDE DEF b
  <2> QED
    BY <2>1, <2>2 DEF OwnMove, b
<1>11. ASSUME NEW c \in Browsers, Load(w, c) PROVE FALSE
  BY <1>11 DEF Load, At
<1> HIDE DEF b
<1>12. wanted[b] # Unknown /\ OwnMove(w, b)
  BY <1>3, <1>4, <1>5, <1>6, <1>7, <1>8, <1>9, <1>10, <1>11
     DEF Step, AddGone, CheckoutPage, CheckoutSmall, CheckoutNowhere, At
<1> QED
  BY <1>12 DEF b

\* The other browsers are left alone.
LEMMA OtherBrowsers ==
    ASSUME TypeOK, RequestsOK, NEW w \in Workers, Step(w), NEW c \in Browsers, req[w].browser # c
    PROVE  \/ Load(w, c)
           \/ session'[c] = session[c] /\ wanted'[c] = wanted[c] /\ req'[w].browser # c
<1>1. /\ NoOne \notin Browsers /\ req \in [Workers -> Request] /\ req[w] \in Request
      /\ wanted \in [Browsers -> Cart \cup {Unknown}]
      /\ session \in [Browsers -> Cart \cup {NoCart}]
  BY CheckoutAssumption DEF TypeOK
<1>2. session'[c] = session[c] /\ (wanted'[c] = wanted[c] \/ Load(w, c))
  <2>1. ASSUME NEW d \in Browsers, Load(w, d)
        PROVE  session'[c] = session[c] /\ (wanted'[c] = wanted[c] \/ Load(w, c))
    BY <1>1, <2>1 DEF Load
  <2>2. ASSUME NEW v \in Variants, NEW q, Add(w, v, q) \/ SetQuantity(w, v, q)
        PROVE  session'[c] = session[c] /\ wanted'[c] = wanted[c]
    BY <1>1, <2>2 DEF Add, SetQuantity, Change, Means
  <2>3. ASSUME NEW o \in Orders, CheckoutPlace(w, o)
        PROVE  session'[c] = session[c] /\ wanted'[c] = wanted[c]
    BY <1>1, <2>3 DEF CheckoutPlace, Means
  <2>4. ASSUME Done(w) \/ Save(w) \/ Die(w)
        PROVE  session'[c] = session[c] /\ wanted'[c] = wanted[c]
    BY <1>1, <2>4 DEF Done, Save, Die
  <2>5. ASSUME \/ CheckoutCart(w) \/ CheckoutEmpty(w)
               \/ \E balance \in Balances : CheckoutPrice(w, balance)
        PROVE  session'[c] = session[c] /\ wanted'[c] = wanted[c]
    BY <2>5 DEF CheckoutCart, CheckoutEmpty, CheckoutPrice
  <2> QED
    BY <2>1, <2>2, <2>3, <2>4, <2>5
       DEF Step, AddGone, CheckoutPage, CheckoutSmall, CheckoutNowhere
<1>3. req'[w].browser # c \/ Load(w, c)
  <2>1. ASSUME NEW d \in Browsers, Load(w, d), d # c PROVE req'[w].browser # c
    BY <1>1, <2>1 DEF Load, NoRequest
  <2>2. ASSUME NEW v \in Variants, NEW n, Change(w, v, n) PROVE req'[w].browser # c
    BY <1>1, <2>2 DEF Change, Request
  <2>3. ASSUME NEW o \in Orders, CheckoutPlace(w, o) PROVE req'[w].browser # c
    BY <1>1, <2>3 DEF CheckoutPlace, NoRequest
  <2>4. ASSUME Done(w) \/ Save(w) \/ Die(w) PROVE req'[w].browser # c
    BY <1>1, <2>4 DEF Done, Save, Die, NoRequest
  <2>5. ASSUME CheckoutCart(w) \/ CheckoutEmpty(w) PROVE req'[w].browser # c
    <3>1. \A p : [req[w] EXCEPT !.pc = p].browser = req[w].browser
      BY <1>1 DEF Request
    <3>2. \/ req'[w] = NoRequest
          \/ req'[w] = [req[w] EXCEPT !.pc = "filled"]
          \/ req'[w] = [req[w] EXCEPT !.pc = "modified"]
      BY <1>1, <2>5 DEF CheckoutCart, CheckoutEmpty
    <3>3. NoRequest.browser # c
      BY <1>1 DEF NoRequest
    <3> QED
      BY <3>1, <3>2, <3>3
  <2>6. ASSUME NEW balance \in Balances, CheckoutPrice(w, balance) PROVE req'[w].browser # c
    BY <1>1, <2>6 DEF CheckoutPrice, Request
  <2> QED
    BY <2>1, <2>2, <2>3, <2>4, <2>5, <2>6
       DEF Step, Add, SetQuantity, AddGone, CheckoutPage, CheckoutSmall, CheckoutNowhere
<1> QED
  BY <1>2, <1>3

LEMMA FollowedStep ==
    ASSUME TypeOK, RequestsOK, RequestsOK', Followed, Next
    PROVE  Followed'
<1> SUFFICES ASSUME NEW b \in Browsers, wanted'[b] # Unknown
             PROVE  /\ \A v, w \in Workers : req'[v].browser = b /\ req'[w].browser = b => v = w
                    /\ \A w \in Workers : req'[w].browser = b => req'[w].cart = wanted'[b]
                    /\ (\A w \in Workers : req'[w].browser = b => req'[w].pc # "modified")
                          => session'[b] = wanted'[b] \/ (session'[b] = NoCart /\ wanted'[b] = Empty)
  BY DEF Followed, FollowedBy, Says
<1>1. wanted[b] # Unknown => FollowedBy(b)
  BY DEF Followed
<1>2. CASE Staff
  <2>1. wanted' = wanted /\ session' = session
    BY <1>2 DEF Staff, Toggle, SetPrice, SaveSettings
  <2>2. \A w \in Workers : /\ req'[w].pc = req[w].pc /\ req'[w].browser = req[w].browser
                           /\ req'[w].cart = req[w].cart
    BY <1>2, StaffMoves
  <2> QED
    BY <1>1, <2>1, <2>2 DEF FollowedBy, Says
<1>3. ASSUME NEW w \in Workers, Step(w), req[w].browser = b
      PROVE  /\ \A u, v \in Workers : req'[u].browser = b /\ req'[v].browser = b => u = v
             /\ \A v \in Workers : req'[v].browser = b => req'[v].cart = wanted'[b]
             /\ (\A v \in Workers : req'[v].browser = b => req'[v].pc # "modified")
                   => session'[b] = wanted'[b] \/ (session'[b] = NoCart /\ wanted'[b] = Empty)
  <2>1. wanted[b] # Unknown /\ OwnMove(w, b) /\ FollowedBy(b)
    BY <1>1, <1>3, OwnMoves DEF RequestsOK
  <2>2. /\ \A v \in Workers \ {w} : req'[v] = req[v] /\ req[v].browser # b
        /\ req[w].cart = wanted[b]
        /\ req[w].pc # "modified" => session[b] = wanted[b] \/ (session[b] = NoCart /\ wanted[b] = Empty)
    <3>1. \A v \in Workers \ {w} : req[v].browser # b
      BY <1>3, <2>1 DEF FollowedBy
    <3>2. \A v \in Workers \ {w} : req'[v] = req[v]
      BY <1>3, WorkerMoves DEF TypeOK
    <3> QED
      BY <1>3, <2>1, <3>1, <3>2 DEF FollowedBy, Says
  <2> QED
    BY <2>1, <2>2 DEF OwnMove
<1>4. ASSUME NEW w \in Workers, Step(w), req[w].browser # b
      PROVE  /\ \A u, v \in Workers : req'[u].browser = b /\ req'[v].browser = b => u = v
             /\ \A v \in Workers : req'[v].browser = b => req'[v].cart = wanted'[b]
             /\ (\A v \in Workers : req'[v].browser = b => req'[v].pc # "modified")
                   => session'[b] = wanted'[b] \/ (session'[b] = NoCart /\ wanted'[b] = Empty)
  <2>1. \A v \in Workers \ {w} : req'[v] = req[v]
    BY <1>4, WorkerMoves DEF TypeOK
  <2>2. CASE Load(w, b)
    <3>1. /\ \A v \in Workers : req[v].browser # b
          /\ wanted'[b] = wanted[b] /\ session' = session
      BY <2>2 DEF Load, TypeOK
    <3>2. FollowedBy(b) /\ wanted[b] # NoCart
      BY <1>1, <3>1 DEF Unknown
    <3>3. session[b] = wanted[b] \/ (session[b] = NoCart /\ wanted[b] = Empty)
      BY <3>1, <3>2 DEF FollowedBy, Says
    <3>4. req'[w].cart = IF session[b] = NoCart THEN Empty ELSE session[b]
      BY <2>2 DEF Load, NoRequest, TypeOK
    <3>5. req'[w].cart = wanted'[b]
      BY <3>1, <3>2, <3>3, <3>4
    <3> QED
      BY <2>1, <3>1, <3>3, <3>5
  <2>3. CASE session'[b] = session[b] /\ wanted'[b] = wanted[b] /\ req'[w].browser # b
    BY <1>1, <1>4, <2>1, <2>3 DEF FollowedBy, Says
  <2> QED
    BY <1>4, <2>2, <2>3, OtherBrowsers
<1> QED
  BY <1>2, <1>3, <1>4 DEF Next

-----------------------------------------------------------------------------
(* The theorems *)

LEMMA InitIInv == Init => IInv
<1> SUFFICES ASSUME Init PROVE IInv
  OBVIOUS
<1>1. TypeOK
  <2>1. price \in [Variants -> Nat] /\ \A v \in Variants : price[v] \in Prices[v]
    BY CheckoutAssumption DEF Init
  <2>2. placed \in [Orders -> OrderRow] /\ req \in [Workers -> Request]
    BY CartTypes DEF Init
  <2>3. /\ session \in [Browsers -> Cart \cup {NoCart}]
        /\ wanted \in [Browsers -> Cart \cup {Unknown}]
    BY CartTypes DEF Init
  <2> QED
    BY <2>1, <2>2, <2>3 DEF Init, TypeOK
<1>2. /\ \A w \in Workers : req[w].pc = "idle" /\ req[w].browser = NoOne
      /\ \A o \in Orders : ~placed[o].placed
      /\ \A b \in Browsers : session[b] = NoCart /\ wanted[b] = Empty
  BY DEF Init, NoRequest, NotPlaced
<1>3. RequestsOK
  BY <1>2, CheckoutAssumption DEF RequestsOK
<1>4. Followed
  BY <1>2, CheckoutAssumption DEF Followed, FollowedBy, Says
<1>5. PricesHold /\ FairlyCharged
  BY <1>2 DEF PricesHold, FairlyCharged, Placed
<1> QED
  BY <1>1, <1>3, <1>4, <1>5 DEF IInv

LEMMA StepIInv == IInv /\ [Next]_vars => IInv'
<1> SUFFICES ASSUME IInv, [Next]_vars PROVE IInv'
  OBVIOUS
<1>1. CASE Next
  BY <1>1, TypeStep, RequestsStep, FollowedStep, PricesStep, FairStep DEF IInv
<1>2. CASE UNCHANGED vars
  <2>1. TypeOK' /\ RequestsOK'
    BY <1>2 DEF vars, catalog, IInv, TypeOK, RequestsOK
  <2>2. Followed'
    BY <1>2 DEF vars, IInv, Followed, FollowedBy, Says
  <2>3. PricesHold'
    BY <1>2 DEF vars, catalog, IInv, PricesHold
  <2>4. FairlyCharged'
    BY <1>2 DEF vars, IInv, FairlyCharged, Placed
  <2> QED
    BY <2>1, <2>2, <2>3, <2>4 DEF IInv
<1> QED
  BY <1>1, <1>2

\* IInv is an invariant of every behaviour of the shop.
THEOREM Invariance == Spec => []IInv
BY InitIInv, StepIInv, PTL DEF Spec

\* No cart, price or amount leaves its type, whatever quantities are posted.
THEOREM TypeCorrect == Spec => []TypeOK
<1>1. IInv => TypeOK
  BY DEF IInv
<1> QED
  BY <1>1, Invariance, PTL

\* However staff and other customers come between the pricing and the transaction of
\* checkout: the wallet pays no more than the order costs, and what was not edited
\* meanwhile is charged by one row of settings.
THEOREM ChargesAreFair == Spec => []FairlyCharged
<1>1. IInv => FairlyCharged
  BY DEF IInv
<1> QED
  BY <1>1, Invariance, PTL

\* The session keeps the cart of a customer whose requests never overlapped.
THEOREM CartsAreKept == Spec => []CartKept
<1>1. IInv => CartKept
  BY DEF IInv, Followed, FollowedBy, Says, CartKept
<1> QED
  BY <1>1, Invariance, PTL

\* Such a customer's order is the cart as it was left.
THEOREM OrdersAreCarts == Spec => OrderIsCart
<1> DEFINE IsCart ==
      \A o \in Orders, w \in Workers, v \in Variants :
          (/\ placed'[o] # placed[o]
           /\ At(w, "priced") /\ req'[w].pc # "priced"
           /\ wanted[req[w].browser] # Unknown)
          => placed'[o].items[v] = IF onSale[v] THEN wanted[req[w].browser][v] ELSE 0
<1>1. IInv /\ [Next]_vars => [IsCart]_vars
  <2> SUFFICES ASSUME IInv, Next, NEW o \in Orders, NEW w \in Workers, NEW v \in Variants,
                      placed'[o] # placed[o], req[w].pc = "priced", req'[w].pc # "priced",
                      wanted[req[w].browser] # Unknown
               PROVE  placed'[o].items[v] = IF onSale[v] THEN wanted[req[w].browser][v] ELSE 0
    BY DEF At
  <2>1. ~Staff
    BY DEF Staff, Toggle, SetPrice, SaveSettings
  <2>2. PICK u \in Workers : Step(u)
    BY <2>1 DEF Next
  <2>3. PICK p \in Orders : CheckoutPlace(u, p)
    BY <2>2 DEF Step, Load, Add, SetQuantity, Change, AddGone, Done, CheckoutCart,
           CheckoutEmpty, CheckoutPrice, CheckoutPage, CheckoutSmall, CheckoutNowhere, Save, Die
  <2>4. u = w
    BY <2>3 DEF CheckoutPlace, IInv, TypeOK
  <2>5. placed'[o] = Created(req[w])
    BY <2>3, <2>4 DEF CheckoutPlace, IInv, TypeOK
  <2>6. req[w] \in Request /\ req[w].browser \in Browsers
    BY DEF IInv, TypeOK, RequestsOK
  <2>7. req[w].cart = wanted[req[w].browser]
    BY <2>6 DEF IInv, Followed, FollowedBy
  <2>8. placed'[o].items[v] = IF onSale[v] THEN req[w].cart[v] ELSE 0
    BY <2>5, <2>6, CreatedIs DEF IInv
  <2> QED
    BY <2>7, <2>8
<1> QED
  BY <1>1, Invariance, PTL DEF Spec, OrderIsCart, IsCart
=============================================================================
