------------------------------ MODULE GiftSpin ------------------------------
(***************************************************************************)
(* spin_gift (orders/views.py): a customer draws one gift for a delivered  *)
(* order.  The transaction locks the order, then a random gift in stock,   *)
(* SELECT ... ORDER BY random() LIMIT 1 FOR UPDATE: Postgres sorts the     *)
(* gifts its snapshot finds eligible, waits for the lock of the first,     *)
(* tests it again as it then is, and goes on to the next if it fails - but *)
(* keeps the lock of the first to the end, so that two spins can block     *)
(* each other.  Meanwhile staff edit and delete gifts in Django admin, and *)
(* the status of the order moves on.                                       *)
(***************************************************************************)
EXTENDS Integers, FiniteSets

CONSTANTS Orders, Gifts, Workers,
          NoOne,        \* NULL; "unlocked"
          Fits,         \* Fits[o]: gifts with minimum_order_value <= grand_total of o
          FirstStock,   \* FirstStock[g]: stock_quantity when the gift is created
          Restocks,     \* what staff may add to the number they see in the form
          AdminEdits,   \* TRUE: gifts are edited while customers spin
          AdminDeletes  \* TRUE: gifts are deleted

ASSUME GiftSpinAssumption ==
    /\ NoOne \notin Orders \cup Gifts \cup Workers
    /\ IsFiniteSet(Orders)
    /\ Fits \in [Orders -> SUBSET Gifts]
    /\ FirstStock \in [Gifts -> Nat]
    /\ Restocks \subseteq Nat
    /\ AdminEdits \in BOOLEAN /\ AdminDeletes \in BOOLEAN

VARIABLES delivered,   \* delivered[o]: status = DELIVERED
          prize,       \* prize[o]: order.gift_item
          spunAt,      \* spunAt[o]: order.gift_spun_at is set
          stock,       \* stock[g]: gift.stock_quantity
          active,      \* active[g]: gift.is_active
          catalog,     \* the gifts that exist
          orderLock, giftLock,   \* rows selected FOR UPDATE, by which worker
          form,        \* form[g]: stock_quantity shown in an open admin form, or NoOne
          supplied,    \* supplied[g]: how many staff put in stock (history)
          req          \* req[w]: the spin that w serves

vars == <<delivered, prize, spunAt, stock, active, catalog, orderLock, giftLock,
          form, supplied, req>>
orderRows == <<prize, spunAt>>
giftRows  == <<stock, active, catalog, form, supplied>>

NoSpin == [pc |-> "idle", order |-> NoOne, seen |-> {}, gift |-> NoOne]

Init == /\ delivered = [o \in Orders |-> FALSE]
        /\ prize = [o \in Orders |-> NoOne]
        /\ spunAt = [o \in Orders |-> FALSE]
        /\ stock = FirstStock
        /\ active = [g \in Gifts |-> TRUE]
        /\ catalog = Gifts
        /\ orderLock = [o \in Orders |-> NoOne]
        /\ giftLock = [g \in Gifts |-> NoOne]
        /\ form = [g \in Gifts |-> NoOne]
        /\ supplied = FirstStock
        /\ req = [w \in Workers |-> NoSpin]

At(w, pc) == req[w].pc = pc

-----------------------------------------------------------------------------
(* spin_gift *)

\* Seeded fault: the stock is not asked for.
EligibleWithoutStock(g, o) == g \in catalog /\ active[g] /\ g \in Fits[o]

\* is_active, stock_quantity > 0, minimum_order_value <= grand_total.
Eligible(g, o) == g \in catalog /\ active[g] /\ stock[g] > 0 /\ g \in Fits[o]

\* Seeded fault: an earlier prize is not asked for.
MaySpinAgain(o) == delivered[o]

\* The two refusals of the view, tested under the lock.
MaySpin(o) == delivered[o] /\ prize[o] = NoOne

\* The order, FOR UPDATE; a refused spin leaves no trace.
SpinOrder(w, o) ==
    /\ At(w, "idle")
    /\ orderLock[o] = NoOne
    /\ MaySpin(o)
    /\ orderLock' = [orderLock EXCEPT ![o] = w]
    /\ req' = [req EXCEPT ![w] = [NoSpin EXCEPT !.pc = "query", !.order = o]]
    /\ UNCHANGED <<delivered, orderRows, giftRows, giftLock>>

\* The snapshot of the gift query.
SpinQuery(w) ==
    /\ At(w, "query")
    /\ req' = [req EXCEPT ![w] =
                 [pc |-> "sorted", order |-> req[w].order, gift |-> NoOne,
                  seen |-> {g \in Gifts : Eligible(g, req[w].order)}]]
    /\ UNCHANGED <<delivered, orderRows, giftRows, orderLock, giftLock>>

\* The next gift in random order ...
SpinNext(w, g) ==
    /\ At(w, "sorted")
    /\ g \in req[w].seen
    /\ req' = [req EXCEPT ![w].pc = "wait", ![w].gift = g, ![w].seen = @ \ {g}]
    /\ UNCHANGED <<delivered, orderRows, giftRows, orderLock, giftLock>>

\* Seeded fault: the locked gift is not tested again.
SpinLockNoRecheck(w) ==
    LET g == req[w].gift IN
    /\ At(w, "wait")
    /\ giftLock[g] = NoOne
    /\ giftLock' = [giftLock EXCEPT ![g] = w]
    /\ req' = [req EXCEPT ![w].pc = "won"]
    /\ UNCHANGED <<delivered, orderRows, giftRows, orderLock>>

\* Seeded fault: the gift is taken without waiting for its lock.
SpinLockNoWait(w) ==
    LET g == req[w].gift IN
    /\ At(w, "wait")
    /\ giftLock' = IF g \in catalog THEN [giftLock EXCEPT ![g] = w] ELSE giftLock
    /\ req' = [req EXCEPT ![w].pc = IF Eligible(g, req[w].order) THEN "won" ELSE "sorted"]
    /\ UNCHANGED <<delivered, orderRows, giftRows, orderLock>>

\* Seeded fault: without LIMIT 1, every gift found is locked.
SpinLockEvery(w) ==
    LET g == req[w].gift IN
    /\ At(w, "wait")
    /\ giftLock[g] = NoOne
    /\ giftLock' = IF g \in catalog THEN [giftLock EXCEPT ![g] = w] ELSE giftLock
    /\ req' = [req EXCEPT ![w].pc = IF Eligible(g, req[w].order) /\ req[w].seen = {}
                                       THEN "won" ELSE "sorted"]
    /\ UNCHANGED <<delivered, orderRows, giftRows, orderLock>>

\* ... is locked once nobody else holds it, unless it was deleted, and tested again; one
\* that fails the test is not returned, but its row stays locked.
SpinLock(w) ==
    LET g == req[w].gift IN
    /\ At(w, "wait")
    /\ giftLock[g] = NoOne
    /\ giftLock' = IF g \in catalog THEN [giftLock EXCEPT ![g] = w] ELSE giftLock
    /\ req' = [req EXCEPT ![w].pc = IF Eligible(g, req[w].order) THEN "won" ELSE "sorted"]
    /\ UNCHANGED <<delivered, orderRows, giftRows, orderLock>>

\* Committing or rolling back frees every row the transaction held.
ReleaseOrder(w) == [o \in Orders |-> IF orderLock[o] = w THEN NoOne ELSE orderLock[o]]
\* Seeded fault: the gift stays locked.
GiftLockKept(w) == giftLock
ReleaseGift(w)  == [g \in Gifts |-> IF giftLock[g] = w THEN NoOne ELSE giftLock[g]]

\* No gift is left: the transaction ends with nothing written.
SpinNothing(w) ==
    /\ At(w, "sorted")
    /\ req[w].seen = {}
    /\ orderLock' = ReleaseOrder(w)
    /\ giftLock' = ReleaseGift(w)
    /\ req' = [req EXCEPT ![w] = NoSpin]
    /\ UNCHANGED <<delivered, orderRows, giftRows>>

\* Stock, order, commit.  (What the receivers of the order's save do to wallets is in
\* OrderDesk: SpinRead to SpinPay.)
SpinCommit(w) ==
    LET o == req[w].order
        g == req[w].gift IN
    /\ At(w, "won")
    /\ stock' = [stock EXCEPT ![g] = @ - 1]
    /\ prize' = [prize EXCEPT ![o] = g]
    /\ spunAt' = [spunAt EXCEPT ![o] = TRUE]
    /\ orderLock' = ReleaseOrder(w)
    /\ giftLock' = ReleaseGift(w)
    /\ req' = [req EXCEPT ![w] = NoSpin]
    /\ UNCHANGED <<delivered, active, catalog, form, supplied>>

\* The worker dies: rolled back.
Die(w) ==
    /\ ~At(w, "idle")
    /\ orderLock' = ReleaseOrder(w)
    /\ giftLock' = ReleaseGift(w)
    /\ req' = [req EXCEPT ![w] = NoSpin]
    /\ UNCHANGED <<delivered, orderRows, giftRows>>

\* w waits for the row of a gift that v has locked.
WaitsFor(w, v) == At(w, "wait") /\ giftLock[req[w].gift] = v

\* w is one of the spins that wait for each other in a circle.
InCircle(w) ==
    \E S \in SUBSET Workers :
        /\ w \in S
        /\ \A v \in S : (\E u \in S : WaitsFor(v, u)) /\ (\E u \in S : WaitsFor(u, v))

\* PostgreSQL finds the deadlock and fails the query of one of them: rolled back.
BreakCircle(w) ==
    /\ InCircle(w)
    /\ orderLock' = ReleaseOrder(w)
    /\ giftLock' = ReleaseGift(w)
    /\ req' = [req EXCEPT ![w] = NoSpin]
    /\ UNCHANGED <<delivered, orderRows, giftRows>>

-----------------------------------------------------------------------------
(* Everybody else; each UPDATE waits for the lock of its row *)

\* update_order_status to DELIVERED, and any handler that moves the order on.
SetDelivered(o, d) ==
    /\ orderLock[o] = NoOne
    /\ delivered' = [delivered EXCEPT ![o] = d]
    /\ UNCHANGED <<orderRows, giftRows, orderLock, giftLock, req>>

\* Staff open the change form of a gift ...
EditOpen(g) ==
    /\ AdminEdits
    /\ g \in catalog
    /\ form[g] = NoOne
    /\ form' = [form EXCEPT ![g] = stock[g]]
    /\ UNCHANGED <<delivered, orderRows, stock, active, catalog, supplied,
                   orderLock, giftLock, req>>

\* ... and save it: every field is written as the form has it.
EditSave(g, n, a) ==
    /\ form[g] # NoOne
    /\ g \in catalog
    /\ giftLock[g] = NoOne
    /\ stock' = [stock EXCEPT ![g] = form[g] + n]
    /\ supplied' = [supplied EXCEPT ![g] = @ + n]
    /\ active' = [active EXCEPT ![g] = a]
    /\ form' = [form EXCEPT ![g] = NoOne]
    /\ UNCHANGED <<delivered, orderRows, catalog, orderLock, giftLock, req>>

\* Deleting a gift: on_delete=SET_NULL clears gift_item, and nothing else, in the
\* orders that won it; they and the gift must be unlocked.
Delete(g) ==
    /\ AdminDeletes
    /\ g \in catalog
    /\ giftLock[g] = NoOne
    /\ \A o \in Orders : prize[o] = g => orderLock[o] = NoOne
    /\ catalog' = catalog \ {g}
    /\ prize' = [o \in Orders |-> IF prize[o] = g THEN NoOne ELSE prize[o]]
    /\ UNCHANGED <<delivered, spunAt, stock, active, form, supplied,
                   orderLock, giftLock, req>>

Serve(w) == \/ SpinQuery(w)
            \/ \E g \in Gifts : SpinNext(w, g)
            \/ SpinLock(w)
            \/ SpinNothing(w)
            \/ SpinCommit(w)

Next == \/ \E w \in Workers : \/ \E o \in Orders : SpinOrder(w, o)
                              \/ Serve(w)
                              \/ Die(w) \/ BreakCircle(w)
        \/ \E o \in Orders, d \in BOOLEAN : SetDelivered(o, d)
        \/ \E g \in Gifts : \/ EditOpen(g)
                            \/ \E n \in Restocks, a \in BOOLEAN : EditSave(g, n, a)
                            \/ Delete(g)

Spec == Init /\ [][Next]_vars

\* Workers serve on; Postgres grants a row lock to its waiters in turn and looks for
\* deadlocks among those who wait.
FairSpec == /\ Spec
            /\ \A w \in Workers : /\ WF_vars(Serve(w)) /\ SF_vars(SpinLock(w))
                                  /\ WF_vars(BreakCircle(w))

-----------------------------------------------------------------------------
Spin == [pc : {"idle", "query", "sorted", "wait", "won"},
         order : Orders \cup {NoOne}, seen : SUBSET Gifts, gift : Gifts \cup {NoOne}]

\* stock_quantity is a PositiveIntegerField: Postgres refuses a negative value.
TypeOK == /\ delivered \in [Orders -> BOOLEAN]
          /\ prize \in [Orders -> Gifts \cup {NoOne}]
          /\ spunAt \in [Orders -> BOOLEAN]
          /\ stock \in [Gifts -> Nat]
          /\ active \in [Gifts -> BOOLEAN]
          /\ catalog \subseteq Gifts
          /\ orderLock \in [Orders -> Workers \cup {NoOne}]
          /\ giftLock \in [Gifts -> Workers \cup {NoOne}]
          /\ form \in [Gifts -> Nat \cup {NoOne}]
          /\ supplied \in [Gifts -> Nat]
          /\ req \in [Workers -> Spin]

\* Whoever is about to write holds both rows, for an order still without a gift
\* and delivered, and a gift still in stock, whatever the status, the admin
\* forms and the other spins did since they were read.
WinnerHoldsBoth ==
    \A w \in Workers : At(w, "won") =>
        /\ orderLock[req[w].order] = w /\ MaySpin(req[w].order)
        /\ giftLock[req[w].gift] = w /\ Eligible(req[w].gift, req[w].order)

Drawn(o) == /\ prize[o] = NoOne
            /\ delivered[o]
            /\ stock[prize'[o]] > 0
            /\ stock' = [stock EXCEPT ![prize'[o]] = @ - 1]
Lost(o)  == prize[o] \notin catalog' /\ prize'[o] = NoOne

\* A gift leaves the stock exactly when an order wins it, in the same step, and
\* an order that has a gift keeps it until that gift is deleted.
OneGiftPerSpin == [][\A o \in Orders : prize'[o] # prize[o] => Drawn(o) \/ Lost(o)]_vars

\* No piece vanishes: what staff put in stock of a gift is still in stock or was won.
\* (A form opened before a spin and saved after it may even put the piece back.)
StockAddsUp ==
    \A g \in catalog :
        stock[g] + Cardinality({o \in Orders : prize[o] = g}) >= supplied[g]

\* Nobody can win g any more, until staff change it.
Spent(g) == ~(active[g] /\ stock[g] > 0)

\* A gift that can still be won is never what a deadlock is about: only spins that were
\* turned away, and keep the locks of spent gifts, can come to wait in a circle.
CirclesAreSpent == \A w \in Workers : InCircle(w) => Spent(req[w].gift)

\* A spin ends, whoever else holds the gifts it would like, if only by being the one
\* whose query fails in a deadlock.
SpinsFinish == \A w \in Workers : ~At(w, "idle") ~> At(w, "idle")
=============================================================================
