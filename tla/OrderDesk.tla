----------------------------- MODULE OrderDesk -----------------------------
(***************************************************************************)
(* The request handlers that move an order through its life and the money  *)
(* that moves with it (orders/views.py, orders/signals.py and              *)
(* wallet/signals.py), served by several Gunicorn workers at once.         *)
(*                                                                         *)
(* Every variable but req and inst is a column of the database, which runs *)
(* in autocommit at READ COMMITTED: a handler is cut wherever a statement  *)
(* outside transaction.atomic commits.  The three handlers that do open a  *)
(* transaction (checkout, cancel_order, spin_gift) show their writes in one*)
(* step, the commit.  cancel_order and spin_gift select their order FOR    *)
(* UPDATE, and checkout has the wallet row from its debit to its commit: an*)
(* UPDATE of such a row, and the INSERT of a row that refers to a locked   *)
(* order, wait for the commit; a plain SELECT does not.                    *)
(*                                                                         *)
(* The wallet is the module Wallet, on the same variables.                 *)
(***************************************************************************)
EXTENDS Integers, FiniteSets, Functions

CONSTANTS Customers,       \* users with a wallet who order
          Orders,          \* ids of the orders that will ever be placed
          Riders,          \* delivery members
          Workers,         \* Gunicorn workers, one request each
          NoOne,           \* NULL of a foreign key; "unlocked"
          Referrer,        \* Referrer[c]: user.referred_by, or NoOne
          Subtotals,       \* what a cart may cost
          WalletShare,     \* WalletShare[s]: what max_wallet_usage_percent allows of s,
                           \* at most the grand total
          DeliveryBonuses, \* values of DELIVERY_BONUS_MAP
          ReferralBonus, MinForBonus,   \* of ReferralSettings
          RiderPosts,      \* statuses a rider's browser posts
          BrokerMayFail,   \* TRUE: a notify_* may raise (Celery .delay, Redis down)
          MayCrash         \* TRUE: a worker may die between two statements

Statuses == {"placed", "confirmed", "out_for_delivery", "delivered", "cancelled"}

ASSUME OrderDeskAssumption ==
    /\ IsFiniteSet(Workers)
    /\ NoOne \notin Customers \cup Riders \cup Workers
    /\ Referrer \in [Customers -> Customers \cup {NoOne}]
    /\ Subtotals \subseteq Nat \ {0}
    /\ WalletShare \in [Subtotals -> Nat]
    /\ DeliveryBonuses \subseteq Nat
    /\ ReferralBonus \in Nat \ {0}
    /\ MinForBonus \in Nat
    /\ RiderPosts \subseteq Statuses
    /\ BrokerMayFail \in BOOLEAN /\ MayCrash \in BOOLEAN

VARIABLES balance, posted, granted, inst,   \* of Wallet
          order,      \* order[o]: the row of orders_order
          lock,       \* lock[o]: the transaction that selected o FOR UPDATE
          walletLock, \* walletLock[c]: the transaction that has updated the wallet of c
          refunds,    \* refunds[o]:   rows of reason "adjustment" for o
          bonuses,    \* bonuses[o]:   rows of reason "delivery_bonus" for o
          referrals,  \* referrals[c]: rows "referral_bonus" for orders of c
          req         \* req[w]: where the request of w stands, and what it read

rows == <<refunds, bonuses, referrals>>
walletVars == <<balance, posted, granted, inst>>
vars == <<balance, posted, granted, inst, order, lock, walletLock, refunds, bonuses, referrals,
          req>>

\* Every sum a handler may move.
Amounts == (DeliveryBonuses \cup {ReferralBonus}
               \cup UNION {1..WalletShare[s] : s \in Subtotals}) \ {0}

W == INSTANCE Wallet WITH NoWallet <- NoOne

Unplaced == [status |-> "none", customer |-> NoOne, rider |-> NoOne,
             subtotal |-> 0, used |-> 0, bonus |-> 0, deliveredAt |-> FALSE]

NoRequest == [pc |-> "idle", stage |-> "none", order |-> NoOne,
              new |-> "none", prev |-> "none"]

Init == /\ W!Init
        /\ order = [o \in Orders |-> Unplaced]
        /\ lock  = [o \in Orders |-> NoOne]
        /\ walletLock = [c \in Customers |-> NoOne]
        /\ refunds = [o \in Orders |-> 0]
        /\ bonuses = [o \in Orders |-> 0]
        /\ referrals = [c \in Customers |-> 0]
        /\ req = [w \in Workers |-> NoRequest]

At(w, pc) == req[w].pc = pc
Goto(w, r) == req' = [req EXCEPT ![w] = r]
Free(o) == lock[o] = NoOne

\* Seeded fault: a request that ends keeps its row locks.
LockKept(w) == lock

\* Committing or rolling back frees the rows the transaction held.
Unlocked(w) == [o \in Orders |-> IF lock[o] = w THEN NoOne ELSE lock[o]]
WalletUnlocked(w) == [c \in Customers |-> IF walletLock[c] = w THEN NoOne ELSE walletLock[c]]

\* An UPDATE of the wallet that w has at hand would not have to wait.
WalletFree(w) == walletLock[inst[w].owner] = NoOne

MinOf(a, b) == IF a <= b THEN a ELSE b

-----------------------------------------------------------------------------
(* checkout *)

\* request.user.wallet.balance, read before the transaction to offer a discount.
CheckoutOpen(w, c) ==
    /\ At(w, "idle")
    /\ W!Open(w, c)
    /\ Goto(w, [NoRequest EXCEPT !.pc = "checkout"])
    /\ UNCHANGED <<order, lock, walletLock, rows>>

\* max_wallet_usable, from the balance as it was read then.
Spend(w, s) == MinOf(inst[w].balance, WalletShare[s])

\* The id that Order.objects.create draws; two open transactions never draw the same.
NewId(o) == /\ order[o].status = "none"
            /\ \A v \in Workers : At(v, "debited") => req[v].order # o

\* In the transaction, after the order and its items: request.user.wallet.debit.  Nobody
\* sees it before the commit, and who wants to write the same wallet waits for that.
CheckoutDebit(w, o, s) ==
    /\ At(w, "checkout")
    /\ NewId(o)
    /\ Spend(w, s) > 0
    /\ WalletFree(w)
    /\ walletLock' = [walletLock EXCEPT ![inst[w].owner] = w]
    /\ Goto(w, [NoRequest EXCEPT !.pc = "debited", !.order = o])
    /\ UNCHANGED <<walletVars, order, lock, rows>>

\* The order is to be committed: debited, or nothing to debit.
Debited(w, o, s) == \/ At(w, "checkout") /\ NewId(o) /\ Spend(w, s) = 0
                    \/ At(w, "debited") /\ req[w].order = o /\ Spend(w, s) > 0

\* Seeded fault: the order records what the settings allow, not what was debited.
CheckoutRecordsShare(w, o, s, b) ==
    /\ Debited(w, o, s)
    /\ order[o].status = "none"
    /\ order' = [order EXCEPT ![o] =
                   [Unplaced EXCEPT !.status = "placed", !.customer = inst[w].owner,
                                    !.subtotal = s, !.used = WalletShare[s], !.bonus = b]]
    /\ IF Spend(w, s) > 0 THEN W!DebitTx(w, Spend(w, s)) ELSE UNCHANGED walletVars
    /\ walletLock' = WalletUnlocked(w)
    /\ Goto(w, [NoRequest EXCEPT !.pc = "done"])
    /\ UNCHANGED <<lock, rows>>

\* The transaction commits: the order, its items and totals, the debit.
CheckoutCommit(w, o, s, b) ==
    /\ Debited(w, o, s)
    /\ order[o].status = "none"
    /\ order' = [order EXCEPT ![o] =
                   [Unplaced EXCEPT !.status = "placed", !.customer = inst[w].owner,
                                    !.subtotal = s, !.used = Spend(w, s), !.bonus = b]]
    /\ IF Spend(w, s) > 0 THEN W!DebitTx(w, Spend(w, s)) ELSE UNCHANGED walletVars
    /\ walletLock' = WalletUnlocked(w)
    /\ Goto(w, [NoRequest EXCEPT !.pc = "done"])
    /\ UNCHANGED <<lock, rows>>

\* Empty cart, below minimum_order_amount, no pin, address outside every area.
CheckoutRefused(w) ==
    /\ At(w, "checkout")
    /\ Goto(w, [NoRequest EXCEPT !.pc = "done"])
    /\ UNCHANGED <<walletVars, order, lock, walletLock, rows>>

-----------------------------------------------------------------------------
(* cancel_order *)

Cancellable(o) == order[o].status \in {"placed", "confirmed"}

\* SELECT ... FOR UPDATE, and the test of the status the lock now protects.
CancelLock(w, o) ==
    /\ At(w, "idle")
    /\ Free(o)
    /\ Cancellable(o)
    /\ lock' = [lock EXCEPT ![o] = w]
    /\ Goto(w, [NoRequest EXCEPT !.pc = "locked", !.order = o])
    /\ UNCHANGED <<walletVars, order, walletLock, rows>>

CancelRead(w) ==
    /\ At(w, "locked")
    /\ W!Open(w, order[req[w].order].customer)
    /\ Goto(w, [req[w] EXCEPT !.pc = "refund"])
    /\ UNCHANGED <<order, lock, walletLock, rows>>

\* Refund what the wallet paid, close the order, commit; the lock goes.
CancelCommit(w) ==
    LET o == req[w].order IN
    /\ At(w, "refund")
    /\ IF order[o].used > 0
         THEN /\ WalletFree(w)
              /\ W!CreditTx(w, order[o].used)
              /\ refunds' = [refunds EXCEPT ![o] = @ + 1]
         ELSE UNCHANGED <<walletVars, refunds>>
    /\ order' = [order EXCEPT ![o].status = "cancelled"]
    /\ lock' = Unlocked(w)
    /\ Goto(w, [NoRequest EXCEPT !.pc = "done"])
    /\ UNCHANGED <<walletLock, bonuses, referrals>>

-----------------------------------------------------------------------------
(* assign_delivery_member, and the write of auto_assign_delivery_member *)

\* Both columns are set whatever the status is; one statement, behind no lock.
Assign(w, o, r) ==
    /\ At(w, "idle")
    /\ order[o].status # "none"
    /\ Free(o)
    /\ order' = [order EXCEPT ![o].rider = r, ![o].status = "confirmed"]
    /\ UNCHANGED <<walletVars, lock, walletLock, rows, req>>

-----------------------------------------------------------------------------
(* update_order_status, with the pre_save and post_save receivers *)

\* Seeded fault: any posted string is saved.
RiderLoadUnvalidated(w, o, s) ==
    /\ At(w, "idle")
    /\ order[o].rider \in Riders
    /\ \E t \in {s, "lost"} :
          Goto(w, [NoRequest EXCEPT !.pc = "presave", !.order = o, !.new = t])
    /\ UNCHANGED <<walletVars, order, lock, walletLock, rows>>

\* The order is read for the rider who is logged in; any status of the form is taken.
RiderLoad(w, o, s) ==
    /\ At(w, "idle")
    /\ order[o].rider \in Riders
    /\ Goto(w, [NoRequest EXCEPT !.pc = "presave", !.order = o, !.new = s])
    /\ UNCHANGED <<walletVars, order, lock, walletLock, rows>>

\* cache_order_status: the status now in the database.
PreSave(w) ==
    /\ At(w, "presave")
    /\ Goto(w, [req[w] EXCEPT !.pc = "save", !.prev = order[req[w].order].status])
    /\ UNCHANGED <<walletVars, order, lock, walletLock, rows>>

\* order_status_changed does nothing when the status did not change; the other
\* receiver (stage "referral") runs after it in any case.
AfterSave(r) ==
    IF r.new = r.prev THEN [r EXCEPT !.pc = "read", !.stage = "referral"]
    ELSE IF r.new = "delivered" THEN [r EXCEPT !.pc = "read", !.stage = "signal"]
    ELSE [r EXCEPT !.pc = "notify"]

\* Seeded fault: the save goes past a locked row.
SaveStatusIgnoresLock(w) ==
    LET o == req[w].order IN
    /\ At(w, "save")
    /\ order' = [order EXCEPT ![o].status = req[w].new,
                              ![o].deliveredAt = @ \/ req[w].new = "delivered"]
    /\ Goto(w, AfterSave(req[w]))
    /\ UNCHANGED <<walletVars, lock, walletLock, rows>>

\* The UPDATE, committed at once; it waits for a transaction holding the row.
SaveStatus(w) ==
    LET o == req[w].order IN
    /\ At(w, "save")
    /\ Free(o)
    /\ order' = [order EXCEPT ![o].status = req[w].new,
                              ![o].deliveredAt = @ \/ req[w].new = "delivered"]
    /\ Goto(w, AfterSave(req[w]))
    /\ UNCHANGED <<walletVars, lock, walletLock, rows>>

\* Seeded fault: rewards for any status.
DueAnyStatus(r) ==
    IF r.stage = "referral"
      THEN /\ Referrer[order[r.order].customer] # NoOne
           /\ order[r.order].subtotal >= MinForBonus
      ELSE order[r.order].bonus > 0

\* Which of the three rewards the request comes to: "signal" is
\* credit_delivery_bonus_if_due, "referral" credit_referrer_on_delivery, and
\* "view" the second test for the same delivery bonus in the view.
Due(r) ==
    /\ r.new = "delivered"
    /\ IF r.stage = "referral"
         THEN /\ Referrer[order[r.order].customer] # NoOne
              /\ order[r.order].subtotal >= MinForBonus
         ELSE order[r.order].bonus > 0

Payee(r) == IF r.stage = "referral" THEN Referrer[order[r.order].customer]
                                    ELSE order[r.order].customer
Sum(r)   == IF r.stage = "referral" THEN ReferralBonus ELSE order[r.order].bonus
Rows(r)  == IF r.stage = "referral" THEN referrals[order[r.order].customer]
                                    ELSE bonuses[r.order]

AfterStage(r) == CASE r.stage = "signal"   -> [r EXCEPT !.pc = "notify"]
                   [] r.stage = "referral" -> [r EXCEPT !.pc = "read", !.stage = "view"]
                   [] OTHER                -> [r EXCEPT !.pc = "done"]

\* No reward here: return at once.
Skip(w) ==
    /\ At(w, "read")
    /\ ~Due(req[w])
    /\ Goto(w, AfterStage(req[w]))
    /\ UNCHANGED <<walletVars, order, lock, walletLock, rows>>

\* order.customer.wallet or referrer.wallet is fetched for the test that follows ...
ReadWallet(w) ==
    /\ At(w, "read")
    /\ Due(req[w])
    /\ W!Open(w, Payee(req[w]))
    /\ Goto(w, [req[w] EXCEPT !.pc = "check"])
    /\ UNCHANGED <<order, lock, walletLock, rows>>

\* Seeded fault: no test for an earlier row.
CheckForgotten(w) ==
    /\ At(w, "check")
    /\ Goto(w, [req[w] EXCEPT !.pc = "pay"])
    /\ UNCHANGED <<walletVars, order, lock, walletLock, rows>>

\* Seeded fault: the test for an earlier row is inverted.
CheckInverted(w) ==
    /\ At(w, "check")
    /\ Goto(w, IF Rows(req[w]) = 0 THEN AfterStage(req[w]) ELSE [req[w] EXCEPT !.pc = "pay"])
    /\ UNCHANGED <<walletVars, order, lock, walletLock, rows>>

\* ... already_credited: is there a row of this reason for it?
Check(w) ==
    /\ At(w, "check")
    /\ Goto(w, IF Rows(req[w]) > 0 THEN AfterStage(req[w]) ELSE [req[w] EXCEPT !.pc = "pay"])
    /\ UNCHANGED <<walletVars, order, lock, walletLock, rows>>

\* Seeded fault: the balance is raised past Wallet.credit.
PayDirect(w) ==
    /\ At(w, "pay")
    /\ WalletFree(w)
    /\ balance' = [balance EXCEPT ![Payee(req[w])] = @ + Sum(req[w])]
    /\ inst' = [inst EXCEPT ![w].due = Sum(req[w])]
    /\ Goto(w, [req[w] EXCEPT !.pc = "log"])
    /\ UNCHANGED <<posted, granted, order, lock, walletLock, rows>>

\* Wallet.credit writes what the instance says, increased; the UPDATE waits for a
\* checkout that has debited the same wallet.
Pay(w) ==
    /\ At(w, "pay")
    /\ WalletFree(w)
    /\ W!Credit(w, Sum(req[w]))
    /\ Goto(w, [req[w] EXCEPT !.pc = "log"])
    /\ UNCHANGED <<order, lock, walletLock, rows>>

\* The WalletTransaction row that later tests will find; as it refers to the order, the
\* INSERT waits for a transaction that selected the order FOR UPDATE.
PostRow(w) ==
    LET r == req[w] IN
    /\ At(w, "log")
    /\ Free(r.order)
    /\ W!Log(w)
    /\ IF r.stage = "referral"
         THEN /\ referrals' = [referrals EXCEPT ![order[r.order].customer] = @ + 1]
              /\ UNCHANGED bonuses
         ELSE /\ bonuses' = [bonuses EXCEPT ![r.order] = @ + 1]
              /\ UNCHANGED referrals
    /\ Goto(w, AfterStage(r))
    /\ UNCHANGED <<order, lock, walletLock, refunds>>

\* Seeded fault: nothing is done after the notifications.
NotifyLast(w) ==
    /\ At(w, "notify")
    /\ Goto(w, [req[w] EXCEPT !.pc = "done"])
    /\ UNCHANGED <<walletVars, order, lock, walletLock, rows>>

\* notify_customer, notify_area_admin, notify_delivery_member; then the next receiver.
Notify(w) ==
    /\ At(w, "notify")
    /\ Goto(w, [req[w] EXCEPT !.pc = "read", !.stage = "referral"])
    /\ UNCHANGED <<walletVars, order, lock, walletLock, rows>>

-----------------------------------------------------------------------------
(* spin_gift, as far as the order and the wallets go (the gifts are in GiftSpin) *)

\* SELECT ... FOR UPDATE of a delivered order.
SpinLock(w, o) ==
    /\ At(w, "idle")
    /\ Free(o)
    /\ order[o].status = "delivered"
    /\ lock' = [lock EXCEPT ![o] = w]
    /\ Goto(w, [pc |-> "spin", stage |-> "referral", order |-> o,
                new |-> "delivered", prev |-> "delivered"])
    /\ UNCHANGED <<walletVars, order, walletLock, rows>>

\* No gift was drawn, or one was and its save finds no referral bonus due: commit.
SpinEnd(w) ==
    /\ At(w, "spin")
    /\ lock' = Unlocked(w)
    /\ Goto(w, [NoRequest EXCEPT !.pc = "done"])
    /\ UNCHANGED <<walletVars, order, walletLock, rows>>

\* order.save runs the receivers: the status is not new, so that order_status_changed
\* does nothing, but credit_referrer_on_delivery looks for the referral bonus again ...
SpinRead(w) ==
    /\ At(w, "spin")
    /\ Due(req[w])
    /\ W!Open(w, Payee(req[w]))
    /\ Goto(w, [req[w] EXCEPT !.pc = "spincheck"])
    /\ UNCHANGED <<order, lock, walletLock, rows>>

\* ... finds its row: commit ...
SpinFound(w) ==
    /\ At(w, "spincheck")
    /\ Rows(req[w]) > 0
    /\ lock' = Unlocked(w)
    /\ Goto(w, [NoRequest EXCEPT !.pc = "done"])
    /\ UNCHANGED <<walletVars, order, walletLock, rows>>

\* ... or does not ...
SpinNotFound(w) ==
    /\ At(w, "spincheck")
    /\ Rows(req[w]) = 0
    /\ Goto(w, [req[w] EXCEPT !.pc = "spinpay"])
    /\ UNCHANGED <<walletVars, order, lock, walletLock, rows>>

\* ... and pays it: UPDATE and INSERT in the transaction of the spin, and its commit.
SpinPay(w) ==
    /\ At(w, "spinpay")
    /\ WalletFree(w)
    /\ W!CreditTx(w, ReferralBonus)
    /\ referrals' = [referrals EXCEPT ![order[req[w].order].customer] = @ + 1]
    /\ lock' = Unlocked(w)
    /\ Goto(w, [NoRequest EXCEPT !.pc = "done"])
    /\ UNCHANGED <<order, walletLock, refunds, bonuses>>

-----------------------------------------------------------------------------
(* The end of a request *)

\* The response is sent.
Reply(w) ==
    /\ At(w, "done")
    /\ W!Close(w)
    /\ Goto(w, NoRequest)
    /\ UNCHANGED <<order, lock, walletLock, rows>>

\* What is not committed is rolled back, locks and instances are gone.
Abandon(w) ==
    /\ IF inst[w].due > 0 THEN W!Crash(w) ELSE W!Close(w)
    /\ lock' = Unlocked(w)
    /\ walletLock' = WalletUnlocked(w)
    /\ Goto(w, NoRequest)
    /\ UNCHANGED <<order, rows>>

\* A notification cannot be enqueued: the exception leaves the handler.  In
\* checkout and cancel_order that is inside the transaction.
BrokerDown(w) ==
    /\ BrokerMayFail
    /\ req[w].pc \in {"checkout", "debited", "refund", "notify"}
    /\ Abandon(w)

Die(w) ==
    /\ MayCrash
    /\ ~At(w, "idle")
    /\ Abandon(w)

Serve(w) ==  \* one statement of the request in hand
    \/ \E o \in Orders, s \in Subtotals : CheckoutDebit(w, o, s)
    \/ \E o \in Orders, s \in Subtotals, b \in DeliveryBonuses : CheckoutCommit(w, o, s, b)
    \/ CheckoutRefused(w)
    \/ CancelRead(w) \/ CancelCommit(w)
    \/ PreSave(w) \/ SaveStatus(w)
    \/ Skip(w) \/ ReadWallet(w) \/ Check(w) \/ Pay(w) \/ PostRow(w)
    \/ Notify(w)
    \/ SpinEnd(w) \/ SpinRead(w) \/ SpinFound(w) \/ SpinNotFound(w) \/ SpinPay(w)
    \/ Reply(w)

Start(w) ==  \* a request arrives
    \/ \E c \in Customers : CheckoutOpen(w, c)
    \/ \E o \in Orders : CancelLock(w, o)
    \/ \E o \in Orders, r \in Riders : Assign(w, o, r)
    \/ \E o \in Orders, s \in RiderPosts : RiderLoad(w, o, s)
    \/ \E o \in Orders : SpinLock(w, o)

Next == \E w \in Workers : Start(w) \/ Serve(w) \/ BrokerDown(w) \/ Die(w)

Spec == Init /\ [][Next]_vars

\* gunicorn keeps serving, and Postgres hands a row lock to its waiters in turn.
FairSpec == /\ Spec
            /\ \A w \in Workers : SF_vars(Serve(w))

-----------------------------------------------------------------------------
(* Safety, however many workers *)

OrderRow == [status : Statuses \cup {"none"}, customer : Customers \cup {NoOne},
             rider : Riders \cup {NoOne}, subtotal : Nat, used : Nat, bonus : Nat,
             deliveredAt : BOOLEAN]

Request == [pc : {"idle", "checkout", "debited", "locked", "refund", "presave", "save",
                  "read", "check", "pay", "log", "notify", "spin", "spincheck", "spinpay",
                  "done"},
            stage : {"none", "signal", "referral", "view"},
            order : Orders \cup {NoOne},
            new : Statuses \cup {"none"}, prev : Statuses \cup {"none"}]

TypeOK == /\ W!TypeOK
          /\ order \in [Orders -> OrderRow]
          /\ lock \in [Orders -> Workers \cup {NoOne}]
          /\ walletLock \in [Customers -> Workers \cup {NoOne}]
          /\ refunds \in [Orders -> Nat]
          /\ bonuses \in [Orders -> Nat]
          /\ referrals \in [Customers -> Nat]
          /\ req \in [Workers -> Request]

Cancelling(w) == req[w].pc \in {"locked", "refund"}
Spinning(w) == req[w].pc \in {"spin", "spincheck", "spinpay"}

\* cancel_order tests the status once and then refunds: until it commits, the
\* order it holds is still placed or confirmed, whatever riders post meanwhile
\* (and one that is spun for is still delivered), and no row stays locked by a
\* request that is over.
CancelSeesOpenOrder ==
    /\ \A w \in Workers :
          /\ Cancelling(w) => lock[req[w].order] = w /\ Cancellable(req[w].order)
          /\ Spinning(w) => lock[req[w].order] = w /\ order[req[w].order].status = "delivered"
    /\ \A o \in Orders : lock[o] \in Workers =>
          /\ Cancelling(lock[o]) \/ Spinning(lock[o])
          /\ req[lock[o]].order = o

\* Both wallet promises of Wallet, kept by every interleaving of handlers.
Solvent == W!Solvent
Backed == W!Backed

\* Nothing is rewarded before it was delivered: a delivery bonus needs an order
\* with delivered_at, a referral bonus such an order of the referred customer
\* at or above min_order_value_for_bonus.
RewardOnlyAfterDelivery ==
    /\ \A o \in Orders : bonuses[o] > 0 => order[o].deliveredAt
    /\ \A c \in Customers : referrals[c] > 0 =>
           \E o \in Orders : /\ order[o].customer = c
                             /\ order[o].deliveredAt
                             /\ order[o].subtotal >= MinForBonus

Paying(w, stages) == req[w].pc \in {"pay", "log"} /\ req[w].stage \in stages

\* The tests for an earlier row race, but only among requests in flight: a reward
\* is never paid more often than there are workers.
RewardsBounded ==
    /\ \A o \in Orders :
          bonuses[o] + Cardinality({w \in Workers :
              Paying(w, {"signal", "view"}) /\ req[w].order = o})
            <= Cardinality(Workers)
    /\ \A c \in Customers :
          referrals[c] + Cardinality({w \in Workers :
              (Paying(w, {"referral"}) \/ At(w, "spinpay")) /\ order[req[w].order].customer = c})
            <= Cardinality(Workers)

\* A refund and the closing of its order are one step, taken from an open order
\* that no other request holds.
RefundClosesOrder ==
    [][\A o \in Orders : refunds'[o] # refunds[o] =>
          /\ Cancellable(o)
          /\ order'[o].status = "cancelled"
          /\ \E w \in Workers : lock[o] = w /\ At(w, "refund")]_vars

OrdersOf(c) == {o \in Orders : order[o].customer = c}

\* What c earned in delivery and referral bonuses, got back and spent, by the orders.
Earned(c) == SumFunctionOnSet([o \in Orders |-> bonuses[o] * order[o].bonus], OrdersOf(c))
             + ReferralBonus * SumFunctionOnSet(referrals, {d \in Customers : Referrer[d] = c})
Refunded(c) == SumFunctionOnSet([o \in Orders |-> refunds[o] * order[o].used], OrdersOf(c))
Spent(c) == SumFunctionOnSet([o \in Orders |-> order[o].used], OrdersOf(c))

\* The audit trail of a wallet (wallet/models.py) and the orders tell the same story,
\* whatever overlaps, dies or is rolled back between a payment and its row: the rows of
\* c add up to what his orders earned and were refunded, less what they took.
LedgerAddsUp == \A c \in Customers : posted[c] + Spent(c) = Earned(c) + Refunded(c)

\* Every handler uses the wallet as Wallet says: its steps are steps of Wallet.
ImplementsWallet == W!Spec

-----------------------------------------------------------------------------
(* Liveness *)

\* Row locks never leave two requests waiting on each other.
RequestsFinish == \A w \in Workers : ~At(w, "idle") ~> At(w, "idle")

\* A delivered order gets its delivery bonus, also when several requests deliver
\* it at once and each leaves the payment to the other.
DeliveryBonusPaid ==
    \A o \in Orders : order[o].status = "delivered" /\ order[o].bonus > 0 ~> bonuses[o] > 0

\* wallet/signals.py: "Credit a fixed referral bonus when a referred customer's
\* first qualifying order is delivered."
ReferralPaid ==
    \A o \in Orders, c \in Customers :
        (/\ order[o].customer = c
         /\ order[o].status = "delivered"
         /\ order[o].subtotal >= MinForBonus
         /\ Referrer[c] # NoOne)
            ~> referrals[c] > 0

-----------------------------------------------------------------------------
(* One request at a time: the handlers are atomic and pay once *)

Sole == CHOOSE w \in Workers : TRUE

\* The rewards the request of Sole has made due and not yet paid.
Rewarding == /\ req[Sole].new = "delivered"
             /\ req[Sole].pc \in {"read", "check", "pay", "log", "notify"}
OwesBonus(o) == /\ Rewarding
                /\ req[Sole].order = o
                /\ order[o].bonus > 0
                /\ bonuses[o] = 0
OwesReferral(c) == /\ Rewarding
                   /\ order[req[Sole].order].customer = c
                   /\ Referrer[c] # NoOne
                   /\ order[req[Sole].order].subtotal >= MinForBonus
                   /\ referrals[c] = 0
\* Written to the wallet, its row about to follow.
Written(stages) == At(Sole, "log") /\ req[Sole].stage \in stages

Owed(x) ==
    LET o == req[Sole].order IN
    IF ~Rewarding THEN 0
    ELSE (IF /\ OwesBonus(o) /\ order[o].customer = x
             /\ ~Written({"signal", "view"})
            THEN order[o].bonus ELSE 0)
       + (IF /\ OwesReferral(order[o].customer) /\ Referrer[order[o].customer] = x
             /\ ~Written({"referral"})
            THEN ReferralBonus ELSE 0)

Book == INSTANCE OrderBook
          WITH money <- [x \in Customers |-> balance[x] + Owed(x)],
               bonusPaid <- [o \in Orders |-> bonuses[o] > 0 \/ OwesBonus(o)],
               referralPaid <- [c \in Customers |-> referrals[c] > 0 \/ OwesReferral(c)]

\* With one worker that neither dies nor loses the broker, every handler is one
\* step of OrderBook: the status and every reward it earns, once, together.
ImplementsBook == Book!Spec

\* With one worker every movement of a wallet comes with its row, and the
\* balance is the sum of the rows.
ImplementsAccount == W!ImplementsAccount

-----------------------------------------------------------------------------
(* What the repository says and the code does not keep *)

\* README: "A dedupe check stops double-crediting if the order is saved again
\* after delivery."
PaidOnce == /\ \A o \in Orders : bonuses[o] <= 1
            /\ \A c \in Customers : referrals[c] <= 1

\* README: "Wallet is bonus-only by design": what a customer can spend comes from
\* bonuses, and a refund gives back no more than an order took.
BonusOnly == \A c \in Customers : posted[c] <= Earned(c)
=============================================================================
