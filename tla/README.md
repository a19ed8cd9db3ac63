# veggiedeliver, verified

A TLA+ development of veggiedeliver, a Django application that takes orders for
vegetables, pays rewards into wallets and sends riders. The modules are
translated from the source (`src/`), TLC checks them on small instances, and TLAPS
proves the main invariants for every value of the constants. `PROJECT.json` maps
each definition to the lines it stands for, and lists the runs, the hazards they
are aimed at, the theorems, and where code and documentation disagree.

Run TLC with `tlc -config X.cfg M` and TLAPS with `tlapm M.tla`. The module that
goes with a configuration is the prefix of its name (`MCOrderDeskLive.cfg` belongs
to `MCOrderDesk.tla`).

## 1. The system

The facts of deployment that every model rests on (`core/settings.py`,
`deploy.sh`):

* three synchronous Gunicorn workers, one request each at a time, killed after
  120 s (`deploy.sh:130`) and restarted by systemd;
* PostgreSQL at READ COMMITTED; `ATOMIC_REQUESTS` is off, so outside
  `transaction.atomic` every statement commits by itself;
* Celery with a Redis broker; `.delay` raises in the caller when it is away. Tasks run
  in the worker's processes, with `CELERY_ALWAYS_EAGER` off as `core/settings.py:249-251`
  asks of production; the eager mode of development is not modelled;
* Redis also for positions; sessions in the database, written with the response.

So three kinds of things interleave: statements of concurrent requests, the
deaths of workers between them, and staff at work in Django admin.

| Component | State | Operations | What makes it correct |
|---|---|---|---|
| Wallet (`wallet/models.py`) | balance, transaction rows | credit, debit, admin save | never overdrawn; never more than was credited; rows add up to the balance |
| Order handlers (`orders/views.py`) | order rows and their locks | checkout, cancel, assign, auto-assign, rider's status post | a refund only for an open order, and it closes the order |
| Rewards (`orders/signals.py`, `wallet/signals.py`) | rows the dedupe tests look for | delivery bonus, referral bonus | only after delivery; once; in the end |
| Gift spin (`orders/views.py:279-311`) | gifts, stock, prizes | spin; staff edit and delete gifts | no gift out of stock is won; one gift and one piece per spin |
| Cart and pricing (`orders/cart.py`, checkout) | session, catalog, settings | add, set, remove, checkout | the cart is kept; the order is what was priced; the wallet never pays more than the order costs |
| Riders (`orders/geo_cache.py`, `locations/utils.py`) | Redis keys with a TTL, ping rows, duty | report, ping, toggle duty, auto-assign, tracking | bounded rows; tracking does not go dark; who is chosen was available |
| Notifications (`orders/notifications.py`, tasks and gateways in `accounts`) | tasks in the broker | enqueue from handlers and receivers; try, retry, give up | nobody is told what never was; everyone concerned is told in the end |
| OTP login and signup (`accounts`) | OTP rows; the user, his wallet, his referrer | ask, send, verify, sign up; staff add a rider | codes and tries are bounded; whoever has an account has a wallet, whoever was invited a referrer |
| Areas and addresses (`locations`) | circles | nearest area for a point | an address is in at most one area |
| Dashboards, tracking | | reads | tracking is with the riders; the live map's page is never served (section 5) |
| Catalog, role checks, settings | | reads | |

How they interact: `checkout` reads the session and the catalog and, in one
transaction, writes order and wallet and enqueues notifications. Saving an order
with a changed status runs `post_save` receivers in the order they were connected:
delivery bonus, then notifications, then the referral bonus. The view that posted
`delivered` pays the delivery bonus once more unless it finds the row. Wallet
instances are cached on `request.user` and on the referrer, so one request computes
from the balance it read first.

Signing in writes the OTP row, hands an SMS to the broker, and later writes user,
wallet and referrer; `create_delivery_member` writes the same user and wallet. A gift
spin saves the order too, inside its transaction, so the referral receiver runs once
more for an order delivered long ago, and pays what was lost.

What is hard: all of these are read-then-write in several statements, most of them
without a lock; the handlers that do lock meet others that do not: cancel and spin have
the row of their order, a spin also every gift it waited for, won or not, and a checkout
the wallet it debited, until they commit; and a notification that raises does so after
the save it follows, or inside the transaction it announces.

## 2. The modules

| Module | Models | Uses |
|---|---|---|
| `WalletAccount` | what a wallet promises: a movement changes balance and audit trail together | |
| `Wallet` | the row, the instance each request holds, UPDATE and INSERT as two steps outside a transaction, one inside | `WalletAccount` (refinement) |
| `OrderBook` | what the order desk promises: each handler, with all its receivers, is one step that pays each reward once | |
| `OrderDesk` | the handlers statement by statement, the spin's lock and referral payment among them, with the row locks of orders and wallets, receivers, broker failures and deaths | `Wallet` (INSTANCE: every movement of money is one of its actions), `OrderBook` (refinement) |
| `GiftSpin` | the spin with its locks, PostgreSQL's second test of a row it waited for and its deadlock detector, staff editing and deleting gifts | |
| `Checkout` | session load and save, the cart views, pricing and placing, staff changing prices, settings and availability | |
| `RiderDesk` | reports, pings and their rows, expiry, Redis failures, duty, choice of the nearest rider | |
| `SignIn` | one mobile number: codes, cooldown, tries, and the account, its wallet and referrer coming into being by several statements, with requests that die and a broker that refuses | |
| `Notices` | one order: who enqueues what and when, inside the transaction or after the save, and the worker that tries, retries, gives up or is killed | |
| `MC...` | bounds and constants for TLC; `MCOrderDesk`, `MCSignIn` and `MCNotices` cut their module into parts (below) | |
| `...Proofs` | theorems | TLAPS |

State and code. A request of worker `w` is `req[w]`: `pc` names the statement it is
about to execute, the other fields are the local variables it still needs. An action
is one statement, or the statements of one transaction that nobody else can see
separately. Decisions worth knowing:

* **Wallet instances.** `Open` is `request.user.wallet` (or the referrer's) being
  read for the first time; later credits and debits use `inst[w]`. The status post
  re-opens the customer's wallet in the stage "view" where the code would use the
  instance cached in the stage "signal"; when it was opened there, a row exists and
  the view pays nothing, so no number is computed from the difference.
* **A debit** occurs only inside the transaction of checkout (`DebitTx`); a credit
  occurs inside (refund: `CreditTx`) or outside (rewards: `Credit`, then `Log`).
* **The status post** runs the referral receiver even when the status did not
  change (`AfterSave`), because only `order_status_changed` compares with the
  status before.
* **Locks.** `cancel_order` and `spin_gift` hold `SELECT ... FOR UPDATE` to their
  commit; an UPDATE of the same order waits, and so does the INSERT of a reward's row,
  which refers to it (`Free`). A checkout has the wallet row from its debit to its commit
  (`CheckoutDebit`, `walletLock`): payments, refunds and other debits of that wallet wait
  (`WalletFree`). A cancel or spin that updates a wallet does so in its last step, as
  nothing it does afterwards waits. A lock goes with a worker's death, and its
  transaction is rolled back (`Abandon`, `Die`).
* **The spin is in two modules.** `OrderDesk` has what it does to order and wallets:
  the lock, and the save whose receiver looks for the referral bonus and pays it
  (`SpinRead` to `SpinPay`; the status is not new, so nothing else runs). Whether a gift
  was drawn is a choice there (`SpinEnd`). `GiftSpin` has the gifts, and leaves the
  wallets out.
* **A gift that fails the second test** is not returned, but its row stays locked to the
  end of the transaction (`SpinLock`), as PostgreSQL does at READ COMMITTED; only a row
  that was deleted has nothing to lock. With gifts sorted at random, two spins that each
  keep a spent gift can want the other's: `BreakCircle` is the deadlock detector, which
  fails one of the two queries, a 500 for its customer.
* **OrderDesk takes the price of an order and the wallet's share of it as
  constants**; where they come from is `Checkout`, which takes the balance as a
  number that was read, and leaves the wallet to `OrderDesk`.
* **Auto-assignment** is, in `OrderDesk`, the same step as an assignment by hand
  (any rider); which rider is in `RiderDesk`.
* **A session** without the key `cart` differs from an empty cart: `Cart()` puts
  the key there, which makes Django write the session (`CheckoutEmpty`).
* **Time** in `RiderDesk` passes in ticks. Keys carry their age, rows are counted
  by age, and a request is no older than `Lifetime`, as Gunicorn kills it.
* **Money** is in paise; `Decimal.quantize` is modelled by its rounding, half to
  even.
* **A code** (`SignIn`) is the number of its row: two rows never have the same code
  here, and a request types the code of some row or a wrong one (0). Where the API and
  the pages differ, in what they answer, the model does not. The rate limits by
  address, the first name and the session or token that follows are left out: no
  property is about them.
* **Out of the transaction or in it** (`Notices`): `checkout` and `cancel_order` hand
  their messages to the broker before they commit, so the broker's refusal rolls the
  order back; the other handlers do after their save, so that it does not. `delay`
  itself puts a task at the end of a queue, but with several processes and retries
  nothing may rest on its order, so any task that waits may be taken.
* **A task** is acknowledged when a process takes it (Celery's default), so it is
  lost with its process. A gateway that times out says nothing of whether the message
  arrived: `Gateway` has all three outcomes.
* **Parts.** `MCOrderDesk`, `MCSignIn` and `MCNotices` have a variable `part`, chosen
  at the start, which says what may begin in this behaviour; the actions themselves
  stay as they are. It keeps apart state spaces that hardly meet: the rewards of one
  order and the refunds of two; codes that are asked for, codes that are typed, and the
  account coming into being; the requests that tell and the worker that runs what it
  was told. In the requests' part of `MCNotices` every task runs at once and the first
  time, as no handler looks at a task. The theorems are about the whole modules.

Definitions marked "Seeded fault" (`SufficientDropped`, `CheckForgotten`,
`SpinLockNoRecheck`, ...) are no part of any specification. Each is a plausible
programming error in the definition that follows it, and is there so that every
property can be seen to fail when the code is wrong: `PROJECT.json`, "mutants",
says which property each breaks.

## 3. The runs

| Run | Configuration | Shows | About |
|---|---|---|---|
| `wallet_races` | `MCWalletRaces` | `TypeOK` `Solvent` `Backed` | two workers on shared wallets, admin saves, deaths |
| `desk_serial` | `MCOrderDeskSerial` | `ImplementsBook` `ImplementsAccount` | one worker: what the handlers promise when they do not overlap |
| `desk_races` | `MCOrderDeskRaces` | `TypeOK` `LedgerAddsUp` `RewardOnlyAfterDelivery` `RewardsBounded` `RefundClosesOrder` `ImplementsWallet` | two workers, broker failures, spins; one order with deaths, or two orders of one customer with refunds |
| `desk_live` | `MCOrderDeskLive` | `RequestsFinish` `DeliveryBonusPaid` `ReferralPaid` | liveness |
| `spin_edits` | `MCGiftSpinEdits` | `TypeOK` `WinnerHoldsBoth` `StockAddsUp` `CirclesAreSpent` `OneGiftPerSpin` `SpinsFinish` | two spins that want the same two gifts, staff, deaths, deadlocks |
| `checkout_races` | `MCCheckoutRaces` | `TypeOK` `FairlyCharged` `CartKept` `OrderIsCart` | one browser, two requests at a time, staff |
| `rider_day` | `MCRiderDeskDay` | `TypeOK` `TrailBounded` `TrackingStays` `AssignedWasAvailable` `AssignedIsNearest` | two riders, time, Redis failures |
| `sign_in` | `MCSignIn` | `TypeOK` `CodesBounded` `TriesCounted` `HasWallet` `InvitedIsReferred` `CodeArrives` | two requests for one number, deaths, broker failures, staff adding a rider |
| `notices` | `MCNotices` | `TypeOK` `NoticesBounded` `ToldTruth` `Announced` | two requests, a worker of two processes, gateways that refuse or time out |
| `wallet_lost` | `MCWalletLost` | `Audited` fails | README.md:48-50 promises an audit trail of every movement |
| `desk_twice` | `MCOrderDeskTwice` | `PaidOnce` fails | README.md:54-55 promises a dedupe |
| `desk_bonus_only` | `MCOrderDeskBonusOnly` | `BonusOnly` fails | README.md:47 promises a bonus-only wallet |

### What holds, and how far

* Rewards are paid twice when two posts overlap (`PaidOnce` fails), but the rows of a
  reward, and the requests about to write one, are never more than there are workers
  (`RewardsBounded`). A worker that dies between payment and row leaves a payment
  that no row counts; `Backed` bounds what it can do to the balance.
* The rows always add up, even when requests overlap or die: the audit trail of a
  customer is what his orders earned and were refunded, less what they were charged
  (`LedgerAddsUp`). The balance is the sum of the rows when requests do not overlap:
  `WalletAccount`, which `desk_serial` implements, moves both in one step. When they
  overlap, updates are lost (`Audited` fails in `wallet_lost`), but no wallet goes below
  zero or above what was credited (`Solvent`, `Backed`). So what a race breaks is the
  balance, and the trail says what it should be. None of the properties of rows sees a
  payment whose row was lost with its worker, nor its repetition.
* `FairlyCharged` excepts, by `edited`, orders whose prices changed between the
  pricing and the transaction: those may fall below the minimum. That the wallet
  pays no more than the order costs holds for them too.
* `CartKept` and `OrderIsCart` speak of browsers whose requests never overlapped or
  died. Overlapping requests lose changes of the cart.
* `TrailBounded` is what remains of "at most once a minute": one row a minute for
  each worker.
* `CodesBounded` is what remains of the cooldown: one code for each request that is
  handled at once. `TriesCounted` excepts rows that two requests verified at once,
  whose wrong codes may count as one.
* `HasWallet` and `InvitedIsReferred` except requests that died between their two
  statements: an account can stay without its wallet (only that of a member) or
  without its referrer, and nothing repairs it.
* `ToldTruth` excepts transactions that are open or were rolled back: the customer
  can be told of an order that was never placed. `Announced` excepts every loss: no
  task is repeated when its process is killed.
* `CirclesAreSpent` is what remains of an order in which locks are taken: spins do
  deadlock, but never over a gift that can still be won. `SpinsFinish` includes the end
  by a failed query.
* `ReferralPaid` is checked with the broker up. With the broker away the bonus is lost
  with the notification that raised, unless the rider posts `delivered` again or the
  customer spins for a gift.
* `StockAddsUp` allows for pieces put back by a form opened before they were won; it
  says that none vanishes.

### Bounds, and why they are enough

* `MaxGranted`, `MaxOverspent` (wallet): credits and debits have no end. Two units
  suffice for a stale instance to be above or below the row, which is what the
  properties tell apart.
* `MaxRefunds`, `MaxGranted` (desk): cancel and assign may alternate for ever, and a
  death may repeat a reward. One repetition shows the effect; two in
  `desk_bonus_only`.
* `MaxSupplied` (gifts): a form may add stock for ever; one piece beyond the first
  is enough to be put back by a stale form. Both orders are large enough for both gifts
  (`FitAll`), so that two spins can want two gifts in opposite order; `BreakCircle` is
  taken in this run.
* `MaxQuantity`, two settings, two prices (checkout): what can be in the cart lies on
  both sides of each minimum and hits halves to be rounded. Staff touch one variant
  and rest after the first order; the second order is there for the cart.
* `MaxCodes` 3 (`TwoRows`, 2, where codes are typed), `MaxTries` 2, `Cooldown` and
  `Validity` 2 (sign-in): one row more than the requests that overlap, a row that is
  used up while another lives, a row that expires while it is being verified. `MaxLosses` 1: the exceptions of the
  properties need one death; a second shows nothing else.
* `MaxNotices` 7 (notices): a new order told to one and three changes told to two;
  `Tried` 3 tasks where the worker is tried. `MaxRetries` 1 stands for the tasks' 3: one try that is
  repeated and one that is the last.
* Two workers stand for the three: the races here are between two requests. With
  `SYMMETRY` over workers and riders, except in the runs with liveness.
* Riders: `TTL` 2, `Throttle` 1 and `Lifetime` 2 ticks stand for 90, 60 and 120 s;
  the properties need that a key can outlive a row's minute and a request can outlive
  a key. Pings and assignments are two halves of the run, as they meet only in the
  keys.

### Fairness

`RequestsFinish`, `DeliveryBonusPaid`, `ReferralPaid` and `SpinsFinish` assume that

* a worker that has a request goes on with it: `WF(Serve(w))`. Gunicorn's workers are
  processes the kernel schedules, and one that hangs is killed;
* a statement that waits for a row lock gets it if the row is free again and again:
  `SF(Serve(w))` in `OrderDesk`, where saves, rows and payments wait, and
  `SF(SpinLock(w))` in `GiftSpin`. PostgreSQL queues waiters;
* a deadlock is found: `WF(BreakCircle(w))`. PostgreSQL looks for one when a query has
  waited for `deadlock_timeout`, a second unless it is set.

`CodeArrives` and `Announced` assume as much of their parts:

* `WF(Proceed(c))` and `WF(Tick)`, and `SF(Ask(c))`: whoever wants a code asks again,
  and does not always come in the instants of a cooldown. Without somebody who asks,
  there is no code to arrive;
* `SF(Handle(r))`, since a save waits for a transaction's lock, and `WF(Work(n))`: the
  worker is restarted by systemd (`Restart=always`) and takes every task in the end.

Nothing makes users, staff, riders or failures happen. `desk_live` assumes a broker
that is up and no death: with the broker away, the exception of the notification skips
the referral bonus (see section 5).

## 4. The theorems

All for every set of customers, orders, workers, gifts and amounts, under the named
assumptions of the modules.

* `WalletProofs`: `TypeCorrect`, `NeverOverdrawn`, `NeverMinted`. `Solvent` alone is
  not inductive: `Open` copies a balance into an instance and a later write copies it
  back, so `Inv` says that instances are natural numbers and that neither row nor
  instance is above `granted`. A stale credit stays below what is granted with it; a
  stale debit tests the number it subtracts from.
  `AccountIsImplemented` is the refinement of `WalletAccount`: with one worker that does
  not die (`OneAtATime`), the instance in hand is the row (`Current`), which is what
  overlapping requests break; then each write moves the balance by the sum it was asked
  for, the trail is counted with the row about to be inserted, and the insert stutters.
  `BalanceIsAudited` says what a reader of the account wants: the balance is what the
  trail, with the row about to be inserted, adds up to; and `AuditedAlone` that the
  promise `wallet_lost` refutes, `Audited`, holds in that deployment.
* `OrderDeskProofs`, handlers that overlap: `TypeCorrect`, `CancelIsIsolated`,
  `RefundIsClosing`, `DeskImplementsWallet`, `NeverOverdrawn`. `IInv` says what a handler
  may rely on at each statement: its order exists, the wallet in hand belongs to whom it
  pays, money written and not yet recorded is exactly at `pc = "log"`, an order
  locked by `cancel_order` is open and one locked by `spin_gift` delivered. One lemma per action proves that `IInv` is kept and
  that the step is one of `Wallet`, or leaves it alone. `NeverOverdrawn` then follows by
  refinement, using the invariant of `WalletProofs` through INSTANCE.
* `OrderDeskProofs`, rewards: `RewardsAreEarned`, `RewardsStayBounded`. Neither is
  inductive. `EarnedInv` adds to both that whoever has saved "delivered" works on an
  order with a time of delivery, which no later status takes back (`Delivering`). For
  the bound, a request that is about to pay counts like the row it will write: it joins
  only while there is no row, when there are at most all workers, and leaves by writing
  one. `RewardsPaidOnce` is the corollary for one worker: the dedupe that `desk_twice`
  refutes for two workers then holds. It is about rows: a payment whose worker died
  before the row has none, and may be repeated.
* `OrderDeskProofs`, the ledger: `TheLedgerAddsUp`, for any number of workers, with
  deaths and broker failures. `LedgerAddsUp` sums over the orders of a customer and is
  not inductive: that a row is inserted with the right amount rests on the amount that
  was credited being that of the reward in hand (`DueIsReward`), and that placing an
  order changes one term only rests on it having had no customer, reward, refund or
  charge before (`Untouched`). `LedgerInv` is the three together. Each step changes the
  sums at one order (`SumChangedAt`), which needs them to be finite: `FiniteTables`.
  Deaths do not matter, as only rows that exist are counted.
  `BonusOnlyUnlessRefundedAgain` is its corollary about the promise that
  `desk_bonus_only` refutes: a second refund of an order is the only way to break it.
* `OrderDeskProofs`, the balance: `NeverMoreThanEarned` bounds it by the ledger and the
  rows about to be written, for any number of workers as long as none dies: a stale
  instance may lose what another request added, and never adds what nobody earned.
  `BalanceAddsUp` is the equality at rest for one worker, from `BalanceIsAudited`
  through `WalletProofs` and the ledger.
* `OrderDeskProofs`, no reward lost: `BonusIsNotLost`, `ReferralIsNotLost` and
  `DeliveredIsRewarded` are the safety core of `DeliveryBonusPaid` and `ReferralPaid`: as
  long as no worker dies, an order that was delivered has its row, or a request that
  still comes to pay it or to find it; with no request under way it has the row. The
  referral bonus needs a broker that is up, the delivery bonus does not: its receiver
  runs before the notifications that may raise. `RequestsAreShort` is the safety core
  of `RequestsFinish`: sixteen statements at most, each leaving fewer to take
  (`StatementsLeft`), and chains of waits that are short (`ShortWait`): a save or a
  reward's row waits for a cancellation or a spin of its order, those, payments and
  debits wait for a checkout that has debited the wallet (`WalletsHeld`), and that one
  waits for nobody.
* `OrderDeskProofs`, one request at a time: `DeskKeepsAccounts` hands
  `AccountIsImplemented` down to the handlers, and `DeskImplementsBook` shows that each
  handler with all its receivers is one step of `OrderBook`. The refinement mapping adds
  to balance and rows what the request in hand still owes (`Owed`, `OwesBonus`,
  `OwesReferral`), so the status write is the step of the book and each payment, row and
  skip after it leaves the mapped state alone: a payment lowers what is owed by what it
  adds to the balance, a test that finds a row owes nothing (`OwesSame`, `OwesNever`).
  `SerialInv` is what that needs: `Current`, and in `HandOK` that the rider was read for
  this order, that a reward about to be paid has no row, and that the referral bonus is
  settled when the view asks for the delivery bonus. The hypothesis `Serial` (one
  worker, no death, a broker that is up) is the one that `desk_serial` checks it under;
  without it the statement is false, as `desk_twice` shows.
* `CheckoutProofs`: `TypeCorrect`, `ChargesAreFair`, `CartsAreKept`, `OrdersAreCarts`,
  for every price list, row of settings and number of workers. Two arguments meet in
  `IInv`. `Followed`: as long as the requests of a browser never overlapped or died
  there is one of them at most, it holds the cart that is wanted, and the session says
  the same unless that request has changes to save. `PricesHold`: a request that priced
  its cart and was not overtaken by an edit of the catalog has a total, a fee and a
  share of the wallet that today's prices give too. Carts cost a sum over a set of
  variants, so this rests on `SumFacts`.
* `GiftSpinProofs`: `TypeCorrect` (with stock never negative), `WinnerIsIsolated`,
  `GiftsAreDrawnOnce`, `NoGiftVanishes`. `IInv` adds that a spin in hand holds the lock
  of its order, so that its tests stay true, and that the gift it waits for is one it
  found. `StockAddsUp` is not inductive alone: a form that was opened earlier becomes
  the stock, so `FormsAddUp` makes the same sum with the number in the form.
  `OnlySpentGiftsDeadlock` and `SpinsAreShort` are what `SpinsFinish` rests on: a lock
  belongs to a request that is under way, which won the gift or was turned away from it
  (`LocksOwned`), and a gift that someone was turned away from stays spent while it is
  locked; so who waits for a gift waits for a spin that has won it and waits for nothing,
  or the gift is spent, and whoever waits in a circle (`CirclesAreSpent`) waits for a
  spent gift. Each statement leaves a spin fewer to take (`StepsLeft`), at most two for
  each gift and three more.
* `SignInProofs`: `SignInTyped`, `CodesAreBounded`, `TriesAreCounted`, `WalletIsThere`,
  `InvitedStaysReferred`. Rows are as old as they come (`Ordered`), so when the newest
  is not cooling none is, and a request that passed the test counts as the row it will
  create (`CodesCounted`): the sum never exceeds the number of requests. A row verified
  by one request at a time is as that request has read it (`TriesRead`), so that
  writing `attempts` back is adding one. `InvitedExists` says that an account that does
  not exist yet was not invited. `CodesAreKept` and `CodesGetThrough` are the safety core
  of `CodeArrives`: a row whose message was not sent is in the hands of the request that
  created it, or is due to a loss that was counted, one each (`SendInv`); so with more
  rows than losses and requests, a code has gone out.
* `NoticesProofs`: `NoticesTyped`, `NoticesAreBounded`, `ToldIsTrue`. A task that is not
  concluded was refused as often as it was retried and arrived no more often
  (`TasksFit`); who tells after a save tells of what was saved (`SavedIsTold`), and who
  tells before the commit holds the lock (in `TypeOK`), so a lock that is free leaves no
  promise open. `NobodyIsForgotten` and `RestIsAnnounced` are the safety core of
  `Announced`, for any number of requests: whoever a status concerns was sent a message,
  or is on the list of the request that saved it (`TellInv`); a request only
  compares with a status the order really had (`KnownBefore`), so what it skips was told
  by another. At rest with nothing lost, everybody was told or every try was refused.
* `RiderDeskProofs`: `RiderTyped`, `AvailableIsAssigned`, `NearestIsAssigned`,
  `TrailIsBounded`, `TrackingIsKept`, for every TTL, throttle, lifetime and distance. A
  key is at least as old as the silence of its rider (`KeysAreFresh`) and a request's age
  bounds what its candidates did since it read them (`CandidatesOnDuty`,
  `LocatedReported`); what it read is so still unless something moved (`Unmoved`).
  `TrailInv` counts the rows within the throttle together with the pings that found none
  (`RowsAndDue`): a ping joins only when there is no row, and leaves by writing one. A
  tick moves rows up by one age, which takes rows out of the sum and puts none in
  (`SumShifted`). `Trailed` says that an order with a live position has a row, a ping on
  its way to one, or a lost one, so the position may expire.
* `SumFacts`: `SumUnfolds`, `SumTakenOut`, `SumChangedAt`, `SumOfNoMore`, `SumShifted`,
  `BoundKept`. The sums of `Checkout`, `OrderDesk` and `RiderDesk` are `SumFunctionOnSet`, a fold that adds values in an order
  that CHOOSE fixes. The library's induction theorems take a predicate as a parameter,
  which the provers cannot instantiate; here a set of "good" subsets takes its place
  (`SubsetInduction`, by `FS_StrictSubsetOrderingWellFounded`), so that the recursive
  function behind the fold is shown to exist, to unfold, and not to depend on the order.

The module assumptions: numbers are natural (and not zero where an amount moves or time
is divided by them), marker values are no members, and sets that a property counts or sums
over are finite: workers (three processes, `deploy.sh`), the variants of a catalog, the
requests for a number, and the orders of the gift spin. Some theorems ask for more, in
their statement: finitely many orders and customers (`FiniteTables`) or gifts, as tables
have; and one worker, no death, or a broker that is up, where they are about just that. `MCOrderDesk`, `MCRiderDesk`,
`MCCheckout` and the others extend these modules, so TLC evaluates every assumption.

Model-checked only:

* all liveness (`RequestsFinish`, `DeliveryBonusPaid`, `ReferralPaid`, `SpinsFinish`,
  `CodeArrives`, `Announced`): fairness and ENABLED are out of the
  prover's reach. What each rests on as safety is proved.

`Audited`, `BonusOnly` and `PaidOnce` are refuted by their runs; the theorems say on which
condition they hold. Every other invariant, action property and refinement that a run
checks is proved.

## 5. Disagreements met on the way

Each is in `PROJECT.json`, "findings", with the line it contradicts. Three have a run of
their own: lost updates of the balance (`wallet_lost`), rewards paid twice by
overlapping posts (`desk_twice`), and a second refund after a cancelled order is
assigned again (`desk_bonus_only`). The others but the last are steps of the models
that the properties except, by name or by a history variable:

* money: "on every purchase" against once per customer; a referral bonus lost with the
  broker, unless the order is saved once more by the rider or a spin;
* gifts and carts: a second spin after the gift was deleted; carts that lose changes;
  orders below the minimum after a price change in mid-request;
* riders: more than one ping row a minute;
* sign-in: a code that was never sent starts the cooldown; wrong codes tried at the
  same time count as one;
* notices: a customer is told of an order whose transaction was rolled back;
* the live map: `orders/views.py:451` names a template that is not there (the file lies
  one directory too deep), so the page is a 500 and is not modelled.

## 6. Not modelled, and the plan

Next, in this order:

1. the admin's order form (`OrderAdmin`), which saves columns as they were when it was
   opened: an action of `OrderDesk` that all of its theorems would have to be proved
   against again, and that the properties about rewards and refunds do not survive as
   they stand. A form of its own, over `OrderBook`, comes first;
2. areas and addresses: the choice of the nearest circle that contains a point, over
   constants for the distances.

Left out for good: the live map, as long as its page is not served (nobody reads its
feed, and its script, which draws answers out of order and removes no marker, never
runs); trigonometry on floats (distances are constants), the text of
messages, templates and style sheets, the catalog's read-only pages, the area and
rider dashboards (single reads that sort what they show), role checks (a filter on
one request), rate limits, deleting rows that others refer to, and the widths of
decimal columns.
